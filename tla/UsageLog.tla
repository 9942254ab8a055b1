------------------------------ MODULE UsageLog ------------------------------
(***************************************************************************)
(* What the gateway writes down of the responses it relays: relay keeps    *)
(* the first and the last bytes of a stream, parse_usage reads the token   *)
(* counts out of both, log_usage appends one line, and usage_endpoint adds *)
(* the lines up (gateway/llm_gateway.py).  A byte is a key (with its       *)
(* quotes and colon), a digit, or anything else.  One response is relayed  *)
(* at a time: two at once share only the file, and a line is appended      *)
(* without an await.                                                       *)
(***************************************************************************)
EXTENDS Naturals, Sequences, FiniteSets, SequencesExt, FiniteSetsExt, Functions

CONSTANTS
    Keys,       \* input_tokens, output_tokens, ...
    Digits,
    Streams,    \* the bodies of responses, as sequences of bytes
    Window,     \* 8000 bytes
    MaxRecords, \* bound: responses that end
    MaxTorn     \* bound: writes that fail half-way

ASSUME BytesAssumption == Keys \intersect Digits = {}
ASSUME WindowAssumption == Window \in Nat \ {0}
ASSUME StreamsAssumption == \A b \in Streams : b \in Seq(Range(b))
ASSUME LogBounds == MaxRecords \in Nat /\ MaxTorn \in Nat

VARIABLES
    body,       \* the response, and how much of it was relayed
    relayed,
    head, tail,
    usage,      \* what was read from the last response, when it was over
    file,       \* gateway-usage.jsonl: records, torn records and ends of lines
    written,    \* records written without an error
    torn        \* writes that failed

relayVars == <<body, relayed, head, tail, usage>>
logVars == <<relayVars, file, written, torn>>

NoFigures == <<>>

LogTypeOK ==
    /\ body \in Streams
    /\ relayed \in 0 .. Len(body)
    /\ \A k \in DOMAIN usage : k \in Keys /\ usage[k] \in Seq(Digits)
    /\ file \in Seq({"record", "part", "newline"})
    /\ written \in 0 .. MaxRecords /\ torn \in 0 .. MaxTorn

LogInit ==
    /\ body \in Streams
    /\ relayed = 0
    /\ head = <<>> /\ tail = <<>>
    /\ usage = NoFigures
    /\ file = <<>>
    /\ written = 0 /\ torn = 0

-----------------------------------------------------------------------------
(* Reading figures *)

\* The regular expression finds a key where at least one digit follows.
FigureAt(buf, i) ==
    i < Len(buf) /\ buf[i] \in Keys /\ buf[i + 1] \in Digits

FigureEnd(buf, i) ==
    Max({j \in i + 1 .. Len(buf) : \A n \in i + 1 .. j : buf[n] \in Digits})

\* The digits.
Figure(buf, i) == SubSeq(buf, i + 1, FigureEnd(buf, i))

Positions(buf, k) == {i \in DOMAIN buf : FigureAt(buf, i) /\ buf[i] = k}

\* The last value seen, per key.
ParseUsage(buf) ==
    [k \in {key \in Keys : Positions(buf, key) # {}} |-> Figure(buf, Max(Positions(buf, k)))]

\* dict.update: what the end of the stream says counts.
HeadOverTail(h, t) ==
    [k \in DOMAIN h \union DOMAIN t |-> IF k \in DOMAIN h THEN h[k] ELSE t[k]]
Updated(h, t) ==
    [k \in DOMAIN h \union DOMAIN t |-> IF k \in DOMAIN t THEN t[k] ELSE h[k]]

LastBytes(buf) == SubSeq(buf, Max({1, Len(buf) - Window + 1}), Len(buf))

-----------------------------------------------------------------------------
(* Relaying *)

\* A chunk goes to the head as a whole while that is short, and to the tail always.
Chunk(n) ==
    LET chunk == SubSeq(body, relayed + 1, n)
    IN  /\ n \in relayed + 1 .. Len(body)
        /\ usage = NoFigures
        /\ relayed' = n
        /\ head' = IF Len(head) < Window THEN head \o chunk ELSE head
        /\ tail' = LastBytes(tail \o chunk)
        /\ UNCHANGED <<body, usage, file, written, torn>>

\* What log_usage leaves in the file: the line; or, when the disk is full or the
\* process ends, some of it, which may be all but its newline.
WriteRecord ==
    \/ /\ file' = file \o <<"record", "newline">>
       /\ written' = written + 1
       /\ UNCHANGED torn
    \/ /\ torn < MaxTorn
       /\ torn' = torn + 1
       /\ \E some \in {<<>>, <<"part">>, <<"record">>} : file' = file \o some
       /\ UNCHANGED written

\* The figures of the response so far.
FiguresRead == Updated(ParseUsage(head), ParseUsage(tail))

\* The stream is over, or the machine or the client is gone: in any case relay's
\* `finally` runs.  Nothing is logged for a response without figures.
RelayOver ==
    /\ usage = NoFigures
    /\ FiguresRead # NoFigures
    /\ written < MaxRecords
    /\ usage' = FiguresRead
    /\ WriteRecord
    /\ UNCHANGED <<body, relayed, head, tail>>

Another(b) ==
    /\ body' = b
    /\ relayed' = 0
    /\ head' = <<>> /\ tail' = <<>>
    /\ usage' = NoFigures
    /\ UNCHANGED <<file, written, torn>>

NextRequest(b) == (usage # NoFigures \/ FiguresRead = NoFigures) /\ Another(b)

\* The `finally` closes the machine's side before it logs: if that raises, figures
\* that were relayed are not logged at all.
CloseRaises(b) == usage = NoFigures /\ FiguresRead # NoFigures /\ Another(b)

LogNext ==
    \/ \E n \in 1 .. Len(body) : Chunk(n)
    \/ RelayOver
    \/ \E b \in Streams : NextRequest(b) \/ CloseRaises(b)

LogSpec == LogInit /\ [][LogNext]_logVars

-----------------------------------------------------------------------------
(* Reading the file *)

\* A line json.loads can read is one record and nothing else.
OneRecord(i) ==
    /\ file[i] = "record"
    /\ i = 1 \/ file[i - 1] = "newline"
    /\ i = Len(file) \/ file[i + 1] = "newline"

\* As if reading ended at the first line that cannot be read.
ReadUpToTorn ==
    {i \in DOMAIN file : OneRecord(i) /\ \A j \in 1 .. i : OneRecord(j) \/ file[j] = "newline"}
Readable == {i \in DOMAIN file : OneRecord(i)}

\* The requests usage_endpoint counts.
Requests == Cardinality(Readable)

-----------------------------------------------------------------------------
(* Properties *)

Relayed == SubSeq(body, 1, relayed)

\* A figure that is whole in the first or in the last bytes.
AtAnEdge(buf, i) == FigureEnd(buf, i) <= Window \/ i > Len(buf) - Window

\* gateway/llm_gateway.py:875-877, "both ends of the stream matter": if every figure
\* of a response is whole in its first or in its last Window bytes, what is logged
\* is what reading the whole response would give, however it comes in chunks,
\* wherever a window or a lost connection cuts it, and whether the ends overlap.
FiguresExact ==
    (usage # NoFigures /\ \A i \in DOMAIN Relayed : FigureAt(Relayed, i) => AtAnEdge(Relayed, i))
        => usage = ParseUsage(Relayed)

\* gateway/llm_gateway.py:676, "One JSON line per request": a write that fails
\* half-way costs its own record and at most one written after it, and counts
\* nothing twice, whatever is appended to what it left.
TornCostsOne ==
    /\ written <= Requests + torn
    /\ Requests <= written + torn

=============================================================================
