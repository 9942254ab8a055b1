------------------------------ MODULE WebServer ------------------------------
(***************************************************************************)
(* The tools a model searches and reads the web with: mcp/web_server.py,   *)
(* one process, one JSON-RPC message per line on stdin, one reply per line *)
(* on stdout.  A page is a sequence of bytes, and a byte is a word, a tag  *)
(* that opens or closes an element whose text is not shown (SKIP), or one  *)
(* of a title, an "&" that only what follows it can end, or a "<" that     *)
(* nothing after it ends; the other tags only lay the text out.  What a    *)
(* page, a name server or a search engine answers is open at every step.   *)
(***************************************************************************)
EXTENDS Naturals, Sequences, FiniteSets, SequencesExt, Functions

CONSTANTS
    Pages,          \* records of text (its type is), html and bytes
    Engines,        \* SEARCH_BACKENDS, in order
    Limits,         \* the max_chars of a call; 0 is none
    MAX_BYTES, MAX_CHARS,
    MIN_CHARS,      \* 500
    MAX_REDIRECTS,
    MaxLines        \* bound: lines of one conversation

ASSUME LimitsAssumption == Limits \subseteq Nat /\ {MAX_BYTES, MAX_CHARS, MIN_CHARS} \subseteq Nat
ASSUME PagesAssumption ==
    \A p \in Pages : p.text \in BOOLEAN /\ p.html \in BOOLEAN /\ p.bytes \in Seq(Range(p.bytes))
ASSUME EnginesAssumption == Engines \in Seq(Range(Engines)) /\ MAX_REDIRECTS \in Nat

VARIABLES
    lines,      \* the lines read so far
    replies,    \* the lines written so far
    call        \* the tool call the last line asks for

webVars == <<lines, replies, call>>

\* What a line can be: nothing to answer (blank, no JSON, a notification); a request
\* the loop answers itself (initialize, tools/list, ping, or no such method); a call
\* that cannot be made (no such tool, max_results "many"); a call, where a search may
\* find a key for Brave.  And what raises outside call_tool, which nothing catches: JSON
\* that is no object, and a request whose params are none.
Deadly == {"no object", "bad params"}
Lines == {"silent", "own", "bad call", "search", "search with key", "fetch"} \union Deadly

NoPage == [text |-> TRUE, html |-> FALSE, bytes |-> <<>>]
NoCall == [st |-> "none", limit |-> 0, hop |-> 0, page |-> NoPage, body |-> <<>>,
           late |-> FALSE, asked |-> 0, had |-> {}, result |-> <<>>]

Calling == call.st \notin {"none", "done", "failed"}
Ended == lines # <<>> /\ Last(lines) \in Deadly

WebTypeOK ==
    /\ lines \in Seq(Lines)
    /\ replies \in Seq([id : DOMAIN lines, isError : BOOLEAN])
    /\ call.st \in {"none", "hop", "asked", "reading", "brave", "engines",
                  "done", "failed"}
    /\ call.limit \in Limits \union {0}
    /\ call.hop \in 0 .. MAX_REDIRECTS
    /\ call.asked \in 0 .. Len(Engines) /\ call.had \subseteq ToSet(Engines)

WebInit == lines = <<>> /\ replies = <<>> /\ call = NoCall

-----------------------------------------------------------------------------
(* The text of a page *)

Tags == {"open", "close", "title", "/title"}

\* How many elements to skip are open: a tag that closes none is ignored.
Skips(x, byte) ==
    CASE byte = "open" -> x.skip + 1
      [] byte = "close" /\ x.skip > 0 -> x.skip - 1
      [] OTHER -> x.skip

\* handle_starttag, handle_endtag and handle_data of TextExtractor.
Handle(x, byte) ==
    [skip |-> Skips(x, byte),
     inTitle |-> byte = "title" \/ (x.inTitle /\ byte # "/title"),
     out |-> IF byte \in Tags \/ x.inTitle \/ x.skip > 0 THEN x.out
             ELSE Append(x.out, byte)]

\* Where what feed() keeps for later begins: at a "<" that is not ended; else, if an "&"
\* may go on, at the text after the last tag.  close() would hand it over.
Waiting(bytes, i) ==
    \/ \E j \in 1 .. i : bytes[j] = "<"
    \/ /\ bytes[Len(bytes)] = "&"
       /\ \A j \in i .. Len(bytes) : bytes[j] \notin Tags \union {"<"}
Handed(bytes) == SubSeq(bytes, 1, Cardinality({i \in DOMAIN bytes : ~Waiting(bytes, i)}))

NoText == [skip |-> 0, inTitle |-> FALSE, out |-> <<>>]
TextIn(bytes) ==
    LET after[n \in 0 .. Len(bytes)] ==
            IF n = 0 THEN NoText ELSE Handle(after[n - 1], bytes[n])
    IN  after[Len(bytes)].out

Extracted(raw) == TextIn(Handed(raw))

Clamped(limit) ==
    LET most == IF limit = 0 \/ limit > MAX_CHARS THEN MAX_CHARS ELSE limit
    IN  IF most < MIN_CHARS THEN MIN_CHARS ELSE most

Cut(s, n) == IF Len(s) > n THEN SubSeq(s, 1, n) ELSE s

\* What fetch returns of the body it has read.
Fetched ==
    LET raw == Cut(call.body, MAX_BYTES)
        text == IF call.page.html THEN Extracted(raw) ELSE raw
        most == Clamped(call.limit)
    IN  [text |-> Cut(text, most),
         truncated |-> Len(call.body) > MAX_BYTES \/ Len(text) > most]

-----------------------------------------------------------------------------
(* The loop *)

Reply(isError) == Append(replies, [id |-> Len(lines), isError |-> isError])

ReadLine(line) ==
    /\ ~Calling /\ ~Ended
    /\ Len(lines) < MaxLines
    /\ lines' = Append(lines, line)
    /\ replies' = CASE line = "own" -> Append(replies, [id |-> Len(lines'), isError |-> FALSE])
                    [] line = "bad call" -> Append(replies, [id |-> Len(lines'), isError |-> TRUE])
                    [] OTHER -> replies
    /\ \/ line = "fetch" /\ \E n \in Limits : call' = [NoCall EXCEPT !.st = "hop", !.limit = n]
       \/ line = "search" /\ call' = [NoCall EXCEPT !.st = "engines"]
       \/ line = "search with key" /\ call' = [NoCall EXCEPT !.st = "brave"]
       \/ line \in {"silent", "own", "bad call"} \union Deadly /\ call' = NoCall

Returns(result) ==
    /\ replies' = Reply(FALSE)
    /\ call' = [call EXCEPT !.st = "done", !.result = result]
    /\ UNCHANGED lines

\* Refused, or any other exception: call_tool makes a reply of it.
FailsIfRefused ==
    /\ replies' = IF call.st = "hop" THEN Reply(TRUE) ELSE replies
    /\ call' = [call EXCEPT !.st = "failed"]
    /\ UNCHANGED lines

Fails ==
    /\ replies' = Reply(TRUE)
    /\ call' = [call EXCEPT !.st = "failed"]
    /\ UNCHANGED lines

-----------------------------------------------------------------------------
(* fetch *)

Goes(c) == call' = c /\ UNCHANGED <<lines, replies>>

\* vet: the scheme, the host and every address it resolves to are as they must be.
Vet == call.st = "hop" /\ (Goes([call EXCEPT !.st = "asked"]) \/ Fails)

Redirected ==
    /\ call.st = "asked"
    /\ \/ call.hop < MAX_REDIRECTS /\ Goes([call EXCEPT !.st = "hop", !.hop = @ + 1])
       \/ call.hop = MAX_REDIRECTS /\ Fails

Answered(p) ==
    /\ call.st = "asked"
    /\ \/ p.text /\ Goes([call EXCEPT !.st = "reading", !.page = p])
       \/ ~p.text /\ Fails

\* Looked at after each chunk: there is too much, or it takes too long.
StopsAtLimit == Len(call.body) >= MAX_BYTES \/ call.late
Stops == Len(call.body) > MAX_BYTES \/ call.late

ReadsMore(n) ==
    /\ call.st = "reading" /\ ~Stops
    /\ n \in Len(call.body) + 1 .. Len(call.page.bytes)
    /\ \E late \in BOOLEAN :
          Goes([call EXCEPT !.body = SubSeq(call.page.bytes, 1, n), !.late = late])

FetchOver ==
    /\ call.st = "reading" /\ (Stops \/ call.body = call.page.bytes)
    /\ Returns(Fetched)

\* No connection, none in time, a body cut short, a codec that does not exist.
FetchRaises == call.st \in {"asked", "reading"} /\ Fails

-----------------------------------------------------------------------------
(* search *)

\* With a key, Brave alone is asked.
SearchesBrave == call.st = "brave" /\ (Returns("brave") \/ Fails)

Asked(had) == [call EXCEPT !.asked = @ + 1, !.had = had]

\* Without, one engine after the other, until one has results; one that raises is
\* like one that finds nothing.
EngineFinds ==
    /\ call.st = "engines" /\ call.asked < Len(Engines)
    /\ LET e == Engines[call.asked + 1]
       IN  /\ call' = [Asked({e}) EXCEPT !.st = "done", !.result = e]
           /\ replies' = Reply(FALSE)
    /\ UNCHANGED lines

EngineFindsNone ==
    /\ call.st = "engines" /\ call.asked < Len(Engines)
    /\ Goes(Asked(call.had))

NoEngineLeft == call.st = "engines" /\ call.asked = Len(Engines) /\ Fails

\* The client of the engines is imported before the first is asked.
ImportFails == call.st = "engines" /\ call.asked = 0 /\ Fails

-----------------------------------------------------------------------------
WebNext ==
    \/ \E line \in Lines : ReadLine(line)
    \/ Vet \/ Redirected \/ FetchOver \/ FetchRaises
    \/ \E p \in Pages : Answered(p)
    \/ \E n \in 1 .. Len(call.page.bytes) : ReadsMore(n)
    \/ SearchesBrave \/ EngineFinds \/ EngineFindsNone \/ NoEngineLeft \/ ImportFails

WebSpec == WebInit /\ [][WebNext]_webVars

-----------------------------------------------------------------------------
(* Properties *)

\* What TextExtractor means to show of a page, said without a state: a word is not shown
\* if from some byte on, up to it, more elements to skip are opened than closed, or if
\* the title is open.
CountOf(bytes, j, i, byte) == Cardinality({k \in j .. i : bytes[k] = byte})
HiddenAt(bytes, i) ==
    \E j \in 1 .. i : CountOf(bytes, j, i, "open") > CountOf(bytes, j, i, "close")
TitleAt(bytes, i) ==
    \E j \in 1 .. i : bytes[j] = "title" /\ \A k \in j .. i : bytes[k] # "/title"

ShownIn(bytes) ==
    {i \in DOMAIN bytes : bytes[i] \notin Tags /\ ~HiddenAt(bytes, i) /\ ~TitleAt(bytes, i)}

Shown(page) == IF page.html THEN ShownIn(page.bytes) ELSE DOMAIN page.bytes

\* The how-manieth of the bytes that are shown i is.
Rank(shown, i) == Cardinality({j \in shown : j <= i})

StartOf(text, page) ==
    /\ Len(text) <= Cardinality(Shown(page))
    /\ \A i \in Shown(page) : LET n == Rank(Shown(page), i)
                             IN  n <= Len(text) => text[n] = page.bytes[i]

\* A page that ends within a reference or a tag.
Unfinished(page) ==
    /\ page.html
    /\ \/ \E i \in DOMAIN page.bytes : page.bytes[i] = "<"
       \/ page.bytes # <<>> /\ Last(page.bytes) = "&"

\* mcp/web_server.py:129-205: what a tool's result says is true, with the exceptions the
\* code makes.  The text fetch returns is the beginning of what the extractor's rule
\* shows of the page, and all of it unless the result says that it is truncated, or the
\* time ran out (of which only elapsed_s tells), or the page ends within a reference or a
\* tag: however the body came in chunks and whichever limit was met first.  A search
\* names an engine that had results, and fails only when every engine was asked and none
\* had any, or before the first.
ResultsTell ==
    /\ (call.st = "done" /\ Last(lines) = "fetch") =>
          LET r == call.result
          IN  /\ StartOf(r.text, call.page)
              /\ \/ r.truncated \/ call.late \/ Unfinished(call.page)
                 \/ Len(r.text) = Cardinality(Shown(call.page))
    /\ (call.st = "done" /\ Last(lines) = "search") => call.result \in call.had
    /\ (call.st = "failed" /\ Last(lines) = "search") =>
          call.had = {} /\ call.asked \in {0, Len(Engines)}

\* The lines that ask for a reply, and those that have it: but for the one at work.
AsksReply(i) == lines[i] \notin {"silent", "no object"}
AtWork == IF Calling THEN {Len(lines)} ELSE {}
Answerable == {i \in DOMAIN lines : AsksReply(i) /\ lines[i] \notin Deadly} \ AtWork

\* mcp/web_server.py:236-272: whichever step of whichever call fails, every request read
\* has exactly one reply, in the order of the requests, and no other line has one: but
\* for the request at work, and one whose params are no object, which ends the loop.
RepliesInOrder ==
    /\ {replies[i].id : i \in DOMAIN replies} = Answerable
    /\ \A i, j \in DOMAIN replies : i < j => replies[i].id < replies[j].id

\* mcp/web_server.py:239, "report, never crash the stdio loop": every request read, but
\* for the one at work, has its reply.
EveryRequestReplied ==
    {replies[i].id : i \in DOMAIN replies} = {i \in DOMAIN lines : AsksReply(i)} \ AtWork

=============================================================================
