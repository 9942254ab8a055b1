------------------------------- MODULE Routing -------------------------------
(***************************************************************************)
(* How the gateway spreads requests over the peers in its table: replicas, *)
(* sticky sessions and in-flight counters (pick and forward of             *)
(* gateway/llm_gateway.py).                                                *)
(*                                                                         *)
(* A request counts itself in two places, captures the peer's record, and  *)
(* takes itself out again at one of three later points, when the table may *)
(* have lost the peer, or hold a new record under the same URL.  Meanwhile *)
(* heartbeats and polls change the table: any step of PeerTable.           *)
(***************************************************************************)
EXTENDS Naturals, Integers, PeerTable

CONSTANTS
    Mids,       \* ids of the router instances machines list: `name`, `name@1`
    Names,      \* what clients ask for: a base name or one of the ids
    BaseName,   \* base_name: the id without its `@N`
    Sessions,   \* session keys of clients
    NoSession,  \* a request with no session key
    NoMid,      \* a request that names no model
    NoPin,
    NoUrl,
    Reqs,       \* bound: the requests the gateway can carry at one time
    Unencodable,\* those of them with a header httpx cannot encode: not ASCII
    Unclosable  \* those whose response raises when it is closed

\* An answer is the set of ids it reports as loaded.
ASSUME AnswersAssumption == Answers \subseteq SUBSET Mids
ASSUME BaseNameAssumption == DOMAIN BaseName = Mids
ASSUME NoMidAssumption == NoMid \notin Mids
ASSUME NoUrlAssumption == NoUrl \notin Urls
ASSUME NoPinAssumption == NoPin \notin Urls \X Mids
ASSUME ReqsAssumption ==
    IsFiniteSet(Reqs) /\ Unencodable \subseteq Reqs /\ Unclosable \subseteq Reqs

VARIABLES
    req,        \* the requests in progress, and those an exception ended
    inflight,   \* p["inflight"] of the record in the table
    byReplica,  \* inflight_by_replica
    pins        \* (session, name) -> the copy its last request went to

vars == <<tableVars, req, inflight, byReplica, pins>>

Copies == Urls \X Mids

\* keyed: counted in byReplica.  held: the record the request captured is
\* still the one in the table.  raised: an exception has ended the handler of
\* the request before done() could run.
Free == "free"
NoReq == [st |-> Free, url |-> NoUrl, mid |-> NoMid, keyed |-> FALSE, held |-> FALSE]

Requests == [st : {Free, "dialing", "relaying", "raised"}, url : Urls \union {NoUrl},
             mid : Mids \union {NoMid}, keyed : BOOLEAN, held : BOOLEAN]

TypeOK ==
    /\ TableTypeOK
    /\ req \in [Reqs -> Requests]
    /\ inflight \in [Urls -> Nat]
    /\ byReplica \in [Copies -> Nat]
    /\ pins \in [Sessions \X Names -> Copies \union {NoPin}]

Init ==
    /\ TableInit
    /\ req = [q \in Reqs |-> NoReq]
    /\ inflight = [u \in Urls |-> 0]
    /\ byReplica = [c \in Copies |-> 0]
    /\ pins = [k \in Sessions \X Names |-> NoPin]

-----------------------------------------------------------------------------
(* pick *)

Loaded(u) == IF models[u] = Unpolled THEN {} ELSE models[u]

\* replicas_of: the loaded copies of a model on the peers that answer.
Ready(n) ==
    {c \in Copies : /\ c[1] \in peers /\ ok[c[1]]
                    /\ c[2] \in Loaded(c[1])
                    /\ c[2] = n \/ BaseName[c[2]] = n}

\* The copy with the fewest counted requests, then on the machine with the
\* fewest.
NoBusierMachine(c, d) == inflight[c[1]] <= inflight[d[1]]
NoBusier(c, d) ==
    \/ byReplica[c] < byReplica[d]
    \/ byReplica[c] = byReplica[d] /\ inflight[c[1]] <= inflight[d[1]]

LeastBusy(ready) == {c \in ready : \A d \in ready : NoBusier(c, d)}

\* A session goes back to its copy while that is ready, busy or not.
Pinned(s, n) == s # NoSession /\ pins[<<s, n>>] \in Ready(n)

Choice(s, n) == IF Pinned(s, n) THEN {pins[<<s, n>>]} ELSE LeastBusy(Ready(n))

-----------------------------------------------------------------------------
(* forward *)

InProgress(q) == req[q].st \in {"dialing", "relaying"}

\* Up to its first await a request counts itself; `replica` names the copy only
\* when the id differs from what the client asked for.
Start(q, u, m, keyed) ==
    /\ req[q].st = Free
    /\ req' = [req EXCEPT ![q] = [st |-> "dialing", url |-> u, mid |-> m,
                                  keyed |-> keyed, held |-> TRUE]]
    /\ inflight' = [inflight EXCEPT ![u] = @ + 1]
    /\ byReplica' = IF keyed THEN [byReplica EXCEPT ![<<u, m>>] = @ + 1]
                             ELSE byReplica

\* A request for a model; with no loaded copy the answer is 404 or 503.
Route(q, s, n) ==
    \E c \in Choice(s, n) :
        /\ Start(q, c[1], c[2], c[2] # n)
        /\ pins' = IF s = NoSession THEN pins ELSE [pins EXCEPT ![<<s, n>>] = c]
        /\ UNCHANGED tableVars

\* WebUI assets, /props, /health, POST /tools: any healthy peer.
RouteDefault(q) ==
    \E u \in peers :
        /\ ok[u]
        /\ Start(q, u, NoMid, FALSE)
        /\ UNCHANGED <<tableVars, pins>>

\* A request counts itself out of the record it captured, whatever record the
\* table holds under the URL by then,
CountedByUrl(r) == r.url \in peers
Counted(r) == r.held

\* and out of the replica count even if its machine has left.
KeyCountedIfListed(r) == r.keyed /\ r.url \in peers
KeyCounted(r) == r.keyed

\* done(): the request takes itself out of the record it captured, and out of
\* the replica count, which is kept at zero or above.
Done(q) ==
    LET r == req[q]
        c == <<r.url, r.mid>>
    IN  /\ req' = [req EXCEPT ![q] = NoReq]
        /\ inflight' = IF Counted(r) THEN [inflight EXCEPT ![r.url] = @ - 1] ELSE inflight
        /\ byReplica' = IF KeyCounted(r)
                        THEN [byReplica EXCEPT ![c] = IF @ > 0 THEN @ - 1 ELSE 0]
                        ELSE byReplica

\* The peer is not reached: 502, and nothing more is sent to it until a poll
\* gets through.
DialFails(q) ==
    /\ req[q].st = "dialing"
    /\ Done(q)
    /\ ok' = [ok EXCEPT ![req[q].url] = ~req[q].held /\ @]
    /\ UNCHANGED <<peers, models, pins>>

\* The peer answers; only a poll makes it routable again.
DialSucceeds(q) ==
    /\ req[q].st = "dialing"
    /\ req' = [req EXCEPT ![q].st = "relaying"]
    /\ UNCHANGED <<tableVars, inflight, byReplica, pins>>

\* An exception ends the handler: done() is not reached, and the request stays
\* counted for as long as the gateway runs.
Raise(q) ==
    /\ req' = [req EXCEPT ![q].st = "raised"]
    /\ UNCHANGED <<tableVars, inflight, byReplica, pins>>

\* build_request raises UnicodeEncodeError, which is no HTTPError: 500.
DialRaises(q) == q \in Unencodable /\ req[q].st = "dialing" /\ Raise(q)

\* Every `finally` closes the peer's response before it calls done().
RelayRaises(q) == q \in Unclosable /\ req[q].st = "relaying" /\ Raise(q)

\* The stream ends, the client goes away, or the WebUI's page is read and
\* rewritten: the finally clause runs.
RelayEnds(q) ==
    /\ req[q].st = "relaying"
    /\ Done(q)
    /\ UNCHANGED <<tableVars, pins>>

\* The poller forgets a pin not used for PIN_TTL.
PinExpires(k) ==
    /\ pins[k] # NoPin
    /\ pins' = [pins EXCEPT ![k] = NoPin]
    /\ UNCHANGED <<tableVars, req, inflight, byReplica>>

-----------------------------------------------------------------------------
(* The table changes under the requests. *)

\* A popped record takes its counter along; its requests go on and count
\* themselves out of a record nobody reads.
PeersDropped(gone) ==
    /\ Drop(gone)
    /\ inflight' = [u \in Urls |-> IF u \in gone THEN 0 ELSE inflight[u]]
    /\ req' = [q \in Reqs |-> IF req[q].url \in gone
                              THEN [req[q] EXCEPT !.held = FALSE] ELSE req[q]]
    /\ UNCHANGED <<byReplica, pins>>

PeerChanges(u) ==
    /\ \/ Insert(u) \/ Heal(u) \/ Fail(u)
       \/ \E a \in Answers, routable \in BOOLEAN : Learn(u, a, routable)
    /\ UNCHANGED <<req, inflight, byReplica, pins>>

-----------------------------------------------------------------------------
Next ==
    \/ \E q \in Reqs :
         \/ \E s \in Sessions \union {NoSession}, n \in Names : Route(q, s, n)
         \/ RouteDefault(q) \/ RelayEnds(q)
         \/ DialFails(q) \/ DialSucceeds(q) \/ DialRaises(q) \/ RelayRaises(q)
    \/ \E k \in Sessions \X Names : PinExpires(k)
    \/ \E gone \in SUBSET peers : PeersDropped(gone)
    \/ \E u \in Urls : PeerChanges(u)

Spec == Init /\ [][Next]_vars

-----------------------------------------------------------------------------
(* Properties *)

OnRecord(u) == {q \in Reqs : InProgress(q) /\ req[q].url = u /\ req[q].held}
AtCopy(c) == {q \in Reqs : InProgress(q) /\ req[q].url = c[1] /\ req[q].mid = c[2]}
Keyed(c) == {q \in AtCopy(c) : req[q].keyed}

\* Over, and still counted.
Raised(q) == req[q].st = "raised"
LeftOnRecord(u) == {q \in Reqs : Raised(q) /\ req[q].url = u /\ req[q].held}
LeftKeyed(c) ==
    {q \in Reqs : Raised(q) /\ req[q].keyed /\ req[q].url = c[1] /\ req[q].mid = c[2]}

\* gateway/llm_gateway.py:849-863: the machine counter of every record in the table
\* is the number of requests in progress that captured this record, and of those an
\* exception ended: a peer that leaves and returns while requests to it are running
\* starts at zero and never falls below, and nothing but an exception is counted for
\* longer than it runs.
InflightConserved ==
    \A u \in Urls : inflight[u] = Cardinality(OnRecord(u)) + Cardinality(LeftOnRecord(u))

\* gateway/llm_gateway.py:704: the replica counter is the number of requests in
\* progress that were counted at the copy, and of those an exception ended, across
\* every change of the table: done's max(0, ...) never has anything to cut off.
ReplicaCountConserved ==
    \A c \in Copies : byReplica[c] = Cardinality(Keyed(c)) + Cardinality(LeftKeyed(c))

\* README.md:175, "the gateway sends each request to the least busy copy": a
\* request that is not bound by its session goes to a copy on which no more
\* requests are running than on any other loaded copy.
LeastBusyCopy ==
    [][\A q \in Reqs : (~InProgress(q) /\ InProgress(q)') =>
         \A s \in Sessions \union {NoSession}, n \in Names :
           (~Pinned(s, n) /\ Route(q, s, n)) =>
              LET c == <<req'[q].url, req'[q].mid>>
              IN  \A d \in Ready(n) : Cardinality(AtCopy(c)) <= Cardinality(AtCopy(d))]_vars

\* The counter of a copy is what runs there: every request in progress asked for it by
\* another name than its id, and no exception has ended one.
CountIsRight(c) == AtCopy(c) = Keyed(c) /\ LeftKeyed(c) = {}

\* The same (README.md:175) between two copies whose counters are right, whoever else
\* is routed, leaves or fails in between.  A copy whose id is the base name itself, or
\* that clients ask for by its id, is not covered: its requests are not counted.
SpreadByName ==
    [][\A q \in Reqs : (~InProgress(q) /\ InProgress(q)') =>
         \A s \in Sessions \union {NoSession}, n \in Names :
           (~Pinned(s, n) /\ Route(q, s, n)) =>
              LET c == <<req'[q].url, req'[q].mid>>
              IN  \A d \in Ready(n) : (CountIsRight(c) /\ CountIsRight(d))
                      => Cardinality(AtCopy(c)) <= Cardinality(AtCopy(d))]_vars

=============================================================================
