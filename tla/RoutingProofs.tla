--------------------------- MODULE RoutingProofs ---------------------------
(***************************************************************************)
(* The counters of the gateway are exact, and requests for a base name are *)
(* spread by what they count, for any number of machines, copies, sessions *)
(* and requests; and what PeerTable promises.                              *)
(*                                                                         *)
(* The counters alone are not inductive: a request that ends subtracts at  *)
(* the URL and the copy it remembers, so the invariant also says what a    *)
(* request may remember (Consistent).                                      *)
(***************************************************************************)
EXTENDS Routing, FiniteSetTheorems, TLAPS

-----------------------------------------------------------------------------
(* What the table promises follows from its steps, for any set of URLs. *)

TableInv == TableTypeOK /\ RoutableWasHeard

LEMMA TableInvInit == TableInit => TableInv
BY DEF TableInit, TableInv, TableTypeOK, RoutableWasHeard

LEMMA TableInvNext == TableInv /\ [TableNext]_tableVars => TableInv'
<1> SUFFICES ASSUME TableInv, [TableNext]_tableVars PROVE TableInv'
  OBVIOUS
<1> USE UnpolledAssumption DEF TableInv, TableTypeOK, RoutableWasHeard
<1>1. ASSUME NEW u \in Urls, Insert(u) PROVE TableInv'
  BY <1>1 DEF Insert
<1>2. ASSUME NEW u \in Urls, Heal(u) PROVE TableInv'
  BY <1>2 DEF Heal
<1>3. ASSUME NEW u \in Urls, Fail(u) PROVE TableInv'
  BY <1>3 DEF Fail
<1>4. ASSUME NEW u \in Urls, NEW a \in Answers, NEW routable \in BOOLEAN,
             Learn(u, a, routable)
      PROVE  TableInv'
  <2>1. TableTypeOK'
    BY <1>4 DEF Learn
  <2>2. RoutableWasHeard'
    BY <1>4 DEF Learn
  <2> QED BY <2>1, <2>2
<1>5. ASSUME NEW gone \in SUBSET peers, Drop(gone) PROVE TableInv'
  <2>1. TableTypeOK'
    BY <1>5 DEF Drop
  <2>2. RoutableWasHeard'
    BY <1>5 DEF Drop
  <2> QED BY <2>1, <2>2
<1>6. CASE UNCHANGED tableVars
  BY <1>6 DEF tableVars
<1> QED BY <1>1, <1>2, <1>3, <1>4, <1>5, <1>6 DEF TableNext

\* A peer the gateway sends requests to is in the table and has answered since
\* it entered it, in every behaviour of the table.
THEOREM TableRoutesToHeard == TableSpec => []RoutableWasHeard
<1>1. TableInv => RoutableWasHeard
  BY DEF TableInv
<1> QED BY <1>1, TableInvInit, TableInvNext, PTL DEF TableSpec

-----------------------------------------------------------------------------
(* The counters *)

\* A request that is counted: in progress, or ended by an exception.
Counting(q) == req[q].st # Free
CountedOn(u) == {q \in Reqs : Counting(q) /\ req[q].url = u /\ req[q].held}
KeyedAt(c) ==
    {q \in Reqs : Counting(q) /\ req[q].keyed /\ req[q].url = c[1] /\ req[q].mid = c[2]}

InflightExact == \A u \in Urls : inflight[u] = Cardinality(CountedOn(u))
ReplicaExact == \A c \in Copies : byReplica[c] = Cardinality(KeyedAt(c))

\* What a request that is counted, and one that is not, can remember.
Consistent ==
    \A q \in Reqs :
        /\ Counting(q) => req[q].url \in Urls
        /\ req[q].keyed => Counting(q) /\ req[q].mid \in Mids
        /\ req[q].held => Counting(q) /\ req[q].url \in peers

RoutingInv == TypeOK /\ Consistent /\ InflightExact /\ ReplicaExact

\* Sets of requests are finite, so that their cardinality is a number.
LEMMA RequestSetsFinite ==
    ASSUME NEW S \in SUBSET Reqs
    PROVE  IsFiniteSet(S) /\ Cardinality(S) \in Nat
BY ReqsAssumption, FS_Subset, FS_CardinalityType

LEMMA OneMore ==
    ASSUME NEW S \in SUBSET Reqs, NEW q, q \notin S
    PROVE  Cardinality(S \union {q}) = Cardinality(S) + 1
BY RequestSetsFinite, FS_AddElement

LEMMA OneLess ==
    ASSUME NEW S \in SUBSET Reqs, NEW q \in S
    PROVE  /\ Cardinality(S \ {q}) = Cardinality(S) - 1
           /\ Cardinality(S) > 0
<1>1. Cardinality(S \ {q}) = Cardinality(S) - 1
  BY RequestSetsFinite, FS_RemoveElement
<1>2. Cardinality(S \ {q}) \in Nat /\ Cardinality(S) \in Nat
  BY RequestSetsFinite
<1> QED BY <1>1, <1>2

LEMMA RoutingInvInit == Init => RoutingInv
<1> SUFFICES ASSUME Init PROVE RoutingInv
  OBVIOUS
<1>1. TypeOK
  BY DEF Init, TypeOK, TableInit, TableTypeOK, Requests, NoReq, Copies, Free
<1>2. Consistent
  BY DEF Init, Consistent, Counting, NoReq, Free
<1>3. \A u \in Urls : CountedOn(u) = {}
  BY DEF Init, CountedOn, Counting, NoReq, Free
<1>4. \A c \in Copies : KeyedAt(c) = {}
  BY DEF Init, KeyedAt, Counting, NoReq, Free
<1>5. InflightExact
  BY <1>3, FS_EmptySet DEF Init, InflightExact
<1>6. ReplicaExact
  BY <1>4, FS_EmptySet DEF Init, ReplicaExact
<1> QED BY <1>1, <1>2, <1>5, <1>6 DEF RoutingInv

\* A request that starts is counted once at its machine, and at its copy if it
\* is keyed.
LEMMA StartCounts ==
    ASSUME RoutingInv, NEW q \in Reqs, NEW u \in Urls, NEW m \in Mids \union {NoMid},
           NEW keyed \in BOOLEAN, keyed => m \in Mids, u \in peers,
           Start(q, u, m, keyed), peers' = peers
    PROVE  /\ req' \in [Reqs -> Requests]
           /\ inflight' \in [Urls -> Nat] /\ byReplica' \in [Copies -> Nat]
           /\ Consistent' /\ InflightExact' /\ ReplicaExact'
<1> USE DEF RoutingInv, TypeOK
<1>1. req' \in [Reqs -> Requests]
  BY DEF Start, Requests
<1>2. inflight' \in [Urls -> Nat] /\ byReplica' \in [Copies -> Nat]
  BY DEF Start, Copies
<1>3. Consistent'
  BY DEF Start, Consistent, Counting, Free
<1>4. InflightExact'
  <2> SUFFICES ASSUME NEW v \in Urls PROVE inflight'[v] = Cardinality(CountedOn(v)')
    BY DEF InflightExact
  <2>1. inflight[v] = Cardinality(CountedOn(v)) /\ CountedOn(v) \in SUBSET Reqs
    BY DEF InflightExact, CountedOn
  <2>2. CASE v = u
    <3>1. q \notin CountedOn(u) /\ CountedOn(u)' = CountedOn(u) \union {q}
      BY DEF Start, CountedOn, Counting, Free
    <3> QED BY <2>1, <2>2, <3>1, OneMore DEF Start
  <2>3. CASE v # u
    <3>1. CountedOn(v)' = CountedOn(v)
      BY <2>3 DEF Start, CountedOn, Counting, Free
    <3> QED BY <2>1, <2>3, <3>1 DEF Start
  <2> QED BY <2>2, <2>3
<1>5. ReplicaExact'
  <2> SUFFICES ASSUME NEW c \in Copies PROVE byReplica'[c] = Cardinality(KeyedAt(c)')
    BY DEF ReplicaExact
  <2>1. byReplica[c] = Cardinality(KeyedAt(c)) /\ KeyedAt(c) \in SUBSET Reqs
    BY DEF ReplicaExact, KeyedAt
  <2>2. CASE keyed /\ c = <<u, m>>
    <3>1. q \notin KeyedAt(c) /\ KeyedAt(c)' = KeyedAt(c) \union {q}
      BY <2>2 DEF Start, KeyedAt, Counting, Free
    <3> QED BY <2>1, <2>2, <3>1, OneMore DEF Start
  <2>3. CASE ~(keyed /\ c = <<u, m>>)
    <3>1. c = <<c[1], c[2]>>
      BY DEF Copies
    <3>2. KeyedAt(c)' = KeyedAt(c)
      BY <2>3, <3>1 DEF Start, KeyedAt, Counting, Free
    <3>3. byReplica'[c] = byReplica[c]
      BY <2>3 DEF Start
    <3> QED BY <2>1, <3>2, <3>3
  <2> QED BY <2>2, <2>3
<1> QED BY <1>1, <1>2, <1>3, <1>4, <1>5

\* A request that ends takes out what it added, unless the record is gone.
LEMMA DoneCounts ==
    ASSUME RoutingInv, NEW q \in Reqs, Counting(q), Done(q), peers' = peers
    PROVE  /\ req' \in [Reqs -> Requests]
           /\ inflight' \in [Urls -> Nat] /\ byReplica' \in [Copies -> Nat]
           /\ Consistent' /\ InflightExact' /\ ReplicaExact'
<1> USE DEF RoutingInv, TypeOK
<1> DEFINE r == req[q]
           c0 == <<r.url, r.mid>>
<1>0. r \in Requests /\ r.url \in Urls /\ (r.keyed => c0 \in Copies)
  BY DEF Consistent, Copies
<1>1. req' \in [Reqs -> Requests]
  BY DEF Done, Requests, NoReq, Free
<1>2. inflight' \in [Urls -> Nat] /\ byReplica' \in [Copies -> Nat]
  <2>1. inflight' \in [Urls -> Nat]
    <3>1. r.held => inflight[r.url] > 0
      <4>1. r.held => q \in CountedOn(r.url) /\ CountedOn(r.url) \in SUBSET Reqs
        BY DEF CountedOn
      <4> QED BY <1>0, <4>1, OneLess DEF InflightExact
    <3> QED BY <1>0, <3>1 DEF Done, Counted
  <2>2. CASE r.keyed
    BY <1>0, <2>1, <2>2 DEF Done, KeyCounted
  <2>3. CASE ~r.keyed
    BY <2>1, <2>3 DEF Done, KeyCounted
  <2> QED BY <2>2, <2>3
<1>3. Consistent'
  BY DEF Done, Consistent, Counting, NoReq, Free
<1>4. InflightExact'
  <2> SUFFICES ASSUME NEW v \in Urls PROVE inflight'[v] = Cardinality(CountedOn(v)')
    BY DEF InflightExact
  <2>1. inflight[v] = Cardinality(CountedOn(v)) /\ CountedOn(v) \in SUBSET Reqs
    BY DEF InflightExact, CountedOn
  <2>2. CASE r.held /\ v = r.url
    <3>1. q \in CountedOn(v) /\ CountedOn(v)' = CountedOn(v) \ {q}
      BY <2>2 DEF Done, CountedOn, Counting, NoReq, Free
    <3> QED BY <2>1, <2>2, <3>1, OneLess DEF Done, Counted
  <2>3. CASE ~(r.held /\ v = r.url)
    <3>1. CountedOn(v)' = CountedOn(v)
      BY <2>3 DEF Done, CountedOn, Counting, NoReq, Free
    <3>2. inflight'[v] = inflight[v]
      BY <2>3, <1>0 DEF Done, Counted
    <3> QED BY <2>1, <3>1, <3>2
  <2> QED BY <2>2, <2>3
<1>5. ReplicaExact'
  <2> SUFFICES ASSUME NEW c \in Copies PROVE byReplica'[c] = Cardinality(KeyedAt(c)')
    BY DEF ReplicaExact
  <2>1. byReplica[c] = Cardinality(KeyedAt(c)) /\ KeyedAt(c) \in SUBSET Reqs
    BY DEF ReplicaExact, KeyedAt
  <2>2. CASE r.keyed /\ c = c0
    <3>1. q \in KeyedAt(c) /\ KeyedAt(c)' = KeyedAt(c) \ {q}
      BY <2>2 DEF Done, KeyedAt, Counting, NoReq, Free
    <3> QED BY <2>1, <2>2, <3>1, OneLess DEF Done, KeyCounted
  <2>3. CASE ~(r.keyed /\ c = c0)
    <3>1. c = <<c[1], c[2]>>
      BY DEF Copies
    <3>2. KeyedAt(c)' = KeyedAt(c)
      BY <2>3, <3>1 DEF Done, KeyedAt, Counting, NoReq, Free
    <3>3. byReplica'[c] = byReplica[c]
      BY <2>3 DEF Done, KeyCounted
    <3> QED BY <2>1, <3>2, <3>3
  <2> QED BY <2>2, <2>3
<1> QED BY <1>1, <1>2, <1>3, <1>4, <1>5

LEMMA RoutingInvNext == RoutingInv /\ [Next]_vars => RoutingInv'
<1> SUFFICES ASSUME RoutingInv, [Next]_vars PROVE RoutingInv'
  OBVIOUS
<1> USE DEF RoutingInv
<1>1. ASSUME NEW q \in Reqs, NEW s \in Sessions \union {NoSession},
             NEW n \in Names, Route(q, s, n)
      PROVE  RoutingInv'
  <2>1. PICK c \in Choice(s, n) :
          /\ Start(q, c[1], c[2], c[2] # n)
          /\ pins' = IF s = NoSession THEN pins ELSE [pins EXCEPT ![<<s, n>>] = c]
          /\ UNCHANGED tableVars
    BY <1>1 DEF Route
  <2>2. c \in Copies /\ c[1] \in peers
    BY DEF Choice, Pinned, LeastBusy, Ready
  <2>3. pins' \in [Sessions \X Names -> Copies \union {NoPin}]
    BY <2>1, <2>2 DEF TypeOK
  <2>4. TableTypeOK' /\ peers' = peers
    BY <2>1 DEF TypeOK, TableTypeOK, tableVars
  <2>5. c[1] \in Urls /\ c[2] \in Mids /\ (c[2] # n) \in BOOLEAN
    BY <2>2 DEF Copies
  <2> QED BY <2>1, <2>2, <2>3, <2>4, <2>5, StartCounts DEF TypeOK
<1>2. ASSUME NEW q \in Reqs, RouteDefault(q) PROVE RoutingInv'
  <2>1. PICK u \in peers : Start(q, u, NoMid, FALSE) /\ UNCHANGED <<tableVars, pins>>
    BY <1>2 DEF RouteDefault
  <2>2. u \in Urls
    BY DEF TypeOK, TableTypeOK
  <2>3. /\ TableTypeOK' /\ peers' = peers
        /\ pins' \in [Sessions \X Names -> Copies \union {NoPin}]
    BY <2>1 DEF TypeOK, TableTypeOK, tableVars
  <2> QED BY <2>1, <2>2, <2>3, StartCounts DEF TypeOK
<1>3. ASSUME NEW q \in Reqs, DialFails(q) PROVE RoutingInv'
  <2>1. Counting(q) /\ Done(q) /\ peers' = peers
    BY <1>3 DEF DialFails, Counting, Free
  <2>2. TableTypeOK' /\ pins' \in [Sessions \X Names -> Copies \union {NoPin}]
    BY <1>3 DEF DialFails, TypeOK, TableTypeOK
  <2> QED BY <2>1, <2>2, DoneCounts DEF TypeOK
<1>4. ASSUME NEW q \in Reqs, DialSucceeds(q) PROVE RoutingInv'
  <2>1. TypeOK'
    BY <1>4 DEF DialSucceeds, TypeOK, TableTypeOK, tableVars, Requests
  <2>2. Consistent'
    BY <1>4 DEF DialSucceeds, TypeOK, Consistent, Counting, Free, Requests, tableVars
  <2>3. /\ \A u \in Urls : CountedOn(u)' = CountedOn(u)
        /\ \A c \in Copies : KeyedAt(c)' = KeyedAt(c)
    BY <1>4 DEF DialSucceeds, TypeOK, CountedOn, KeyedAt, Counting, Free, Requests
  <2>4. InflightExact'
    BY <1>4, <2>3 DEF DialSucceeds, InflightExact
  <2>5. ReplicaExact'
    BY <1>4, <2>3 DEF DialSucceeds, ReplicaExact
  <2> QED BY <2>1, <2>2, <2>4, <2>5
<1>10. ASSUME NEW q \in Reqs, DialRaises(q) \/ RelayRaises(q) PROVE RoutingInv'
  <2>1. req[q].st \in {"dialing", "relaying"} /\ Raise(q)
    BY <1>10 DEF DialRaises, RelayRaises
  <2>2. TypeOK'
    BY <2>1 DEF Raise, TypeOK, TableTypeOK, tableVars, Requests
  <2>3. Consistent'
    BY <2>1 DEF Raise, TypeOK, Consistent, Counting, Free, Requests, tableVars
  <2>4. /\ \A u \in Urls : CountedOn(u)' = CountedOn(u)
        /\ \A c \in Copies : KeyedAt(c)' = KeyedAt(c)
    BY <2>1 DEF Raise, TypeOK, CountedOn, KeyedAt, Counting, Free, Requests
  <2>5. InflightExact'
    BY <2>1, <2>4 DEF Raise, InflightExact
  <2>6. ReplicaExact'
    BY <2>1, <2>4 DEF Raise, ReplicaExact
  <2> QED BY <2>2, <2>3, <2>5, <2>6
<1>5. ASSUME NEW q \in Reqs, RelayEnds(q) PROVE RoutingInv'
  <2>1. Counting(q) /\ Done(q) /\ peers' = peers
    BY <1>5 DEF RelayEnds, Counting, Free, tableVars
  <2>2. TableTypeOK' /\ pins' \in [Sessions \X Names -> Copies \union {NoPin}]
    BY <1>5 DEF RelayEnds, TypeOK, TableTypeOK, tableVars
  <2> QED BY <2>1, <2>2, DoneCounts DEF TypeOK
<1>6. ASSUME NEW k \in Sessions \X Names, PinExpires(k) PROVE RoutingInv'
  <2>1. /\ UNCHANGED <<peers, ok, models, req, inflight, byReplica>>
        /\ pins' = [pins EXCEPT ![k] = NoPin]
    BY <1>6 DEF PinExpires, tableVars
  <2> QED BY <2>1 DEF TypeOK, TableTypeOK, Consistent, Counting, InflightExact,
                      ReplicaExact, CountedOn, KeyedAt
<1>7. ASSUME NEW gone \in SUBSET peers, PeersDropped(gone) PROVE RoutingInv'
  <2>1. TypeOK'
    <3>1. TableTypeOK'
      BY <1>7 DEF PeersDropped, Drop, TypeOK, TableTypeOK
    <3>2. req' \in [Reqs -> Requests]
      <4>1. ASSUME NEW q \in Reqs
            PROVE  req[q] \in Requests /\ [req[q] EXCEPT !.held = FALSE] \in Requests
        BY DEF TypeOK, Requests
      <4> QED BY <1>7, <4>1 DEF PeersDropped
    <3>3. inflight' \in [Urls -> Nat] /\ UNCHANGED <<byReplica, pins>>
      BY <1>7 DEF PeersDropped, TypeOK
    <3> QED BY <3>1, <3>2, <3>3 DEF TypeOK
  <2>2. Consistent'
    BY <1>7 DEF PeersDropped, Drop, TypeOK, Requests, Consistent, Counting, Free
  <2>3. InflightExact'
    <3>1. ASSUME NEW u \in gone PROVE CountedOn(u)' = {}
      BY <1>7 DEF PeersDropped, CountedOn, Counting, TypeOK, Requests
    <3>2. ASSUME NEW u \in Urls \ gone PROVE CountedOn(u)' = CountedOn(u)
      BY <1>7 DEF PeersDropped, CountedOn, Counting, TypeOK, Requests
    <3> QED BY <1>7, <3>1, <3>2, FS_EmptySet DEF PeersDropped, InflightExact
  <2>4. ReplicaExact'
    <3>1. ASSUME NEW c \in Copies PROVE KeyedAt(c)' = KeyedAt(c)
      BY <1>7 DEF PeersDropped, KeyedAt, Counting, TypeOK, Requests
    <3> QED BY <1>7, <3>1 DEF PeersDropped, ReplicaExact
  <2> QED BY <2>1, <2>2, <2>3, <2>4
<1>8. ASSUME NEW u \in Urls, PeerChanges(u) PROVE RoutingInv'
  <2>1. UNCHANGED <<req, inflight, byReplica, pins>>
    BY <1>8 DEF PeerChanges
  <2>2. TableTypeOK' /\ peers \subseteq peers'
    BY <1>8 DEF PeerChanges, Insert, Heal, Fail, Learn, TypeOK, TableTypeOK
  <2> QED BY <2>1, <2>2 DEF TypeOK, Consistent, Counting, InflightExact,
                      ReplicaExact, CountedOn, KeyedAt
<1>9. CASE UNCHANGED vars
  BY <1>9 DEF vars, tableVars, TypeOK, TableTypeOK, Consistent, Counting,
              InflightExact, ReplicaExact, CountedOn, KeyedAt
<1> QED BY <1>1, <1>2, <1>3, <1>4, <1>5, <1>6, <1>7, <1>8, <1>9, <1>10 DEF Next

\* The state of the router always has its type.
THEOREM RoutingTypes == Spec => []TypeOK
<1>1. RoutingInv => TypeOK
  BY DEF RoutingInv
<1> QED BY <1>1, RoutingInvInit, RoutingInvNext, PTL DEF Spec

\* What is counted is in progress or was ended by an exception, not both.
LEMMA CountsSplit ==
    ASSUME RoutingInv
    PROVE  InflightConserved /\ ReplicaCountConserved
<1>1. ASSUME NEW A \in SUBSET Reqs, NEW B \in SUBSET Reqs, A \intersect B = {}
      PROVE  Cardinality(A \union B) = Cardinality(A) + Cardinality(B)
  <2>1. Cardinality(A \union B) = Cardinality(A) + Cardinality(B) - Cardinality(A \intersect B)
    BY RequestSetsFinite, FS_Union
  <2>2. Cardinality(A \intersect B) = 0
    BY <1>1, FS_EmptySet
  <2> QED
    BY <2>1, <2>2, RequestSetsFinite
<1>2. \A q \in Reqs : Counting(q) <=> InProgress(q) \/ Raised(q)
  BY DEF RoutingInv, TypeOK, Requests, Counting, InProgress, Raised, Free
<1>3. \A q \in Reqs : ~(InProgress(q) /\ Raised(q))
  BY DEF InProgress, Raised
<1>4. ASSUME NEW u \in Urls
      PROVE  inflight[u] = Cardinality(OnRecord(u)) + Cardinality(LeftOnRecord(u))
  <2>1. CountedOn(u) = OnRecord(u) \union LeftOnRecord(u)
    BY <1>2 DEF CountedOn, OnRecord, LeftOnRecord
  <2>2. OnRecord(u) \intersect LeftOnRecord(u) = {}
    BY <1>3 DEF OnRecord, LeftOnRecord
  <2>3. OnRecord(u) \in SUBSET Reqs /\ LeftOnRecord(u) \in SUBSET Reqs
    BY DEF OnRecord, LeftOnRecord
  <2> QED
    BY <1>1, <2>1, <2>2, <2>3 DEF RoutingInv, InflightExact
<1>5. ASSUME NEW c \in Copies
      PROVE  byReplica[c] = Cardinality(Keyed(c)) + Cardinality(LeftKeyed(c))
  <2>1. KeyedAt(c) = Keyed(c) \union LeftKeyed(c)
    BY <1>2 DEF KeyedAt, Keyed, AtCopy, LeftKeyed
  <2>2. Keyed(c) \intersect LeftKeyed(c) = {}
    BY <1>3 DEF Keyed, AtCopy, LeftKeyed
  <2>3. Keyed(c) \in SUBSET Reqs /\ LeftKeyed(c) \in SUBSET Reqs
    BY DEF Keyed, AtCopy, LeftKeyed
  <2> QED
    BY <1>1, <2>1, <2>2, <2>3 DEF RoutingInv, ReplicaExact
<1> QED
  BY <1>4, <1>5 DEF InflightConserved, ReplicaCountConserved

\* done() restores exactly what forward added to p["inflight"]: no number of
\* departures and returns of machines makes the counter drift or go negative, and only
\* an exception leaves a request counted.
THEOREM InflightIsConserved == Spec => []InflightConserved
BY CountsSplit, RoutingInvInit, RoutingInvNext, PTL DEF Spec

\* inflight_by_replica counts the keyed requests in progress, and those an exception
\* ended.
THEOREM ReplicaCountIsConserved == Spec => []ReplicaCountConserved
BY CountsSplit, RoutingInvInit, RoutingInvNext, PTL DEF Spec

-----------------------------------------------------------------------------
(* What the counters are for *)

LEMMA SpreadStep ==
    ASSUME RoutingInv, NEW q \in Reqs, NEW s \in Sessions \union {NoSession},
           NEW n \in Names, ~Pinned(s, n), Route(q, s, n), NEW d \in Ready(n),
           CountIsRight(<<req'[q].url, req'[q].mid>>), CountIsRight(d)
    PROVE  Cardinality(AtCopy(<<req'[q].url, req'[q].mid>>)) <= Cardinality(AtCopy(d))
<1>1. PICK c \in LeastBusy(Ready(n)) : Start(q, c[1], c[2], c[2] # n)
  BY DEF Route, Choice
<1>2. c \in Copies /\ d \in Copies /\ c = <<c[1], c[2]>>
  BY DEF LeastBusy, Ready, Copies
<1>3. <<req'[q].url, req'[q].mid>> = c
  BY <1>1, <1>2 DEF Start, RoutingInv, TypeOK
<1>4. byReplica[c] \in Nat /\ byReplica[d] \in Nat
  BY <1>2 DEF RoutingInv, TypeOK
<1>5. byReplica[c] <= byReplica[d]
  BY <1>1, <1>4 DEF LeastBusy, NoBusier
<1>6. ASSUME NEW e \in Copies, CountIsRight(e) PROVE byReplica[e] = Cardinality(AtCopy(e))
  <2>1. byReplica[e] = Cardinality(Keyed(e)) + Cardinality(LeftKeyed(e))
    BY CountsSplit DEF ReplicaCountConserved
  <2>2. Keyed(e) = AtCopy(e) /\ Cardinality(LeftKeyed(e)) = 0
    BY <1>6, FS_EmptySet DEF CountIsRight
  <2>3. Cardinality(AtCopy(e)) \in Nat
    BY RequestSetsFinite DEF AtCopy
  <2> QED
    BY <2>1, <2>2, <2>3
<1>7. CountIsRight(c) /\ CountIsRight(d)
  BY <1>3
<1> QED BY <1>2, <1>3, <1>5, <1>6, <1>7

\* The choice by inflight_by_replica is a choice by the requests that really run
\* (gateway/llm_gateway.py:729) between any two copies whose counters are right: what
\* makes a counter wrong is a request by the copy's own id, or an exception.
THEOREM SpreadsByName == Spec => SpreadByName
<1>1. RoutingInv /\ [Next]_vars =>
        [\A q \in Reqs : (~InProgress(q) /\ InProgress(q)') =>
           \A s \in Sessions \union {NoSession}, n \in Names :
             (~Pinned(s, n) /\ Route(q, s, n)) =>
                LET c == <<req'[q].url, req'[q].mid>>
                IN  \A d \in Ready(n) : (CountIsRight(c) /\ CountIsRight(d))
                        => Cardinality(AtCopy(c)) <= Cardinality(AtCopy(d))]_vars
  BY SpreadStep
<1> QED BY <1>1, RoutingInvInit, RoutingInvNext, PTL DEF Spec, SpreadByName

=============================================================================
