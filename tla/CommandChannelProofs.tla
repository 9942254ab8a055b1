------------------------ MODULE CommandChannelProofs ------------------------
(***************************************************************************)
(* The command channel, for any number of commands, faults and URLs.       *)
(*                                                                         *)
(* Commands go through four stages: queued at a record (pending), in a     *)
(* response (reply), in the loop's hands (batch), applied.  Of two for the *)
(* same record, the older one is never behind the younger: that is the     *)
(* order, and because a command is for one record, also that it is at one  *)
(* place only and applied once.  Results go from the batch's results to    *)
(* the file, onto a heartbeat and into the log, and are at one of these    *)
(* places only.                                                            *)
(***************************************************************************)
EXTENDS CommandChannel, SequenceTheorems, TLAPS

\* The response not read yet.
Replied == IF reply = NoReply THEN <<>> ELSE reply

InOrder(s) ==
    \A i, j \in DOMAIN s : (i < j /\ cmds[s[i]].at = cmds[s[j]].at) => s[i] < s[j]

Before(s, t) ==
    \A c \in ToSet(s), d \in ToSet(t) : cmds[c].at = cmds[d].at => c < d

QueuedAt(u) == \A c \in ToSet(pending[u]) : cmds[c].at = u

OrderInv ==
    /\ InOrder(applied) /\ InOrder(batch) /\ InOrder(Replied)
    /\ Before(applied, batch) /\ Before(applied, Replied) /\ Before(batch, Replied)
    /\ \A u \in Urls :
          /\ QueuedAt(u) /\ InOrder(pending[u])
          /\ Before(applied, pending[u]) /\ Before(batch, pending[u])
          /\ Before(Replied, pending[u])

Apart(s, t) == ToSet(s) \intersect ToSet(t) = {}

\* The results at one place, each of a command that was applied, once.
Once(s) == IsInjective(s) /\ ToSet(s) \subseteq ToSet(applied)

ResultsInv ==
    /\ Once(log) /\ Once(file) /\ Once(results)
    /\ Apart(log, file) /\ Apart(log, results) /\ Apart(file, results)
    /\ \A m \in net : /\ Once(m.results) /\ Apart(log, m.results)
                      /\ Apart(file, m.results) /\ Apart(results, m.results)
    /\ \A m, n \in net : m # n => Apart(m.results, n.results)

ChannelInv == TypeOK /\ OrderInv /\ ResultsInv

-----------------------------------------------------------------------------
(* Sequences *)

LEMMA EmptyFacts ==
    /\ DOMAIN <<>> = {} /\ ToSet(<<>>) = {} /\ IsInjective(<<>>)
    /\ \A S : <<>> \in Seq(S)
BY EmptySeq DEF ToSet, IsInjective

LEMMA AppendFacts ==
    ASSUME NEW S, NEW s \in Seq(S), NEW e \in S
    PROVE  /\ Append(s, e) \in Seq(S)
           /\ DOMAIN Append(s, e) = DOMAIN s \union {Len(s) + 1}
           /\ DOMAIN s = 1 .. Len(s) /\ Len(s) \in Nat
           /\ \A i \in DOMAIN s : Append(s, e)[i] = s[i]
           /\ Append(s, e)[Len(s) + 1] = e
           /\ ToSet(Append(s, e)) = ToSet(s) \union {e}
           /\ IsInjective(s) /\ e \notin ToSet(s) => IsInjective(Append(s, e))
<1> DEFINE t == Append(s, e)
<1>1. /\ t \in Seq(S) /\ Len(t) = Len(s) + 1
      /\ \A i \in 1 .. Len(s) : t[i] = s[i]
      /\ t[Len(s) + 1] = e
  BY AppendProperties
<1>2. Len(s) \in Nat /\ DOMAIN s = 1 .. Len(s) /\ DOMAIN t = 1 .. Len(t)
  BY <1>1, LenProperties
<1> HIDE DEF t
<1>3. DOMAIN t = DOMAIN s \union {Len(s) + 1}
  BY <1>1, <1>2
<1>4. ToSet(t) = ToSet(s) \union {e}
  BY <1>1, <1>2, <1>3 DEF ToSet
<1>5. IsInjective(s) /\ e \notin ToSet(s) => IsInjective(t)
  BY <1>1, <1>2, <1>3 DEF ToSet, IsInjective
<1> QED BY <1>1, <1>2, <1>3, <1>4, <1>5 DEF t

LEMMA TailFacts ==
    ASSUME NEW S, NEW s \in Seq(S), s # <<>>
    PROVE  /\ Head(s) \in S /\ Tail(s) \in Seq(S)
           /\ Len(s) \in Nat /\ 1 \in DOMAIN s /\ Head(s) = s[1]
           /\ \A i \in DOMAIN Tail(s) :
                 i \in Nat /\ i > 0 /\ i + 1 \in DOMAIN s /\ Tail(s)[i] = s[i + 1]
           /\ ToSet(s) = ToSet(Tail(s)) \union {Head(s)}
<1>1. /\ Head(s) \in S /\ Tail(s) \in Seq(S) /\ Len(Tail(s)) = Len(s) - 1
      /\ \A i \in 1 .. Len(Tail(s)) : Tail(s)[i] = s[i + 1]
  BY HeadTailProperties
<1>2. Len(s) \in Nat \ {0} /\ DOMAIN s = 1 .. Len(s) /\ DOMAIN Tail(s) = 1 .. Len(Tail(s))
  BY <1>1, LenProperties, EmptySeq
<1>3. Head(s) = s[1]
  OBVIOUS
<1>4. \A i \in DOMAIN Tail(s) :
         i \in Nat /\ i > 0 /\ i + 1 \in DOMAIN s /\ Tail(s)[i] = s[i + 1]
  BY <1>1, <1>2
<1>5. ASSUME NEW i \in DOMAIN s
      PROVE  s[i] \in ToSet(Tail(s)) \union {Head(s)}
  <2>1. CASE i = 1
    BY <1>3, <2>1
  <2>2. CASE i # 1
    <3>1. i - 1 \in DOMAIN Tail(s) /\ Tail(s)[i - 1] = s[i]
      BY <1>1, <1>2, <2>2
    <3> QED BY <3>1 DEF ToSet
  <2> QED BY <2>1, <2>2
<1>6. ToSet(s) = ToSet(Tail(s)) \union {Head(s)}
  BY <1>2, <1>3, <1>4, <1>5 DEF ToSet
<1> QED BY <1>1, <1>2, <1>3, <1>4, <1>6

LEMMA ConcatFacts ==
    ASSUME NEW S, NEW s \in Seq(S), NEW t \in Seq(S)
    PROVE  /\ s \o t \in Seq(S)
           /\ ToSet(s \o t) = ToSet(s) \union ToSet(t)
           /\ IsInjective(s) /\ IsInjective(t) /\ Apart(s, t) => IsInjective(s \o t)
<1> DEFINE st == s \o t
<1>1. /\ st \in Seq(S) /\ Len(st) = Len(s) + Len(t)
      /\ \A i \in 1 .. Len(s) + Len(t) :
            st[i] = IF i <= Len(s) THEN s[i] ELSE t[i - Len(s)]
  BY ConcatProperties
<1>2. /\ Len(s) \in Nat /\ DOMAIN s = 1 .. Len(s)
      /\ Len(t) \in Nat /\ DOMAIN t = 1 .. Len(t)
      /\ DOMAIN st = 1 .. Len(st)
  BY <1>1, LenProperties
<1> HIDE DEF st
<1>3. ASSUME NEW i \in DOMAIN st
      PROVE  \/ i \in DOMAIN s /\ st[i] = s[i] /\ st[i] \in ToSet(s)
             \/ /\ i \notin DOMAIN s /\ i - Len(s) \in DOMAIN t
                /\ st[i] = t[i - Len(s)] /\ st[i] \in ToSet(t)
  BY <1>1, <1>2 DEF ToSet
<1>4. /\ \A i \in DOMAIN s : i \in DOMAIN st /\ st[i] = s[i]
      /\ \A i \in DOMAIN t : i + Len(s) \in DOMAIN st /\ st[i + Len(s)] = t[i]
  BY <1>1, <1>2
<1>5. ToSet(st) = ToSet(s) \union ToSet(t)
  <2>1. ToSet(st) \subseteq ToSet(s) \union ToSet(t)
    BY <1>3 DEF ToSet
  <2>2. ToSet(s) \subseteq ToSet(st) /\ ToSet(t) \subseteq ToSet(st)
    BY <1>4 DEF ToSet
  <2> QED BY <2>1, <2>2
<1>6. ASSUME IsInjective(s), IsInjective(t), Apart(s, t),
             NEW i \in DOMAIN st, NEW j \in DOMAIN st, st[i] = st[j]
      PROVE  i = j
  <2>1. CASE i \in DOMAIN s /\ j \in DOMAIN s
    BY <1>4, <1>6, <2>1 DEF IsInjective
  <2>2. CASE i \notin DOMAIN s /\ j \notin DOMAIN s
    <3>1. i - Len(s) = j - Len(s)
      BY <1>3, <1>6, <2>2 DEF IsInjective
    <3> QED BY <1>1, <1>2, <3>1
  <2>3. CASE (i \in DOMAIN s) # (j \in DOMAIN s)
    BY <1>3, <1>6, <2>3 DEF Apart
  <2> QED BY <2>1, <2>2, <2>3
<1>7. IsInjective(s) /\ IsInjective(t) /\ Apart(s, t) => IsInjective(st)
  BY <1>6 DEF IsInjective
<1> QED BY <1>1, <1>5, <1>7 DEF st

LEMMA RemoveType ==
    ASSUME NEW S, NEW s \in Seq(S), NEW i \in DOMAIN s
    PROVE  RemoveAt(s, i) \in Seq(S)
<1>1. Len(s) \in Nat /\ DOMAIN s = 1 .. Len(s) /\ \A j \in 1 .. Len(s) : s[j] \in S
  BY LenProperties, ElementOfSeq
<1>2. SubSeq(s, 1, i - 1) \in Seq(S)
  BY <1>1, SubSeqProperties
<1>3. SubSeq(s, i + 1, Len(s)) \in Seq(S)
  BY <1>1, SubSeqProperties
<1> QED BY <1>2, <1>3, ConcatProperties DEF RemoveAt

\* What is in a stage is the number of a command.
LEMMA Numbers ==
    ASSUME TypeOK, NEW s \in CmdSeqs
    PROVE  /\ queued \in Nat
           /\ \A i \in DOMAIN s : s[i] \in 1 .. queued
           /\ ToSet(s) \subseteq 1 .. queued
           /\ \A i \in DOMAIN s : i \in Nat
BY BoundsAssumption, LenProperties, ElementOfSeq DEF TypeOK, CmdSeqs, ToSet

LEMMA StageTypes ==
    ASSUME TypeOK
    PROVE  /\ applied \in CmdSeqs /\ batch \in CmdSeqs /\ Replied \in CmdSeqs
           /\ \A u \in Urls : pending[u] \in CmdSeqs
BY EmptyFacts DEF TypeOK, CmdSeqs, Replied

-----------------------------------------------------------------------------
(* The order of commands *)

\* Stages are emptied, in part or at all, and nothing else happens to them.
LEMMA OrderDropped ==
    ASSUME OrderInv, UNCHANGED <<cmds, applied>>,
           batch' \in {batch, <<>>}, reply' \in {reply, NoReply},
           \A u \in Urls : pending'[u] \in {pending[u], <<>>}
    PROVE  OrderInv'
<1>1. Replied' \in {Replied, <<>>}
  BY DEF Replied
<1>2. InOrder(applied)' /\ InOrder(batch)' /\ InOrder(Replied)'
  BY <1>1, EmptyFacts DEF OrderInv, InOrder
<1>3. Before(applied, batch)' /\ Before(applied, Replied)' /\ Before(batch, Replied)'
  BY <1>1, EmptyFacts DEF OrderInv, Before
<1>4. ASSUME NEW u \in Urls
      PROVE  /\ QueuedAt(u)' /\ InOrder(pending[u])'
             /\ Before(applied, pending[u])' /\ Before(batch, pending[u])'
             /\ Before(Replied, pending[u])'
  <2>1. QueuedAt(u)' /\ InOrder(pending[u])'
    BY EmptyFacts DEF OrderInv, InOrder, QueuedAt
  <2>2. Before(applied, pending[u])' /\ Before(batch, pending[u])'
    BY EmptyFacts DEF OrderInv, Before
  <2>3. Before(Replied, pending[u])'
    BY <1>1, EmptyFacts DEF OrderInv, Before
  <2> QED BY <2>1, <2>2, <2>3
<1> QED BY <1>2, <1>3, <1>4 DEF OrderInv

\* The queue of a record becomes the response: what is queued elsewhere is not for
\* this record.
LEMMA OrderResponded ==
    ASSUME TypeOK, OrderInv, NEW u \in Urls, NEW live \in BOOLEAN, Respond(u, live),
           UNCHANGED <<cmds, applied, batch>>
    PROVE  OrderInv'
<1>1. /\ pending'[u] = <<>>
      /\ \A v \in Urls \ {u} : pending'[v] = pending[v]
  BY DEF TypeOK, Respond
<1>2. CASE ~live
  <2>1. reply' = reply
    BY <1>2 DEF Respond
  <2> QED BY <1>1, <2>1, OrderDropped
<1>3. CASE live
  <2>1. Replied' \in {pending[u], <<>>}
    BY <1>3 DEF Respond, Replied
  <2>2. InOrder(applied)' /\ InOrder(batch)' /\ Before(applied, batch)'
    BY DEF OrderInv, InOrder, Before
  <2>3. InOrder(Replied)'
    BY <2>1, EmptyFacts DEF OrderInv, InOrder
  <2>4. Before(applied, Replied)' /\ Before(batch, Replied)'
    BY <2>1, EmptyFacts DEF OrderInv, Before
  <2>5. ASSUME NEW v \in Urls
        PROVE  /\ QueuedAt(v)' /\ InOrder(pending[v])'
               /\ Before(applied, pending[v])' /\ Before(batch, pending[v])'
               /\ Before(Replied, pending[v])'
    <3>1. pending'[v] \in {pending[v], <<>>}
      BY <1>1
    <3>2. QueuedAt(v)' /\ InOrder(pending[v])'
      BY <3>1, EmptyFacts DEF OrderInv, InOrder, QueuedAt
    <3>3. Before(applied, pending[v])' /\ Before(batch, pending[v])'
      BY <3>1, EmptyFacts DEF OrderInv, Before
    <3>4. Before(Replied, pending[v])'
      BY <1>1, <2>1, EmptyFacts DEF OrderInv, Before, QueuedAt
    <3> QED BY <3>2, <3>3, <3>4
  <2> QED BY <2>2, <2>3, <2>4, <2>5 DEF OrderInv
<1> QED BY <1>2, <1>3

LEMMA OrderRead ==
    ASSUME OrderInv, ReadReply
    PROVE  OrderInv'
<1>1. /\ batch' = Replied /\ Replied' = <<>>
      /\ UNCHANGED <<cmds, applied, pending>>
  BY DEF ReadReply, Replied, userVars, gatewayVars
<1>2. InOrder(applied)' /\ InOrder(batch)' /\ InOrder(Replied)'
  BY <1>1, EmptyFacts DEF OrderInv, InOrder
<1>3. Before(applied, batch)' /\ Before(applied, Replied)' /\ Before(batch, Replied)'
  BY <1>1, EmptyFacts DEF OrderInv, Before
<1>4. ASSUME NEW u \in Urls
      PROVE  /\ QueuedAt(u)' /\ InOrder(pending[u])'
             /\ Before(applied, pending[u])' /\ Before(batch, pending[u])'
             /\ Before(Replied, pending[u])'
  BY <1>1, EmptyFacts DEF OrderInv, InOrder, Before, QueuedAt
<1> QED BY <1>2, <1>3, <1>4 DEF OrderInv

LEMMA OrderApplied ==
    ASSUME TypeOK, OrderInv, Apply
    PROVE  OrderInv' /\ Head(batch) \notin ToSet(applied)
<1> DEFINE c == Head(batch)
<1>1. /\ batch # <<>> /\ batch' = Tail(batch) /\ applied' = Append(applied, c)
      /\ UNCHANGED <<cmds, pending, Replied>>
  BY DEF Apply, Replied, userVars, gatewayVars
<1>2. /\ batch \in CmdSeqs /\ applied \in CmdSeqs /\ Replied \in CmdSeqs
      /\ c \in 1 .. queued /\ Tail(batch) \in CmdSeqs
  BY <1>1, StageTypes, TailFacts DEF CmdSeqs
<1>3. /\ c = batch[1] /\ 1 \in DOMAIN batch
      /\ \A i \in DOMAIN batch' : i \in Nat /\ i > 0 /\ i + 1 \in DOMAIN batch
                                  /\ batch'[i] = batch[i + 1]
      /\ ToSet(batch) = ToSet(batch') \union {c}
  BY <1>1, <1>2, TailFacts DEF CmdSeqs
<1>4. /\ DOMAIN applied' = DOMAIN applied \union {Len(applied) + 1}
      /\ DOMAIN applied = 1 .. Len(applied) /\ Len(applied) \in Nat
      /\ \A i \in DOMAIN applied : applied'[i] = applied[i]
      /\ applied'[Len(applied) + 1] = c
      /\ ToSet(applied') = ToSet(applied) \union {c}
  BY <1>1, <1>2, AppendFacts DEF CmdSeqs
<1> HIDE DEF c
<1>5. queued \in Nat
  BY <1>2, Numbers
<1>6. c \notin ToSet(applied)
  BY <1>2, <1>3, <1>5 DEF OrderInv, Before
<1>7. InOrder(batch)' /\ InOrder(Replied)'
  <2>1. InOrder(batch)'
    <3>1. ASSUME NEW i \in DOMAIN batch', NEW j \in DOMAIN batch',
                 i < j, cmds[batch'[i]].at = cmds[batch'[j]].at
          PROVE  batch'[i] < batch'[j]
      <4>1. i + 1 < j + 1
        BY <1>3, <3>1
      <4> QED BY <1>3, <3>1, <4>1 DEF OrderInv, InOrder
    <3> QED BY <1>1, <3>1 DEF InOrder
  <2>2. InOrder(Replied)'
    BY <1>1 DEF OrderInv, InOrder
  <2> QED BY <2>1, <2>2
<1>8. InOrder(applied)'
  <2>1. ASSUME NEW i \in DOMAIN applied', NEW j \in DOMAIN applied',
               i < j, cmds[applied'[i]].at = cmds[applied'[j]].at
        PROVE  applied'[i] < applied'[j]
    <3>1. i \in DOMAIN applied
      BY <1>4, <2>1
    <3>2. CASE j \in DOMAIN applied
      BY <1>4, <2>1, <3>1, <3>2 DEF OrderInv, InOrder
    <3>3. CASE j = Len(applied) + 1
      <4>1. applied[i] \in ToSet(applied) /\ c \in ToSet(batch)
        BY <1>3, <3>1 DEF ToSet
      <4> QED BY <1>4, <2>1, <3>1, <3>3, <4>1 DEF OrderInv, Before
    <3> QED BY <1>4, <3>2, <3>3
  <2> QED BY <1>1, <2>1 DEF InOrder
<1>9. Before(applied, batch)'
  <2>1. ASSUME NEW d \in ToSet(batch'), cmds[c].at = cmds[d].at
        PROVE  c < d
    <3>1. PICK i \in DOMAIN batch' : batch'[i] = d
      BY DEF ToSet
    <3>2. 1 < i + 1
      BY <1>3
    <3> QED BY <1>3, <2>1, <3>1, <3>2 DEF OrderInv, InOrder
  <2>2. \A b \in ToSet(applied), d \in ToSet(batch') : cmds[b].at = cmds[d].at => b < d
    BY <1>3 DEF OrderInv, Before
  <2> QED BY <1>1, <1>4, <2>1, <2>2 DEF Before
<1>10. Before(applied, Replied)' /\ Before(batch, Replied)'
  BY <1>1, <1>3, <1>4 DEF OrderInv, Before
<1>11. ASSUME NEW u \in Urls
       PROVE  /\ QueuedAt(u)' /\ InOrder(pending[u])'
              /\ Before(applied, pending[u])' /\ Before(batch, pending[u])'
              /\ Before(Replied, pending[u])'
  <2>1. QueuedAt(u)' /\ InOrder(pending[u])'
    BY <1>1 DEF OrderInv, InOrder, QueuedAt
  <2>2. Before(applied, pending[u])' /\ Before(batch, pending[u])'
    BY <1>1, <1>3, <1>4 DEF OrderInv, Before
  <2>3. Before(Replied, pending[u])'
    BY <1>1 DEF OrderInv, Before
  <2> QED BY <2>1, <2>2, <2>3
<1> QED BY <1>6, <1>7, <1>8, <1>9, <1>10, <1>11 DEF OrderInv, c

LEMMA OrderQueued ==
    ASSUME TypeOK, OrderInv, NEW k \in Kinds, NEW f \in Urls, Queue(k, f)
    PROVE  OrderInv'
<1> DEFINE n == queued + 1
<1>1. /\ UNCHANGED <<applied, batch, reply, Replied>>
      /\ cmds' = Append(cmds, [action |-> k, at |-> f])
      /\ pending' = [pending EXCEPT ![f] = Append(@, n)]
  BY DEF Queue, QueueLast, machineVars, Replied
<1>2. f \in Urls
  OBVIOUS
<1>3. queued \in Nat /\ n \in Nat
  BY StageTypes, Numbers
<1>4. /\ \A c \in 1 .. queued : cmds'[c] = cmds[c]
      /\ cmds'[n].at = f
  <2>1. [action |-> k, at |-> f] \in [action : Kinds, at : Urls]
    BY <1>2
  <2> QED BY <1>1, <2>1, AppendProperties DEF TypeOK
<1>5. /\ pending[f] \in Seq(1 .. queued) /\ pending[f] \in Seq(1 .. n)
      /\ pending'[f] = Append(pending[f], n)
      /\ \A u \in Urls \ {f} : pending'[u] = pending[u]
  <2>1. pending[f] \in Seq(1 .. queued)
    BY <1>2 DEF TypeOK, CmdSeqs
  <2>2. 1 .. queued \subseteq 1 .. n
    BY <1>3
  <2>3. pending[f] \in Seq(1 .. n)
    BY <2>1, <2>2, SeqMonotonic
  <2> QED BY <1>1, <1>2, <2>1, <2>3 DEF TypeOK
<1>6. /\ DOMAIN pending'[f] = DOMAIN pending[f] \union {Len(pending[f]) + 1}
      /\ DOMAIN pending[f] = 1 .. Len(pending[f]) /\ Len(pending[f]) \in Nat
      /\ \A i \in DOMAIN pending[f] : pending'[f][i] = pending[f][i]
      /\ pending'[f][Len(pending[f]) + 1] = n
      /\ ToSet(pending'[f]) = ToSet(pending[f]) \union {n}
  <2>1. n \in 1 .. n
    BY <1>3
  <2> QED BY <1>5, <2>1, AppendFacts
<1>7. /\ \A i \in DOMAIN applied : applied[i] \in 1 .. queued
      /\ \A i \in DOMAIN batch : batch[i] \in 1 .. queued
      /\ \A i \in DOMAIN Replied : Replied[i] \in 1 .. queued
      /\ \A u \in Urls : \A i \in DOMAIN pending[u] : pending[u][i] \in 1 .. queued
  BY StageTypes, Numbers
<1>8. /\ ToSet(applied) \subseteq 1 .. queued /\ ToSet(batch) \subseteq 1 .. queued
      /\ ToSet(Replied) \subseteq 1 .. queued
      /\ \A u \in Urls : ToSet(pending[u]) \subseteq 1 .. queued
  BY StageTypes, Numbers
<1>9. \A c \in 1 .. queued : c < n
  BY <1>3
<1> HIDE DEF n
<1>10. InOrder(applied)' /\ InOrder(batch)' /\ InOrder(Replied)'
  <2>1. InOrder(applied)'
    <3>1. ASSUME NEW i \in DOMAIN applied, NEW j \in DOMAIN applied,
                 i < j, cmds'[applied[i]].at = cmds'[applied[j]].at
          PROVE  applied[i] < applied[j]
      <4>1. cmds[applied[i]].at = cmds[applied[j]].at
        BY <1>4, <1>7, <3>1
      <4> QED BY <3>1, <4>1 DEF OrderInv, InOrder
    <3> QED BY <1>1, <3>1 DEF InOrder
  <2>2. InOrder(batch)'
    <3>1. ASSUME NEW i \in DOMAIN batch, NEW j \in DOMAIN batch,
                 i < j, cmds'[batch[i]].at = cmds'[batch[j]].at
          PROVE  batch[i] < batch[j]
      <4>1. cmds[batch[i]].at = cmds[batch[j]].at
        BY <1>4, <1>7, <3>1
      <4> QED BY <3>1, <4>1 DEF OrderInv, InOrder
    <3> QED BY <1>1, <3>1 DEF InOrder
  <2>3. InOrder(Replied)'
    <3>1. ASSUME NEW i \in DOMAIN Replied, NEW j \in DOMAIN Replied,
                 i < j, cmds'[Replied[i]].at = cmds'[Replied[j]].at
          PROVE  Replied[i] < Replied[j]
      <4>1. cmds[Replied[i]].at = cmds[Replied[j]].at
        BY <1>4, <1>7, <3>1
      <4> QED BY <3>1, <4>1 DEF OrderInv, InOrder
    <3> QED BY <1>1, <3>1 DEF InOrder
  <2> QED BY <2>1, <2>2, <2>3
<1>11. Before(applied, batch)' /\ Before(applied, Replied)' /\ Before(batch, Replied)'
  <2>1. Before(applied, batch)'
    BY <1>1, <1>4, <1>8 DEF OrderInv, Before
  <2>2. Before(applied, Replied)'
    BY <1>1, <1>4, <1>8 DEF OrderInv, Before
  <2>3. Before(batch, Replied)'
    BY <1>1, <1>4, <1>8 DEF OrderInv, Before
  <2> QED BY <2>1, <2>2, <2>3
<1>12. ASSUME NEW u \in Urls
       PROVE  /\ QueuedAt(u)' /\ InOrder(pending[u])'
              /\ Before(applied, pending[u])' /\ Before(batch, pending[u])'
              /\ Before(Replied, pending[u])'
  <2>1. ToSet(pending'[u]) \subseteq ToSet(pending[u]) \union (IF u = f THEN {n} ELSE {})
    BY <1>5, <1>6
  <2>2. QueuedAt(u)'
    BY <1>4, <1>8, <2>1 DEF OrderInv, QueuedAt
  <2>3. InOrder(pending[u])'
    <3>1. CASE u = f
      <4>1. ASSUME NEW i \in DOMAIN pending'[f], NEW j \in DOMAIN pending'[f],
                   i < j, cmds'[pending'[f][i]].at = cmds'[pending'[f][j]].at
            PROVE  pending'[f][i] < pending'[f][j]
        <5>1. i \in DOMAIN pending[f]
          BY <1>6, <4>1
        <5>2. CASE j \in DOMAIN pending[f]
          BY <1>2, <1>4, <1>6, <1>7, <4>1, <5>1, <5>2 DEF OrderInv, InOrder
        <5>3. CASE j = Len(pending[f]) + 1
          BY <1>2, <1>6, <1>7, <1>9, <5>1, <5>3
        <5> QED BY <1>6, <5>2, <5>3
      <4> QED BY <3>1, <4>1 DEF InOrder
    <3>2. CASE u # f
      BY <1>4, <1>5, <1>7, <3>2 DEF OrderInv, InOrder
    <3> QED BY <3>1, <3>2
  <2>4. Before(applied, pending[u])'
    <3>1. ASSUME NEW c \in ToSet(applied), NEW d \in ToSet(pending'[u]),
                 cmds'[c].at = cmds'[d].at
          PROVE  c < d
      <4>1. c \in 1 .. queued
        BY <1>8
      <4>2. CASE d \in ToSet(pending[u])
        BY <1>4, <1>8, <3>1, <4>1, <4>2 DEF OrderInv, Before
      <4>3. CASE d = n
        BY <1>9, <4>1, <4>3
      <4> QED BY <2>1, <4>2, <4>3
    <3> QED BY <1>1, <3>1 DEF Before
  <2>5. Before(batch, pending[u])'
    <3>1. ASSUME NEW c \in ToSet(batch), NEW d \in ToSet(pending'[u]),
                 cmds'[c].at = cmds'[d].at
          PROVE  c < d
      <4>1. c \in 1 .. queued
        BY <1>8
      <4>2. CASE d \in ToSet(pending[u])
        BY <1>4, <1>8, <3>1, <4>1, <4>2 DEF OrderInv, Before
      <4>3. CASE d = n
        BY <1>9, <4>1, <4>3
      <4> QED BY <2>1, <4>2, <4>3
    <3> QED BY <1>1, <3>1 DEF Before
  <2>6. Before(Replied, pending[u])'
    <3>1. ASSUME NEW c \in ToSet(Replied), NEW d \in ToSet(pending'[u]),
                 cmds'[c].at = cmds'[d].at
          PROVE  c < d
      <4>1. c \in 1 .. queued
        BY <1>8
      <4>2. CASE d \in ToSet(pending[u])
        BY <1>4, <1>8, <3>1, <4>1, <4>2 DEF OrderInv, Before
      <4>3. CASE d = n
        BY <1>9, <4>1, <4>3
      <4> QED BY <2>1, <4>2, <4>3
    <3> QED BY <1>1, <3>1 DEF Before
  <2> QED BY <2>2, <2>3, <2>4, <2>5, <2>6
<1> QED BY <1>10, <1>11, <1>12 DEF OrderInv

-----------------------------------------------------------------------------
(* The places of a result *)

\* A place is emptied, or its results stay where they are; heartbeats are lost, or
\* nobody waits for them any more.
LEMMA ResultsDropped ==
    ASSUME TypeOK, ResultsInv, NEW X,
           UNCHANGED <<log, applied>>,
           file' \in {file, <<>>}, results' \in {results, <<>>},
           \A m \in X : m.results = <<>>,
           net' \subseteq net \union X \/ net' \subseteq Unwaited(net) \union X
    PROVE  ResultsInv'
<1>12. \A x \in net : [x EXCEPT !.live = FALSE].results = x.results
  BY DEF TypeOK
<1>1. /\ Once(log)' /\ Once(file)' /\ Once(results)'
      /\ Apart(log, file)' /\ Apart(log, results)' /\ Apart(file, results)'
  BY EmptyFacts DEF ResultsInv, Once, Apart
<1>2. ASSUME NEW m \in net'
      PROVE  m.results = <<>> \/ \E x \in net : m.results = x.results
  BY <1>12 DEF Unwaited
<1>3. ASSUME NEW m \in net'
      PROVE  /\ Once(m.results)' /\ Apart(log, m.results)'
             /\ Apart(file, m.results)' /\ Apart(results, m.results)'
  <2>1. CASE m.results = <<>>
    BY <2>1, EmptyFacts DEF Once, Apart
  <2>2. CASE \E x \in net : m.results = x.results
    BY <2>2, EmptyFacts DEF ResultsInv, Once, Apart
  <2> QED BY <1>2, <2>1, <2>2
<1>4. ASSUME NEW m \in net', NEW n \in net', m # n
      PROVE  Apart(m.results, n.results)
  <2>1. CASE m.results = <<>> \/ n.results = <<>>
    BY <2>1, EmptyFacts DEF Apart
  <2>2. CASE m.results # <<>> /\ n.results # <<>>
    <3>1. CASE net' \subseteq net \union X
      BY <1>4, <2>2, <3>1 DEF ResultsInv
    <3>2. CASE net' \subseteq Unwaited(net) \union X
      <4>1. PICK x \in net, y \in net : /\ m = [x EXCEPT !.live = FALSE]
                                       /\ n = [y EXCEPT !.live = FALSE]
        BY <2>2, <3>2 DEF Unwaited
      <4>2. x # y /\ m.results = x.results /\ n.results = y.results
        BY <1>12, <1>4, <4>1
      <4> QED BY <4>2 DEF ResultsInv
    <3> QED BY <3>1, <3>2
  <2> QED BY <2>1, <2>2
<1> QED BY <1>1, <1>3, <1>4 DEF ResultsInv

LEMMA ResultsKept ==
    ASSUME TypeOK, ResultsInv, net' \subseteq net, UNCHANGED <<log, applied, file, results>>
    PROVE  ResultsInv'
<1>1. net' \subseteq net \union {} /\ \A m \in {} : m.results = <<>>
  OBVIOUS
<1> QED BY <1>1, ResultsDropped

LEMMA LoggedFacts ==
    ASSUME NEW S, NEW s \in Seq(S)
    PROVE  /\ Logged(s) \in Seq(S) /\ ToSet(Logged(s)) \subseteq ToSet(s)
           /\ IsInjective(s) => IsInjective(Logged(s))
<1> DEFINE t == SubSeq(s, 1, MaxResults)
<1>1. CASE Len(s) > MaxResults
  <2>1. /\ MaxResults \in Nat /\ Len(s) \in Nat /\ DOMAIN s = 1 .. Len(s)
    BY BoundsAssumption, LenProperties
  <2>2. /\ t \in Seq(S) /\ Len(t) = MaxResults
        /\ \A i \in 1 .. MaxResults : t[i] = s[i]
    BY <1>1, <2>1, SubSeqProperties
  <2>3. DOMAIN t = 1 .. MaxResults /\ \A i \in 1 .. MaxResults : i \in DOMAIN s
    BY <1>1, <2>1, <2>2, LenProperties
  <2>4. Logged(s) = t
    BY <1>1 DEF Logged
  <2> HIDE DEF t
  <2> QED BY <2>2, <2>3, <2>4 DEF ToSet, IsInjective
<1>2. CASE ~(Len(s) > MaxResults)
  BY <1>2 DEF Logged
<1> QED BY <1>1, <1>2

\* What a heartbeat carries is printed when it arrives, the first of it.
LEMMA ResultsPrinted ==
    ASSUME TypeOK, ResultsInv, NEW m \in net,
           net' = net \ {m}, log' = log \o Logged(m.results),
           UNCHANGED <<file, results, applied>>
    PROVE  ResultsInv'
<1> DEFINE r == Logged(m.results)
<1>1. /\ r \in CmdSeqs /\ log \in CmdSeqs /\ ToSet(r) \subseteq ToSet(m.results)
      /\ Once(r) /\ Apart(log, r)
  <2>1. m.results \in CmdSeqs /\ log \in CmdSeqs /\ Once(m.results) /\ Apart(log, m.results)
    BY DEF TypeOK, ResultsInv
  <2>2. /\ r \in CmdSeqs /\ ToSet(r) \subseteq ToSet(m.results)
        /\ IsInjective(m.results) => IsInjective(r)
    BY <2>1, LoggedFacts DEF CmdSeqs
  <2> HIDE DEF r
  <2> QED BY <2>1, <2>2 DEF Once, Apart
<1> HIDE DEF r
<1>2. /\ ToSet(log') = ToSet(log) \union ToSet(r)
      /\ IsInjective(log')
  <2>1. log' = log \o r
    BY DEF r
  <2> QED BY <1>1, <2>1, ConcatFacts DEF CmdSeqs, ResultsInv, Once
<1>3. Once(log)' /\ Once(file)' /\ Once(results)'
  BY <1>1, <1>2 DEF ResultsInv, Once
<1>4. Apart(log, file)' /\ Apart(log, results)' /\ Apart(file, results)'
  BY <1>1, <1>2 DEF ResultsInv, Apart
<1>5. ASSUME NEW n \in net'
      PROVE  /\ Once(n.results)' /\ Apart(log, n.results)'
             /\ Apart(file, n.results)' /\ Apart(results, n.results)'
  <2>1. Apart(m.results, n.results)
    BY DEF ResultsInv
  <2>2. Apart(log, n.results)'
    BY <1>1, <1>2, <2>1 DEF ResultsInv, Apart
  <2> QED BY <2>2 DEF ResultsInv, Once, Apart
<1> QED BY <1>3, <1>4, <1>5 DEF ResultsInv

\* The file goes onto a heartbeat.
LEMMA ResultsSent ==
    ASSUME ResultsInv, Beat
    PROVE  ResultsInv'
<1> DEFINE p == Post(url, file)
<1>1. /\ net' = net \union {p} /\ file' = <<>> /\ p.results = file
      /\ UNCHANGED <<log, results, applied>>
  BY DEF Beat, Post, gatewayVars
<1> HIDE DEF p
<1>2. /\ Once(log)' /\ Once(file)' /\ Once(results)'
      /\ Apart(log, file)' /\ Apart(log, results)' /\ Apart(file, results)'
  BY <1>1, EmptyFacts DEF ResultsInv, Once, Apart
<1>3. ASSUME NEW m \in net'
      PROVE  /\ Once(m.results)' /\ Apart(log, m.results)'
             /\ Apart(file, m.results)' /\ Apart(results, m.results)'
  <2>1. Apart(file, m.results)'
    BY <1>1, EmptyFacts DEF Apart
  <2>2. CASE m \in net
    BY <1>1, <2>1, <2>2 DEF ResultsInv, Once, Apart
  <2>3. CASE m = p
    BY <1>1, <2>1, <2>3 DEF ResultsInv, Once, Apart
  <2> QED BY <1>1, <2>2, <2>3
<1>4. ASSUME NEW m \in net', NEW n \in net', m # n
      PROVE  Apart(m.results, n.results)
  <2>1. CASE m \in net /\ n \in net
    BY <1>4, <2>1 DEF ResultsInv
  <2>2. CASE m = p \/ n = p
    BY <1>1, <1>4, <2>2 DEF ResultsInv, Apart
  <2> QED BY <1>1, <2>1, <2>2
<1> QED BY <1>2, <1>3, <1>4 DEF ResultsInv

\* A command that is applied for the first time has no result anywhere.
LEMMA ResultsMade ==
    ASSUME TypeOK, ResultsInv, Apply, Head(batch) \notin ToSet(applied)
    PROVE  ResultsInv'
<1> DEFINE c == Head(batch)
<1>1. /\ batch # <<>> /\ applied' = Append(applied, c) /\ results' = Append(results, c)
      /\ UNCHANGED <<log, file, net>>
  BY DEF Apply, gatewayVars
<1>2. c \in 1 .. queued /\ results \in Seq(1 .. queued) /\ applied \in Seq(1 .. queued)
  BY <1>1, TailFacts DEF TypeOK, CmdSeqs
<1>3. c \notin ToSet(applied)
  OBVIOUS
<1> HIDE DEF c
<1> DEFINE S == 1 .. queued
<1>11. c \in S /\ results \in Seq(S) /\ applied \in Seq(S)
  BY <1>2
<1> HIDE DEF S
<1>4. /\ ToSet(applied') = ToSet(applied) \union {c}
      /\ ToSet(results') = ToSet(results) \union {c}
  <2>1. ToSet(Append(applied, c)) = ToSet(applied) \union {c}
    BY <1>11, AppendFacts
  <2>2. ToSet(Append(results, c)) = ToSet(results) \union {c}
    BY <1>11, AppendFacts
  <2> QED BY <1>1, <2>1, <2>2
<1>5. IsInjective(results')
  BY <1>1, <1>2, <1>3, AppendFacts DEF ResultsInv, Once
<1>6. Once(log)' /\ Once(file)' /\ Once(results)'
  BY <1>1, <1>4, <1>5 DEF ResultsInv, Once
<1>7. Apart(log, file)' /\ Apart(log, results)' /\ Apart(file, results)'
  BY <1>1, <1>3, <1>4 DEF ResultsInv, Once, Apart
<1>8. ASSUME NEW m \in net'
      PROVE  /\ Once(m.results)' /\ Apart(log, m.results)'
             /\ Apart(file, m.results)' /\ Apart(results, m.results)'
  BY <1>1, <1>3, <1>4 DEF ResultsInv, Once, Apart
<1> QED BY <1>1, <1>6, <1>7, <1>8 DEF ResultsInv

\* The results of the batch take the place of what the file held.
LEMMA ResultsWritten ==
    ASSUME ResultsInv, BatchOver
    PROVE  ResultsInv'
<1>1. file' \in {file, results} /\ results' = <<>> /\ UNCHANGED <<log, net, applied>>
  BY DEF BatchOver, Written, gatewayVars
<1>2. /\ Once(log)' /\ Once(file)' /\ Once(results)'
      /\ Apart(log, file)' /\ Apart(log, results)' /\ Apart(file, results)'
  BY <1>1, EmptyFacts DEF ResultsInv, Once, Apart
<1>3. ASSUME NEW m \in net'
      PROVE  /\ Once(m.results)' /\ Apart(log, m.results)'
             /\ Apart(file, m.results)' /\ Apart(results, m.results)'
  BY <1>1, EmptyFacts DEF ResultsInv, Once, Apart
<1> QED BY <1>1, <1>2, <1>3 DEF ResultsInv

-----------------------------------------------------------------------------
(* Types *)

Messages == [path : {"register", "deregister"}, url : Urls,
             results : CmdSeqs, live : BOOLEAN]

LEMMA UnlistedType ==
    ASSUME TypeOK, NEW u
    PROVE  Unlisted(u) \in Seq(Urls)
<1>1. CASE Listed(u)
  <2>1. PICK n \in DOMAIN table : table[n] = u
    BY <1>1 DEF Listed, ToSet
  <2>2. (CHOOSE i \in DOMAIN table : table[i] = u) \in DOMAIN table
    BY <2>1
  <2> QED BY <1>1, <2>2, RemoveType DEF TypeOK, Unlisted
<1>2. CASE ~Listed(u)
  BY <1>2 DEF TypeOK, Unlisted
<1> QED BY <1>1, <1>2

LEMMA MessageTypes ==
    /\ \A u \in Urls, s \in CmdSeqs : Post(u, s) \in Messages
    /\ \A u \in Urls : Bye(u) \in Messages
    /\ \A x \in Messages : [x EXCEPT !.live = FALSE] \in Messages
    /\ \A h \in Waiting : [h EXCEPT !.live = FALSE] \in Waiting
<1>1. \A u \in Urls, s \in CmdSeqs : Post(u, s) \in Messages
  BY DEF Post, Messages
<1>2. \A u \in Urls : Bye(u) \in Messages
  BY EmptyFacts DEF Bye, Messages, CmdSeqs
<1>3. \A x \in Messages : [x EXCEPT !.live = FALSE] \in Messages
  BY DEF Messages
<1>4. \A h \in Waiting : [h EXCEPT !.live = FALSE] \in Waiting
  BY DEF Waiting
<1> QED BY <1>1, <1>2, <1>3, <1>4

LEMMA TypeStep ==
    ASSUME TypeOK, [Next]_vars
    PROVE  TypeOK'
<1> USE BoundsAssumption, EmptyFacts
<1>1. ASSUME queued' = queued PROVE CmdSeqs' = CmdSeqs /\ Messages' = Messages
  BY <1>1 DEF CmdSeqs, Messages
<1>2. net \subseteq Messages /\ <<>> \in CmdSeqs
  BY DEF TypeOK, Messages, CmdSeqs
<1>3. ASSUME NEW k, NEW f \in Urls, Queue(k, f) PROVE TypeOK'
  <2>1. /\ queued' = queued + 1 /\ queued < MaxCmds
        /\ k \in Kinds
        /\ asking' \subseteq asking
        /\ cmds' = Append(cmds, [action |-> k, at |-> f])
        /\ pending' = [pending EXCEPT ![f] = Append(@, queued + 1)]
        /\ UNCHANGED <<table, handling, log, machineVars, net, reply, faults>>
    BY <1>3 DEF Queue, QueueLast
  <2>2. queued \in Nat /\ queued' \in 0 .. MaxCmds
    BY <2>1 DEF TypeOK
  <2>3. asking' \subseteq Urls
    BY <2>1 DEF TypeOK
  <2>4. cmds' \in Seq([action : Kinds, at : Urls]) /\ Len(cmds') = queued'
    <3>1. [action |-> k, at |-> f] \in [action : Kinds, at : Urls]
      BY <2>1
    <3> QED BY <2>1, <3>1, AppendProperties DEF TypeOK
  <2>5. \A s \in CmdSeqs : s \in CmdSeqs'
    <3>1. 1 .. queued \subseteq 1 .. queued'
      BY <2>1, <2>2
    <3> QED BY <3>1, SeqMonotonic DEF CmdSeqs
  <2>6. \A s \in CmdSeqs : Append(s, queued + 1) \in CmdSeqs'
    <3>1. queued + 1 \in 1 .. queued'
      BY <2>1, <2>2
    <3> QED BY <2>1, <2>5, <3>1, AppendProperties DEF CmdSeqs
  <2>7. pending' \in [Urls -> CmdSeqs']
    BY <2>1, <2>3, <2>5, <2>6 DEF TypeOK
  <2>8. net' \subseteq Messages'
    BY <1>2, <2>1, <2>5 DEF Messages
  <2>9. /\ table' \in Seq(Urls) /\ handling' \subseteq Waiting
        /\ loop' \in {"off", "sleep", "wait", "apply"} /\ url' \in LoopUrls
        /\ faults' \in 0 .. MaxFaults
    BY <2>1 DEF TypeOK, machineVars
  <2>10. /\ log' \in CmdSeqs' /\ reply' \in CmdSeqs' \union {NoReply}
         /\ batch' \in CmdSeqs' /\ results' \in CmdSeqs' /\ file' \in CmdSeqs'
         /\ applied' \in CmdSeqs'
    BY <2>1, <2>5 DEF TypeOK, machineVars
  <2> QED BY <2>2, <2>3, <2>4, <2>7, <2>8, <2>9, <2>10 DEF TypeOK, Messages
<1>4. ASSUME NEW u \in asking, ModelAction(u) \/ SetPreset(u) \/ RestartRouter(u)
      PROVE  TypeOK'
  <2>1. u \in Urls
    BY DEF TypeOK
  <2> QED BY <1>3, <1>4, <2>1 DEF ModelAction, SetPreset, RestartRouter
<1>25. ASSUME Ask \/ \E u \in asking : AskFails(u) PROVE TypeOK'
  <2>1. asking' \subseteq Urls
    <3>1. table # <<>> => FirstOfHost \in Urls
      BY HeadTailProperties DEF TypeOK, FirstOfHost
    <3> QED BY <1>25, <3>1 DEF TypeOK, Ask, AskFails
  <2>2. UNCHANGED <<queued, cmds, gatewayVars, machineVars, net, reply, faults>>
    BY <1>25 DEF Ask, AskFails
  <2> QED BY <1>1, <2>1, <2>2 DEF TypeOK, gatewayVars, machineVars
<1>5. ASSUME NEW u \in Urls, NEW live \in BOOLEAN, Respond(u, live)
      PROVE  pending' \in [Urls -> CmdSeqs] /\ reply' \in CmdSeqs \union {NoReply}
  BY <1>2, <1>5 DEF TypeOK, Respond
<1>6. ASSUME NEW m \in net
      PROVE  /\ m.url \in Urls /\ m.live \in BOOLEAN /\ m.results \in CmdSeqs
             /\ log \o Logged(m.results) \in CmdSeqs
             /\ Append(table, m.url) \in Seq(Urls)
  <2>1. m.url \in Urls /\ m.live \in BOOLEAN /\ m.results \in CmdSeqs
    BY <1>2 DEF Messages
  <2>2. log \o Logged(m.results) \in CmdSeqs
    <3>1. Logged(m.results) \in CmdSeqs
      BY <2>1, LoggedFacts DEF CmdSeqs
    <3> QED BY <3>1, ConcatProperties DEF TypeOK, CmdSeqs
  <2>3. Append(table, m.url) \in Seq(Urls)
    BY <2>1, AppendProperties DEF TypeOK
  <2> QED BY <2>1, <2>2, <2>3
<1>7. ASSUME NEW m \in net, RegisterKnown(m) PROVE TypeOK'
  <2>1. pending' \in [Urls -> CmdSeqs] /\ reply' \in CmdSeqs \union {NoReply}
    BY <1>5, <1>6, <1>7 DEF RegisterKnown
  <2> QED BY <1>1, <1>6, <1>7, <2>1 DEF TypeOK, RegisterKnown, userVars, machineVars
<1>8. ASSUME NEW m \in net, RegisterNew(m) PROVE TypeOK'
  <2>1. [url |-> m.url, live |-> m.live] \in Waiting
    BY <1>6 DEF Waiting
  <2>2. handling' \subseteq Waiting
    BY <1>8, <2>1 DEF TypeOK, RegisterNew
  <2> QED BY <1>1, <1>6, <1>8, <2>2 DEF TypeOK, RegisterNew, userVars, machineVars
<1>9. ASSUME NEW m \in net, Deregister(m) \/ LoseRequest(m) PROVE TypeOK'
  <2>1. table' \in Seq(Urls) /\ faults' \in 0 .. MaxFaults
    BY <1>9, UnlistedType
    DEF TypeOK, Deregister, LoseRequest, Fault, gatewayVars
  <2>2. net' \subseteq net
    BY <1>9 DEF Deregister, LoseRequest
  <2> QED BY <1>1, <1>9, <2>1, <2>2
          DEF TypeOK, Deregister, LoseRequest, Fault, gatewayVars, userVars, machineVars
<1>10. ASSUME NEW h \in handling, RespondNew(h) PROVE TypeOK'
  <2>1. h.url \in Urls /\ h.live \in BOOLEAN
    BY DEF TypeOK, Waiting
  <2>2. pending' \in [Urls -> CmdSeqs] /\ reply' \in CmdSeqs \union {NoReply}
    BY <1>5, <1>10, <2>1 DEF RespondNew
  <2> QED BY <1>1, <1>10, <2>2 DEF TypeOK, RespondNew, userVars, machineVars
<1>11. ASSUME NEW u \in Urls, Expire(u) PROVE TypeOK'
  <2>1. faults' \in 0 .. MaxFaults
    BY <1>11 DEF TypeOK, Expire, Fault
  <2> QED BY <1>1, <1>11, <2>1, UnlistedType DEF TypeOK, Expire, userVars, machineVars
<1>12. ASSUME NEW u \in Urls, AdapterBeat(u) PROVE TypeOK'
  <2>1. table' \in Seq(Urls)
    BY <1>12, AppendProperties DEF TypeOK, AdapterBeat
  <2>2. pending' \in [Urls -> CmdSeqs]
    BY <1>2, <1>12 DEF TypeOK, AdapterBeat
  <2> QED BY <1>1, <1>12, <2>1, <2>2 DEF TypeOK, AdapterBeat, userVars, machineVars
<1>13. ASSUME NEW u \in Urls, UrlChanges(u) PROVE TypeOK'
  BY <1>1, <1>13 DEF TypeOK, UrlChanges, Fault, gatewayVars, userVars
<1>14. CASE GatewayRestarts
  <2>1. pending' \in [Urls -> CmdSeqs]
    BY <1>2, <1>14 DEF GatewayRestarts
  <2> QED BY <1>1, <1>14, <2>1 DEF TypeOK, GatewayRestarts, Fault, userVars, machineVars
<1>15. CASE Beat
  <2>1. net' \subseteq Messages
    <3>1. Post(url, file) \in Messages
      BY MessageTypes DEF TypeOK, Urls
    <3> QED BY <1>2, <1>15, <3>1 DEF Beat
  <2> QED BY <1>1, <1>2, <1>15, <2>1 DEF TypeOK, Beat, gatewayVars, userVars, Messages
<1>16. CASE ReadReply
  BY <1>1, <1>16 DEF TypeOK, ReadReply, gatewayVars, userVars
<1>17. CASE Apply
  <2>1. Head(batch) \in 1 .. queued /\ Tail(batch) \in CmdSeqs
    BY <1>17, HeadTailProperties DEF TypeOK, CmdSeqs, Apply
  <2>2. Append(results, Head(batch)) \in CmdSeqs /\ Append(applied, Head(batch)) \in CmdSeqs
    BY <2>1, AppendProperties DEF TypeOK, CmdSeqs
  <2> QED BY <1>1, <1>17, <2>1, <2>2 DEF TypeOK, Apply, gatewayVars, userVars
<1>18. CASE ApplyRestart
  <2>1. net' \subseteq Messages
    BY <1>2, <1>18, MessageTypes DEF TypeOK, ApplyRestart, Urls
  <2> QED BY <1>1, <1>2, <1>18, <2>1
          DEF TypeOK, ApplyRestart, gatewayVars, userVars, Messages
<1>19. CASE BatchOver
  BY <1>1, <1>2, <1>19 DEF TypeOK, BatchOver, Written, gatewayVars, userVars
<1>20. Unwaited(net) \subseteq Messages /\ Unwaited(handling) \subseteq Waiting
  BY <1>2, MessageTypes DEF TypeOK, Unwaited
<1>21. CASE CurlGivesUp
  BY <1>1, <1>20, <1>21 DEF TypeOK, CurlGivesUp, Fault, userVars, Messages
<1>22. CASE Leave
  <2>1. net' \subseteq Messages
    BY <1>20, <1>22, MessageTypes DEF TypeOK, Leave, Urls
  <2> QED BY <1>1, <1>2, <1>20, <1>22, <2>1 DEF TypeOK, Leave, Fault, userVars, Messages
<1>23. CASE Return
  BY <1>1, <1>23 DEF TypeOK, Return, gatewayVars, userVars
<1>24. CASE UNCHANGED vars
  BY <1>1, <1>24 DEF TypeOK, vars, gatewayVars, userVars, machineVars
<1> QED BY <1>4, <1>25, <1>7, <1>8, <1>9, <1>10, <1>11, <1>12, <1>13, <1>14, <1>15, <1>16,
           <1>17, <1>18, <1>19, <1>21, <1>22, <1>23, <1>24 DEF Next

-----------------------------------------------------------------------------
(* The invariant *)

LEMMA ChannelInvInit == Init => ChannelInv
<1> SUFFICES ASSUME Init PROVE ChannelInv
  OBVIOUS
<1> USE EmptyFacts, BoundsAssumption
<1>1. TypeOK
  BY DEF Init, TypeOK, CmdSeqs
<1>2. OrderInv
  BY DEF Init, OrderInv, InOrder, Before, QueuedAt, Replied
<1>3. ResultsInv
  BY DEF Init, ResultsInv, Once, Apart
<1> QED BY <1>1, <1>2, <1>3 DEF ChannelInv

LEMMA OrderStep ==
    ASSUME TypeOK, OrderInv, [Next]_vars
    PROVE  OrderInv'
<1>1. ASSUME NEW u \in asking, ModelAction(u) \/ SetPreset(u) \/ RestartRouter(u)
      PROVE  OrderInv'
  <2>1. u \in Urls /\ \A k : Queue(k, u) => k \in Kinds
    BY DEF TypeOK, Queue
  <2> QED BY <1>1, <2>1, OrderQueued DEF ModelAction, SetPreset, RestartRouter
<1>13. ASSUME Ask \/ \E u \in asking : AskFails(u) PROVE OrderInv'
  BY <1>13, OrderDropped DEF Ask, AskFails, gatewayVars, machineVars
<1>2. ASSUME NEW m \in net, RegisterKnown(m) PROVE OrderInv'
  <2>1. m.url \in Urls /\ m.live \in BOOLEAN
    BY DEF TypeOK
  <2> QED BY <1>2, <2>1, OrderResponded DEF RegisterKnown, userVars, machineVars
<1>3. ASSUME NEW h \in handling, RespondNew(h) PROVE OrderInv'
  <2>1. h.url \in Urls /\ h.live \in BOOLEAN
    BY DEF TypeOK, Waiting
  <2> QED BY <1>3, <2>1, OrderResponded DEF RespondNew, userVars, machineVars
<1>4. ASSUME NEW m \in net, RegisterNew(m) \/ Deregister(m) \/ LoseRequest(m)
      PROVE  OrderInv'
  BY <1>4, OrderDropped
  DEF RegisterNew, Deregister, LoseRequest, gatewayVars, userVars, machineVars
<1>5. ASSUME NEW u \in Urls, Expire(u) \/ UrlChanges(u) PROVE OrderInv'
  BY <1>5, OrderDropped DEF Expire, UrlChanges, gatewayVars, userVars, machineVars
<1>6. ASSUME NEW u \in Urls, AdapterBeat(u) PROVE OrderInv'
  <2>1. \A v \in Urls : pending'[v] \in {pending[v], <<>>}
    BY <1>6 DEF TypeOK, AdapterBeat
  <2> QED BY <1>6, <2>1, OrderDropped DEF AdapterBeat, userVars, machineVars
<1>7. CASE GatewayRestarts
  BY <1>7, OrderDropped DEF GatewayRestarts, userVars, machineVars
<1>8. CASE Beat \/ ApplyRestart \/ BatchOver
  BY <1>8, OrderDropped DEF Beat, ApplyRestart, BatchOver, gatewayVars, userVars
<1>9. CASE ReadReply
  BY <1>9, OrderRead
<1>10. CASE Apply
  BY <1>10, OrderApplied
<1>11. CASE CurlGivesUp \/ Leave \/ Return
  BY <1>11, OrderDropped DEF CurlGivesUp, Leave, Return, gatewayVars, userVars
<1>12. CASE UNCHANGED vars
  BY <1>12, OrderDropped DEF vars, gatewayVars, userVars, machineVars
<1> QED BY <1>1, <1>2, <1>3, <1>4, <1>5, <1>6, <1>7, <1>8, <1>9, <1>10, <1>11, <1>12, <1>13
        DEF Next

LEMMA ResultsStep ==
    ASSUME TypeOK, OrderInv, ResultsInv, [Next]_vars
    PROVE  ResultsInv'
<1>1. ASSUME NEW u \in asking,
             ModelAction(u) \/ SetPreset(u) \/ RestartRouter(u) \/ AskFails(u)
      PROVE  ResultsInv'
  <2>1. UNCHANGED <<net, log, applied, file, results>>
    BY <1>1 DEF ModelAction, SetPreset, RestartRouter, Queue, AskFails, gatewayVars, machineVars
  <2> QED BY <2>1, ResultsKept
<1>12. CASE Ask
  BY <1>12, ResultsKept DEF Ask, gatewayVars, machineVars
<1>2. ASSUME NEW m \in net, RegisterKnown(m) \/ RegisterNew(m) PROVE ResultsInv'
  BY <1>2, ResultsPrinted DEF RegisterKnown, RegisterNew, machineVars
<1>3. ASSUME NEW m \in net, Deregister(m) \/ LoseRequest(m) PROVE ResultsInv'
  <2>1. /\ net' \subseteq net
        /\ UNCHANGED <<log, applied, file, results>>
    BY <1>3 DEF Deregister, LoseRequest, gatewayVars, machineVars
  <2> QED BY <2>1, ResultsKept
<1>4. ASSUME NEW h \in handling, RespondNew(h) PROVE ResultsInv'
  BY <1>4, ResultsKept DEF RespondNew, machineVars
<1>5. ASSUME NEW u \in Urls, Expire(u) \/ AdapterBeat(u) \/ UrlChanges(u)
      PROVE  ResultsInv'
  <2>1. UNCHANGED <<net, log, applied, file, results>>
    BY <1>5 DEF Expire, AdapterBeat, UrlChanges, gatewayVars, machineVars
  <2> QED BY <2>1, ResultsKept
<1>6. CASE GatewayRestarts
  <2>1. net' \subseteq net /\ UNCHANGED <<log, applied, file, results>>
    BY <1>6 DEF GatewayRestarts, machineVars
  <2> QED BY <2>1, ResultsKept
<1>7. CASE Beat
  BY <1>7, ResultsSent
<1>8. CASE Apply
  BY <1>8, OrderApplied, ResultsMade
<1>9. CASE BatchOver
  BY <1>9, ResultsWritten
<1>10. CASE ApplyRestart \/ CurlGivesUp \/ Leave
  <2> DEFINE X == {Bye(url)}
  <2>1. \A m \in X : m.results = <<>>
    BY DEF Bye
  <2>2. /\ net' \subseteq net \union X \/ net' \subseteq Unwaited(net) \union X
        /\ file' \in {file, <<>>} /\ results' \in {results, <<>>}
        /\ UNCHANGED <<log, applied>>
    BY <1>10 DEF ApplyRestart, CurlGivesUp, Leave, gatewayVars
  <2> HIDE DEF X
  <2> QED BY <2>1, <2>2, ResultsDropped
<1>11. CASE ReadReply \/ Return \/ UNCHANGED vars
  <2>1. UNCHANGED <<net, log, applied, file, results>>
    BY <1>11 DEF ReadReply, Return, vars, gatewayVars, machineVars
  <2> QED BY <2>1, ResultsKept
<1> QED BY <1>1, <1>2, <1>3, <1>4, <1>5, <1>6, <1>7, <1>8, <1>9, <1>10, <1>11,
        <1>12 DEF Next

\* The invariant holds always.
THEOREM ChannelInvariant == Spec => []ChannelInv
<1>1. ChannelInv /\ [Next]_vars => ChannelInv'
  BY TypeStep, OrderStep, ResultsStep DEF ChannelInv
<1> QED BY ChannelInvInit, <1>1, PTL DEF Spec

-----------------------------------------------------------------------------
(* What follows *)

\* Type correctness of the channel: every queue, batch and list of results holds
\* commands that were queued (pending_commands, gateway/llm_gateway.py:77, and
\* apply_commands, bin/llm:267-301).
THEOREM ChannelTypes == Spec => []TypeOK
<1>1. ChannelInv => TypeOK
  BY DEF ChannelInv
<1> QED BY <1>1, ChannelInvariant, PTL

\* Commands for one record are applied in the order they were queued (model_action's
\* append, gateway/llm_gateway.py:464, and the loop of bin/llm:277), whatever is lost.
THEOREM AppliedInTheirOrder == Spec => []AppliedInOrder
<1>1. ChannelInv => AppliedInOrder
  BY DEF ChannelInv, OrderInv, InOrder, AppliedInOrder
<1> QED BY <1>1, ChannelInvariant, PTL

\* No command is applied twice, and no result shown twice: register hands the queue
\* out once (gateway/llm_gateway.py:331), gw_post the results file (bin/llm:337).
THEOREM AppliedAtMostOnce == Spec => []AtMostOnce
<1>1. ASSUME ChannelInv PROVE AtMostOnce
  <2>1. IsInjective(log)
    BY <1>1 DEF ChannelInv, ResultsInv, Once
  <2>2. ASSUME NEW i \in DOMAIN applied, NEW j \in DOMAIN applied,
               applied[i] = applied[j]
        PROVE  i = j
    <3>1. i \in Nat /\ j \in Nat /\ queued \in Nat /\ applied[i] \in 1 .. queued
      BY <1>1, StageTypes, Numbers DEF ChannelInv
    <3>2. ~(i < j) /\ ~(j < i)
      BY <1>1, <2>2, <3>1 DEF ChannelInv, OrderInv, InOrder
    <3> QED BY <3>1, <3>2
  <2> QED BY <2>1, <2>2 DEF AtMostOnce, IsInjective
<1> QED BY <1>1, ChannelInvariant, PTL

\* The gateway shows a result only of a command the machine has applied
\* (gateway/llm_gateway.py:307-332, bin/llm:277-301).
THEOREM ResultsAreTruthful == Spec => []ResultsTruthful
<1>1. ChannelInv => ResultsTruthful
  BY DEF ChannelInv, ResultsInv, Once, ResultsTruthful
<1> QED BY <1>1, ChannelInvariant, PTL

=============================================================================
