------------------------- MODULE PeerRegistryProofs -------------------------
(***************************************************************************)
(* The peer registry implements PeerTable, and no record outlives its      *)
(* machine for longer than the timers allow, for any number of machines,   *)
(* register handlers and restarts and for all values of the timers.        *)
(*                                                                         *)
(* A poll writes to the table long after it captured its record, so that   *)
(* RoutableWasHeard holds only because of what every poll in progress      *)
(* still holds and has done so far: that is PollsConsistent.               *)
(***************************************************************************)
EXTENDS PeerRegistry, TLAPS

\* What is known of an URL leaves the table with it.
UnlistedUnknown ==
    \A u \in Urls \ peers :
        ~ok[u] /\ models[u] = Unpolled

\* The record a poll holds is in the table; once it waits for details its
\* answer has been stored.
PollsConsistent ==
    \A s \in Starters, u \in Urls :
        /\ task[s][u].held => u \in peers
        /\ task[s][u].st = "answered" => task[s][u].ans \in Answers
        /\ task[s][u].st = "detail" /\ task[s][u].held => models[u] # Unpolled

RegistryInv == TypeOK /\ UnlistedUnknown /\ PollsConsistent /\ RoutableWasHeard

-----------------------------------------------------------------------------
(* Types.  The variables fall into three groups with types of their own. *)

TableTypes ==
    /\ peers \subseteq Urls
    /\ ok \in [Urls -> BOOLEAN]
    /\ models \in [Urls -> Answers \union {Unpolled}]
    /\ age \in [Urls -> 0 .. MaxAge]

PollTypes ==
    /\ poller \in {"sleep", "gather", "dead"}
    /\ nap \in 0 .. POLL
    /\ task \in [Starters -> [Urls -> Tasks]]

MachineTypes ==
    /\ beat \in [Urls -> [st : BeatStates, left : 0 .. HB + CurlMax]]
    /\ net \in [Urls -> SUBSET Messages]
    /\ serving \in [Urls -> Answers \union {Down}]
    /\ downFor \in [Urls -> 0 .. MaxDown]
    /\ lossy \subseteq Urls

LEMMA TypeParts == TypeOK <=> TableTypes /\ PollTypes /\ MachineTypes
BY DEF TypeOK, TableTypes, PollTypes, MachineTypes

LEMMA TaskRecords ==
    /\ Idle \in Tasks /\ Created \in Tasks /\ Asked \in Tasks
    /\ \A t \in Tasks : [t EXCEPT !.held = FALSE] \in Tasks
    /\ \A t \in Tasks : [t EXCEPT !.left = Less(@)] \in Tasks
<1> USE TimesAssumption DEF Tasks, TaskStates
<1>1. Idle \in Tasks
  BY DEF Idle
<1>2. Created \in Tasks
  <2>1. \A t \in Tasks : [t EXCEPT !.st = "new"] \in Tasks
    OBVIOUS
  <2> QED BY <1>1, <2>1 DEF Created
<1>3. Asked \in Tasks
  BY DEF Asked
<1>4. \A t \in Tasks : [t EXCEPT !.held = FALSE] \in Tasks
  OBVIOUS
<1>5. \A t \in Tasks : [t EXCEPT !.left = Less(@)] \in Tasks
  BY DEF Less
<1> QED BY <1>1, <1>2, <1>3, <1>4, <1>5

LEMMA RegistryInvInit == Init => RegistryInv
<1> SUFFICES ASSUME Init PROVE RegistryInv
  OBVIOUS
<1>1. TableTypes
  BY TimesAssumption DEF Init, TableTypes, MaxAge
<1>2. PollTypes
  BY TimesAssumption, TaskRecords DEF Init, PollTypes
<1>3. MachineTypes
  BY TimesAssumption, LossyAssumption DEF Init, MachineTypes, BeatStates, MaxDown
<1>4. UnlistedUnknown /\ PollsConsistent /\ RoutableWasHeard
  BY DEF Init, UnlistedUnknown, PollsConsistent, RoutableWasHeard, Idle
<1> QED BY <1>1, <1>2, <1>3, <1>4, TypeParts DEF RegistryInv

-----------------------------------------------------------------------------
(* Steps of machines and users leave the gateway alone. *)

LEMMA GatewayUntouched ==
    ASSUME RegistryInv, UNCHANGED gatewayVars, MachineTypes'
    PROVE  RegistryInv'
<1>1. TableTypes' /\ PollTypes'
  BY TypeParts DEF RegistryInv, gatewayVars, TableTypes, PollTypes
<1>2. TypeOK'
  BY <1>1 DEF TypeOK, TableTypes, PollTypes, MachineTypes
<1>3. UnlistedUnknown' /\ PollsConsistent' /\ RoutableWasHeard'
  BY DEF RegistryInv, gatewayVars, UnlistedUnknown, PollsConsistent, RoutableWasHeard
<1> QED BY <1>2, <1>3 DEF RegistryInv

LEMMA MachineSteps ==
    ASSUME RegistryInv, NEW u \in Urls,
           \/ \E a \in Answers \union {Down} : RouterChanges(u, a)
           \/ Join(u) \/ RegisterOnce(u) \/ Beat(u) \/ BeatOver(u)
           \/ Leave(u) \/ Crash(u) \/ LoseRequest(u) \/ NetworkHeals(u)
    PROVE  UNCHANGED gatewayVars /\ MachineTypes'
<1> USE TypeParts, TimesAssumption DEF RegistryInv, MachineTypes, BeatStates, Messages
<1>1. ASSUME NEW a \in Answers \union {Down}, RouterChanges(u, a)
      PROVE  UNCHANGED gatewayVars /\ MachineTypes'
  BY <1>1 DEF RouterChanges, MaxDown
<1>2. CASE Join(u)
  BY <1>2 DEF Join
<1>3. CASE RegisterOnce(u)
  BY <1>3 DEF RegisterOnce
<1>4. CASE Beat(u)
  BY <1>4 DEF Beat
<1>5. CASE BeatOver(u)
  BY <1>5 DEF BeatOver
<1>6. CASE Leave(u)
  BY <1>6 DEF Leave
<1>7. CASE Crash(u)
  BY <1>7 DEF Crash, MaxDown
<1>8. CASE LoseRequest(u)
  BY <1>8 DEF LoseRequest
<1>9. CASE NetworkHeals(u)
  BY <1>9 DEF NetworkHeals, machineVars
<1> QED BY <1>1, <1>2, <1>3, <1>4, <1>5, <1>6, <1>7, <1>8, <1>9

-----------------------------------------------------------------------------
(* Steps of the gateway *)

\* Whatever leaves the table, the polls that held it hold nothing afterwards.
LEMMA ForgetKeeps ==
    ASSUME RegistryInv, NEW gone \in SUBSET peers,
           NEW polls \in [Starters -> [Urls -> Tasks]],
           \A s \in Starters, u \in Urls :
               polls[s][u] \in {task[s][u], Idle, Created},
           Forget(gone, polls)
    PROVE  /\ TableTypes' /\ task' \in [Starters -> [Urls -> Tasks]]
           /\ UnlistedUnknown' /\ PollsConsistent' /\ RoutableWasHeard'
<1> USE TypeParts DEF RegistryInv
<1>1. TableTypes'
  BY TimesAssumption DEF Forget, TableTypes, MaxAge
<1>2. task' \in [Starters -> [Urls -> Tasks]]
  BY TaskRecords DEF Forget, Orphaned
<1>3. UnlistedUnknown' /\ RoutableWasHeard'
  BY DEF Forget, UnlistedUnknown, RoutableWasHeard, TableTypes
<1>4. PollsConsistent'
  <2> SUFFICES ASSUME NEW s \in Starters, NEW u \in Urls
               PROVE  /\ task'[s][u].held => u \in peers'
                      /\ task'[s][u].st = "answered" => task'[s][u].ans \in Answers
                      /\ task'[s][u].st = "detail" /\ task'[s][u].held
                           => models'[u] # Unpolled
    BY DEF PollsConsistent
  <2>1. /\ polls[s][u] \in Tasks
        /\ polls[s][u].held => u \in peers
        /\ polls[s][u].st = "answered" => polls[s][u].ans \in Answers
        /\ polls[s][u].st = "detail" /\ polls[s][u].held => models[u] # Unpolled
    BY DEF PollsConsistent, Idle, Created
  <2>2. CASE u \in gone
    <3>1. task'[s][u] = [polls[s][u] EXCEPT !.held = FALSE]
      BY <2>2 DEF Forget, Orphaned
    <3> QED BY <2>1, <3>1 DEF Tasks
  <2>3. CASE u \notin gone
    <3>1. task'[s][u] = polls[s][u] /\ models'[u] = models[u]
      BY <2>3 DEF Forget
    <3> QED BY <2>1, <2>3, <3>1 DEF Forget
  <2> QED BY <2>2, <2>3
<1> QED BY <1>1, <1>2, <1>3, <1>4

\* A poll that goes on or ends: only its own entry and its own record change.
LEMMA PollKeeps ==
    ASSUME RegistryInv, NEW s \in Starters, NEW u \in Urls, NEW t \in Tasks,
           task' = [task EXCEPT ![s][u] = t],
           t.held => task[s][u].held \/ u \in peers',
           t.st = "answered" => t.ans \in Answers,
           t.st = "detail" /\ t.held => models'[u] # Unpolled,
           peers \subseteq peers',
           \A v \in Urls : models[v] # Unpolled => models'[v] # Unpolled
    PROVE  task' \in [Starters -> [Urls -> Tasks]] /\ PollsConsistent'
<1>1. task' \in [Starters -> [Urls -> Tasks]]
  BY TypeParts DEF RegistryInv, PollTypes
<1>2. PollsConsistent'
  <2> SUFFICES ASSUME NEW r \in Starters, NEW v \in Urls
               PROVE  /\ task'[r][v].held => v \in peers'
                      /\ task'[r][v].st = "answered" => task'[r][v].ans \in Answers
                      /\ task'[r][v].st = "detail" /\ task'[r][v].held
                           => models'[v] # Unpolled
    BY DEF PollsConsistent
  <2>1. CASE r = s /\ v = u
    <3>1. task'[r][v] = t
      BY <2>1, TypeParts DEF RegistryInv, PollTypes
    <3> QED BY <2>1, <3>1 DEF RegistryInv, PollsConsistent
  <2>2. CASE ~(r = s /\ v = u)
    <3>1. task'[r][v] = task[r][v]
      BY <2>2, TypeParts DEF RegistryInv, PollTypes
    <3> QED BY <3>1 DEF RegistryInv, PollsConsistent
  <2> QED BY <2>1, <2>2
<1> QED BY <1>1, <1>2

LEMMA PollSteps ==
    ASSUME RegistryInv, NEW s \in Starters, NEW u \in Urls, PollStep(s, u)
    PROVE  RegistryInv'
<1> USE TypeParts DEF RegistryInv
<1> DEFINE t == task[s][u]
<1>0. t \in Tasks /\ Idle \in Tasks /\ UNCHANGED <<machineVars, lossy>>
  BY TaskRecords DEF PollTypes, PollStep, RouterAnswers, ReadAnswer, DetailOver, DetailFails, PollFails
<1>1. MachineTypes'
  BY <1>0 DEF MachineTypes, machineVars
<1>2. CASE RouterAnswers(s, u)
  <2> DEFINE a == [t EXCEPT !.st = "answered", !.ans = serving[u]]
  <2>1. serving[u] \in Answers
    BY <1>2 DEF RouterAnswers, HasAnswer, MachineTypes
  <2>2. a \in Tasks /\ a.st = "answered" /\ a.ans = serving[u] /\ a.held = t.held
    BY <1>0, <2>1 DEF Tasks, TaskStates
  <2>3. task' = [task EXCEPT ![s][u] = a] /\ UNCHANGED <<peers, ok, models, age, poller, nap>>
    BY <1>2 DEF RouterAnswers, PollTypes
  <2>4. task' \in [Starters -> [Urls -> Tasks]] /\ PollsConsistent'
    BY <2>1, <2>2, <2>3, PollKeeps
  <2>5. TypeOK'
    BY <1>1, <2>3, <2>4 DEF TypeOK, TableTypes, PollTypes, MachineTypes
  <2> QED BY <2>3, <2>4, <2>5 DEF UnlistedUnknown, RoutableWasHeard
<1>3. CASE ReadAnswer(s, u)
  <2> DEFINE raises == t.ans \in Garbled
             more == t.ans \in LoadedAnswers
             d == IF more /\ ~raises THEN [t EXCEPT !.st = "detail"] ELSE Idle
  <2>1. t.ans \in Answers /\ t.ans # Unpolled
    BY <1>3, UnpolledAssumption DEF ReadAnswer, PollsConsistent
  <2>2. /\ d \in Tasks /\ d.st # "answered" /\ (d.held => t.held)
        /\ d.st = "detail" => ~raises
        /\ UNCHANGED <<peers, age, nap>>
        /\ task' = [task EXCEPT ![s][u] = d]
    BY <1>0, <1>3 DEF ReadAnswer, Tasks, TaskStates, Idle
  <2>3. poller' \in {"sleep", "gather", "dead"}
    BY <1>3 DEF ReadAnswer, PollTypes
  <2>4. CASE t.held
    <3>1. /\ \/ models' = [models EXCEPT ![u] = t.ans]
             \/ raises /\ models' = models
          /\ ok' = [ok EXCEPT ![u] = (~raises /\ ~more) \/ @] /\ u \in peers
      BY <1>3, <2>4 DEF ReadAnswer, PollsConsistent
    <3>2. /\ TableTypes' /\ UnlistedUnknown' /\ RoutableWasHeard'
          /\ \A v \in Urls : models[v] # Unpolled => models'[v] # Unpolled
          /\ ~raises => models'[u] # Unpolled
      <4>1. CASE models' = [models EXCEPT ![u] = t.ans]
        BY <2>1, <2>2, <3>1, <4>1 DEF TableTypes, UnlistedUnknown, RoutableWasHeard
      <4>2. CASE raises /\ models' = models
        BY <2>1, <2>2, <3>1, <4>2 DEF TableTypes, UnlistedUnknown, RoutableWasHeard
      <4> QED BY <3>1, <4>1, <4>2
    <3>3. task' \in [Starters -> [Urls -> Tasks]] /\ PollsConsistent'
      BY <2>2, <3>2, PollKeeps
    <3>4. TypeOK'
      BY <1>1, <2>2, <2>3, <3>2, <3>3 DEF TypeOK, TableTypes, PollTypes, MachineTypes
    <3> QED BY <3>2, <3>3, <3>4
  <2>5. CASE ~t.held
    <3>1. UNCHANGED <<models, ok>>
      BY <1>3, <2>5 DEF ReadAnswer, TableTypes
    <3>2. task' \in [Starters -> [Urls -> Tasks]] /\ PollsConsistent'
      BY <2>2, <2>5, <3>1, PollKeeps
    <3>3. TypeOK'
      BY <1>1, <2>2, <2>3, <3>1, <3>2 DEF TypeOK, TableTypes, PollTypes, MachineTypes
    <3> QED BY <2>2, <3>1, <3>2, <3>3 DEF UnlistedUnknown, RoutableWasHeard
  <2> QED BY <2>4, <2>5
<1>4. CASE DetailOver(s, u)
  <2>1. /\ UNCHANGED <<peers, models, age, poller, nap>>
        /\ task' = [task EXCEPT ![s][u] = Idle]
        /\ ok' = [ok EXCEPT ![u] = t.held \/ @]
        /\ t.held => u \in peers /\ models[u] # Unpolled
    BY <1>4 DEF DetailOver, Healed, PollsConsistent
  <2>2. TableTypes' /\ UnlistedUnknown' /\ RoutableWasHeard'
    BY <1>0, <2>1 DEF TableTypes, UnlistedUnknown, RoutableWasHeard, Tasks
  <2>3. task' \in [Starters -> [Urls -> Tasks]] /\ PollsConsistent'
    BY <1>0, <2>1, PollKeeps DEF Idle
  <2>4. TypeOK'
    BY <1>1, <2>1, <2>2, <2>3 DEF TypeOK, TableTypes, PollTypes, MachineTypes
  <2> QED BY <2>2, <2>3, <2>4
<1>5. CASE PollFails(s, u) \/ DetailFails(s, u)
  <2>1. /\ UNCHANGED <<peers, models, age, poller, nap>>
        /\ task' = [task EXCEPT ![s][u] = Idle]
        /\ ok' = [ok EXCEPT ![u] = ~t.held /\ @]
    BY <1>5 DEF PollFails, DetailFails, Cleared
  <2>2. TableTypes' /\ UnlistedUnknown' /\ RoutableWasHeard'
    BY <1>0, <2>1 DEF TableTypes, UnlistedUnknown, RoutableWasHeard, Tasks
  <2>3. task' \in [Starters -> [Urls -> Tasks]] /\ PollsConsistent'
    BY <1>0, <2>1, PollKeeps DEF Idle
  <2>4. TypeOK'
    BY <1>1, <2>1, <2>2, <2>3 DEF TypeOK, TableTypes, PollTypes, MachineTypes
  <2> QED BY <2>2, <2>3, <2>4
<1> QED BY <1>2, <1>3, <1>4, <1>5 DEF PollStep

LEMMA GatewaySteps ==
    ASSUME RegistryInv, GatewayNext
    PROVE  RegistryInv'
<1> USE TypeParts DEF RegistryInv
<1>1. ASSUME NEW u \in Urls, RegisterKnown(u) PROVE RegistryInv'
  <2>1. /\ UNCHANGED <<peers, ok, models, poller, nap, task>>
        /\ age' = [age EXCEPT ![u] = 0]
    BY <1>1 DEF RegisterKnown, Refresh
  <2>2. MachineTypes'
    BY <1>1 DEF RegisterKnown, MachineTypes
  <2>3. TypeOK'
    <3>1. 0 \in 0 .. MaxAge
      BY TimesAssumption DEF MaxAge
    <3>2. TableTypes' /\ PollTypes'
      BY <2>1, <3>1 DEF TableTypes, PollTypes
    <3> QED BY <2>2, <3>2 DEF TypeOK, TableTypes, PollTypes, MachineTypes
  <2> QED BY <2>1, <2>3 DEF UnlistedUnknown, PollsConsistent, RoutableWasHeard
<1>2. ASSUME NEW u \in Urls, Deregister(u) PROVE RegistryInv'
  <2>1. task \in [Starters -> [Urls -> Tasks]] /\ {u} \intersect peers \in SUBSET peers
    BY DEF PollTypes
  <2>2. Forget({u} \intersect peers, task)
    BY <1>2 DEF Deregister
  <2>3. /\ TableTypes' /\ task' \in [Starters -> [Urls -> Tasks]]
        /\ UnlistedUnknown' /\ PollsConsistent' /\ RoutableWasHeard'
    BY <2>1, <2>2, ForgetKeeps
  <2>4. MachineTypes' /\ UNCHANGED <<poller, nap>>
    BY <1>2 DEF Deregister, MachineTypes
  <2>5. TypeOK'
    BY <2>3, <2>4 DEF TypeOK, TableTypes, PollTypes, MachineTypes
  <2> QED BY <2>3, <2>5
<1>3. ASSUME NEW u \in Urls, StartPoll(u) PROVE RegistryInv'
  <2> DEFINE t == IF u \in peers /\ u \notin BadUrls THEN Asked ELSE Idle
  <2>1. /\ UNCHANGED <<peers, ok, models, age, nap, machineVars, lossy>>
        /\ task' = [task EXCEPT ![Gather][u] = t] /\ poller' \in {poller, "dead"}
    BY <1>3 DEF StartPoll
  <2>2. t \in Tasks /\ t.st \notin {"answered", "detail"} /\ (t.held => u \in peers)
    BY TaskRecords DEF Asked, Idle
  <2>3. task' \in [Starters -> [Urls -> Tasks]] /\ PollsConsistent'
    BY <2>1, <2>2, PollKeeps DEF Starters
  <2>4. TypeOK'
    BY <2>1, <2>3 DEF TypeOK, TableTypes, PollTypes, MachineTypes, machineVars
  <2> QED BY <2>1, <2>3, <2>4 DEF UnlistedUnknown, RoutableWasHeard
<1>4. ASSUME NEW u \in Urls, ForwardFails(u) PROVE RegistryInv'
  <2>1. /\ UNCHANGED <<peers, models, age, poller, nap, task, machineVars, lossy>>
        /\ ok' = [ok EXCEPT ![u] = FALSE]
    BY <1>4 DEF ForwardFails
  <2>2. TypeOK'
    BY <2>1 DEF TypeOK, TableTypes, PollTypes, MachineTypes, machineVars
  <2>3. PollsConsistent'
    BY <2>1 DEF PollsConsistent
  <2>4. UnlistedUnknown' /\ RoutableWasHeard'
    BY <2>1 DEF UnlistedUnknown, RoutableWasHeard, TableTypes
  <2> QED BY <2>2, <2>3, <2>4
<1>5. ASSUME NEW u \in Urls, NEW h \in Handlers, RegisterNew(u, h) PROVE RegistryInv'
  <2> DEFINE t == IF u \in BadUrls THEN Idle ELSE Asked
  <2>1. /\ UNCHANGED <<ok, models, poller, nap>>
        /\ peers' = peers \union {u} /\ age' = [age EXCEPT ![u] = 0]
        /\ task' = [task EXCEPT ![h][u] = t]
    BY <1>5 DEF RegisterNew, Refresh
  <2>2. t \in Tasks /\ t.st \notin {"answered", "detail"}
    BY TaskRecords DEF Asked, Idle
  <2>3. task' \in [Starters -> [Urls -> Tasks]] /\ PollsConsistent'
    BY <2>1, <2>2, PollKeeps DEF Starters
  <2>4. MachineTypes'
    BY <1>5 DEF RegisterNew, MachineTypes
  <2>5. TypeOK'
    <3>1. 0 \in 0 .. MaxAge
      BY TimesAssumption DEF MaxAge
    <3>2. TableTypes' /\ PollTypes'
      BY <2>1, <2>3, <3>1 DEF TableTypes, PollTypes
    <3> QED BY <2>4, <3>2 DEF TypeOK, TableTypes, PollTypes, MachineTypes
  <2> QED BY <2>1, <2>3, <2>5 DEF UnlistedUnknown, RoutableWasHeard
<1>6. ASSUME Wake PROVE RegistryInv'
  <2> DEFINE gone == {u \in peers : Stale(u)}
             polls == [task EXCEPT ![Gather] =
                         [u \in Urls |-> IF InRound(u, gone) THEN Created ELSE Idle]]
  <2>1. Forget(gone, polls) /\ gone \in SUBSET peers
    BY <1>6 DEF Wake
  <2>2. /\ polls \in [Starters -> [Urls -> Tasks]]
        /\ \A s \in Starters, u \in Urls : polls[s][u] \in {task[s][u], Idle, Created}
    BY TaskRecords DEF PollTypes
  <2>3. /\ TableTypes' /\ task' \in [Starters -> [Urls -> Tasks]]
        /\ UnlistedUnknown' /\ PollsConsistent' /\ RoutableWasHeard'
    BY <2>1, <2>2, ForgetKeeps
  <2>4. MachineTypes' /\ poller' = "gather" /\ UNCHANGED nap
    BY <1>6 DEF Wake, MachineTypes, machineVars
  <2>5. TypeOK'
    BY <2>3, <2>4 DEF TypeOK, TableTypes, PollTypes, MachineTypes
  <2> QED BY <2>3, <2>5
<1>7. ASSUME GatherOver PROVE RegistryInv'
  <2>1. /\ UNCHANGED <<peers, ok, models, age, task, machineVars, lossy>>
        /\ poller' = "sleep" /\ nap' = POLL
    BY <1>7 DEF GatherOver
  <2>2. TypeOK'
    BY <2>1, TimesAssumption
       DEF TypeOK, TableTypes, PollTypes, MachineTypes, machineVars
  <2> QED BY <2>1, <2>2 DEF UnlistedUnknown, PollsConsistent, RoutableWasHeard
<1>8. ASSUME GatewayRestarts PROVE RegistryInv'
  <2>1. TableTypes'
    BY <1>8, TimesAssumption DEF GatewayRestarts, TableTypes, MaxAge
  <2>2. PollTypes'
    BY <1>8, TimesAssumption, TaskRecords DEF GatewayRestarts, PollTypes
  <2>3. MachineTypes'
    BY <1>8, TimesAssumption DEF GatewayRestarts, MachineTypes
  <2>4. UnlistedUnknown' /\ PollsConsistent' /\ RoutableWasHeard'
    BY <1>8 DEF GatewayRestarts, UnlistedUnknown, PollsConsistent, RoutableWasHeard, Idle
  <2>5. TypeOK'
    BY <2>1, <2>2, <2>3 DEF TypeOK, TableTypes, PollTypes, MachineTypes
  <2> QED BY <2>4, <2>5
<1> QED BY <1>1, <1>2, <1>3, <1>4, <1>5, <1>6, <1>7, <1>8 DEF GatewayNext

LEMMA TickStep ==
    ASSUME RegistryInv, Tick
    PROVE  RegistryInv'
<1> USE TypeParts, TimesAssumption DEF RegistryInv
<1>1. UNCHANGED <<peers, ok, models, poller, net, serving, lossy>>
  BY DEF Tick
<1>2. TableTypes'
  BY <1>1 DEF Tick, TableTypes, Min2, MaxAge
<1>3. task' \in [Starters -> [Urls -> Tasks]]
  <2>1. ASSUME NEW s \in Starters, NEW u \in Urls
        PROVE  [task[s][u] EXCEPT !.left = Less(@)] \in Tasks
    BY TaskRecords DEF PollTypes
  <2> QED BY <2>1 DEF Tick
<1>4. PollTypes'
  <2>1. nap' \in 0 .. POLL
    <3>1. nap \in 0 .. POLL
      BY DEF PollTypes
    <3>2. nap' = Less(nap)
      BY DEF Tick
    <3> QED BY <3>1, <3>2 DEF Less
  <2> QED BY <1>1, <1>3, <2>1 DEF PollTypes
<1>5. MachineTypes'
  <2>1. beat' \in [Urls -> [st : BeatStates, left : 0 .. HB + CurlMax]]
    <3>1. ASSUME NEW u \in Urls
          PROVE  [beat[u] EXCEPT !.left = Less(@)]
                    \in [st : BeatStates, left : 0 .. HB + CurlMax]
      BY DEF MachineTypes, Less
    <3> QED BY <3>1 DEF Tick
  <2>2. downFor' \in [Urls -> 0 .. MaxDown]
    BY DEF Tick, MachineTypes, Min2, MaxDown
  <2> QED BY <1>1, <2>1, <2>2 DEF MachineTypes
<1>6. PollsConsistent'
  <2>1. ASSUME NEW s \in Starters, NEW u \in Urls
        PROVE  /\ task'[s][u].st = task[s][u].st
               /\ task'[s][u].held = task[s][u].held
               /\ task'[s][u].ans = task[s][u].ans
    <3>1. task'[s][u] = [task[s][u] EXCEPT !.left = Less(@)]
      BY DEF Tick
    <3>2. task[s][u] \in Tasks
      BY DEF PollTypes
    <3> QED BY <3>1, <3>2 DEF Tasks
  <2> QED BY <1>1, <2>1 DEF PollsConsistent
<1>7. TypeOK'
  BY <1>2, <1>4, <1>5 DEF TypeOK, TableTypes, PollTypes, MachineTypes
<1> QED BY <1>1, <1>6, <1>7 DEF UnlistedUnknown, RoutableWasHeard

LEMMA RegistryInvNext == RegistryInv /\ [Next]_vars => RegistryInv'
<1> SUFFICES ASSUME RegistryInv, [Next]_vars PROVE RegistryInv'
  OBVIOUS
<1>1. CASE MachineNext
  BY <1>1, MachineSteps, GatewayUntouched DEF MachineNext
<1>2. CASE PollNext
  BY <1>2, PollSteps DEF PollNext
<1>3. CASE GatewayNext
  BY <1>3, GatewaySteps
<1>4. CASE Tick
  BY <1>4, TickStep
<1>5. CASE UNCHANGED vars
  <2>1. UNCHANGED gatewayVars /\ UNCHANGED machineVars
            /\ UNCHANGED <<lossy>>
    BY <1>5 DEF vars
  <2>2. MachineTypes'
    BY <2>1, TypeParts DEF RegistryInv, MachineTypes, machineVars
  <2> QED BY <2>1, <2>2, GatewayUntouched
<1> QED BY <1>1, <1>2, <1>3, <1>4, <1>5 DEF Next

\* The state of the registry always has its type.
THEOREM RegistryTypes == Spec => []TypeOK
<1>1. RegistryInv => TypeOK
  BY DEF RegistryInv
<1> QED BY <1>1, RegistryInvInit, RegistryInvNext, PTL DEF Spec

\* No request goes to a machine that has not answered since it registered,
\* whichever polls of records that left the table are still running.
THEOREM RegistryRoutesToHeard == Spec => []RoutableWasHeard
<1>1. RegistryInv => RoutableWasHeard
  BY DEF RegistryInv
<1> QED BY <1>1, RegistryInvInit, RegistryInvNext, PTL DEF Spec

-----------------------------------------------------------------------------
(* The registry implements PeerTable: a step on a record that is in the     *)
(* table is the step of the same name, one on an orphan is no step at all.  *)

LEMMA RegistryStepIsTableStep ==
    RegistryInv /\ [Next]_vars => [Table!TableNext]_(Table!tableVars)
<1> SUFFICES ASSUME RegistryInv, Next
             PROVE  Table!TableNext \/ UNCHANGED Table!tableVars
  BY DEF vars, gatewayVars, Table!tableVars
<1> USE TypeParts DEF RegistryInv
<1>1. ASSUME NEW u \in Urls, Deregister(u)
      PROVE  Table!TableNext \/ UNCHANGED Table!tableVars
  <2>1. CASE u \in peers
    <3>1. Table!Drop({u})
      BY <1>1, <2>1 DEF Deregister, Forget, Table!Drop
    <3> QED BY <2>1, <3>1 DEF Table!TableNext
  <2>2. CASE u \notin peers
    BY <1>1, <2>2 DEF Deregister, Forget, Table!tableVars, TableTypes
  <2> QED BY <2>1, <2>2
<1>2. ASSUME Wake PROVE Table!TableNext \/ UNCHANGED Table!tableVars
  <2> DEFINE gone == {u \in peers : Stale(u)}
  <2>1. CASE gone # {}
    <3>1. Table!Drop(gone)
      BY <1>2, <2>1 DEF Wake, Forget, Table!Drop
    <3> QED BY <3>1 DEF Table!TableNext
  <2>2. CASE gone = {}
    <3>1. /\ peers' = peers /\ ok' = [u \in Urls |-> ok[u]]
          /\ models' = [u \in Urls |-> models[u]]
      BY <1>2, <2>2 DEF Wake, Forget, TableTypes
    <3> QED BY <3>1 DEF Table!tableVars, TableTypes
  <2> QED BY <2>1, <2>2
<1>3. ASSUME NEW u \in Urls, NEW h \in Handlers, RegisterNew(u, h)
      PROVE  Table!TableNext
  BY <1>3 DEF RegisterNew, Table!TableNext, Table!Insert
<1>4. ASSUME NEW s \in Starters, NEW u \in Urls, ReadAnswer(s, u)
      PROVE  Table!TableNext \/ UNCHANGED Table!tableVars
  <2> DEFINE a == task[s][u].ans
             routable == a \notin Garbled /\ a \notin LoadedAnswers
  <2>1. CASE task[s][u].held /\ models' = [models EXCEPT ![u] = a]
    <3>1. a \in Answers /\ u \in peers /\ routable \in BOOLEAN
      BY <1>4, <2>1 DEF ReadAnswer, PollsConsistent
    <3>2. Table!Learn(u, a, routable)
      BY <1>4, <2>1, <3>1 DEF ReadAnswer, Table!Learn
    <3> QED BY <3>1, <3>2 DEF Table!TableNext
  <2>2. CASE ~task[s][u].held
    BY <1>4, <2>2 DEF ReadAnswer, Table!tableVars, TableTypes
  <2>3. CASE task[s][u].held /\ models' # [models EXCEPT ![u] = a]
    <3>1. a \in Garbled /\ models' = models
      BY <1>4, <2>3 DEF ReadAnswer
    <3> QED BY <1>4, <3>1 DEF ReadAnswer, Table!tableVars, TableTypes
  <2> QED BY <2>1, <2>2, <2>3
<1>5. ASSUME NEW s \in Starters, NEW u \in Urls, DetailOver(s, u)
      PROVE  Table!TableNext \/ UNCHANGED Table!tableVars
  <2>1. CASE task[s][u].held
    <3>1. Table!Heal(u)
      BY <1>5, <2>1 DEF DetailOver, Healed, Table!Heal, PollsConsistent, TableTypes
    <3> QED BY <3>1 DEF Table!TableNext
  <2>2. CASE ~task[s][u].held
    BY <1>5, <2>2 DEF DetailOver, Healed, Table!tableVars, TableTypes
  <2> QED BY <2>1, <2>2
<1>6. ASSUME NEW s \in Starters, NEW u \in Urls, PollFails(s, u) \/ DetailFails(s, u)
      PROVE  Table!TableNext \/ UNCHANGED Table!tableVars
  <2>1. CASE task[s][u].held
    <3>1. Table!Fail(u)
      BY <1>6, <2>1 DEF PollFails, DetailFails, Cleared, Table!Fail, PollsConsistent,
                        TableTypes
    <3> QED BY <3>1 DEF Table!TableNext
  <2>2. CASE ~task[s][u].held
    BY <1>6, <2>2 DEF PollFails, DetailFails, Cleared, Table!tableVars, TableTypes
  <2> QED BY <2>1, <2>2
<1>7. ASSUME NEW u \in Urls, ForwardFails(u) PROVE Table!TableNext
  BY <1>7 DEF ForwardFails, Table!TableNext, Table!Fail
<1>8. ASSUME GatewayRestarts PROVE Table!TableNext \/ UNCHANGED Table!tableVars
  <2>1. CASE peers # {}
    <3>1. Table!Drop(peers)
      BY <1>8, <2>1 DEF GatewayRestarts, Table!Drop, UnlistedUnknown
    <3> QED BY <3>1 DEF Table!TableNext
  <2>2. CASE peers = {}
    <3>1. /\ peers' = peers /\ ok' = [u \in Urls |-> ok[u]]
          /\ models' = [u \in Urls |-> models[u]]
      BY <1>8, <2>2 DEF GatewayRestarts, UnlistedUnknown, TableTypes
    <3> QED BY <3>1 DEF Table!tableVars, TableTypes
  <2> QED BY <2>1, <2>2
<1>9. CASE MachineNext
  BY <1>9, MachineSteps DEF MachineNext, gatewayVars, Table!tableVars
<1>10. CASE PollNext
  BY <1>4, <1>5, <1>6, <1>10
     DEF PollNext, PollStep, RouterAnswers, Table!tableVars
<1>11. CASE GatewayNext
  BY <1>1, <1>2, <1>3, <1>7, <1>8, <1>11
     DEF GatewayNext, RegisterKnown, StartPoll, GatherOver, Table!tableVars
<1>12. CASE Tick
  BY <1>12 DEF Tick, Table!tableVars
<1> QED BY <1>9, <1>10, <1>11, <1>12 DEF Next

\* Heartbeats, sweeps, overlapping polls, failing requests and restarts change
\* the table only as PeerTable says.
THEOREM RegistryImplementsTable == Spec => RefinesTable
<1>1. Init => Table!TableInit
  BY DEF Init, Table!TableInit
<1> QED BY <1>1, RegistryInvInit, RegistryInvNext, RegistryStepIsTableStep, PTL
        DEF Spec, RefinesTable, Table!TableSpec

-----------------------------------------------------------------------------
(* How long a machine whose heartbeats have stopped can stay in the table, *)
(* and how long requests can be sent to a router that no longer answers.   *)
(*                                                                         *)
(* A record that passes the sweep is at most TTL old.  From then on its    *)
(* age is tied to the poller: while a round runs, to what its polls have   *)
(* left, which all started together; while the poller sleeps, to what is   *)
(* left of the nap.                                                        *)
(*                                                                         *)
(* `ok` becomes TRUE at most one poll after the router went silent.  From  *)
(* then on either the poll that will clear it is on its way, or it starts  *)
(* when the round that came too early is over and the poller has slept.    *)

\* The round has run for e: every poll of it that is not over has PollMax - e
\* left, and no record is older than e on top of TTL.
RoundRuns(e) ==
    /\ \A u \in peers : age[u] <= TTL + e
    /\ \A u \in Urls :
         /\ task[Gather][u].st = "new" => e = 0
         /\ task[Gather][u].st \in {"asked", "answered", "detail"}
              => task[Gather][u].left = PollMax - e

PollerSleeps == \A u \in peers : age[u] <= TTL + PollMax + POLL - nap

RoundInv ==
    \/ poller = "sleep" /\ PollerSleeps
    \/ poller = "gather" /\ \E e \in 0 .. PollMax : RoundRuns(e)

\* The steps that end or pause no round: no record ages, and each poll of the
\* round is where it was, at its first request, further on, or over.
LEMMA RoundGoesOn ==
    ASSUME RegistryInv, RoundInv, UNCHANGED <<poller, nap>>,
           peers' \subseteq Urls,
           \A u \in peers' : age'[u] = 0 \/ (u \in peers /\ age'[u] = age[u]),
           \A u \in Urls :
              \/ task'[Gather][u].st = "idle"
              \/ /\ task'[Gather][u].st = task[Gather][u].st
                 /\ task'[Gather][u].left = task[Gather][u].left
              \/ /\ task[Gather][u].st = "new"
                 /\ task'[Gather][u].st = "asked"
                 /\ task'[Gather][u].left = PollMax
              \/ /\ task[Gather][u].st \in {"asked", "answered"}
                 /\ task'[Gather][u].st \in {"answered", "detail"}
                 /\ task'[Gather][u].left = task[Gather][u].left
    PROVE  RoundInv'
<1> USE TypeParts, TimesAssumption DEF RegistryInv
<1>1. CASE poller = "sleep"
  <2>1. nap \in 0 .. POLL /\ \A u \in peers : age[u] \in Nat
    BY DEF PollTypes, TableTypes
  <2> QED BY <1>1, <2>1 DEF RoundInv, PollerSleeps
<1>2. CASE poller = "gather"
  <2>1. PICK e \in 0 .. PollMax : RoundRuns(e)
    BY <1>2 DEF RoundInv
  <2>2. \A u \in peers' : age'[u] <= TTL + e
    BY <2>1 DEF RoundRuns
  <2>3. ASSUME NEW u \in Urls
        PROVE  /\ task'[Gather][u].st = "new" => e = 0
               /\ task'[Gather][u].st \in {"asked", "answered", "detail"}
                    => task'[Gather][u].left = PollMax - e
    BY <2>1 DEF RoundRuns
  <2>4. RoundRuns(e)'
    BY <2>2, <2>3 DEF RoundRuns
  <2> QED BY <1>2, <2>1, <2>4 DEF RoundInv
<1> QED BY <1>1, <1>2 DEF RoundInv

\* A step of a poll ends it or takes it on, without giving it more time.
LEMMA PollMovesOn ==
    ASSUME RegistryInv, NEW s \in Starters, NEW u \in Urls, PollStep(s, u)
    PROVE  /\ \/ task'[s][u].st = "idle"
              \/ /\ task[s][u].st \in {"asked", "answered"}
                 /\ task'[s][u].st \in {"answered", "detail"}
                 /\ task'[s][u].left = task[s][u].left
           /\ \A r \in Starters, v \in Urls :
                r # s \/ v # u => task'[r][v] = task[r][v]
<1> USE TypeParts DEF RegistryInv
<1>1. task[s][u] \in Tasks
  BY DEF PollTypes
<1>2. \/ task' = [task EXCEPT ![s][u] = Idle]
      \/ /\ task[s][u].st = "asked"
         /\ task' = [task EXCEPT ![s][u] =
              [task[s][u] EXCEPT !.st = "answered", !.ans = serving[u]]]
      \/ /\ task[s][u].st = "answered"
         /\ task' = [task EXCEPT ![s][u] =
              [task[s][u] EXCEPT !.st = "detail"]]
  BY DEF PollStep, RouterAnswers, ReadAnswer, DetailOver, DetailFails, PollFails, PollTypes
<1>3. \/ task'[s][u].st = "idle"
      \/ /\ task[s][u].st \in {"asked", "answered"}
         /\ task'[s][u].st \in {"answered", "detail"}
         /\ task'[s][u].left = task[s][u].left
  <2>1. \A t : task' = [task EXCEPT ![s][u] = t] => task'[s][u] = t
    BY DEF PollTypes
  <2>2. \/ task'[s][u] = Idle
        \/ /\ task[s][u].st = "asked"
           /\ task'[s][u] = [task[s][u] EXCEPT !.st = "answered", !.ans = serving[u]]
        \/ /\ task[s][u].st = "answered"
           /\ task'[s][u] = [task[s][u] EXCEPT !.st = "detail"]
    BY <1>2, <2>1
  <2>3. \A a : \A t \in Tasks :
          /\ [t EXCEPT !.st = "answered", !.ans = a].st = "answered"
          /\ [t EXCEPT !.st = "answered", !.ans = a].left = t.left
          /\ [t EXCEPT !.st = "detail", !.ans = a].st = "detail"
          /\ [t EXCEPT !.st = "detail", !.ans = a].left = t.left
    BY DEF Tasks
  <2>4. Idle.st = "idle"
    BY DEF Idle
  <2>5. CASE task'[s][u] = Idle
    BY <2>4, <2>5
  <2>6. CASE /\ task[s][u].st = "asked"
             /\ task'[s][u] = [task[s][u] EXCEPT !.st = "answered", !.ans = serving[u]]
    <3>1. task'[s][u].st = "answered" /\ task'[s][u].left = task[s][u].left
      BY <1>1, <2>3, <2>6
    <3> QED BY <2>6, <3>1
  <2>7. CASE /\ task[s][u].st = "answered"
             /\ task'[s][u] = [task[s][u] EXCEPT !.st = "detail"]
    <3>1. task'[s][u].st = "detail" /\ task'[s][u].left = task[s][u].left
      BY <1>1, <2>3, <2>7
    <3> QED BY <2>7, <3>1
  <2> QED BY <2>2, <2>5, <2>6, <2>7
<1>4. \A r \in Starters, v \in Urls :
        r # s \/ v # u => task'[r][v] = task[r][v]
  BY <1>2 DEF PollTypes
<1> QED BY <1>3, <1>4

LEMMA RoundInvTick ==
    ASSUME RegistryInv, RoundInv, Tick
    PROVE  RoundInv'
<1> USE TypeParts, TimesAssumption DEF RegistryInv
<1>1. NothingDue /\ UNCHANGED <<peers, poller>> /\ nap' = Less(nap)
  BY DEF Tick
<1>2. ASSUME NEW u \in peers PROVE age'[u] <= age[u] + 1 /\ age[u] \in Nat
  BY DEF Tick, TableTypes, Min2, MaxAge
<1>3. CASE poller = "sleep"
  <2>1. nap \in 0 .. POLL /\ nap > 0
    BY <1>1, <1>3 DEF NothingDue, PollTypes
  <2>2. nap' = nap - 1
    BY <1>1, <2>1 DEF Less
  <2>3. ASSUME NEW u \in peers PROVE age'[u] <= TTL + PollMax + POLL - nap'
    <3>1. age[u] <= TTL + PollMax + POLL - nap
      BY <1>3 DEF RoundInv, PollerSleeps
    <3>2. age'[u] \in Nat
      BY <1>2 DEF Tick, TableTypes, Min2, MaxAge
    <3> QED BY <1>2, <2>1, <2>2, <3>1, <3>2
  <2> QED BY <1>1, <1>3, <2>3 DEF RoundInv, PollerSleeps
<1>4. CASE poller = "gather"
  <2>1. PICK e \in 0 .. PollMax : RoundRuns(e)
    BY <1>4 DEF RoundInv
  <2>2. ASSUME NEW u \in Urls, task[Gather][u].st # "idle"
        PROVE  /\ task[Gather][u].st \in {"asked", "answered", "detail"}
               /\ task[Gather][u].left = PollMax - e
               /\ task[Gather][u].left > 0
    <3>1. task[Gather][u].st # "new" /\ task[Gather][u].left > 0
      BY <1>1, <2>2 DEF NothingDue, Starters
    <3>2. task[Gather][u] \in Tasks
      BY DEF PollTypes, Starters
    <3> QED BY <2>1, <2>2, <3>1, <3>2 DEF RoundRuns, Tasks, TaskStates
  <2>3. e + 1 \in 0 .. PollMax
    <3>1. PICK u \in Urls : task[Gather][u].st # "idle"
      BY <1>1, <1>4 DEF NothingDue
    <3> QED BY <2>2, <3>1
  <2>4. ASSUME NEW u \in peers PROVE age'[u] <= TTL + (e + 1)
    <3>1. age[u] <= TTL + e
      BY <2>1 DEF RoundRuns
    <3>2. age'[u] \in Nat
      BY <1>2 DEF Tick, TableTypes, Min2, MaxAge
    <3> QED BY <1>2, <3>1, <3>2
  <2>5. ASSUME NEW u \in Urls
        PROVE  /\ task'[Gather][u].st # "new"
               /\ task'[Gather][u].st \in {"asked", "answered", "detail"}
                    => task'[Gather][u].left = PollMax - (e + 1)
    <3>1. task'[Gather][u] = [task[Gather][u] EXCEPT !.left = Less(@)]
      BY DEF Tick, Starters
    <3>2. task[Gather][u] \in Tasks
      BY DEF PollTypes, Starters
    <3>3. /\ task'[Gather][u].st = task[Gather][u].st
          /\ task'[Gather][u].left = Less(task[Gather][u].left)
      BY <3>1, <3>2 DEF Tasks
    <3> QED BY <2>2, <3>3 DEF Less
  <2>6. RoundRuns(e + 1)'
    BY <1>1, <2>4, <2>5 DEF RoundRuns
  <2> QED BY <1>1, <1>4, <2>3, <2>6 DEF RoundInv
<1> QED BY <1>3, <1>4 DEF RoundInv

LEMMA RoundInvNext ==
    ASSUME BadUrls = {}, Garbled = {}, RegistryInv, RoundInv, [Next]_vars
    PROVE  RoundInv'
<1> USE TypeParts, TimesAssumption DEF RegistryInv
<1>0. peers' \subseteq Urls
  <2>1. TypeOK'
    BY RegistryInvNext
  <2> QED BY <2>1 DEF TypeOK
<1>1. ASSUME UNCHANGED gatewayVars PROVE RoundInv'
  BY <1>1 DEF gatewayVars, RoundInv, PollerSleeps, RoundRuns
<1>2. ASSUME NEW s \in Starters, NEW u \in Urls, PollStep(s, u) PROVE RoundInv'
  <2>1. UNCHANGED <<peers, age, poller, nap>>
    BY <1>2 DEF PollStep, RouterAnswers, ReadAnswer, DetailOver, DetailFails, PollFails
  <2>2. /\ \/ task'[s][u].st = "idle"
           \/ /\ task[s][u].st \in {"asked", "answered"}
              /\ task'[s][u].st \in {"answered", "detail"}
              /\ task'[s][u].left = task[s][u].left
        /\ \A v \in Urls : v # u \/ s # Gather => task'[Gather][v] = task[Gather][v]
    BY <1>2, PollMovesOn DEF RegistryInv, Starters
  <2> QED BY <1>0, <2>1, <2>2, RoundGoesOn
<1>3. ASSUME NEW u \in Urls, RegisterKnown(u) PROVE RoundInv'
  <2>1. UNCHANGED <<peers, poller, nap, task>> /\ age' = [age EXCEPT ![u] = 0]
    BY <1>3 DEF RegisterKnown, Refresh
  <2>2. \A v \in peers' : age'[v] = 0 \/ (v \in peers /\ age'[v] = age[v])
    BY <2>1 DEF TableTypes
  <2> QED BY <1>0, <2>1, <2>2, RoundGoesOn
<1>4. ASSUME NEW u \in Urls, Deregister(u) PROVE RoundInv'
  <2>1. UNCHANGED <<poller, nap>> /\ Forget({u} \intersect peers, task)
    BY <1>4 DEF Deregister
  <2>2. \A v \in peers' : v \in peers /\ (age'[v] = 0 \/ age'[v] = age[v])
    BY <2>1 DEF Forget, TableTypes
  <2>3. ASSUME NEW v \in Urls
        PROVE  /\ task'[Gather][v].st = task[Gather][v].st
               /\ task'[Gather][v].left = task[Gather][v].left
    <3>1. task[Gather][v] \in Tasks
      BY DEF PollTypes, Starters
    <3>2. task'[Gather][v] \in {task[Gather][v], [task[Gather][v] EXCEPT !.held = FALSE]}
      BY <2>1 DEF Forget, Orphaned, Starters
    <3> QED BY <3>1, <3>2 DEF Tasks
  <2> QED BY <1>0, <2>1, <2>2, <2>3, RoundGoesOn
<1>5. ASSUME NEW u \in Urls, StartPoll(u) PROVE RoundInv'
  <2>1. /\ UNCHANGED <<peers, age, poller, nap>>
        /\ \/ task' = [task EXCEPT ![Gather][u] = Idle]
           \/ task' = [task EXCEPT ![Gather][u] = Asked]
        /\ task[Gather][u].st = "new"
    BY <1>5 DEF StartPoll
  <2>2. ASSUME NEW v \in Urls
        PROVE  \/ task'[Gather][v].st = "idle"
               \/ task'[Gather][v] = task[Gather][v]
               \/ /\ task[Gather][v].st = "new"
                  /\ task'[Gather][v].st = "asked"
                  /\ task'[Gather][v].left = PollMax
    BY <2>1 DEF PollTypes, Starters, Idle, Asked
  <2> QED BY <1>0, <2>1, <2>2, RoundGoesOn
<1>6. ASSUME NEW u \in Urls, ForwardFails(u) PROVE RoundInv'
  <2>1. UNCHANGED <<peers, age, poller, nap, task>>
    BY <1>6 DEF ForwardFails
  <2> QED BY <1>0, <2>1, RoundGoesOn
<1>7. ASSUME NEW u \in Urls, NEW h \in Handlers, RegisterNew(u, h) PROVE RoundInv'
  <2>1. /\ UNCHANGED <<poller, nap>> /\ peers' = peers \union {u}
        /\ age' = [age EXCEPT ![u] = 0]
    BY <1>7 DEF RegisterNew, Refresh
  <2>2. \A v \in peers' : age'[v] = 0 \/ (v \in peers /\ age'[v] = age[v])
    BY <2>1 DEF TableTypes
  <2>3. \A v \in Urls : task'[Gather][v] = task[Gather][v]
    BY <1>7, StartersAssumption DEF RegisterNew, PollTypes, Starters
  <2> QED BY <1>0, <2>1, <2>2, <2>3, RoundGoesOn
<1>8. ASSUME Wake PROVE RoundInv'
  <2>1. poller' = "gather"
    BY <1>8 DEF Wake
  <2>2. \A u \in peers' : age'[u] <= TTL + 0
    BY <1>8 DEF Wake, Forget, Stale, TableTypes
  <2>3. ASSUME NEW u \in Urls PROVE task'[Gather][u].st \in {"new", "idle"}
    BY <1>8 DEF Wake, Forget, Orphaned, Starters, PollTypes, Created, Idle
  <2>4. RoundRuns(0)'
    BY <2>2, <2>3 DEF RoundRuns
  <2> QED BY <2>1, <2>4 DEF RoundInv
<1>9. ASSUME GatherOver PROVE RoundInv'
  <2>1. /\ poller = "gather" /\ poller' = "sleep" /\ nap' = POLL
        /\ UNCHANGED <<peers, age>>
    BY <1>9 DEF GatherOver
  <2>2. PICK e \in 0 .. PollMax : RoundRuns(e)
    BY <2>1 DEF RoundInv
  <2>3. ASSUME NEW u \in peers PROVE age[u] <= TTL + PollMax + POLL - POLL
    <3>1. age[u] \in Nat /\ age[u] <= TTL + e
      BY <2>2 DEF RoundRuns, TableTypes, MaxAge
    <3> QED BY <3>1
  <2> QED BY <2>1, <2>3 DEF RoundInv, PollerSleeps
<1>10. ASSUME GatewayRestarts PROVE RoundInv'
  BY <1>10 DEF GatewayRestarts, RoundInv, PollerSleeps
<1>11. CASE MachineNext
  BY <1>1, <1>11, MachineSteps DEF MachineNext
<1>12. CASE PollNext
  BY <1>2, <1>12 DEF PollNext
<1>13. CASE GatewayNext
  BY <1>3, <1>4, <1>5, <1>6, <1>7, <1>8, <1>9, <1>10, <1>13 DEF GatewayNext
<1>14. CASE Tick
  BY <1>14, RoundInvTick
<1>15. CASE UNCHANGED vars
  BY <1>1, <1>15 DEF vars, gatewayVars
<1> QED BY <1>11, <1>12, <1>13, <1>14, <1>15 DEF Next

\* With well-formed URLs and answers the table holds no machine that has not been heard of
\* for TTL, one sleep of the poller and one poll, although one slow poll holds
\* up the sweep of all machines.
THEOREM StalenessIsBounded ==
    ASSUME BadUrls = {}, Garbled = {}
    PROVE  Spec => []BoundedStaleness
<1>1. Init => RoundInv
  BY DEF Init, RoundInv, PollerSleeps
<1>2. RegistryInv /\ RoundInv /\ [Next]_vars => RoundInv'
  BY RoundInvNext
<1>3. RegistryInv /\ RoundInv => BoundedStaleness
  <2> SUFFICES ASSUME RegistryInv, RoundInv, NEW u \in peers
               PROVE  age[u] <= TTL + POLL + PollMax
    BY DEF BoundedStaleness
  <2> USE TypeParts, TimesAssumption DEF RegistryInv
  <2>1. age[u] \in Nat /\ nap \in 0 .. POLL
    BY DEF TableTypes, PollTypes, MaxAge
  <2>2. CASE poller = "sleep"
    BY <2>1, <2>2 DEF RoundInv, PollerSleeps
  <2>3. CASE poller = "gather"
    <3>1. PICK e \in 0 .. PollMax : RoundRuns(e)
      BY <2>3 DEF RoundInv
    <3> QED BY <2>1, <3>1 DEF RoundRuns
  <2> QED BY <2>2, <2>3 DEF RoundInv
<1> QED BY <1>1, <1>2, <1>3, RegistryInvInit, RegistryInvNext, PTL DEF Spec

-----------------------------------------------------------------------------
(* Silent routers *)

\* A router that answers has not been silent.
HeardIsNotSilent == \A u \in Urls : serving[u] # Down => downFor[u] = 0

\* An answer given before the router went silent is worked off within the poll
\* that read it.
LateAnswers ==
    \A s \in Starters, u \in Urls :
        (serving[u] = Down /\ task[s][u].st \in {"answered", "detail"})
          => downFor[u] + task[s][u].left <= PollMax

\* The poller sleeps, and the poll that will find out is still to come.
NextRound(u) == poller = "sleep" /\ downFor[u] + nap <= 2 * PollMax + POLL

\* That poll is about to start, or waits for the router.
ThisRound(u) ==
    /\ poller = "gather"
    /\ \/ /\ task[Gather][u].st = "new"
          /\ downFor[u] <= 2 * PollMax + POLL
       \/ /\ task[Gather][u].st = "asked"
          /\ task[Gather][u].held
          /\ downFor[u] + task[Gather][u].left <= 3 * PollMax + POLL

\* The poll of this round came too early; the round is over within e.
RoundEnds(u, e) ==
    /\ \A v \in Urls : task[Gather][v].st # "idle" =>
                         task[Gather][v].st # "new" /\ task[Gather][v].left <= e
    /\ downFor[u] + e <= 2 * PollMax

LastRound(u) == poller = "gather" /\ \E e \in 0 .. PollMax : RoundEnds(u, e)

Noticed(u) ==
    downFor[u] <= PollMax \/ NextRound(u) \/ ThisRound(u) \/ LastRound(u)

SilenceNoticed == \A u \in Urls : serving[u] = Down /\ ok[u] => Noticed(u)

SilenceInv == HeardIsNotSilent /\ LateAnswers /\ SilenceNoticed

-----------------------------------------------------------------------------
(* A step that lets no time pass and neither starts nor ends a round. *)

\* What such a step may do to the polls of the round: end them, take them on, or
\* start them.
GoesOn(v) ==
    \/ task'[Gather][v].st = "idle"
    \/ task[Gather][v].st = "new"
    \/ /\ task[Gather][v].st # "idle"
       /\ task'[Gather][v].st # "new"
       /\ task'[Gather][v].left = task[Gather][v].left

\* The poll that will find out is not lost.
StillToCome(u) ==
    \/ /\ task'[Gather][u].st = task[Gather][u].st
       /\ task'[Gather][u].held = task[Gather][u].held
       /\ task'[Gather][u].left = task[Gather][u].left
    \/ /\ task[Gather][u].st = "new"
       /\ task'[Gather][u].st = "asked"
       /\ task'[Gather][u].held
       /\ task'[Gather][u].left = PollMax
    \/ task[Gather][u].st \notin {"new", "asked"}
    \/ task[Gather][u].st = "asked" /\ ~task[Gather][u].held

LEMMA NoticedKept ==
    ASSUME RegistryInv, NEW u \in Urls, Noticed(u),
           UNCHANGED <<poller, nap>>, downFor'[u] = downFor[u],
           \A v \in Urls : GoesOn(v),
           StillToCome(u)
    PROVE  Noticed(u)'
<1> USE TypeParts, TimesAssumption DEF RegistryInv
<1>1. downFor[u] \in Nat /\ nap \in Nat
  BY DEF MachineTypes, PollTypes, MaxDown
<1>2. CASE downFor[u] <= PollMax
  BY <1>2 DEF Noticed
<1>3. CASE NextRound(u)
  BY <1>3 DEF Noticed, NextRound
<1>4. CASE ThisRound(u)
  BY <1>1, <1>4 DEF Noticed, ThisRound, StillToCome
<1>5. CASE LastRound(u)
  <2>1. PICK e \in 0 .. PollMax : RoundEnds(u, e)
    BY <1>5 DEF LastRound
  <2>2. RoundEnds(u, e)'
    BY <2>1 DEF RoundEnds, GoesOn
  <2> QED BY <1>5, <2>2 DEF Noticed, LastRound
<1> QED BY <1>2, <1>3, <1>4, <1>5 DEF Noticed

\* The part of the invariant that speaks of routers only.
LEMMA LateKept ==
    ASSUME RegistryInv, LateAnswers, UNCHANGED <<serving, downFor>>,
           \A s \in Starters, u \in Urls :
              \/ task'[s][u].st \notin {"answered", "detail"}
              \/ /\ task'[s][u].left = task[s][u].left
                 /\ \/ task[s][u].st \in {"answered", "detail"}
                    \/ serving[u] # Down
    PROVE  LateAnswers'
BY DEF LateAnswers

-----------------------------------------------------------------------------
LEMMA SilenceInvTick ==
    ASSUME RegistryInv, RoundInv, SilenceInv, Tick
    PROVE  SilenceInv'
<1> USE TypeParts, TimesAssumption DEF RegistryInv
<1>1. NothingDue /\ UNCHANGED <<peers, ok, poller, serving>> /\ nap' = Less(nap)
  BY DEF Tick
<1>2. ASSUME NEW u \in Urls, serving[u] = Down
      PROVE  /\ downFor[u] \in Nat /\ downFor'[u] \in Nat
             /\ downFor'[u] <= downFor[u] + 1
  BY <1>2 DEF Tick, MachineTypes, Min2, MaxDown
<1>3. ASSUME NEW s \in Starters, NEW u \in Urls
      PROVE  /\ task[s][u] \in Tasks
             /\ task'[s][u].st = task[s][u].st
             /\ task'[s][u].held = task[s][u].held
             /\ task[s][u].left \in 0 .. PollMax
             /\ task[s][u].st # "idle" =>
                  /\ task[s][u].st # "new"
                  /\ task[s][u].left > 0
                  /\ task'[s][u].left = task[s][u].left - 1
  <2>1. task[s][u] \in Tasks
    BY DEF PollTypes
  <2>2. task'[s][u] = [task[s][u] EXCEPT !.left = Less(@)]
    BY DEF Tick
  <2>3. task[s][u].st # "idle" => task[s][u].st # "new" /\ task[s][u].left > 0
    BY <1>1 DEF NothingDue
  <2> QED BY <2>1, <2>2, <2>3 DEF Tasks, Less
<1>4. HeardIsNotSilent'
  BY DEF Tick, HeardIsNotSilent, MachineTypes
<1>5. LateAnswers'
  <2> SUFFICES ASSUME NEW s \in Starters, NEW u \in Urls,
                      serving[u] = Down, task[s][u].st \in {"answered", "detail"}
               PROVE  downFor'[u] + task'[s][u].left <= PollMax
    BY <1>1, <1>3 DEF LateAnswers
  <2>1. downFor[u] + task[s][u].left <= PollMax
    BY DEF SilenceInv, LateAnswers
  <2>2. task'[s][u].left = task[s][u].left - 1 /\ task[s][u].left \in 0 .. PollMax
    BY <1>3
  <2> QED BY <1>2, <2>1, <2>2
<1>6. ASSUME NEW u \in Urls, serving[u] = Down, ok[u] PROVE Noticed(u)'
  <2>1. Noticed(u)
    BY <1>6 DEF SilenceInv, SilenceNoticed
  <2>2. /\ downFor[u] \in Nat /\ downFor'[u] \in Nat
        /\ downFor'[u] <= downFor[u] + 1
    BY <1>2, <1>6
  <2>3. Gather \in Starters
    BY DEF Starters
  <2>4. CASE poller = "sleep"
    <3>1. nap \in 0 .. POLL /\ nap > 0 /\ nap' = nap - 1
      BY <1>1, <2>4 DEF NothingDue, PollTypes, Less
    <3>2. downFor[u] <= PollMax \/ downFor[u] + nap <= 2 * PollMax + POLL
      BY <2>1, <2>4 DEF Noticed, NextRound, ThisRound, LastRound
    <3>3. downFor'[u] + nap' <= 2 * PollMax + POLL
      BY <2>2, <3>1, <3>2
    <3> QED BY <1>1, <2>4, <3>3 DEF Noticed, NextRound
  <2>5. CASE poller = "gather"
    <3>1. CASE downFor[u] <= PollMax
      <4>1. \A v \in Urls : task'[Gather][v].st # "idle" =>
               task'[Gather][v].st # "new" /\ task'[Gather][v].left <= PollMax - 1
        BY <1>3, <2>3
      <4>2. PollMax - 1 \in 0 .. PollMax /\ downFor'[u] + (PollMax - 1) <= 2 * PollMax
        BY <2>2, <3>1
      <4> QED BY <1>1, <2>5, <4>1, <4>2 DEF Noticed, LastRound, RoundEnds
    <3>2. CASE ThisRound(u)
      <4>1. /\ task[Gather][u].st = "asked" /\ task[Gather][u].held
            /\ downFor[u] + task[Gather][u].left <= 3 * PollMax + POLL
        BY <1>3, <2>3, <3>2 DEF ThisRound
      <4>2. /\ task[Gather][u].left \in 0 .. PollMax
            /\ task'[Gather][u].left = task[Gather][u].left - 1
            /\ task'[Gather][u].st = "asked" /\ task'[Gather][u].held
        BY <1>3, <2>3, <4>1
      <4>3. downFor'[u] + task'[Gather][u].left <= 3 * PollMax + POLL
        BY <2>2, <4>1, <4>2
      <4> QED BY <1>1, <2>5, <4>2, <4>3 DEF Noticed, ThisRound
    <3>3. CASE LastRound(u)
      <4>1. PICK e \in 0 .. PollMax : RoundEnds(u, e)
        BY <3>3 DEF LastRound
      <4>2. PICK w \in Urls : task[Gather][w].st # "idle"
        BY <1>1, <2>5 DEF NothingDue
      <4>3. e > 0
        BY <1>3, <2>3, <4>1, <4>2 DEF RoundEnds
      <4>4. ASSUME NEW v \in Urls, task'[Gather][v].st # "idle"
            PROVE  task'[Gather][v].st # "new" /\ task'[Gather][v].left <= e - 1
        BY <1>3, <2>3, <4>1, <4>4 DEF RoundEnds
      <4>5. e - 1 \in 0 .. PollMax /\ downFor'[u] + (e - 1) <= 2 * PollMax
        BY <2>2, <4>1, <4>3 DEF RoundEnds
      <4> QED BY <1>1, <2>5, <4>4, <4>5 DEF Noticed, LastRound, RoundEnds
    <3> QED BY <2>1, <2>5, <3>1, <3>2, <3>3 DEF Noticed, NextRound
  <2> QED BY <2>4, <2>5 DEF RoundInv
<1> QED BY <1>1, <1>4, <1>5, <1>6 DEF SilenceInv, SilenceNoticed

-----------------------------------------------------------------------------
\* A machine or its router changes: what is silent from now on has just answered.
LEMMA SilenceMachine ==
    ASSUME RegistryInv, SilenceInv, UNCHANGED gatewayVars,
           \A u \in Urls :
              \/ serving'[u] = serving[u] /\ downFor'[u] = downFor[u]
              \/ downFor'[u] = 0
    PROVE  SilenceInv'
<1> USE TypeParts, TimesAssumption DEF RegistryInv
<1>1. UNCHANGED <<ok, poller, nap, task>>
  BY DEF gatewayVars
<1>2. HeardIsNotSilent'
  BY DEF SilenceInv, HeardIsNotSilent
<1>3. ASSUME NEW s \in Starters, NEW u \in Urls,
             serving'[u] = Down, task[s][u].st \in {"answered", "detail"}
      PROVE  downFor'[u] + task[s][u].left <= PollMax
  <2>1. task[s][u].left \in 0 .. PollMax
    BY DEF PollTypes, Tasks
  <2> QED BY <1>3, <2>1 DEF SilenceInv, LateAnswers
<1>4. ASSUME NEW u \in Urls, serving'[u] = Down, ok[u] PROVE Noticed(u)'
  <2>1. CASE serving'[u] = serving[u] /\ downFor'[u] = downFor[u]
    <3>1. Noticed(u)
      BY <1>4, <2>1 DEF SilenceInv, SilenceNoticed
    <3> QED BY <1>1, <2>1, <3>1 DEF Noticed, NextRound, ThisRound, LastRound, RoundEnds
  <2>2. CASE downFor'[u] = 0
    BY <2>2 DEF Noticed
  <2> QED BY <2>1, <2>2
<1> QED BY <1>1, <1>2, <1>3, <1>4 DEF SilenceInv, LateAnswers, SilenceNoticed

LEMMA SilencePolls ==
    ASSUME Garbled = {}, RegistryInv, SilenceInv,
           NEW s \in Starters, NEW u \in Urls, PollStep(s, u)
    PROVE  SilenceInv'
<1> USE TypeParts, TimesAssumption DEF RegistryInv
<1>1. UNCHANGED <<poller, nap, serving, downFor>>
  BY DEF PollStep, RouterAnswers, ReadAnswer, DetailOver, DetailFails, PollFails, machineVars
<1>2. /\ \/ task'[s][u].st = "idle"
         \/ /\ task[s][u].st \in {"asked", "answered"}
            /\ task'[s][u].st \in {"answered", "detail"}
            /\ task'[s][u].left = task[s][u].left
      /\ \A r \in Starters, v \in Urls : r # s \/ v # u => task'[r][v] = task[r][v]
  BY PollMovesOn
<1>3. Gather \in Starters /\ task[s][u].left \in 0 .. PollMax
  BY DEF Starters, PollTypes, Tasks
<1>4. \/ task[s][u].st = "asked" /\ task'[s][u].st = "answered" /\ HasAnswer(u)
         /\ UNCHANGED ok
      \/ task[s][u].st \in {"answered", "detail"}
         /\ ok' = [ok EXCEPT ![u] = ok'[u]]
      \/ task[s][u].st = "asked" /\ task'[s][u].st = "idle"
         /\ ok' = [ok EXCEPT ![u] = Cleared(task[s][u].held, @)]
  <2>1. CASE RouterAnswers(s, u)
    <3>1. task'[s][u] = [task[s][u] EXCEPT !.st = "answered", !.ans = serving[u]]
      BY <2>1 DEF RouterAnswers, PollTypes
    <3>2. task[s][u] \in Tasks
      BY DEF PollTypes
    <3>3. task'[s][u].st = "answered"
      BY <3>1, <3>2 DEF Tasks
    <3> QED BY <2>1, <3>3 DEF RouterAnswers
  <2>2. CASE ReadAnswer(s, u)
    BY <2>2 DEF ReadAnswer, TableTypes
  <2>3. CASE DetailOver(s, u) \/ DetailFails(s, u)
    BY <2>3 DEF DetailOver, DetailFails, TableTypes
  <2>4. CASE PollFails(s, u)
    BY <2>4 DEF PollFails, PollTypes, TableTypes, Idle
  <2> QED BY <2>1, <2>2, <2>3, <2>4 DEF PollStep
<1>5. HeardIsNotSilent'
  BY <1>1 DEF SilenceInv, HeardIsNotSilent
<1>6. LateAnswers'
  <2>1. ASSUME NEW r \in Starters, NEW v \in Urls
        PROVE  \/ task'[r][v].st \notin {"answered", "detail"}
               \/ /\ task'[r][v].left = task[r][v].left
                  /\ \/ task[r][v].st \in {"answered", "detail"}
                     \/ serving[v] # Down
    BY <1>2, <1>4 DEF HasAnswer
  <2> QED BY <1>1, <2>1, LateKept DEF SilenceInv
<1>7. ASSUME NEW v \in Urls, serving[v] = Down, ok'[v] PROVE Noticed(v)'
  <2>1. CASE downFor[v] <= PollMax
    BY <1>1, <2>1 DEF Noticed
  <2>2. CASE ~(downFor[v] <= PollMax)
    <3>1. v = u => task[s][u].st \notin {"answered", "detail"}
      <4>1. downFor[v] \in Nat
        BY DEF MachineTypes, MaxDown
      <4> QED BY <1>3, <1>7, <2>2, <4>1 DEF SilenceInv, LateAnswers
    <3>2. v = u => ok[v] /\ task[s][u].st = "asked" /\ ~task[s][u].held
      BY <1>4, <1>7, <3>1 DEF HasAnswer, Cleared, TableTypes
    <3>3. ok[v]
      BY <1>4, <1>7, <3>2 DEF TableTypes
    <3>4. Noticed(v)
      BY <1>7, <3>3 DEF SilenceInv, SilenceNoticed
    <3>5. StillToCome(v)
      BY <1>2, <1>3, <3>2 DEF StillToCome
    <3>6. ASSUME NEW w \in Urls PROVE GoesOn(w)
      BY <1>2, <1>3 DEF GoesOn, PollTypes, Tasks, TaskStates
    <3> QED BY <1>1, <3>4, <3>5, <3>6, NoticedKept
  <2> QED BY <2>1, <2>2
<1> QED BY <1>1, <1>5, <1>6, <1>7 DEF SilenceInv, SilenceNoticed

\* A handler leaves the routers and the polls of the round alone; what it makes
\* routable it does not touch, what it drops is not routable.
LEMMA SilenceHandlers ==
    ASSUME RegistryInv, SilenceInv,
           UNCHANGED <<poller, nap, serving, downFor>>,
           \A u \in Urls : ok'[u] => ok[u] /\ StillToCome(u),
           \A u \in Urls : GoesOn(u),
           \A s \in Starters, u \in Urls :
              \/ task'[s][u].st \notin {"answered", "detail"}
              \/ task'[s][u].st = task[s][u].st /\ task'[s][u].left = task[s][u].left
    PROVE  SilenceInv'
<1>1. HeardIsNotSilent'
  BY DEF SilenceInv, HeardIsNotSilent
<1>2. LateAnswers'
  BY LateKept DEF SilenceInv
<1>3. ASSUME NEW u \in Urls, serving[u] = Down, ok'[u] PROVE Noticed(u)'
  BY <1>3, NoticedKept DEF SilenceInv, SilenceNoticed
<1> QED BY <1>1, <1>2, <1>3 DEF SilenceInv, SilenceNoticed

LEMMA SilenceInvNext ==
    ASSUME BadUrls = {}, Garbled = {}, RegistryInv, RoundInv, SilenceInv, [Next]_vars
    PROVE  SilenceInv'
<1> USE TypeParts, TimesAssumption DEF RegistryInv
<1>0. /\ Gather \in Starters
      /\ \A s \in Starters, u \in Urls : task[s][u] \in Tasks
  BY DEF Starters, PollTypes
<1>1. ASSUME UNCHANGED gatewayVars, UNCHANGED <<serving, downFor>> PROVE SilenceInv'
  BY <1>1, SilenceMachine
<1>2. CASE MachineNext
  <2> SUFFICES ASSUME NEW u \in Urls,
                      \/ \E a \in Answers \union {Down} : RouterChanges(u, a)
                      \/ Join(u) \/ RegisterOnce(u) \/ Beat(u) \/ BeatOver(u)
                      \/ Leave(u) \/ Crash(u) \/ LoseRequest(u) \/ NetworkHeals(u)
               PROVE  SilenceInv'
    BY <1>2 DEF MachineNext
  <2>1. UNCHANGED gatewayVars
    BY MachineSteps
  <2>2. CASE Crash(u)
    BY <2>1, <2>2, SilenceMachine DEF Crash, MachineTypes
  <2>3. ASSUME NEW a \in Answers \union {Down}, RouterChanges(u, a) PROVE SilenceInv'
    BY <2>1, <2>3, SilenceMachine DEF RouterChanges, MachineTypes
  <2> QED BY <1>1, <2>1, <2>2, <2>3
          DEF Join, RegisterOnce, Beat, BeatOver, Leave, LoseRequest, NetworkHeals,
              machineVars
<1>3. CASE PollNext
  BY <1>3, SilencePolls DEF PollNext
<1>4. ASSUME NEW u \in Urls, RegisterKnown(u) PROVE SilenceInv'
  <2>1. UNCHANGED <<ok, poller, nap, task, serving, downFor>>
    BY <1>4 DEF RegisterKnown
  <2> QED BY <1>0, <2>1, SilenceHandlers DEF GoesOn, StillToCome, Tasks, TaskStates
<1>5. ASSUME NEW u \in Urls, Deregister(u) PROVE SilenceInv'
  <2>1. /\ UNCHANGED <<poller, nap, serving, downFor>>
        /\ Forget({u} \intersect peers, task)
    BY <1>5 DEF Deregister
  <2>2. ASSUME NEW v \in Urls, ok'[v]
        PROVE  ok[v] /\ task'[Gather][v] = task[Gather][v]
    BY <1>0, <2>1, <2>2 DEF Forget
  <2>3. ASSUME NEW s \in Starters, NEW v \in Urls
        PROVE  /\ task'[s][v].st = task[s][v].st
               /\ task'[s][v].left = task[s][v].left
    <3>1. task'[s][v] \in {task[s][v], [task[s][v] EXCEPT !.held = FALSE]}
      BY <2>1 DEF Forget, Orphaned
    <3> QED BY <1>0, <3>1 DEF Tasks
  <2>4. \A v \in Urls : GoesOn(v)
    BY <1>0, <2>3 DEF GoesOn, Tasks, TaskStates
  <2>5. \A v \in Urls : ok'[v] => ok[v] /\ StillToCome(v)
    BY <2>2 DEF StillToCome
  <2> QED BY <2>1, <2>3, <2>4, <2>5, SilenceHandlers
<1>6. ASSUME NEW u \in Urls, StartPoll(u) PROVE SilenceInv'
  <2>1. /\ UNCHANGED <<ok, poller, nap, serving, downFor>>
        /\ task[Gather][u].st = "new"
        /\ task' = [task EXCEPT ![Gather][u] = IF u \in peers THEN Asked ELSE Idle]
    BY <1>6 DEF StartPoll, machineVars
  <2>2. /\ task'[Gather][u] = IF u \in peers THEN Asked ELSE Idle
        /\ \A s \in Starters, v \in Urls :
             s # Gather \/ v # u => task'[s][v] = task[s][v]
    BY <1>0, <2>1 DEF PollTypes
  <2>3. \A v \in Urls : GoesOn(v)
    BY <1>0, <2>1, <2>2 DEF GoesOn, Tasks, TaskStates
  <2>4. ASSUME NEW v \in Urls, ok'[v] PROVE ok[v] /\ StillToCome(v)
    <3>1. ok[v] /\ v \in peers
      BY <2>1, <2>4 DEF RoutableWasHeard
    <3>2. CASE v = u
      <4>1. Asked.st = "asked" /\ Asked.held = TRUE /\ Asked.left = PollMax
        BY DEF Asked
      <4>2. task'[Gather][v] = Asked
        BY <2>2, <3>1, <3>2
      <4> QED BY <2>1, <3>1, <3>2, <4>1, <4>2 DEF StillToCome
    <3>3. CASE v # u
      BY <1>0, <2>2, <3>1, <3>3 DEF StillToCome
    <3> QED BY <3>2, <3>3
  <2>5. \A s \in Starters, v \in Urls :
           \/ task'[s][v].st \notin {"answered", "detail"}
           \/ task'[s][v].st = task[s][v].st /\ task'[s][v].left = task[s][v].left
    BY <2>2 DEF Asked, Idle
  <2> QED BY <2>1, <2>3, <2>4, <2>5, SilenceHandlers
<1>7. ASSUME NEW u \in Urls, ForwardFails(u) PROVE SilenceInv'
  <2>1. UNCHANGED <<poller, nap, task, serving, downFor>> /\ ok' = [ok EXCEPT ![u] = FALSE]
    BY <1>7 DEF ForwardFails, machineVars
  <2>2. \A v \in Urls : ok'[v] => ok[v]
    BY <2>1 DEF TableTypes
  <2>3. \A v \in Urls : StillToCome(v)
    BY <2>1 DEF StillToCome
  <2> QED BY <1>0, <2>1, <2>2, <2>3, SilenceHandlers DEF GoesOn, Tasks, TaskStates
<1>8. ASSUME NEW u \in Urls, NEW h \in Handlers, RegisterNew(u, h) PROVE SilenceInv'
  <2>1. /\ UNCHANGED <<ok, poller, nap, serving, downFor>>
        /\ task' = [task EXCEPT ![h][u] = Asked]
    BY <1>8 DEF RegisterNew
  <2>2. /\ \A v \in Urls : task'[Gather][v] = task[Gather][v]
        /\ \A s \in Starters, v \in Urls :
             task'[s][v] = task[s][v] \/ task'[s][v] = Asked
    BY <1>0, <2>1, StartersAssumption DEF PollTypes, Starters
  <2>3. \A v \in Urls : GoesOn(v) /\ StillToCome(v)
    BY <1>0, <2>2 DEF GoesOn, StillToCome, Tasks, TaskStates
  <2>4. \A s \in Starters, v \in Urls :
           \/ task'[s][v].st \notin {"answered", "detail"}
           \/ task'[s][v].st = task[s][v].st /\ task'[s][v].left = task[s][v].left
    BY <2>2 DEF Asked
  <2> QED BY <2>1, <2>3, <2>4, SilenceHandlers
<1>9. ASSUME Wake PROVE SilenceInv'
  <2> DEFINE gone == {u \in peers : Stale(u)}
             polls == [task EXCEPT ![Gather] =
                         [u \in Urls |-> IF InRound(u, gone) THEN Created ELSE Idle]]
  <2>1. /\ poller = "sleep" /\ nap = 0 /\ poller' = "gather"
        /\ UNCHANGED <<serving, downFor>>
        /\ Forget(gone, polls)
    BY <1>9 DEF Wake, machineVars
  <2>2. HeardIsNotSilent'
    BY <2>1 DEF SilenceInv, HeardIsNotSilent
  <2>3. ASSUME NEW s \in Starters, NEW u \in Urls
        PROVE  \/ task'[s][u].st \notin {"answered", "detail"}
               \/ task'[s][u].st = task[s][u].st /\ task'[s][u].left = task[s][u].left
    <3>1. task'[s][u] \in {polls[s][u], [polls[s][u] EXCEPT !.held = FALSE]}
      BY <2>1 DEF Forget, Orphaned
    <3>2. polls[s][u] \in {task[s][u], Created, Idle}
      BY <1>0 DEF PollTypes
    <3>3. Created \in Tasks /\ Created.st = "new" /\ Idle \in Tasks /\ Idle.st = "idle"
      BY TaskRecords DEF Created, Idle
    <3>4. \A t \in Tasks : /\ [t EXCEPT !.held = FALSE].st = t.st
                          /\ [t EXCEPT !.held = FALSE].left = t.left
      BY DEF Tasks
    <3>5. polls[s][u] \in Tasks /\ (polls[s][u] = task[s][u] \/ polls[s][u].st \in {"new", "idle"})
      BY <1>0, <3>2, <3>3
    <3>6. task'[s][u].st = polls[s][u].st /\ task'[s][u].left = polls[s][u].left
      BY <3>1, <3>4, <3>5
    <3> HIDE DEF polls
    <3> QED BY <3>5, <3>6
  <2>4. LateAnswers'
    BY <2>1, <2>3, LateKept DEF SilenceInv
  <2>5. ASSUME NEW u \in Urls, serving[u] = Down, ok'[u] PROVE Noticed(u)'
    <3>1. ok[u] /\ u \in peers \ gone
      BY <2>1, <2>5 DEF Forget, RoutableWasHeard
    <3>2. task'[Gather][u] = Created
      BY <1>0, <2>1, <3>1 DEF Forget, InRound, PollTypes
    <3>3. task'[Gather][u].st = "new"
      BY <3>2 DEF Created, Idle
    <3>4. downFor[u] \in Nat /\ downFor[u] <= 2 * PollMax + POLL
      <4>1. downFor[u] \in Nat
        BY DEF MachineTypes, MaxDown
      <4>2. Noticed(u)
        BY <2>5, <3>1 DEF SilenceInv, SilenceNoticed
      <4> QED BY <2>1, <4>1, <4>2 DEF Noticed, NextRound, ThisRound, LastRound
    <3> QED BY <2>1, <3>3, <3>4 DEF Noticed, ThisRound
  <2> QED BY <2>1, <2>2, <2>4, <2>5 DEF SilenceInv, SilenceNoticed
<1>10. ASSUME GatherOver PROVE SilenceInv'
  <2>1. /\ poller = "gather" /\ poller' = "sleep" /\ nap' = POLL
        /\ \A u \in Urls : task[Gather][u] = Idle
        /\ UNCHANGED <<ok, task, serving, downFor>>
    BY <1>10 DEF GatherOver, machineVars
  <2>2. ASSUME NEW u \in Urls, serving[u] = Down, ok[u] PROVE Noticed(u)'
    <3>1. downFor[u] \in Nat
      BY DEF MachineTypes, MaxDown
    <3>2. Noticed(u)
      BY <2>2 DEF SilenceInv, SilenceNoticed
    <3>3. downFor[u] <= PollMax \/ LastRound(u)
      BY <2>1, <3>2 DEF Noticed, NextRound, ThisRound, Idle
    <3>4. downFor[u] <= 2 * PollMax
      BY <3>1, <3>3 DEF LastRound, RoundEnds
    <3> QED BY <2>1, <3>1, <3>4 DEF Noticed, NextRound
  <2>3. HeardIsNotSilent' /\ LateAnswers'
    BY <2>1 DEF SilenceInv, HeardIsNotSilent, LateAnswers
  <2> QED BY <2>1, <2>2, <2>3 DEF SilenceInv, SilenceNoticed
<1>11. ASSUME GatewayRestarts PROVE SilenceInv'
  BY <1>11 DEF GatewayRestarts, SilenceInv, HeardIsNotSilent, LateAnswers,
               SilenceNoticed, Idle
<1>12. CASE GatewayNext
  BY <1>4, <1>5, <1>6, <1>7, <1>8, <1>9, <1>10, <1>11, <1>12 DEF GatewayNext
<1>13. CASE Tick
  BY <1>13, SilenceInvTick
<1>14. CASE UNCHANGED vars
  BY <1>1, <1>14 DEF vars, machineVars
<1> QED BY <1>2, <1>3, <1>12, <1>13, <1>14 DEF Next

\* With well-formed URLs and answers no request goes to a router that has been silent for one
\* sleep of the poller and three polls, whichever polls overlap and however long
\* other machines hold up the round.
THEOREM SilenceIsNoticed ==
    ASSUME BadUrls = {}, Garbled = {}
    PROVE  Spec => []SilentRouterUnrouted
<1>1. Init => RoundInv /\ SilenceInv
  BY DEF Init, RoundInv, PollerSleeps, SilenceInv, HeardIsNotSilent, LateAnswers,
         SilenceNoticed, Idle
<1>2. RegistryInv /\ RoundInv /\ SilenceInv /\ [Next]_vars => RoundInv' /\ SilenceInv'
  BY RoundInvNext, SilenceInvNext
<1>3. RegistryInv /\ RoundInv /\ SilenceInv => SilentRouterUnrouted
  <2> SUFFICES ASSUME RegistryInv, SilenceInv, NEW u \in Urls, downFor[u] = MaxDown, ok[u]
               PROVE  FALSE
    BY TypeParts DEF SilentRouterUnrouted, RegistryInv, TableTypes
  <2> USE TypeParts, TimesAssumption DEF RegistryInv
  <2>1. serving[u] = Down
    BY DEF SilenceInv, HeardIsNotSilent, MaxDown
  <2>2. Noticed(u)
    BY <2>1 DEF SilenceInv, SilenceNoticed
  <2>3. nap \in Nat /\ task[Gather][u].left \in Nat
    BY DEF PollTypes, Starters, Tasks
  <2> QED BY <2>2, <2>3
          DEF Noticed, NextRound, ThisRound, LastRound, RoundEnds, MaxDown
<1> QED BY <1>1, <1>2, <1>3, RegistryInvInit, RegistryInvNext, PTL DEF Spec

=============================================================================
