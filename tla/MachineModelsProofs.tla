------------------------ MODULE MachineModelsProofs ------------------------
(***************************************************************************)
(* What pause and resume promise, for any number of models, copies and     *)
(* commands of the Models page, next to one shell.                         *)
(*                                                                         *)
(* A model that pause owes is not loaded; and while resume runs, what it   *)
(* has still to do contains all that is owed of the list.  This is why the *)
(* list may be dropped at its end.  As long as nothing else happens        *)
(* (calm), pause has still to do whatever is up or cached, and so leaves   *)
(* nothing.                                                                *)
(***************************************************************************)
EXTENDS MachineModels, SequenceTheorems, TLAPS

\* A command is at a step that it takes.
Sound(c) ==
    /\ c.todo = <<>> <=> c.pc \in {"idle", "end"}
    /\ c.cmd = "none" <=> c.pc = "idle"
    /\ c.pc \in {"warm", "post", "wait", "evict"} => c.cmd \in {"up", "resume"}
    /\ c.pc = "end" => c.cmd = "resume"
    /\ c.pc \in {"unload", "gone", "release"} => c.cmd \in {"down", "pause"}
    /\ c.pc \in {"save", "stop", "leave"} => c.cmd = "pause"
    /\ c.pc = "save" => IsInjective(c.todo)

Coherent ==
    /\ \A p \in Procs : Sound(proc[p])
    /\ \A p \in Jobs : proc[p].cmd \notin {"pause", "resume"}

OwedNotLoaded == \A m \in owed : child[m] # "loaded"

\* What resume has not done yet contains what is owed.
ResumeDoesAll ==
    \A s \in Shells : proc[s].cmd = "resume" =>
        /\ owed \intersect ToSet(paused) \subseteq ToSet(proc[s].todo)
        /\ proc[s].pc = "evict" => Current(s) \notin owed

ListInv == TypeOK /\ Coherent /\ OwedNotLoaded /\ ResumeDoesAll

-----------------------------------------------------------------------------
(* Lists, and what a step does to the commands *)

LEMMA EmptyList == ToSet(<<>>) = {} /\ \A S : <<>> \in Seq(S)
BY EmptySeq DEF ToSet

LEMMA HeadAndTail ==
    ASSUME NEW S, NEW s \in Seq(S), s # <<>>
    PROVE  /\ Head(s) \in S /\ Tail(s) \in Seq(S)
           /\ ToSet(s) = ToSet(Tail(s)) \union {Head(s)}
<1>1. /\ Head(s) \in S /\ Tail(s) \in Seq(S) /\ Len(Tail(s)) = Len(s) - 1
      /\ \A i \in 1 .. Len(Tail(s)) : Tail(s)[i] = s[i + 1]
  BY HeadTailProperties
<1>2. /\ Len(s) \in Nat \ {0} /\ DOMAIN s = 1 .. Len(s)
      /\ DOMAIN Tail(s) = 1 .. Len(Tail(s))
  BY <1>1, LenProperties, EmptySeq
<1>3. Head(s) = s[1] /\ 1 \in DOMAIN s
  BY <1>2
<1>4. \A i \in DOMAIN Tail(s) : i + 1 \in DOMAIN s /\ Tail(s)[i] = s[i + 1]
  BY <1>1, <1>2
<1>5. ASSUME NEW i \in DOMAIN s, i # 1
      PROVE  i - 1 \in DOMAIN Tail(s) /\ Tail(s)[i - 1] = s[i]
  BY <1>1, <1>2, <1>5
<1> QED BY <1>1, <1>3, <1>4, <1>5 DEF ToSet

\* A printed list names what is up, each model once.
LEMMA Printed ==
    ASSUME NEW ms \in Lists, Prints(ms)
    PROVE  ms \in Seq(Models) /\ ToSet(ms) = Listed /\ IsInjective(ms)
<1>1. PICK n \in 0 .. Len(Order) : ms \in [1 .. n -> Models]
  BY DEF Lists
<1>2. n \in Nat /\ DOMAIN Order \subseteq Nat
  BY <1>1, OrderAssumption, LenProperties
<1>3. \A m \in Models : Place(m) \in Nat
  <2> SUFFICES ASSUME NEW m \in Models PROVE Place(m) \in Nat
    OBVIOUS
  <2>1. \E i \in DOMAIN Order : Order[i] = m
    BY DEF Models, ToSet
  <2> QED BY <2>1, <1>2 DEF Place
<1>4. IsInjective(ms)
  <2> SUFFICES ASSUME NEW i \in 1 .. n, NEW j \in 1 .. n, ms[i] = ms[j], i # j PROVE FALSE
    BY <1>1 DEF IsInjective
  <2>1. i < j \/ j < i
    BY <1>2
  <2>2. Place(ms[i]) \in Nat
    BY <1>1, <1>3
  <2> QED BY <1>1, <2>1, <2>2 DEF Prints
<1> QED BY <1>1, <1>2, <1>4 DEF Prints

\* Nobody but p moves.
Moves(p, c) ==
    /\ proc' \in [Procs -> Commands]
    /\ proc'[p] = c
    /\ \A q \in Procs \ {p} : proc'[q] = proc[q]

LEMMA OneMoves ==
    ASSUME proc \in [Procs -> Commands], NEW p \in Procs, NEW c \in Commands,
           proc' = [proc EXCEPT ![p] = c]
    PROVE  Moves(p, c)
BY DEF Moves

LEMMA GoToMoves ==
    ASSUME proc \in [Procs -> Commands], NEW p \in Procs, NEW pc, GoTo(p, pc),
           pc \in {"idle", "warm", "post", "wait", "evict", "end",
                   "save", "stop", "leave", "unload", "gone", "release"}
    PROVE  /\ Moves(p, [cmd |-> proc[p].cmd, pc |-> pc, todo |-> proc[p].todo])
<1> DEFINE c == [cmd |-> proc[p].cmd, pc |-> pc, todo |-> proc[p].todo]
<1>1. c \in Commands
  BY DEF Commands
<1>2. [proc[p] EXCEPT !.pc = pc] = c
  BY DEF Commands
<1>3. proc' = [proc EXCEPT ![p] = c]
  BY <1>2 DEF GoTo
<1> QED BY <1>1, <1>3, OneMoves

LEMMA DieMoves ==
    ASSUME proc \in [Procs -> Commands], NEW p \in Procs, Die(p)
    PROVE  Moves(p, Idle)
<1>1. Idle \in Commands
  BY EmptyList DEF Idle, Commands
<1> QED BY <1>1, OneMoves DEF Die

LEMMA RunMoves ==
    ASSUME proc \in [Procs -> Commands], NEW p \in Procs,
           NEW cmd \in {"up", "down", "pause", "resume"},
           NEW ms \in Seq(Models), ms # <<>>, Run(p, cmd, ms)
    PROVE  /\ proc[p] = Idle
           /\ Moves(p, [cmd |-> cmd, pc |-> FirstStep(cmd), todo |-> ms])
<1> DEFINE c == [cmd |-> cmd, pc |-> FirstStep(cmd), todo |-> ms]
<1>1. c \in Commands
  BY DEF Commands, FirstStep
<1>2. Started(cmd, ms) = c
  BY DEF Started
<1> QED BY <1>1, <1>2, OneMoves DEF Run

\* What becomes of a command that is through with a model.
AfterModel(c) ==
    CASE Tail(c.todo) # <<>> ->
            [cmd |-> c.cmd, pc |-> FirstStep(c.cmd), todo |-> Tail(c.todo)]
      [] Tail(c.todo) = <<>> /\ c.cmd = "resume" ->
            [cmd |-> c.cmd, pc |-> "end", todo |-> <<>>]
      [] OTHER -> Idle

LEMMA NextModelMoves ==
    ASSUME proc \in [Procs -> Commands], NEW p \in Procs,
           proc[p].todo # <<>>, NextModel(p)
    PROVE  Moves(p, AfterModel(proc[p]))
<1> DEFINE c == AfterModel(proc[p])
<1>1. proc[p].todo \in Seq(Models) /\ Tail(proc[p].todo) \in Seq(Models)
  BY HeadAndTail DEF Commands
<1>2. c \in Commands
  BY <1>1, EmptyList DEF AfterModel, Commands, FirstStep, Idle
<1>3. proc' = [proc EXCEPT ![p] = c]
  BY <1>1 DEF NextModel, Started, AfterModel
<1> QED BY <1>2, <1>3, OneMoves

\* It is enough to look at the command that moves.
LEMMA MoveKeeps ==
    ASSUME TypeOK, Coherent, NEW p \in Procs, NEW c \in Commands, Moves(p, c), Sound(c),
           p \in Jobs => c.cmd \notin {"pause", "resume"}
    PROVE  /\ proc' \in [Procs -> Commands] /\ Coherent'
           /\ \A q \in Procs : proc'[q].todo = <<>> <=> proc'[q].pc \in {"idle", "end"}
<1>1. \A q \in Procs : Sound(proc'[q])
  BY DEF Moves, Coherent
<1>2. \A q \in Jobs : proc'[q].cmd \notin {"pause", "resume"}
  BY DEF Moves, Coherent, Procs
<1> QED BY <1>1, <1>2 DEF Moves, Coherent, Sound

LEMMA AfterModelIsSound ==
    ASSUME NEW c \in Commands, Sound(c), c.todo # <<>>
    PROVE  /\ AfterModel(c) \in Commands /\ Sound(AfterModel(c))
           /\ AfterModel(c).cmd \in {c.cmd, "none"}
           /\ AfterModel(c).pc # "evict"
           /\ AfterModel(c).todo = Tail(c.todo)
<1>1. c.todo \in Seq(Models) /\ Tail(c.todo) \in Seq(Models)
  BY HeadAndTail DEF Commands
<1>2. c.cmd # "none"
  BY DEF Sound
<1>3. CASE Tail(c.todo) # <<>>
  BY <1>1, <1>2, <1>3 DEF AfterModel, Commands, Sound, FirstStep
<1>4. CASE Tail(c.todo) = <<>> /\ c.cmd = "resume"
  BY <1>1, <1>4 DEF AfterModel, Commands, Sound
<1>5. CASE Tail(c.todo) = <<>> /\ c.cmd # "resume"
  BY <1>1, <1>5 DEF AfterModel, Commands, Sound, Idle
<1> QED BY <1>3, <1>4, <1>5

-----------------------------------------------------------------------------
(* The invariant *)

LEMMA ListInvInit == Init => ListInv
<1> SUFFICES ASSUME Init PROVE ListInv
  OBVIOUS
<1>1. Idle \in Commands /\ Sound(Idle) /\ Idle.cmd = "none"
  BY EmptyList DEF Idle, Commands, Sound
<1>2. TypeOK
  <2>1. cached \subseteq Repos
    BY DEF Init, Repos
  <2>2. IsInjective(<<>>)
    BY DEF IsInjective
  <2> QED BY <1>1, <2>1, <2>2, EmptyList DEF Init, TypeOK, Sound
<1>3. Coherent
  BY <1>1 DEF Init, Coherent, Procs
<1>4. OwedNotLoaded /\ ResumeDoesAll
  BY <1>1 DEF Init, OwedNotLoaded, ResumeDoesAll, Procs
<1> QED BY <1>2, <1>3, <1>4 DEF ListInv

\* Steps of the router and the janitor: no command moves.
LEMMA RouterListInv ==
    ASSUME ListInv, NEW m \in Models, LoadSucceeds(m) \/ LoadFails(m)
    PROVE  ListInv'
<1> USE DEF ListInv
<1>1. /\ UNCHANGED <<proc, paused, janitor, beating>> /\ owed' \subseteq owed
      /\ calm' \in BOOLEAN
  BY DEF LoadSucceeds, LoadFails, fileVars, TypeOK
<1>2. /\ child' \in [Models -> {"unloaded", "loading", "loaded"}]
      /\ failed' \in [Models -> BOOLEAN] /\ cached' \subseteq Repos
  BY DEF LoadSucceeds, LoadFails, TypeOK, Repos
<1>3. TypeOK'
  BY <1>1, <1>2 DEF TypeOK
<1>4. Coherent' /\ ResumeDoesAll'
  BY <1>1 DEF Coherent, ResumeDoesAll, Current
<1>5. OwedNotLoaded'
  BY DEF LoadSucceeds, LoadFails, TypeOK, OwedNotLoaded
<1> QED BY <1>3, <1>4, <1>5

\* Steps that touch none of the lists, nor what is loaded or owed, nor a command.
LEMMA AsideListInv ==
    ASSUME ListInv, UNCHANGED <<routerVars, paused, proc, owed>>,
           cached' \subseteq Repos, janitor' \subseteq Repos,
           beating' \in BOOLEAN, calm' \in BOOLEAN
    PROVE  ListInv'
<1> USE DEF ListInv, routerVars
<1>1. TypeOK'
  BY DEF TypeOK
<1>2. Coherent' /\ OwedNotLoaded' /\ ResumeDoesAll'
  BY DEF Coherent, OwedNotLoaded, ResumeDoesAll, Current
<1> QED BY <1>1, <1>2

\* A command moves on, and nothing but it, the page cache, the janitor, the loop
\* and calm changes.
LEMMA MoveListInv ==
    ASSUME ListInv, UNCHANGED <<routerVars, paused, owed>>,
           cached' \subseteq Repos, janitor' \subseteq Repos,
           beating' \in BOOLEAN, calm' \in BOOLEAN,
           NEW p \in Procs, NEW c \in Commands, Moves(p, c), Sound(c),
           p \in Jobs => c.cmd \notin {"pause", "resume"},
           (p \in Shells /\ c.cmd = "resume") =>
              /\ owed \intersect ToSet(paused) \subseteq ToSet(c.todo)
              /\ c.pc = "evict" => Head(c.todo) \notin owed
    PROVE  ListInv'
<1> USE DEF ListInv, routerVars
<1>1. /\ proc' \in [Procs -> Commands] /\ Coherent'
      /\ \A q \in Procs : proc'[q].todo = <<>> <=> proc'[q].pc \in {"idle", "end"}
  BY MoveKeeps
<1>2. TypeOK'
  BY <1>1 DEF TypeOK
<1>3. OwedNotLoaded'
  BY DEF OwedNotLoaded
<1>4. ResumeDoesAll'
  BY DEF ResumeDoesAll, Moves, Current, Procs
<1> QED BY <1>1, <1>2, <1>3, <1>4

\* Where a command has something to do, it has a model to do it to.
LEMMA CurrentModel ==
    ASSUME TypeOK, Coherent, NEW p \in Procs, proc[p].pc \notin {"idle", "end"}
    PROVE  /\ proc[p] \in Commands /\ Sound(proc[p])
           /\ proc[p].todo \in Seq(Models) /\ proc[p].todo # <<>>
           /\ Current(p) \in Models /\ Repo[Current(p)] \in Repos
           /\ ToSet(proc[p].todo) = ToSet(Tail(proc[p].todo)) \union {Current(p)}
<1>1. /\ proc[p] \in Commands /\ Sound(proc[p]) /\ proc[p].todo # <<>>
      /\ proc[p].todo \in Seq(Models)
  BY DEF TypeOK, Coherent, Commands
<1> QED BY <1>1, HeadAndTail DEF Current, Repos

\* What a command can do without touching router, list or debts.
StepsAside(p) ==
    \/ Warm(p) \/ SeesLoaded(p) \/ SeesFailed(p) \/ EvictOwn(p)
    \/ SeesUnloaded(p) \/ Release(p) \/ GivesUp(p) \/ CallFails(p)

\* What it does to the page cache.
LEMMA CacheTypes ==
    ASSUME TypeOK, Coherent, NEW p \in Procs, StepsAside(p)
    PROVE  /\ UNCHANGED <<routerVars, fileVars, owed>>
           /\ cached' \subseteq Repos /\ calm' \in BOOLEAN
<1>1. ASSUME Warm(p) PROVE cached' \subseteq Repos
  BY <1>1, CurrentModel DEF Warm, At, TypeOK
<1>2. ASSUME NEW r, Evict(r) PROVE cached' \subseteq Repos
  BY <1>2 DEF Evict, TypeOK
<1>3. ASSUME EvictOwn(p) \/ Release(p) PROVE cached' \subseteq Repos
  BY <1>2, <1>3 DEF EvictOwn, Release, TypeOK
<1>4. ASSUME SeesLoaded(p) \/ SeesFailed(p) \/ SeesUnloaded(p) \/ GivesUp(p) \/ CallFails(p)
      PROVE  cached' \subseteq Repos
  BY <1>4 DEF SeesLoaded, SeesFailed, SeesUnloaded, GivesUp, CallFails, TypeOK
<1> QED BY <1>1, <1>3, <1>4 DEF StepsAside, Warm, EvictOwn, Release, SeesLoaded,
           SeesFailed, SeesUnloaded, GivesUp, CallFails, TypeOK

\* A command goes on with its model, or with the next one.
LEMMA GoToListInv ==
    ASSUME ListInv, NEW p \in Procs, StepsAside(p),
           NEW pc \in {"post", "evict", "release"}, GoTo(p, pc),
           proc[p].pc \in {"warm", "wait", "gone"},
           pc = "release" <=> proc[p].pc = "gone",
           pc = "evict" => Current(p) \notin owed
    PROVE  ListInv'
<1> DEFINE c == [cmd |-> proc[p].cmd, pc |-> pc, todo |-> proc[p].todo]
<1>1. proc[p] \in Commands /\ Sound(proc[p]) /\ proc[p].todo # <<>>
  BY CurrentModel DEF ListInv
<1>2. Moves(p, c)
  BY GoToMoves DEF ListInv, TypeOK
<1>3. c \in Commands /\ Sound(c)
  BY <1>1 DEF Commands, Sound
<1>4. p \in Jobs => c.cmd \notin {"pause", "resume"}
  BY DEF ListInv, Coherent
<1>5. (p \in Shells /\ c.cmd = "resume") =>
         /\ owed \intersect ToSet(paused) \subseteq ToSet(c.todo)
         /\ c.pc = "evict" => Head(c.todo) \notin owed
  BY DEF ListInv, ResumeDoesAll, Current
<1>6. /\ UNCHANGED <<routerVars, fileVars, owed>>
      /\ cached' \subseteq Repos /\ calm' \in BOOLEAN
  BY CacheTypes DEF ListInv
<1>7. janitor' \subseteq Repos /\ beating' \in BOOLEAN /\ UNCHANGED paused
  BY <1>6 DEF fileVars, ListInv, TypeOK
<1> HIDE DEF c
<1> QED BY <1>2, <1>3, <1>4, <1>5, <1>6, <1>7, MoveListInv

LEMMA NextModelListInv ==
    ASSUME ListInv, NEW p \in Procs, EvictOwn(p) \/ Release(p)
    PROVE  ListInv'
<1> DEFINE c == AfterModel(proc[p])
<1>1. proc[p].pc \notin {"idle", "end"} /\ StepsAside(p) /\ NextModel(p)
  BY DEF EvictOwn, Release, At, StepsAside
<1>2. /\ proc[p] \in Commands /\ Sound(proc[p]) /\ proc[p].todo # <<>>
      /\ ToSet(proc[p].todo) = ToSet(Tail(proc[p].todo)) \union {Current(p)}
  BY <1>1, CurrentModel DEF ListInv
<1>3. Moves(p, c)
  BY <1>1, <1>2, NextModelMoves DEF ListInv, TypeOK
<1>4. /\ c \in Commands /\ Sound(c) /\ c.cmd \in {proc[p].cmd, "none"}
      /\ c.pc # "evict" /\ c.todo = Tail(proc[p].todo)
  BY <1>2, AfterModelIsSound
<1>5. p \in Jobs => c.cmd \notin {"pause", "resume"}
  BY <1>4 DEF ListInv, Coherent
<1>6. (p \in Shells /\ c.cmd = "resume") =>
         owed \intersect ToSet(paused) \subseteq ToSet(c.todo)
  <2> SUFFICES ASSUME p \in Shells, c.cmd = "resume"
               PROVE  owed \intersect ToSet(paused) \subseteq ToSet(c.todo)
    OBVIOUS
  <2>1. proc[p].cmd = "resume"
    BY <1>4
  <2>2. proc[p].pc = "evict"
    BY <1>2, <2>1 DEF EvictOwn, Release, At, Sound
  <2>3. Current(p) \notin owed /\ owed \intersect ToSet(paused) \subseteq ToSet(proc[p].todo)
    BY <2>1, <2>2 DEF ListInv, ResumeDoesAll
  <2> QED BY <1>2, <1>4, <2>3
<1>7. /\ UNCHANGED <<routerVars, fileVars, owed>>
      /\ cached' \subseteq Repos /\ calm' \in BOOLEAN
  BY <1>1, CacheTypes DEF ListInv
<1>8. janitor' \subseteq Repos /\ beating' \in BOOLEAN /\ UNCHANGED paused
  BY <1>7 DEF fileVars, ListInv, TypeOK
<1> HIDE DEF c
<1> QED BY <1>3, <1>4, <1>5, <1>6, <1>7, <1>8, MoveListInv

\* A command that gives up, or has seen a failure, is over.
LEMMA DieListInv ==
    ASSUME ListInv, NEW p \in Procs, Die(p), UNCHANGED <<routerVars, paused, owed>>,
           cached' \subseteq Repos, janitor' \subseteq Repos,
           beating' \in BOOLEAN, calm' \in BOOLEAN
    PROVE  ListInv'
<1>1. Moves(p, Idle)
  BY DieMoves DEF ListInv, TypeOK
<1>2. Idle \in Commands /\ Sound(Idle) /\ Idle.cmd = "none"
  BY EmptyList DEF Idle, Commands, Sound
<1> QED BY <1>1, <1>2, MoveListInv

LEMMA StepsAsideListInv ==
    ASSUME ListInv, NEW p \in Procs, StepsAside(p)
    PROVE  ListInv'
<1>0. /\ UNCHANGED <<routerVars, fileVars, owed>>
      /\ cached' \subseteq Repos /\ calm' \in BOOLEAN
      /\ janitor' \subseteq Repos /\ beating' \in BOOLEAN /\ UNCHANGED paused
  BY CacheTypes DEF ListInv, fileVars, TypeOK
<1>1. CASE Warm(p)
  BY <1>1, GoToListInv DEF Warm, At
<1>2. CASE SeesLoaded(p)
  <2>1. Current(p) \notin owed
    BY <1>2 DEF SeesLoaded, ListInv, OwedNotLoaded
  <2> QED BY <1>2, <2>1, GoToListInv DEF SeesLoaded, At
<1>3. CASE SeesUnloaded(p)
  BY <1>3, GoToListInv DEF SeesUnloaded, At
<1>4. CASE EvictOwn(p) \/ Release(p)
  BY <1>4, NextModelListInv
<1>5. CASE SeesFailed(p) \/ GivesUp(p) \/ CallFails(p)
  BY <1>0, <1>5, DieListInv DEF SeesFailed, GivesUp, CallFails, EndsHere
<1> QED BY <1>1, <1>2, <1>3, <1>4, <1>5 DEF StepsAside

LEMMA AnsweredMoves ==
    ASSUME TypeOK, NEW p \in Procs, NEW pc \in {"wait", "gone"}, Answered(p, pc)
    PROVE  \/ /\ Moves(p, [cmd |-> proc[p].cmd, pc |-> pc, todo |-> proc[p].todo])
              /\ At(p, pc)'
           \/ Moves(p, Idle) /\ ~At(p, pc)'
<1>1. CASE GoTo(p, pc)
  BY <1>1, GoToMoves DEF TypeOK, Moves, At
<1>2. CASE Die(p)
  BY <1>2, DieMoves DEF TypeOK, Moves, At, Idle
<1> QED BY <1>1, <1>2 DEF Answered

LEMMA PostLoadListInv ==
    ASSUME ListInv, NEW p \in Procs, PostLoad(p)
    PROVE  ListInv'
<1> USE DEF ListInv
<1> DEFINE w == [cmd |-> proc[p].cmd, pc |-> "wait", todo |-> proc[p].todo]
<1>1. /\ proc[p] \in Commands /\ Sound(proc[p]) /\ proc[p].pc = "post"
      /\ Current(p) \in Models /\ proc[p].todo # <<>>
  BY CurrentModel DEF PostLoad, At
<1>2. PICK c \in {w, Idle} : Moves(p, c)
  BY AnsweredMoves DEF PostLoad
<1>3. c \in Commands /\ Sound(c)
  <2>1. w \in Commands /\ Sound(w)
    BY <1>1 DEF Commands, Sound
  <2>2. Idle \in Commands /\ Sound(Idle)
    BY EmptyList DEF Commands, Sound, Idle
  <2> HIDE DEF w
  <2> QED BY <2>1, <2>2
<1>4. p \in Jobs => c.cmd \notin {"pause", "resume"}
  BY DEF Coherent, Idle
<1>5. /\ proc' \in [Procs -> Commands] /\ Coherent'
      /\ \A q \in Procs : proc'[q].todo = <<>> <=> proc'[q].pc \in {"idle", "end"}
  BY <1>2, <1>3, <1>4, MoveKeeps
<1>6. /\ child' \in [Models -> {"unloaded", "loading", "loaded"}]
      /\ failed' \in [Models -> BOOLEAN] /\ calm' \in BOOLEAN
      /\ UNCHANGED <<cached, paused, beating, janitor, owed>>
  BY DEF PostLoad, TypeOK, routerVars, fileVars
<1>7. TypeOK'
  BY <1>5, <1>6 DEF TypeOK
<1>8. OwedNotLoaded'
  BY <1>1, <1>6 DEF PostLoad, TypeOK, OwedNotLoaded, routerVars
<1>9. ResumeDoesAll'
  BY <1>2, <1>6 DEF ResumeDoesAll, Moves, Current, Procs, Idle
<1> QED BY <1>5, <1>7, <1>8, <1>9

\* Only a pause adds a debt, and then no other shell resumes.
LEMMA PostUnloadListInv ==
    ASSUME NEW sh, Shells = {sh}, ListInv, NEW p \in Procs, PostUnload(p)
    PROVE  ListInv'
<1> USE DEF ListInv
<1> DEFINE g == [cmd |-> proc[p].cmd, pc |-> "gone", todo |-> proc[p].todo]
<1>1. /\ proc[p] \in Commands /\ Sound(proc[p]) /\ proc[p].pc = "unload"
      /\ Current(p) \in Models /\ proc[p].todo # <<>>
  BY CurrentModel DEF PostUnload, At
<1>2. PICK c \in {g, Idle} : Moves(p, c)
  BY AnsweredMoves DEF PostUnload
<1>3. c \in Commands /\ Sound(c)
  <2>1. g \in Commands /\ Sound(g)
    BY <1>1 DEF Commands, Sound
  <2>2. Idle \in Commands /\ Sound(Idle)
    BY EmptyList DEF Commands, Sound, Idle
  <2> HIDE DEF g
  <2> QED BY <2>1, <2>2
<1>4. p \in Jobs => c.cmd \notin {"pause", "resume"}
  BY DEF Coherent, Idle
<1>5. /\ proc' \in [Procs -> Commands] /\ Coherent'
      /\ \A q \in Procs : proc'[q].todo = <<>> <=> proc'[q].pc \in {"idle", "end"}
  BY <1>2, <1>3, <1>4, MoveKeeps
<1>6. /\ child' \in [Models -> {"unloaded", "loading", "loaded"}]
      /\ owed' \subseteq Models /\ calm' \in BOOLEAN
      /\ UNCHANGED <<failed, cached, paused, beating, janitor>>
  BY <1>1 DEF PostUnload, TypeOK, fileVars
<1>7. TypeOK'
  BY <1>5, <1>6 DEF TypeOK
<1>8. OwedNotLoaded'
  BY <1>1, <1>6 DEF PostUnload, TypeOK, OwedNotLoaded
<1>9. ResumeDoesAll'
  <2> SUFFICES ASSUME proc'[sh].cmd = "resume"
               PROVE  /\ owed' \intersect ToSet(paused') \subseteq ToSet(proc'[sh].todo)
                      /\ proc'[sh].pc = "evict" => Head(proc'[sh].todo) \notin owed'
    BY DEF ResumeDoesAll, Current
  <2>1. p # sh /\ proc'[sh] = proc[sh]
    BY <1>1, <1>2 DEF Moves, Sound, Procs, Idle
  <2>2. proc[p].cmd # "pause"
    BY <2>1 DEF Coherent, Procs
  <2>3. owed' \subseteq owed
    BY <2>2 DEF PostUnload
  <2> QED BY <1>6, <2>1, <2>3 DEF ResumeDoesAll, Current
<1> QED BY <1>5, <1>7, <1>8, <1>9

LEMMA ResumeOverListInv ==
    ASSUME ListInv, NEW p \in Procs, ResumeOver(p)
    PROVE  ListInv'
<1> USE DEF ListInv
<1>1. Moves(p, Idle)
  BY DieMoves DEF ResumeOver, TypeOK
<1>2. Idle \in Commands /\ Sound(Idle) /\ Idle.cmd = "none"
  BY EmptyList DEF Idle, Commands, Sound
<1>3. /\ proc' \in [Procs -> Commands] /\ Coherent'
      /\ \A q \in Procs : proc'[q].todo = <<>> <=> proc'[q].pc \in {"idle", "end"}
  BY <1>1, <1>2, MoveKeeps
<1>4. TypeOK'
  <2>1. IsInjective(<<>>)
    BY DEF IsInjective
  <2> QED BY <1>3, <2>1, EmptyList DEF TypeOK, ResumeOver, routerVars
<1>5. OwedNotLoaded'
  BY DEF OwedNotLoaded, ResumeOver, routerVars
<1>6. ResumeDoesAll'
  BY <1>1, <1>2, EmptyList DEF ResumeDoesAll, ResumeOver, Moves, Current, Procs
<1> QED BY <1>3, <1>4, <1>5, <1>6

\* What is typed, and what the Models page starts.
LEMMA StartListInv ==
    ASSUME ListInv, NEW p \in Procs, NEW cmd \in {"up", "down"}, NEW m \in Models,
           UpOrDown(p, cmd, m) \/ BeatStartsJob(p, cmd, m)
    PROVE  ListInv'
<1> DEFINE c == [cmd |-> cmd, pc |-> FirstStep(cmd), todo |-> <<m>>]
<1>1. Run(p, cmd, <<m>>) /\ <<m>> \in Seq(Models) /\ <<m>> # <<>>
  BY DEF UpOrDown, BeatStartsJob
<1>2. Moves(p, c)
  BY <1>1, RunMoves DEF ListInv, TypeOK
<1>3. c \in Commands /\ Sound(c) /\ c.cmd \notin {"pause", "resume"}
  BY <1>1 DEF Commands, Sound, FirstStep
<1>4. /\ UNCHANGED <<routerVars, paused, owed>>
      /\ cached' \subseteq Repos /\ janitor' \subseteq Repos
      /\ beating' \in BOOLEAN /\ calm' \in BOOLEAN
  BY DEF UpOrDown, BeatStartsJob, fileVars, ListInv, TypeOK, ToEvict
<1> HIDE DEF c
<1> QED BY <1>2, <1>3, <1>4, MoveListInv

LEMMA ResumeListInv ==
    ASSUME ListInv, NEW s \in Shells, Resume(s)
    PROVE  ListInv'
<1> DEFINE c == [cmd |-> "resume", pc |-> "warm", todo |-> paused]
<1>1. s \in Procs /\ s \notin Jobs
  BY ShellsAssumption DEF Procs
<1>2. Moves(s, c)
  BY <1>1, RunMoves DEF Resume, ListInv, TypeOK, FirstStep
<1>3. c \in Commands /\ Sound(c)
  BY DEF Resume, ListInv, TypeOK, Commands, Sound
<1>4. /\ UNCHANGED <<routerVars, paused, owed>>
      /\ cached' \subseteq Repos /\ janitor' \subseteq Repos
      /\ beating' \in BOOLEAN /\ calm' \in BOOLEAN
  BY DEF Resume, fileVars, ListInv, TypeOK
<1>5. /\ owed \intersect ToSet(paused) \subseteq ToSet(c.todo)
      /\ c.pc # "evict"
  OBVIOUS
<1> HIDE DEF c
<1> QED BY <1>1, <1>2, <1>3, <1>4, <1>5, MoveListInv

\* pause goes to work on what it was told is up.
LEMMA PauseMoves ==
    ASSUME TypeOK, NEW sh \in Procs, Pause(sh)
    PROVE  \E ms \in Seq(Models) :
              /\ ms # <<>> /\ ToSet(ms) = Listed /\ IsInjective(ms)
              /\ Moves(sh, [cmd |-> "pause", pc |-> "save", todo |-> ms])
<1>1. PICK ms \in Lists :
        /\ Prints(ms) /\ ms # <<>>
        /\ proc' = [proc EXCEPT ![sh] = [cmd |-> "pause", pc |-> "save", todo |-> ms]]
  BY DEF Pause
<1>2. ms \in Seq(Models) /\ ToSet(ms) = Listed /\ IsInjective(ms)
  BY <1>1, Printed
<1>3. [cmd |-> "pause", pc |-> "save", todo |-> ms] \in Commands
  BY <1>2 DEF Commands
<1> QED BY <1>1, <1>2, <1>3, OneMoves DEF TypeOK

LEMMA PauseListInv ==
    ASSUME ListInv, NEW sh \in Shells, Pause(sh)
    PROVE  ListInv'
<1>1. sh \in Procs /\ sh \notin Jobs
  BY ShellsAssumption DEF Procs
<1>2. PICK ms \in Seq(Models) :
        /\ ms # <<>> /\ IsInjective(ms)
        /\ Moves(sh, [cmd |-> "pause", pc |-> "save", todo |-> ms])
  BY <1>1, PauseMoves DEF ListInv
<1> DEFINE c == [cmd |-> "pause", pc |-> "save", todo |-> ms]
<1>3. c \in Commands /\ Sound(c)
  BY <1>2 DEF Commands, Sound
<1>4. /\ UNCHANGED <<routerVars, paused, owed>>
      /\ cached' \subseteq Repos /\ janitor' \subseteq Repos
      /\ beating' \in BOOLEAN /\ calm' \in BOOLEAN
  BY DEF Pause, fileVars, ListInv, TypeOK
<1>5. c.cmd # "resume"
  OBVIOUS
<1>6. Moves(sh, c)
  BY <1>2
<1> HIDE DEF c
<1> QED BY <1>1, <1>3, <1>4, <1>5, <1>6, MoveListInv

\* A pause at one of its first steps is the pause of a shell.
LEMMA PausingShell ==
    ASSUME ListInv, NEW p \in Procs, proc[p].pc \in {"save", "stop", "leave"}
    PROVE  /\ p \in Shells /\ p \notin Jobs /\ proc[p].cmd = "pause"
           /\ proc[p] \in Commands /\ Sound(proc[p]) /\ proc[p].todo # <<>>
           /\ proc[p].todo \in Seq(Models)
BY CurrentModel DEF ListInv, Coherent, Sound, Procs

\* The list is written anew by the only shell, which does not resume.
LEMMA SaveListInv ==
    ASSUME NEW sh, Shells = {sh}, ListInv, NEW p \in Procs, SaveList(p)
    PROVE  ListInv'
<1> USE DEF ListInv
<1> DEFINE c == [cmd |-> "pause", pc |-> "stop", todo |-> proc[p].todo]
<1>1. /\ p = sh /\ p \notin Jobs /\ proc[p].cmd = "pause" /\ proc[p] \in Commands
      /\ proc[p].todo # <<>> /\ proc[p].todo \in Seq(Models) /\ IsInjective(proc[p].todo)
  BY PausingShell DEF SaveList, At, Sound
<1>2. Moves(p, c)
  BY <1>1, GoToMoves DEF SaveList, TypeOK
<1>3. c \in Commands /\ Sound(c)
  BY <1>1 DEF Commands, Sound
<1>4. /\ proc' \in [Procs -> Commands] /\ Coherent'
      /\ \A q \in Procs : proc'[q].todo = <<>> <=> proc'[q].pc \in {"idle", "end"}
  BY <1>1, <1>2, <1>3, MoveKeeps
<1>5. TypeOK'
  BY <1>1, <1>4 DEF TypeOK, SaveList, routerVars
<1>6. OwedNotLoaded'
  BY DEF OwedNotLoaded, SaveList, routerVars
<1>7. ResumeDoesAll'
  BY <1>1, <1>2 DEF ResumeDoesAll, Moves
<1> QED BY <1>4, <1>5, <1>6, <1>7

LEMMA StopListInv ==
    ASSUME ListInv, NEW p \in Procs, StopLoop(p) \/ Deregistered(p)
    PROVE  ListInv'
<1> DEFINE pc == IF StopLoop(p) THEN "leave" ELSE "unload"
           c == [cmd |-> "pause", pc |-> pc, todo |-> proc[p].todo]
<1>1. GoTo(p, pc) /\ proc[p].pc \in {"stop", "leave"}
  BY DEF StopLoop, Deregistered, At
<1>2. /\ p \notin Jobs /\ proc[p].cmd = "pause" /\ proc[p] \in Commands
      /\ proc[p].todo # <<>> /\ proc[p].todo \in Seq(Models)
  BY <1>1, PausingShell
<1>3. Moves(p, c)
  BY <1>1, <1>2, GoToMoves DEF ListInv, TypeOK
<1>4. c \in Commands /\ Sound(c) /\ c.cmd # "resume"
  BY <1>2 DEF Commands, Sound
<1>5. /\ UNCHANGED <<routerVars, paused, owed>>
      /\ cached' \subseteq Repos /\ janitor' \subseteq Repos
      /\ beating' \in BOOLEAN /\ calm' \in BOOLEAN
  BY DEF StopLoop, Deregistered, fileVars, ListInv, TypeOK
<1> HIDE DEF c
<1> QED BY <1>2, <1>3, <1>4, <1>5, MoveListInv

LEMMA ListInvNext ==
    ASSUME NEW sh, Shells = {sh}, ListInv, [Next]_vars
    PROVE  ListInv'
<1>1. ASSUME NEW m \in Models, LoadSucceeds(m) \/ LoadFails(m) PROVE ListInv'
  BY <1>1, RouterListInv
<1>2. ASSUME NEW s \in Shells, Pause(s) PROVE ListInv'
  BY <1>2, PauseListInv
<1>3. ASSUME NEW s \in Shells, Resume(s) PROVE ListInv'
  BY <1>3, ResumeListInv
<1>4. ASSUME NEW p \in Procs, NEW cmd \in {"up", "down"}, NEW m \in Models,
             UpOrDown(p, cmd, m) \/ BeatStartsJob(p, cmd, m)
      PROVE  ListInv'
  BY <1>4, StartListInv
<1>5. ASSUME NEW n \in Batches, OtherBeat(n) PROVE ListInv'
  BY <1>5, AsideListInv DEF OtherBeat, ListInv, TypeOK, ToEvict
<1>6. ASSUME NEW r \in Repos, JanitorEvicts(r) PROVE ListInv'
  BY <1>6, AsideListInv DEF JanitorEvicts, Evict, ListInv, TypeOK
<1>7. ASSUME NEW p \in Procs, Step(p) \/ GivesUp(p) \/ CallFails(p) PROVE ListInv'
  BY <1>7, StepsAsideListInv, PostLoadListInv, PostUnloadListInv, ResumeOverListInv,
     SaveListInv, StopListInv DEF Step, StepsAside
<1>8. CASE UNCHANGED vars
  BY <1>8, AsideListInv DEF vars, fileVars, ListInv, TypeOK
<1> QED BY <1>1, <1>2, <1>3, <1>4, <1>5, <1>6, <1>7, <1>8
        DEF Next, RouterNext, StartNext, Procs

\* The commands of a machine keep their types (cmd_up, cmd_down, cmd_pause and
\* cmd_resume, bin/llm:439-495), next to one shell.
THEOREM ModelsTypes ==
    ASSUME NEW sh, Shells = {sh}
    PROVE  Spec => []TypeOK
<1>1. ListInv /\ [Next]_vars => ListInv'
  BY ListInvNext
<1>2. ListInv => TypeOK
  BY DEF ListInv
<1> QED BY <1>1, <1>2, ListInvInit, PTL DEF Spec

\* The list of resume is dropped only when all that is owed of it is back: the rm of
\* cmd_resume (bin/llm:492) comes after every load, whatever failed before, and
\* whatever the Models page does to the models meanwhile.
THEOREM ListIsKept ==
    ASSUME NEW sh, Shells = {sh}
    PROVE  Spec => ListKept
<1>1. ListInv /\ [Next]_vars => ListInv'
  BY ListInvNext
<1>2. ASSUME ListInv, Next, paused # <<>>, paused' = <<>>
      PROVE  owed \intersect ToSet(paused) = {}
  <2>1. ASSUME NEW p \in Procs, SaveList(p) PROVE FALSE
    BY <1>2, <2>1, PausingShell DEF SaveList, At
  <2>2. ASSUME NEW p \in Procs, ResumeOver(p) PROVE owed \intersect ToSet(paused) = {}
    <3>1. Sound(proc[p]) /\ proc[p].pc = "end" /\ p \in Shells
      BY <1>2, <2>2 DEF ListInv, Coherent, ResumeOver, At, Sound, Procs
    <3>2. proc[p].cmd = "resume" /\ proc[p].todo = <<>>
      BY <3>1 DEF Sound
    <3> QED BY <1>2, <3>1, <3>2, EmptyList DEF ListInv, ResumeDoesAll
  <2> QED BY <1>2, <2>1, <2>2 DEF Next, RouterNext, StartNext, Step, LoadSucceeds,
        LoadFails, Pause, Resume, UpOrDown, BeatStartsJob, OtherBeat, JanitorEvicts, StopLoop,
        Deregistered, Warm, PostLoad, SeesLoaded, SeesFailed, EvictOwn, PostUnload,
        SeesUnloaded, Release, GivesUp, CallFails, fileVars
<1>3. ListInv /\ [Next]_vars =>
        [(paused # <<>> /\ paused' = <<>>) => owed \intersect ToSet(paused) = {}]_vars
  BY <1>2
<1> QED BY <1>1, <1>3, ListInvInit, PTL DEF Spec, ListKept

-----------------------------------------------------------------------------
(* An undisturbed pause *)

ReposOf(ms) == {Repo[m] : m \in ms}

\* What the only shell is doing, with c its command.
Pausing(c) ==
    /\ IF c.pc \in {"save", "stop"} THEN beating /\ owed = {} ELSE ~beating
    /\ c.pc # "save" => ToSet(c.todo) \subseteq ToSet(paused)
    /\ Listed \subseteq ToSet(c.todo)
    /\ cached \subseteq ReposOf(ToSet(c.todo))
    /\ c.pc = "release" => Head(c.todo) \notin Listed
Resuming(c) ==
    cached \subseteq ReposOf(Listed \union (IF c.pc = "post" THEN {Head(c.todo)} ELSE {}))
Rests ==
    /\ ~beating => Listed = {} /\ cached = {}
    /\ beating => owed = {} /\ cached \subseteq ReposOf(Listed)

InPeace(c) ==
    /\ c.cmd \in {"none", "pause", "resume"}
    /\ c.cmd = "pause" => Pausing(c)
    /\ c.cmd = "resume" => Resuming(c)
    /\ c.cmd = "none" => Rests

CalmInv(sh) ==
    calm =>
      /\ \A m \in Models : ~failed[m]
      /\ \A j \in Jobs : proc[j].cmd = "none"
      /\ owed \subseteq ToSet(paused)
      /\ InPeace(proc[sh])

LEMMA CalmInit ==
    ASSUME NEW sh, Shells = {sh}, Init PROVE CalmInv(sh)
<1>1. \A p \in Procs : proc[p] = Idle
  BY DEF Init
<1>2. Listed = {n \in Models : child[n] # "unloaded"}
  BY DEF Init, Listed
<1>3. Rests
  BY <1>2 DEF Init, Rests, ReposOf
<1> QED BY <1>1, <1>3 DEF Init, CalmInv, InPeace, Idle, Procs

\* In peace nobody but the shell has anything to do.
LEMMA OnlyTheShell ==
    ASSUME NEW sh, Shells = {sh}, ListInv, CalmInv(sh), calm,
           NEW p \in Procs, proc[p].pc # "idle"
    PROVE  p = sh
BY DEF ListInv, Coherent, Sound, CalmInv, Procs

\* The shell moves; the rest of the invariant is about the others.
LEMMA ShellMoves ==
    ASSUME NEW sh, Shells = {sh}, ListInv, CalmInv(sh), calm, NEW c, Moves(sh, c),
           \A m \in Models : ~failed'[m],
           owed' \subseteq ToSet(paused'), InPeace(proc[sh])'
    PROVE  CalmInv(sh)'
<1>1. sh \notin Jobs
  BY ShellsAssumption
<1>2. \A j \in Jobs : proc'[j].cmd = "none"
  BY <1>1 DEF Moves, CalmInv, Procs
<1> QED BY <1>2 DEF CalmInv, Moves

LEMMA StartCalm ==
    ASSUME NEW sh, Shells = {sh}, ListInv, CalmInv(sh), calm, Pause(sh) \/ Resume(sh)
    PROVE  CalmInv(sh)'
<1> USE DEF ListInv
<1>1. sh \in Procs /\ paused \in Seq(Models)
  BY DEF Procs, TypeOK
<1>2. \A m \in Models : ~failed'[m]
  BY DEF Pause, Resume, routerVars, CalmInv
<1>3. CASE Pause(sh)
  <2>1. PICK ms \in Seq(Models) :
          /\ ms # <<>> /\ ToSet(ms) = Listed
          /\ Moves(sh, [cmd |-> "pause", pc |-> "save", todo |-> ms])
    BY <1>1, <1>3, PauseMoves
  <2> DEFINE c == [cmd |-> "pause", pc |-> "save", todo |-> ms]
  <2>2. Rests
    BY <1>3 DEF Pause, CalmInv, InPeace, Idle
  <2>3. Listed # {}
    BY <2>1, HeadAndTail
  <2>4. beating /\ owed = {} /\ cached \subseteq ReposOf(Listed)
    BY <2>2, <2>3 DEF Rests
  <2>5. UNCHANGED <<child, cached, owed, paused, beating>>
    BY <1>3 DEF Pause, routerVars, fileVars
  <2>6. proc'[sh] = c
    BY <2>1 DEF Moves
  <2>7. InPeace(proc[sh])'
    BY <2>1, <2>4, <2>5, <2>6 DEF InPeace, Pausing, Listed, ReposOf
  <2>8. owed' \subseteq ToSet(paused')
    BY <2>5 DEF CalmInv
  <2> HIDE DEF c
  <2> QED BY <1>2, <2>1, <2>7, <2>8, ShellMoves
<1>4. CASE Resume(sh)
  <2> DEFINE c == [cmd |-> "resume", pc |-> "warm", todo |-> paused]
  <2>1. proc[sh] = Idle /\ Moves(sh, c)
    BY <1>1, <1>4, RunMoves DEF Resume, TypeOK, FirstStep
  <2>2. Rests
    BY <2>1 DEF CalmInv, InPeace, Idle
  <2>3. UNCHANGED <<child, cached, owed, paused>>
    BY <1>4 DEF Resume, routerVars, fileVars
  <2>4. proc'[sh] = c
    BY <2>1 DEF Moves
  <2>5. InPeace(proc[sh])'
    BY <2>2, <2>3, <2>4 DEF InPeace, Resuming, Rests, Listed, ReposOf
  <2>6. owed' \subseteq ToSet(paused')
    BY <2>3 DEF CalmInv
  <2> HIDE DEF c
  <2> QED BY <1>2, <2>1, <2>5, <2>6, ShellMoves
<1> QED BY <1>3, <1>4

\* The steps of resume: what is cached is up, or about to be.
LEMMA ResumeCalm ==
    ASSUME NEW sh, Shells = {sh}, ListInv, CalmInv(sh), calm, calm',
           \/ Warm(sh) \/ PostLoad(sh) \/ SeesLoaded(sh)
           \/ EvictOwn(sh) \/ ResumeOver(sh)
    PROVE  CalmInv(sh)'
<1> USE DEF ListInv
<1>1. sh \in Procs /\ proc \in [Procs -> Commands] /\ Sound(proc[sh])
  BY DEF Procs, TypeOK, Coherent
<1>2. proc[sh].cmd = "resume" /\ Resuming(proc[sh])
  BY <1>1 DEF Warm, PostLoad, SeesLoaded, EvictOwn, ResumeOver, At, Sound, CalmInv, InPeace
<1>3. owed \subseteq ToSet(paused) /\ \A m \in Models : ~failed[m]
  BY DEF CalmInv
<1>4. proc[sh].pc # "end" =>
         /\ proc[sh].todo # <<>> /\ Current(sh) \in Models
         /\ Current(sh) = Head(proc[sh].todo)
  BY <1>1, <1>2, CurrentModel DEF Sound, Current
<1>5. CASE Warm(sh)
  <2> DEFINE c == [cmd |-> proc[sh].cmd, pc |-> "post", todo |-> proc[sh].todo]
  <2>1. Moves(sh, c) /\ proc[sh].pc = "warm"
    BY <1>1, <1>5, GoToMoves DEF Warm, At
  <2>2. proc'[sh] = c
    BY <2>1 DEF Moves
  <2>3. UNCHANGED <<child, failed, owed, paused>> /\ cached' = cached \union {Repo[Current(sh)]}
    BY <1>5 DEF Warm, routerVars, fileVars
  <2>4. InPeace(proc[sh])'
    BY <1>2, <1>4, <2>1, <2>2, <2>3 DEF InPeace, Resuming, Listed, ReposOf
  <2> HIDE DEF c
  <2> QED BY <1>3, <2>1, <2>3, <2>4, ShellMoves
<1>6. CASE PostLoad(sh)
  <2> DEFINE c == [cmd |-> proc[sh].cmd, pc |-> "wait", todo |-> proc[sh].todo]
  <2>1. Moves(sh, c) /\ proc[sh].pc = "post"
    BY <1>1, <1>6, AnsweredMoves DEF PostLoad, At
  <2>2. proc'[sh] = c
    BY <2>1 DEF Moves
  <2>3. UNCHANGED <<cached, owed, paused>>
    BY <1>6 DEF PostLoad, fileVars
  <2>4. Listed' = Listed \union {Current(sh)} /\ \A m \in Models : ~failed'[m]
    BY <1>3, <1>4, <1>6, <2>1 DEF PostLoad, Listed, TypeOK, routerVars
  <2>5. InPeace(proc[sh])'
    BY <1>2, <1>4, <2>1, <2>2, <2>3, <2>4 DEF InPeace, Resuming, ReposOf
  <2> HIDE DEF c
  <2> QED BY <1>3, <2>1, <2>3, <2>4, <2>5, ShellMoves
<1>7. CASE SeesLoaded(sh)
  <2> DEFINE c == [cmd |-> proc[sh].cmd, pc |-> "evict", todo |-> proc[sh].todo]
  <2>1. Moves(sh, c) /\ proc[sh].pc = "wait"
    BY <1>1, <1>7, GoToMoves DEF SeesLoaded, At
  <2>2. proc'[sh] = c
    BY <2>1 DEF Moves
  <2>3. UNCHANGED <<child, failed, cached, owed, paused>>
    BY <1>7 DEF SeesLoaded, routerVars, fileVars
  <2>4. InPeace(proc[sh])'
    BY <1>2, <2>1, <2>2, <2>3 DEF InPeace, Resuming, Listed, ReposOf
  <2> HIDE DEF c
  <2> QED BY <1>3, <2>1, <2>3, <2>4, ShellMoves
<1>8. CASE EvictOwn(sh)
  <2> DEFINE c == AfterModel(proc[sh])
  <2>1. proc[sh].pc = "evict" /\ proc[sh] \in Commands /\ proc[sh].todo # <<>>
    BY <1>1, <1>4, <1>8 DEF EvictOwn, At
  <2>2. Moves(sh, c)
    BY <1>1, <1>8, <2>1, NextModelMoves DEF EvictOwn
  <2>3. proc'[sh] = c
    BY <2>2 DEF Moves
  <2>4. c.cmd = "resume" /\ c.pc # "post"
    BY <1>2 DEF AfterModel, FirstStep
  <2>5. UNCHANGED <<child, failed, owed, paused>> /\ cached' \subseteq cached
    BY <1>8 DEF EvictOwn, Evict, routerVars, fileVars
  <2> HIDE DEF c
  <2>6. InPeace(proc[sh])'
    BY <1>2, <2>1, <2>3, <2>4, <2>5 DEF InPeace, Resuming, Listed, ReposOf
  <2> QED BY <1>3, <2>2, <2>5, <2>6, ShellMoves
<1>9. CASE ResumeOver(sh)
  <2>1. Moves(sh, Idle) /\ proc[sh].pc = "end" /\ proc[sh].todo = <<>>
    BY <1>1, <1>9, DieMoves DEF ResumeOver, At, Sound
  <2>2. proc'[sh] = Idle
    BY <2>1 DEF Moves
  <2>3. owed = {}
    BY <1>2, <1>3, <2>1, EmptyList DEF ResumeDoesAll
  <2>4. UNCHANGED <<child, failed, cached, owed>> /\ beating'
    BY <1>9 DEF ResumeOver, routerVars
  <2>5. InPeace(proc[sh])'
    BY <1>2, <2>1, <2>2, <2>3, <2>4 DEF InPeace, Resuming, Rests, Listed, ReposOf, Idle
  <2> QED BY <1>3, <2>1, <2>3, <2>4, <2>5, ShellMoves
<1> QED BY <1>5, <1>6, <1>7, <1>8, <1>9

\* The pages of a repo are spared only for a model that pause has still to unload.
LEMMA ReleasedPages ==
    ASSUME NEW sh, ListInv, Pausing(proc[sh]), Release(sh), sh \in Procs
    PROVE  /\ Listed \subseteq ToSet(Tail(proc[sh].todo))
           /\ cached' \subseteq ReposOf(ToSet(Tail(proc[sh].todo)))
<1> DEFINE rest == ToSet(Tail(proc[sh].todo))
           r == Repo[Current(sh)]
<1>1. /\ proc[sh].pc = "release" /\ Current(sh) = Head(proc[sh].todo)
      /\ ToSet(proc[sh].todo) = rest \union {Current(sh)}
  BY CurrentModel DEF Release, At, ListInv, Current
<1>2. Listed \subseteq rest /\ cached \subseteq ReposOf(rest) \union {r}
  BY <1>1 DEF Pausing, ReposOf
<1>3. PICK ms \in Lists, spared \in BOOLEAN :
         /\ Prints(ms) /\ (spared => spared \in SparedForCopy(ms, r))
         /\ IF spared THEN UNCHANGED cached ELSE Evict(r)
  BY DEF Release
<1> HIDE DEF r
<1>4. CASE spared
  <2>1. {m \in ToSet(ms) : Repo[m] = r} # {}
    BY <1>3, <1>4 DEF SparedForCopy
  <2>2. r \in ReposOf(rest)
    BY <1>2, <1>3, <2>1 DEF Prints, ReposOf
  <2> QED BY <1>2, <1>3, <1>4, <2>2
<1>5. CASE ~spared
  <2>1. Evict(r)
    BY <1>3, <1>5
  <2>2. CASE Mapped(r)
    <3>1. r \in ReposOf(Listed)
      BY <2>2 DEF Mapped, Listed, ReposOf
    <3>2. cached' = cached
      BY <2>1, <2>2 DEF Evict
    <3> QED BY <1>2, <3>1, <3>2 DEF ReposOf
  <2>3. CASE ~Mapped(r)
    BY <1>2, <2>1, <2>3 DEF Evict
  <2> QED BY <2>2, <2>3
<1> QED BY <1>2, <1>4, <1>5

\* The steps of pause: what is up, or cached, is still on its list.
LEMMA PauseCalm ==
    ASSUME NEW sh, Shells = {sh}, ListInv, CalmInv(sh), calm, calm',
           \/ SaveList(sh) \/ StopLoop(sh) \/ Deregistered(sh)
           \/ PostUnload(sh) \/ SeesUnloaded(sh) \/ Release(sh)
    PROVE  CalmInv(sh)'
<1> USE DEF ListInv
<1>1. sh \in Procs /\ proc \in [Procs -> Commands] /\ Sound(proc[sh])
  BY DEF Procs, TypeOK, Coherent
<1>2. proc[sh].cmd = "pause" /\ Pausing(proc[sh])
  BY <1>1 DEF SaveList, StopLoop, Deregistered, PostUnload, SeesUnloaded, Release, At,
        Sound, CalmInv, InPeace
<1>3. owed \subseteq ToSet(paused) /\ \A m \in Models : ~failed[m]
  BY DEF CalmInv
<1>4. /\ proc[sh].todo # <<>> /\ Current(sh) \in Models
      /\ Current(sh) = Head(proc[sh].todo)
      /\ ToSet(proc[sh].todo) = ToSet(Tail(proc[sh].todo)) \union {Current(sh)}
  BY <1>1, CurrentModel DEF SaveList, StopLoop, Deregistered, PostUnload, SeesUnloaded,
        Release, At, Current
<1>5. CASE PostUnload(sh)
  <2> DEFINE c == [cmd |-> proc[sh].cmd, pc |-> "gone", todo |-> proc[sh].todo]
  <2>1. Moves(sh, c) /\ proc[sh].pc = "unload"
    BY <1>1, <1>5, AnsweredMoves DEF PostUnload, At
  <2>2. proc'[sh] = c
    BY <2>1 DEF Moves
  <2>3. UNCHANGED <<failed, cached, paused, beating>>
    BY <1>5 DEF PostUnload, fileVars
  <2>4. Listed' \subseteq Listed
    BY <1>5 DEF PostUnload, Listed, TypeOK
  <2>5. owed' \subseteq ToSet(paused)
    BY <1>2, <1>3, <1>4, <1>5, <2>1 DEF PostUnload, Pausing
  <2>6. InPeace(proc[sh])'
    BY <1>2, <2>1, <2>2, <2>3, <2>4 DEF InPeace, Pausing, ReposOf
  <2> HIDE DEF c
  <2> QED BY <1>3, <2>1, <2>3, <2>5, <2>6, ShellMoves
<1>6. CASE SeesUnloaded(sh)
  <2> DEFINE c == [cmd |-> proc[sh].cmd, pc |-> "release", todo |-> proc[sh].todo]
  <2>1. Moves(sh, c) /\ proc[sh].pc = "gone"
    BY <1>1, <1>6, GoToMoves DEF SeesUnloaded, At
  <2>2. proc'[sh] = c
    BY <2>1 DEF Moves
  <2>3. UNCHANGED <<child, failed, cached, paused, beating, owed>>
    BY <1>6 DEF SeesUnloaded, routerVars, fileVars
  <2>4. Current(sh) \notin Listed
    BY <1>6 DEF SeesUnloaded, Listed
  <2>5. InPeace(proc[sh])'
    BY <1>2, <1>4, <2>1, <2>2, <2>3, <2>4 DEF InPeace, Pausing, Listed, ReposOf
  <2> HIDE DEF c
  <2> QED BY <1>3, <2>1, <2>3, <2>5, ShellMoves
<1>7. CASE Release(sh)
  <2> DEFINE c == AfterModel(proc[sh])
  <2>1. proc[sh] \in Commands /\ proc[sh].pc = "release"
    BY <1>1, <1>7 DEF Release, At
  <2>2. Moves(sh, c)
    BY <1>1, <1>4, <1>7, NextModelMoves DEF Release
  <2>3. proc'[sh] = c
    BY <2>2 DEF Moves
  <2>4. UNCHANGED <<child, failed, owed, paused, beating>>
    BY <1>7 DEF Release, routerVars, fileVars
  <2>5. /\ Listed \subseteq ToSet(Tail(proc[sh].todo))
        /\ cached' \subseteq ReposOf(ToSet(Tail(proc[sh].todo)))
    BY <1>1, <1>2, <1>7, ReleasedPages
  <2>6. CASE Tail(proc[sh].todo) = <<>>
    <3>1. c = Idle
      BY <1>2, <2>6 DEF AfterModel
    <3>2. Listed = {} /\ cached' = {}
      BY <2>5, <2>6, EmptyList DEF ReposOf
    <3>3. InPeace(proc[sh])'
      BY <1>2, <2>1, <2>3, <2>4, <3>1, <3>2 DEF InPeace, Idle, Rests, Pausing, Listed
    <3> HIDE DEF c
    <3> QED BY <1>3, <2>2, <2>4, <3>3, ShellMoves
  <2>7. CASE Tail(proc[sh].todo) # <<>>
    <3>1. c = [cmd |-> "pause", pc |-> "unload", todo |-> Tail(proc[sh].todo)]
      BY <1>2, <2>7 DEF AfterModel, FirstStep
    <3>2. InPeace(proc[sh])'
      BY <1>2, <1>4, <2>1, <2>3, <2>4, <2>5, <3>1 DEF InPeace, Pausing, Listed, ReposOf
    <3> HIDE DEF c
    <3> QED BY <1>3, <2>2, <2>4, <3>2, ShellMoves
  <2> QED BY <2>6, <2>7
<1>8. CASE SaveList(sh)
  <2> DEFINE c == [cmd |-> proc[sh].cmd, pc |-> "stop", todo |-> proc[sh].todo]
  <2>1. Moves(sh, c) /\ proc[sh].pc = "save"
    BY <1>1, <1>8, GoToMoves DEF SaveList, At
  <2>2. proc'[sh] = c
    BY <2>1 DEF Moves
  <2>3. /\ UNCHANGED <<child, failed, cached, beating, owed>>
        /\ paused' = proc[sh].todo /\ owed = {}
    BY <1>2, <1>8, <2>1 DEF SaveList, Pausing, routerVars
  <2>4. InPeace(proc[sh])'
    BY <1>2, <2>1, <2>2, <2>3 DEF InPeace, Pausing, Listed, ReposOf
  <2>5. owed' \subseteq ToSet(paused')
    BY <2>3
  <2> HIDE DEF c
  <2> QED BY <1>3, <2>1, <2>3, <2>4, <2>5, ShellMoves
<1>9. CASE StopLoop(sh)
  <2> DEFINE c == [cmd |-> proc[sh].cmd, pc |-> "leave", todo |-> proc[sh].todo]
  <2>1. Moves(sh, c) /\ proc[sh].pc = "stop"
    BY <1>1, <1>9, GoToMoves DEF StopLoop, At
  <2>2. proc'[sh] = c
    BY <2>1 DEF Moves
  <2>3. UNCHANGED <<child, failed, cached, paused, owed>> /\ ~beating'
    BY <1>9 DEF StopLoop, routerVars
  <2>4. InPeace(proc[sh])'
    BY <1>2, <2>1, <2>2, <2>3 DEF InPeace, Pausing, Listed, ReposOf
  <2> HIDE DEF c
  <2> QED BY <1>3, <2>1, <2>3, <2>4, ShellMoves
<1>10. CASE Deregistered(sh)
  <2> DEFINE c == [cmd |-> proc[sh].cmd, pc |-> "unload", todo |-> proc[sh].todo]
  <2>1. Moves(sh, c) /\ proc[sh].pc = "leave"
    BY <1>1, <1>10, GoToMoves DEF Deregistered, At
  <2>2. proc'[sh] = c
    BY <2>1 DEF Moves
  <2>3. UNCHANGED <<child, failed, cached, paused, beating, owed>>
    BY <1>10 DEF Deregistered, routerVars, fileVars
  <2>4. InPeace(proc[sh])'
    BY <1>2, <2>1, <2>2, <2>3 DEF InPeace, Pausing, Listed, ReposOf
  <2> HIDE DEF c
  <2> QED BY <1>3, <2>1, <2>3, <2>4, ShellMoves
<1> QED BY <1>5, <1>6, <1>7, <1>8, <1>9, <1>10

\* Nobody moves: a load ends, or the janitor takes something out of the cache.
LEMMA AsideCalm ==
    ASSUME NEW sh, Shells = {sh}, ListInv, CalmInv(sh), calm,
           UNCHANGED <<failed, paused, beating, proc>>,
           owed' \subseteq owed, Listed' = Listed,
           cached' \subseteq cached \union ReposOf(Listed)
    PROVE  CalmInv(sh)'
<1>1. \A m \in Models : ~failed'[m]
  BY DEF CalmInv
<1>2. \A j \in Jobs : proc'[j].cmd = "none"
  BY DEF CalmInv
<1>3. owed' \subseteq ToSet(paused')
  BY DEF CalmInv
<1>4. InPeace(proc[sh])'
  <2>1. InPeace(proc[sh])
    BY DEF CalmInv
  <2> QED BY <2>1 DEF InPeace, Pausing, Resuming, Rests, ReposOf
<1> QED BY <1>1, <1>2, <1>3, <1>4 DEF CalmInv

LEMMA CalmNext ==
    ASSUME NEW sh, Shells = {sh}, ListInv, CalmInv(sh), [Next]_vars
    PROVE  CalmInv(sh)'
<1> SUFFICES ASSUME calm' PROVE CalmInv(sh)'
  BY DEF CalmInv
<1>1. ASSUME ~calm PROVE FALSE
  BY <1>1 DEF ListInv, TypeOK, Next, vars, RouterNext, StartNext, Step, LoadSucceeds,
        LoadFails, Pause, Resume, UpOrDown, BeatStartsJob, OtherBeat, JanitorEvicts,
        SaveList, StopLoop, Deregistered, Warm, PostLoad, SeesLoaded, SeesFailed, EvictOwn,
        ResumeOver, PostUnload, SeesUnloaded, Release, GivesUp, CallFails
<1>2. ASSUME NEW m \in Models, LoadSucceeds(m) PROVE CalmInv(sh)'
  <2>1. Listed' = Listed /\ m \in Listed
    BY <1>2 DEF LoadSucceeds, Listed, ListInv, TypeOK
  <2>2. cached' \subseteq cached \union ReposOf(Listed)
    BY <1>2, <2>1 DEF LoadSucceeds, ReposOf
  <2> QED BY <1>1, <1>2, <2>1, <2>2, AsideCalm DEF LoadSucceeds, fileVars
<1>3. ASSUME NEW s \in Shells, Pause(s) \/ Resume(s) PROVE CalmInv(sh)'
  BY <1>1, <1>3, StartCalm
<1>4. ASSUME NEW n \in Batches, OtherBeat(n) PROVE CalmInv(sh)'
  BY <1>1, <1>4, AsideCalm DEF OtherBeat, routerVars, Listed
<1>5. ASSUME NEW r \in Repos, JanitorEvicts(r) PROVE CalmInv(sh)'
  BY <1>1, <1>5, AsideCalm DEF JanitorEvicts, Evict, routerVars, Listed
<1>6. ASSUME NEW p \in Procs, Step(p) PROVE CalmInv(sh)'
  <2>1. p = sh
    BY <1>1, <1>6, OnlyTheShell DEF Step, SaveList, StopLoop, Deregistered, Warm, PostLoad,
          SeesLoaded, SeesFailed, EvictOwn, ResumeOver, PostUnload, SeesUnloaded, Release, At
  <2>2. ~SeesFailed(sh)
    <3>1. SeesFailed(sh) => Current(sh) \in Models
      BY <2>1, CurrentModel DEF SeesFailed, At, ListInv
    <3> QED BY <1>1, <3>1 DEF SeesFailed, CalmInv
  <2> QED BY <1>1, <1>6, <2>1, <2>2, ResumeCalm, PauseCalm DEF Step
<1>7. CASE UNCHANGED vars
  BY <1>1, <1>7, AsideCalm DEF vars, routerVars, fileVars, Listed
<1> QED BY <1>2, <1>3, <1>4, <1>5, <1>6, <1>7
        DEF Next, RouterNext, StartNext, LoadFails, UpOrDown, BeatStartsJob, GivesUp,
            CallFails

\* As long as nothing but pause and resume is done and nothing fails, every model
\* that pause has taken down is on the list (cmd_pause, bin/llm:476-485).
THEOREM NothingForgotten ==
    ASSUME NEW sh, Shells = {sh}
    PROVE  Spec => []PauseForgetsNothing
<1>1. ListInv /\ CalmInv(sh) /\ [Next]_vars => ListInv' /\ CalmInv(sh)'
  BY ListInvNext, CalmNext
<1>2. Init => ListInv /\ CalmInv(sh)
  BY ListInvInit, CalmInit
<1>3. CalmInv(sh) => PauseForgetsNothing
  BY DEF CalmInv, PauseForgetsNothing
<1> QED BY <1>1, <1>2, <1>3, PTL DEF Spec

\* When such a pause is over, nothing is loaded and no page of weights is cached,
\* however many copies share a repo (cmd_down, bin/llm:460-473).
THEOREM NothingLeft ==
    ASSUME NEW sh, Shells = {sh}
    PROVE  Spec => []PauseLeavesNothing
<1>1. ListInv /\ CalmInv(sh) /\ [Next]_vars => ListInv' /\ CalmInv(sh)'
  BY ListInvNext, CalmNext
<1>2. Init => ListInv /\ CalmInv(sh)
  BY ListInvInit, CalmInit
<1>3. ListInv /\ CalmInv(sh) => PauseLeavesNothing
  <2> SUFFICES ASSUME ListInv, CalmInv(sh), Paused
               PROVE  (\A m \in Models : child[m] = "unloaded") /\ cached = {}
    BY DEF PauseLeavesNothing
  <2>1. Rests /\ ~beating
    BY DEF Paused, CalmInv, InPeace, Idle
  <2> QED BY <2>1 DEF Rests, Listed, ListInv, TypeOK
<1> QED BY <1>1, <1>2, <1>3, PTL DEF Spec

=============================================================================
