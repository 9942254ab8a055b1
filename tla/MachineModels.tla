---------------------------- MODULE MachineModels ----------------------------
(***************************************************************************)
(* What bin/llm does with the models of one machine: up, down, pause,      *)
(* resume and the cache janitor.  Each command is a shell of its own that  *)
(* talks to the router (external: llama-server) and polls it; commands of  *)
(* the Models page are started detached by the heartbeat loop and go on    *)
(* whatever happens to that loop.  They share the router, the file         *)
(* $RUN/paused and the page cache of the machine.                          *)
(***************************************************************************)
EXTENDS Naturals, Sequences, FiniteSets, SequencesExt

CONSTANTS
    Order,      \* the models of the preset, in the order the router lists them
    Repo,       \* hf-repo of a model; copies of a model share it
    Offloaded,  \* models with n-cpu-moe or cpu-moe: they read their pages for good
    Shells,     \* where the operator types commands, one at a time in each
    Jobs,       \* bound: commands of the Models page running at one time
    ShellCmds,  \* what the operator types
    Batches,    \* how many commands other than load and unload a beat may bring
    Faults      \* "load": a load can fail; "hang": an unload can;
                \* "timeout": waiting can take longer than the time limit;
                \* "api": a request to the router can fail

ASSUME OrderAssumption == Order \in Seq(ToSet(Order))
ASSUME FaultsAssumption == Faults \subseteq {"load", "hang", "timeout", "api"}
ASSUME ShellCmdsAssumption == ShellCmds \subseteq {"up", "down", "pause", "resume"}
ASSUME BatchesAssumption == 0 \in Batches /\ Batches \subseteq Nat
ASSUME ShellsAssumption == Shells \intersect Jobs = {}

VARIABLES
    child,      \* what the router says of a model
    failed,     \* its last load failed
    cached,     \* repos whose files are in the page cache
    paused,     \* $RUN/paused; empty: no such file
    beating,    \* the heartbeat loop runs
    janitor,    \* repos the janitor of the running beat has still to evict
    proc,       \* the commands running
    owed,       \* models taken down by a pause and neither loaded again nor
                \* taken down on purpose since
    calm        \* so far nothing was done but pause and resume, and nothing failed

routerVars == <<child, failed>>
fileVars == <<paused, beating, janitor>>
vars == <<routerVars, cached, fileVars, proc, owed, calm>>

Models == ToSet(Order)
Repos == {Repo[m] : m \in Models}
Procs == Shells \union Jobs

Idle == [cmd |-> "none", pc |-> "idle", todo |-> <<>>]

Commands == [cmd : {"none", "up", "down", "pause", "resume"},
             pc : {"idle", "warm", "post", "wait", "evict", "end",
                   "save", "stop", "leave", "unload", "gone", "release"},
             todo : Seq(Models)]

TypeOK ==
    /\ child \in [Models -> {"unloaded", "loading", "loaded"}]
    /\ failed \in [Models -> BOOLEAN]
    /\ cached \subseteq Repos /\ janitor \subseteq Repos
    /\ paused \in Seq(Models) /\ IsInjective(paused)
    /\ beating \in BOOLEAN
    /\ proc \in [Procs -> Commands]
    /\ \A p \in Procs : proc[p].todo = <<>> <=> proc[p].pc \in {"idle", "end"}
    /\ owed \subseteq Models
    /\ calm \in BOOLEAN

\* A machine in service: startup models loaded or loading, their files read in
\* advance by serve.
Init ==
    /\ child \in [Models -> {"unloaded", "loading", "loaded"}]
    /\ failed = [m \in Models |-> FALSE]
    /\ cached = {Repo[m] : m \in {n \in Models : child[n] # "unloaded"}}
    /\ paused = <<>>
    /\ beating = TRUE
    /\ janitor = {}
    /\ proc = [p \in Procs |-> Idle]
    /\ owed = {}
    /\ calm = TRUE

-----------------------------------------------------------------------------
(* The router and the kernel *)

LoadSucceeds(m) ==
    /\ child[m] = "loading"
    /\ child' = [child EXCEPT ![m] = "loaded"]
    /\ cached' = cached \union {Repo[m]}
    /\ owed' = owed \ {m}
    /\ UNCHANGED <<failed, fileVars, proc, calm>>

LoadFails(m) ==
    /\ "load" \in Faults
    /\ child[m] = "loading"
    /\ child' = [child EXCEPT ![m] = "unloaded"]
    /\ failed' = [failed EXCEPT ![m] = TRUE]
    /\ calm' = FALSE
    /\ UNCHANGED <<cached, fileVars, proc, owed>>

\* Someone maps the files: the kernel keeps their pages.
Mapped(r) ==
    \E m \in Models : Repo[m] = r /\ \/ child[m] = "loading"
                                     \/ child[m] = "loaded" /\ m \in Offloaded

\* weights_cache.py evict
Evict(r) == cached' = IF Mapped(r) THEN cached ELSE cached \ {r}

-----------------------------------------------------------------------------
(* Starting a command *)

\* The first step for a model of the list.
FirstStep(cmd) == IF cmd \in {"up", "resume"} THEN "warm" ELSE "unload"

Started(cmd, ms) ==
    IF ms = <<>> THEN Idle ELSE [cmd |-> cmd, pc |-> FirstStep(cmd), todo |-> ms]

Run(p, cmd, ms) ==
    /\ proc[p] = Idle
    /\ proc' = [proc EXCEPT ![p] = Started(cmd, ms)]

UpOrDown(s, cmd, m) ==
    /\ cmd \in ShellCmds
    /\ Run(s, cmd, <<m>>)
    /\ calm' = FALSE
    /\ UNCHANGED <<routerVars, cached, fileVars, owed>>

\* What `loaded` prints, in the router's order: it counts a model that is still
\* loading as well.
Listed == {m \in Models : child[m] \in {"loaded", "loading"}}

Place(m) == CHOOSE i \in DOMAIN Order : Order[i] = m
Prints(ms) ==
    /\ ToSet(ms) = Listed
    /\ \A i, j \in DOMAIN ms : i < j => Place(ms[i]) < Place(ms[j])

Lists == UNION {[1 .. n -> Models] : n \in 0 .. Len(Order)}

\* pause first asks what is loaded, and works from that list; it does nothing if
\* nothing is.
Pause(s) ==
    /\ "pause" \in ShellCmds
    /\ proc[s] = Idle
    /\ \E ms \in Lists :
          /\ Prints(ms)
          /\ ms # <<>>
          /\ proc' = [proc EXCEPT ![s] = [cmd |-> "pause", pc |-> "save", todo |-> ms]]
    /\ UNCHANGED <<routerVars, cached, fileVars, owed, calm>>

\* The list is read; it stays until every model on it is back.
DropsList(s) ==
    /\ "resume" \in ShellCmds
    /\ paused # <<>>
    /\ Run(s, "resume", paused)
    /\ paused' = <<>>
    /\ UNCHANGED <<routerVars, cached, beating, janitor, owed, calm>>

Resume(s) ==
    /\ "resume" \in ShellCmds
    /\ paused # <<>>
    /\ Run(s, "resume", paused)
    /\ UNCHANGED <<routerVars, cached, fileVars, owed, calm>>

\* The janitor keeps what is loading and what pages from the cache.  At most once
\* a minute: it may skip this beat.
ToEvict == {r \in Repos : ~Mapped(r)}

\* A beat with a load or unload starts it detached; then comes the janitor.
BeatStartsJob(j, cmd, m) ==
    /\ beating /\ janitor = {}
    /\ Run(j, cmd, <<m>>)
    /\ janitor' \in {{}, ToEvict}
    /\ calm' = FALSE
    /\ UNCHANGED <<routerVars, cached, paused, beating, owed>>

\* apply_commands ends with the status of `[[ "$n" -gt 0 ]]`, and under set -e a
\* beat without commands ends there: the janitor is not reached.
JanitorReached(n) == n > 0

\* A beat with n other commands.
OtherBeat(n) ==
    /\ beating /\ janitor = {}
    /\ janitor' = IF JanitorReached(n) THEN ToEvict ELSE {}
    /\ UNCHANGED <<routerVars, cached, paused, beating, proc, owed, calm>>

JanitorEvicts(r) ==
    /\ r \in janitor
    /\ janitor' = janitor \ {r}
    /\ Evict(r)
    /\ UNCHANGED <<routerVars, paused, beating, proc, owed, calm>>

-----------------------------------------------------------------------------
(* The steps of a command *)

At(p, pc) == proc[p].pc = pc
Current(p) == Head(proc[p].todo)
GoTo(p, pc) == proc' = [proc EXCEPT ![p].pc = pc]

\* die
Die(p) == proc' = [proc EXCEPT ![p] = Idle]

\* On with the next model; resume has still something to do at the end.
NextModel(p) ==
    LET rest == Tail(proc[p].todo)
        cmd == proc[p].cmd
    IN  proc' = [proc EXCEPT ![p] =
                   IF rest = <<>> /\ cmd = "resume"
                   THEN [cmd |-> cmd, pc |-> "end", todo |-> <<>>]
                   ELSE Started(cmd, rest)]

\* pause writes the list, kills the heartbeat loop, and with it the janitor, and
\* deregisters, which takes as long as curl does; then it takes the models down.
SaveList(p) ==
    /\ At(p, "save")
    /\ paused' = proc[p].todo
    /\ GoTo(p, "stop")
    /\ UNCHANGED <<routerVars, cached, beating, janitor, owed, calm>>

StopLoop(p) ==
    /\ At(p, "stop")
    /\ beating' = FALSE
    /\ janitor' = {}
    /\ GoTo(p, "leave")
    /\ UNCHANGED <<routerVars, cached, paused, owed, calm>>

Deregistered(p) ==
    /\ At(p, "leave")
    /\ GoTo(p, "unload")
    /\ UNCHANGED <<routerVars, cached, fileVars, owed, calm>>

Warm(p) ==
    /\ At(p, "warm")
    /\ cached' = cached \union {Repo[Current(p)]}
    /\ GoTo(p, "post")
    /\ UNCHANGED <<routerVars, fileVars, owed, calm>>

\* A request that fails: curl gets no connection or no answer in time, or jq no
\* JSON.  Under set -e and pipefail the command ends there.
CallFails(p) ==
    /\ "api" \in Faults
    /\ proc[p].pc \in {"post", "wait", "unload", "gone"}
    /\ Die(p)
    /\ calm' = FALSE
    /\ UNCHANGED <<routerVars, cached, fileVars, owed>>

\* The router has done what it was asked, whether or not its answer arrives.
Answered(p, pc) ==
    \/ GoTo(p, pc)
    \/ "api" \in Faults /\ Die(p)

\* The router refuses to load what is loaded; `up` goes on to wait all the same.
PostLoad(p) ==
    LET m == Current(p)
    IN  /\ At(p, "post")
        /\ IF child[m] = "unloaded"
           THEN /\ child' = [child EXCEPT ![m] = "loading"]
                /\ failed' = [failed EXCEPT ![m] = FALSE]
           ELSE UNCHANGED routerVars
        /\ Answered(p, "wait")
        /\ calm' = (calm /\ At(p, "wait")')
        /\ UNCHANGED <<cached, fileVars, owed>>

SeesLoaded(p) ==
    /\ At(p, "wait") /\ child[Current(p)] = "loaded"
    /\ GoTo(p, "evict")
    /\ UNCHANGED <<routerVars, cached, fileVars, owed, calm>>

GoesOn(p) == NextModel(p)
EndsHere(p) == Die(p)

\* A failed load ends the command: the models after it are not tried.
SeesFailed(p) ==
    /\ At(p, "wait") /\ child[Current(p)] = "unloaded" /\ failed[Current(p)]
    /\ EndsHere(p)
    /\ UNCHANGED <<routerVars, cached, fileVars, owed, calm>>

\* Fully offloaded to the GPU: the files are not read again.
EvictOwn(p) ==
    LET m == Current(p)
    IN  /\ At(p, "evict")
        /\ IF m \in Offloaded THEN UNCHANGED cached ELSE Evict(Repo[m])
        /\ NextModel(p)
        /\ UNCHANGED <<routerVars, fileVars, owed, calm>>

ResumeOver(p) ==
    /\ At(p, "end")
    /\ paused' = <<>>
    /\ beating' = TRUE
    /\ Die(p)
    /\ UNCHANGED <<routerVars, cached, janitor, owed, calm>>

PostUnload(p) ==
    LET m == Current(p)
    IN  /\ At(p, "unload")
        /\ \/ child' = [child EXCEPT ![m] = "unloaded"]
           \/ "hang" \in Faults /\ UNCHANGED child
        /\ owed' = IF proc[p].cmd # "pause" THEN owed \ {m}
                   ELSE IF child'[m] # child[m] THEN owed \union {m} ELSE owed
        /\ Answered(p, "gone")
        /\ calm' = (calm /\ child'[m] = "unloaded" /\ At(p, "gone")')
        /\ UNCHANGED <<failed, cached, fileVars>>

SeesUnloaded(p) ==
    /\ At(p, "gone") /\ child[Current(p)] = "unloaded"
    /\ GoTo(p, "release")
    /\ UNCHANGED <<routerVars, cached, fileVars, owed, calm>>

\* Any copy of the preset, loaded or not.
SparedForPreset(ms, r) == {Cardinality({m \in Models : Repo[m] = r}) > 1}

\* `! loaded | while ... | grep -q x` under pipefail: the status of the loop is
\* that of its last test, so only the last model listed spares the pages; and
\* grep, gone after its first line, can make a second echo fail.  A `loaded` that
\* fails spares nothing.
SparedForCopy(ms, r) ==
    LET copies == {m \in ToSet(ms) : Repo[m] = r}
    IN  IF copies = {} \/ Repo[Last(ms)] # r THEN {FALSE}
        ELSE IF Cardinality(copies) = 1 THEN {TRUE} ELSE BOOLEAN

Release(p) ==
    /\ At(p, "release")
    /\ \E ms \in Lists, spared \in BOOLEAN :
          /\ Prints(ms)
          /\ \/ spared \in SparedForCopy(ms, Repo[Current(p)]) /\ UNCHANGED calm
             \/ "api" \in Faults /\ ~spared /\ calm' = FALSE
          /\ IF spared THEN UNCHANGED cached ELSE Evict(Repo[Current(p)])
    /\ NextModel(p)
    /\ UNCHANGED <<routerVars, fileVars, owed>>

\* wait_status asks again until the model is as wanted, or time is up.
WhileLoading(p) == At(p, "wait") /\ child[Current(p)] = "loading"
NotAsWanted(p) ==
    \/ At(p, "wait") /\ child[Current(p)] # "loaded"
    \/ At(p, "gone") /\ child[Current(p)] # "unloaded"

GivesUp(p) ==
    /\ "timeout" \in Faults
    /\ NotAsWanted(p)
    /\ Die(p)
    /\ calm' = FALSE
    /\ UNCHANGED <<routerVars, cached, fileVars, owed>>

-----------------------------------------------------------------------------
Step(p) ==
    \/ SaveList(p) \/ StopLoop(p) \/ Deregistered(p)
    \/ Warm(p) \/ PostLoad(p) \/ SeesLoaded(p) \/ SeesFailed(p) \/ EvictOwn(p)
    \/ ResumeOver(p) \/ PostUnload(p) \/ SeesUnloaded(p) \/ Release(p)

RouterNext == \E m \in Models : LoadSucceeds(m) \/ LoadFails(m)

StartNext ==
    \/ \E s \in Shells : Pause(s) \/ Resume(s)
    \/ \E s \in Shells, cmd \in {"up", "down"}, m \in Models : UpOrDown(s, cmd, m)
    \/ \E j \in Jobs, cmd \in {"up", "down"}, m \in Models : BeatStartsJob(j, cmd, m)
    \/ \E n \in Batches : OtherBeat(n)

Next ==
    \/ RouterNext \/ StartNext
    \/ \E p \in Procs : Step(p) \/ GivesUp(p) \/ CallFails(p)
    \/ \E r \in Repos : JanitorEvicts(r)

Spec == Init /\ [][Next]_vars

\* Shells run on, and the router ends every load one way or the other.  A time
\* limit runs on while the status changes back and forth (SF).  Beats go on, with
\* or without commands.
Fairness ==
    /\ \A p \in Procs : WF_vars(Step(p)) /\ SF_vars(GivesUp(p))
    /\ \A r \in Repos : WF_vars(JanitorEvicts(r))
    /\ WF_vars(RouterNext)
    /\ WF_vars(OtherBeat(0))

FairSpec == Spec /\ Fairness

-----------------------------------------------------------------------------
(* Properties *)

\* The operator has paused, and so far done nothing but pause and resume.
Paused == calm /\ ~beating /\ \A s \in Shells : proc[s] = Idle

\* bin/llm:476, "remember what was loaded": as long as nothing else is done to the
\* models, one that pause has taken down stays on the list resume works from until
\* it is loaded again.
PauseForgetsNothing == calm => owed \subseteq ToSet(paused)

\* README.md:259, "unload everything", and README.md:277, "evicts its files from the
\* page cache, so the next model has room": once pause is through, and until resume,
\* nothing is loaded or loading, and no weights are left in the page cache, those
\* that copies share included.
PauseLeavesNothing ==
    Paused => (\A m \in Models : child[m] = "unloaded") /\ cached = {}

\* Whatever fails, and whatever the Models page started before, the list is only
\* dropped when every model on it has come back: a resume that fails half way
\* can be repeated.
ListKept ==
    [][(paused # <<>> /\ paused' = <<>>) => owed \intersect ToSet(paused) = {}]_vars

\* Every command ends, although another command may unload what it waits to see
\* loaded, or load what it waits to see gone.
EveryCommandEnds == \A p \in Procs : []<>(proc[p] = Idle)

\* README.md:275, "reads a large model's files in parallel first", "so the loader
\* finds them in RAM": what up has read is still cached when it asks for the load.
WarmSpared == \A p \in Procs : At(p, "post") => Repo[Current(p)] \in cached

=============================================================================
