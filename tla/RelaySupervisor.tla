--------------------------- MODULE RelaySupervisor ---------------------------
(***************************************************************************)
(* The two relays in front of a daemon that moves between leases, and the  *)
(* loop of scripts/agor-relay.sh that makes them follow it: one relay on   *)
(* the login node (scripts/tcp-relay.mjs), one on the node of the lease,   *)
(* which is a step of the lease behind a client, srun, on the login node.  *)
(* The loop knows both by a PID on the login node.                         *)
(***************************************************************************)
EXTENDS Naturals, Functions

CONSTANTS
    Targets,    \* what discover can print: job, node and port of a lease
    Node,       \* the node of each
    Pids,       \* process numbers; one is not used again while the loop holds it
    MaxDeaths,  \* how many relays die for no reason of ours
    None

Roles == {"node", "login"}

ASSUME TargetsAssumption == DOMAIN Node = Targets /\ None \notin Targets
ASSUME PidsAssumption == Pids \subseteq Nat /\ None \notin Pids
ASSUME DeathsAssumption == MaxDeaths \in Nat

VARIABLES
    lease,      \* the lease with a receipt of its own, if there is one
    proc,       \* the relays; a step whose client is gone is not `seen`
    pid,        \* node_pid and login_pid
    forked,     \* $!, until it is noted
    current, want,
    pc, then,   \* where the loop is, and where stop_relays returns to
    deaths

loopVars == <<pid, forked, current, want, pc, then>>
supervisorVars == <<lease, proc, loopVars, deaths>>

Relays == [role : Roles, to : Targets, st : {"starting", "listening", "closing"},
           seen : BOOLEAN, stray : BOOLEAN]
Forking == {"node pid", "login pid"}

RelaysTypeOK ==
    /\ lease \in Targets \union {None}
    /\ proc \in [Pids -> Relays \union {None}]
    /\ pid \in [Roles -> Pids \union {None}]
    /\ forked \in Pids \union {None}
    /\ current \in Targets \union {None}
    /\ want \in Targets \union {None}
    /\ pc \in {"look", "kill", "await node", "await login", "node", "login",
               "sleep", "exit"} \union Forking
    /\ then \in {"node", "sleep", "exit"}
    /\ pc \in {"node", "node pid", "exit"} => pid = [r \in Roles |-> None]
    /\ deaths \in 0 .. MaxDeaths

RelaysInit ==
    /\ lease \in Targets \union {None}
    /\ proc = [p \in Pids |-> None]
    /\ pid = [r \in Roles |-> None]
    /\ forked = None /\ current = None /\ want = None
    /\ pc = "look" /\ then = "sleep"
    /\ deaths = 0

Alive(p) == p # None /\ proc[p] # None
\* kill -0
Seen(p) == Alive(p) /\ proc[p].seen
Listening(p) == Alive(p) /\ proc[p].st = "listening"
Free(p) == proc[p] = None /\ p \notin Range(pid)

-----------------------------------------------------------------------------
(* Leases and relays *)

LeaseMoves(t) ==
    /\ lease' = t
    /\ UNCHANGED <<proc, loopVars, deaths>>

Place(relay) == IF relay.role = "login" THEN "login node" ELSE Node[relay.to]

PortTaken(p) ==
    \E q \in Pids : Listening(q) /\ Place(proc[q]) = Place(proc[p])

\* A relay that cannot listen exits, and so does the client of its step.
Listens(p) ==
    /\ Alive(p) /\ proc[p].st = "starting"
    /\ proc' = [proc EXCEPT ![p] =
                  IF PortTaken(p) THEN None ELSE [@ EXCEPT !.st = "listening"]]
    /\ UNCHANGED <<lease, loopVars, deaths>>

\* After SIGTERM a relay listens no more and exits with its last connection.
LastConnectionEnds(p) ==
    /\ Alive(p) /\ proc[p].st = "closing"
    /\ proc' = [proc EXCEPT ![p] = None]
    /\ UNCHANGED <<lease, loopVars, deaths>>

\* A relay dies; or the client of a step does.
RelayDies(p) ==
    /\ Seen(p)
    /\ deaths < MaxDeaths
    /\ deaths' = deaths + 1
    /\ \/ proc' = [proc EXCEPT ![p] = None]
       \/ /\ proc[p].role = "node"
          /\ proc' = [proc EXCEPT ![p].seen = FALSE]
    /\ UNCHANGED <<lease, loopVars>>

\* The end of a job is the end of its steps, and srun fails for one that is over.
JobOver(p) ==
    /\ Alive(p) /\ proc[p].role = "node" /\ proc[p].to # lease
    /\ proc' = [proc EXCEPT ![p] = None]
    /\ UNCHANGED <<lease, loopVars, deaths>>

\* Line 20: "the step only survives while an srun client is alive".
StepReaped(p) ==
    /\ Alive(p) /\ ~Seen(p)
    /\ proc' = [proc EXCEPT ![p] = None]
    /\ UNCHANGED <<lease, loopVars, deaths>>

-----------------------------------------------------------------------------
(* The loop *)

StopAndGo(to) == pc' = "kill" /\ then' = to

\* A dead relay is a changed world even when the lease did not move.
LoginRelayGone == ~Seen(pid["login"])
SomeRelayGone == \E r \in Roles : ~Seen(pid[r])

\* discover.  By the time the relays are up the lease may have moved on.
Look ==
    /\ pc = "look"
    /\ want' = lease
    /\ \/ lease = None /\ StopAndGo("sleep")
       \/ lease \notin {None, current} /\ StopAndGo("node")
       \/ /\ lease # None /\ lease = current
          /\ IF SomeRelayGone THEN StopAndGo("sleep")
             ELSE pc' = "sleep" /\ UNCHANGED then
    /\ UNCHANGED <<lease, proc, pid, forked, current, deaths>>

Sleep ==
    /\ pc = "sleep"
    /\ pc' = "look"
    /\ UNCHANGED <<lease, proc, pid, forked, current, want, then, deaths>>

\* stop_relays: SIGTERM to both; srun passes it on to its step.
Kill ==
    /\ pc = "kill"
    /\ proc' = [p \in Pids |-> IF p \in Range(pid) /\ Seen(p)
                               THEN [proc[p] EXCEPT !.st = "closing"] ELSE proc[p]]
    /\ pc' = "await node"
    /\ UNCHANGED <<lease, pid, forked, current, want, then, deaths>>

\* Up to ten seconds for each to end, then SIGKILL.  srun does not pass that on.
LeftAlone(p) == proc[p]
Killed(p) == IF proc[p].role = "node" THEN [proc[p] EXCEPT !.seen = FALSE] ELSE None

Await(r) ==
    /\ pc = (IF r = "node" THEN "await node" ELSE "await login")
    /\ proc' = IF Seen(pid[r]) THEN [proc EXCEPT ![pid[r]] = Killed(pid[r])] ELSE proc
    /\ UNCHANGED <<lease, forked, want, then, deaths>>

AwaitNode ==
    /\ Await("node")
    /\ pc' = "await login"
    /\ UNCHANGED <<pid, current>>

Forgotten == [r \in Roles |-> None]

AwaitLogin ==
    /\ Await("login")
    /\ pid' = Forgotten
    /\ pc' = then
    /\ current' = IF then = "sleep" THEN None ELSE current

\* srun ... &, and the relay of the login node: the fork, and the PID noted.
Fork(r) ==
    /\ pc = r
    /\ \E p \in Pids :
         /\ Free(p) /\ \A q \in Pids : Free(q) => p <= q
         /\ proc' = [proc EXCEPT ![p] = [role |-> r, to |-> want, st |-> "starting",
                                         seen |-> TRUE, stray |-> FALSE]]
         /\ forked' = p
    /\ pc' = (IF r = "node" THEN "node pid" ELSE "login pid")
    /\ UNCHANGED <<lease, pid, current, want, then, deaths>>

NoteNode ==
    /\ pc = "node pid"
    /\ pid' = [pid EXCEPT !["node"] = forked]
    /\ forked' = None
    /\ pc' = "login"
    /\ UNCHANGED <<lease, proc, current, want, then, deaths>>

NoteLogin ==
    /\ pc = "login pid"
    /\ pid' = [pid EXCEPT !["login"] = forked]
    /\ forked' = None
    /\ current' = want
    /\ pc' = "sleep"
    /\ UNCHANGED <<lease, proc, want, then, deaths>>

\* trap 'stop_relays; exit 0' TERM INT, taken between any two commands: what was
\* just forked and not yet noted is not stopped.
Trap ==
    /\ then # "exit"
    /\ StopAndGo("exit")
    /\ proc' = IF Alive(forked)
               THEN [proc EXCEPT ![forked].stray = TRUE] ELSE proc
    /\ forked' = None
    /\ UNCHANGED <<lease, pid, current, want, deaths>>

LoopNext ==
    \/ Look \/ Sleep \/ Kill \/ AwaitNode \/ AwaitLogin
    \/ \E r \in Roles : Fork(r)
    \/ NoteNode \/ NoteLogin

RelayNext ==
    \E p \in Pids :
        \/ Listens(p) \/ LastConnectionEnds(p) \/ RelayDies(p)
        \/ JobOver(p) \/ StepReaped(p)

RelaysNext ==
    \/ \E t \in Targets \union {None} : LeaseMoves(t)
    \/ RelayNext \/ LoopNext \/ Trap

\* The loop runs on (each of its waits has a limit), a relay that was started
\* listens or fails, and Slurm ends a step without a client.  No connection has to
\* end.
RelaysFairness ==
    /\ WF_supervisorVars(LoopNext)
    /\ \A p \in Pids : WF_supervisorVars(Listens(p)) /\ WF_supervisorVars(StepReaped(p))

RelaysSpec == RelaysInit /\ [][RelaysNext]_supervisorVars /\ RelaysFairness

-----------------------------------------------------------------------------
(* Properties *)

\* Line 93, "kill by the PIDs we started": the loop never loses a relay.  Whatever
\* dies, moves or interrupts it, a process it started is one whose PID it holds, or
\* the one fork it was interrupted at; none is left when it exits or starts others.
NoRelayForgotten ==
    \A p \in Pids :
        Seen(p) => proc[p].stray \/ p \in Range(pid) \/ p = forked

\* The daemon a connection to the login node gets to.
LeadsTo(t) ==
    \E p, q \in Pids :
        /\ Listening(p) /\ proc[p].role = "login"
        /\ Listening(q) /\ proc[q].role = "node" /\ proc[q].to = t
        /\ Node[proc[p].to] = Node[t]

\* Lines 14 to 18 and 135: once leases no longer move, connections get to the
\* daemon of the lease, and without a lease no relay listens, however relays died
\* in between and whatever step of an earlier lease still had the port.
RelaysFollowLease ==
    /\ \A t \in Targets :
         <>[](lease = t /\ pc # "exit") => <>[]LeadsTo(t)
    /\ <>[](lease = None /\ pc # "exit")
         => <>[](\A p \in Pids : ~Listening(p))

=============================================================================
