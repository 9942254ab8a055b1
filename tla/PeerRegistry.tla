---------------------------- MODULE PeerRegistry ----------------------------
(***************************************************************************)
(* Who is in the gateway's table of peers, and what the gateway believes   *)
(* of them: the heartbeat loop of bin/llm, the register and deregister     *)
(* handlers, the poller and the polls it gathers, and a failing request,   *)
(* all of which read and write the same records between two awaits.        *)
(*                                                                         *)
(* A poll is cut where the code suspends: it captures its record, asks,    *)
(* the router answers at some later moment, the answer is stored, and the  *)
(* /metrics and /slots requests of a loaded model delay `ok`.  Polls of    *)
(* one URL started by the poller and by a register handler overlap.        *)
(*                                                                         *)
(* Time is discrete.  A timer that has run out blocks Tick until its owner *)
(* has moved, so POLL, PollMax, HB and CurlMax are exact upper bounds.     *)
(***************************************************************************)
EXTENDS Naturals, FiniteSets

CONSTANTS
    Urls,           \* the base URLs machines register under
    Answers,        \* what a router can answer to GET /models
    LoadedAnswers,  \* the answers with a loaded model: polls go on to ask detail
    Unparsed,       \* those with a number in the detail that is none (--parallel x)
    Garbled,        \* answers of another shape, which raise what poll does not catch
    Unpolled,       \* the `models` of a record no answer was read for: {}
    Down,           \* a router that does not answer
    Handlers,       \* register handlers that can be polling at one time
    OnceUrls,       \* machines where `llm local` is typed too: it registers once, with
                    \* the gateway of this host, which may already have peers
    BadUrls,        \* URLs httpx cannot parse (a mistyped LLM_PEER_URL)
    LossyUrls,      \* machines whose network loses requests at first
    TTL,            \* a record not refreshed for longer is swept
    POLL,           \* the poller's sleep between two rounds
    PollMax,        \* the longest one poll takes
    HB,             \* the sleep of the heartbeat loop
    CurlMax         \* the longest one heartbeat request takes (curl --max-time)

ASSUME UnpolledAssumption == Unpolled \notin Answers
ASSUME DownAssumption == Down \notin Answers
ASSUME LoadedAssumption ==
    Unparsed \subseteq LoadedAnswers /\ LoadedAnswers \subseteq Answers
ASSUME LossyAssumption == LossyUrls \subseteq Urls
ASSUME TimesAssumption ==
    /\ TTL \in Nat /\ POLL \in Nat \ {0} /\ PollMax \in Nat \ {0}
    /\ HB \in Nat \ {0} /\ CurlMax \in Nat \ {0}

VARIABLES
    peers,      \* the URLs in the dict
    ok,         \* p["ok"]
    models,     \* p["models"]
    age,        \* now - p["seen"], up to MaxAge
    poller,     \* "sleep", "gather", or "dead": an exception ended the task
    nap,        \* what is left of the poller's sleep
    task,       \* the polls in progress: of the poller's round, of a handler
    beat,       \* the heartbeat loop of each machine
    net,        \* the requests of a machine on their way to the gateway
    serving,    \* what the router of a machine answers now
    downFor,    \* how long the router has not answered, up to MaxDown
    lossy       \* machines whose network loses requests

gatewayVars == <<peers, ok, models, age, poller, nap, task>>
machineVars == <<beat, net, serving, downFor>>
vars == <<gatewayVars, machineVars, lossy>>

-----------------------------------------------------------------------------
(* The table as its readers see it. *)
Table == INSTANCE PeerTable

MaxAge == TTL + POLL + PollMax + 1
MaxDown == POLL + 3 * PollMax + 1

\* A poll is started by the poller's gather or by one register handler.
Gather == "gather"
Starters == {Gather} \union Handlers

ASSUME StartersAssumption == Gather \notin Handlers

TaskStates == {"idle", "new", "asked", "answered", "detail"}
BeatStates == {"off", "sleep", "wait", "once"}
Messages == {"register", "deregister"}

\* held: the record the poll captured is still the one in the table.
Tasks == [st : TaskStates, held : BOOLEAN,
          ans : Answers \union {Unpolled}, left : 0 .. PollMax]
Idle == [st |-> "idle", held |-> FALSE, ans |-> Unpolled, left |-> 0]
Created == [Idle EXCEPT !.st = "new"]
Asked == [st |-> "asked", held |-> TRUE, ans |-> Unpolled, left |-> PollMax]

TypeOK ==
    /\ peers \subseteq Urls
    /\ ok \in [Urls -> BOOLEAN]
    /\ models \in [Urls -> Answers \union {Unpolled}]
    /\ age \in [Urls -> 0 .. MaxAge]
    /\ poller \in {"sleep", "gather", "dead"}
    /\ nap \in 0 .. POLL
    /\ task \in [Starters -> [Urls -> Tasks]]
    /\ beat \in [Urls -> [st : BeatStates, left : 0 .. HB + CurlMax]]
    /\ net \in [Urls -> SUBSET Messages]
    /\ serving \in [Urls -> Answers \union {Down}]
    /\ downFor \in [Urls -> 0 .. MaxDown]
    /\ lossy \subseteq Urls

Init ==
    /\ peers = {}
    /\ ok = [u \in Urls |-> FALSE]
    /\ models = [u \in Urls |-> Unpolled]
    /\ age = [u \in Urls |-> 0]
    /\ poller = "sleep"
    /\ nap = 0
    /\ task = [s \in Starters |-> [u \in Urls |-> Idle]]
    /\ beat = [u \in Urls |-> [st |-> "off", left |-> 0]]
    /\ net = [u \in Urls |-> {}]
    /\ serving = [u \in Urls |-> Down]
    /\ downFor = [u \in Urls |-> MaxDown]
    /\ lossy = LossyUrls

\* A request to the machine can fail: no router, or a network that loses it.
Unreachable(u) == serving[u] = Down \/ u \in lossy

-----------------------------------------------------------------------------
(* Machines *)

\* A router starts, stops, crashes, or loads and unloads models.
RouterChanges(u, a) ==
    /\ a # serving[u]
    /\ serving' = [serving EXCEPT ![u] = a]
    /\ downFor' = [downFor EXCEPT ![u] = 0]
    /\ UNCHANGED <<gatewayVars, beat, net, lossy>>

\* cmd_serve and cmd_resume end with `heartbeat start`, which starts a loop where
\* none runs; the first beat is at once.
Join(u) ==
    /\ beat[u].st \in {"off", "once"}
    /\ serving[u] # Down
    /\ beat' = [beat EXCEPT ![u] = [st |-> "sleep", left |-> 0]]
    /\ UNCHANGED <<gatewayVars, net, serving, downFor, lossy>>

\* cmd_local posts one registration and starts no loop.
RegisterOnce(u) ==
    /\ u \in OnceUrls
    /\ beat[u].st = "off"
    /\ serving[u] # Down
    /\ beat' = [beat EXCEPT ![u] = [st |-> "once", left |-> 0]]
    /\ net' = [net EXCEPT ![u] = @ \union {"register"}]
    /\ UNCHANGED <<gatewayVars, serving, downFor, lossy>>

\* _beat posts a registration.
Beat(u) ==
    /\ beat[u].st = "sleep"
    /\ beat[u].left = 0
    /\ beat' = [beat EXCEPT ![u] = [st |-> "wait", left |-> CurlMax]]
    /\ net' = [net EXCEPT ![u] = @ \union {"register"}]
    /\ UNCHANGED <<gatewayVars, serving, downFor, lossy>>

\* curl returns, with a response or at its time limit, and the loop sleeps.  A
\* network that loses nothing has carried the request by then.
BeatOver(u) ==
    /\ beat[u].st = "wait"
    /\ "register" \in net[u] => u \in lossy
    /\ beat' = [beat EXCEPT ![u] = [st |-> "sleep", left |-> HB]]
    /\ UNCHANGED <<gatewayVars, net, serving, downFor, lossy>>

\* `heartbeat stop` (llm stop, pause, leave): the loop is killed, then the
\* machine deregisters; a request of the killed loop may still be on its way.
Leave(u) ==
    /\ beat[u].st \in {"sleep", "wait"}
    /\ beat' = [beat EXCEPT ![u] = [st |-> "off", left |-> 0]]
    /\ net' = [net EXCEPT ![u] = @ \union {"deregister"}]
    /\ UNCHANGED <<gatewayVars, serving, downFor, lossy>>

\* The job ends or the node is lost: no loop, no router, no deregistration.
Crash(u) ==
    /\ beat[u].st # "off"
    /\ beat' = [beat EXCEPT ![u] = [st |-> "off", left |-> 0]]
    /\ serving' = [serving EXCEPT ![u] = Down]
    /\ downFor' = [downFor EXCEPT ![u] = IF serving[u] = Down THEN @ ELSE 0]
    /\ UNCHANGED <<gatewayVars, net, lossy>>

LoseRequest(u) ==
    /\ u \in lossy
    /\ \E m \in net[u] : net' = [net EXCEPT ![u] = @ \ {m}]
    /\ UNCHANGED <<gatewayVars, beat, serving, downFor, lossy>>

\* The network loses nothing from now on.
NetworkHeals(u) ==
    /\ u \in lossy
    /\ lossy' = lossy \ {u}
    /\ UNCHANGED <<gatewayVars, machineVars>>

-----------------------------------------------------------------------------
(* The gateway *)

\* A poll goes on with the record it captured, which nobody reads any more;
\* looked up again by its URL, it would be whatever the table holds by then.
LookedUpAgain(t) == t
Orphaned(t) == [t EXCEPT !.held = FALSE]

\* Entries leave the dict.
Forget(gone, polls) ==
    /\ peers' = peers \ gone
    /\ ok' = [u \in Urls |-> u \notin gone /\ ok[u]]
    /\ models' = [u \in Urls |-> IF u \in gone THEN Unpolled ELSE models[u]]
    /\ age' = [u \in Urls |-> IF u \in gone THEN 0 ELSE age[u]]
    /\ task' = [s \in Starters |-> [u \in Urls |->
                  IF u \in gone THEN Orphaned(polls[s][u]) ELSE polls[s][u]]]

\* A heartbeat refreshes `seen`, that of a machine the table holds as well.
RefreshNew(u) == age' = [age EXCEPT ![u] = IF u \in peers THEN @ ELSE 0]
Refresh(u) == age' = [age EXCEPT ![u] = 0]

RegisterKnown(u) ==
    /\ "register" \in net[u]
    /\ u \in peers
    /\ Refresh(u)
    /\ net' = [net EXCEPT ![u] = @ \ {"register"}]
    /\ UNCHANGED <<peers, ok, models, poller, nap, task,
                   beat, serving, downFor, lossy>>

\* A new machine is entered, then the handler polls it before it answers; an
\* URL httpx refuses ends the handler with the entry in place.
RegisterNew(u, h) ==
    /\ "register" \in net[u]
    /\ u \notin peers
    /\ task[h][u] = Idle
    /\ peers' = peers \union {u}
    /\ Refresh(u)
    /\ task' = [task EXCEPT ![h][u] = IF u \in BadUrls THEN Idle ELSE Asked]
    /\ net' = [net EXCEPT ![u] = @ \ {"register"}]
    /\ UNCHANGED <<ok, models, poller, nap, beat, serving, downFor, lossy>>

Deregister(u) ==
    /\ "deregister" \in net[u]
    /\ Forget({u} \intersect peers, task)
    /\ net' = [net EXCEPT ![u] = @ \ {"deregister"}]
    /\ UNCHANGED <<poller, nap, beat, serving, downFor, lossy>>

\* The poller drops the records not refreshed for longer than TTL.
StaleLate(u) == age[u] > TTL + 1
StaleIfFailing(u) == age[u] > TTL /\ ~ok[u]
Stale(u) == age[u] > TTL

\* All that is left is polled, whatever the last poll said.
InRoundIfRouted(u, gone) == u \in peers \ gone /\ (ok[u] \/ models[u] = Unpolled)
InRound(u, gone) == u \in peers \ gone

\* The poller wakes, sweeps, and creates the polls of a round.
Wake ==
    /\ poller = "sleep"
    /\ nap = 0
    /\ LET gone == {u \in peers : Stale(u)}
       IN  Forget(gone, [task EXCEPT ![Gather] =
             [u \in Urls |-> IF InRound(u, gone) THEN Created ELSE Idle]])
    /\ poller' = "gather"
    /\ UNCHANGED <<nap, machineVars, lossy>>

\* A created poll runs up to its first request.  httpx.InvalidURL is neither an
\* HTTPError nor a ValueError: it leaves poll, and gather passes it on.
StartPoll(u) ==
    /\ task[Gather][u].st = "new"
    /\ IF u \in BadUrls /\ u \in peers
       THEN /\ poller' = "dead"
            /\ task' = [task EXCEPT ![Gather][u] = Idle]
       ELSE /\ task' = [task EXCEPT ![Gather][u] =
                          IF u \in peers THEN Asked ELSE Idle]
            /\ UNCHANGED poller
    /\ UNCHANGED <<peers, ok, models, age, nap, machineVars, lossy>>

\* An error status is not taken for an answer (raise_for_status).
AnythingIsAnAnswer(u) == TRUE
HasAnswer(u) == serving[u] # Down

\* The router at u answers with what it serves at this moment.
RouterAnswers(s, u) ==
    /\ task[s][u].st = "asked"
    /\ HasAnswer(u)
    /\ task' = [task EXCEPT ![s][u].st = "answered", ![s][u].ans = serving[u]]
    /\ UNCHANGED <<peers, ok, models, age, poller, nap, machineVars, lossy>>

\* The answer is stored in the captured record.  With no model loaded nothing
\* is awaited before `ok`.  A TypeError, KeyError or AttributeError, before or
\* after `models` is set, leaves poll like httpx.InvalidURL.
ReadAnswer(s, u) ==
    LET t == task[s][u]
        raises == t.ans \in Garbled
        more == t.ans \in LoadedAnswers
        stored == IF t.held THEN [models EXCEPT ![u] = t.ans] ELSE models
    IN  /\ t.st = "answered"
        /\ models' \in {stored} \union (IF raises THEN {models} ELSE {})
        /\ ok' = [ok EXCEPT ![u] = (t.held /\ ~raises /\ ~more) \/ @]
        /\ task' = [task EXCEPT ![s][u] = IF more /\ ~raises
                                          THEN [t EXCEPT !.st = "detail"] ELSE Idle]
        /\ poller' = IF raises /\ s = Gather THEN "dead" ELSE poller
        /\ UNCHANGED <<peers, age, nap, machineVars, lossy>>

\* `ok` after the details: set, whether or not they got through.
NotHealed(held, was) == was
Healed(held, was) == held \/ was

DetailOver(s, u) ==
    /\ task[s][u].st = "detail"
    /\ task[s][u].ans \notin Unparsed
    /\ ok' = [ok EXCEPT ![u] = Healed(task[s][u].held, @)]
    /\ task' = [task EXCEPT ![s][u] = Idle]
    /\ UNCHANGED <<peers, models, age, poller, nap, machineVars, lossy>>

\* `ok` after a poll that did not get through.
NotCleared(held, was) == was
Cleared(held, was) == ~held /\ was

\* No connection, a timeout, an error status or a body that is not JSON.
PollFails(s, u) ==
    /\ task[s][u].st \in {"asked", "answered"}
    /\ Unreachable(u)
    /\ ok' = [ok EXCEPT ![u] = Cleared(task[s][u].held, @)]
    /\ task' = [task EXCEPT ![s][u] = Idle]
    /\ UNCHANGED <<peers, models, age, poller, nap, machineVars, lossy>>

\* int() raises ValueError after the answer was stored.
DetailFails(s, u) ==
    /\ task[s][u].st = "detail"
    /\ task[s][u].ans \in Unparsed
    /\ ok' = [ok EXCEPT ![u] = Cleared(task[s][u].held, @)]
    /\ task' = [task EXCEPT ![s][u] = Idle]
    /\ UNCHANGED <<peers, models, age, poller, nap, machineVars, lossy>>

GatherOver ==
    /\ poller = "gather"
    /\ \A u \in Urls : task[Gather][u] = Idle
    /\ poller' = "sleep"
    /\ nap' = POLL
    /\ UNCHANGED <<peers, ok, models, age, task, machineVars, lossy>>

\* A request the gateway was forwarding does not reach its router.
ForwardFails(u) ==
    /\ u \in peers
    /\ ok[u]
    /\ Unreachable(u)
    /\ ok' = [ok EXCEPT ![u] = FALSE]
    /\ UNCHANGED <<peers, models, age, poller, nap, task, machineVars, lossy>>

\* `llm gateway down`, `up`: a new process with an empty table; what was
\* connected to the old one is gone.
GatewayRestarts ==
    /\ peers' = {}
    /\ ok' = [u \in Urls |-> FALSE]
    /\ models' = [u \in Urls |-> Unpolled]
    /\ age' = [u \in Urls |-> 0]
    /\ poller' = "sleep"
    /\ nap' = 0
    /\ task' = [s \in Starters |-> [u \in Urls |-> Idle]]
    /\ net' = [u \in Urls |-> {}]
    /\ UNCHANGED <<beat, serving, downFor, lossy>>

-----------------------------------------------------------------------------
(* Time *)
Min2(a, b) == IF a <= b THEN a ELSE b
Less(n) == IF n = 0 THEN 0 ELSE n - 1

\* Nothing whose time has come is waiting for time to pass.
NothingDue ==
    /\ poller = "sleep" => nap > 0
    /\ poller = "gather" => \E u \in Urls : task[Gather][u].st # "idle"
    /\ \A s \in Starters, u \in Urls :
         task[s][u].st # "idle" => task[s][u].st # "new" /\ task[s][u].left > 0
    /\ \A u \in Urls : beat[u].st \in {"sleep", "wait"} => beat[u].left > 0

Tick ==
    /\ NothingDue
    /\ nap' = Less(nap)
    /\ age' = [u \in Urls |-> IF u \in peers THEN Min2(age[u] + 1, MaxAge) ELSE 0]
    /\ task' = [s \in Starters |-> [u \in Urls |->
                  [task[s][u] EXCEPT !.left = Less(@)]]]
    /\ beat' = [u \in Urls |-> [beat[u] EXCEPT !.left = Less(@)]]
    /\ downFor' = [u \in Urls |-> IF serving[u] = Down
                                  THEN Min2(downFor[u] + 1, MaxDown) ELSE 0]
    /\ UNCHANGED <<peers, ok, models, poller, net, serving, lossy>>

-----------------------------------------------------------------------------
MachineNext ==
    \E u \in Urls :
        \/ \E a \in Answers \union {Down} : RouterChanges(u, a)
        \/ Join(u) \/ RegisterOnce(u) \/ Beat(u) \/ BeatOver(u)
        \/ Leave(u) \/ Crash(u)
        \/ LoseRequest(u) \/ NetworkHeals(u)

PollStep(s, u) ==
    \/ RouterAnswers(s, u) \/ ReadAnswer(s, u) \/ PollFails(s, u)
    \/ DetailOver(s, u) \/ DetailFails(s, u)

PollNext == \E s \in Starters, u \in Urls : PollStep(s, u)

GatewayNext ==
    \/ \E u \in Urls : \/ RegisterKnown(u) \/ Deregister(u)
                       \/ StartPoll(u) \/ ForwardFails(u)
    \/ \E u \in Urls, h \in Handlers : RegisterNew(u, h)
    \/ Wake \/ GatherOver \/ GatewayRestarts

Next == MachineNext \/ PollNext \/ GatewayNext \/ Tick

Spec == Init /\ [][Next]_vars

\* The event loop runs every ready coroutine, requests arrive, timers end and
\* heartbeat loops go on; time passes even if users and routers act again and
\* again (SF).  No user, router or network owes anybody a step, and the gateway
\* is not restarted for ever.
Fairness ==
    /\ SF_vars(Tick) /\ WF_vars(Wake) /\ WF_vars(GatherOver)
    /\ \A u \in Urls :
         /\ WF_vars(StartPoll(u))
         /\ WF_vars(Beat(u)) /\ WF_vars(BeatOver(u))
         /\ WF_vars(RegisterKnown(u)) /\ WF_vars(Deregister(u))
         /\ WF_vars(\E h \in Handlers : RegisterNew(u, h))
         /\ \A s \in Starters : WF_vars(PollStep(s, u))
    /\ <>[][~GatewayRestarts]_vars

FairSpec == Spec /\ Fairness

-----------------------------------------------------------------------------
(* Properties *)

\* A machine whose heartbeats stop stays in the table (and on the Models and
\* Hardware pages) for TTL, one poller sleep and one poll at most, although one
\* slow poll delays the sweep of all machines: the poller sweeps first, then
\* waits for every poll of the round.
BoundedStaleness == \A u \in peers : age[u] <= TTL + POLL + PollMax

\* No request is sent to a router that has been silent for one poller sleep and
\* three polls.  It takes all of them: a register handler's poll that was
\* answered before the router went silent can set `ok` again just after the
\* poller's poll has cleared it, the round then waits for another machine, the
\* poller sleeps, and the next poll runs into its timeouts.
SilentRouterUnrouted == \A u \in Urls : downFor[u] = MaxDown => ~ok[u]

\* A peer requests are sent to is in the table and has answered since it
\* entered it, whichever polls of earlier records are still running.
RoutableWasHeard ==
    \A u \in Urls : ok[u] => u \in peers /\ models[u] # Unpolled

\* Every entry, route flag and answer changes only as PeerTable says.
RefinesTable == Table!TableSpec

\* Once the network is sound, a machine that keeps beating stays in the table
\* from some time on, whether or not its router answers and however its beats
\* fall between the sweeps: the TTL is long enough for one loop turn.
BeatingMachineKept ==
    \A u \in Urls :
        <>[](u \notin lossy /\ beat[u].st \in {"sleep", "wait"}) => <>[](u \in peers)

\* bin/llm:606, "this machine's router is its only peer": after `llm local` the
\* machine stays known to its gateway as long as its router runs.
LocalMachineKept ==
    [][\A u \in OnceUrls :
         (Wake /\ u \in peers /\ beat[u].st = "once" /\ serving[u] # Down)
           => u \in peers']_vars

\* README.md:100: a machine that has stopped heartbeating for good drops out of
\* the table, whatever the poller was waiting for.
DeadMachineDropped ==
    \A u \in Urls : <>[](beat[u].st = "off") => <>[](u \notin peers)

\* Once the network is sound, a machine keeps beating and its router keeps
\* serving the same models, the gateway ends up routing to exactly those,
\* whatever polls, failures, losses and restarts came before.  With a model
\* whose detail it cannot read it never does: the next poll clears `ok` again.
GatewayConverges ==
    \A u \in Urls, a \in Answers \ (Unparsed \union Garbled) :
        <>[](u \notin lossy /\ beat[u].st \in {"sleep", "wait"} /\ serving[u] = a)
          => <>[](u \in peers /\ ok[u] /\ models[u] = a)

\* gateway/llm_gateway.py:4, "Every POLL s the gateway reads each peer's
\* /models": a machine that stays in the table is polled again and again, as
\* long as nothing that ends the poller is in use (BadUrls, Garbled).
PolledForever ==
    \A u \in Urls \ BadUrls :
        []<>(u \notin peers \/ task[Gather][u].st \in {"asked", "answered", "detail"})

=============================================================================
