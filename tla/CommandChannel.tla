--------------------------- MODULE CommandChannel ---------------------------
(***************************************************************************)
(* The pull channel from the Models page to a machine: commands queue at   *)
(* the gateway, ride back in the response to a heartbeat, are applied one  *)
(* by one by bin/llm, and their results ride out on the next heartbeat     *)
(* (pending_commands, peer_by_host and register of gateway/llm_gateway.py; *)
(* gw_post, apply_commands and heartbeat of bin/llm).                      *)
(*                                                                         *)
(* One machine is modelled.  It can be in the gateway's table under        *)
(* several URLs: its own, the one its quick tunnel had before it was       *)
(* restarted, and those of engine adapters (gateway/backend_adapter.py),   *)
(* which register under the same host name and ignore commands.  Commands  *)
(* are numbered in the order the Models page queued them.                  *)
(***************************************************************************)
EXTENDS Naturals, Sequences, FiniteSets, SequencesExt

CONSTANTS
    LoopUrls,       \* what peer_url can print on this machine
    AdapterUrls,    \* the URLs of its engine adapters
    Kinds,          \* the actions users ask for
    Faults,         \* what happens besides: see the actions that name one
    MaxResults,     \* 20: results taken from one heartbeat
    MaxCmds,        \* bound: commands queued in one behaviour
    MaxFaults,      \* bound: how often, in one behaviour; to return is none
    NoReply

ASSUME KindsAssumption == Kinds \subseteq {"load", "set_preset", "restart_router"}
ASSUME FaultsAssumption ==
    Faults \subseteq {"lose", "timeout", "leave", "gateway", "tunnel"}
ASSUME UrlsAssumption == LoopUrls \intersect AdapterUrls = {}
ASSUME BoundsAssumption == MaxResults \in Nat /\ MaxCmds \in Nat /\ MaxFaults \in Nat

VARIABLES
    table,      \* the URLs this host is registered under, in dict order
    pending,    \* pending_commands
    handling,   \* register handlers of new peers that are polling
    asking,     \* the records that handlers of the Models page's requests have found
    queued,     \* number of commands queued so far
    cmds,       \* each queued command: what it asks for, the record it is kept at
    log,        \* the results the gateway has printed, oldest first
    loop,       \* the heartbeat loop: "off", "sleep", "wait", "apply"
    url,        \* what peer_url prints now
    net,        \* heartbeats and deregistrations on their way
    reply,      \* the response to the heartbeat the loop waits for
    batch,      \* commands of that response not applied yet
    results,    \* results of the commands of this batch
    file,       \* cmd_results.json
    applied,    \* the commands applied, oldest first
    faults      \* how often so far

gatewayVars == <<table, pending, handling, log>>
userVars == <<asking, queued, cmds>>
machineVars == <<loop, url, batch, results, file, applied>>
vars == <<gatewayVars, userVars, machineVars, net, reply, faults>>

Urls == LoopUrls \union AdapterUrls
Cmds == 1 .. MaxCmds

\* live: the curl that sent the request is still waiting for its response.
Post(u, res) == [path |-> "register", url |-> u, results |-> res, live |-> TRUE]
Bye(u) == [path |-> "deregister", url |-> u, results |-> <<>>, live |-> FALSE]

Waiting == [url : Urls, live : BOOLEAN]
CmdSeqs == Seq(1 .. queued)

TypeOK ==
    /\ table \in Seq(Urls)
    /\ pending \in [Urls -> CmdSeqs]
    /\ handling \subseteq Waiting
    /\ asking \subseteq Urls
    /\ queued \in 0 .. MaxCmds
    /\ cmds \in Seq([action : Kinds, at : Urls]) /\ Len(cmds) = queued
    /\ log \in CmdSeqs
    /\ loop \in {"off", "sleep", "wait", "apply"}
    /\ url \in LoopUrls
    /\ net \subseteq [path : {"register", "deregister"}, url : Urls,
                      results : CmdSeqs, live : BOOLEAN]
    /\ reply \in CmdSeqs \union {NoReply}
    /\ batch \in CmdSeqs /\ results \in CmdSeqs /\ file \in CmdSeqs
    /\ applied \in CmdSeqs
    /\ faults \in 0 .. MaxFaults

Init ==
    /\ table = <<>>
    /\ pending = [u \in Urls |-> <<>>]
    /\ handling = {} /\ asking = {}
    /\ queued = 0
    /\ cmds = <<>>
    /\ log = <<>>
    /\ loop = "sleep"
    /\ url \in LoopUrls
    /\ net = {}
    /\ reply = NoReply
    /\ batch = <<>> /\ results = <<>> /\ file = <<>> /\ applied = <<>>
    /\ faults = 0

Fault(f) == f \in Faults /\ faults < MaxFaults /\ faults' = faults + 1

-----------------------------------------------------------------------------
(* The gateway *)

Listed(u) == u \in ToSet(table)
Unlisted(u) ==
    IF Listed(u) THEN RemoveAt(table, CHOOSE i \in DOMAIN table : table[i] = u)
    ELSE table

\* A new command waits behind the others.
QueueFirst(waiting, c) == <<c>> \o waiting
QueueLast(waiting, c) == Append(waiting, c)

\* peer_by_host: the first record of the host, in dict order.
FirstOfHost == Head(table)

\* A handler has found the record and waits for the body of its request.
Ask ==
    /\ table # <<>>
    /\ queued + Cardinality(asking) < MaxCmds
    /\ asking' = asking \union {FirstOfHost}
    /\ UNCHANGED <<queued, cmds, gatewayVars, machineVars, net, reply, faults>>

\* The command waits at the record found before, be it in the table still or not.
Queue(k, u) ==
    /\ k \in Kinds /\ queued < MaxCmds
    /\ asking' = asking \ {u}
    /\ queued' = queued + 1
    /\ cmds' = Append(cmds, [action |-> k, at |-> u])
    /\ pending' = [pending EXCEPT ![u] = QueueLast(@, queued + 1)]
    /\ UNCHANGED <<table, handling, log, machineVars, net, reply, faults>>

\* Load or unload.  The model must be in the preset of the record, and that of an
\* adapter has none: 404.
ModelAction(u) == u \in LoopUrls /\ Queue("load", u)

SetPreset(u) == Queue("set_preset", u)

RestartRouter(u) == Queue("restart_router", u)

\* Refused for what the body says, or the page has gone.
AskFails(u) ==
    /\ asking' = asking \ {u}
    /\ UNCHANGED <<queued, cmds, gatewayVars, machineVars, net, reply, faults>>

\* Everything queued for the URL goes into the response; nobody may be waiting
\* for that any more.
RespondAndKeep(u, live) ==
    /\ UNCHANGED pending
    /\ reply' = IF live THEN pending[u] ELSE reply

Respond(u, live) ==
    /\ pending' = [pending EXCEPT ![u] = <<>>]
    /\ reply' = IF live THEN pending[u] ELSE reply

\* Of the results of one heartbeat the first ones.
Logged(res) == IF Len(res) > MaxResults THEN SubSeq(res, 1, MaxResults) ELSE res

\* A heartbeat of a listed URL is answered without an await in between.
RegisterKnown(m) ==
    /\ m.path = "register" /\ Listed(m.url)
    /\ net' = net \ {m}
    /\ log' = log \o Logged(m.results)
    /\ Respond(m.url, m.live)
    /\ UNCHANGED <<table, handling, userVars, machineVars, faults>>

\* A new URL is entered at the end of the dict and polled first.
RegisterNew(m) ==
    /\ m.path = "register" /\ ~Listed(m.url)
    /\ net' = net \ {m}
    /\ table' = Append(table, m.url)
    /\ log' = log \o Logged(m.results)
    /\ handling' = handling \union {[url |-> m.url, live |-> m.live]}
    /\ UNCHANGED <<pending, userVars, machineVars, reply, faults>>

RespondNew(h) ==
    /\ handling' = handling \ {h}
    /\ Respond(h.url, h.live)
    /\ UNCHANGED <<table, log, userVars, machineVars, net, faults>>

\* Deregistering takes the record out; its commands stay, and what results the
\* request carries is not looked at.
Deregister(m) ==
    /\ m.path = "deregister"
    /\ net' = net \ {m}
    /\ table' = Unlisted(m.url)
    /\ UNCHANGED <<pending, handling, log, userVars, machineVars, reply, faults>>

\* The sweep takes out an URL nobody registers any more; the one the loop beats for
\* too, if that many heartbeats were lost.
Expire(u) ==
    /\ Listed(u)
    /\ IF u # url \/ loop = "off" THEN UNCHANGED faults ELSE Fault("lose")
    /\ table' = Unlisted(u)
    /\ UNCHANGED <<pending, handling, log, userVars, machineVars, net, reply>>

\* An adapter's heartbeat: it never reads the response.  (The adapter sends the
\* node name for its host, which is the machine's where that is not qualified.)
AdapterBeat(u) ==
    /\ u \in AdapterUrls
    /\ table' = IF Listed(u) THEN table ELSE Append(table, u)
    /\ pending' = [pending EXCEPT ![u] = <<>>]
    /\ UNCHANGED <<handling, log, userVars, machineVars, net, reply, faults>>

\* A new gateway process: the table, the queues and the connections are gone.
GatewayRestarts ==
    /\ Fault("gateway")
    /\ table' = <<>>
    /\ pending' = [u \in Urls |-> <<>>]
    /\ handling' = {}
    /\ net' = {} /\ asking' = {}
    /\ UNCHANGED <<log, queued, cmds, machineVars, reply>>

-----------------------------------------------------------------------------
(* The machine *)

\* gw_post takes the results file along and removes it before it sends.
Beat ==
    /\ loop = "sleep"
    /\ loop' = "wait"
    /\ net' = net \union {Post(url, file)}
    /\ file' = <<>>
    /\ UNCHANGED <<gatewayVars, userVars, url, reply, batch, results, applied, faults>>

ReadAndClaim ==
    /\ loop = "wait" /\ reply # NoReply
    /\ loop' = "apply"
    /\ batch' = reply
    /\ file' = reply
    /\ reply' = NoReply
    /\ UNCHANGED <<gatewayVars, userVars, url, net, results, applied, faults>>

\* The response is there: its commands are applied from the first to the last.
ReadReply ==
    /\ loop = "wait" /\ reply # NoReply
    /\ loop' = "apply"
    /\ batch' = reply
    /\ reply' = NoReply
    /\ UNCHANGED <<gatewayVars, userVars, url, net, results, file, applied, faults>>

\* load starts `llm up` detached, set_preset rewrites the preset file: done or
\* refused, there is a result.
Apply ==
    /\ loop = "apply" /\ batch # <<>>
    /\ cmds[Head(batch)].action # "restart_router"
    /\ batch' = Tail(batch)
    /\ results' = Append(results, Head(batch))
    /\ applied' = Append(applied, Head(batch))
    /\ UNCHANGED <<gatewayVars, userVars, loop, url, net, reply, file, faults>>

\* cmd_stop begins with `heartbeat stop`, which kills the tmux session this very
\* shell runs in: the router is not stopped, and the rest of the batch and its
\* results are lost.  The deregistration may still get out.
ApplyRestart ==
    /\ loop = "apply" /\ batch # <<>>
    /\ cmds[Head(batch)].action = "restart_router"
    /\ loop' = "off"
    /\ batch' = <<>> /\ results' = <<>>
    /\ net' \in {net, net \union {Bye(url)}}
    /\ UNCHANGED <<gatewayVars, userVars, url, reply, file, applied, faults>>

\* The results file is rewritten only if there were commands.
WrittenIfSeveral(old, new) == IF Len(new) <= 1 THEN old ELSE new
Written(old, new) == IF new = <<>> THEN old ELSE new

\* The batch is through.
BatchOver ==
    /\ loop = "apply" /\ batch = <<>>
    /\ loop' = "sleep"
    /\ file' = Written(file, results)
    /\ results' = <<>>
    /\ UNCHANGED <<gatewayVars, userVars, url, net, reply, batch, applied, faults>>

\* The curl that waited is gone: what comes back to it is lost.
Unwaited(s) == {[x EXCEPT !.live = FALSE] : x \in s}

\* curl gives up after its time limit (or the network broke): the loop sleeps.
CurlGivesUp ==
    /\ loop = "wait"
    /\ \/ Fault("timeout")
       \/ /\ reply = NoReply /\ \A x \in net \union handling : ~x.live
          /\ UNCHANGED faults
    /\ loop' = "sleep"
    /\ net' = Unwaited(net)
    /\ handling' = Unwaited(handling)
    /\ reply' = NoReply
    /\ UNCHANGED <<table, pending, log, userVars, url, batch, results, file, applied>>

LoseRequest(m) ==
    /\ Fault("lose")
    /\ net' = net \ {m}
    /\ UNCHANGED <<gatewayVars, userVars, machineVars, reply>>

\* `llm stop`, `pause` or `leave`: the loop is killed wherever it is, then the
\* deregistration uses up the results file.
Leave ==
    /\ Fault("leave")
    /\ loop # "off"
    /\ loop' = "off"
    /\ batch' = <<>> /\ results' = <<>> /\ file' = <<>> /\ reply' = NoReply
    /\ net' = Unwaited(net) \union {Bye(url)}
    /\ handling' = Unwaited(handling)
    /\ UNCHANGED <<table, pending, log, userVars, url, applied>>

\* `llm serve` or `resume` after one of these.
Return ==
    /\ "leave" \in Faults /\ loop = "off"
    /\ loop' = "sleep"
    /\ UNCHANGED <<gatewayVars, userVars, url, net, reply, batch, results, file, applied, faults>>

\* The tunnel is started, stopped or restarted: peer_url prints another URL.
UrlChanges(u) ==
    /\ Fault("tunnel")
    /\ u \in LoopUrls \ {url}
    /\ url' = u
    /\ UNCHANGED <<gatewayVars, userVars, loop, net, reply, batch, results, file, applied>>

-----------------------------------------------------------------------------
Next ==
    \/ Ask
    \/ \E u \in asking : ModelAction(u) \/ SetPreset(u) \/ RestartRouter(u) \/ AskFails(u)
    \/ \E m \in net : \/ RegisterKnown(m) \/ RegisterNew(m)
                      \/ Deregister(m) \/ LoseRequest(m)
    \/ \E h \in handling : RespondNew(h)
    \/ \E u \in Urls : Expire(u) \/ AdapterBeat(u) \/ UrlChanges(u)
    \/ GatewayRestarts
    \/ Beat \/ ReadReply \/ Apply \/ ApplyRestart \/ BatchOver \/ CurlGivesUp
    \/ Leave \/ Return

Spec == Init /\ [][Next]_vars

\* The loop goes on, requests arrive and the event loop answers them.
FairSpec ==
    /\ Spec
    /\ WF_vars(Beat) /\ WF_vars(ReadReply) /\ WF_vars(Apply)
    /\ WF_vars(ApplyRestart) /\ WF_vars(BatchOver) /\ WF_vars(CurlGivesUp)
    /\ WF_vars(\E m \in net : RegisterKnown(m) \/ RegisterNew(m) \/ Deregister(m))
    /\ WF_vars(\E h \in handling : RespondNew(h))

-----------------------------------------------------------------------------
(* Properties *)

\* A command is applied at most once, and its result shown at most once, although
\* responses are lost, heartbeats time out on one side only, and the machine
\* leaves and returns, under the same URL or another: no retry repeats a load.
AtMostOnce == IsInjective(applied) /\ IsInjective(log)

\* The result of a command is shown only if the command was applied.
ResultsTruthful == ToSet(log) \subseteq ToSet(applied)

\* Commands queued at one record are applied in the order the Models page queued
\* them: none overtakes one queued before it, across lost responses, heartbeats that
\* are answered too late, leaving and returning, and tunnels that come back.
AppliedInOrder ==
    \A i, j \in DOMAIN applied :
        (i < j /\ cmds[applied[i]].at = cmds[applied[j]].at) => applied[i] < applied[j]

\* Something went wrong, or a restart of the router ended the loop.
Disturbed == faults > 0 \/ loop = "off"

\* Its result is one of those the gateway does not take.
CutOff(c) == \E i \in DOMAIN file : i > MaxResults /\ file[i] = c

\* gateway/llm_gateway.py:468, "picks this up on its next heartbeat", and
\* bin/llm:298, each command gets a result: as long as the machine goes on beating
\* and nothing goes wrong, the result of every command queued at its own record
\* comes back, unless more commands than MaxResults were fetched at once before it.
EveryCommandAnswered ==
    \A c \in Cmds, u \in LoopUrls :
        (c \in ToSet(pending[u])) ~> (c \in ToSet(log) \/ CutOff(c) \/ Disturbed)

\* gateway/llm_gateway.py:631, a restart is answered "applies_within_s": 30 like any
\* other command: its result comes back.
RestartAnswered == \A c \in Cmds : (c <= queued) ~> (c \in ToSet(log))

=============================================================================
