# A TLA+ model of local-model-serve

local-model-serve puts the llama.cpp routers of several GPU machines behind one
gateway. The gateway is one asyncio process (`src/gateway/llm_gateway.py`); each
machine runs `src/bin/llm`, a shell program that starts the router, beats to the
gateway from a tmux session, loads and unloads models and applies what the gateway's
pages ask for. There is no database: everything the gateway knows is in dicts that
start empty, everything a machine knows is in its preset and a few files under `$RUN`.

This directory holds modules for the parts where the order of steps matters, TLC
configurations that check them on small instances, and TLAPS proofs of every safety and
action property the runs check and of both refinements, for all values of the constants.
`PROJECT.json` maps every definition to the lines it models.

## Inventory

| part | state | operations | what is hard | what makes it correct |
|---|---|---|---|---|
| peer registry (gateway) | `peers`: record per URL with `ok`, `models`, `seen` | register, deregister, poller (sweep + gather), poll, a request that fails | every handler suspends; polls of one URL overlap; a record is popped and entered again while a poll holds the old one; one slow poll delays the sweep | nothing routable that has not answered; silence noticed in bounded time; beating machines stay, dead ones go; the table converges |
| request routing (gateway) | `pins`, `p["inflight"]`, `inflight_by_replica` | resolve, pick, default_peer, proxy, forward and its relay | counters go up before an await and down in another function; the record can be popped in between | both counters exact; load spread over the copies |
| command channel | `pending_commands`, `cmd_results.json`, the response on its way | model_action, set_preset, restart_router, register's response, gw_post, apply_commands | lost, late and duplicated heartbeats; results file removed before the POST; leave, restart, new tunnel URL | applied at most once, in order; no result made up; every command answered |
| models of a machine (`bin/llm`, `weights_cache.py`) | the router's model states, `$RUN/paused`, page cache | up, down, pause, resume, cache janitor | detached shells of the Models page run next to the operator's; loads fail, unloads hang | pause/resume forgets nothing, paused is empty, commands end, the cache is freed |
| preset edits | the preset file, the gateway's record of it | set_preset's patch, `apply_preset_patch.py`, `ini_get`, `preset_json` | the editor works on lines; two readers with different rules; a quant tag is completed from the last heartbeat | edits set the keys they name and nothing else; readers agree; no lost repo edit |
| machine lifecycle (`bin/llm`: serve, stop, join, leave, tunnel) | the tmux sessions of router, heartbeat loop and tunnel; the tunnel's log | each command looks for a session, then starts, awaits or kills it | what is looked at changes before it is acted on; a command that fails leaves what it started; the URL changes under the loop | the gateway ends up with what the machine announces; every command ends |
| engine adapters (`backend_adapter.py`, engine_up/down) | a session per engine, a second record of the host | start, stop, heartbeat, answer to the poller | deregister before kill; the adapter outlives its engine; same host name | their record goes when they do; a dead engine is not offered |
| engine commands (`render_backend_cmd.py`, engine_up) | none | a section's fields and a catalogue entry become a command | a field no check looks at | what an engine cannot do is refused |
| name resolution (`resolve`) | `_dns` | the system's resolver, then DNS over HTTPS, then the cache | lookups of one name overlap, the later store wins | no address believed for longer than the TTL and one lookup |
| login and rate limit | `logins`, `mutations` per client address | login, guard, rate_limited | the list is read before an await and written after it | locked out only for cause; no more changes per window than allowed |
| usage accounting | `gateway-usage.jsonl`, the relay's head and tail windows | parse_usage, relay, log_usage, usage_endpoint | figures cut at a window's edge; a line half written | what is logged is what the whole stream says; a torn line costs one record |
| web tools (`web_server.py`) | one call at a time | the JSON-RPC loop, fetch, search | limits met at different points; every step can raise, some outside the handler that reports it | one reply per request, in order; what a result says is true |
| egress proxy (`egress_proxy.py`) | two sockets and two pipes per connection | handle, pipe | either end leaves at any time | both connections end; nothing an end sent is lost |
| relay supervisor (`agor-relay.sh`, `tcp-relay.mjs`) | `node_pid`, `login_pid`, `current`; two relay processes | discover, stop_relays, start both, the TERM trap | the lease moves and relays die between two looks; an old step still has the port; SIGTERM between two commands | no relay is forgotten; connections get to the current lease's daemon, or nowhere |
| pages, direct model operations, thinking translation, browser, Cloudflare scripts, build and set-up, presets and catalog | – | – | – | see "Not modelled" |

How they interact: the heartbeat carries a machine's preset, GPUs and command results
to `register`, and commands back; `register` of a new peer polls it before it answers;
the poller polls the routers and sweeps; the router of requests reads the same records
and marks them not ok; up and down change what the next poll sees; the machine's preset
is what both `bin/llm` and (one heartbeat later) the gateway read. What a machine is
called in the table is the URL its tunnel or its settings give it at each beat, and each
engine's adapter enters a URL of its own.

## Modules

| module | models | extends / instances |
|---|---|---|
| `PeerTable` | the table as its readers see it: who is in it, who is routable, what it last answered, and the six ways this changes. The abstract specification of the registry. | |
| `PeerRegistry` | the registry with its tasks, timers and messages | `PeerTable` by INSTANCE (refinement) |
| `Routing` | requests, pins and both counters on top of the table | EXTENDS `PeerTable`, so the actions of the table that concern requests are the same definitions |
| `CommandChannel` | commands, heartbeats, results | |
| `MachineModels` | up, down, pause, resume, janitor | |
| `MachineSessions` | serve, stop, join, leave, tunnel, up and down of engines, step by step, on the machine's sessions, and the URLs and models the gateway knows of them | |
| `PresetStore` | editing a table of keys: each edit taken whole or refused. The abstract specification of the editor. | |
| `PresetEdits` | the file, the editor line by line, both readers, the gateway's record | `PresetStore` by INSTANCE (refinement) |
| `RelaySupervisor` | the supervisor's loop and its trap, both relays as processes, leases | |
| `NameCache` | lookups of one tunnel's name and its cache entry | |
| `AccessLimits` | failed logins and changes of one client address | |
| `UsageLog` | both ends of a relayed stream, the figures in them, the log line by line | |
| `WebServer` | the web tools' loop, fetch, search, the text of a page | |
| `EgressProxy` | one connection of the browser with both its pipes | |
| `EngineCommand` | what becomes of the fields of an engine's section | |
| `PeerRegistryProofs`, `RoutingProofs` (with `PeerTable`'s), `CommandChannelProofs`, `MachineModelsProofs`, `PresetEditsProofs`, `MachineSessionsProofs` (with `EngineCommand`'s), `GatewayPartsProofs` (`NameCache`, `AccessLimits`, `UsageLog`, `RelaySupervisor`), `WebToolsProofs` (`WebServer`, `EgressProxy`) | theorems | EXTEND what they are about |
| `MC*` | constants for TLC | |
| `MCServices` | also puts `NameCache`, `AccessLimits`, `UsageLog`, `WebServer`, `EgressProxy` and `RelaySupervisor` side by side. They share no state in the code, so a behaviour follows one of them (`part`) and their state spaces add instead of multiply. | EXTENDS the six |
| `MCMachineModels` | puts `MachineModels` and `PresetEdits` side by side in the same way: what a machine is told about its models, and about its preset | EXTENDS both |

### PeerRegistry

A poll is cut at its awaits: *new* (created by gather or by `register`), *asked* (it has
captured the record with `peers.get`), *answered* (the router has answered, at a moment
of its own, so the answer can be old when it is read), *detail* (models stored, `ok`
not yet set because loaded models are asked for metrics and slots first). `held` says
whether the captured record is still the one in the dict; a poll of a popped record
goes on and writes into nothing. The poller is *sleep*, *gather* or *dead* (an
exception has ended the task). Answers come in three kinds besides the well-formed ones that
poll reads whole: it fails (`PollFails`), its models are stored but a number in the detail is none
(`Unparsed`, `DetailFails`: a ValueError, so `ok` goes), or it has another shape (`Garbled`: a
TypeError, KeyError or AttributeError, which leaves poll and, from the poller, gather). The heartbeat loop of a machine is *sleep*, *wait* (curl
is running), *off*, or *once* for `llm local`. Requests in `net` are taken in any order.
Time is discrete and a timer that has run out blocks `Tick`, so bounds on time are
exact for the model's granularity (one unit is about 10 s).

### Routing

One request is *free*, *dialing*, *relaying*, or *raised*. `proxy` and `forward` have no
await between choosing and counting, so `Route` is one action. *raised* is a request that an
exception ended before `done` could run: `build_request` with a header httpx cannot encode
(`DialRaises`), or `up.aclose()` in the `finally` before `done` (`RelayRaises`). It is not in
progress and still counted; the two counter properties say that this is the only way to be
so. `held` again says
whether the record the request captured is still listed; `keyed` whether it was counted
at its copy (it is not when the chosen id equals the requested name). Machines leave,
return, answer and fail through the actions of `PeerTable`.

### CommandChannel

One machine that can be known under several URLs. A request of the Models page finds the
record (`asking`), awaits its body, and queues at that record, listed or not. A heartbeat is a message with the
results it carries; `live` says whether the curl behind it still waits. `register` of a
known URL answers at once; of a new one only after a poll, and the record it holds may
be gone by then. Commands are taken off the queue into the response, which may be lost.
`register` takes the first `MaxResults` results of a heartbeat (20 in the code, 1 in the run).
The record the loop beats for expires too, if enough heartbeats are lost.

### MachineModels

Every shell (operator) and job (detached by the Models page) is a program counter over
the list of models it has still to do. Pause is four steps before its first unload: it reads what is
loaded, writes the list, kills the loop, deregisters for as long as curl takes. A request to the
router that fails ends the command where it is (`CallFails`, `Answered`; the fault "api"). `Release` reproduces the exit status of the
pipeline in `cmd_down` under `pipefail`, where only the last model listed decides and
where `grep -q` can make the loop fail. `OtherBeat(0)` reproduces that a beat without
commands ends in `apply_commands` under `set -e` and does not reach the janitor.

`calm` records whether anything but pause and resume was done and anything failed; it is
the condition of the three properties of an undisturbed pause, and no guard reads it.

### MachineSessions

A command is the list of the steps still to take; the steps are those of the functions it
calls, so `join` is `TunnelUp \o Serve` as in the code. A step that looks for a session and
the step that starts it are two, since serve reads weights in between and a second shell
may be quicker; tmux then refuses the second session of that name and the command dies
under `set -e`. That holds for router, tunnel, loop and engine. Before its session is refused,
`tunnel up` has emptied the log (`EmptiesLog`): the URL of a quick tunnel another shell has
started is then gone from it ("lost"), and `peer_url` falls back to the machine's own. `GivesUp` is the time limit of a wait; what was started stays. `cmd_tunnel`
calling itself with HTTP/2 is `Again`: the steps once more, with the flag set.

`req` is what is on its way to the gateway, by sender. The gateway is reduced to the URLs
it holds and the engines it believes loaded: the registry's own races are
`PeerRegistry`'s, and so are lost requests; `Expire` takes out what nothing announces any
more. `restart_router` and the loading of models are in the modules above. A site says
which settings a machine has and which commands are typed there: a quick tunnel with one
operator or two, a named one with two, the gateway's own network with an engine, and two
operators who start that engine.

### PresetEdits

A file is a sequence of section, key and text lines. `Patched` is `patch_lines` as a
recursive function along them, `PatchLine` its loop's body; `IniGet` takes the first line
of a key, `Parsed` the last. Values are
told apart as far as the code does: refused by `validate` (a GPU that is not there, an odd
tag; one such value refuses the whole patch), written in another way than given (`Written`:
`04096`, `CUDA0, CUDA1`), a repo with or without tag, empty (deletes the key). The store
refuses an edit only if it has such a value or the section is not there. The gateway's fit warning only withholds edits, and is left
out for that reason; so is the loss of a heartbeat, which is the command channel's.

### RelaySupervisor

The loop is cut at its commands, because that is where bash runs the trap: the fork of a
relay and the line that notes its PID are two steps, and a process that was forked but
not noted when `Trap` comes is marked `stray`. A relay has the states of `tcp-relay.mjs`:
*starting* (it exits if the port is taken), *listening*, and after SIGTERM *closing*, when
it no longer listens and lasts as long as its last connection. The relay on the lease's
node is a step behind an `srun` on the login node: the loop sees the client (`seen`), and
a step whose client is gone goes on until Slurm ends it. Jobs, receipts and Slurm are
external: the lease can change at any time, and its end takes its steps along.

### NameCache

A lookup is cut at its two awaits: *system* (in `getaddrinfo`), *doh* (in the request to
1.1.1.1), *told* (it has an answer and has not run again yet), and `Store` stamps the
entry when it runs; what either of them raises and `resolve` does not catch ends the lookup
without an entry (`LookupRaises`). The name's address moves at any time. `until` remembers, for each
address, when it was last right; no guard reads it.

### AccessLimits

`login` is two steps, the look at the failures and the answer once the form is there, with
other logins between. A list of times in which one time can be there twice is a set of
numbered events: the code only counts them and drops the old ones. `failures` and `changes`
keep what happened, for the properties only.

### UsageLog

A stream is a sequence of keys, digits and other bytes that comes in chunks of any size and
can stop anywhere. The file is a sequence of records, parts of records and ends of lines;
`log_usage` that fails leaves any beginning of its line. `CloseRaises` is a relay whose
`up.aclose()` raises: what it has read is not logged at all.

### WebServer

`call` is the one tool call at work; each step is what runs between two things that can
raise. `Handle` is the three handlers of `TextExtractor`, `Extracted` its run along the
bytes of what `feed` hands over (`Handed`: there is no `close`, so the text before an
unfinished `&` or `<` stays behind); the properties use a definition of what is shown that has
no state (`Shown`, `HiddenAt`, `TitleAt`), so the two check each other. `Deadly` lines raise outside
`call_tool` and end the loop: JSON that is no object, params that are none.

### EgressProxy

The coroutine's stages up to `gather`, then a pipe per direction. An end talks, has shut its
side, or is gone. An exception nobody catches is `Raises`, whose writer may or may not be
closed.

### EngineCommand

The fields are those of the catalogue's rules, with every `spec-draft-*` of the shipped presets,
and what its repo is like (a projector among its files, a GGUF tag). `Refuses` is the list of checks, `Render` what a template's variables take from a section,
`Start` the adapter's command line. The catalogue is that of `catalog/backends.yaml`.

## Runs

| run | question | instance and bounds |
|---|---|---|
| `registry` | what the table may hold, that every change is one of `PeerTable`, and what the gateway keeps, drops and learns in the end | one machine, joined or registered once by `llm local`, on a network that loses requests until it heals, one register handler next to the poller, any number of gateway restarts; one answer's detail cannot be read; TTL 3, all other times 1 |
| `registry_local` (violation) | `llm local` stays known to its gateway | |
| `routing` | counters, and what they spread | two machines, two numbered copies, two requests, one session, asked for by base name and by id; both requests can raise |
| `routing_spread` (violation) | a request goes to the least busy copy | one machine, a copy under the base name beside a numbered one, as in `presets/8x-24g.ini`; four requests |
| `commands` | at most once, truthful, in order; every command is answered unless something goes wrong | two commands, one result per heartbeat, two faults among: lost request, curl timing out, leave, new gateway, new tunnel URL; returning is free; an adapter on the same host |
| `commands_restart` (violation) | a restart of the router is answered too | one command |
| `machine` | the list of `resume` and the end of every command while everything can fail; what an undisturbed pause forgets and leaves behind; the editor against the store, its readers, staleness of the quant tag | two copies of one repo, one offloaded; one shell, one job. Every file of a header and up to three lines out of five kinds; two edits |
| `machine_warm` (violation) | files read in advance are still there when the load is asked for | |
| `sessions` | what the gateway holds in the end, dead engines, and the end of every command | five sites: a quick tunnel with one shell and all commands, or with two; a named tunnel with two shells; the gateway's network with one engine, with one shell or with two; two URLs a quick tunnel can get |
| `services` | the six parts beside the machines: stale addresses, lock-outs, figures, torn lines, replies and results of the web tools, connections of the proxy, relays forgotten or pointing to the wrong daemon | two lookups, two addresses, four units of time; two logins of one client, three failures, three units; streams of up to three figures or fillers, two responses, one torn line; pages of up to five bytes, two lines, three engines, one redirect; two bytes each way; two leases on one node, one death without a reason, three process numbers |
| `web_loop` (violation) | every request has its reply | one line |
| `engine_dropped` (violation) | the rules of `catalog/backends.yaml` for what is refused | every set of fields on every engine |

Why the bounds are enough. *Registry*: all interference is between polls of one URL and
the changes of its record, so one machine with two overlapping polls shows it. A second
machine matters only because a round waits for its slowest poll; what depends on that,
the two timing bounds, is proved for any number of machines. TTL 3 with heartbeat and
curl time 1 is the smallest that lets a beat be lost and the next arrive, as 90 s does
with 10 s + 10 s. *Routing*: two copies, on two machines or on one, and two requests are the
least that can disagree with a counter; the counters are proved for any number.
*Commands*: two commands show reordering and repetition, and one result per heartbeat cuts the
second; two faults let a lost response and a departure, or a new tunnel URL, meet in one
behaviour, and the safety properties are proved for any number. *Machine*: two commands at one
time is what the shells can do to each other pairwise; two copies of one repo are what
`Release` can confuse. *Sessions*: two URLs tell a tunnel from its successor, two shells
show two commands on one session; commands are typed without bound. *Relays*: one death is
enough to lose each of the three processes once in every state of the loop, and two leases
on one node are the case in which an old step can be in the way; the safety property is
proved for any number. *Services*: two callers are
what can overwrite each other in the cache and in the list of failures (the cache is proved
for any number); the windows are two to four units, so that a behaviour leaves them behind;
three events of a stream with windows of four bytes put a figure inside, across and between
both; pages of five bytes nest and close elements twice; one redirect is both allowed and
the last. What these six promise of safety is proved for any number, window, stream, page
and engine. *Preset edits*: three lines
after a header are enough for a section given twice with other keys between, a repeated
key and a commented key; all four properties are proved for files of any length. MaxCmds, MaxFaults, MaxEdits and, in `services`, MaxDeaths, MaxTime, MaxClock,
MaxTries, MaxRecords, MaxTorn, MaxLines and MaxBytes are the only caps on
counters; CHECK_DEADLOCK FALSE is set where a behaviour ends because a cap ends it
(`machine`: two edits are all; `services`, `web_loop`), because the machine is gone
(`commands_restart`) or because the program is sequential (`engine_dropped`).

### Properties by hazard

- `BoundedStaleness`, `SilentRouterUnrouted`: how late the gateway can be, with polls
  that overlap and a round that waits for its slowest poll.
- `RoutableWasHeard`, `RefinesTable`: a late poll of an earlier record changes nothing.
- `BeatingMachineKept`, `DeadMachineDropped`, `GatewayConverges`, `PolledForever`: what
  happens in the end.
- `InflightConserved`, `ReplicaCountConserved`: no count is lost or doubled when records
  are popped under running requests, but by an exception; `done`'s `max(0, …)` never has work
  to do.
- `SpreadByName`: what the counts are for, between copies whose counters are right. That they
  are right of every copy is false (`LeastBusyCopy`, run `routing_spread`).
- `AtMostOnce`, `ResultsTruthful`, `AppliedInOrder`, `EveryCommandAnswered`.
- `PauseForgetsNothing`, `PauseLeavesNothing` (no model loaded, no page cached),
  `ListKept`, `EveryCommandEnds`.
- `TableFollows`, `DeadEngineNotOffered`: sessions come and go between look and act, a loop
  outlives a tunnel, an adapter its engine, a beat overtakes a deregister.
- `NoRelayForgotten`, `RelaysFollowLease`: deaths, moves and signals between two commands.
- `ImplementsStore`, `ReadersAgree`, `TextKept`, `TagKeepsRepo`.
- `AddressFresh`: overlapping lookups store in any order, and a stale answer stored late is
  stamped as new.
- `LockedForCause`, `ChangesLimited`: a list read before an await is written back after it.
- `FiguresExact`, `TornCostsOne`: windows, cuts and half-written lines.
- `ResultsTell`, `RepliesInOrder`: limits met at different points, steps that raise. Each names the
  exceptions the code makes; that a request whose params are none has no reply is the run `web_loop`.
- `NothingLost`, `ConnectionsEnd`: pipes that close each other's ends.
- `RulesEnforced`: a field that no check looks at.

`TypeOK` is a run's property of `registry` only. The other modules state theirs too; all are
proved (that of `MachineModels` next to one shell, that of `PresetEdits` for files that end in
a newline, that of `PeerTable` as part of `TableInv`).

### Fairness

`PeerRegistry!Fairness`: asyncio runs every ready coroutine (WF of the poll steps, of the
poller and of the handlers); the heartbeat loop is a `while` that nothing but `heartbeat
stop` ends, and curl has `--max-time` (WF of `Beat`, `BeatOver`); time passes whatever
users do (SF of `Tick`). A request in flight arrives unless it is lost; nothing obliges
a network, a router or a user to do anything, so liveness about a machine with a lossy
network assumes that the network heals at some time, and a gateway that is restarted for ever
is left out. `CommandChannel!FairSpec` is the
same for the one loop; `commands` checks its liveness together with its faults, as "answered or
disturbed". `MachineModels!Fairness`: shells run on; the router ends every
load; `wait_status` counts seconds whatever it sees, so its time limit is strongly fair.
`MachineSessions!FairSpec`: shells, the loop and adapters run on, requests arrive, the
poller sweeps and polls; the time limits of serve, tunnel and engine_up are strongly fair
for the same reason. Nothing obliges a router, a tunnel or an engine to come up or stay.
`RelaysFairness` (in `RelaySupervisor`): the loop runs on (each wait in it has a limit, so one action
that always can be taken stands for "it ended or it is killed"), a started relay listens or
fails, Slurm ends steps without a client; connections need not end. `ProxyFairness` (in
`EgressProxy`): the awaits before the pipes have time limits, a pipe that can go on goes on,
and an end that does not read any more is gone at some time.

## Proofs

All are checked by TLAPS for every value of the constants.

- `TableRoutesToHeard`: in `PeerTable`, routable peers are in the table and have answered
  since they were entered. The invariant is `TableInv`, with types and the fact that a
  record outside the table is blank.
- `RegistryTypes`, `RegistryRoutesToHeard`, `RegistryImplementsTable`: with `RegistryInv` =
  `TypeOK` ∧ `UnlistedUnknown` (a URL not in the dict has neither models nor `ok`) ∧
  `PollsConsistent` (a poll that holds its record holds one that is listed, a poll that
  has stored its answer is in state *detail* and the record still has an answer) ∧
  `RoutableWasHeard`. `PollsConsistent` is what makes it inductive: `ok` is set after an
  await, and without it the step that sets `ok` could follow a drop.
  `RegistryImplementsTable` takes each action to the `PeerTable` action it is, or to a
  stutter.
- `StalenessIsBounded`: no record is older than TTL + POLL + one poll. `RoundInv` relates
  age to what is left of the poller's sleep or of the longest poll of its round. It
  assumes `BadUrls = {}` and `Garbled = {}`: a URL httpx refuses, or an answer of another shape,
  ends the poller, and then it is false.
- `SilenceIsNoticed`: no request goes to a router that has been silent for POLL and three
  polls. `SilenceInv` is an invariant on top of `RoundInv`: whenever `ok` is set for a
  silent router, either it fell silent at most one poll ago (a late answer can still set
  `ok`: `LateAnswers`), or the poller sleeps with the poll that will find out to come, or
  that poll is in this round, or this round's poll came too early and the round ends
  within a time its other polls bound (`LastRound`). The last case needs the existential:
  the round is as long as its slowest poll, of whatever machine. Same assumption.
- `RoutingTypes`, `InflightIsConserved`, `ReplicaCountIsConserved`: with
  `RoutingInv` = `TypeOK` ∧ `Consistent` (what a request has captured is a
  listed record if `held`) ∧ both counts. The counts are cardinalities of sets of
  requests, so every step says which request enters or leaves which set; `Reqs` is
  assumed finite.
- `SpreadsByName`: an action property, from the same invariant. It needs the counts to be
  exact: the code compares `inflight_by_replica`, the property the requests that run. Of a copy
  that is also asked for by its id, or that an exception has ended a request at, it says nothing:
  there the counter is wrong.

- `ChannelTypes`, `AppliedInTheirOrder`, `AppliedAtMostOnce`, `ResultsAreTruthful`: with
  `ChannelInv` = `TypeOK` ∧ `OrderInv` ∧ `ResultsInv`. A command goes through four stages:
  queued at a record, in the response, in the loop's batch, applied. `OrderInv` says that of
  two commands for one record the older is never behind the younger, between any two stages
  and within each. Order follows at once; so does at-most-once, since a command stands in
  order with itself only if it is at one stage, once. `ResultsInv` says that the results in
  the log, in the file, on each heartbeat and in the loop's hands are disjoint, without
  repetition, and of applied commands.
- `ModelsTypes`, `ListIsKept`, `NothingForgotten`, `NothingLeft`: next to one shell
  (`Shells = {sh}`), for any number of models, copies and commands of the Models page. `ListInv` =
  types ∧ `Coherent` (a step belongs to a command that takes it) ∧ `OwedNotLoaded` ∧
  `ResumeDoesAll`: what resume has still to do contains all that is owed of its list, and the
  model it has just seen loaded is not owed. At its end nothing is left to do, so nothing is
  owed and the list may go. `CalmInv` is for a machine to which nothing else is done: while
  pause runs, whatever is up or cached is on what it has still to do (`Pausing`), while resume
  runs, what is cached is up or about to be (`Resuming`), and between them nothing is owed or
  nothing is up (`Rests`). `ReleasedPages` is the case of copies: pages are spared only for a
  model pause has still to unload. With two shells `ListKept` is false (see below).
- `NamesTypes`, `AddressesStayFresh`: with `NamesInv` = types ∧ `CacheTimely` (an entry's
  address was right at most one lookup before its stamp) ∧ `LookupsTimely` (what a lookup was
  told was right since it began) ∧ `NoFuture`. The stamp is taken when the caller runs again,
  which is why one lookup has to be added to `DNS_TTL`.
- `SupervisorTypes`, `SupervisorHoldsItsRelays`: with `LoopInv` = `TypeOK` ∧ `NoRelayForgotten` ∧
  `ForkNoted` (`$!` is of interest only until it is noted) ∧ `StopsInTurn` (when the login
  relay is awaited the node relay's client is gone; no PID is noted over another) ∧
  `WantKnown` (relays are started for a lease). `StopsInTurn` is what makes clearing both
  PIDs harmless.

- `PresetTypes`, `EditorImplementsStore`, `ReadersDoAgree`, `TextIsKept`, `TagsKeepRepo`: for
  files whose last line has its newline (`WholeFiles`), as the shipped presets; without it
  two of them are false (see below). What one edit does is `PatchedSays`, by induction over
  the lines read. `PatchingIs` is the invariant of that loop: the output ends in the section
  the input ends in; every key but those of the patch reads the same from both; those of the
  patch say only what it says, and are there once the section has shown them or has been left
  once (`FollowsPatch`: what makes a section given twice safe); comments and headers are the
  same. `PresetInv` adds the edits on their way: a tag waits behind the repo the section
  has, or `moved` says that an edit of the repo came between (`TagFits`, `KnownFits`).
- `LimitsTypes`, `LockedOnlyForCause`, `ChangesStayLimited`: with `LimitsInv` = types, finite
  sets ∧ `FailuresKnown` (what a login has seen, and what it will write back, is a set of
  failures that happened) ∧ `ChangesCounted` (a change let through within the window is
  counted) ∧ `Numbered` and `NoFutureChange`, which make a new event new.
- `LogTypes`, `TornWriteCostsOne`, `FiguresAreExact`: `FileInv` says of the file that what was written is at most what can be
  read and what was torn, where an unended line puts one more record at risk (`AtRisk`).
  `RelayInv` says what both windows hold of the stream (`HeadKeepsStart`,
  `TailKeepsEnd`). That is enough since a figure of a part that is not cut at its edge is a
  figure of the whole (`FigureOfPart`), and the last one of a key is in the tail if there is
  one there (`BothEndsTell`).
- `WebTypes`, `ResultsToldTrue`, `RepliesComeInOrder`: `WebInv` gives each stage of a call what
  it has collected (`CallShape`, `CallKinds`, `CallData`). That the extractor's text is what the
  bytes it was handed show is `TextInIsShown`, by induction over them, with what the extractor's state
  means after each (`SkipIs`, `TextIs`); `CutOfShown`, `TextOfStart` and `TextOfAll` are the limits.
- `ProxyTypes`, `NothingIsLost`: `ProxyInv` ties the pipes to the stage of the connection
  (`PipesByStage`, `OpenByStage`, `ClosedByPipe`), says that what an end said is what is read
  and what waits (`Conserved`), and that a pipe ends only after its end (`EndsInTurn`).
- `SessionsTypes`, `HoldsOnlyItsOwn`: whatever commands run in whatever shells, the gateway is
  told of, and holds, only URLs the machine's settings allow (`KnownUrls`): no tunnel's with
  LLM_PEER_URL set, no quick one's with a named tunnel, no engine the preset lacks; and it
  offers an engine only while it holds its adapter. `SessionsInv` needs to know of every
  command that it was given an engine of the preset if any of its steps is on one
  (`CommandFits`), and of every session that it is one the site can have (`TunnelOfSite`,
  `EnginesOfPreset`). The liveness properties say that what is held is up to date in the end;
  this says what it can be until then.
- `EngineTypes`: what a section, a catalogue entry and the command made of them are.

Two obstacles and the way round them. The induction theorems of the library take an operator as
a parameter, which no installed prover can instantiate; `NatSetInduction` says the same of a
set of numbers and follows from the well-foundedness of < (`NatLessThanWellFounded`, `WFMin`).
A recursive function is by definition a CHOOSE, of which nothing is known until such a function
is shown to exist: `RunExists` and `RunsExist` build it step by step, by the same induction.

Only model-checked: liveness under fairness (the proof system has no rules for it that work
here, nor for ENABLED), so `BeatingMachineKept`, `DeadMachineDropped`, `GatewayConverges`,
`PolledForever`, `EveryCommandAnswered`, both `EveryCommandEnds`, `TableFollows`,
`DeadEngineNotOffered`, `RelaysFollowLease` and `ConnectionsEnd`. `ListKept` and the two of an undisturbed pause are proved
next to one shell, the registry's timing for URLs and answers that do not end the poller, the editor for files that end
in a newline: outside of these hypotheses they are false, as described below.

## Disagreements between the code and its documentation

Six runs of kind *violation* show one each; PROJECT.json quotes the lines.

1. `registry_local`: `llm local` registers once and the poller drops it after TTL.
2. `commands_restart`: `restart_router` stops the heartbeat loop it runs in; the router is
   not restarted, no result comes back and the machine is gone.
3. `machine_warm`: the janitor of the beat that starts a load evicts the files the load is
   reading in advance.
4. `engine_dropped`: an engine whose entry says nothing usable of speculation is started for
   a section with a `spec-draft-*` field other than `spec-draft-model`; the field is dropped. So is
   the projector a repo brings along, on an engine without.
5. `routing_spread`: a copy whose id is the base name is passed as no copy, is never counted,
   and looks idle (`llm_gateway.py:834`, against `README.md:175`).
6. `web_loop`: a request whose params are null or a list ends the loop (`web_server.py:257`,
   `263`, against `239`).

These are in the models too, and shown by a change of a configuration:

- `Urls = {u1, u2}`, `BadUrls = {u2}` in `PeerRegistry.cfg`: `PolledForever` fails. `poll`
  catches HTTPError and ValueError; `httpx.InvalidURL` ends the poller for all machines. `Garbled = {odd}` (an answer that is no
  object with a list of models) does the same.
- The actions `DialRaises` and `RelayRaises` (in `Routing`): a request with a header httpx cannot
  encode, or whose response cannot be closed, is over but stays counted
  (`llm_gateway.py:863`, `891`). `InflightConserved` counts these apart (`LeftOnRecord`).
- `Faults = {"tunnel"}`, `MaxFaults = 1` in `Command.cfg`, and
  `EveryCommandAnswered` without `Disturbed`: a command queued at the record of the old tunnel
  URL is never fetched (`llm_gateway.py:360`).
- `PauseForgetsNothing` without `calm`, `Faults = {"load"}` in `Machine.cfg`: a pause after a
  resume that failed half way overwrites the list (`bin/llm:479`).
- `Shells = {s1, s2}`, `Jobs = {}` in `Machine.cfg`: `ListKept` and `PauseForgetsNothing` fail. A resume typed next to a
  pause that has just written its list sees the models still loaded, and removes the list and
  starts the loop while pause takes them down (`bin/llm:492`).
- `tunnel = "lost"` (in `MachineSessions`): two shells that join at one time, where the
  second empties the log of the first one's quick tunnel (`bin/llm:563`); the loop then announces
  an address the gateway cannot reach.
- A job of the Models page that loads a model between pause's list and the end of its
  deregistration (`bin/llm:477-481`): the model is on no list and stays loaded.
- `PauseLeavesNothing` without `calm`: a load of the Models page started before the pause goes on
  after it (`bin/llm:293`).
- `LooksForTunnel` (in `MachineSessions`): a `join` that gave up on its quick tunnel leaves the
  session; the next `join` takes it for a tunnel that is up (`bin/llm:561`) and its loop
  announces an address the gateway cannot reach, until the tunnel has a URL.
- `stray` (in `RelaySupervisor`): SIGTERM between a fork and the note of its PID leaves that
  relay running (`agor-relay.sh:118`, `121`). A stray login relay keeps the port from the
  next supervisor.
- `Batches = {0}` and no jobs: the janitor is never reached (`bin/llm:300`).
- Files with `Unended` last lines in `MCMachineModels`: `ImplementsStore` and `TextKept` fail; a key appended
  after a last line without a newline runs into it (`apply_preset_patch.py:112`). The
  shipped presets end with one.
- `handle = "raised"` (in `EgressProxy`): an exception between the dial and the pipes leaves the
  connection to the server open (`egress_proxy.py:66`). `ConnectionsEnd` allows for it.
- `RulesEnforced` with the other fields: `parallel` and `spec-type`, and `mmproj` and a quant
  on vLLM, are in no variable of an engine's command. A section that does use `spec_flag`
  ends as `died`: the flag's quotes end those of `--cmd '…'` in engine_up.

Met on the way and not in a model, because they are about wording or single values:
parse_usage's comment that Anthropic's field names win has no code behind it; a lookup over
HTTPS that fails is cached like a name without an address; a login that fails writes back
failures an overlapping success cleared; a page fetch cut by the time limit says so only by
`elapsed_s`, rounded; a page that omits `</head>` shows no text, and the title of an `<svg>` joins the
page's; a second plain request on one proxy connection goes to the first one's server.

## Not modelled

- Pages, status, models and machines: renderings of the tables, without a step that changes
  one. model_detail's figures: only that it is awaited matters, and that is in `PeerRegistry`.
- model_download, model_delete, model_sse: one request passed on to a machine's router. The
  gateway keeps nothing of it and has no retry; the router's side is llama.cpp's.
- translate_thinking: a change of names in a request's body. `backend_adapter`'s proxying:
  the same request to another port, without a count or a table.
- `set_password`, the checks of password, cookie and origin, and which addresses `vet` takes
  for public: inputs of `AccessLimits`, `WebServer` and `EgressProxy`.
- `browser.sh`, `agent_loop_example.py`, Cloudflare scripts (one operator; the state is
  Cloudflare's), build, set-up and Slurm scripts (they run once; the end of a job is `Crash`),
  presets and catalogue (data). The sum of figures per lane is arithmetic on the lines
  `UsageLog` says are read.
- What tcp-relay passes on: node's own pipes, both ends destroyed when one closes.
- `LLM_KEEP_CACHE` and `LLM_NO_PREWARM` are taken to be unset.

`MachineSessions` leaves out building, keys, `llm local` (one registration, in
`PeerRegistry`) and the session of the gateway itself (its restart is in `PeerRegistry` and
`CommandChannel`); that two engine sections can be given the same port (`bin/llm:398`) is a
property of a checksum.

## Order of work

Written in this order: `PeerTable` and `PeerRegistry` with their proofs (the behaviour
everything else rests on), `Routing` with its proofs, `CommandChannel`, `MachineModels`,
`PresetEdits`, `MachineSessions`, `RelaySupervisor` with its proofs; then `NameCache` with its
proofs, `AccessLimits`, `UsageLog`, `WebServer`, `EgressProxy`, `EngineCommand`, the proofs of
`CommandChannel` and `MachineModels`, and those of the services, of the editor and of
`MachineSessions`.

Open, in order of use to a maintainer:

1. What `leave` says, "nothing of this machine is registered" (`bin/llm:665`), with engines
   whose adapters beat on: true of the code only if engines are taken down first.
2. A pause after a half-done resume (`bin/llm:479`) and a join after one that gave up
   (`bin/llm:561`): both are in the models, as behaviours the properties exclude.
