--------------------------- MODULE MachineSessions ---------------------------
(***************************************************************************)
(* The tmux sessions of one machine and what the gateway knows of them:    *)
(* router, heartbeat loop, tunnel, and an adapter for each engine that is  *)
(* not llama.cpp.  The commands of bin/llm start and stop the sessions,    *)
(* each looking first at what runs and then acting on it; what a session   *)
(* announces reaches the gateway later, and may find it changed.           *)
(*                                                                         *)
(* A command is the list of the steps it has still to take.  A step that   *)
(* fails ends the command (set -e, die) and leaves what the steps before   *)
(* it started.                                                             *)
(***************************************************************************)
EXTENDS Naturals, Sequences, FiniteSets, SequencesExt

CONSTANTS
    Engines,    \* models served by another engine; also the URL of its adapter
    QuickUrls,  \* what a quick tunnel can get for a URL
    Plain,      \* http://$HOST:$PORT
    OwnUrl,     \* LLM_PEER_URL, where it is set
    None,       \* no request
    Shells,     \* where commands run
    Sites       \* the settings a machine can have, and what is typed there

EngineCmds == {"up", "down"}
MachineCmds == {"join", "leave", "serve", "stop", "tunnel up", "tunnel down"}
Commands == EngineCmds \union MachineCmds

ASSUME UrlsAssumption ==
    /\ Engines \intersect (QuickUrls \union {Plain, OwnUrl}) = {}
    /\ QuickUrls \intersect {Plain, OwnUrl, "off", "dialing", "connected", "lost"} = {}
ASSUME NoneAssumption == None \notin Engines
ASSUME SitesAssumption ==
    Sites \subseteq [cluster : BOOLEAN, ownUrl : BOOLEAN, token : BOOLEAN,
                     engines : SUBSET Engines,
                     shells : SUBSET Shells, typed : SUBSET Commands]

VARIABLES
    site,       \* on the gateway's network; LLM_PEER_URL set; a tunnel token
                \* there; the engines of its preset; what is typed, and where
    router,     \* the session of llama-server
    tunnel,     \* the session of cloudflared, and what its log says
    loop,       \* the session of the heartbeat loop
    engine,     \* the sessions of the adapters, and their engines
    req,        \* requests to the gateway on their way, by who sent them
    table,      \* the URLs of this machine the gateway holds
    offered,    \* engines the gateway believes loaded
    shell       \* the commands running

sessionVars == <<router, tunnel, loop, engine>>
gatewayVars == <<table, offered>>
vars == <<site, sessionVars, req, gatewayVars, shell>>

Urls == Engines \union QuickUrls \union {Plain, OwnUrl}
Senders == Engines \union Shells \union {"loop"}
Requests == [kind : {"register", "deregister"}, url : Urls]

\* "dialing": no connection in the log; "lost": connected, but the URL is no longer there.
TunnelStates == {"off", "dialing", "connected", "lost"} \union QuickUrls

Serve == <<"serve", "router", "healthy", "beat", "loop">>
TunnelUp == <<"tunnel", "empty log", "cloudflared", "dialed">>
Stop == <<"unbeat", "deregister", "replied", "router off">>
EngineSteps == {"old engine", "engine", "answers", "disown", "engine off"}
MachineSteps == {"serve", "router", "healthy", "beat", "loop", "tunnel", "empty log",
                 "cloudflared", "dialed", "unbeat", "deregister", "replied", "router off",
                 "running", "has tunnel", "tunnel off"}
Steps == MachineSteps \union EngineSteps

Idle == [todo |-> <<>>, model |-> None, http2 |-> FALSE]

TypeOK ==
    /\ site \in Sites
    /\ router \in {"off", "starting", "up"}
    /\ tunnel \in TunnelStates
    /\ loop \in {"off", "sleep", "wait"}
    /\ engine \in [Engines -> {"off", "starting", "up", "dead"}]
    /\ req \in [Senders -> Requests \union {None}]
    /\ table \subseteq Urls
    /\ offered \subseteq Engines \intersect table
    /\ shell \in [Shells -> [todo : Seq(Steps), model : Engines \union {None}, http2 : BOOLEAN]]
    /\ \A s \in Shells : shell[s].todo = <<>> => shell[s] = Idle

Init ==
    /\ site \in Sites
    /\ router = "off" /\ tunnel = "off" /\ loop = "off"
    /\ engine = [m \in Engines |-> "off"]
    /\ req = [x \in Senders |-> None]
    /\ table = {} /\ offered = {}
    /\ shell = [s \in Shells |-> Idle]

Running == router # "off"
HasTunnel == tunnel # "off"
HasAdapter(m) == engine[m] # "off"

\* peer_url: the URL in the tunnel's log as long as the tunnel runs.
PeerUrl == IF site.ownUrl THEN OwnUrl
           ELSE IF tunnel \in QuickUrls THEN tunnel ELSE Plain

-----------------------------------------------------------------------------
(* What runs in the sessions *)

RouterHealthy ==
    /\ router = "starting"
    /\ router' = "up"
    /\ UNCHANGED <<site, tunnel, loop, engine, req, gatewayVars, shell>>

RouterExits ==
    /\ Running
    /\ router' = "off"
    /\ UNCHANGED <<site, tunnel, loop, engine, req, gatewayVars, shell>>

\* cloudflared is connected; a quick tunnel prints, once, the URL it got this time.
TunnelConnects ==
    /\ tunnel = "dialing"
    /\ tunnel' \in IF site.token THEN {"connected"} ELSE QuickUrls
    /\ UNCHANGED <<site, router, loop, engine, req, gatewayVars, shell>>

TunnelExits ==
    /\ HasTunnel
    /\ tunnel' = "off"
    /\ UNCHANGED <<site, router, loop, engine, req, gatewayVars, shell>>

\* Each beat asks peer_url again.
UrlOfLoop == IF site.ownUrl THEN OwnUrl ELSE Plain
UrlOfBeat == PeerUrl

\* _beat works out the URL and posts it.  A killed loop may leave a request on
\* its way: the next loop's first one comes after it.
Beat ==
    /\ loop = "sleep"
    /\ req["loop"] = None
    /\ loop' = "wait"
    /\ req' = [req EXCEPT !["loop"] = [kind |-> "register", url |-> UrlOfBeat]]
    /\ UNCHANGED <<site, router, tunnel, engine, gatewayVars, shell>>

BeatOver ==
    /\ loop = "wait"
    /\ req["loop"] = None
    /\ loop' = "sleep"
    /\ UNCHANGED <<site, router, tunnel, engine, req, gatewayVars, shell>>

\* An adapter beats from its start to its end, whatever its engine does.
AdapterBeats(m) ==
    /\ HasAdapter(m)
    /\ req[m] = None
    /\ req' = [req EXCEPT ![m] = [kind |-> "register", url |-> m]]
    /\ UNCHANGED <<site, sessionVars, gatewayVars, shell>>

EngineHealthy(m) ==
    /\ engine[m] = "starting"
    /\ engine' = [engine EXCEPT ![m] = "up"]
    /\ UNCHANGED <<site, router, tunnel, loop, req, gatewayVars, shell>>

\* The engine ends, its adapter goes on; or the adapter, and with it the session.
EngineExits(m) ==
    /\ engine[m] \in {"starting", "up"}
    /\ engine' = [engine EXCEPT ![m] = "dead"]
    /\ UNCHANGED <<site, router, tunnel, loop, req, gatewayVars, shell>>

AdapterExits(m) ==
    /\ HasAdapter(m)
    /\ engine' = [engine EXCEPT ![m] = "off"]
    /\ UNCHANGED <<site, router, tunnel, loop, req, gatewayVars, shell>>

-----------------------------------------------------------------------------
(* The gateway *)

\* An entry leaves the table, and with it what was known of its models.
OfferedWithout(u) == offered \ {u}

Deliver(x) ==
    /\ req[x] # None
    /\ IF req[x].kind = "register"
       THEN /\ table' = table \union {req[x].url}
            /\ UNCHANGED offered
       ELSE /\ table' = table \ {req[x].url}
            /\ offered' = OfferedWithout(req[x].url)
    /\ req' = [req EXCEPT ![x] = None]
    /\ UNCHANGED <<site, sessionVars, shell>>

\* What the machine goes on announcing.
Announced ==
    (IF loop = "off" THEN {} ELSE {PeerUrl}) \union {m \in Engines : HasAdapter(m)}

\* TTL has passed without a beat for u.
Expire(u) ==
    /\ u \in table
    /\ u \notin Announced
    /\ \A x \in Senders : req[x] # [kind |-> "register", url |-> u]
    /\ table' = table \ {u}
    /\ offered' = OfferedWithout(u)
    /\ UNCHANGED <<site, sessionVars, req, shell>>

\* GET /models of an adapter: loaded if the engine answers its health check.
SaysProcess(m) == engine[m] \in {"starting", "up", "dead"}
SaysLoaded(m) == engine[m] = "up"

\* The gateway polls an adapter.
Poll(m) ==
    /\ m \in table
    /\ offered' = IF SaysLoaded(m) THEN offered \union {m} ELSE offered \ {m}
    /\ UNCHANGED <<site, sessionVars, req, table, shell>>

-----------------------------------------------------------------------------
(* Commands *)

\* join publishes the router first, where the gateway cannot reach it otherwise.
WantsTunnel == site.token \/ (~site.cluster /\ ~site.ownUrl)

Program(cmd) ==
    CASE cmd = "join"        -> (IF WantsTunnel THEN TunnelUp ELSE <<>>) \o Serve
      [] cmd = "leave"       -> <<"unbeat", "deregister", "replied", "has tunnel",
                                  "tunnel off">> \o Stop
      [] cmd = "serve"       -> Serve
      [] cmd = "stop"        -> Stop
      [] cmd = "tunnel up"   -> TunnelUp
      [] cmd = "tunnel down" -> <<"tunnel off">>
      [] cmd = "up"          -> <<"running">> \o Serve \o <<"old engine", "engine", "answers">>
      [] cmd = "down"        -> <<"disown", "replied", "engine off">>

Run(s, cmd, m) ==
    /\ s \in site.shells
    /\ shell[s] = Idle
    /\ cmd \in site.typed
    /\ m # None => m \in site.engines
    /\ shell' = [shell EXCEPT ![s] = [Idle EXCEPT !.todo = Program(cmd), !.model = m]]
    /\ UNCHANGED <<site, sessionVars, req, gatewayVars>>

At(s, step) == shell[s].todo # <<>> /\ Head(shell[s].todo) = step

\* The command goes on after n steps, or is over.
GoOn(s, n) ==
    LET rest == SubSeq(shell[s].todo, n + 1, Len(shell[s].todo))
    IN  shell' = [shell EXCEPT ![s] =
                    IF rest = <<>> THEN Idle ELSE [@ EXCEPT !.todo = rest]]

Die(s) == shell' = [shell EXCEPT ![s] = Idle]

\* cmd_serve: a router that runs is not started again, healthy or not.
LooksForRouter(s) ==
    /\ At(s, "serve")
    /\ GoOn(s, IF Running THEN 3 ELSE 1)
    /\ UNCHANGED <<site, sessionVars, req, gatewayVars>>

\* Startup models are read in between.  tmux refuses a second session of a name.
StartsRouter(s) ==
    /\ At(s, "router")
    /\ IF Running THEN Die(s) /\ UNCHANGED router ELSE GoOn(s, 1) /\ router' = "starting"
    /\ UNCHANGED <<site, tunnel, loop, engine, req, gatewayVars>>

AwaitsRouter(s) ==
    /\ At(s, "healthy")
    /\ \/ router = "up" /\ GoOn(s, 1)
       \/ ~Running /\ Die(s)
    /\ UNCHANGED <<site, sessionVars, req, gatewayVars>>

\* heartbeat start
LooksForLoop(s) ==
    /\ At(s, "beat")
    /\ GoOn(s, IF loop = "off" THEN 1 ELSE 2)
    /\ UNCHANGED <<site, sessionVars, req, gatewayVars>>

StartsLoop(s) ==
    /\ At(s, "loop")
    /\ IF loop = "off" THEN GoOn(s, 1) /\ loop' = "sleep" ELSE Die(s) /\ UNCHANGED loop
    /\ UNCHANGED <<site, router, tunnel, engine, req, gatewayVars>>

\* heartbeat stop: the loop is killed, before or after its request has left; the
\* URL to deregister is what peer_url says now.
KillsLoop(s) ==
    /\ At(s, "unbeat")
    /\ loop' = "off"
    /\ req' \in {req, [req EXCEPT !["loop"] = None]}
    /\ GoOn(s, 1)
    /\ UNCHANGED <<site, router, tunnel, engine, gatewayVars>>

Deregisters(s) ==
    /\ At(s, "deregister")
    /\ req' = [req EXCEPT ![s] = [kind |-> "deregister", url |-> PeerUrl]]
    /\ GoOn(s, 1)
    /\ UNCHANGED <<site, sessionVars, gatewayVars>>

GetsReply(s) ==
    /\ At(s, "replied")
    /\ req[s] = None
    /\ GoOn(s, 1)
    /\ UNCHANGED <<site, sessionVars, req, gatewayVars>>

KillsRouter(s) ==
    /\ At(s, "router off")
    /\ router' = "off"
    /\ GoOn(s, 1)
    /\ UNCHANGED <<site, tunnel, loop, engine, req, gatewayVars>>

\* cmd_tunnel up: a session that runs will do, whether or not it ever connected.
LooksForTunnel(s) ==
    /\ At(s, "tunnel")
    /\ GoOn(s, IF HasTunnel THEN 4 ELSE 1)
    /\ UNCHANGED <<site, sessionVars, req, gatewayVars>>

\* A tunnel started since the look by another shell has its log emptied, too.  Of a
\* named one the next connection is logged again.
EmptiesLog(s) ==
    /\ At(s, "empty log")
    /\ tunnel' = CASE tunnel = "connected" -> "dialing"
                   [] tunnel \in QuickUrls -> "lost"
                   [] OTHER -> tunnel
    /\ GoOn(s, 1)
    /\ UNCHANGED <<site, router, loop, engine, req, gatewayVars>>

StartsTunnel(s) ==
    /\ At(s, "cloudflared")
    /\ IF HasTunnel THEN Die(s) /\ UNCHANGED tunnel ELSE GoOn(s, 1) /\ tunnel' = "dialing"
    /\ UNCHANGED <<site, router, loop, engine, req, gatewayVars>>

\* A quick tunnel: its URL is awaited.  A tunnel that is gone may have left one in
\* the log.
AwaitsUrl(s) ==
    /\ At(s, "dialed") /\ ~site.token
    /\ \/ tunnel \in QuickUrls \union {"off"} /\ GoOn(s, 1)
       \/ ~HasTunnel /\ Die(s)
    /\ UNCHANGED <<site, sessionVars, req, gatewayVars>>

\* A named tunnel gets 15 s to connect over QUIC, and is then tried over HTTP/2,
\* which is taken to work.
RetriedOver(s) == shell[s].http2
Http2(s) == TRUE

Again(s) ==
    [shell[s] EXCEPT !.todo = TunnelUp \o Tail(@), !.http2 = Http2(s)]

LooksIntoLog(s) ==
    /\ At(s, "dialed") /\ site.token
    /\ \/ /\ tunnel \in {"connected", "off"} \/ shell[s].http2
          /\ GoOn(s, 1) /\ UNCHANGED tunnel
       \/ /\ tunnel = "dialing" /\ ~shell[s].http2
          /\ tunnel' = "off" /\ shell' = [shell EXCEPT ![s] = Again(s)]
       \/ /\ tunnel = "off" /\ ~shell[s].http2
          /\ Die(s) /\ UNCHANGED tunnel
    /\ UNCHANGED <<site, router, loop, engine, req, gatewayVars>>

\* leave: no tunnel, nothing to take down.
LooksForTunnelToStop(s) ==
    /\ At(s, "has tunnel")
    /\ GoOn(s, IF HasTunnel THEN 1 ELSE 2)
    /\ UNCHANGED <<site, sessionVars, req, gatewayVars>>

\* cmd_tunnel down ends with an error if there is no session any more.
KillsTunnel(s) ==
    /\ At(s, "tunnel off")
    /\ IF HasTunnel THEN GoOn(s, 1) ELSE Die(s)
    /\ tunnel' = "off"
    /\ UNCHANGED <<site, router, loop, engine, req, gatewayVars>>

\* cmd_up serves first if no router runs.
NeedsRouter(s) ==
    /\ At(s, "running")
    /\ GoOn(s, IF Running THEN 1 + Len(Serve) ELSE 1)
    /\ UNCHANGED <<site, sessionVars, req, gatewayVars>>

\* engine_up starts over: an engine that runs is killed, whatever its adapter is at.
EndsEngine(s, m) ==
    /\ engine' = [engine EXCEPT ![m] = "off"]
    /\ req' \in {req, [req EXCEPT ![m] = None]}
    /\ GoOn(s, 1)
    /\ UNCHANGED <<site, router, tunnel, loop, gatewayVars>>

KillsOldEngine(s) == At(s, "old engine") /\ EndsEngine(s, shell[s].model)

StartsEngine(s) ==
    LET m == shell[s].model
    IN  /\ At(s, "engine")
        /\ IF HasAdapter(m)
           THEN Die(s) /\ UNCHANGED engine
           ELSE GoOn(s, 1) /\ engine' = [engine EXCEPT ![m] = "starting"]
        /\ UNCHANGED <<site, router, tunnel, loop, req, gatewayVars>>

AwaitsEngine(s) ==
    LET m == shell[s].model
    IN  /\ At(s, "answers")
        /\ \/ engine[m] = "up" /\ GoOn(s, 1)
           \/ ~HasAdapter(m) /\ Die(s)
        /\ UNCHANGED <<site, sessionVars, req, gatewayVars>>

\* engine_down deregisters first: an adapter that beats in between is back.
DisownsEngine(s) ==
    LET m == shell[s].model
    IN  /\ At(s, "disown")
        /\ IF HasAdapter(m)
           THEN /\ req' = [req EXCEPT ![s] = [kind |-> "deregister", url |-> m]]
                /\ GoOn(s, 1)
           ELSE GoOn(s, 3) /\ UNCHANGED req
        /\ UNCHANGED <<site, sessionVars, gatewayVars>>

KillsEngine(s) == At(s, "engine off") /\ EndsEngine(s, shell[s].model)

\* The time limits of serve (60 s), of a quick tunnel (60 s) and of engine_up
\* (LLM_LOAD_TIMEOUT): what was started stays.
GivesUp(s) ==
    /\ \/ At(s, "healthy") /\ router # "up"
       \/ At(s, "dialed") /\ ~site.token /\ tunnel \notin QuickUrls
       \/ At(s, "answers") /\ engine[shell[s].model] # "up"
    /\ Die(s)
    /\ UNCHANGED <<site, sessionVars, req, gatewayVars>>

-----------------------------------------------------------------------------
Step(s) ==
    \/ LooksForRouter(s) \/ StartsRouter(s) \/ AwaitsRouter(s) \/ LooksForLoop(s) \/ StartsLoop(s)
    \/ KillsLoop(s) \/ Deregisters(s) \/ GetsReply(s) \/ KillsRouter(s)
    \/ LooksForTunnel(s) \/ EmptiesLog(s) \/ StartsTunnel(s) \/ AwaitsUrl(s) \/ LooksIntoLog(s)
    \/ LooksForTunnelToStop(s) \/ KillsTunnel(s)
    \/ NeedsRouter(s) \/ KillsOldEngine(s) \/ StartsEngine(s) \/ AwaitsEngine(s)
    \/ DisownsEngine(s) \/ KillsEngine(s)

SessionNext ==
    \/ RouterHealthy \/ RouterExits \/ TunnelConnects \/ TunnelExits
    \/ Beat \/ BeatOver
    \/ \E m \in Engines :
         AdapterBeats(m) \/ EngineHealthy(m) \/ EngineExits(m) \/ AdapterExits(m)

GatewayNext ==
    \/ \E x \in Senders : Deliver(x)
    \/ \E u \in Urls : Expire(u)
    \/ \E m \in Engines : Poll(m)

ShellNext ==
    \E s \in Shells :
        \/ \E cmd \in MachineCmds : Run(s, cmd, None)
        \/ \E cmd \in EngineCmds, m \in Engines : Run(s, cmd, m)
        \/ Step(s) \/ GivesUp(s)

Next == SessionNext \/ GatewayNext \/ ShellNext

Spec == Init /\ [][Next]_vars

\* Shells and loops run on and time limits end a wait (SF: what is awaited may
\* come and go); requests arrive, the poller sweeps and polls.  No router, tunnel
\* or engine has to get up or stay up.
FairSpec ==
    /\ Spec
    /\ WF_vars(Beat) /\ WF_vars(BeatOver)
    /\ \A m \in Engines : WF_vars(AdapterBeats(m)) /\ WF_vars(Poll(m))
    /\ \A x \in Senders : WF_vars(Deliver(x))
    /\ \A u \in Urls : WF_vars(Expire(u))
    /\ \A s \in Shells : WF_vars(Step(s)) /\ SF_vars(GivesUp(s))

-----------------------------------------------------------------------------
(* Properties *)

\* bin/llm:583, "the heartbeat re-registers the new one and the old entry
\* expires": in the end the gateway holds what the machine announces, however
\* tunnels, routers and engines came and went, and nothing else: no URL of an
\* earlier tunnel and no engine that was taken down.
TableFollows ==
    \A u \in Urls :
        /\ <>[](u \in Announced) => <>[](u \in table)
        /\ <>[](u \notin Announced) => <>[](u \notin table)

\* An engine that has died is not offered for ever, although its adapter goes on
\* announcing it.
DeadEngineNotOffered ==
    \A m \in Engines : <>[](engine[m] = "dead") => <>[](m \notin offered)

\* Every command ends, whatever fails to come up.
EveryCommandEnds == \A s \in Shells : []<>(shell[s] = Idle)

=============================================================================
