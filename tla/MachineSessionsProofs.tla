------------------------ MODULE MachineSessionsProofs ------------------------
(***************************************************************************)
(* The sessions of a machine have their types, a command works on engines  *)
(* of the preset only, the gateway is only ever told of URLs this machine  *)
(* has, and no engine is started for a section it cannot serve but in one  *)
(* case: for any number of engines, shells and quick tunnels, any          *)
(* settings, and any catalogue.                                            *)
(***************************************************************************)
EXTENDS MachineSessions, EngineCommand, SequenceTheorems, TLAPS

\* What peer_url can say on a machine with these settings.
OwnUrls ==
    IF site.ownUrl THEN {OwnUrl}
    ELSE IF site.token THEN {Plain} ELSE QuickUrls \union {Plain}

KnownUrls == site.engines \union OwnUrls

\* A named tunnel prints no URL.
TunnelOfSite == tunnel \in QuickUrls => ~site.token

EnginesOfPreset == \A m \in Engines : HasAdapter(m) => m \in site.engines

SessionsFit ==
    /\ site \in Sites
    /\ router \in {"off", "starting", "up"}
    /\ tunnel \in TunnelStates
    /\ loop \in {"off", "sleep", "wait"}
    /\ engine \in [Engines -> {"off", "starting", "up", "dead"}]
    /\ TunnelOfSite
    /\ EnginesOfPreset

RequestsKnown == \A x \in Senders : req[x] # None => req[x].url \in KnownUrls

\* What a gateway holds of this machine is its own, and an engine is offered only
\* as long as the gateway holds its adapter.
HeldKnown ==
    /\ table \subseteq KnownUrls
    /\ offered \subseteq site.engines \intersect table

GatewayFits ==
    /\ req \in [Senders -> Requests \union {None}]
    /\ RequestsKnown
    /\ HeldKnown

CommandTypes == [todo : Seq(Steps), model : Engines \union {None}, http2 : BOOLEAN]

\* A command with a step on an engine was given one of the preset's.
CommandFits(c) == c.model \in site.engines \/ c.todo \in Seq(MachineSteps)

ShellsFit ==
    /\ shell \in [Shells -> CommandTypes]
    /\ \A s \in Shells : shell[s].todo = <<>> => shell[s] = Idle
    /\ \A s \in Shells : CommandFits(shell[s])

SessionsInv == SessionsFit /\ GatewayFits /\ ShellsFit

-----------------------------------------------------------------------------
LEMMA SiteTypes ==
  ASSUME site \in Sites
  PROVE  /\ site.engines \subseteq Engines
         /\ site.ownUrl \in BOOLEAN /\ site.token \in BOOLEAN
         /\ OwnUrls \subseteq QuickUrls \union {Plain, OwnUrl}
         /\ KnownUrls \subseteq Urls
         /\ KnownUrls \intersect Engines = site.engines
<1>1. site.engines \subseteq Engines /\ site.ownUrl \in BOOLEAN /\ site.token \in BOOLEAN
  BY SitesAssumption
<1>2. OwnUrls \subseteq QuickUrls \union {Plain, OwnUrl}
  BY DEF OwnUrls
<1> QED
  BY <1>1, <1>2, UrlsAssumption DEF KnownUrls, Urls

LEMMA PeerUrlIsOwn ==
  ASSUME TunnelOfSite PROVE PeerUrl \in KnownUrls
BY DEF TunnelOfSite, PeerUrl, KnownUrls, OwnUrls

LEMMA InvGivesTypes == SessionsInv => TypeOK
<1> SUFFICES ASSUME SessionsInv PROVE TypeOK
  OBVIOUS
<1>1. /\ site.engines \subseteq Engines /\ KnownUrls \subseteq Urls
  BY SiteTypes DEF SessionsInv, SessionsFit
<1> QED
  BY <1>1 DEF SessionsInv, SessionsFit, GatewayFits, ShellsFit, HeldKnown, CommandTypes, TypeOK

-----------------------------------------------------------------------------
(* What becomes of a command *)

\* The rest of a sequence is one of the same steps.
LEMMA RestOf ==
  ASSUME NEW S, NEW t \in Seq(S), NEW n \in Nat
  PROVE  SubSeq(t, n + 1, Len(t)) \in Seq(S)
<1>1. Len(t) \in Int /\ n + 1 \in Int /\ \A i \in n + 1 .. Len(t) : t[i] \in S
  OBVIOUS
<1> DEFINE a == n + 1
           l == Len(t)
<1> HIDE DEF a, l
<1>2. a \in Int /\ l \in Int /\ \A i \in a .. l : t[i] \in S
  BY <1>1 DEF a, l
<1>3. SubSeq(t, a, l) \in Seq(S)
  BY <1>2, SubSeqProperties
<1> QED
  BY <1>3 DEF a, l

LEMMA IdleFits == Idle \in CommandTypes /\ CommandFits(Idle)
BY DEF Idle, CommandTypes, CommandFits

\* One shell's command is replaced by another that fits.
LEMMA ShellReplaced ==
  ASSUME ShellsFit, site' = site, NEW s \in Shells, NEW c \in CommandTypes,
         CommandFits(c), c.todo = <<>> => c = Idle,
         shell' = [shell EXCEPT ![s] = c]
  PROVE  ShellsFit'
<1>1. shell' \in [Shells -> CommandTypes]
  BY DEF ShellsFit
<1>2. \A r \in Shells : shell'[r] = IF r = s THEN c ELSE shell[r]
  BY DEF ShellsFit
<1> QED
  BY <1>1, <1>2 DEF ShellsFit, CommandFits

LEMMA DieFits ==
  ASSUME ShellsFit, site' = site, NEW s \in Shells, Die(s)
  PROVE  ShellsFit'
BY IdleFits, ShellReplaced DEF Die

LEMMA GoOnFits ==
  ASSUME ShellsFit, site' = site, NEW s \in Shells, NEW n \in Nat, GoOn(s, n)
  PROVE  ShellsFit'
<1> DEFINE rest == SubSeq(shell[s].todo, n + 1, Len(shell[s].todo))
           c == IF rest = <<>> THEN Idle ELSE [shell[s] EXCEPT !.todo = rest]
<1>1. shell[s] \in CommandTypes /\ shell[s].todo \in Seq(Steps) /\ CommandFits(shell[s])
  BY DEF ShellsFit, CommandTypes
<1>2. rest \in Seq(Steps) /\ (shell[s].todo \in Seq(MachineSteps) => rest \in Seq(MachineSteps))
  BY <1>1, RestOf
<1>3. shell' = [shell EXCEPT ![s] = c]
  BY DEF GoOn, ShellsFit
<1> HIDE DEF rest
<1>4. c \in CommandTypes /\ CommandFits(c) /\ (c.todo = <<>> => c = Idle)
  <2>1. CASE rest = <<>>
    BY <2>1, IdleFits
  <2>2. CASE rest # <<>>
    BY <2>2, <1>1, <1>2 DEF CommandTypes, CommandFits
  <2> QED
    BY <2>1, <2>2
<1> HIDE DEF c
<1> QED
  BY <1>3, <1>4, ShellReplaced

LEMMA StepsOnMachine ==
  /\ Serve \in Seq(MachineSteps) /\ TunnelUp \in Seq(MachineSteps) /\ Stop \in Seq(MachineSteps)
  /\ Seq(MachineSteps) \subseteq Seq(Steps)
<1>1. Serve \in Seq(MachineSteps)
  BY DEF Serve, MachineSteps
<1>2. TunnelUp \in Seq(MachineSteps)
  BY DEF TunnelUp, MachineSteps
<1>3. Stop \in Seq(MachineSteps)
  BY DEF Stop, MachineSteps
<1>4. Seq(MachineSteps) \subseteq Seq(Steps)
  BY DEF Steps
<1> QED
  BY <1>1, <1>2, <1>3, <1>4

\* A step on an engine is on one of the preset.
LEMMA OnAnEngine ==
  ASSUME ShellsFit, NEW s \in Shells, NEW step \in EngineSteps, At(s, step)
  PROVE  shell[s].model \in site.engines
<1> SUFFICES ASSUME shell[s].todo \in Seq(MachineSteps) PROVE FALSE
  BY DEF ShellsFit, CommandFits
<1>1. Head(shell[s].todo) \in MachineSteps
  BY HeadTailProperties DEF At
<1> QED
  BY <1>1 DEF At, MachineSteps, EngineSteps

-----------------------------------------------------------------------------
(* Commands are given *)

LEMMA Concatenated ==
  ASSUME NEW S, NEW a \in Seq(S), NEW b \in Seq(S)
  PROVE  a \o b \in Seq(S) /\ (b # <<>> => a \o b # <<>>)
<1>1. a \o b \in Seq(S) /\ Len(a \o b) = Len(a) + Len(b)
  BY ConcatProperties
<1>2. ASSUME b # <<>>, a \o b = <<>> PROVE FALSE
  <2>1. Len(a) \in Nat /\ Len(b) \in Nat /\ Len(b) # 0
    BY <1>2
  <2>2. Len(a) + Len(b) = 0
    BY <1>1, <1>2
  <2> QED
    BY <2>1, <2>2
<1> QED
  BY <1>1, <1>2

LEMMA ProgramsFit ==
  /\ \A cmd \in MachineCmds : Program(cmd) \in Seq(MachineSteps)
  /\ \A cmd \in EngineCmds : Program(cmd) \in Seq(Steps)
  /\ \A cmd \in Commands : Program(cmd) # <<>>
<1> DEFINE leaving == <<"unbeat", "deregister", "replied", "has tunnel", "tunnel off">>
<1>1. TunnelUp \o Serve \in Seq(MachineSteps) /\ <<>> \o Serve = Serve
  BY StepsOnMachine, Concatenated, ConcatEmptySeq
<1>2. leaving \in Seq(MachineSteps)
  BY DEF MachineSteps
<1>3. leaving \o Stop \in Seq(MachineSteps)
  <2> HIDE DEF leaving
  <2> QED
    BY <1>2, StepsOnMachine, Concatenated
<1>4. <<"tunnel off">> \in Seq(MachineSteps)
  BY DEF MachineSteps
<1>5. <<"running">> \in Seq(Steps) /\ <<"old engine", "engine", "answers">> \in Seq(Steps)
  BY DEF Steps, MachineSteps, EngineSteps
<1>6. <<"running">> \o Serve \in Seq(Steps)
  BY <1>5, StepsOnMachine, Concatenated
<1>7. (<<"running">> \o Serve) \o <<"old engine", "engine", "answers">> \in Seq(Steps)
  BY <1>5, <1>6, Concatenated
<1>8. <<"disown", "replied", "engine off">> \in Seq(Steps)
  BY DEF Steps, MachineSteps, EngineSteps
<1>9. /\ Program("join") = (IF WantsTunnel THEN TunnelUp ELSE <<>>) \o Serve
      /\ Program("leave") = leaving \o Stop
      /\ Program("serve") = Serve
      /\ Program("stop") = Stop
      /\ Program("tunnel up") = TunnelUp
      /\ Program("tunnel down") = <<"tunnel off">>
      /\ Program("up") = (<<"running">> \o Serve) \o <<"old engine", "engine", "answers">>
      /\ Program("down") = <<"disown", "replied", "engine off">>
  BY DEF Program
<1> HIDE DEF leaving
<1>10. \A cmd \in MachineCmds : Program(cmd) \in Seq(MachineSteps)
  <2>1. Program("join") \in Seq(MachineSteps)
    <3>1. CASE WantsTunnel
      BY <3>1, <1>1, <1>9
    <3>2. CASE ~WantsTunnel
      BY <3>2, <1>1, <1>9, StepsOnMachine
    <3> QED
      BY <3>1, <3>2
  <2> QED
    BY <2>1, <1>3, <1>4, <1>9, StepsOnMachine DEF MachineCmds
<1>11. \A cmd \in EngineCmds : Program(cmd) \in Seq(Steps)
  BY <1>7, <1>8, <1>9 DEF EngineCmds
<1>12. \A cmd \in Commands : Program(cmd) # <<>>
  <2>1. /\ Serve # <<>> /\ Stop # <<>> /\ TunnelUp # <<>>
        /\ <<"old engine", "engine", "answers">> # <<>> /\ <<"tunnel off">> # <<>>
        /\ <<"disown", "replied", "engine off">> # <<>>
    BY DEF Serve, Stop, TunnelUp
  <2>2. TunnelUp \o Serve # <<>> /\ leaving \o Stop # <<>>
    BY <2>1, <1>2, StepsOnMachine, Concatenated
  <2>3. (<<"running">> \o Serve) \o <<"old engine", "engine", "answers">> # <<>>
    BY <2>1, <1>5, <1>6, Concatenated
  <2>4. Program("join") # <<>>
    <3>1. CASE WantsTunnel
      BY <3>1, <2>2, <1>9
    <3>2. CASE ~WantsTunnel
      BY <3>2, <2>1, <1>1, <1>9
    <3> QED
      BY <3>1, <3>2
  <2>5. \A cmd \in {"join", "leave", "serve", "stop", "tunnel up", "tunnel down", "up", "down"} :
          Program(cmd) # <<>>
    BY <2>1, <2>2, <2>3, <2>4, <1>9
  <2> QED
    BY <2>5 DEF Commands, MachineCmds, EngineCmds
<1> QED
  BY <1>10, <1>11, <1>12

LEMMA RunFits ==
  ASSUME SessionsInv, NEW s \in Shells, NEW cmd \in Commands, NEW m \in Engines \union {None},
         Run(s, cmd, m), cmd \in EngineCmds => m \in Engines
  PROVE  SessionsInv'
<1> DEFINE c == [Idle EXCEPT !.todo = Program(cmd), !.model = m]
<1>1. Program(cmd) \in Seq(Steps) /\ Program(cmd) # <<>>
  BY ProgramsFit, StepsOnMachine DEF Commands
<1>2. c.todo = Program(cmd) /\ c.model = m /\ c \in CommandTypes
  BY <1>1 DEF CommandTypes, Idle
<1>3. CommandFits(c)
  <2>1. CASE cmd \in MachineCmds
    BY <2>1, <1>2, ProgramsFit DEF CommandFits
  <2>2. CASE cmd \in EngineCmds
    BY <2>2, <1>2, NoneAssumption DEF CommandFits, Run
  <2> QED
    BY <2>1, <2>2 DEF Commands
<1>4. shell' = [shell EXCEPT ![s] = c]
  BY DEF Run
<1> HIDE DEF c
<1>5. ShellsFit'
  BY <1>1, <1>2, <1>3, <1>4, ShellReplaced DEF Run, SessionsInv
<1>6. SessionsFit' /\ GatewayFits'
  BY DEF Run, SessionsInv, SessionsFit, GatewayFits, RequestsKnown, HeldKnown, KnownUrls,
         OwnUrls, TunnelOfSite, EnginesOfPreset, HasAdapter, sessionVars, gatewayVars
<1> QED
  BY <1>5, <1>6 DEF SessionsInv

-----------------------------------------------------------------------------
(* What runs in the sessions, and the gateway *)

\* What is announced of a machine is known, and stays known as its settings stay.
LEMMA KnownStay ==
  ASSUME site' = site
  PROVE  /\ OwnUrls' = OwnUrls /\ KnownUrls' = KnownUrls
         /\ UNCHANGED <<sessionVars>> /\ SessionsFit => SessionsFit'
         /\ UNCHANGED <<req, gatewayVars>> /\ GatewayFits => GatewayFits'
         /\ UNCHANGED shell /\ ShellsFit => ShellsFit'
<1>1. OwnUrls' = OwnUrls /\ KnownUrls' = KnownUrls
  BY DEF OwnUrls, KnownUrls
<1>2. UNCHANGED <<sessionVars>> /\ SessionsFit => SessionsFit'
  BY DEF SessionsFit, TunnelOfSite, EnginesOfPreset, HasAdapter, sessionVars
<1>3. UNCHANGED <<req, gatewayVars>> /\ GatewayFits => GatewayFits'
  BY <1>1 DEF GatewayFits, RequestsKnown, HeldKnown, gatewayVars
<1>4. UNCHANGED shell /\ ShellsFit => ShellsFit'
  BY DEF ShellsFit, CommandFits
<1> QED
  BY <1>1, <1>2, <1>3, <1>4

\* A request for a known URL takes the place of an earlier one.
LEMMA Requested ==
  ASSUME site \in Sites, GatewayFits, site' = site, UNCHANGED gatewayVars, NEW x \in Senders,
         NEW kind \in {"register", "deregister"}, NEW u \in KnownUrls,
         req' = [req EXCEPT ![x] = [kind |-> kind, url |-> u]]
  PROVE  GatewayFits'
<1>1. [kind |-> kind, url |-> u] \in Requests
  BY SiteTypes DEF Requests
<1> QED
  BY <1>1, KnownStay DEF GatewayFits, RequestsKnown, HeldKnown, gatewayVars

\* A request is killed, or has been answered.
LEMMA Withdrawn ==
  ASSUME GatewayFits, site' = site, UNCHANGED gatewayVars, NEW x \in Senders,
         req' \in {req, [req EXCEPT ![x] = None]}
  PROVE  GatewayFits'
BY KnownStay DEF GatewayFits, RequestsKnown, HeldKnown, gatewayVars

\* An engine of the preset changes its state.
LEMMA EngineChanged ==
  ASSUME SessionsFit, UNCHANGED <<site, router, tunnel, loop>>, NEW m \in site.engines,
         NEW e \in {"off", "starting", "up", "dead"}, engine' = [engine EXCEPT ![m] = e]
  PROVE  SessionsFit'
BY DEF SessionsFit, TunnelOfSite, EnginesOfPreset, HasAdapter

LEMMA SessionStep ==
  ASSUME SessionsInv, SessionNext PROVE SessionsInv'
<1> USE DEF SessionsInv
<1>1. site' = site /\ UNCHANGED shell /\ ShellsFit'
  BY KnownStay DEF SessionNext, RouterHealthy, RouterExits, TunnelConnects, TunnelExits, Beat,
                   BeatOver, AdapterBeats, EngineHealthy, EngineExits, AdapterExits
<1>2. CASE RouterHealthy \/ RouterExits \/ TunnelConnects \/ TunnelExits \/ BeatOver
  <2>1. UNCHANGED <<req, gatewayVars, engine>>
    BY <1>2 DEF RouterHealthy, RouterExits, TunnelConnects, TunnelExits, BeatOver
  <2>2. GatewayFits'
    BY <1>1, <2>1, KnownStay
  <2>3. /\ router' \in {"off", "starting", "up"} /\ tunnel' \in TunnelStates
        /\ loop' \in {"off", "sleep", "wait"} /\ TunnelOfSite'
    BY <1>2, UrlsAssumption DEF SessionsFit, RouterHealthy, RouterExits, TunnelConnects,
            TunnelExits, BeatOver, TunnelOfSite, TunnelStates
  <2> QED
    BY <1>1, <2>1, <2>2, <2>3 DEF SessionsFit, EnginesOfPreset, HasAdapter
<1>3. CASE Beat
  <2>1. UrlOfBeat \in KnownUrls
    BY PeerUrlIsOwn DEF UrlOfBeat, SessionsFit
  <2>2. GatewayFits'
    BY <1>1, <1>3, <2>1, Requested DEF Beat, Senders, SessionsFit
  <2>3. SessionsFit'
    BY <1>1, <1>3 DEF Beat, SessionsFit, TunnelOfSite, EnginesOfPreset, HasAdapter
  <2> QED
    BY <1>1, <2>2, <2>3
<1>4. ASSUME NEW m \in Engines, AdapterBeats(m) PROVE SessionsInv'
  <2>1. m \in KnownUrls
    BY <1>4 DEF AdapterBeats, SessionsFit, EnginesOfPreset, KnownUrls
  <2>2. GatewayFits'
    BY <1>1, <1>4, <2>1, Requested DEF AdapterBeats, Senders, SessionsFit
  <2>3. SessionsFit'
    BY <1>1, <1>4, KnownStay DEF AdapterBeats
  <2> QED
    BY <1>1, <2>2, <2>3
<1>5. ASSUME NEW m \in Engines, EngineHealthy(m) \/ EngineExits(m) \/ AdapterExits(m)
      PROVE  SessionsInv'
  <2>1. m \in site.engines
    BY <1>5 DEF EngineHealthy, EngineExits, AdapterExits, SessionsFit, EnginesOfPreset, HasAdapter
  <2>2. SessionsFit'
    BY <1>5, <2>1, EngineChanged DEF EngineHealthy, EngineExits, AdapterExits
  <2>3. GatewayFits'
    BY <1>1, <1>5, KnownStay DEF EngineHealthy, EngineExits, AdapterExits
  <2> QED
    BY <1>1, <2>2, <2>3
<1> QED
  BY <1>2, <1>3, <1>4, <1>5 DEF SessionNext

LEMMA GatewayStep ==
  ASSUME SessionsInv, GatewayNext PROVE SessionsInv'
<1> USE DEF SessionsInv
<1>1. site' = site /\ UNCHANGED <<sessionVars, shell>>
  BY DEF GatewayNext, Deliver, Expire, Poll
<1>2. ShellsFit' /\ SessionsFit' /\ KnownUrls' = KnownUrls
  BY <1>1, KnownStay
<1>3. ASSUME NEW x \in Senders, Deliver(x) PROVE GatewayFits'
  <2>1. req[x] # None /\ req[x].url \in KnownUrls /\ req' = [req EXCEPT ![x] = None]
    BY <1>3 DEF Deliver, GatewayFits, RequestsKnown
  <2>2. req' \in [Senders -> Requests \union {None}] /\ RequestsKnown'
    BY <1>2, <2>1 DEF GatewayFits, RequestsKnown
  <2>3. HeldKnown'
    BY <1>1, <1>2, <1>3, <2>1 DEF Deliver, GatewayFits, HeldKnown, OfferedWithout
  <2> QED
    BY <2>2, <2>3 DEF GatewayFits
<1>4. ASSUME NEW u \in Urls, Expire(u) PROVE GatewayFits'
  BY <1>1, <1>2, <1>4 DEF Expire, GatewayFits, RequestsKnown, HeldKnown, OfferedWithout
<1>5. ASSUME NEW m \in Engines, Poll(m) PROVE GatewayFits'
  <2>1. m \in site.engines
    BY <1>5, SiteTypes DEF Poll, GatewayFits, HeldKnown, SessionsFit
  <2> QED
    BY <1>1, <1>2, <1>5, <2>1 DEF Poll, GatewayFits, RequestsKnown, HeldKnown
<1> QED
  BY <1>2, <1>3, <1>4, <1>5 DEF GatewayNext

-----------------------------------------------------------------------------
(* The steps of a command *)

\* Steps that change nothing but the command.
LEMMA LookingStep ==
  ASSUME SessionsInv, NEW s \in Shells,
         \/ LooksForRouter(s) \/ AwaitsRouter(s) \/ LooksForLoop(s) \/ GetsReply(s)
         \/ LooksForTunnel(s)
         \/ AwaitsUrl(s) \/ LooksForTunnelToStop(s) \/ NeedsRouter(s) \/ AwaitsEngine(s)
         \/ GivesUp(s)
  PROVE  SessionsInv'
<1>1. UNCHANGED <<site, sessionVars, req, gatewayVars>>
  BY DEF LooksForRouter, AwaitsRouter, LooksForLoop, GetsReply, LooksForTunnel, AwaitsUrl,
         LooksForTunnelToStop, NeedsRouter, AwaitsEngine, GivesUp
<1>2. Die(s) \/ \E n \in Nat : GoOn(s, n)
  <2>1. Len(Serve) = 5
    BY DEF Serve
  <2>2. CASE NeedsRouter(s)
    BY <2>1, <2>2 DEF NeedsRouter
  <2>3. CASE LooksForRouter(s) \/ LooksForLoop(s) \/ LooksForTunnel(s) \/ LooksForTunnelToStop(s)
    BY <2>3 DEF LooksForRouter, LooksForLoop, LooksForTunnel, LooksForTunnelToStop
  <2>4. CASE AwaitsRouter(s) \/ GetsReply(s) \/ AwaitsUrl(s) \/ AwaitsEngine(s) \/ GivesUp(s)
    BY <2>4 DEF AwaitsRouter, GetsReply, AwaitsUrl, AwaitsEngine, GivesUp
  <2> QED
    BY <2>2, <2>3, <2>4
<1>3. ShellsFit'
  BY <1>1, <1>2, DieFits, GoOnFits DEF SessionsInv
<1> QED
  BY <1>1, <1>3, KnownStay DEF SessionsInv

\* cloudflared is started over HTTP/2.
LEMMA AgainFits ==
  ASSUME ShellsFit, NEW s \in Shells, site' = site, At(s, "dialed"),
         shell' = [shell EXCEPT ![s] = Again(s)]
  PROVE  ShellsFit'
<1>1. /\ shell[s] \in CommandTypes /\ CommandFits(shell[s])
      /\ shell[s].todo \in Seq(Steps) /\ shell[s].todo # <<>>
  BY DEF ShellsFit, CommandTypes, At
<1> DEFINE more == TunnelUp \o Tail(shell[s].todo)
<1>2. \A S : shell[s].todo \in Seq(S) /\ TunnelUp \in Seq(S) =>
               more \in Seq(S) /\ more # <<>>
  <2> SUFFICES ASSUME NEW S, shell[s].todo \in Seq(S), TunnelUp \in Seq(S)
               PROVE  more \in Seq(S) /\ more # <<>>
    OBVIOUS
  <2>1. Tail(shell[s].todo) \in Seq(S)
    BY <1>1, HeadTailProperties
  <2>2. more \in Seq(S) /\ Len(more) = Len(TunnelUp) + Len(Tail(shell[s].todo))
    BY <2>1, ConcatProperties
  <2>3. Len(TunnelUp) = 4 /\ Len(Tail(shell[s].todo)) \in Nat
    <3>1. Len(TunnelUp) = 4
      BY DEF TunnelUp
    <3> QED
      BY <2>1, <3>1
  <2> DEFINE l == Len(Tail(shell[s].todo))
  <2> HIDE DEF more, l
  <2>4. Len(more) = 4 + l /\ l \in Nat
    BY <2>2, <2>3 DEF l
  <2>5. Len(more) # 0
    BY <2>4
  <2> QED
    BY <2>2, <2>5
<1>3. more \in Seq(Steps) /\ more # <<>>
  BY <1>1, <1>2, StepsOnMachine
<1>4. shell[s].todo \in Seq(MachineSteps) => more \in Seq(MachineSteps)
  BY <1>2, StepsOnMachine
<1> DEFINE c == [shell[s] EXCEPT !.todo = more, !.http2 = Http2(s)]
<1>5. Again(s) = c
  BY DEF Again
<1> HIDE DEF more
<1>6. c \in CommandTypes /\ c.todo = more /\ c.model = shell[s].model
  BY <1>1, <1>3 DEF CommandTypes, Http2
<1>7. CommandFits(c)
  BY <1>1, <1>4, <1>6 DEF CommandFits
<1> HIDE DEF c
<1> QED
  BY <1>3, <1>5, <1>6, <1>7, ShellReplaced

\* Steps that start or stop the router, the loop or the tunnel.
LEMMA MachineStep ==
  ASSUME SessionsInv, NEW s \in Shells,
         \/ StartsRouter(s) \/ StartsLoop(s) \/ KillsRouter(s)
         \/ EmptiesLog(s) \/ StartsTunnel(s) \/ LooksIntoLog(s) \/ KillsTunnel(s)
  PROVE  SessionsInv'
<1>1. UNCHANGED <<site, engine, req, gatewayVars>>
  BY DEF StartsRouter, StartsLoop, KillsRouter, EmptiesLog, StartsTunnel, LooksIntoLog, KillsTunnel
<1>2. ShellsFit'
  <2>1. CASE Die(s) \/ GoOn(s, 1)
    BY <1>1, <2>1, DieFits, GoOnFits DEF SessionsInv
  <2>2. CASE At(s, "dialed") /\ shell' = [shell EXCEPT ![s] = Again(s)]
    BY <1>1, <2>2, AgainFits DEF SessionsInv
  <2> QED
    BY <2>1, <2>2 DEF StartsRouter, StartsLoop, KillsRouter, EmptiesLog, StartsTunnel, LooksIntoLog,
                      KillsTunnel
<1>3. router' \in {"off", "starting", "up"} /\ loop' \in {"off", "sleep", "wait"}
  BY DEF SessionsInv, SessionsFit, StartsRouter, StartsLoop, KillsRouter, EmptiesLog, StartsTunnel,
         LooksIntoLog, KillsTunnel
<1>4. tunnel' \in {tunnel, "off", "dialing", "lost"}
  BY DEF StartsRouter, StartsLoop, KillsRouter, EmptiesLog, StartsTunnel, LooksIntoLog, KillsTunnel
<1>5. tunnel' \in TunnelStates /\ TunnelOfSite'
  BY <1>1, <1>4, UrlsAssumption DEF SessionsInv, SessionsFit, TunnelStates, TunnelOfSite
<1>6. SessionsFit'
  BY <1>1, <1>3, <1>5 DEF SessionsInv, SessionsFit, EnginesOfPreset, HasAdapter
<1> QED
  BY <1>1, <1>2, <1>6, KnownStay DEF SessionsInv

\* Steps that send a request, or kill who sent one.
LEMMA AskingStep ==
  ASSUME SessionsInv, NEW s \in Shells, KillsLoop(s) \/ Deregisters(s) \/ DisownsEngine(s)
  PROVE  SessionsInv'
<1> USE DEF SessionsInv
<1>1. /\ UNCHANGED <<site, router, tunnel, engine, gatewayVars>>
      /\ loop' \in {loop, "off"}
  BY DEF KillsLoop, Deregisters, DisownsEngine, sessionVars
<1>2. ShellsFit'
  BY <1>1, GoOnFits DEF KillsLoop, Deregisters, DisownsEngine
<1>3. SessionsFit'
  BY <1>1 DEF SessionsFit, TunnelOfSite, EnginesOfPreset, HasAdapter
<1>4. CASE KillsLoop(s)
  <2>1. GatewayFits'
    BY <1>1, <1>4, Withdrawn DEF KillsLoop, Senders
  <2> QED
    BY <1>2, <1>3, <2>1
<1>5. CASE Deregisters(s)
  <2>1. PeerUrl \in KnownUrls
    BY PeerUrlIsOwn DEF SessionsFit
  <2>2. GatewayFits'
    BY <1>1, <1>5, <2>1, Requested DEF Deregisters, Senders, SessionsFit
  <2> QED
    BY <1>2, <1>3, <2>2
<1>6. CASE DisownsEngine(s)
  <2>1. shell[s].model \in KnownUrls
    BY <1>6, OnAnEngine DEF DisownsEngine, EngineSteps, KnownUrls
  <2>2. CASE req' = req
    BY <1>1, <1>2, <1>3, <2>2, KnownStay
  <2>3. CASE req' = [req EXCEPT ![s] = [kind |-> "deregister", url |-> shell[s].model]]
    <3>1. GatewayFits'
      BY <1>1, <2>1, <2>3, Requested DEF Senders, SessionsFit
    <3> QED
      BY <1>2, <1>3, <3>1
  <2> QED
    BY <1>6, <2>2, <2>3 DEF DisownsEngine
<1> QED
  BY <1>4, <1>5, <1>6

\* Steps that start or stop an engine.
LEMMA EngineStep ==
  ASSUME SessionsInv, NEW s \in Shells,
         KillsOldEngine(s) \/ StartsEngine(s) \/ KillsEngine(s)
  PROVE  SessionsInv'
<1> USE DEF SessionsInv
<1> DEFINE m == shell[s].model
<1>1. m \in site.engines /\ m \in Engines
  BY OnAnEngine, SiteTypes DEF KillsOldEngine, StartsEngine, KillsEngine, EngineSteps, SessionsFit
<1>2. CASE EndsEngine(s, m)
  <2>1. UNCHANGED <<site, router, tunnel, loop, gatewayVars>> /\ GoOn(s, 1)
    BY <1>2 DEF EndsEngine
  <2>2. SessionsFit'
    BY <1>1, <1>2, <2>1, EngineChanged DEF EndsEngine
  <2>3. GatewayFits'
    BY <1>1, <1>2, <2>1, Withdrawn DEF EndsEngine, Senders
  <2> QED
    BY <2>1, <2>2, <2>3, GoOnFits
<1>3. CASE StartsEngine(s)
  <2>1. UNCHANGED <<site, router, tunnel, loop, req, gatewayVars>>
    BY <1>3 DEF StartsEngine
  <2>2. ShellsFit'
    BY <1>3, <2>1, DieFits, GoOnFits DEF StartsEngine
  <2>3. engine' = engine \/ engine' = [engine EXCEPT ![m] = "starting"]
    BY <1>3 DEF StartsEngine
  <2>4. SessionsFit'
    <3>1. CASE engine' = engine
      BY <2>1, <3>1, KnownStay DEF sessionVars
    <3>2. CASE engine' = [engine EXCEPT ![m] = "starting"]
      BY <1>1, <2>1, <3>2, EngineChanged
    <3> QED
      BY <2>3, <3>1, <3>2
  <2>5. GatewayFits'
    BY <2>1, KnownStay
  <2> QED
    BY <2>2, <2>4, <2>5
<1> QED
  BY <1>2, <1>3 DEF KillsOldEngine, KillsEngine

LEMMA ShellStep ==
  ASSUME SessionsInv, ShellNext PROVE SessionsInv'
<1>1. ASSUME NEW s \in Shells, NEW cmd \in MachineCmds, Run(s, cmd, None) PROVE SessionsInv'
  <2>1. cmd \in Commands /\ cmd \notin EngineCmds
    BY DEF Commands, MachineCmds, EngineCmds
  <2> QED
    BY <1>1, <2>1, RunFits
<1>2. ASSUME NEW s \in Shells, NEW cmd \in EngineCmds, NEW m \in Engines, Run(s, cmd, m)
      PROVE  SessionsInv'
  BY <1>2, RunFits DEF Commands
<1>3. ASSUME NEW s \in Shells, Step(s) \/ GivesUp(s) PROVE SessionsInv'
  BY <1>3, LookingStep, MachineStep, AskingStep, EngineStep DEF Step
<1> QED
  BY <1>1, <1>2, <1>3 DEF ShellNext

LEMMA SessionsInvariant == Spec => []SessionsInv
<1>1. Init => SessionsInv
  <2> SUFFICES ASSUME Init PROVE SessionsInv
    OBVIOUS
  <2>1. SessionsFit
    BY UrlsAssumption DEF Init, SessionsFit, TunnelOfSite, EnginesOfPreset, HasAdapter,
                          TunnelStates
  <2>2. GatewayFits
    BY DEF Init, GatewayFits, RequestsKnown, HeldKnown
  <2>3. ShellsFit
    BY IdleFits DEF Init, ShellsFit
  <2> QED
    BY <2>1, <2>2, <2>3 DEF SessionsInv
<1>2. SessionsInv /\ [Next]_vars => SessionsInv'
  <2> SUFFICES ASSUME SessionsInv, [Next]_vars PROVE SessionsInv'
    OBVIOUS
  <2>1. CASE UNCHANGED vars
    BY <2>1, KnownStay DEF vars, SessionsInv
  <2> QED
    BY <2>1, SessionStep, GatewayStep, ShellStep DEF Next
<1> QED
  BY <1>1, <1>2, PTL DEF Spec

\* The types of the machine's sessions, of its commands, and of what the gateway holds:
\* no engine is offered whose adapter the gateway does not hold.
THEOREM SessionsTypes == Spec => []TypeOK
BY SessionsInvariant, InvGivesTypes, PTL

\* bin/llm:326-334, peer_url, and the commands that use it: however commands, tunnels and
\* engines interleave, what the gateway is told of a machine, and what it holds, are URLs
\* the machine's settings allow.  With LLM_PEER_URL set no tunnel's URL gets there, with
\* a named tunnel no quick one's, and an engine is offered only if the preset has it.
THEOREM HoldsOnlyItsOwn == Spec => [](RequestsKnown /\ HeldKnown)
<1>1. SessionsInv => RequestsKnown /\ HeldKnown
  BY DEF SessionsInv, GatewayFits
<1> QED
  BY <1>1, SessionsInvariant, PTL

-----------------------------------------------------------------------------
(* The command of an engine *)

\* A command that was rendered passed every check.
Checked == at \in {"start", "adapter", "died"} => ~Refuses

LEMMA EngineInvariant == EngineSpec => [](EngineTypeOK /\ Checked)
<1>1. EngineInit => EngineTypeOK /\ Checked
  BY DEF EngineInit, EngineTypeOK, Checked
<1>2. EngineTypeOK /\ Checked /\ [EngineNext]_engineVars => (EngineTypeOK /\ Checked)'
  <2> SUFFICES ASSUME EngineTypeOK, Checked, [EngineNext]_engineVars
               PROVE  EngineTypeOK' /\ Checked'
    OBVIOUS
  <2>1. section' = section /\ Refuses' = Refuses
    BY DEF EngineNext, RenderRefuses, Render, Start, engineVars, Refuses, NoRepo, NoGguf,
           NoSpeculation, SpecModel, NoProjector, NoDevice, NoTemplate, Unsupported, Given, Engine
  <2>2. CASE UNCHANGED engineVars
    BY <2>1, <2>2 DEF engineVars, EngineTypeOK, Checked
  <2>3. CASE RenderRefuses
    BY <2>1, <2>3 DEF RenderRefuses, EngineTypeOK, Checked
  <2>4. CASE Render
    <3>1. DOMAIN FieldsOf = {"repo", "model_path", "gpu_ids", "ctx_size", "parallel",
                             "mmproj_path", "spec_flag", "extra_args"}
      BY DEF FieldsOf
    <3>2. \A v \in DOMAIN FieldsOf : FieldsOf[v] \subseteq Fields
      <4>1. /\ FieldsOf["repo"] \subseteq Fields /\ FieldsOf["model_path"] \subseteq Fields
            /\ FieldsOf["gpu_ids"] \subseteq Fields /\ FieldsOf["ctx_size"] \subseteq Fields
            /\ FieldsOf["parallel"] \subseteq Fields /\ FieldsOf["mmproj_path"] \subseteq Fields
            /\ FieldsOf["spec_flag"] \subseteq Fields /\ FieldsOf["extra_args"] \subseteq Fields
        BY DEF FieldsOf, Fields, SpecDraftFields
      <4> QED
        BY <3>1, <4>1
    <3>3. carried' \subseteq Fields
      BY <2>4, <3>2 DEF Render
    <3>4. at' = "start"
      BY <2>4 DEF Render
    <3>5. EngineTypeOK'
      BY <2>1, <3>3, <3>4 DEF EngineTypeOK
    <3>6. Checked'
      BY <2>1, <2>4 DEF Render, Checked
    <3> QED
      BY <3>5, <3>6
  <2>5. CASE Start
    BY <2>1, <2>5 DEF Start, EngineTypeOK, Checked
  <2> QED
    BY <2>2, <2>3, <2>4, <2>5 DEF EngineNext
<1> QED
  BY <1>1, <1>2, PTL DEF EngineSpec

\* The types of `llm up` for another engine: what a command carries are fields it knows.
THEOREM EngineTypes == EngineSpec => []EngineTypeOK
BY EngineInvariant, PTL

=============================================================================
