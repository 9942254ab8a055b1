----------------------------- MODULE MCServices -----------------------------
(***************************************************************************)
(* The parts that share no state with each other or with the rest: of the  *)
(* gateway, of the web tools, and the relays in front of a daemon.  A      *)
(* behaviour is one of one of them, and the others stay as they are.       *)
(***************************************************************************)
EXTENDS NameCache, AccessLimits, UsageLog, WebServer, EgressProxy, RelaySupervisor,
        TLC

CONSTANTS
    c1, c2, a1, a2,                     \* callers, addresses
    in, out, x, a, b,                   \* bytes
    t1, t2, n1                          \* leases, and their node

VARIABLE part

vars == <<part, nameVars, limitVars, logVars, webVars, proxyVars, supervisorVars>>

SeqsUpTo(S, n) == UNION {[1 .. k -> S] : k \in 0 .. n}

\* Streams of up to three events: filler, a figure of one digit or of two.
MCStreams ==
    {FlattenSeq(s) : s \in SeqsUpTo({<<x>>, <<in, 1>>, <<in, 1, 2>>, <<out, 2>>}, 3)}

\* Short pages with every kind of byte, longer ones with nested elements, plain text.
MCPages ==
    [text : {TRUE}, html : {TRUE},
     bytes : UNION {SeqsUpTo({"open", "close", a, "&", "<"}, 3),
                    SeqsUpTo({"title", "/title", a}, 3),
                    [1 .. 5 -> {"open", "close", a}]}]
    \union
    [text : BOOLEAN, html : {FALSE},
     bytes : SeqsUpTo({a, b}, 3) \union [1 .. 5 -> {a}]]

MCEngines == <<"brave", "bing", "auto">>

\* Two leases on one node, or one whose daemon has started again on another port:
\* the old step can still have the port.
MCNode == (t1 :> n1) @@ (t2 :> n1)

\* A proxied connection and a supervisor that have ended: their fairness asks for
\* nothing in the behaviours of the other parts.
ProxyOver ==
    /\ handle = "over"
    /\ pipe = [e \in Ends |-> "off"]
    /\ writer = [client |-> "closed", upstream |-> "none"]
    /\ end = [e \in Ends |-> "gone"]
    /\ buffer = [e \in Ends |-> 0] /\ sent = buffer /\ got = buffer
RelaysOver ==
    /\ lease = None /\ current = None /\ want = None /\ forked = None
    /\ proc = [p \in Pids |-> None] /\ pid = [r \in Roles |-> None]
    /\ pc = "exit" /\ then = "exit"
    /\ deaths = 0

Init ==
    /\ part \in {"names", "limits", "log", "web", "proxy", "relays"}
    /\ NamesInit /\ LimitsInit /\ LogInit /\ WebInit
    /\ IF part = "proxy" THEN ProxyInit ELSE ProxyOver
    /\ IF part = "relays" THEN RelaysInit ELSE RelaysOver
    /\ part = "names" \/ addr = ByName
    /\ part = "log" \/ body = <<>>

Names == part = "names" /\ NamesNext
         /\ UNCHANGED <<limitVars, logVars, webVars, proxyVars, supervisorVars>>
LoginsAndChanges == part = "limits" /\ LimitsNext
         /\ UNCHANGED <<nameVars, logVars, webVars, proxyVars, supervisorVars>>
Log == part = "log" /\ LogNext
         /\ UNCHANGED <<nameVars, limitVars, webVars, proxyVars, supervisorVars>>
Web == part = "web" /\ WebNext
         /\ UNCHANGED <<nameVars, limitVars, logVars, proxyVars, supervisorVars>>
Proxy == part = "proxy" /\ ProxyNext
         /\ UNCHANGED <<nameVars, limitVars, logVars, webVars, supervisorVars>>
RelayChanges == part = "relays" /\ RelaysNext
         /\ UNCHANGED <<nameVars, limitVars, logVars, webVars, proxyVars>>

Next ==
    /\ UNCHANGED part
    /\ Names \/ LoginsAndChanges \/ Log \/ Web \/ Proxy \/ RelayChanges

Spec == Init /\ [][Next]_vars /\ ProxyFairness /\ RelaysFairness
=============================================================================
