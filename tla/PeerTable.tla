----------------------------- MODULE PeerTable -----------------------------
(***************************************************************************)
(* What the gateway's table of peers promises to the code that routes      *)
(* requests by it (gateway/llm_gateway.py: the `peers` dict and the `ok`   *)
(* and `models` fields of its records).                                    *)
(*                                                                         *)
(* The table is shared by the heartbeat handlers, the poller and every     *)
(* request in flight.  Whatever order they run in, an entry goes through   *)
(* the steps below and no others: it enters unrouted and with nothing      *)
(* known of it, it becomes routable only once an answer of its router was  *)
(* read, and it leaves with all that was known of it.                      *)
(*                                                                         *)
(* A record that was popped from the dict can still be held by a coroutine *)
(* that captured it.  Writes to such an orphan are seen by nobody, so the  *)
(* table keeps no state for it: they are stuttering steps here.            *)
(***************************************************************************)
EXTENDS FiniteSets

CONSTANTS
    Urls,       \* the base URLs machines register under
    Answers,    \* what a router can answer to GET /models
    Unpolled    \* the `models` of a record no answer was read for: {}

ASSUME UnpolledAssumption == Unpolled \notin Answers

VARIABLES
    peers,      \* the URLs in the dict
    ok,         \* p["ok"]: the gateway sends requests to this peer
    models      \* p["models"]: the last answer read from this peer

tableVars == <<peers, ok, models>>

TableTypeOK ==
    /\ peers \subseteq Urls
    /\ ok \in [Urls -> BOOLEAN]
    /\ models \in [Urls -> Answers \union {Unpolled}]

TableInit ==
    /\ peers = {}
    /\ ok = [u \in Urls |-> FALSE]
    /\ models = [u \in Urls |-> Unpolled]

\* A machine the table does not hold registers.
Insert(u) ==
    /\ u \notin peers
    /\ peers' = peers \union {u}
    /\ UNCHANGED <<ok, models>>

\* Entries are popped: deregistration, missed heartbeats, a new gateway process.
Drop(gone) ==
    /\ gone # {}
    /\ gone \subseteq peers
    /\ peers' = peers \ gone
    /\ ok' = [u \in Urls |-> u \notin gone /\ ok[u]]
    /\ models' = [u \in Urls |-> IF u \in gone THEN Unpolled ELSE models[u]]

\* An answer of the router at u is read; `ok` waits for the detail requests,
\* unless the answer names no loaded model.
Learn(u, a, routable) ==
    /\ u \in peers
    /\ models' = [models EXCEPT ![u] = a]
    /\ ok' = [ok EXCEPT ![u] = routable \/ @]
    /\ UNCHANGED peers

\* The detail requests that follow an answer are over.
Heal(u) ==
    /\ u \in peers
    /\ models[u] # Unpolled
    /\ ok' = [ok EXCEPT ![u] = TRUE]
    /\ UNCHANGED <<peers, models>>

\* A poll or a request did not get through.
Fail(u) ==
    /\ u \in peers
    /\ ok' = [ok EXCEPT ![u] = FALSE]
    /\ UNCHANGED <<peers, models>>

TableNext ==
    \/ \E u \in Urls : Insert(u) \/ Heal(u) \/ Fail(u)
    \/ \E u \in Urls, a \in Answers, routable \in BOOLEAN : Learn(u, a, routable)
    \/ \E gone \in SUBSET peers : Drop(gone)

TableSpec == TableInit /\ [][TableNext]_tableVars

-----------------------------------------------------------------------------
\* A peer requests are sent to is in the table and has answered since it
\* entered it: default_peer and pick never choose a machine that is only known
\* by its own claim in POST /peers/register.
RoutableWasHeard ==
    \A u \in Urls : ok[u] => u \in peers /\ models[u] # Unpolled

=============================================================================
