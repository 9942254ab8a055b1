------------------------------ MODULE NameCache ------------------------------
(***************************************************************************)
(* Where the gateway dials a machine behind https: resolve and its cache   *)
(* _dns, in gateway/llm_gateway.py.  The system's resolver is asked first; *)
(* if it does not know the name, Cloudflare's is, over HTTPS.  Polls,      *)
(* requests and the Models page look names up at the same time, and each   *)
(* lookup gives the event loop away twice.  Entries of different names     *)
(* have nothing to do with each other: one name is modelled.               *)
(***************************************************************************)
EXTENDS Naturals

CONSTANTS
    Callers,    \* coroutines that dial the machine
    Addrs,      \* the addresses its name can have
    ByName,     \* None: no address to dial, httpx is given the name
    DNS_TTL,    \* how long an entry is believed
    LookupMax,  \* the longest lookup, until its caller runs again
    MaxTime,    \* bound: the time a behaviour lasts
    NoEntry

ASSUME AddrsAssumption == ByName \notin Addrs
ASSUME TimesAssumption ==
    DNS_TTL \in Nat \ {0} /\ LookupMax \in Nat /\ MaxTime \in Nat

VARIABLES
    clock,
    addr,       \* the address the name has now, or ByName if it has none
    until,      \* when an address was last right, or a lookup last found none
    cache,      \* _dns[host]
    lookup      \* the lookups, by caller

nameVars == <<clock, addr, until, cache, lookup>>

Answers == Addrs \union {ByName}
NotAsking == [st |-> "none", ip |-> ByName, since |-> 0]
Lookups == [st : {"none", "system", "doh", "told"}, ip : Answers, since : Nat]
Entries == [ip : Answers, ts : Nat]

NamesTypeOK ==
    /\ clock \in Nat
    /\ addr \in Answers
    /\ until \in [Answers -> Nat]
    /\ cache \in Entries \union {NoEntry}
    /\ lookup \in [Callers -> Lookups]

NamesInit ==
    /\ clock = 0
    /\ addr \in Answers
    /\ until = [a \in Answers |-> 0]
    /\ cache = NoEntry
    /\ lookup = [c \in Callers |-> NotAsking]

\* An entry that lapses only if it holds no address.
FreshIfFound == cache # NoEntry /\ (cache.ip # ByName \/ clock - cache.ts < DNS_TTL)

Fresh == cache # NoEntry /\ clock - cache.ts < DNS_TTL

\* A hit is returned at once, and nothing changes.
Ask(c) ==
    /\ lookup[c].st = "none"
    /\ ~Fresh
    /\ lookup' = [lookup EXCEPT ![c].st = "system", ![c].since = clock]
    /\ UNCHANGED <<clock, addr, until, cache>>

Told(c, ip) == lookup' = [lookup EXCEPT ![c].st = "told", ![c].ip = ip]

\* getaddrinfo knows the name: there is no need for an address.  Or the name has
\* no address, or the answer of 1.1.1.1 is an error, or does not come in time: the
\* caller is told the same.
FindsNone(c) ==
    /\ lookup[c].st \in {"system", "doh"}
    /\ Told(c, ByName)
    /\ until' = [until EXCEPT ![ByName] = clock]
    /\ UNCHANGED <<clock, addr, cache>>

SystemFails(c) ==
    /\ lookup[c].st = "system"
    /\ lookup' = [lookup EXCEPT ![c].st = "doh"]
    /\ UNCHANGED <<clock, addr, until, cache>>

DohAnswers(c) ==
    /\ lookup[c].st = "doh"
    /\ addr \in Addrs
    /\ Told(c, addr)
    /\ UNCHANGED <<clock, addr, until, cache>>

\* The entry is stamped when the caller runs again, whatever was stored meanwhile.
Store(c) ==
    /\ lookup[c].st = "told"
    /\ cache' = [ip |-> lookup[c].ip, ts |-> clock]
    /\ lookup' = [lookup EXCEPT ![c] = NotAsking]
    /\ UNCHANGED <<clock, addr, until>>

\* A host getaddrinfo cannot encode, or a 200 of 1.1.1.1 whose JSON is no object with
\* a list of answers: nothing catches what it raises, and nothing is stored.
LookupRaises(c) ==
    /\ lookup[c].st \in {"system", "doh"}
    /\ lookup' = [lookup EXCEPT ![c] = NotAsking]
    /\ UNCHANGED <<clock, addr, until, cache>>

\* The tunnel gets another address, or a new one is known at last.
Move(a) ==
    /\ a # addr
    /\ addr' = a
    /\ until' = [until EXCEPT ![addr] = clock]
    /\ UNCHANGED <<clock, cache, lookup>>

NamesTick ==
    /\ clock < MaxTime
    /\ \A c \in Callers :
          lookup[c].st # "none" => clock < lookup[c].since + LookupMax
    /\ clock' = clock + 1
    /\ UNCHANGED <<addr, until, cache, lookup>>

NamesNext ==
    \/ \E c \in Callers : \/ Ask(c) \/ FindsNone(c) \/ SystemFails(c)
                          \/ DohAnswers(c) \/ LookupRaises(c) \/ Store(c)
    \/ \E a \in Answers : Move(a)
    \/ NamesTick

NamesSpec == NamesInit /\ [][NamesNext]_nameVars

-----------------------------------------------------------------------------
(* Properties *)

\* What resolve returns to a caller now: a hit, or the end of a lookup.
Returned(a) ==
    \/ Fresh /\ cache.ip = a
    \/ \E c \in Callers : lookup[c].st = "told" /\ lookup[c].ip = a

\* gateway/llm_gateway.py:183-203: however lookups of one name overlap, and
\* whichever of them is stored last, nobody dials an address the name has not had
\* for DNS_TTL and one lookup, and no longer than that is a lookup that found
\* nothing believed: a tunnel that moved, or was not yet known, is found again.
AddressFresh ==
    \A a \in Answers :
        Returned(a) => a = addr \/ clock - until[a] < DNS_TTL + LookupMax

=============================================================================
