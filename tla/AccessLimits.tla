---------------------------- MODULE AccessLimits ----------------------------
(***************************************************************************)
(* What the gateway counts against one client address: failed logins and   *)
(* changes asked for on the Models page (login, guard and rate_limited of  *)
(* gateway/llm_gateway.py).  login looks at the failures, gives the event  *)
(* loop away until the form is there, and writes back the list it looked   *)
(* at with its own failure; guard does everything at once.  Addresses are  *)
(* counted apart: one is modelled.  Of the lists of times only what is in  *)
(* them matters, so they are sets, of times numbered where one repeats.    *)
(***************************************************************************)
EXTENDS Naturals, FiniteSets

CONSTANTS
    Logins,         \* POSTs to /login under way at once
    LOGIN_WINDOW, LOGIN_MAX,
    MUTATE_WINDOW, MUTATE_MAX,
    MaxClock,       \* bound: the time a behaviour lasts
    MaxTries,       \* bound: failed logins in one of them, and changes counted at once
    NotPosted

ASSUME WindowsAssumption ==
    /\ {LOGIN_WINDOW, LOGIN_MAX, MUTATE_WINDOW, MUTATE_MAX} \subseteq Nat \ {0}
    /\ {MaxClock, MaxTries} \subseteq Nat

VARIABLES
    time,
    logins,     \* logins[ip]: when it failed
    posted,     \* the failures each login has looked at, while its form comes
    mutations,  \* mutations[ip]: when it asked for a change
    failures,   \* every failed login there was
    changes     \* every change that was let through

limitVars == <<time, logins, posted, mutations, failures, changes>>

Times == 0 .. MaxClock
Events == [at : Times, n : Nat \ {0}]

LimitsTypeOK ==
    /\ time \in Times
    /\ {logins, mutations, failures, changes} \subseteq SUBSET Events
    /\ posted \in [Logins -> [seen : SUBSET Events, at : Times] \union {NotPosted}]

LimitsInit ==
    /\ time = 0
    /\ logins = {} /\ mutations = {}
    /\ posted = [r \in Logins |-> NotPosted]
    /\ failures = {} /\ changes = {}

Within(window, entries) == {e \in entries : time - e.at < window}

\* One more at time t, next to those that are there.
Event(entries, t) ==
    [at |-> t, n |-> Cardinality({e \in entries : e.at = t}) + 1]

\* Old failures are not forgotten.
AllFailures == logins
RecentFailures == Within(LOGIN_WINDOW, logins)

Locked == Cardinality(RecentFailures) >= LOGIN_MAX

LoginRefused ==
    /\ Locked
    /\ logins' = RecentFailures
    /\ UNCHANGED <<time, posted, mutations, failures, changes>>

LoginPosted(r) ==
    /\ ~Locked
    /\ posted[r] = NotPosted
    /\ Cardinality(failures) < MaxTries
    /\ posted' = [posted EXCEPT ![r] = [seen |-> RecentFailures, at |-> time]]
    /\ UNCHANGED <<time, logins, mutations, failures, changes>>

WrongPassword(r) ==
    /\ posted[r] # NotPosted
    /\ LET failure == Event(failures, posted[r].at)
       IN  /\ logins' = posted[r].seen \union {failure}
           /\ failures' = failures \union {failure}
    /\ posted' = [posted EXCEPT ![r] = NotPosted]
    /\ UNCHANGED <<time, mutations, changes>>

RightPassword(r) ==
    /\ posted[r] # NotPosted
    /\ logins' = {}
    /\ posted' = [posted EXCEPT ![r] = NotPosted]
    /\ UNCHANGED <<time, mutations, failures, changes>>

\* The client closes the connection before the form is there.
LoginGone(r) ==
    /\ posted[r] # NotPosted
    /\ posted' = [posted EXCEPT ![r] = NotPosted]
    /\ UNCHANGED <<time, logins, mutations, failures, changes>>

-----------------------------------------------------------------------------
(* Changes *)

\* The request is counted after it was weighed.
TooManyBefore == Cardinality(Within(MUTATE_WINDOW, mutations)) > MUTATE_MAX
TooMany == Cardinality(Within(MUTATE_WINDOW, mutations)) + 1 > MUTATE_MAX

\* guard, for who has the key, or a cookie and the same origin; nobody else is
\* counted.  A refused change counts like any other.
ChangeAsked ==
    /\ Cardinality(mutations) < MaxTries
    /\ LET change == Event(mutations, time)
       IN  /\ mutations' = Within(MUTATE_WINDOW, mutations) \union {change}
           /\ changes' = IF TooMany THEN changes ELSE changes \union {change}
    /\ UNCHANGED <<time, logins, posted, failures>>

LimitsTick ==
    /\ time < MaxClock
    /\ time' = time + 1
    /\ UNCHANGED <<logins, posted, mutations, failures, changes>>

LimitsNext ==
    \/ LoginRefused
    \/ \E r \in Logins : \/ LoginPosted(r) \/ WrongPassword(r)
                         \/ RightPassword(r) \/ LoginGone(r)
    \/ ChangeAsked
    \/ LimitsTick

LimitsSpec == LimitsInit /\ [][LimitsNext]_limitVars

-----------------------------------------------------------------------------
(* Properties *)

\* gateway/llm_gateway.py:27, "failed logins per IP per window": nobody is locked
\* out who has not failed LOGIN_MAX times within the window, although logins of one
\* address overlap, write back lists they looked at before others failed or
\* succeeded, and are refused while it is locked.
LockedForCause == Locked => Cardinality(Within(LOGIN_WINDOW, failures)) >= LOGIN_MAX

\* gateway/llm_gateway.py:28, "model-mutating requests per IP per window": no
\* window holds more than MUTATE_MAX changes that were let through, whatever was
\* refused in it.
ChangesLimited ==
    \A t \in Times :
        Cardinality({c \in changes : c.at \in t .. t + MUTATE_WINDOW - 1}) <= MUTATE_MAX

=============================================================================
