------------------------- MODULE GatewayPartsProofs -------------------------
(*****************************************************************************)
(* The parts of the gateway and its host that keep no peers: that nobody     *)
(* dials a stale address, that nobody is locked out without cause and no     *)
(* burst of changes gets through, that a torn write costs one record, that   *)
(* the figures logged are those of the whole response, and that the          *)
(* supervisor holds its relays; for any number of callers, logins, changes,  *)
(* records, leases and processes, all times, and all streams.                *)
(*****************************************************************************)
EXTENDS NameCache, AccessLimits, UsageLog, RelaySupervisor, FiniteSetTheorems,
        SequenceTheorems, TLAPS

-----------------------------------------------------------------------------
(* The cache of names *)

\* The entry was right, at the earliest, one lookup before it was stored.
CacheTimely ==
    cache # NoEntry =>
        /\ cache.ts <= clock
        /\ cache.ip = addr \/ cache.ts <= until[cache.ip] + LookupMax

\* No lookup takes longer than it may, and what it was told was right when it was told.
LookupTimely(c) ==
    LET l == lookup[c]
    IN  l.st # "none" =>
          /\ l.since <= clock
          /\ clock <= l.since + LookupMax
          /\ l.st = "told" => l.ip = addr \/ l.since <= until[l.ip]

LookupsTimely == \A c \in Callers : LookupTimely(c)

NoFuture == \A a \in Answers : until[a] <= clock

NamesInv == NamesTypeOK /\ CacheTimely /\ LookupsTimely /\ NoFuture

-----------------------------------------------------------------------------
LEMMA NamesInitInv == NamesInit => NamesInv
<1> USE TimesAssumption DEF NamesInit
<1> SUFFICES ASSUME NamesInit PROVE NamesInv
  OBVIOUS
<1>1. NotAsking \in Lookups
  BY DEF NotAsking, Lookups, Answers
<1>2. NamesTypeOK
  BY <1>1 DEF NamesTypeOK
<1>3. CacheTimely
  BY DEF CacheTimely
<1>4. LookupsTimely
  BY DEF LookupsTimely, LookupTimely, NotAsking
<1>5. NoFuture
  BY DEF NoFuture
<1> QED
  BY <1>2, <1>3, <1>4, <1>5 DEF NamesInv

\* A change of one lookup leaves the others as they are.
LEMMA OneLookup ==
  ASSUME lookup \in [Callers -> Lookups], NEW c \in Callers, NEW l \in Lookups,
         lookup' = [lookup EXCEPT ![c] = l]
  PROVE  /\ lookup' \in [Callers -> Lookups]
         /\ lookup'[c] = l
         /\ \A d \in Callers \ {c} : lookup'[d] = lookup[d]
  OBVIOUS

LEMMA AskInv ==
  ASSUME NamesInv, NEW c \in Callers, Ask(c) PROVE NamesInv'
<1> USE TimesAssumption DEF NamesInv, Ask
<1> DEFINE l == [lookup[c] EXCEPT !.st = "system", !.since = clock]
<1>1. lookup[c] \in Lookups /\ clock \in Nat
  BY DEF NamesTypeOK
<1>2. l \in Lookups /\ l.since = clock /\ l.st = "system"
  BY <1>1 DEF Lookups
<1>3. lookup' = [lookup EXCEPT ![c] = l]
  BY DEF NamesTypeOK
<1> HIDE DEF l
<1>4. /\ lookup' \in [Callers -> Lookups]
      /\ lookup'[c] = l
      /\ \A d \in Callers \ {c} : lookup'[d] = lookup[d]
  BY <1>2, <1>3, OneLookup DEF NamesTypeOK
<1>5. NamesTypeOK'
  BY <1>4 DEF NamesTypeOK
<1>6. CacheTimely' /\ NoFuture'
  BY DEF CacheTimely, NoFuture
<1>7. LookupsTimely'
  <2> SUFFICES ASSUME NEW d \in Callers PROVE LookupTimely(d)'
    BY DEF LookupsTimely
  <2>1. CASE d = c
    BY <2>1, <1>1, <1>2, <1>4 DEF LookupTimely
  <2>2. CASE d # c
    BY <2>2, <1>4 DEF LookupsTimely, LookupTimely
  <2> QED
    BY <2>1, <2>2
<1> QED
  BY <1>5, <1>6, <1>7

LEMMA SystemFailsInv ==
  ASSUME NamesInv, NEW c \in Callers, SystemFails(c) PROVE NamesInv'
<1> USE TimesAssumption DEF NamesInv, SystemFails
<1> DEFINE l == [lookup[c] EXCEPT !.st = "doh"]
<1>1. lookup[c] \in Lookups /\ clock \in Nat /\ addr \in Answers
  BY DEF NamesTypeOK
<1>2. l \in Lookups /\ l.since = lookup[c].since /\ l.st = "doh"
  BY <1>1 DEF Lookups, Answers
<1>3. lookup' = [lookup EXCEPT ![c] = l]
  BY DEF NamesTypeOK
<1> HIDE DEF l
<1>4. /\ lookup' \in [Callers -> Lookups]
      /\ lookup'[c] = l
      /\ \A d \in Callers \ {c} : lookup'[d] = lookup[d]
  BY <1>2, <1>3, OneLookup DEF NamesTypeOK
<1>5. NamesTypeOK'
  BY <1>4, <1>1 DEF NamesTypeOK, Answers
<1>6. CacheTimely' /\ NoFuture'
  BY DEF CacheTimely, NoFuture
<1>7. LookupsTimely'
  <2> SUFFICES ASSUME NEW d \in Callers PROVE LookupTimely(d)'
    BY DEF LookupsTimely
  <2>1. CASE d = c
    BY <2>1, <1>1, <1>2, <1>4 DEF LookupsTimely, LookupTimely, NamesTypeOK, Answers
  <2>2. CASE d # c
    BY <2>2, <1>1, <1>4 DEF LookupsTimely, LookupTimely, NamesTypeOK, NoFuture, Answers, Lookups
  <2> QED
    BY <2>1, <2>2
<1> QED
  BY <1>5, <1>6, <1>7

LEMMA DohAnswersInv ==
  ASSUME NamesInv, NEW c \in Callers, DohAnswers(c) PROVE NamesInv'
<1> USE TimesAssumption DEF NamesInv, DohAnswers
<1> DEFINE l == [lookup[c] EXCEPT !.st = "told", !.ip = addr]
<1>1. lookup[c] \in Lookups /\ clock \in Nat /\ addr \in Answers
  BY DEF NamesTypeOK
<1>2. l \in Lookups /\ l.since = lookup[c].since /\ l.ip = addr
  BY <1>1 DEF Lookups, Answers
<1>3. lookup' = [lookup EXCEPT ![c] = l]
  BY DEF NamesTypeOK, Told
<1> HIDE DEF l
<1>4. /\ lookup' \in [Callers -> Lookups]
      /\ lookup'[c] = l
      /\ \A d \in Callers \ {c} : lookup'[d] = lookup[d]
  BY <1>2, <1>3, OneLookup DEF NamesTypeOK
<1>5. NamesTypeOK'
  BY <1>4, <1>1 DEF NamesTypeOK, Answers
<1>6. CacheTimely' /\ NoFuture'
  BY DEF CacheTimely, NoFuture
<1>7. LookupsTimely'
  <2> SUFFICES ASSUME NEW d \in Callers PROVE LookupTimely(d)'
    BY DEF LookupsTimely
  <2>1. CASE d = c
    BY <2>1, <1>1, <1>2, <1>4 DEF LookupsTimely, LookupTimely, NamesTypeOK, Answers
  <2>2. CASE d # c
    BY <2>2, <1>1, <1>4 DEF LookupsTimely, LookupTimely, NamesTypeOK, NoFuture, Answers, Lookups
  <2> QED
    BY <2>1, <2>2
<1> QED
  BY <1>5, <1>6, <1>7

LEMMA FindsNoneInv ==
  ASSUME NamesInv, NEW c \in Callers, FindsNone(c) PROVE NamesInv'
<1> USE TimesAssumption DEF NamesInv, FindsNone
<1> DEFINE l == [lookup[c] EXCEPT !.st = "told", !.ip = ByName]
<1>1. lookup[c] \in Lookups /\ clock \in Nat /\ addr \in Answers
  BY DEF NamesTypeOK
<1>2. l \in Lookups /\ l.since = lookup[c].since /\ l.ip = ByName
  BY <1>1 DEF Lookups, Answers
<1>3. lookup' = [lookup EXCEPT ![c] = l]
  BY DEF NamesTypeOK, Told
<1> HIDE DEF l
<1>4. /\ lookup' \in [Callers -> Lookups]
      /\ lookup'[c] = l
      /\ \A d \in Callers \ {c} : lookup'[d] = lookup[d]
  BY <1>2, <1>3, OneLookup DEF NamesTypeOK
<1>5. NamesTypeOK'
  BY <1>4, <1>1 DEF NamesTypeOK, Answers
<1>6. CacheTimely' /\ NoFuture'
  BY <1>1 DEF CacheTimely, NoFuture, NamesTypeOK, Answers, Entries
<1>7. LookupsTimely'
  <2> SUFFICES ASSUME NEW d \in Callers PROVE LookupTimely(d)'
    BY DEF LookupsTimely
  <2>1. CASE d = c
    BY <2>1, <1>1, <1>2, <1>4 DEF LookupsTimely, LookupTimely, NamesTypeOK, Answers
  <2>2. CASE d # c
    BY <2>2, <1>1, <1>4 DEF LookupsTimely, LookupTimely, NamesTypeOK, NoFuture, Answers, Lookups
  <2> QED
    BY <2>1, <2>2
<1> QED
  BY <1>5, <1>6, <1>7

LEMMA StoreInv ==
  ASSUME NamesInv, NEW c \in Callers, Store(c) PROVE NamesInv'
<1> USE TimesAssumption DEF NamesInv, Store
<1> DEFINE l == NotAsking
<1>1. lookup[c] \in Lookups /\ clock \in Nat /\ addr \in Answers
  BY DEF NamesTypeOK
<1>2. l \in Lookups /\ l.st = "none"
  BY <1>1 DEF Lookups, Answers, NotAsking
<1>3. lookup' = [lookup EXCEPT ![c] = l]
  BY DEF NamesTypeOK
<1> HIDE DEF l
<1>4. /\ lookup' \in [Callers -> Lookups]
      /\ lookup'[c] = l
      /\ \A d \in Callers \ {c} : lookup'[d] = lookup[d]
  BY <1>2, <1>3, OneLookup DEF NamesTypeOK
<1>5. NamesTypeOK'
  BY <1>4, <1>1 DEF NamesTypeOK, Answers, Entries, Lookups
<1>6. CacheTimely' /\ NoFuture'
  BY <1>1 DEF CacheTimely, NoFuture, LookupsTimely, LookupTimely, NamesTypeOK, Answers, Lookups
<1>7. LookupsTimely'
  <2> SUFFICES ASSUME NEW d \in Callers PROVE LookupTimely(d)'
    BY DEF LookupsTimely
  <2>1. CASE d = c
    BY <2>1, <1>1, <1>2, <1>4 DEF LookupsTimely, LookupTimely, NamesTypeOK, Answers
  <2>2. CASE d # c
    BY <2>2, <1>1, <1>4 DEF LookupsTimely, LookupTimely, NamesTypeOK, NoFuture, Answers, Lookups
  <2> QED
    BY <2>1, <2>2
<1> QED
  BY <1>5, <1>6, <1>7

LEMMA LookupRaisesInv ==
  ASSUME NamesInv, NEW c \in Callers, LookupRaises(c) PROVE NamesInv'
<1> USE TimesAssumption DEF NamesInv, LookupRaises
<1> DEFINE l == NotAsking
<1>1. lookup[c] \in Lookups /\ clock \in Nat /\ addr \in Answers
  BY DEF NamesTypeOK
<1>2. l \in Lookups /\ l.st = "none"
  BY <1>1 DEF Lookups, Answers, NotAsking
<1>3. lookup' = [lookup EXCEPT ![c] = l]
  BY DEF NamesTypeOK
<1> HIDE DEF l
<1>4. /\ lookup' \in [Callers -> Lookups]
      /\ lookup'[c] = l
      /\ \A d \in Callers \ {c} : lookup'[d] = lookup[d]
  BY <1>2, <1>3, OneLookup DEF NamesTypeOK
<1>5. NamesTypeOK'
  BY <1>4, <1>1 DEF NamesTypeOK, Answers, Entries, Lookups
<1>6. CacheTimely' /\ NoFuture'
  BY <1>1 DEF CacheTimely, NoFuture, LookupsTimely, LookupTimely, NamesTypeOK, Answers, Lookups
<1>7. LookupsTimely'
  <2> SUFFICES ASSUME NEW d \in Callers PROVE LookupTimely(d)'
    BY DEF LookupsTimely
  <2>1. CASE d = c
    BY <2>1, <1>1, <1>2, <1>4 DEF LookupsTimely, LookupTimely, NamesTypeOK, Answers
  <2>2. CASE d # c
    BY <2>2, <1>1, <1>4 DEF LookupsTimely, LookupTimely, NamesTypeOK, NoFuture, Answers, Lookups
  <2> QED
    BY <2>1, <2>2
<1> QED
  BY <1>5, <1>6, <1>7

LEMMA MoveInv ==
  ASSUME NamesInv, NEW a \in Answers, Move(a) PROVE NamesInv'
<1> USE TimesAssumption DEF NamesInv, Move, NamesTypeOK
<1>1. NamesTypeOK'
  OBVIOUS
<1>2. NoFuture'
  BY DEF NoFuture
<1>3. CacheTimely'
  BY DEF CacheTimely, NoFuture, Entries
<1>4. LookupsTimely'
  BY DEF LookupsTimely, LookupTimely, Lookups
<1> QED
  BY <1>1, <1>2, <1>3, <1>4

LEMMA NamesTickInv ==
  ASSUME NamesInv, NamesTick PROVE NamesInv'
<1> USE TimesAssumption DEF NamesInv, NamesTick, NamesTypeOK
<1>1. NamesTypeOK'
  OBVIOUS
<1>2. NoFuture'
  BY DEF NoFuture
<1>3. CacheTimely'
  BY DEF CacheTimely, Entries
<1>4. LookupsTimely'
  BY DEF LookupsTimely, LookupTimely, Lookups
<1> QED
  BY <1>1, <1>2, <1>3, <1>4

LEMMA NamesStepInv ==
  ASSUME NamesInv, [NamesNext]_nameVars PROVE NamesInv'
<1>1. CASE UNCHANGED nameVars
  BY <1>1 DEF nameVars, NamesInv, NamesTypeOK, CacheTimely, LookupsTimely, LookupTimely,
              NoFuture
<1>2. CASE NamesNext
  BY <1>2, AskInv, FindsNoneInv, SystemFailsInv, DohAnswersInv, LookupRaisesInv, StoreInv,
     MoveInv, NamesTickInv DEF NamesNext
<1> QED
  BY <1>1, <1>2

\* Right now, what the entry says and what a lookup was told is fresh.
LEMMA TimelyIsFresh == NamesInv => AddressFresh
<1> USE TimesAssumption DEF NamesInv, NamesTypeOK
<1> SUFFICES ASSUME NamesInv, NEW a \in Answers, Returned(a), a # addr
             PROVE  clock - until[a] < DNS_TTL + LookupMax
  BY DEF AddressFresh
<1>1. CASE Fresh /\ cache.ip = a
  BY <1>1 DEF Fresh, CacheTimely, Entries
<1>2. CASE \E c \in Callers : lookup[c].st = "told" /\ lookup[c].ip = a
  BY <1>2 DEF LookupsTimely, LookupTimely, Lookups
<1> QED
  BY <1>1, <1>2 DEF Returned

\* gateway/llm_gateway.py:183-213: the types of the cache, of lookups and of the
\* answers they were given.
THEOREM NamesTypes == NamesSpec => []NamesTypeOK
<1>1. NamesInv => NamesTypeOK
  BY DEF NamesInv
<1> QED
  BY <1>1, NamesInitInv, NamesStepInv, PTL DEF NamesSpec

\* gateway/llm_gateway.py:183-203: nobody is told an address the name has not had for
\* DNS_TTL and one lookup, whatever the number of callers and whichever of the
\* overlapping lookups is stored last.
THEOREM AddressesStayFresh == NamesSpec => []AddressFresh
BY NamesInitInv, NamesStepInv, TimelyIsFresh, PTL DEF NamesSpec

-----------------------------------------------------------------------------
(* The limits *)

\* Every failure that is counted, or was looked at, is one there was.
FailuresKnown ==
    /\ logins \subseteq failures
    /\ \A r \in Logins : posted[r] # NotPosted => posted[r].seen \subseteq failures

\* The numbers of a moment's events are used in their order.
Numbered(S) == \A e \in S : e.n <= Cardinality({d \in S : d.at = e.at})

\* What was let through within the window is still counted.
ChangesCounted == Within(MUTATE_WINDOW, changes) \subseteq mutations

NoFutureChange == \A c \in changes : c.at <= time

LimitsFinite == IsFiniteSet(failures) /\ IsFiniteSet(mutations) /\ IsFiniteSet(changes)

LimitsInv ==
    /\ LimitsTypeOK /\ LimitsFinite
    /\ FailuresKnown
    /\ Numbered(mutations) /\ ChangesCounted /\ NoFutureChange
    /\ ChangesLimited

LEMMA WithinSubset ==
  ASSUME NEW S, NEW w PROVE Within(w, S) \subseteq S
BY DEF Within

LEMMA FewerInSubset ==
  ASSUME NEW S, NEW T, IsFiniteSet(T), S \subseteq T
  PROVE  IsFiniteSet(S) /\ Cardinality(S) \in Nat /\ Cardinality(S) <= Cardinality(T)
BY FS_Subset, FS_CardinalityType

LEMMA EventNew ==
  ASSUME NEW S \in SUBSET Events, IsFiniteSet(S), NEW t \in Times
  PROVE  /\ Event(S, t) \in Events
         /\ Numbered(S) => Event(S, t) \notin S
<1> DEFINE e0 == Event(S, t)
           now == {e \in S : e.at = t}
<1>1. Cardinality(now) \in Nat
  <2>1. now \subseteq S
    OBVIOUS
  <2> QED
    BY <2>1, FewerInSubset
<1>2. e0 = [at |-> t, n |-> Cardinality(now) + 1]
  BY DEF Event
<1>3. e0 \in Events
  BY <1>1, <1>2 DEF Events
<1>4. ASSUME Numbered(S), e0 \in S PROVE FALSE
  <2>1. e0.n <= Cardinality({d \in S : d.at = e0.at})
    BY <1>4 DEF Numbered
  <2>2. {d \in S : d.at = e0.at} = now
    BY <1>2
  <2>3. e0.n <= Cardinality(now)
    BY <2>1, <2>2
  <2>4. e0.n = Cardinality(now) + 1
    BY <1>2
  <2> QED
    BY <1>1, <2>3, <2>4
<1> QED
  BY <1>3, <1>4

LEMMA EventNumbered ==
  ASSUME NEW S \in SUBSET Events, IsFiniteSet(S), NEW t \in Times, Numbered(S)
  PROVE  Numbered(S \union {Event(S, t)})
<1> DEFINE now == {e \in S : e.at = t}
           e0 == Event(S, t)
           all == S \union {e0}
<1>1. now \subseteq S /\ IsFiniteSet(now) /\ Cardinality(now) \in Nat
  BY FewerInSubset
<1>2. e0.at = t /\ e0.n = Cardinality(now) + 1 /\ e0 \notin now
  BY EventNew DEF Event
<1>3. Cardinality(now \union {e0}) = Cardinality(now) + 1
  BY <1>1, <1>2, FS_AddElement
<1> HIDE DEF e0
<1> SUFFICES ASSUME NEW e \in all PROVE e.n <= Cardinality({d \in all : d.at = e.at})
  BY DEF Numbered, e0
<1>4. CASE e.at = t
  <2>1. {d \in all : d.at = e.at} = now \union {e0}
    BY <1>2, <1>4
  <2>2. CASE e = e0
    <3>1. Cardinality({d \in all : d.at = e.at}) = Cardinality(now) + 1
      BY <2>1, <1>3
    <3>2. e.n = Cardinality(now) + 1
      BY <2>2, <1>2
    <3> HIDE DEF now, all
    <3> QED
      BY <3>1, <3>2, <1>1
  <2>3. CASE e \in S
    <3>1. e.n <= Cardinality(now)
      BY <2>3, <1>4 DEF Numbered
    <3>2. e.n \in Nat
      BY <2>3 DEF Events
    <3>3. Cardinality({d \in all : d.at = e.at}) = Cardinality(now) + 1
      BY <2>1, <1>3
    <3> HIDE DEF now, all
    <3> QED
      BY <3>1, <3>2, <3>3, <1>1
  <2> QED
    BY <2>2, <2>3
<1>5. CASE e.at # t
  <2>1. e \in S /\ {d \in all : d.at = e.at} = {d \in S : d.at = e.at}
    BY <1>2, <1>5
  <2> QED
    BY <2>1 DEF Numbered
<1> QED
  BY <1>4, <1>5

\* Events of one moment leave the window together.
LEMMA WindowNumbered ==
  ASSUME NEW S, NEW w, Numbered(S)
  PROVE  Numbered(Within(w, S))
<1> SUFFICES ASSUME NEW e \in Within(w, S)
             PROVE  e.n <= Cardinality({d \in Within(w, S) : d.at = e.at})
  BY DEF Numbered
<1>1. {d \in Within(w, S) : d.at = e.at} = {d \in S : d.at = e.at}
  BY DEF Within
<1> QED
  BY <1>1 DEF Numbered, Within

LEMMA LimitsInitInv == LimitsInit => LimitsInv
<1> SUFFICES ASSUME LimitsInit PROVE LimitsInv
  OBVIOUS
<1> USE WindowsAssumption DEF LimitsInit
<1>1. LimitsTypeOK
  BY DEF LimitsTypeOK, Times
<1>2. LimitsFinite
  BY FS_EmptySet DEF LimitsFinite
<1>3. FailuresKnown
  BY DEF FailuresKnown
<1>4. Numbered(mutations) /\ ChangesCounted /\ NoFutureChange
  BY DEF Numbered, ChangesCounted, NoFutureChange, Within
<1>5. ChangesLimited
  <2> SUFFICES ASSUME NEW t \in Times
               PROVE  Cardinality({c \in changes : c.at \in t .. t + MUTATE_WINDOW - 1}) <= MUTATE_MAX
    BY DEF ChangesLimited
  <2>1. {c \in changes : c.at \in t .. t + MUTATE_WINDOW - 1} = {}
    OBVIOUS
  <2> QED
    BY <2>1, FS_EmptySet
<1> QED
  BY <1>1, <1>2, <1>3, <1>4, <1>5 DEF LimitsInv

\* A login changes the failures and what it has looked at; changes are not touched.
LEMMA LoginStepInv ==
  ASSUME LimitsInv, UNCHANGED <<time, mutations, changes>>,
         LimitsTypeOK', IsFiniteSet(failures'), FailuresKnown'
  PROVE  LimitsInv'
<1> USE DEF LimitsInv
<1>1. LimitsFinite'
  BY DEF LimitsFinite
<1>2. Numbered(mutations)' /\ NoFutureChange'
  BY DEF Numbered, NoFutureChange
<1>3. ChangesCounted'
  BY DEF ChangesCounted, Within
<1>4. ChangesLimited'
  BY DEF ChangesLimited
<1> QED
  BY <1>1, <1>2, <1>3, <1>4

LEMMA LoginRefusedInv == LimitsInv /\ LoginRefused => LimitsInv'
<1> SUFFICES ASSUME LimitsInv, LoginRefused PROVE LimitsInv'
  OBVIOUS
<1>1. RecentFailures \subseteq logins
  BY WithinSubset DEF RecentFailures
<1>2. LimitsTypeOK'
  BY <1>1 DEF LimitsInv, LimitsTypeOK, LoginRefused
<1>3. FailuresKnown'
  BY <1>1 DEF LimitsInv, FailuresKnown, LoginRefused
<1> QED
  BY <1>2, <1>3, LoginStepInv DEF LimitsInv, LimitsFinite, LoginRefused

LEMMA LoginPostedInv ==
  ASSUME LimitsInv, NEW r \in Logins, LoginPosted(r) PROVE LimitsInv'
<1>1. RecentFailures \subseteq logins
  BY WithinSubset DEF RecentFailures
<1>2. LimitsTypeOK'
  BY <1>1 DEF LimitsInv, LimitsTypeOK, LoginPosted
<1>3. FailuresKnown'
  BY <1>1 DEF LimitsInv, LimitsTypeOK, FailuresKnown, LoginPosted
<1> QED
  BY <1>2, <1>3, LoginStepInv DEF LimitsInv, LimitsFinite, LoginPosted

LEMMA WrongPasswordInv ==
  ASSUME LimitsInv, NEW r \in Logins, WrongPassword(r) PROVE LimitsInv'
<1> DEFINE failure == Event(failures, posted[r].at)
<1>1. /\ posted[r].seen \in SUBSET Events /\ posted[r].at \in Times
      /\ posted[r].seen \subseteq failures
      /\ failures \in SUBSET Events /\ IsFiniteSet(failures)
  BY DEF LimitsInv, LimitsTypeOK, LimitsFinite, FailuresKnown, WrongPassword
<1>2. failure \in Events
  BY <1>1, EventNew
<1>3. /\ logins' = posted[r].seen \union {failure}
      /\ failures' = failures \union {failure}
      /\ posted' = [posted EXCEPT ![r] = NotPosted]
      /\ UNCHANGED <<time, mutations, changes>>
  BY DEF WrongPassword
<1> HIDE DEF failure
<1>4. LimitsTypeOK'
  BY <1>1, <1>2, <1>3 DEF LimitsInv, LimitsTypeOK
<1>5. FailuresKnown'
  BY <1>1, <1>3 DEF LimitsInv, LimitsTypeOK, FailuresKnown
<1>6. IsFiniteSet(failures')
  BY <1>1, <1>3, FS_AddElement
<1> QED
  BY <1>3, <1>4, <1>5, <1>6, LoginStepInv

LEMMA RightPasswordInv ==
  ASSUME LimitsInv, NEW r \in Logins, RightPassword(r) PROVE LimitsInv'
<1>1. LimitsTypeOK'
  BY DEF LimitsInv, LimitsTypeOK, RightPassword
<1>2. FailuresKnown'
  BY DEF LimitsInv, LimitsTypeOK, FailuresKnown, RightPassword
<1> QED
  BY <1>1, <1>2, LoginStepInv DEF LimitsInv, LimitsFinite, RightPassword

LEMMA LoginGoneInv ==
  ASSUME LimitsInv, NEW r \in Logins, LoginGone(r) PROVE LimitsInv'
<1>1. LimitsTypeOK'
  BY DEF LimitsInv, LimitsTypeOK, LoginGone
<1>2. FailuresKnown'
  BY DEF LimitsInv, LimitsTypeOK, FailuresKnown, LoginGone
<1> QED
  BY <1>1, <1>2, LoginStepInv DEF LimitsInv, LimitsFinite, LoginGone

\* A change is let through if, with those still counted, it is not too many; whatever
\* was let through in a window that holds it is still counted.
LEMMA ChangeAskedInv == LimitsInv /\ ChangeAsked => LimitsInv'
<1> SUFFICES ASSUME LimitsInv, ChangeAsked PROVE LimitsInv'
  OBVIOUS
<1> USE WindowsAssumption
<1> DEFINE change == Event(mutations, time)
           counted == Within(MUTATE_WINDOW, mutations)
<1>1. /\ time \in Times /\ time \in Nat
      /\ mutations \in SUBSET Events /\ changes \in SUBSET Events
      /\ IsFiniteSet(mutations) /\ IsFiniteSet(changes)
      /\ Numbered(mutations) /\ MUTATE_WINDOW \in Nat \ {0} /\ MUTATE_MAX \in Nat
  BY DEF LimitsInv, LimitsTypeOK, LimitsFinite, Times
<1>2. change \in Events /\ change \notin mutations /\ change.at = time
  BY <1>1, EventNew DEF Event
<1>3. counted \subseteq mutations
  BY WithinSubset
<1>4. mutations' = counted \union {change}
  BY DEF ChangeAsked
<1>5. changes' = IF TooMany THEN changes ELSE changes \union {change}
  BY DEF ChangeAsked
<1>6. UNCHANGED <<time, logins, posted, failures>>
  BY DEF ChangeAsked
<1>7. Within(MUTATE_WINDOW, mutations \union {change}) = counted \union {change}
  BY <1>1, <1>2 DEF Within
<1>8. Numbered(mutations')
  BY <1>1, <1>4, <1>7, EventNumbered, WindowNumbered
<1> HIDE DEF change
<1>9. LimitsTypeOK'
  BY <1>1, <1>2, <1>3, <1>4, <1>5, <1>6 DEF LimitsInv, LimitsTypeOK
<1>10. LimitsFinite'
  <2>1. IsFiniteSet(counted)
    BY <1>1, <1>3, FS_Subset
  <2>2. IsFiniteSet(mutations')
    BY <2>1, <1>4, FS_AddElement
  <2>3. IsFiniteSet(changes')
    BY <1>1, <1>5, FS_AddElement
  <2> QED
    BY <2>2, <2>3, <1>6 DEF LimitsInv, LimitsFinite
<1>11. FailuresKnown'
  BY <1>6 DEF LimitsInv, FailuresKnown
<1>12. ChangesCounted'
  BY <1>1, <1>2, <1>4, <1>5, <1>6 DEF LimitsInv, ChangesCounted, Within
<1>13. NoFutureChange'
  BY <1>1, <1>2, <1>5, <1>6 DEF LimitsInv, NoFutureChange
<1>14. ChangesLimited'
  <2> SUFFICES ASSUME NEW t \in Times
               PROVE  Cardinality({c \in changes' : c.at \in t .. t + MUTATE_WINDOW - 1})
                        <= MUTATE_MAX
    BY DEF ChangesLimited
  <2> DEFINE window == {c \in changes : c.at \in t .. t + MUTATE_WINDOW - 1}
  <2>0. t \in Nat
    BY DEF Times
  <2>1. Cardinality(window) <= MUTATE_MAX
    BY DEF LimitsInv, ChangesLimited
  <2>2. CASE TooMany \/ time \notin t .. t + MUTATE_WINDOW - 1
    <3>1. {c \in changes' : c.at \in t .. t + MUTATE_WINDOW - 1} = window
      BY <2>2, <1>2, <1>5
    <3> QED
      BY <3>1, <2>1
  <2>3. CASE ~TooMany /\ time \in t .. t + MUTATE_WINDOW - 1
    <3>1. {c \in changes' : c.at \in t .. t + MUTATE_WINDOW - 1} = window \union {change}
      BY <2>3, <1>2, <1>5
    <3>2. window \subseteq counted
      <4> SUFFICES ASSUME NEW c \in changes, c.at \in t .. t + MUTATE_WINDOW - 1
                   PROVE  c \in counted
        OBVIOUS
      <4>1. c.at \in Nat /\ time - c.at < MUTATE_WINDOW
        BY <1>1, <2>0, <2>3 DEF Events, Times
      <4> QED
        BY <4>1 DEF LimitsInv, ChangesCounted, Within
    <3>3. IsFiniteSet(counted)
      BY <1>1, <1>3, FS_Subset
    <3>4. /\ IsFiniteSet(window) /\ Cardinality(window) \in Nat
          /\ Cardinality(window) <= Cardinality(counted)
      BY <3>2, <3>3, FewerInSubset
    <3>5. change \notin window
      BY <3>2, <1>2, <1>3
    <3>6. Cardinality(window \union {change}) = Cardinality(window) + 1
      BY <3>4, <3>5, FS_AddElement
    <3>7. Cardinality(counted) \in Nat /\ Cardinality(counted) + 1 <= MUTATE_MAX
      BY <2>3, <3>3, <1>1, FS_CardinalityType DEF TooMany
    <3>8. Cardinality(window \union {change}) <= MUTATE_MAX
      <4> HIDE DEF window, counted
      <4> QED
        BY <3>4, <3>6, <3>7, <1>1
    <3> QED
      BY <3>1, <3>8
  <2> QED
    BY <2>2, <2>3
<1> QED
  BY <1>8, <1>9, <1>10, <1>11, <1>12, <1>13, <1>14 DEF LimitsInv

LEMMA LimitsTickInv == LimitsInv /\ LimitsTick => LimitsInv'
<1> SUFFICES ASSUME LimitsInv, LimitsTick PROVE LimitsInv'
  OBVIOUS
<1> USE WindowsAssumption DEF LimitsInv, LimitsTick
<1>1. LimitsTypeOK'
  BY DEF LimitsTypeOK, Times
<1>2. LimitsFinite' /\ FailuresKnown' /\ Numbered(mutations)'
  BY DEF LimitsFinite, FailuresKnown, Numbered
<1>3. ChangesCounted'
  BY DEF ChangesCounted, Within, LimitsTypeOK, Events, Times
<1>4. NoFutureChange'
  BY DEF NoFutureChange, LimitsTypeOK, Events, Times
<1>5. ChangesLimited'
  BY DEF ChangesLimited
<1> QED
  BY <1>1, <1>2, <1>3, <1>4, <1>5

LEMMA LimitsStepInv == LimitsInv /\ [LimitsNext]_limitVars => LimitsInv'
<1> SUFFICES ASSUME LimitsInv, [LimitsNext]_limitVars PROVE LimitsInv'
  OBVIOUS
<1>1. CASE UNCHANGED limitVars
  <2>1. LimitsTypeOK' /\ FailuresKnown' /\ IsFiniteSet(failures')
    BY <1>1 DEF limitVars, LimitsInv, LimitsTypeOK, LimitsFinite, FailuresKnown
  <2> QED
    BY <1>1, <2>1, LoginStepInv DEF limitVars
<1>2. CASE LimitsNext
  BY <1>2, LoginRefusedInv, LoginPostedInv, WrongPasswordInv, RightPasswordInv,
     LoginGoneInv, ChangeAskedInv, LimitsTickInv DEF LimitsNext
<1> QED
  BY <1>1, <1>2

LEMMA KnownIsCause == LimitsInv => LockedForCause
<1> SUFFICES ASSUME LimitsInv, Locked
             PROVE  Cardinality(Within(LOGIN_WINDOW, failures)) >= LOGIN_MAX
  BY DEF LockedForCause
<1>1. RecentFailures \subseteq Within(LOGIN_WINDOW, failures)
  BY DEF LimitsInv, FailuresKnown, RecentFailures, Within
<1>2. IsFiniteSet(Within(LOGIN_WINDOW, failures))
  BY WithinSubset, FS_Subset DEF LimitsInv, LimitsFinite
<1>3. /\ Cardinality(RecentFailures) \in Nat
      /\ Cardinality(Within(LOGIN_WINDOW, failures)) \in Nat
      /\ Cardinality(RecentFailures) <= Cardinality(Within(LOGIN_WINDOW, failures))
  BY <1>1, <1>2, FewerInSubset, FS_CardinalityType
<1> QED
  BY <1>3, WindowsAssumption DEF Locked

\* gateway/llm_gateway.py:101-119, 480-493: the types of what is counted of an address.
THEOREM LimitsTypes == LimitsSpec => []LimitsTypeOK
<1>1. LimitsInv => LimitsTypeOK
  BY DEF LimitsInv
<1> QED
  BY <1>1, LimitsInitInv, LimitsStepInv, PTL DEF LimitsSpec

\* gateway/llm_gateway.py:27: for any number of logins of one address under way at once,
\* and any windows and limits, nobody is locked out who has not failed LOGIN_MAX times
\* within the window.
THEOREM LockedOnlyForCause == LimitsSpec => []LockedForCause
BY LimitsInitInv, LimitsStepInv, KnownIsCause, PTL DEF LimitsSpec

\* gateway/llm_gateway.py:28: no window holds more than MUTATE_MAX changes that were let
\* through.
THEOREM ChangesStayLimited == LimitsSpec => []ChangesLimited
<1>1. LimitsInv => ChangesLimited
  BY DEF LimitsInv
<1> QED
  BY <1>1, LimitsInitInv, LimitsStepInv, PTL DEF LimitsSpec

-----------------------------------------------------------------------------
(* The log of usage *)

\* The lines that can be read are some of the file's, so that they can be counted.
LEMMA ReadableFinite ==
  ASSUME file \in Seq({"record", "part", "newline"})
  PROVE  /\ IsFiniteSet(Readable)
         /\ Cardinality(Readable) \in Nat
         /\ Readable \subseteq 1 .. Len(file)
<1>1. DOMAIN file = 1 .. Len(file) /\ Len(file) \in Nat
  OBVIOUS
<1>2. Readable \subseteq 1 .. Len(file)
  BY <1>1 DEF Readable
<1>3. IsFiniteSet(1 .. Len(file))
  BY <1>1, FS_Interval
<1> QED
  BY <1>2, <1>3, FS_Subset, FS_CardinalityType

\* The last line has its end.
Ended == file = <<>> \/ file[Len(file)] = "newline"

\* What the next record to be written runs into: nothing, what is left of a record, or
\* a record that is whole but for its newline.
AtRisk == IF Ended THEN 0 ELSE IF Len(file) \in Readable THEN 2 ELSE 1

FileInv ==
    /\ file \in Seq({"record", "part", "newline"})
    /\ written \in 0 .. MaxRecords /\ torn \in 0 .. MaxTorn
    /\ written + AtRisk <= Requests + torn
    /\ Requests <= written + torn

LEMMA LineAppended ==
  ASSUME FileInv, file' = file \o <<"record", "newline">>
  PROVE  /\ file' \in Seq({"record", "part", "newline"})
         /\ Ended'
         /\ Readable' = (Readable \ {Len(file)}) \union
                         (IF Ended THEN {Len(file) + 1} ELSE {})
<1> DEFINE n == Len(file)
<1>1. /\ n \in Nat /\ file \in Seq({"record", "part", "newline"})
      /\ file' \in Seq({"record", "part", "newline"})
      /\ Len(file') = n + 2
      /\ \A i \in 1 .. n : file'[i] = file[i]
      /\ file'[n + 1] = "record" /\ file'[n + 2] = "newline"
  BY DEF FileInv
<1>2. DOMAIN file = 1 .. n /\ DOMAIN file' = 1 .. n + 2
  BY <1>1
<1>3. file = <<>> <=> n = 0
  BY <1>1
<1>4. Ended'
  BY <1>1 DEF Ended
<1> HIDE DEF n
<1>5. ASSUME NEW i \in 1 .. n + 2
      PROVE  i \in Readable' <=>
             i \in Readable \ {n} \/ (Ended /\ i = n + 1)
  <2>1. CASE i < n
    <3>1. file'[i] = file[i] /\ (i > 1 => file'[i - 1] = file[i - 1])
      BY <1>1, <2>1
    <3>2. i < n => i + 1 \in 1 .. n /\ file'[i + 1] = file[i + 1]
      BY <1>1, <2>1
    <3>3. OneRecord(i)' <=> OneRecord(i)
      BY <3>1, <3>2, <1>1, <2>1 DEF OneRecord, n
    <3> QED
      BY <3>3, <1>1, <1>2, <2>1 DEF Readable
  <2>2. CASE i = n
    <3>1. file'[i] = file[i] /\ (i > 1 => file'[i - 1] = file[i - 1])
      BY <1>1, <2>2
    <3>2. file'[i + 1] # "newline" /\ i + 1 <= Len(file')
      BY <1>1, <2>2
    <3>3. OneRecord(i)' <=> FALSE
      BY <3>1, <3>2, <1>1, <2>2 DEF OneRecord, n
    <3> QED
      BY <3>3, <1>1, <1>2, <2>2 DEF Readable
  <2>3. CASE i = n + 1
    <3>1. OneRecord(i)' <=> (i = 1 \/ file[i - 1] = "newline")
      BY <1>1, <2>3 DEF OneRecord, n
    <3>2. i \notin Readable
      BY <1>2, <2>3, <1>1 DEF Readable
    <3>3. (i = 1 \/ file[i - 1] = "newline") <=> Ended
      BY <1>1, <1>3, <2>3 DEF Ended, n
    <3> QED
      BY <3>1, <3>2, <3>3, <1>1, <1>2, <2>3 DEF Readable
  <2>4. CASE i = n + 2
    BY <1>1, <1>2, <2>4 DEF Readable, OneRecord, n
  <2> QED
    BY <1>1, <2>1, <2>2, <2>3, <2>4
<1>6. Readable' \subseteq 1 .. n + 2 /\ Readable \subseteq 1 .. n + 2
  BY <1>1, <1>2 DEF Readable
<1>7. Readable' = (Readable \ {n}) \union (IF Ended THEN {n + 1} ELSE {})
  <2>1. n \in Nat /\ n + 1 \in 1 .. n + 2
    BY <1>1
  <2>2. CASE Ended
    <3>1. Readable' = (Readable \ {n}) \union {n + 1}
      BY <1>5, <1>6, <2>1, <2>2
    <3> QED
      BY <3>1, <2>2
  <2>3. CASE ~Ended
    <3>1. Readable' = Readable \ {n}
      BY <1>5, <1>6, <2>3
    <3> QED
      BY <3>1, <2>3
  <2> QED
    BY <2>2, <2>3
<1> QED
  BY <1>1, <1>4, <1>7 DEF n

LEMMA PieceAppended ==
  ASSUME FileInv, NEW piece \in {"part", "record"}, file' = file \o <<piece>>
  PROVE  /\ file' \in Seq({"record", "part", "newline"})
         /\ ~Ended'
         /\ Len(file') = Len(file) + 1
         /\ Readable' = (Readable \ {Len(file)}) \union
                         (IF Ended /\ piece = "record" THEN {Len(file) + 1} ELSE {})
<1> DEFINE n == Len(file)
<1>1. /\ n \in Nat /\ file \in Seq({"record", "part", "newline"})
      /\ file' \in Seq({"record", "part", "newline"})
      /\ Len(file') = n + 1
      /\ \A i \in 1 .. n : file'[i] = file[i]
      /\ file'[n + 1] = piece
  BY DEF FileInv
<1>2. DOMAIN file = 1 .. n /\ DOMAIN file' = 1 .. n + 1
  BY <1>1
<1>3. file = <<>> <=> n = 0
  BY <1>1
<1>4. ~Ended'
  BY <1>1 DEF Ended
<1> HIDE DEF n
<1>5. ASSUME NEW i \in 1 .. n + 1
      PROVE  i \in Readable' <=>
             i \in Readable \ {n} \/ (Ended /\ piece = "record" /\ i = n + 1)
  <2>1. CASE i < n
    <3>1. file'[i] = file[i] /\ (i > 1 => file'[i - 1] = file[i - 1])
      BY <1>1, <2>1
    <3>2. i < n => i + 1 \in 1 .. n /\ file'[i + 1] = file[i + 1]
      BY <1>1, <2>1
    <3>3. OneRecord(i)' <=> OneRecord(i)
      BY <3>1, <3>2, <1>1, <2>1 DEF OneRecord, n
    <3> QED
      BY <3>3, <1>1, <1>2, <2>1 DEF Readable
  <2>2. CASE i = n
    <3>1. file'[i] = file[i] /\ (i > 1 => file'[i - 1] = file[i - 1])
      BY <1>1, <2>2
    <3>2. file'[i + 1] # "newline" /\ i + 1 <= Len(file')
      BY <1>1, <2>2
    <3>3. OneRecord(i)' <=> FALSE
      BY <3>1, <3>2, <1>1, <2>2 DEF OneRecord, n
    <3> QED
      BY <3>3, <1>1, <1>2, <2>2 DEF Readable
  <2>3. CASE i = n + 1
    <3>1. OneRecord(i)' <=> piece = "record" /\ (i = 1 \/ file[i - 1] = "newline")
      BY <1>1, <2>3 DEF OneRecord, n
    <3>2. i \notin Readable
      BY <1>2, <2>3, <1>1 DEF Readable
    <3>3. (i = 1 \/ file[i - 1] = "newline") <=> Ended
      BY <1>1, <1>3, <2>3 DEF Ended, n
    <3> QED
      BY <3>1, <3>2, <3>3, <1>1, <1>2, <2>3 DEF Readable
  <2> QED
    BY <1>1, <2>1, <2>2, <2>3
<1>6. Readable' \subseteq 1 .. n + 1 /\ Readable \subseteq 1 .. n + 1
  BY <1>1, <1>2 DEF Readable
<1>7. Readable' = (Readable \ {n}) \union (IF Ended /\ piece = "record" THEN {n + 1} ELSE {})
  <2>1. n \in Nat /\ n + 1 \in 1 .. n + 1
    BY <1>1
  <2>2. CASE Ended /\ piece = "record"
    <3>1. Readable' = (Readable \ {n}) \union {n + 1}
      BY <1>5, <1>6, <2>1, <2>2
    <3> QED
      BY <3>1, <2>2
  <2>3. CASE ~(Ended /\ piece = "record")
    <3>1. Readable' = Readable \ {n}
      BY <1>5, <1>6, <2>3
    <3> QED
      BY <3>1, <2>3
  <2> QED
    BY <2>2, <2>3
<1> QED
  BY <1>1, <1>4, <1>7 DEF n

\* A readable record at the end of the file is no end of a line.
LEMMA RiskOfRecord ==
  ASSUME FileInv
  PROVE  /\ AtRisk = IF Ended THEN 0 ELSE IF Len(file) \in Readable THEN 2 ELSE 1
         /\ Ended => Len(file) \notin Readable
<1>1. Ended => Len(file) \notin Readable
  BY DEF FileInv, Ended, Readable, OneRecord
<1> QED
  BY <1>1 DEF AtRisk

\* One element less, one element more.
LEMMA CountChanged ==
  ASSUME NEW S, IsFiniteSet(S), NEW x, NEW y, y \notin S
  PROVE  /\ Cardinality(S) \in Nat
         /\ Cardinality((S \ {x}) \union {}) = Cardinality(S) - (IF x \in S THEN 1 ELSE 0)
         /\ Cardinality((S \ {x}) \union {y}) =
              Cardinality(S) + 1 - (IF x \in S THEN 1 ELSE 0)
<1> DEFINE R == S \ {x}
<1>1. /\ IsFiniteSet(R)
      /\ Cardinality(R) = IF x \in S THEN Cardinality(S) - 1 ELSE Cardinality(S)
  BY FS_RemoveElement
<1>2. Cardinality(R \union {y}) = Cardinality(R) + 1
  BY <1>1, FS_AddElement
<1>3. Cardinality(S) \in Nat
  BY FS_CardinalityType
<1>4. Cardinality(R \union {}) = Cardinality(R)
  <2>1. R \union {} = R
    OBVIOUS
  <2> QED
    BY <2>1
<1> HIDE DEF R
<1> QED
  BY <1>1, <1>2, <1>3, <1>4 DEF R

LEMMA WriteStep ==
  ASSUME FileInv, written < MaxRecords, WriteRecord
  PROVE  FileInv'
<1> USE LogBounds
<1> DEFINE n == Len(file)
<1>1. /\ IsFiniteSet(Readable) /\ Requests \in Nat /\ n + 1 \notin Readable
      /\ written \in Nat /\ torn \in Nat /\ n \in Nat
  BY ReadableFinite DEF FileInv, Requests
<1>2. /\ AtRisk = IF Ended THEN 0 ELSE IF n \in Readable THEN 2 ELSE 1
      /\ Ended => n \notin Readable
  BY RiskOfRecord
<1>3. /\ written + AtRisk <= Requests + torn
      /\ Requests <= written + torn
  BY DEF FileInv
<1>C. /\ Cardinality((Readable \ {n}) \union {}) =
           Requests - (IF n \in Readable THEN 1 ELSE 0)
      /\ Cardinality((Readable \ {n}) \union {n + 1}) =
           Requests + 1 - (IF n \in Readable THEN 1 ELSE 0)
  <2>1. /\ Cardinality((Readable \ {n}) \union {}) =
             Cardinality(Readable) - (IF n \in Readable THEN 1 ELSE 0)
        /\ Cardinality((Readable \ {n}) \union {n + 1}) =
             Cardinality(Readable) + 1 - (IF n \in Readable THEN 1 ELSE 0)
    <3> HIDE DEF n
    <3> QED
      BY <1>1, CountChanged
  <2> QED
    BY <2>1 DEF Requests
<1> HIDE DEF n
<1>4. CASE /\ file' = file \o <<"record", "newline">>
           /\ written' = written + 1
           /\ UNCHANGED torn
  <2>1. /\ file' \in Seq({"record", "part", "newline"})
        /\ Ended'
        /\ Readable' = (Readable \ {n}) \union (IF Ended THEN {n + 1} ELSE {})
    BY <1>4, LineAppended DEF n
  <2>2. AtRisk' = 0
    BY <2>1 DEF AtRisk, Ended
  <2>3. Requests' = Cardinality(Readable')
    BY DEF Requests
  <2>4. CASE Ended
    <3>1. Requests' = Requests + 1
      BY <2>1, <2>3, <2>4, <1>C, <1>1, <1>2
    <3> QED
      BY <3>1, <2>1, <2>2, <2>4, <1>1, <1>2, <1>3, <1>4 DEF FileInv
  <2>5. CASE ~Ended
    <3>1. Requests' = Requests - (IF n \in Readable THEN 1 ELSE 0)
      BY <2>1, <2>3, <2>5, <1>C, <1>1
    <3> QED
      BY <3>1, <2>1, <2>2, <2>5, <1>1, <1>2, <1>3, <1>4 DEF FileInv
  <2> QED
    BY <2>4, <2>5
<1>5. ASSUME torn < MaxTorn, torn' = torn + 1, written' = written,
             NEW piece \in {"part", "record"}, file' = file \o <<piece>>
      PROVE  FileInv'
  <2>1. /\ file' \in Seq({"record", "part", "newline"})
        /\ ~Ended'
        /\ Len(file') = n + 1
        /\ Readable' = (Readable \ {n}) \union
                       (IF Ended /\ piece = "record" THEN {n + 1} ELSE {})
    BY <1>5, PieceAppended DEF n
  <2>2. AtRisk' = IF n + 1 \in Readable' THEN 2 ELSE 1
    BY <2>1 DEF AtRisk, Ended
  <2>3. Requests' = Cardinality(Readable')
    BY DEF Requests
  <2>4. CASE Ended /\ piece = "record"
    <3>1. Requests' = Requests + 1
      BY <2>1, <2>3, <2>4, <1>C, <1>1, <1>2
    <3>2. AtRisk' = 2
      BY <2>1, <2>2, <2>4
    <3> QED
      BY <3>1, <3>2, <2>1, <2>4, <1>1, <1>2, <1>3, <1>5 DEF FileInv
  <2>5. CASE ~(Ended /\ piece = "record")
    <3>1. Requests' = Requests - (IF n \in Readable THEN 1 ELSE 0)
      BY <2>1, <2>3, <2>5, <1>C, <1>1
    <3>2. AtRisk' = 1
      BY <2>1, <2>2, <2>5, <1>1
    <3> QED
      BY <3>1, <3>2, <2>1, <1>1, <1>2, <1>3, <1>5 DEF FileInv
  <2> QED
    BY <2>4, <2>5
<1>6. ASSUME torn < MaxTorn, torn' = torn + 1, written' = written, file' = file \o <<>>
      PROVE  FileInv'
  <2>1. file' = file
    BY <1>6 DEF FileInv
  <2>2. Requests' = Requests /\ AtRisk' = AtRisk
    BY <2>1 DEF Requests, Readable, OneRecord, AtRisk, Ended
  <2> QED
    BY <2>1, <2>2, <1>1, <1>2, <1>3, <1>6 DEF FileInv
<1> QED
  BY <1>4, <1>5, <1>6 DEF WriteRecord

LEMMA FileInvariant == LogSpec => []FileInv
<1> USE LogBounds
<1>1. LogInit => FileInv
  <2> SUFFICES ASSUME LogInit PROVE FileInv
    OBVIOUS
  <2>1. file = <<>> /\ written = 0 /\ torn = 0
    BY DEF LogInit
  <2>2. Readable = {}
    BY <2>1 DEF Readable
  <2>3. Requests = 0
    BY <2>2, FS_EmptySet DEF Requests
  <2> QED
    BY <2>1, <2>3 DEF FileInv, AtRisk, Ended
<1>2. FileInv /\ [LogNext]_logVars => FileInv'
  <2> SUFFICES ASSUME FileInv, [LogNext]_logVars PROVE FileInv'
    OBVIOUS
  <2>1. CASE UNCHANGED <<file, written, torn>>
    BY <2>1 DEF FileInv, AtRisk, Ended, Requests, Readable, OneRecord
  <2>2. CASE RelayOver
    BY <2>2, WriteStep DEF RelayOver
  <2> QED
    BY <2>1, <2>2 DEF LogNext, Chunk, NextRequest, CloseRaises, Another, logVars
<1> QED
  BY <1>1, <1>2, PTL DEF LogSpec

\* gateway/llm_gateway.py:676: for any number of records and torn writes, a write that was
\* cut short costs its own record and at most one written after it, and no request is
\* counted twice.
THEOREM TornWriteCostsOne == LogSpec => []TornCostsOne
<1>1. FileInv => TornCostsOne
  <2> SUFFICES ASSUME FileInv PROVE TornCostsOne
    OBVIOUS
  <2>1. Requests \in Nat /\ written \in Nat /\ torn \in Nat
    BY ReadableFinite, LogBounds DEF FileInv, Requests
  <2>2. AtRisk \in Nat
    BY RiskOfRecord
  <2> QED
    BY <2>1, <2>2 DEF FileInv, TornCostsOne
<1> QED
  BY <1>1, FileInvariant, PTL

-----------------------------------------------------------------------------
(* The figures of a response *)

NatRel == {ss \in Nat \X Nat : ss[1] < ss[2]}

LEMMA NatRelWellFounded == IsWellFoundedOn(NatRel, Nat)
BY NatLessThanWellFounded DEF NatRel, OpToRel

\* A set of positions that is not empty has a greatest.
LEMMA MaxIsGreatest ==
  ASSUME NEW n \in Nat, NEW S, S \subseteq 1 .. n, S # {}
  PROVE  /\ Max(S) \in S
         /\ \A y \in S : y <= Max(S)
<1> DEFINE D == {n - y : y \in S}
<1>1. D \subseteq Nat /\ D # {}
  <2>1. PICK y \in S : TRUE
    OBVIOUS
  <2>2. n - y \in D
    OBVIOUS
  <2>3. \A z \in S : n - z \in Nat
    OBVIOUS
  <2> QED
    BY <2>2, <2>3
<1>2. PICK d \in D : \A e \in D : ~(<<e, d>> \in NatRel)
  <2> HIDE DEF D
  <2> QED
    BY <1>1, NatRelWellFounded, WFMin
<1>3. PICK m \in S : d = n - m
  OBVIOUS
<1>4. \A y \in S : m >= y
  <2> SUFFICES ASSUME NEW y \in S, y > m PROVE FALSE
    OBVIOUS
  <2>1. n - y \in D /\ n - y \in Nat /\ n - m \in Nat /\ n - y < n - m
    OBVIOUS
  <2> QED
    BY <2>1, <1>2, <1>3 DEF NatRel
<1>5. Max(S) \in S /\ \A y \in S : Max(S) >= y
  BY <1>4 DEF Max
<1> QED
  BY <1>5

LEMMA MaxIsUnique ==
  ASSUME NEW n \in Nat, NEW S, S \subseteq 1 .. n, NEW m \in S, \A y \in S : y <= m
  PROVE  Max(S) = m
<1>1. Max(S) \in S /\ m <= Max(S)
  BY MaxIsGreatest
<1> DEFINE g == Max(S)
<1> HIDE DEF g
<1>2. g \in S /\ m <= g
  BY <1>1 DEF g
<1>3. g = m
  <2>1. g <= m /\ g \in 1 .. n /\ m \in 1 .. n
    BY <1>2
  <2> QED
    BY <2>1, <1>2
<1> QED
  BY <1>3 DEF g

\* What a figure at i of buf ends with.
LEMMA FigureEndIs ==
  ASSUME NEW B, NEW buf \in Seq(B), NEW i \in 1 .. Len(buf), FigureAt(buf, i)
  PROVE  /\ FigureEnd(buf, i) \in i + 1 .. Len(buf)
         /\ \A n \in i + 1 .. FigureEnd(buf, i) : buf[n] \in Digits
         /\ FigureEnd(buf, i) = Len(buf) \/ buf[FigureEnd(buf, i) + 1] \notin Digits
<1> DEFINE J == {j \in i + 1 .. Len(buf) : \A n \in i + 1 .. j : buf[n] \in Digits}
<1>1. i + 1 \in J /\ J \subseteq 1 .. Len(buf) /\ Len(buf) \in Nat
  BY DEF FigureAt
<1>2. FigureEnd(buf, i) = Max(J)
  BY DEF FigureEnd
<1>3. Max(J) \in J /\ \A y \in J : y <= Max(J)
  <2> HIDE DEF J
  <2> QED
    BY <1>1, MaxIsGreatest
<1> DEFINE e == Max(J)
<1> HIDE DEF e
<1>4. e \in i + 1 .. Len(buf) /\ \A n \in i + 1 .. e : buf[n] \in Digits
  BY <1>3 DEF e
<1>5. ASSUME e # Len(buf), buf[e + 1] \in Digits PROVE FALSE
  <2>1. e + 1 \in i + 1 .. Len(buf)
    BY <1>4, <1>5, <1>1
  <2>2. \A n \in i + 1 .. e + 1 : buf[n] \in Digits
    BY <1>4, <1>5
  <2>3. e + 1 \in J
    BY <2>1, <2>2
  <2> QED
    BY <2>3, <1>3, <1>4 DEF e
<1> QED
  BY <1>2, <1>4, <1>5 DEF e

LEMMA FigureEndUnique ==
  ASSUME NEW B, NEW buf \in Seq(B), NEW i \in 1 .. Len(buf),
         NEW e \in i + 1 .. Len(buf), \A n \in i + 1 .. e : buf[n] \in Digits,
         e = Len(buf) \/ buf[e + 1] \notin Digits
  PROVE  FigureEnd(buf, i) = e
<1> DEFINE J == {j \in i + 1 .. Len(buf) : \A n \in i + 1 .. j : buf[n] \in Digits}
<1>1. J \subseteq 1 .. Len(buf) /\ Len(buf) \in Nat
  OBVIOUS
<1>2. e \in J
  OBVIOUS
<1>3. \A y \in J : y <= e
  <2> SUFFICES ASSUME NEW y \in J, y > e PROVE FALSE
    OBVIOUS
  <2>1. e + 1 \in i + 1 .. y /\ e # Len(buf)
    OBVIOUS
  <2> QED
    BY <2>1
<1>4. Max(J) = e
  <2> HIDE DEF J
  <2> QED
    BY <1>1, <1>2, <1>3, MaxIsUnique
<1> QED
  BY <1>4 DEF FigureEnd

\* buf from d on is part, bytes and all.
PartOf(part, buf, d) ==
    /\ d \in Nat /\ Len(part) + d <= Len(buf)
    /\ \A i \in 1 .. Len(part) : part[i] = buf[i + d]

\* A figure of a part of a buffer that ends before the part does, or that ends with the
\* buffer, ends there as it does in the buffer.
LEMMA FigureOfPart ==
  ASSUME NEW B, NEW buf \in Seq(B), NEW part \in Seq(B), NEW d \in Nat,
         PartOf(part, buf, d),
         NEW i \in 1 .. Len(part), NEW b, b = i + d, FigureAt(buf, b),
         FigureEnd(buf, b) <= Len(part) + d
  PROVE  /\ FigureAt(part, i) /\ part[i] = buf[b]
         /\ FigureEnd(part, i) = FigureEnd(buf, b) - d
         /\ Figure(part, i) = Figure(buf, b)
<1> DEFINE e == FigureEnd(buf, i + d)
<1>1. Len(buf) \in Nat /\ Len(part) \in Nat /\ i \in Nat /\ Len(part) + d <= Len(buf)
      /\ \A j \in 1 .. Len(part) : part[j] = buf[j + d]
  BY DEF PartOf
<1>2. i + d \in 1 .. Len(buf)
  BY <1>1
<1>3. /\ e \in i + d + 1 .. Len(buf)
      /\ \A n \in i + d + 1 .. e : buf[n] \in Digits
      /\ e = Len(buf) \/ buf[e + 1] \notin Digits
  BY <1>2, FigureEndIs
<1>4. e <= Len(part) + d
  OBVIOUS
<1> HIDE DEF e
<1>5. /\ e - d \in i + 1 .. Len(part)
      /\ \A n \in i + 1 .. e - d : part[n] \in Digits
  <2>1. e - d \in i + 1 .. Len(part)
    BY <1>1, <1>3, <1>4
  <2>2. ASSUME NEW n \in i + 1 .. e - d PROVE part[n] \in Digits
    <3>1. n + d \in i + d + 1 .. e /\ n \in 1 .. Len(part)
      BY <1>1, <1>3, <1>4
    <3> QED
      BY <3>1, <1>1, <1>3
  <2> QED
    BY <2>1, <2>2
<1>6. e - d = Len(part) \/ part[e - d + 1] \notin Digits
  <2> SUFFICES ASSUME e - d # Len(part) PROVE part[e - d + 1] \notin Digits
    OBVIOUS
  <2>1. e - d + 1 \in 1 .. Len(part) /\ (e - d + 1) + d = e + 1 /\ e # Len(buf)
    BY <1>1, <1>3, <1>5
  <2> QED
    BY <2>1, <1>1, <1>3
<1>7. FigureEnd(part, i) = e - d
  BY <1>5, <1>6, FigureEndUnique
<1>8. FigureAt(part, i) /\ part[i] = buf[i + d]
  <2>1. part[i] = buf[i + d]
    BY <1>1
  <2>2. i + 1 \in i + 1 .. e - d
    BY <1>1, <1>5
  <2> QED
    BY <2>1, <2>2, <1>1, <1>5 DEF FigureAt
<1>9. SubSeq(part, i + 1, e - d) = SubSeq(buf, i + d + 1, e)
  <2> DEFINE p == SubSeq(part, i + 1, e - d)
             q == SubSeq(buf, i + d + 1, e)
  <2>1. p \in Seq(B) /\ q \in Seq(B) /\ Len(p) = e - d - i /\ Len(q) = e - d - i
    BY <1>1, <1>2, <1>3, <1>5
  <2>2. ASSUME NEW k \in 1 .. e - d - i PROVE p[k] = q[k]
    <3>1. p[k] = part[i + k] /\ q[k] = buf[i + d + k]
      BY <1>1, <1>2, <1>3, <1>5
    <3>2. i + k \in 1 .. Len(part) /\ (i + k) + d = i + d + k
      BY <1>1, <1>3, <1>5
    <3> QED
      BY <3>1, <3>2, <1>1
  <2> HIDE DEF p, q
  <2>3. p = q
    BY <2>1, <2>2
  <2> QED
    BY <2>3 DEF p, q
<1> QED
  BY <1>7, <1>8, <1>9 DEF e, Figure

-----------------------------------------------------------------------------
\* The head holds buf from the start, the tail holds its last Window bytes, or all.
HeadOf(h, buf) ==
    /\ PartOf(h, buf, 0)
    /\ Len(h) < Window => Len(h) = Len(buf)
TailOf(t, buf) ==
    /\ PartOf(t, buf, Len(buf) - Len(t))
    /\ Len(t) = IF Len(buf) < Window THEN Len(buf) ELSE Window

LEMMA PositionsAre ==
  ASSUME NEW B, NEW buf \in Seq(B), NEW k
  PROVE  /\ Positions(buf, k) \subseteq 1 .. Len(buf)
         /\ Len(buf) \in Nat
         /\ \A i : i \in Positions(buf, k) <=>
                     i \in 1 .. Len(buf) /\ FigureAt(buf, i) /\ buf[i] = k
BY DEF Positions

\* A figure of the head is one of the response; a figure of the tail is one of the
\* response that starts in the tail, and the other way round.
LEMMA FigureOfHead ==
  ASSUME NEW B, NEW buf \in Seq(B), NEW h \in Seq(B), HeadOf(h, buf),
         NEW i \in 1 .. Len(h), FigureAt(h, i)
  PROVE  i \in 1 .. Len(buf) /\ FigureAt(buf, i) /\ buf[i] = h[i]
BY DEF HeadOf, PartOf, FigureAt

LEMMA FigureOfTail ==
  ASSUME NEW B, NEW buf \in Seq(B), NEW t \in Seq(B), TailOf(t, buf),
         NEW i \in 1 .. Len(t)
  PROVE  FigureAt(t, i) <=> FigureAt(buf, i + (Len(buf) - Len(t)))
<1> DEFINE d == Len(buf) - Len(t)
<1>1. d \in Nat /\ Len(buf) = Len(t) + d /\ Len(t) \in Nat /\ Len(buf) \in Nat
  BY WindowAssumption DEF TailOf
<1>2. \A j \in 1 .. Len(t) : t[j] = buf[j + d]
  BY DEF TailOf, PartOf
<1> HIDE DEF d
<1>3. t[i] = buf[i + d]
  BY <1>2
<1>4. i < Len(t) <=> i + d < Len(buf)
  BY <1>1
<1>5. i < Len(t) => t[i + 1] = buf[i + d + 1]
  <2> SUFFICES ASSUME i < Len(t) PROVE t[i + 1] = buf[i + d + 1]
    OBVIOUS
  <2>1. i + 1 \in 1 .. Len(t) /\ (i + 1) + d = i + d + 1
    BY <1>1
  <2> QED
    BY <2>1, <1>2
<1>6. FigureAt(t, i) <=> FigureAt(buf, i + d)
  BY <1>3, <1>4, <1>5 DEF FigureAt
<1> QED
  BY <1>6 DEF d

\* The figures a key has in the tail are those that start there.
LEMMA TailFigures ==
  ASSUME NEW B, NEW buf \in Seq(B), NEW t \in Seq(B), TailOf(t, buf), NEW k,
         Positions(t, k) # {}
  PROVE  /\ Positions(buf, k) # {}
         /\ Figure(t, Max(Positions(t, k))) = Figure(buf, Max(Positions(buf, k)))
<1> DEFINE d == Len(buf) - Len(t)
           P == Positions(t, k)
           m == Max(P)
<1>1. /\ d \in Nat /\ Len(buf) = Len(t) + d /\ Len(t) \in Nat /\ Len(buf) \in Nat
      /\ \A j \in 1 .. Len(t) : t[j] = buf[j + d]
      /\ PartOf(t, buf, d)
  <2>1. d \in Nat /\ Len(buf) = Len(t) + d /\ Len(t) \in Nat /\ Len(buf) \in Nat
    BY WindowAssumption DEF TailOf
  <2>2. PartOf(t, buf, d)
    BY DEF TailOf
  <2>3. \A j \in 1 .. Len(t) : t[j] = buf[j + d]
    BY <2>2 DEF PartOf
  <2> QED
    BY <2>1, <2>2, <2>3
<1>2. P \subseteq 1 .. Len(t) /\ P # {}
  BY PositionsAre
<1>3. m \in P /\ \A y \in P : y <= m
  <2> HIDE DEF P
  <2> QED
    BY <1>1, <1>2, MaxIsGreatest
<1>4. m \in 1 .. Len(t) /\ FigureAt(t, m) /\ t[m] = k
  BY <1>3, PositionsAre
<1> HIDE DEF P, m
<1>D. \A i \in 1 .. Len(t) : FigureAt(t, i) <=> FigureAt(buf, i + d)
  BY FigureOfTail
<1> HIDE DEF d
<1>5. FigureAt(buf, m + d) /\ buf[m + d] = k /\ m + d \in 1 .. Len(buf)
  BY <1>1, <1>4, <1>D
<1>6. m + d \in Positions(buf, k)
  BY <1>5, PositionsAre
<1>7. ASSUME NEW y \in Positions(buf, k) PROVE y <= m + d
  <2> SUFFICES ASSUME y > m + d PROVE FALSE
    BY <1>1, <1>4, <1>7, PositionsAre
  <2>1. y \in 1 .. Len(buf) /\ FigureAt(buf, y) /\ buf[y] = k
    BY <1>7, PositionsAre
  <2>2. y - d \in 1 .. Len(t) /\ (y - d) + d = y
    BY <1>1, <1>4, <2>1
  <2>3. FigureAt(t, y - d) /\ t[y - d] = k
    BY <1>1, <2>1, <2>2, <1>D
  <2>4. y - d \in P
    BY <2>2, <2>3, PositionsAre DEF P
  <2> QED
    BY <2>4, <1>3, <1>1, <1>4, <2>1
<1>8. Max(Positions(buf, k)) = m + d
  <2>1. Positions(buf, k) \subseteq 1 .. Len(buf)
    BY PositionsAre
  <2> QED
    BY <1>1, <1>6, <1>7, <2>1, MaxIsUnique
<1>9. FigureEnd(buf, m + d) <= Len(t) + d
  <2>1. FigureEnd(buf, m + d) \in m + d + 1 .. Len(buf)
    BY <1>5, FigureEndIs
  <2> QED
    BY <2>1, <1>1
<1> DEFINE b == m + d
<1> HIDE DEF b
<1>10. Figure(t, m) = Figure(buf, b)
  <2>1. /\ d \in Nat /\ PartOf(t, buf, d) /\ m \in 1 .. Len(t) /\ b = m + d
        /\ FigureAt(buf, b) /\ FigureEnd(buf, b) <= Len(t) + d
    BY <1>1, <1>4, <1>5, <1>9 DEF b
  <2> QED
    BY <2>1, FigureOfPart
<1> QED
  BY <1>6, <1>8, <1>10 DEF m, P, b

\* If every figure is whole at an edge and a key has none that starts in the tail, the
\* head has all of them.
LEMMA HeadFigures ==
  ASSUME NEW B, NEW buf \in Seq(B), NEW t \in Seq(B), NEW h \in Seq(B),
         TailOf(t, buf), HeadOf(h, buf), NEW k,
         \A i \in DOMAIN buf : FigureAt(buf, i) => AtAnEdge(buf, i),
         Positions(t, k) = {}, Positions(buf, k) # {}
  PROVE  /\ Positions(h, k) # {}
         /\ Figure(h, Max(Positions(h, k))) = Figure(buf, Max(Positions(buf, k)))
<1> DEFINE P == Positions(buf, k)
<1>1. /\ Len(t) \in Nat /\ Len(buf) \in Nat /\ Len(h) \in Nat
      /\ Len(t) <= Len(buf) /\ Len(h) <= Len(buf)
      /\ Len(h) < Window => Len(h) = Len(buf)
      /\ Len(t) = IF Len(buf) < Window THEN Len(buf) ELSE Window
      /\ \A j \in 1 .. Len(h) : h[j] = buf[j]
      /\ PartOf(h, buf, 0)
  BY WindowAssumption DEF TailOf, HeadOf, PartOf
<1>2. ASSUME NEW i \in P
      PROVE  /\ i \in 1 .. Len(h) /\ FigureAt(h, i) /\ h[i] = k
             /\ FigureEnd(buf, i) <= Len(h)
             /\ Figure(h, i) = Figure(buf, i)
  <2>1. i \in 1 .. Len(buf) /\ FigureAt(buf, i) /\ buf[i] = k
    BY PositionsAre
  <2>2. FigureEnd(buf, i) \in i + 1 .. Len(buf)
    BY <2>1, FigureEndIs
  <2>3. i <= Len(buf) - Len(t)
    <3> SUFFICES ASSUME i > Len(buf) - Len(t) PROVE FALSE
      BY <1>1, <2>1
    <3> DEFINE j == i - (Len(buf) - Len(t))
    <3>1. j \in 1 .. Len(t) /\ j + (Len(buf) - Len(t)) = i
      BY <1>1, <2>1
    <3>2. FigureAt(t, j)
      BY <2>1, <3>1, FigureOfTail
    <3>3. t[j] = k
      <4> HIDE DEF j
      <4>1. t[j] = buf[j + (Len(buf) - Len(t))]
        BY <3>1 DEF TailOf, PartOf
      <4> QED
        BY <2>1, <3>1, <4>1
    <3> QED
      BY <3>1, <3>2, <3>3, PositionsAre
  <2>4. Len(t) = Window /\ Window <= Len(h) /\ i <= Len(buf) - Window
    BY <2>1, <2>3, <1>1, WindowAssumption
  <2>5. FigureEnd(buf, i) <= Window
    BY <2>1, <2>4, <1>1, WindowAssumption DEF AtAnEdge
  <2> DEFINE z == 0
  <2>6. /\ i \in 1 .. Len(h) /\ FigureEnd(buf, i) <= Len(h)
        /\ z \in Nat /\ i + z = i /\ Len(h) + z = Len(h) /\ PartOf(h, buf, z)
    BY <2>1, <2>2, <2>4, <2>5, <1>1, WindowAssumption
  <2> HIDE DEF z
  <2>7. /\ FigureAt(h, i) /\ h[i] = buf[i]
        /\ Figure(h, i) = Figure(buf, i)
    <3>1. /\ z \in Nat /\ PartOf(h, buf, z) /\ i \in 1 .. Len(h) /\ i = i + z
          /\ FigureAt(buf, i) /\ FigureEnd(buf, i) <= Len(h) + z
      BY <2>1, <2>6
    <3> QED
      BY <3>1, FigureOfPart
  <2> QED
    BY <2>1, <2>6, <2>7
<1>3. Positions(h, k) = P
  <2>1. ASSUME NEW i \in Positions(h, k) PROVE i \in P
    <3>1. i \in 1 .. Len(h) /\ FigureAt(h, i) /\ h[i] = k
      BY PositionsAre
    <3>2. i \in 1 .. Len(buf) /\ FigureAt(buf, i) /\ buf[i] = k
      BY <3>1, FigureOfHead
    <3> QED
      BY <3>2, PositionsAre
  <2>2. ASSUME NEW i \in P PROVE i \in Positions(h, k)
    BY <1>2, <2>2, PositionsAre
  <2> QED
    BY <2>1, <2>2
<1>4. Max(P) \in P
  <2>1. P \subseteq 1 .. Len(buf)
    BY PositionsAre
  <2> QED
    BY <1>1, <2>1, MaxIsGreatest
<1> QED
  BY <1>2, <1>3, <1>4

\* gateway/llm_gateway.py:875-877: reading both ends is reading all of it.
LEMMA BothEndsTell ==
  ASSUME NEW B, NEW buf \in Seq(B), NEW t \in Seq(B), NEW h \in Seq(B),
         TailOf(t, buf), HeadOf(h, buf),
         \A i \in DOMAIN buf : FigureAt(buf, i) => AtAnEdge(buf, i)
  PROVE  Updated(ParseUsage(h), ParseUsage(t)) = ParseUsage(buf)
<1> DEFINE Of(s, k) == Figure(s, Max(Positions(s, k)))
           Has(s) == {key \in Keys : Positions(s, key) # {}}
<1>1. ASSUME NEW s
      PROVE  /\ ParseUsage(s) = [k \in Has(s) |-> Of(s, k)]
             /\ DOMAIN ParseUsage(s) = Has(s)
             /\ \A k \in Has(s) : ParseUsage(s)[k] = Of(s, k)
  BY DEF ParseUsage
<1>2. ASSUME NEW k \in Has(t) PROVE k \in Has(buf) /\ Of(t, k) = Of(buf, k)
  <2>1. k \in Keys /\ Positions(t, k) # {}
    BY <1>2
  <2>2. Positions(buf, k) # {} /\ Of(t, k) = Of(buf, k)
    BY <2>1, TailFigures
  <2> QED
    BY <2>1, <2>2
<1>3. ASSUME NEW k \in Has(buf), k \notin Has(t)
      PROVE  k \in Has(h) /\ Of(h, k) = Of(buf, k)
  <2>1. k \in Keys /\ Positions(t, k) = {} /\ Positions(buf, k) # {}
    BY <1>3
  <2>2. Positions(buf, k) # {} /\ Of(h, k) = Of(buf, k) /\ Positions(h, k) # {}
    BY <2>1, HeadFigures
  <2> QED
    BY <2>1, <2>2
<1>4. ASSUME NEW k \in Has(h) PROVE k \in Has(buf)
  <2>1. PICK i : i \in Positions(h, k)
    OBVIOUS
  <2>2. i \in 1 .. Len(h) /\ FigureAt(h, i) /\ h[i] = k
    BY <2>1, PositionsAre
  <2>3. i \in Positions(buf, k)
    BY <2>2, FigureOfHead, PositionsAre
  <2> QED
    BY <2>3
<1> HIDE DEF Of, Has
<1>5. Has(h) \union Has(t) = Has(buf)
  BY <1>2, <1>3, <1>4
<1>6. ASSUME NEW k \in Has(buf)
      PROVE  (IF k \in Has(t) THEN Of(t, k) ELSE Of(h, k)) = Of(buf, k)
  BY <1>2, <1>3, <1>6
<1>7. Updated(ParseUsage(h), ParseUsage(t)) =
        [k \in Has(buf) |-> IF k \in Has(t) THEN Of(t, k) ELSE Of(h, k)]
  <2>1. Updated(ParseUsage(h), ParseUsage(t)) =
          [k \in Has(buf) |->
              IF k \in Has(t) THEN ParseUsage(t)[k] ELSE ParseUsage(h)[k]]
    BY <1>1, <1>5 DEF Updated
  <2>2. ASSUME NEW k \in Has(buf)
        PROVE  (IF k \in Has(t) THEN ParseUsage(t)[k] ELSE ParseUsage(h)[k]) =
               (IF k \in Has(t) THEN Of(t, k) ELSE Of(h, k))
    BY <1>1, <1>5
  <2> QED
    BY <2>1, <2>2
<1> QED
  BY <1>1, <1>6, <1>7

-----------------------------------------------------------------------------
Then(s1, s2) == s1 \o s2

\* Two parts one after the other are one part.
LEMMA JoinedParts ==
  ASSUME NEW B, NEW buf \in Seq(B), NEW s1 \in Seq(B), NEW s2 \in Seq(B), NEW d, NEW e,
         PartOf(s1, buf, d), PartOf(s2, buf, e), e = d + Len(s1)
  PROVE  /\ Then(s1, s2) \in Seq(B)
         /\ Len(Then(s1, s2)) = Len(s1) + Len(s2)
         /\ PartOf(Then(s1, s2), buf, d)
<1> DEFINE s == Then(s1, s2)
<1>1. s \in Seq(B) /\ Len(s) = Len(s1) + Len(s2)
  BY ConcatProperties DEF Then
<1>2. \A i \in 1 .. Len(s1) : s[i] = s1[i]
  BY ConcatProperties DEF Then
<1>3. \A i \in 1 .. Len(s2) : s[Len(s1) + i] = s2[i]
  BY DEF Then
<1> HIDE DEF s
<1>4. /\ d \in Nat /\ Len(s1) \in Nat /\ Len(s2) \in Nat
      /\ Len(s1) + Len(s2) + d <= Len(buf)
      /\ \A i \in 1 .. Len(s1) : s1[i] = buf[i + d]
      /\ \A i \in 1 .. Len(s2) : s2[i] = buf[i + e]
  BY DEF PartOf
<1>5. ASSUME NEW i \in 1 .. Len(s) PROVE s[i] = buf[i + d]
  <2>1. CASE i <= Len(s1)
    <3>1. i \in 1 .. Len(s1)
      BY <2>1
    <3> QED
      BY <3>1, <1>2, <1>4
  <2>2. CASE i > Len(s1)
    <3> DEFINE j == i - Len(s1)
    <3>1. j \in 1 .. Len(s2) /\ Len(s1) + j = i /\ j + e = i + d
      BY <2>2, <1>1, <1>4
    <3> HIDE DEF j
    <3>2. s[Len(s1) + j] = s2[j] /\ s2[j] = buf[j + e]
      BY <3>1, <1>3, <1>4
    <3> QED
      BY <3>1, <3>2
  <2> QED
    BY <2>1, <2>2, <1>4
<1>6. PartOf(s, buf, d)
  BY <1>1, <1>4, <1>5 DEF PartOf
<1> QED
  BY <1>1, <1>6 DEF s

LEMMA PartOfPart ==
  ASSUME NEW B, NEW buf \in Seq(B), NEW mid \in Seq(B), NEW part \in Seq(B),
         NEW d, NEW e, NEW f,
         PartOf(part, mid, d), PartOf(mid, buf, e), f = d + e
  PROVE  PartOf(part, buf, f)
<1>1. /\ d \in Nat /\ e \in Nat /\ f \in Nat
      /\ Len(part) + d <= Len(mid) /\ Len(mid) + e <= Len(buf)
      /\ Len(part) \in Nat /\ Len(mid) \in Nat /\ Len(buf) \in Nat
      /\ \A i \in 1 .. Len(part) : part[i] = mid[i + d]
      /\ \A i \in 1 .. Len(mid) : mid[i] = buf[i + e]
  BY DEF PartOf
<1>2. ASSUME NEW i \in 1 .. Len(part) PROVE part[i] = buf[i + f]
  <2>1. i + d \in 1 .. Len(mid) /\ (i + d) + e = i + f
    BY <1>1
  <2> QED
    BY <2>1, <1>1
<1> QED
  BY <1>1, <1>2 DEF PartOf

\* A part that ends before the beginning of a buffer does is a part of that beginning.
LEMMA PartOfBeginning ==
  ASSUME NEW B, NEW buf \in Seq(B), NEW mid \in Seq(B), NEW part \in Seq(B), NEW d,
         PartOf(part, buf, d), PartOf(mid, buf, 0), Len(part) + d <= Len(mid)
  PROVE  PartOf(part, mid, d)
<1>1. /\ d \in Nat /\ Len(part) \in Nat /\ Len(mid) \in Nat
      /\ \A i \in 1 .. Len(part) : part[i] = buf[i + d]
      /\ \A i \in 1 .. Len(mid) : mid[i] = buf[i + 0]
  BY DEF PartOf
<1>2. ASSUME NEW i \in 1 .. Len(part) PROVE part[i] = mid[i + d]
  <2>1. i + d \in 1 .. Len(mid) /\ (i + d) + 0 = i + d
    BY <1>1
  <2> QED
    BY <2>1, <1>1
<1> QED
  BY <1>1, <1>2 DEF PartOf

LEMMA SliceIsPart ==
  ASSUME NEW B, NEW buf \in Seq(B), NEW d \in Nat, NEW n \in Nat, d <= n, n <= Len(buf)
  PROVE  /\ SubSeq(buf, d + 1, n) \in Seq(B)
         /\ Len(SubSeq(buf, d + 1, n)) = n - d
         /\ PartOf(SubSeq(buf, d + 1, n), buf, d)
<1> DEFINE s == SubSeq(buf, d + 1, n)
<1>1. s \in Seq(B) /\ Len(s) = n - d
  OBVIOUS
<1>2. \A i \in 1 .. n - d : s[i] = buf[i + d]
  OBVIOUS
<1> HIDE DEF s
<1>3. PartOf(s, buf, d)
  BY <1>1, <1>2 DEF PartOf
<1> QED
  BY <1>1, <1>3 DEF s

LEMMA LastBytesAre ==
  ASSUME NEW B, NEW buf \in Seq(B)
  PROVE  LastBytes(buf) \in Seq(B) /\ TailOf(LastBytes(buf), buf)
<1> USE WindowAssumption
<1> DEFINE n == Len(buf)
           d == IF n < Window THEN 0 ELSE n - Window
<1>1. n \in Nat /\ d \in Nat /\ d <= n /\ n - d = IF n < Window THEN n ELSE Window
  OBVIOUS
<1>2. Max({1, n - Window + 1}) = d + 1
  <2>1. d + 1 \in {1, n - Window + 1} /\ \A y \in {1, n - Window + 1} : d + 1 >= y
    OBVIOUS
  <2>2. \A z \in {1, n - Window + 1} :
            (\A y \in {1, n - Window + 1} : z >= y) => z = d + 1
    OBVIOUS
  <2> HIDE DEF d, n
  <2> QED
    BY <2>1, <2>2 DEF Max
<1>3. LastBytes(buf) = SubSeq(buf, d + 1, n)
  BY <1>2 DEF LastBytes
<1> DEFINE t == SubSeq(buf, d + 1, n)
<1> HIDE DEF d
<1>4. t \in Seq(B) /\ Len(t) = n - d /\ PartOf(t, buf, d)
  BY <1>1, SliceIsPart
<1> HIDE DEF t, n
<1>5. d = n - Len(t)
  BY <1>1, <1>4
<1>6. TailOf(t, buf)
  BY <1>1, <1>4, <1>5 DEF TailOf, n
<1> QED
  BY <1>3, <1>4, <1>6 DEF t

-----------------------------------------------------------------------------
\* What relay keeps: the beginning of what it has relayed, all of it while it is short;
\* and the end of it, as much as a window holds.
HeadKeepsStart ==
    /\ head \in Seq(Range(body)) /\ PartOf(head, body, 0)
    /\ Len(head) <= relayed
    /\ Len(head) < Window => Len(head) = relayed

TailKeepsEnd ==
    /\ tail \in Seq(Range(body)) /\ PartOf(tail, body, relayed - Len(tail))
    /\ Len(tail) = IF relayed < Window THEN relayed ELSE Window

RelayInv ==
    /\ body \in Streams /\ relayed \in 0 .. Len(body)
    /\ HeadKeepsStart
    /\ TailKeepsEnd
    /\ usage # NoFigures => usage = Updated(ParseUsage(head), ParseUsage(tail))

LEMMA ChunkStep ==
  ASSUME RelayInv, NEW n \in 1 .. Len(body), Chunk(n)
  PROVE  RelayInv'
<1> DEFINE B == Range(body)
           chunk == SubSeq(body, relayed + 1, n)
<1>1. /\ body \in Streams /\ body \in Seq(B) /\ Len(body) \in Nat
      /\ relayed \in Nat /\ n \in Nat /\ relayed < n /\ n <= Len(body)
  BY StreamsAssumption DEF RelayInv, Chunk
<1>2. /\ usage = NoFigures /\ usage' = usage
      /\ relayed' = n /\ body' = body
      /\ head' = IF Len(head) < Window THEN Then(head, chunk) ELSE head
      /\ tail' = LastBytes(Then(tail, chunk))
  BY DEF Chunk, Then
<1>3. chunk \in Seq(B) /\ Len(chunk) = n - relayed /\ PartOf(chunk, body, relayed)
  BY <1>1, SliceIsPart
<1> HIDE DEF chunk
<1>4. HeadKeepsStart'
  <2>1. /\ head \in Seq(B) /\ PartOf(head, body, 0) /\ Len(head) <= relayed
        /\ Len(head) < Window => Len(head) = relayed
        /\ Len(head) \in Nat
    BY DEF RelayInv, HeadKeepsStart
  <2>2. CASE Len(head) < Window
    <3>1. relayed = 0 + Len(head)
      BY <1>1, <2>1, <2>2
    <3>2. /\ Then(head, chunk) \in Seq(B)
          /\ Len(Then(head, chunk)) = Len(head) + Len(chunk)
          /\ PartOf(Then(head, chunk), body, 0)
      BY <1>1, <1>3, <2>1, <3>1, JoinedParts
    <3>3. head' = Then(head, chunk) /\ Len(head) + Len(chunk) = n
      BY <1>1, <1>2, <1>3, <2>1, <2>2
    <3> QED
      BY <1>1, <1>2, <3>2, <3>3 DEF HeadKeepsStart
  <2>3. CASE Len(head) >= Window
    <3>1. head' = head /\ ~(Len(head) < Window)
      BY <1>2, <2>1, <2>3, WindowAssumption
    <3> QED
      BY <1>1, <1>2, <2>1, <3>1 DEF HeadKeepsStart
  <2> QED
    BY <2>1, <2>2, <2>3, WindowAssumption
<1>5. TailKeepsEnd'
  <2> DEFINE long == Then(tail, chunk)
             t == LastBytes(long)
  <2>1. /\ tail \in Seq(B) /\ PartOf(tail, body, relayed - Len(tail))
        /\ Len(tail) = IF relayed < Window THEN relayed ELSE Window
        /\ Len(tail) \in Nat
    BY DEF RelayInv, TailKeepsEnd
  <2> DEFINE d == relayed - Len(tail)
  <2>2. d \in Nat /\ relayed = d + Len(tail) /\ PartOf(tail, body, d)
    BY <1>1, <2>1
  <2> HIDE DEF d
  <2>3. /\ long \in Seq(B) /\ Len(long) = Len(tail) + Len(chunk)
        /\ PartOf(long, body, d)
    <3>1. /\ body \in Seq(B) /\ tail \in Seq(B) /\ chunk \in Seq(B)
          /\ PartOf(tail, body, d) /\ PartOf(chunk, body, relayed)
          /\ relayed = d + Len(tail)
      BY <1>1, <1>3, <2>1, <2>2
    <3> QED
      BY <3>1, JoinedParts
  <2> HIDE DEF long
  <2>4. t \in Seq(B) /\ TailOf(t, long)
    BY <2>3, LastBytesAre
  <2>5. tail' = t
    BY <1>2 DEF long
  <2> HIDE DEF t
  <2>6. /\ Len(t) = IF Len(long) < Window THEN Len(long) ELSE Window
        /\ PartOf(t, long, Len(long) - Len(t))
        /\ Len(t) \in Nat
    BY <2>4 DEF TailOf
  <2>7. Len(t) = IF n < Window THEN n ELSE Window
    <3>1. Len(long) = Len(tail) + (n - relayed)
      BY <1>3, <2>3
    <3>2. CASE relayed < Window
      <4>1. Len(long) = n
        BY <3>1, <3>2, <2>1, <1>1
      <4> QED
        BY <4>1, <2>6
    <3>3. CASE ~(relayed < Window)
      <4>1. ~(Len(long) < Window) /\ ~(n < Window)
        BY <3>1, <3>3, <2>1, <1>1, WindowAssumption
      <4> QED
        BY <4>1, <2>6
    <3> QED
      BY <3>2, <3>3
  <2>8. n - Len(t) = (Len(long) - Len(t)) + d
    <3>1. Len(long) = Len(tail) + (n - relayed)
      BY <1>3, <2>3
    <3>2. /\ Len(tail) \in Nat /\ Len(t) \in Nat /\ n \in Nat /\ relayed \in Nat
          /\ d \in Nat /\ relayed = d + Len(tail)
      BY <1>1, <2>1, <2>2, <2>6
    <3> DEFINE l == Len(long)
               lt == Len(t)
               la == Len(tail)
    <3> HIDE DEF l, lt, la
    <3>3. /\ l = la + (n - relayed) /\ la \in Nat /\ lt \in Nat /\ n \in Nat
          /\ relayed \in Nat /\ d \in Nat /\ relayed = d + la
      BY <3>1, <3>2 DEF l, lt, la
    <3>4. n - lt = (l - lt) + d
      BY <3>3
    <3> QED
      BY <3>4 DEF l, lt, la
  <2>9. PartOf(t, body, n - Len(t))
    <3> DEFINE e == Len(long) - Len(t)
               f == n - Len(t)
    <3>1. PartOf(t, long, e) /\ f = e + d
      BY <2>6, <2>8
    <3> HIDE DEF e, f
    <3>2. PartOf(t, body, f)
      <4>1. body \in Seq(B) /\ long \in Seq(B) /\ t \in Seq(B) /\ PartOf(long, body, d)
        BY <1>1, <2>3, <2>4
      <4> QED
        BY <3>1, <4>1, PartOfPart
    <3> QED
      BY <3>2 DEF f
  <2> QED
    BY <1>2, <2>4, <2>5, <2>7, <2>9 DEF TailKeepsEnd
<1> QED
  BY <1>1, <1>2, <1>4, <1>5 DEF RelayInv

NothingYet ==
    body \in Streams /\ relayed = 0 /\ head = <<>> /\ tail = <<>> /\ usage = NoFigures

LEMMA NothingKept == NothingYet => RelayInv
<1> SUFFICES ASSUME NothingYet PROVE RelayInv
  OBVIOUS
<1> USE DEF NothingYet
<1>1. body \in Seq(Range(body)) /\ Len(body) \in Nat
  BY StreamsAssumption
<1>2. Len(head) = 0 /\ Len(tail) = 0 /\ head \in Seq(Range(body)) /\ tail \in Seq(Range(body))
  OBVIOUS
<1>3. PartOf(head, body, 0) /\ PartOf(tail, body, relayed - Len(tail))
  BY <1>1, <1>2 DEF PartOf
<1> QED
  BY <1>1, <1>2, <1>3, WindowAssumption DEF RelayInv, HeadKeepsStart, TailKeepsEnd

LEMMA RelayInvariant == LogSpec => []RelayInv
<1>1. LogInit => RelayInv
  BY NothingKept DEF LogInit, NothingYet
<1>2. RelayInv /\ [LogNext]_logVars => RelayInv'
  <2> SUFFICES ASSUME RelayInv, [LogNext]_logVars PROVE RelayInv'
    OBVIOUS
  <2>1. CASE UNCHANGED logVars
    BY <2>1 DEF RelayInv, HeadKeepsStart, TailKeepsEnd, logVars, relayVars
  <2>2. ASSUME NEW n \in 1 .. Len(body), Chunk(n) PROVE RelayInv'
    BY <2>2, ChunkStep
  <2>3. CASE RelayOver
    BY <2>3 DEF RelayInv, HeadKeepsStart, TailKeepsEnd, RelayOver, FiguresRead
  <2>4. ASSUME NEW b \in Streams, NextRequest(b) \/ CloseRaises(b) PROVE RelayInv'
    <3>1. NothingYet'
      BY <2>4 DEF NextRequest, CloseRaises, Another, NothingYet
    <3>2. (NothingYet => RelayInv)'
      BY NothingKept, PTL
    <3> QED
      BY <3>1, <3>2
  <2> QED
    BY <2>1, <2>2, <2>3, <2>4 DEF LogNext
<1> QED
  BY <1>1, <1>2, PTL DEF LogSpec

\* gateway/llm_gateway.py:875-877: for any stream, chunks and window, what is logged of a
\* response is what reading all of it would have given, if each of its figures is whole
\* within a window of its beginning or starts within one of its end.
THEOREM FiguresAreExact == LogSpec => []FiguresExact
<1>1. RelayInv => FiguresExact
  <2> SUFFICES ASSUME RelayInv, usage # NoFigures,
                      \A i \in DOMAIN Relayed : FigureAt(Relayed, i) => AtAnEdge(Relayed, i)
               PROVE  usage = ParseUsage(Relayed)
    BY DEF FiguresExact
  <2> DEFINE B == Range(body)
             s == Relayed
  <2>1. body \in Seq(B) /\ relayed \in Nat /\ relayed <= Len(body) /\ Len(body) \in Nat
    BY StreamsAssumption DEF RelayInv
  <2>2. s \in Seq(B) /\ Len(s) = relayed /\ PartOf(s, body, 0)
    <3>1. s = SubSeq(body, 0 + 1, relayed)
      BY DEF Relayed
    <3> HIDE DEF s
    <3> QED
      BY <2>1, <3>1, SliceIsPart
  <2>3. /\ head \in Seq(B) /\ tail \in Seq(B)
        /\ PartOf(head, body, 0) /\ PartOf(tail, body, relayed - Len(tail))
        /\ Len(head) + 0 <= relayed
        /\ Len(tail) + (relayed - Len(tail)) <= relayed
        /\ Len(head) < Window => Len(head) = relayed
        /\ Len(tail) = IF relayed < Window THEN relayed ELSE Window
    BY <2>1 DEF RelayInv, HeadKeepsStart, TailKeepsEnd
  <2> HIDE DEF s
  <2>4. PartOf(head, s, 0) /\ PartOf(tail, s, relayed - Len(tail))
    BY <2>1, <2>2, <2>3, PartOfBeginning
  <2>5. HeadOf(head, s) /\ TailOf(tail, s)
    BY <2>2, <2>3, <2>4 DEF HeadOf, TailOf
  <2>6. Updated(ParseUsage(head), ParseUsage(tail)) = ParseUsage(s)
    <3>1. \A i \in DOMAIN s : FigureAt(s, i) => AtAnEdge(s, i)
      BY DEF s
    <3> QED
      BY <2>2, <2>3, <2>5, <3>1, BothEndsTell
  <2> QED
    BY <2>6 DEF RelayInv, s
<1> QED
  BY <1>1, RelayInvariant, PTL

\* A figure read is a sequence of digits.
LEMMA FiguresAreDigits ==
  ASSUME NEW B, NEW buf \in Seq(B), NEW k \in DOMAIN ParseUsage(buf)
  PROVE  k \in Keys /\ ParseUsage(buf)[k] \in Seq(Digits)
<1> DEFINE P == Positions(buf, k)
<1>1. k \in Keys /\ P # {} /\ ParseUsage(buf)[k] = Figure(buf, Max(P))
  BY DEF ParseUsage
<1>2. P \subseteq 1 .. Len(buf) /\ Len(buf) \in Nat
  BY DEF Positions
<1>3. Max(P) \in P
  <2> HIDE DEF P
  <2> QED
    BY <1>1, <1>2, MaxIsGreatest
<1>4. PICK i \in 1 .. Len(buf) : i = Max(P) /\ FigureAt(buf, i)
  BY <1>2, <1>3 DEF Positions
<1> HIDE DEF P
<1>5. PICK e \in i + 1 .. Len(buf) :
        e = FigureEnd(buf, i) /\ \A n \in i + 1 .. e : buf[n] \in Digits
  BY <1>4, FigureEndIs
<1> DEFINE s == SubSeq(buf, i + 1, e)
<1>6. Figure(buf, i) = s
  BY <1>5 DEF Figure
<1>7. /\ i \in Nat /\ e \in Nat /\ i <= e /\ e <= Len(buf)
  BY <1>2, <1>5
<1>8. s \in Seq(B) /\ Len(s) = e - i /\ PartOf(s, buf, i)
  BY <1>7, SliceIsPart
<1> HIDE DEF s
<1>9. \A n \in 1 .. Len(s) : s[n] \in Digits
  <2> SUFFICES ASSUME NEW n \in 1 .. Len(s) PROVE s[n] \in Digits
    OBVIOUS
  <2>1. n + i \in i + 1 .. e
    BY <1>7, <1>8
  <2>2. s[n] = buf[n + i]
    BY <1>8 DEF PartOf
  <2> QED
    BY <2>1, <2>2, <1>5
<1>10. s \in Seq(Digits)
  BY <1>8, <1>9
<1> QED
  BY <1>1, <1>4, <1>6, <1>10

FiguresTyped == \A k \in DOMAIN usage : k \in Keys /\ usage[k] \in Seq(Digits)

\* The types of the usage log: what is logged are keys parse_usage knows and figures made
\* of digits, a record is written only if there is one, and the file holds nothing but
\* records, parts of them and ends of lines.
THEOREM LogTypes == LogSpec => []LogTypeOK
<1>1. LogInit => FiguresTyped
  BY DEF LogInit, FiguresTyped, NoFigures
<1>2. FiguresTyped /\ RelayInv /\ [LogNext]_logVars => FiguresTyped'
  <2> SUFFICES ASSUME FiguresTyped, RelayInv, [LogNext]_logVars PROVE FiguresTyped'
    OBVIOUS
  <2>1. CASE UNCHANGED logVars
    BY <2>1 DEF FiguresTyped, logVars, relayVars
  <2>2. ASSUME NEW n \in 1 .. Len(body), Chunk(n) PROVE FiguresTyped'
    BY <2>2 DEF FiguresTyped, Chunk
  <2>3. CASE RelayOver
    <3> DEFINE h == ParseUsage(head)
               t == ParseUsage(tail)
    <3>1. usage' = Updated(h, t)
      BY <2>3 DEF RelayOver, FiguresRead
    <3>2. head \in Seq(Range(body)) /\ tail \in Seq(Range(body))
      BY DEF RelayInv, HeadKeepsStart, TailKeepsEnd
    <3>3. /\ \A k \in DOMAIN h : k \in Keys /\ h[k] \in Seq(Digits)
          /\ \A k \in DOMAIN t : k \in Keys /\ t[k] \in Seq(Digits)
      BY <3>2, FiguresAreDigits
    <3> HIDE DEF h, t
    <3>4. /\ DOMAIN usage' = DOMAIN h \union DOMAIN t
          /\ \A k \in DOMAIN h \union DOMAIN t :
               usage'[k] = IF k \in DOMAIN t THEN t[k] ELSE h[k]
      BY <3>1 DEF Updated
    <3> QED
      BY <3>3, <3>4 DEF FiguresTyped
  <2>4. ASSUME NEW b \in Streams, NextRequest(b) \/ CloseRaises(b) PROVE FiguresTyped'
    BY <2>4 DEF FiguresTyped, NextRequest, CloseRaises, Another, NoFigures
  <2> QED
    BY <2>1, <2>2, <2>3, <2>4 DEF LogNext
<1>3. LogSpec => []FiguresTyped
  BY <1>1, <1>2, RelayInvariant, PTL DEF LogSpec
<1>4. FiguresTyped /\ RelayInv /\ FileInv => LogTypeOK
  BY DEF FiguresTyped, RelayInv, FileInv, LogTypeOK
<1> QED
  BY <1>3, <1>4, RelayInvariant, FileInvariant, PTL

-----------------------------------------------------------------------------
(* The supervisor of the relays *)

\* $! is only of interest between a fork and the line that notes it.
ForkNoted == pc \notin Forking => forked = None

\* The first of the two has ended, or was killed, when the second is awaited; no
\* PID is noted over another.
StopsInTurn ==
    /\ pc = "await login" => ~Seen(pid["node"])
    /\ pc \in {"login", "login pid"} => pid["login"] = None

\* Relays are started for a lease that was there when the loop looked.
WantKnown ==
    /\ then = "node" => want \in Targets
    /\ pc \in {"node", "login"} \union Forking => then = "node"

LoopInv == RelaysTypeOK /\ ForkNoted /\ StopsInTurn /\ WantKnown /\ NoRelayForgotten

-----------------------------------------------------------------------------
\* The PIDs the loop holds.
LEMMA HeldPids ==
    ASSUME RelaysTypeOK
    PROVE  Range(pid) = {pid["node"], pid["login"]}
<1>1. DOMAIN pid = {"node", "login"}
  BY DEF RelaysTypeOK, Roles
<1> QED
  BY <1>1 DEF Range

LEMMA HeldPidsNext ==
    ASSUME RelaysTypeOK'
    PROVE  Range(pid)' = {pid'["node"], pid'["login"]}
<1>1. DOMAIN pid' = {"node", "login"}
  BY DEF RelaysTypeOK, Roles
<1> QED
  BY <1>1 DEF Range

LEMMA RelayTypes ==
    ASSUME NEW relay \in Relays
    PROVE  /\ \A st \in {"listening", "closing"} :
                /\ [relay EXCEPT !.st = st] \in Relays
                /\ [relay EXCEPT !.st = st].seen = relay.seen
                /\ [relay EXCEPT !.st = st].stray = relay.stray
           /\ [relay EXCEPT !.seen = FALSE] \in Relays
           /\ [relay EXCEPT !.seen = FALSE].seen = FALSE
BY DEF Relays

\* Relays and jobs: what lets no relay appear that can be seen.
LEMMA RelayStepKeeps ==
    ASSUME LoopInv, UNCHANGED loopVars, lease' \in Targets \union {None},
           proc' \in [Pids -> Relays \union {None}], deaths' \in 0 .. MaxDeaths,
           \A p \in Pids : Seen(p)' => Seen(p) /\ proc'[p].stray = proc[p].stray
    PROVE  LoopInv'
<1> USE PidsAssumption
<1>1. RelaysTypeOK'
  BY DEF LoopInv, RelaysTypeOK, loopVars
<1>2. ForkNoted'
  BY DEF LoopInv, ForkNoted, loopVars
<1>3. StopsInTurn'
  BY DEF LoopInv, StopsInTurn, RelaysTypeOK, loopVars, Seen, Alive, Roles
<1>4. WantKnown'
  BY DEF LoopInv, WantKnown, loopVars
<1>5. NoRelayForgotten'
  BY DEF LoopInv, NoRelayForgotten, loopVars
<1> QED
  BY <1>1, <1>2, <1>3, <1>4, <1>5 DEF LoopInv

LEMMA RelayStep ==
    ASSUME LoopInv, RelayNext
    PROVE  LoopInv'
<1> USE PidsAssumption, TargetsAssumption
<1> PICK p \in Pids :
        \/ Listens(p) \/ LastConnectionEnds(p) \/ RelayDies(p)
        \/ JobOver(p) \/ StepReaped(p)
  BY DEF RelayNext
<1>0. RelaysTypeOK
  BY DEF LoopInv
<1>1. CASE Listens(p)
  <2>1. UNCHANGED loopVars /\ lease' \in Targets \union {None} /\ deaths' \in 0 .. MaxDeaths
    BY <1>0, <1>1 DEF Listens, RelaysTypeOK
  <2>2. proc' \in [Pids -> Relays \union {None}]
    <3>1. proc[p] \in Relays
      BY <1>0, <1>1 DEF Listens, Alive, RelaysTypeOK
    <3>2. [proc[p] EXCEPT !.st = "listening"] \in Relays
      BY <3>1, RelayTypes
    <3> QED
      BY <1>0, <1>1, <3>2 DEF Listens, RelaysTypeOK
  <2>3. \A q \in Pids : Seen(q)' => Seen(q) /\ proc'[q].stray = proc[q].stray
    BY <1>0, <1>1 DEF Listens, RelaysTypeOK, Seen, Alive, Relays
  <2> QED
    BY <2>1, <2>2, <2>3, RelayStepKeeps
<1>2. CASE LastConnectionEnds(p) \/ JobOver(p) \/ StepReaped(p)
  <2>1. UNCHANGED loopVars /\ lease' \in Targets \union {None} /\ deaths' \in 0 .. MaxDeaths
    BY <1>0, <1>2 DEF LastConnectionEnds, JobOver, StepReaped, RelaysTypeOK
  <2>2. proc' = [proc EXCEPT ![p] = None]
    BY <1>2 DEF LastConnectionEnds, JobOver, StepReaped
  <2>3. proc' \in [Pids -> Relays \union {None}]
    BY <1>0, <2>2 DEF RelaysTypeOK
  <2>4. \A q \in Pids : Seen(q)' => Seen(q) /\ proc'[q].stray = proc[q].stray
    BY <1>0, <2>2 DEF RelaysTypeOK, Seen, Alive
  <2> QED
    BY <2>1, <2>3, <2>4, RelayStepKeeps
<1>3. CASE RelayDies(p)
  <2>1. UNCHANGED loopVars /\ lease' \in Targets \union {None}
    BY <1>0, <1>3 DEF RelayDies, RelaysTypeOK
  <2>2. deaths' \in 0 .. MaxDeaths
    <3>1. deaths < MaxDeaths /\ deaths' = deaths + 1
      BY <1>3 DEF RelayDies
    <3>2. deaths \in 0 .. MaxDeaths
      BY <1>0 DEF RelaysTypeOK
    <3> QED
      BY <3>1, <3>2, DeathsAssumption
  <2>3. proc' \in [Pids -> Relays \union {None}]
    <3>1. proc[p] \in Relays
      BY <1>0, <1>3 DEF RelayDies, Seen, Alive, RelaysTypeOK
    <3>2. [proc[p] EXCEPT !.seen = FALSE] \in Relays
      BY <3>1, RelayTypes
    <3> QED
      BY <1>0, <1>3, <3>2 DEF RelayDies, RelaysTypeOK
  <2>4. \A q \in Pids : Seen(q)' => Seen(q) /\ proc'[q].stray = proc[q].stray
    BY <1>0, <1>3 DEF RelayDies, RelaysTypeOK, Seen, Alive, Relays
  <2> QED
    BY <2>1, <2>2, <2>3, <2>4, RelayStepKeeps
<1> QED
  BY <1>1, <1>2, <1>3

LEMMA LoopStep ==
    ASSUME LoopInv, LoopNext
    PROVE  LoopInv'
<1> USE PidsAssumption, TargetsAssumption
<1>0. RelaysTypeOK /\ ForkNoted /\ StopsInTurn /\ WantKnown /\ NoRelayForgotten
  BY DEF LoopInv
<1>h. Range(pid) = {pid["node"], pid["login"]}
  BY <1>0, HeldPids
<1>n. "node" \in Roles /\ "login" \in Roles /\ \A r \in Roles : pid[r] \in Pids \union {None}
  BY <1>0 DEF RelaysTypeOK, Roles
<1>1. CASE Look
  <2>1. UNCHANGED <<proc, pid, forked>>
    BY <1>1 DEF Look
  <2>2. pc' \in {"kill", "sleep"} /\ then' \in {"node", "sleep", "exit"} /\ pc = "look"
    BY <1>0, <1>1 DEF Look, StopAndGo, RelaysTypeOK
  <2>3. RelaysTypeOK'
    BY <1>0, <1>1, <2>1, <2>2 DEF Look, RelaysTypeOK, Forking
  <2>4. ForkNoted' /\ StopsInTurn'
    BY <1>0, <2>1, <2>2 DEF ForkNoted, StopsInTurn, Forking
  <2>6. WantKnown'
    BY <1>0, <1>1, <2>2 DEF Look, StopAndGo, WantKnown, Forking, RelaysTypeOK
  <2>5. NoRelayForgotten'
    BY <1>0, <2>1, <2>2 DEF NoRelayForgotten, Seen, Alive
  <2> QED
    BY <2>3, <2>4, <2>5, <2>6 DEF LoopInv
<1>2. CASE Sleep
  <2>1. RelaysTypeOK'
    BY <1>0, <1>2 DEF Sleep, RelaysTypeOK, Forking
  <2>2. ForkNoted' /\ StopsInTurn' /\ WantKnown'
    BY <1>0, <1>2 DEF Sleep, ForkNoted, StopsInTurn, WantKnown, Forking
  <2>3. NoRelayForgotten'
    BY <1>0, <1>2 DEF Sleep, NoRelayForgotten, Seen, Alive
  <2> QED
    BY <2>1, <2>2, <2>3 DEF LoopInv
<1>3. CASE Kill
  <2>1. UNCHANGED <<lease, pid, forked, current, want, then, deaths>> /\ pc' = "await node"
    BY <1>3 DEF Kill
  <2>2. \A p \in Pids : proc'[p] = IF p \in Range(pid) /\ Seen(p)
                                   THEN [proc[p] EXCEPT !.st = "closing"] ELSE proc[p]
    BY <1>3 DEF Kill
  <2>3. proc' \in [Pids -> Relays \union {None}]
    <3>1. ASSUME NEW p \in Pids, Seen(p)
          PROVE  [proc[p] EXCEPT !.st = "closing"] \in Relays
      <4>1. proc[p] \in Relays
        BY <1>0, <3>1 DEF RelaysTypeOK, Seen, Alive
      <4> QED
        BY <4>1, RelayTypes
    <3> QED
      BY <1>0, <1>3, <3>1 DEF Kill, RelaysTypeOK
  <2>4. ASSUME NEW p \in Pids, Seen(p)'
        PROVE  Seen(p) /\ proc'[p].stray = proc[p].stray
    <3>1. CASE p \in Range(pid) /\ Seen(p)
      <4>1. proc[p] \in Relays
        BY <1>0, <3>1 DEF RelaysTypeOK, Seen, Alive
      <4> QED
        BY <2>2, <3>1, <4>1, RelayTypes
    <3>2. CASE ~(p \in Range(pid) /\ Seen(p))
      BY <2>2, <2>4, <3>2 DEF Seen, Alive
    <3> QED
      BY <3>1, <3>2
  <2>5. RelaysTypeOK'
    BY <1>0, <2>1, <2>3 DEF RelaysTypeOK, Forking
  <2>6. ForkNoted' /\ StopsInTurn' /\ WantKnown'
    BY <1>0, <1>3, <2>1 DEF Kill, ForkNoted, StopsInTurn, WantKnown, Forking
  <2>7. NoRelayForgotten'
    BY <1>0, <2>1, <2>4 DEF NoRelayForgotten
  <2> QED
    BY <2>5, <2>6, <2>7 DEF LoopInv
<1>4. ASSUME NEW r \in Roles, Await(r)
      PROVE  /\ proc' \in [Pids -> Relays \union {None}]
             /\ pid[r] # None => ~(proc'[pid[r]] # None /\ proc'[pid[r]].seen)
             /\ \A p \in Pids : Seen(p)' => Seen(p) /\ proc'[p] = proc[p] /\ p # pid[r]
  <2>1. CASE Seen(pid[r])
    <3>1. pid[r] \in Pids /\ proc[pid[r]] \in Relays
      BY <1>0, <1>n, <2>1 DEF RelaysTypeOK, Seen, Alive
    <3>2. proc' = [proc EXCEPT ![pid[r]] = Killed(pid[r])]
      BY <1>4, <2>1 DEF Await
    <3>3. /\ Killed(pid[r]) \in Relays \union {None}
          /\ Killed(pid[r]) # None => ~Killed(pid[r]).seen
      BY <3>1 DEF Killed, Relays
    <3> QED
      BY <1>0, <3>1, <3>2, <3>3 DEF RelaysTypeOK, Seen, Alive
  <2>2. CASE ~Seen(pid[r])
    BY <1>0, <1>4, <2>2 DEF Await, RelaysTypeOK, Seen, Alive
  <2> QED
    BY <2>1, <2>2
<1>5. CASE AwaitNode
  <2>1. Await("node")
    BY <1>5 DEF AwaitNode
  <2>2. UNCHANGED <<lease, pid, forked, current, want, then, deaths>>
        /\ pc = "await node" /\ pc' = "await login"
    BY <1>5 DEF AwaitNode, Await
  <2>3. RelaysTypeOK'
    BY <1>0, <1>4, <1>n, <2>1, <2>2 DEF RelaysTypeOK, Forking
  <2>4. ForkNoted' /\ WantKnown'
    BY <1>0, <2>2 DEF ForkNoted, WantKnown, Forking
  <2>5. StopsInTurn'
    BY <1>4, <1>n, <2>1, <2>2 DEF StopsInTurn, Seen, Alive
  <2>6. NoRelayForgotten'
    BY <1>0, <1>4, <1>n, <2>1, <2>2 DEF NoRelayForgotten
  <2> QED
    BY <2>3, <2>4, <2>5, <2>6 DEF LoopInv
<1>6. CASE AwaitLogin
  <2>1. Await("login")
    BY <1>6 DEF AwaitLogin
  <2>2. UNCHANGED <<lease, forked, want, then, deaths>> /\ pc = "await login"
    BY <1>6 DEF AwaitLogin, Await
  <2>3. pid' = [q \in Roles |-> None] /\ pc' = then /\ current' \in {None, current}
    BY <1>6 DEF AwaitLogin, Forgotten
  <2>4. RelaysTypeOK'
    BY <1>0, <1>4, <1>n, <2>1, <2>2, <2>3 DEF RelaysTypeOK, Forking
  <2>5. ForkNoted' /\ StopsInTurn' /\ WantKnown'
    BY <1>0, <1>n, <2>2, <2>3 DEF RelaysTypeOK, ForkNoted, StopsInTurn, WantKnown, Forking
  <2>6. NoRelayForgotten'
    BY <1>0, <1>4, <1>h, <1>n, <2>1, <2>2, <2>3 DEF NoRelayForgotten, StopsInTurn
  <2> QED
    BY <2>4, <2>5, <2>6 DEF LoopInv
<1>7. ASSUME NEW r \in Roles, Fork(r)
      PROVE  LoopInv'
  <2>1. PICK p \in Pids :
          /\ Free(p)
          /\ proc' = [proc EXCEPT ![p] = [role |-> r, to |-> want, st |-> "starting",
                                          seen |-> TRUE, stray |-> FALSE]]
          /\ forked' = p
    BY <1>7 DEF Fork
  <2>2. /\ UNCHANGED <<lease, pid, current, want, then, deaths>>
        /\ pc = r
        /\ pc' = IF r = "node" THEN "node pid" ELSE "login pid"
    BY <1>7 DEF Fork
  <2>3. pc \in {"node", "login"} /\ want \in Targets
    BY <1>0, <2>2 DEF WantKnown, Roles
  <2>4. proc'[p] \in Relays /\ \A q \in Pids \ {p} : proc'[q] = proc[q]
    BY <1>0, <2>1, <2>3 DEF RelaysTypeOK, Relays
  <2>5. proc' \in [Pids -> Relays \union {None}]
    BY <1>0, <2>1, <2>4 DEF RelaysTypeOK
  <2>6. RelaysTypeOK'
    BY <1>0, <2>1, <2>2, <2>3, <2>5 DEF RelaysTypeOK, Forking
  <2>7. ForkNoted' /\ StopsInTurn' /\ WantKnown'
    BY <1>0, <2>2, <2>3 DEF ForkNoted, StopsInTurn, WantKnown, Forking
  <2>8. \A q \in Pids : Seen(q)' => q = p \/ (Seen(q) /\ proc'[q] = proc[q])
    BY <2>4 DEF Seen, Alive
  <2>9. forked = None
    BY <1>0, <2>3 DEF ForkNoted, Forking
  <2>10. NoRelayForgotten'
    BY <1>0, <2>1, <2>2, <2>8, <2>9 DEF NoRelayForgotten
  <2> QED
    BY <2>6, <2>7, <2>10 DEF LoopInv
<1>8. CASE NoteNode
  <2>1. /\ UNCHANGED <<lease, proc, current, want, then, deaths>>
        /\ pc = "node pid" /\ pc' = "login"
        /\ pid' = [pid EXCEPT !["node"] = forked] /\ forked' = None
    BY <1>8 DEF NoteNode
  <2>2. pid["node"] = None /\ pid["login"] = None
    BY <1>0, <1>n, <2>1 DEF RelaysTypeOK
  <2>3. pid'["node"] = forked /\ pid'["login"] = None
    BY <1>0, <1>n, <2>1, <2>2 DEF RelaysTypeOK
  <2>4. RelaysTypeOK'
    BY <1>0, <2>1 DEF RelaysTypeOK, Forking
  <2>5. ForkNoted' /\ StopsInTurn' /\ WantKnown'
    BY <1>0, <2>1, <2>3 DEF ForkNoted, StopsInTurn, WantKnown, Forking
  <2>6. Range(pid)' = {forked, None}
    BY <2>3, <2>4, HeldPidsNext
  <2>7. NoRelayForgotten'
    BY <1>0, <1>h, <2>1, <2>2, <2>6 DEF NoRelayForgotten, Seen, Alive
  <2> QED
    BY <2>4, <2>5, <2>7 DEF LoopInv
<1>9. CASE NoteLogin
  <2>1. /\ UNCHANGED <<lease, proc, want, then, deaths>>
        /\ pc = "login pid" /\ pc' = "sleep" /\ current' = want
        /\ pid' = [pid EXCEPT !["login"] = forked] /\ forked' = None
    BY <1>9 DEF NoteLogin
  <2>2. pid["login"] = None
    BY <1>0, <2>1 DEF StopsInTurn
  <2>3. pid'["node"] = pid["node"] /\ pid'["login"] = forked
    BY <1>0, <1>n, <2>1 DEF RelaysTypeOK
  <2>4. RelaysTypeOK'
    BY <1>0, <2>1 DEF RelaysTypeOK, Forking
  <2>5. ForkNoted' /\ StopsInTurn' /\ WantKnown'
    BY <1>0, <2>1 DEF ForkNoted, StopsInTurn, WantKnown, Forking
  <2>6. Range(pid)' = {pid["node"], forked}
    BY <2>3, <2>4, HeldPidsNext
  <2>7. NoRelayForgotten'
    BY <1>0, <1>h, <2>1, <2>2, <2>6 DEF NoRelayForgotten, Seen, Alive
  <2> QED
    BY <2>4, <2>5, <2>7 DEF LoopInv
<1> QED
  BY <1>1, <1>2, <1>3, <1>5, <1>6, <1>7, <1>8, <1>9 DEF LoopNext

LEMMA TrapStep ==
    ASSUME LoopInv, Trap
    PROVE  LoopInv'
<1> USE PidsAssumption
<1>0. RelaysTypeOK /\ ForkNoted /\ StopsInTurn /\ WantKnown /\ NoRelayForgotten
  BY DEF LoopInv
<1>1. UNCHANGED <<lease, pid, current, want, deaths>> /\ forked' = None
      /\ pc' = "kill" /\ then' = "exit"
  BY DEF Trap, StopAndGo
<1>2. proc' = IF Alive(forked) THEN [proc EXCEPT ![forked].stray = TRUE] ELSE proc
  BY DEF Trap
<1>3. /\ proc' \in [Pids -> Relays \union {None}]
      /\ \A p \in Pids : Seen(p)' => Seen(p) /\ (proc'[p].stray \/ p # forked)
                                    /\ (proc[p].stray => proc'[p].stray)
  <2>1. CASE Alive(forked)
    <3>1. forked \in Pids /\ proc[forked] \in Relays
      BY <1>0, <2>1 DEF RelaysTypeOK, Alive
    <3> QED
      BY <1>0, <1>2, <2>1, <3>1 DEF RelaysTypeOK, Seen, Alive, Relays
  <2>2. CASE ~Alive(forked)
    BY <1>0, <1>2, <2>2 DEF RelaysTypeOK, Seen, Alive
  <2> QED
    BY <2>1, <2>2
<1>4. RelaysTypeOK'
  BY <1>0, <1>1, <1>3 DEF RelaysTypeOK, Forking
<1>5. ForkNoted' /\ StopsInTurn' /\ WantKnown'
  BY <1>1 DEF ForkNoted, StopsInTurn, WantKnown, Forking
<1>6. NoRelayForgotten'
  BY <1>0, <1>1, <1>3 DEF NoRelayForgotten
<1> QED
  BY <1>4, <1>5, <1>6 DEF LoopInv

LEMMA LoopInvInductive ==
    ASSUME LoopInv, [RelaysNext]_supervisorVars
    PROVE  LoopInv'
<1>1. ASSUME NEW t \in Targets \union {None}, LeaseMoves(t)
      PROVE  LoopInv'
  <2>1. UNCHANGED <<proc, loopVars, deaths>> /\ lease' = t
    BY <1>1 DEF LeaseMoves
  <2>2. \A p \in Pids : Seen(p)' => Seen(p) /\ proc'[p].stray = proc[p].stray
    BY <2>1 DEF Seen, Alive
  <2>3. proc' \in [Pids -> Relays \union {None}] /\ deaths' \in 0 .. MaxDeaths
    BY <2>1 DEF LoopInv, RelaysTypeOK
  <2> QED
    BY <2>1, <2>2, <2>3, RelayStepKeeps
<1>2. CASE UNCHANGED supervisorVars
  <2>1. UNCHANGED <<proc, loopVars, deaths, lease>>
    BY <1>2 DEF supervisorVars
  <2>2. \A p \in Pids : Seen(p)' => Seen(p) /\ proc'[p].stray = proc[p].stray
    BY <2>1 DEF Seen, Alive
  <2>3. /\ proc' \in [Pids -> Relays \union {None}] /\ deaths' \in 0 .. MaxDeaths
        /\ lease' \in Targets \union {None}
    BY <2>1 DEF LoopInv, RelaysTypeOK
  <2> QED
    BY <2>1, <2>2, <2>3, RelayStepKeeps
<1> QED
  BY <1>1, <1>2, RelayStep, LoopStep, TrapStep DEF RelaysNext

LEMMA LoopInvInit == RelaysInit => LoopInv
<1> SUFFICES ASSUME RelaysInit PROVE LoopInv
  OBVIOUS
<1>1. RelaysTypeOK
  BY DeathsAssumption DEF RelaysInit, RelaysTypeOK, Forking
<1>2. ForkNoted /\ StopsInTurn /\ WantKnown
  BY DEF RelaysInit, ForkNoted, StopsInTurn, WantKnown, Forking
<1>3. NoRelayForgotten
  BY DEF RelaysInit, NoRelayForgotten, Seen, Alive
<1> QED
  BY <1>1, <1>2, <1>3 DEF LoopInv

\* Type correctness of the supervisor of the relays (scripts/agor-relay.sh:90-139).
THEOREM SupervisorTypes == RelaysSpec => []RelaysTypeOK
<1>1. LoopInv => RelaysTypeOK
  BY DEF LoopInv
<1> QED
  BY <1>1, LoopInvInit, LoopInvInductive, PTL DEF RelaysSpec

\* No relay the supervisor started escapes stop_relays (agor-relay.sh:92-107), but
\* for the one it was just forking when SIGTERM came.
THEOREM SupervisorHoldsItsRelays == RelaysSpec => []NoRelayForgotten
<1>1. LoopInv => NoRelayForgotten
  BY DEF LoopInv
<1> QED
  BY <1>1, LoopInvInit, LoopInvInductive, PTL DEF RelaysSpec

=============================================================================
