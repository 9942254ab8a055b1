-------------------------- MODULE PresetEditsProofs --------------------------
(***************************************************************************)
(* Edits of a preset, for files of any length and any sections, keys and   *)
(* patches: that the editor, line by line, does what PresetStore says,     *)
(* that both readers agree on what it has set, that the other lines stay,  *)
(* and that a tag keeps the repo.                                          *)
(*                                                                         *)
(* Everything rests on PatchedSays, which is proved by induction over the  *)
(* lines read: after each of them the output ends in the same section,     *)
(* reads the same except for the keys of the patch, and says of these what *)
(* the patch says (PatchingIs).                                            *)
(***************************************************************************)
EXTENDS PresetEdits, FiniteSetTheorems, SequenceTheorems, TLAPS

-----------------------------------------------------------------------------
(* Induction *)

NatRel == {ss \in Nat \X Nat : ss[1] < ss[2]}

\* Every set of numbers has a least one: < is well founded on them.
LEMMA LeastNatural ==
  ASSUME NEW S \in SUBSET Nat, S # {}
  PROVE  \E m \in S : \A k \in S : m <= k
<1>1. IsWellFoundedOn(NatRel, Nat)
  BY NatLessThanWellFounded DEF NatRel, OpToRel
<1>2. PICK m \in S : \A k \in S : ~(<<k, m>> \in NatRel)
  BY <1>1, WFMin
<1>3. ASSUME NEW k \in S PROVE m <= k
  <2>1. k \in Nat /\ m \in Nat
    OBVIOUS
  <2>2. k < m => <<k, m>> \in NatRel
    BY <2>1 DEF NatRel
  <2> QED
    BY <2>1, <2>2, <1>2
<1> QED
  BY <1>3

\* Induction, as a fact about sets of numbers.
LEMMA NatSetInduction ==
  ASSUME NEW S \in SUBSET Nat, 0 \in S, \A n \in S : n + 1 \in S
  PROVE  S = Nat
<1> SUFFICES ASSUME Nat \ S # {} PROVE FALSE
  OBVIOUS
<1>1. PICK m \in Nat \ S : \A k \in Nat \ S : m <= k
  <2>1. Nat \ S \in SUBSET Nat
    OBVIOUS
  <2> QED
    BY <2>1, LeastNatural
<1>2. m # 0 /\ m - 1 \in Nat /\ ~(m <= m - 1)
  OBVIOUS
<1>3. m - 1 \in S
  BY <1>1, <1>2
<1>4. (m - 1) + 1 \in S
  BY <1>3
<1> QED
  BY <1>4

\* A recursive function along the naturals exists.
Steps(X) == [Nat -> [X -> X]]
RunOf(f, x0, step, m) == f[0] = x0 /\ \A n \in 1 .. m : f[n] = step[n][f[n - 1]]

LEMMA RunExists ==
  ASSUME NEW X, NEW x0 \in X, NEW step \in Steps(X), NEW m \in Nat
  PROVE  \E f \in [0 .. m -> X] : RunOf(f, x0, step, m)
<1> USE DEF Steps
<1> DEFINE Runs(f, k) == /\ f \in [0 .. k -> X]
                         /\ f[0] = x0
                         /\ \A n \in 1 .. k : f[n] = step[n][f[n - 1]]
           S == {k \in Nat : \E f : Runs(f, k)}
<1>1. 0 \in S
  <2>1. Runs([n \in 0 .. 0 |-> x0], 0)
    OBVIOUS
  <2> QED
    BY <2>1
<1>2. ASSUME NEW k \in S PROVE k + 1 \in S
  <2>1. PICK f : Runs(f, k)
    OBVIOUS
  <2> DEFINE g == [n \in 0 .. k + 1 |-> IF n <= k THEN f[n] ELSE step[k + 1][f[k]]]
  <2>2. k \in Nat /\ k + 1 \in Nat
    OBVIOUS
  <2>3. step[k + 1][f[k]] \in X
    BY <2>1, <2>2
  <2>4. g \in [0 .. k + 1 -> X] /\ g[0] = x0
    BY <2>1, <2>2, <2>3
  <2>5. ASSUME NEW n \in 1 .. k + 1 PROVE g[n] = step[n][g[n - 1]]
    <3>1. CASE n <= k
      <4>1. n \in 1 .. k /\ n \in 0 .. k + 1 /\ n - 1 \in 0 .. k + 1 /\ n - 1 <= k
        BY <3>1, <2>2
      <4>2. g[n] = f[n] /\ g[n - 1] = f[n - 1]
        BY <4>1, <3>1
      <4> HIDE DEF g
      <4> QED
        BY <4>1, <4>2, <2>1
    <3>2. CASE n = k + 1
      <4>1. n \in 0 .. k + 1 /\ ~(n <= k) /\ k \in 0 .. k + 1 /\ n - 1 = k
        BY <3>2, <2>2
      <4>2. g[n] = step[k + 1][f[k]] /\ g[k] = f[k]
        BY <4>1
      <4> HIDE DEF g
      <4> QED
        BY <4>1, <4>2, <3>2
    <3> QED
      BY <3>1, <3>2, <2>2
  <2> HIDE DEF g
  <2>6. Runs(g, k + 1)
    BY <2>4, <2>5
  <2> HIDE DEF Runs
  <2> QED
    BY <2>2, <2>6
<1> HIDE DEF S
<1>3. S = Nat
  BY <1>1, <1>2, NatSetInduction DEF S
<1> QED
  BY <1>3 DEF S, RunOf

-----------------------------------------------------------------------------
(* The first and the last of some line numbers *)

\* Latest and Earliest are what their names say, where they exist.
LEMMA LatestIs ==
  ASSUME NEW S \in SUBSET Nat, NEW i \in S, \A j \in S : j <= i
  PROVE  Latest(S) = i
<1>1. Latest(S) \in S /\ \A j \in S : j <= Latest(S)
  BY DEF Latest
<1>2. Latest(S) \in Nat /\ i \in Nat /\ i <= Latest(S) /\ Latest(S) <= i
  BY <1>1
<1> QED
  BY <1>2

LEMMA EarliestIs ==
  ASSUME NEW S \in SUBSET Nat, NEW i \in S, \A j \in S : i <= j
  PROVE  Earliest(S) = i
<1>1. Earliest(S) \in S /\ \A j \in S : Earliest(S) <= j
  BY DEF Earliest
<1>2. Earliest(S) \in Nat /\ i \in Nat /\ i <= Earliest(S) /\ Earliest(S) <= i
  BY <1>1
<1> QED
  BY <1>2

LEMMA EarliestOf ==
  ASSUME NEW S \in SUBSET Nat, S # {}
  PROVE  Earliest(S) \in S /\ \A j \in S : Earliest(S) <= j
BY LeastNatural DEF Earliest

LEMMA LatestOf ==
  ASSUME NEW n \in Nat, NEW S \in SUBSET (1 .. n), S # {}
  PROVE  Latest(S) \in S /\ \A j \in S : j <= Latest(S)
<1> DEFINE Above == {m \in Nat : \A j \in S : j <= m}
<1>1. n \in Above
  OBVIOUS
<1>2. PICK m \in Above : \A k \in Above : m <= k
  <2>1. Above \in SUBSET Nat /\ Above # {}
    BY <1>1
  <2> QED
    BY <2>1, LeastNatural
<1>3. m \in S
  <2> SUFFICES ASSUME m \notin S PROVE FALSE
    OBVIOUS
  <2>1. m # 0
    <3>1. PICK j \in S : TRUE
      OBVIOUS
    <3>2. j \in 1 .. n /\ j <= m
      OBVIOUS
    <3> QED
      BY <3>2
  <2>2. m \in Nat /\ m - 1 \in Nat /\ ~(m <= m - 1)
    BY <2>1
  <2>3. ASSUME NEW j \in S PROVE j <= m - 1
    <3>1. j \in Nat /\ j <= m /\ j # m
      OBVIOUS
    <3> QED
      BY <3>1
  <2>4. m - 1 \in Above
    BY <2>2, <2>3
  <2> QED
    BY <2>2, <2>4, <1>2
<1> QED
  BY <1>2, <1>3 DEF Latest

-----------------------------------------------------------------------------
(* Reading a file that has grown *)

\* The section of a line depends on the headers up to it.
LEMMA InSame ==
  ASSUME NEW xs, NEW ys, NEW i \in Nat, NEW j \in Nat,
         Headers(xs, i) = Headers(ys, j),
         \A h \in Headers(xs, i) : xs[h].name = ys[h].name,
         NEW t
  PROVE  In(xs, i, t) <=> In(ys, j, t)
<1>1. CASE Headers(xs, i) = {}
  BY <1>1 DEF In
<1>2. CASE Headers(xs, i) # {}
  <2>1. Headers(xs, i) \in SUBSET (1 .. i)
    BY DEF Headers
  <2>2. Latest(Headers(xs, i)) \in Headers(xs, i)
    BY <1>2, <2>1, LatestOf
  <2> QED
    BY <1>2, <2>2 DEF In
<1> QED
  BY <1>1, <1>2

\* A line is in one section at most.
LEMMA InOne ==
  ASSUME NEW xs, NEW i, NEW t, NEW u, In(xs, i, t), In(xs, i, u)
  PROVE  t = u
BY DEF In

\* Lines without a header at the end of a file are in the section it ended with.
LEMMA TailIsIn ==
  ASSUME NEW L, NEW xs \in Seq(L), NEW ys \in Seq(L),
         \A i \in 1 .. Len(ys) : ys[i].kind # "section",
         NEW t, NEW i \in Nat, i <= Len(xs \o ys)
  PROVE  /\ i <= Len(xs) => (In(xs \o ys, i, t) <=> In(xs, i, t))
         /\ i >= Len(xs) => (In(xs \o ys, i, t) <=> In(xs, Len(xs), t))
<1> DEFINE zs == xs \o ys
<1>1. /\ Len(xs) \in Nat /\ Len(ys) \in Nat /\ Len(zs) = Len(xs) + Len(ys)
      /\ \A j \in 1 .. Len(xs) : zs[j] = xs[j]
      /\ \A j \in 1 .. Len(zs) : j > Len(xs) => zs[j].kind # "section"
  <2>1. /\ Len(zs) = Len(xs) + Len(ys) /\ Len(xs) \in Nat /\ Len(ys) \in Nat
        /\ \A j \in 1 .. Len(xs) + Len(ys) :
             zs[j] = IF j <= Len(xs) THEN xs[j] ELSE ys[j - Len(xs)]
    BY ConcatProperties, LenProperties
  <2> HIDE DEF zs
  <2>2. ASSUME NEW j \in 1 .. Len(zs), j > Len(xs) PROVE zs[j].kind # "section"
    <3>1. j - Len(xs) \in 1 .. Len(ys) /\ j \in 1 .. Len(xs) + Len(ys) /\ ~(j <= Len(xs))
      BY <2>1, <2>2
    <3> QED
      BY <3>1, <2>1
  <2>3. ASSUME NEW j \in 1 .. Len(xs) PROVE zs[j] = xs[j]
    <3>1. j \in 1 .. Len(xs) + Len(ys) /\ j <= Len(xs)
      BY <2>1
    <3> QED
      BY <3>1, <2>1
  <2> QED
    BY <2>1, <2>2, <2>3
<1> HIDE DEF zs
<1>2. ASSUME i <= Len(xs) PROVE In(zs, i, t) <=> In(xs, i, t)
  <2>1. Headers(zs, i) = Headers(xs, i)
    <3>1. \A j \in 1 .. i : zs[j] = xs[j]
      BY <1>1, <1>2
    <3> QED
      BY <3>1 DEF Headers
  <2>2. \A h \in Headers(zs, i) : zs[h].name = xs[h].name
    BY <1>1, <1>2 DEF Headers
  <2> QED
    BY <2>1, <2>2, InSame
<1>3. ASSUME i >= Len(xs) PROVE In(zs, i, t) <=> In(xs, Len(xs), t)
  <2>1. Headers(zs, i) = Headers(xs, Len(xs))
    <3>1. \A j \in 1 .. i : j <= Len(xs) \/ zs[j].kind # "section"
      BY <1>1 DEF zs
    <3>2. \A j \in 1 .. Len(xs) : zs[j].kind = xs[j].kind /\ j \in 1 .. i
      BY <1>1, <1>3
    <3> QED
      BY <3>1, <3>2, <1>1 DEF Headers
  <2>2. \A h \in Headers(zs, i) : zs[h].name = xs[h].name
    BY <1>1, <2>1 DEF Headers
  <2> QED
    BY <2>1, <2>2, <1>1, InSame
<1> QED
  BY <1>2, <1>3 DEF zs

\* The section a file ends in.
Here(xs, t) == In(xs, Len(xs), t)

LEMMA HeaderOpens ==
  ASSUME NEW L, NEW xs \in Seq(L), NEW l \in L, l.kind = "section", NEW t
  PROVE  Here(Append(xs, l), t) <=> l.name = t
<1> DEFINE zs == Append(xs, l)
<1>1. Len(xs) \in Nat /\ Len(zs) = Len(xs) + 1 /\ zs[Len(xs) + 1] = l
  OBVIOUS
<1> HIDE DEF zs
<1>2. Headers(zs, Len(zs)) \in SUBSET Nat
      /\ Len(zs) \in Headers(zs, Len(zs))
      /\ \A j \in Headers(zs, Len(zs)) : j <= Len(zs)
  BY <1>1 DEF Headers
<1>3. Latest(Headers(zs, Len(zs))) = Len(zs)
  BY <1>2, LatestIs
<1> QED
  BY <1>1, <1>2, <1>3 DEF Here, In, zs

\* Before a header that is appended, nothing changes.
LEMMA HeaderLeaves ==
  ASSUME NEW L, NEW xs \in Seq(L), NEW l \in L, NEW t, NEW i \in 1 .. Len(xs)
  PROVE  In(Append(xs, l), i, t) <=> In(xs, i, t)
<1> DEFINE zs == Append(xs, l)
<1>1. \A j \in 1 .. i : zs[j] = xs[j]
  OBVIOUS
<1>2. i \in Nat
  OBVIOUS
<1> HIDE DEF zs
<1>3. Headers(zs, i) = Headers(xs, i)
  BY <1>1 DEF Headers
<1>4. \A h \in Headers(zs, i) : zs[h].name = xs[h].name
  BY <1>1 DEF Headers
<1> QED
  BY <1>2, <1>3, <1>4, InSame DEF zs

-----------------------------------------------------------------------------
(* Where a key stands *)

LEMMA OccurrencesIn ==
  ASSUME NEW L, NEW xs \in Seq(L), NEW t, NEW k
  PROVE  Occurrences(xs, t, k) \in SUBSET (1 .. Len(xs))
BY DEF Occurrences

\* Lines added at the end: the key's lines are those there were, and those added.
LEMMA TailOccurrences ==
  ASSUME NEW L, NEW xs \in Seq(L), NEW ys \in Seq(L),
         \A i \in 1 .. Len(ys) : ys[i].kind # "section",
         NEW t, NEW k
  PROVE  /\ Here(xs \o ys, t) <=> Here(xs, t)
         /\ \A i \in 1 .. Len(xs) : /\ (xs \o ys)[i] = xs[i]
                                    /\ i \in Occurrences(xs \o ys, t, k)
                                         <=> i \in Occurrences(xs, t, k)
         /\ \A i \in 1 .. Len(ys) :
              /\ (xs \o ys)[Len(xs) + i] = ys[i]
              /\ Len(xs) + i \in Occurrences(xs \o ys, t, k)
                   <=> ys[i].kind = "key" /\ ys[i].name = k /\ Here(xs, t)
<1> DEFINE zs == xs \o ys
<1>1. /\ Len(xs) \in Nat /\ Len(ys) \in Nat /\ Len(zs) = Len(xs) + Len(ys)
      /\ DOMAIN xs = 1 .. Len(xs) /\ DOMAIN zs = 1 .. Len(zs)
      /\ \A j \in 1 .. Len(xs) + Len(ys) :
           zs[j] = IF j <= Len(xs) THEN xs[j] ELSE ys[j - Len(xs)]
  BY ConcatProperties, LenProperties
<1>2. \A i \in Nat : i <= Len(zs) =>
         /\ i <= Len(xs) => (In(zs, i, t) <=> In(xs, i, t))
         /\ i >= Len(xs) => (In(zs, i, t) <=> In(xs, Len(xs), t))
  BY TailIsIn
<1> HIDE DEF zs
<1>3. Here(zs, t) <=> Here(xs, t)
  BY <1>1, <1>2 DEF Here
<1>4. ASSUME NEW i \in 1 .. Len(xs)
      PROVE  zs[i] = xs[i] /\ (i \in Occurrences(zs, t, k) <=> i \in Occurrences(xs, t, k))
  <2>1. i \in Nat /\ i \in 1 .. Len(xs) + Len(ys) /\ i <= Len(xs) /\ i <= Len(zs)
    BY <1>1
  <2>2. zs[i] = xs[i]
    BY <2>1, <1>1
  <2>3. In(zs, i, t) <=> In(xs, i, t)
    BY <2>1, <1>2
  <2> QED
    BY <2>1, <2>2, <2>3, <1>1 DEF Occurrences
<1>5. ASSUME NEW i \in 1 .. Len(ys)
      PROVE  /\ zs[Len(xs) + i] = ys[i]
             /\ Len(xs) + i \in Occurrences(zs, t, k)
                  <=> ys[i].kind = "key" /\ ys[i].name = k /\ Here(xs, t)
  <2> DEFINE n == Len(xs) + i
  <2>1. /\ n \in Nat /\ n \in 1 .. Len(xs) + Len(ys) /\ ~(n <= Len(xs)) /\ n >= Len(xs)
        /\ n <= Len(zs) /\ n - Len(xs) = i
    BY <1>1
  <2> HIDE DEF n
  <2>2. zs[n] = ys[i]
    BY <2>1, <1>1
  <2>3. In(zs, n, t) <=> Here(xs, t)
    BY <2>1, <1>2 DEF Here
  <2> QED
    BY <2>1, <2>2, <2>3, <1>1 DEF Occurrences, n
<1> QED
  BY <1>3, <1>4, <1>5 DEF zs

\* A header adds none.
LEMMA HeaderOccurrences ==
  ASSUME NEW L, NEW xs \in Seq(L), NEW l \in L, l.kind = "section", NEW t, NEW k
  PROVE  /\ Occurrences(Append(xs, l), t, k) = Occurrences(xs, t, k)
         /\ \A i \in 1 .. Len(xs) : Append(xs, l)[i] = xs[i]
<1> DEFINE zs == Append(xs, l)
<1>1. /\ Len(xs) \in Nat /\ DOMAIN xs = 1 .. Len(xs) /\ DOMAIN zs = 1 .. Len(xs) + 1
      /\ zs[Len(xs) + 1] = l /\ \A i \in 1 .. Len(xs) : zs[i] = xs[i]
  OBVIOUS
<1>2. \A i \in 1 .. Len(xs) : In(zs, i, t) <=> In(xs, i, t)
  BY HeaderLeaves
<1> HIDE DEF zs
<1>3. ASSUME NEW i PROVE i \in Occurrences(zs, t, k) <=> i \in Occurrences(xs, t, k)
  <2>1. CASE i \in 1 .. Len(xs)
    <3>1. i \in 1 .. Len(xs) + 1 /\ zs[i] = xs[i]
      BY <2>1, <1>1
    <3> QED
      BY <3>1, <2>1, <1>1, <1>2 DEF Occurrences
  <2>2. CASE i = Len(xs) + 1
    BY <2>2, <1>1 DEF Occurrences
  <2>3. CASE i \notin 1 .. Len(xs) + 1
    <3>1. i \notin 1 .. Len(xs)
      BY <2>3, <1>1
    <3> QED
      BY <3>1, <2>3, <1>1 DEF Occurrences
  <2> QED
    BY <2>1, <2>2, <2>3, <1>1
<1> QED
  BY <1>1, <1>3 DEF zs

-----------------------------------------------------------------------------
(* What a file that has grown says *)

\* Both files have the key or neither has, and its first line and its last say the
\* same in both.
SameReading(xs, ys, t, k) ==
    /\ Occurrences(xs, t, k) = {} <=> Occurrences(ys, t, k) = {}
    /\ IniGet(xs, t, k) = IniGet(ys, t, k)
    /\ Parsed(xs, t, k) = Parsed(ys, t, k)

\* The same lines of the key, saying the same.
LEMMA ReadsKept ==
  ASSUME NEW L, NEW xs \in Seq(L), NEW zs, NEW t, NEW k,
         Occurrences(zs, t, k) = Occurrences(xs, t, k),
         \A i \in 1 .. Len(xs) : zs[i] = xs[i]
  PROVE  SameReading(zs, xs, t, k)
<1> DEFINE S == Occurrences(xs, t, k)
<1>1. S \in SUBSET (1 .. Len(xs)) /\ S \in SUBSET Nat /\ Len(xs) \in Nat
  BY OccurrencesIn
<1>2. CASE S = {}
  BY <1>2 DEF SameReading, IniGet, Parsed
<1>3. CASE S # {}
  <2> HIDE DEF S
  <2>1. Earliest(S) \in S /\ Latest(S) \in S
    BY <1>1, <1>3, EarliestOf, LatestOf
  <2>2. zs[Earliest(S)] = xs[Earliest(S)] /\ zs[Latest(S)] = xs[Latest(S)]
    BY <2>1, <1>1
  <2> QED
    BY <1>3, <2>2 DEF SameReading, IniGet, Parsed, S
<1> QED
  BY <1>2, <1>3

\* Added lines of other keys, or while another section is open.
LEMMA TailReads ==
  ASSUME NEW L, NEW xs \in Seq(L), NEW ys \in Seq(L), NEW t, NEW k,
         \A i \in 1 .. Len(ys) :
            /\ ys[i].kind # "section"
            /\ ~(ys[i].kind = "key" /\ ys[i].name = k /\ Here(xs, t))
  PROVE  SameReading(xs \o ys, xs, t, k)
<1> DEFINE zs == xs \o ys
<1>1. /\ \A i \in 1 .. Len(xs) : /\ zs[i] = xs[i]
                                 /\ i \in Occurrences(zs, t, k)
                                      <=> i \in Occurrences(xs, t, k)
      /\ \A i \in 1 .. Len(ys) : Len(xs) + i \notin Occurrences(zs, t, k)
  BY TailOccurrences
<1>2. zs \in Seq(L) /\ Len(xs) \in Nat /\ Len(ys) \in Nat /\ Len(zs) = Len(xs) + Len(ys)
  BY ConcatProperties
<1> HIDE DEF zs
<1>3. /\ Occurrences(zs, t, k) \in SUBSET (1 .. Len(zs))
      /\ Occurrences(xs, t, k) \in SUBSET (1 .. Len(xs))
  BY <1>2, OccurrencesIn
<1>4. ASSUME NEW i \in Occurrences(zs, t, k) PROVE i \in 1 .. Len(xs)
  <2>1. i \in 1 .. Len(xs) + Len(ys)
    BY <1>2, <1>3
  <2>2. CASE i > Len(xs)
    <3>1. i - Len(xs) \in 1 .. Len(ys) /\ Len(xs) + (i - Len(xs)) = i
      BY <2>1, <2>2, <1>2
    <3> QED
      BY <3>1, <1>1
  <2> QED
    BY <2>1, <2>2, <1>2
<1>5. Occurrences(zs, t, k) = Occurrences(xs, t, k)
  BY <1>1, <1>3, <1>4
<1> QED
  BY <1>1, <1>5, ReadsKept DEF zs

LEMMA AppendIsTail ==
  ASSUME NEW L, NEW xs \in Seq(L), NEW l \in L
  PROVE  /\ Append(xs, l) = xs \o <<l>>
         /\ <<l>> \in Seq(L) /\ Len(<<l>>) = 1 /\ <<l>>[1] = l
OBVIOUS

\* A line that is neither a header nor the key.
LEMMA OtherReads ==
  ASSUME NEW L, NEW xs \in Seq(L), NEW l \in L, NEW t, NEW k,
         l.kind # "section", ~(l.kind = "key" /\ l.name = k /\ Here(xs, t))
  PROVE  SameReading(Append(xs, l), xs, t, k)
<1> DEFINE ys == <<l>>
<1>1. Append(xs, l) = xs \o ys /\ ys \in Seq(L) /\ Len(ys) = 1 /\ ys[1] = l
  BY AppendIsTail
<1> HIDE DEF ys
<1>2. \A i \in 1 .. Len(ys) : i = 1
  BY <1>1
<1>3. \A i \in 1 .. Len(ys) :
         /\ ys[i].kind # "section"
         /\ ~(ys[i].kind = "key" /\ ys[i].name = k /\ Here(xs, t))
  BY <1>1, <1>2
<1>4. SameReading(xs \o ys, xs, t, k)
  BY <1>1, <1>3, TailReads
<1> QED
  BY <1>1, <1>4

\* One more line of the key is the last one, and the first if there was none.
LEMMA KeyReads ==
  ASSUME NEW L, NEW xs \in Seq(L), NEW l \in L, NEW t,
         l.kind = "key", Here(xs, t)
  PROVE  /\ Occurrences(Append(xs, l), t, l.name) # {}
         /\ Parsed(Append(xs, l), t, l.name) = l.val
         /\ IniGet(Append(xs, l), t, l.name) =
              IF Occurrences(xs, t, l.name) = {} THEN l.val ELSE IniGet(xs, t, l.name)
<1> DEFINE ys == <<l>>
           zs == xs \o ys
           k == l.name
           m == Len(xs)
           S == Occurrences(xs, t, k)
           T == Occurrences(zs, t, k)
<1>1. Append(xs, l) = zs /\ ys \in Seq(L) /\ Len(ys) = 1 /\ ys[1] = l
  BY AppendIsTail
<1>2. \A i \in 1 .. Len(ys) : i = 1
  BY <1>1
<1>3. \A i \in 1 .. Len(ys) : ys[i].kind # "section"
  BY <1>1, <1>2
<1>4. m \in Nat /\ Len(zs) = m + 1 /\ zs \in Seq(L)
  BY <1>1, ConcatProperties
<1> HIDE DEF ys
<1>5. /\ \A i \in 1 .. m : zs[i] = xs[i] /\ (i \in T <=> i \in S)
      /\ \A i \in 1 .. Len(ys) :
           /\ zs[m + i] = ys[i]
           /\ m + i \in T <=> ys[i].kind = "key" /\ ys[i].name = k /\ Here(xs, t)
  BY <1>1, <1>3, TailOccurrences
<1> HIDE DEF zs
<1>6. zs[m + 1] = l /\ m + 1 \in T
  BY <1>1, <1>5
<1>7. T \in SUBSET (1 .. m + 1) /\ S \in SUBSET (1 .. m)
  BY <1>4, OccurrencesIn
<1> HIDE DEF m
<1>8. \A i \in T : i \in Nat /\ i <= m + 1
  BY <1>4, <1>7
<1>9. T \in SUBSET Nat
  BY <1>8
<1> HIDE DEF T
<1>10. Latest(T) = m + 1
  BY <1>6, <1>8, <1>9, LatestIs
<1>11. Parsed(zs, t, k) = l.val
  BY <1>6, <1>10 DEF Parsed, T
<1>12. CASE S = {}
  <2>1. \A i \in T : m + 1 <= i
    BY <1>4, <1>5, <1>7, <1>12
  <2>2. Earliest(T) = m + 1
    BY <2>1, <1>6, <1>9, EarliestIs
  <2>3. IniGet(zs, t, k) = l.val
    BY <1>6, <2>2 DEF IniGet, T
  <2> QED
    BY <1>1, <1>6, <1>11, <1>12, <2>3 DEF T
<1>13. CASE S # {}
  <2>1. S \in SUBSET Nat
    BY <1>7, <1>4
  <2> HIDE DEF S
  <2>2. Earliest(S) \in S /\ \A j \in S : Earliest(S) <= j
    BY <2>1, <1>13, EarliestOf
  <2>3. Earliest(S) \in T /\ Earliest(S) \in 1 .. m
    BY <2>2, <1>5, <1>7
  <2>4. \A j \in T : Earliest(S) <= j
    BY <2>2, <2>3, <1>4, <1>5, <1>7
  <2>5. Earliest(T) = Earliest(S)
    BY <2>3, <2>4, <1>9, EarliestIs
  <2>6. zs[Earliest(S)] = xs[Earliest(S)]
    BY <2>3, <1>5
  <2>7. IniGet(zs, t, k) = IniGet(xs, t, k)
    BY <2>5, <2>6, <1>6, <1>13 DEF IniGet, T, S
  <2> QED
    BY <1>1, <1>6, <1>11, <1>13, <2>7 DEF T, S
<1> QED
  BY <1>12, <1>13

\* Two files that read the same do so when both are given the same line.
LEMMA BothGrow ==
  ASSUME NEW L, NEW xs \in Seq(L), NEW ys \in Seq(L), NEW l \in L, NEW t, NEW k,
         Here(xs, t) <=> Here(ys, t), SameReading(xs, ys, t, k)
  PROVE  SameReading(Append(xs, l), Append(ys, l), t, k)
<1>1. CASE l.kind = "section"
  <2>1. SameReading(Append(xs, l), xs, t, k)
    BY <1>1, HeaderOccurrences, ReadsKept
  <2>2. SameReading(Append(ys, l), ys, t, k)
    BY <1>1, HeaderOccurrences, ReadsKept
  <2> QED
    BY <2>1, <2>2 DEF SameReading
<1>2. CASE l.kind = "key" /\ l.name = k /\ Here(xs, t)
  <2>1. /\ Occurrences(Append(xs, l), t, k) # {}
        /\ Parsed(Append(xs, l), t, k) = l.val
        /\ IniGet(Append(xs, l), t, k) =
              IF Occurrences(xs, t, k) = {} THEN l.val ELSE IniGet(xs, t, k)
    BY <1>2, KeyReads
  <2>2. /\ Occurrences(Append(ys, l), t, k) # {}
        /\ Parsed(Append(ys, l), t, k) = l.val
        /\ IniGet(Append(ys, l), t, k) =
              IF Occurrences(ys, t, k) = {} THEN l.val ELSE IniGet(ys, t, k)
    BY <1>2, KeyReads
  <2> QED
    BY <2>1, <2>2 DEF SameReading
<1>3. CASE l.kind # "section" /\ ~(l.kind = "key" /\ l.name = k /\ Here(xs, t))
  <2>1. SameReading(Append(xs, l), xs, t, k)
    BY <1>3, OtherReads
  <2>2. SameReading(Append(ys, l), ys, t, k)
    BY <1>3, OtherReads
  <2> QED
    BY <2>1, <2>2 DEF SameReading
<1> QED
  BY <1>1, <1>2, <1>3

-----------------------------------------------------------------------------
(* Keys that all lines agree on *)

\* Every line of the key says v; there is none if v deletes the key.
SaysOnly(xs, t, k, v) ==
    \A i \in Occurrences(xs, t, k) : xs[i].val = v /\ v # Unset

\* Then both readers read v.
LEMMA SaysOnlyReads ==
  ASSUME NEW L, NEW xs \in Seq(L), NEW t, NEW k, NEW v, SaysOnly(xs, t, k, v),
         v # Unset => Occurrences(xs, t, k) # {}
  PROVE  IniGet(xs, t, k) = v /\ Parsed(xs, t, k) = v
<1> DEFINE S == Occurrences(xs, t, k)
<1>1. S \in SUBSET (1 .. Len(xs)) /\ S \in SUBSET Nat /\ Len(xs) \in Nat
  BY OccurrencesIn
<1>2. CASE S = {}
  BY <1>2 DEF IniGet, Parsed
<1>3. CASE S # {}
  <2> HIDE DEF S
  <2>1. Earliest(S) \in S /\ Latest(S) \in S
    BY <1>1, <1>3, EarliestOf, LatestOf
  <2> QED
    BY <1>3, <2>1 DEF SaysOnly, IniGet, Parsed, S
<1> QED
  BY <1>2, <1>3

LEMMA HeaderSays ==
  ASSUME NEW L, NEW xs \in Seq(L), NEW l \in L, l.kind = "section",
         NEW t, NEW k, NEW v, SaysOnly(xs, t, k, v)
  PROVE  SaysOnly(Append(xs, l), t, k, v)
<1>1. \A i \in Occurrences(xs, t, k) : i \in 1 .. Len(xs)
  BY OccurrencesIn
<1> QED
  BY <1>1, HeaderOccurrences DEF SaysOnly

LEMMA TailSays ==
  ASSUME NEW L, NEW xs \in Seq(L), NEW ys \in Seq(L), NEW t, NEW k, NEW v,
         SaysOnly(xs, t, k, v),
         \A i \in 1 .. Len(ys) :
            /\ ys[i].kind # "section"
            /\ ys[i].kind = "key" /\ ys[i].name = k /\ Here(xs, t)
                 => ys[i].val = v /\ v # Unset
  PROVE  /\ SaysOnly(xs \o ys, t, k, v)
         /\ Occurrences(xs, t, k) # {} => Occurrences(xs \o ys, t, k) # {}
         /\ Here(xs, t) /\ (\E i \in 1 .. Len(ys) : ys[i].kind = "key" /\ ys[i].name = k)
              => Occurrences(xs \o ys, t, k) # {}
<1> DEFINE zs == xs \o ys
<1>1. /\ \A i \in 1 .. Len(xs) : /\ zs[i] = xs[i]
                                 /\ i \in Occurrences(zs, t, k)
                                      <=> i \in Occurrences(xs, t, k)
      /\ \A i \in 1 .. Len(ys) :
           /\ zs[Len(xs) + i] = ys[i]
           /\ Len(xs) + i \in Occurrences(zs, t, k)
                <=> ys[i].kind = "key" /\ ys[i].name = k /\ Here(xs, t)
  BY TailOccurrences
<1>2. zs \in Seq(L) /\ Len(xs) \in Nat /\ Len(ys) \in Nat /\ Len(zs) = Len(xs) + Len(ys)
  BY ConcatProperties
<1> HIDE DEF zs
<1>3. /\ Occurrences(zs, t, k) \in SUBSET (1 .. Len(zs))
      /\ Occurrences(xs, t, k) \in SUBSET (1 .. Len(xs))
  BY <1>2, OccurrencesIn
<1>4. ASSUME NEW i \in Occurrences(zs, t, k) PROVE zs[i].val = v /\ v # Unset
  <2>1. i \in 1 .. Len(xs) + Len(ys)
    BY <1>2, <1>3
  <2>2. CASE i > Len(xs)
    <3>1. i - Len(xs) \in 1 .. Len(ys) /\ Len(xs) + (i - Len(xs)) = i
      BY <2>1, <2>2, <1>2
    <3>2. PICK j \in 1 .. Len(ys) : Len(xs) + j = i
      BY <3>1
    <3> QED
      BY <3>2, <1>1
  <2>3. CASE i \in 1 .. Len(xs)
    BY <2>3, <1>1 DEF SaysOnly
  <2> QED
    BY <2>1, <2>2, <2>3, <1>2
<1> QED
  BY <1>1, <1>3, <1>4 DEF SaysOnly, zs

\* One line that is not the key, or says what all say.
LEMMA LineSays ==
  ASSUME NEW L, NEW xs \in Seq(L), NEW l \in L, NEW t, NEW k, NEW v,
         SaysOnly(xs, t, k, v), l.kind # "section",
         l.kind = "key" /\ l.name = k /\ Here(xs, t) => l.val = v /\ v # Unset
  PROVE  /\ SaysOnly(Append(xs, l), t, k, v)
         /\ Occurrences(xs, t, k) # {} => Occurrences(Append(xs, l), t, k) # {}
         /\ Here(xs, t) /\ l.kind = "key" /\ l.name = k
              => Occurrences(Append(xs, l), t, k) # {}
<1> DEFINE ys == <<l>>
<1>1. Append(xs, l) = xs \o ys /\ ys \in Seq(L) /\ Len(ys) = 1 /\ ys[1] = l
  BY AppendIsTail
<1> HIDE DEF ys
<1>2. \A i \in 1 .. Len(ys) : i = 1
  BY <1>1
<1>3. \A i \in 1 .. Len(ys) :
         /\ ys[i].kind # "section"
         /\ ys[i].kind = "key" /\ ys[i].name = k /\ Here(xs, t)
              => ys[i].val = v /\ v # Unset
  BY <1>1, <1>2
<1>4. 1 \in 1 .. Len(ys)
  BY <1>1
<1>5. /\ SaysOnly(xs \o ys, t, k, v)
      /\ Occurrences(xs, t, k) # {} => Occurrences(xs \o ys, t, k) # {}
      /\ Here(xs, t) /\ (\E i \in 1 .. Len(ys) : ys[i].kind = "key" /\ ys[i].name = k)
           => Occurrences(xs \o ys, t, k) # {}
  BY <1>1, <1>3, TailSays
<1> QED
  BY <1>1, <1>4, <1>5

-----------------------------------------------------------------------------
(* The keys a section has not shown *)

\* SetToSeq lists a finite set.
LEMMA SetToSeqIs ==
  ASSUME NEW S, IsFiniteSet(S)
  PROVE  /\ SetToSeq(S) \in Seq(S)
         /\ \A x \in S : \E i \in 1 .. Len(SetToSeq(S)) : SetToSeq(S)[i] = x
<1> DEFINE n == Cardinality(S)
           f == SetToSeq(S)
<1>1. n \in Nat /\ ExistsBijection(1 .. n, S)
  BY FS_CardinalityType
<1>2. PICK g \in Bijection(1 .. n, S) : TRUE
  BY <1>1 DEF ExistsBijection
<1>3. g \in [1 .. n -> S] /\ IsInjective(g)
  BY <1>2 DEF Bijection, Injection
<1>4. f \in [1 .. n -> S] /\ IsInjective(f)
  BY <1>3 DEF SetToSeq
<1> HIDE DEF f
<1>5. f \in Injection(1 .. n, S)
  BY <1>4 DEF Injection
<1>6. IsFiniteSet(1 .. n) /\ Cardinality(1 .. n) = n
  BY <1>1, FS_Interval
<1>7. f \in Surjection(1 .. n, S)
  BY <1>5, <1>6, FS_Injection
<1>8. f \in Seq(S) /\ Len(f) = n
  BY <1>1, <1>4
<1>9. \A x \in S : \E i \in 1 .. n : f[i] = x
  BY <1>7 DEF Surjection
<1> QED
  BY <1>8, <1>9 DEF f

\* The lines of a file that ends in a newline.
Whole == [kind : {"section", "key", "text"}, name : Sections \union PresetKeys,
          val : Values \union {Unset}, ended : {TRUE}]

LEMMA EntryWhole ==
  ASSUME NEW k \in PresetKeys, NEW v \in Values \union {Unset}
  PROVE  /\ Entry(k, v) \in Whole /\ Entry(k, v).kind = "key"
         /\ Entry(k, v).name = k /\ Entry(k, v).val = v
BY DEF Entry, Whole

\* What validate has passed.
IsPatch(patch) ==
    /\ DOMAIN patch \subseteq PresetKeys
    /\ \A k \in DOMAIN patch : patch[k] \in Values \union {Unset}

\* The lines Missing adds: the keys to be set that have not been seen.
LEMMA MissingIs ==
  ASSUME NEW patch, IsPatch(patch), NEW seen
  PROVE  /\ Missing(patch, seen) \in Seq(Whole)
         /\ \A i \in 1 .. Len(Missing(patch, seen)) :
              LET l == Missing(patch, seen)[i]
              IN  /\ l.kind = "key" /\ l.name \in DOMAIN patch
                  /\ l.val = patch[l.name] /\ patch[l.name] # Unset
         /\ \A k \in DOMAIN patch \ seen : patch[k] # Unset =>
              \E i \in 1 .. Len(Missing(patch, seen)) :
                 /\ Missing(patch, seen)[i].kind = "key"
                 /\ Missing(patch, seen)[i].name = k
<1> DEFINE M == {k \in DOMAIN patch \ seen : patch[k] # Unset}
           new == SetToSeq(M)
           ms == Missing(patch, seen)
<1>1. M \in SUBSET PresetKeys /\ \A k \in M : /\ k \in DOMAIN patch /\ k \in PresetKeys
                                        /\ patch[k] \in Values \union {Unset}
                                        /\ patch[k] # Unset
  BY DEF IsPatch
<1>2. IsFiniteSet(PresetKeys)
  BY SettingsAssumption, FS_AddElement DEF PresetKeys
<1>3. IsFiniteSet(M)
  BY <1>1, <1>2, FS_Subset
<1> HIDE DEF M
<1>4. new \in Seq(M) /\ \A x \in M : \E i \in 1 .. Len(new) : new[i] = x
  BY <1>3, SetToSeqIs
<1>5. ms = [i \in DOMAIN new |-> Entry(new[i], patch[new[i]])]
  BY DEF Missing, M
<1> HIDE DEF new, ms
<1>6. DOMAIN new = 1 .. Len(new) /\ Len(new) \in Nat /\ \A i \in 1 .. Len(new) : new[i] \in M
  BY <1>4, LenProperties, ElementOfSeq
<1>7. ASSUME NEW i \in 1 .. Len(new)
      PROVE  /\ ms[i] \in Whole /\ ms[i].kind = "key" /\ ms[i].name = new[i]
             /\ ms[i].val = patch[new[i]]
  <2>1. ms[i] = Entry(new[i], patch[new[i]])
    BY <1>5, <1>6
  <2>2. new[i] \in PresetKeys /\ patch[new[i]] \in Values \union {Unset}
    BY <1>1, <1>6
  <2> QED
    BY <2>1, <2>2, EntryWhole
<1>8. ms \in [1 .. Len(new) -> Whole]
  BY <1>5, <1>6, <1>7
<1> HIDE DEF Whole
<1>9. ms \in Seq(Whole) /\ Len(ms) = Len(new)
  BY <1>8, <1>6
<1>10. \A i \in 1 .. Len(ms) :
         /\ ms[i].kind = "key" /\ ms[i].name \in DOMAIN patch
         /\ ms[i].val = patch[ms[i].name] /\ patch[ms[i].name] # Unset
  BY <1>1, <1>6, <1>7, <1>9
<1>11. ASSUME NEW k \in DOMAIN patch \ seen, patch[k] # Unset
       PROVE  \E i \in 1 .. Len(ms) : ms[i].kind = "key" /\ ms[i].name = k
  <2>1. k \in M
    BY <1>11 DEF M
  <2> QED
    BY <2>1, <1>4, <1>7, <1>9
<1> QED
  BY <1>9, <1>10, <1>11 DEF ms

-----------------------------------------------------------------------------
(* The lines that are not keys *)

TextUpTo(xs, m, f) ==
    f[0] = <<>> /\ \A n \in 1 .. m : f[n] = WithText(f[n - 1], xs[n])

\* Unkeyed is the last value of a function that exists.
LEMMA UnkeyedIsLast ==
  ASSUME NEW L, NEW xs \in Seq(L)
  PROVE  \E f : TextUpTo(xs, Len(xs), f) /\ Unkeyed(xs) = f[Len(xs)]
<1> DEFINE m == Len(xs)
           X == Seq(L)
           Body(f) == [n \in 0 .. m |->
                         IF n = 0 THEN <<>> ELSE WithText(f[n - 1], xs[n])]
           upTo == CHOOSE f : f = Body(f)
           step == [n \in Nat |-> [out \in X |-> IF n \in 1 .. m THEN WithText(out, xs[n])
                                                 ELSE out]]
<1>1. m \in Nat /\ <<>> \in X /\ \A n \in 1 .. m : xs[n] \in L
  OBVIOUS
<1>2. \A n \in 1 .. m : \A out \in X : WithText(out, xs[n]) \in X
  <2> HIDE DEF m
  <2> QED
    BY <1>1 DEF WithText
<1>3. PICK f \in [0 .. m -> X] : f[0] = <<>> /\ \A n \in 1 .. m : f[n] = step[n][f[n - 1]]
  <2> HIDE DEF m, X
  <2>1. ASSUME NEW n \in Nat
        PROVE  [out \in X |-> IF n \in 1 .. m THEN WithText(out, xs[n]) ELSE out]
                  \in [X -> X]
    <3> DEFINE w(out) == WithText(out, xs[n])
    <3>1. \A out \in X : n \in 1 .. m => w(out) \in X
      BY <1>2
    <3> HIDE DEF w
    <3>2. [out \in X |-> IF n \in 1 .. m THEN w(out) ELSE out] \in [X -> X]
      BY <3>1
    <3> QED
      BY <3>2 DEF w
  <2>2. step \in [Nat -> [X -> X]]
    BY <2>1
  <2> HIDE DEF step
  <2>3. step \in Steps(X)
    BY <2>2 DEF Steps
  <2>4. \E f \in [0 .. m -> X] : RunOf(f, <<>>, step, m)
    BY <2>3, <1>1, RunExists
  <2> QED
    BY <2>4 DEF RunOf
<1>4. f = Body(f)
  <2> HIDE DEF m, X
  <2>1. ASSUME NEW n \in 1 .. m PROVE f[n] = WithText(f[n - 1], xs[n])
    <3>1. f[n - 1] \in X /\ n \in Nat
      BY <1>1, <1>3
    <3> QED
      BY <3>1, <1>3
  <2>2. \A n \in 0 .. m : n = 0 \/ n \in 1 .. m
    BY <1>1
  <2> QED
    BY <2>1, <2>2, <1>3
<1>5. upTo = Body(upTo)
  BY <1>4
<1>6. Unkeyed(xs) = upTo[m]
  BY DEF Unkeyed
<1> HIDE DEF upTo
<1>7. TextUpTo(xs, m, upTo)
  <2> HIDE DEF m
  <2> QED
    BY <1>1, <1>5 DEF TextUpTo
<1> QED
  BY <1>6, <1>7

\* From the end of a file to that of one that begins with it.
LEMMA UnkeyedGrows ==
  ASSUME NEW L, NEW xs \in Seq(L), NEW zs \in Seq(L), Len(xs) <= Len(zs),
         \A i \in 1 .. Len(xs) : zs[i] = xs[i]
  PROVE  \E g : /\ g[Len(xs)] = Unkeyed(xs) /\ g[Len(zs)] = Unkeyed(zs)
                /\ \A n \in Len(xs) + 1 .. Len(zs) : g[n] = WithText(g[n - 1], zs[n])
<1>1. PICK f : TextUpTo(xs, Len(xs), f) /\ Unkeyed(xs) = f[Len(xs)]
  BY UnkeyedIsLast
<1>2. PICK g : TextUpTo(zs, Len(zs), g) /\ Unkeyed(zs) = g[Len(zs)]
  BY UnkeyedIsLast
<1> DEFINE S == {n \in Nat : n <= Len(xs) => g[n] = f[n]}
<1>3. Len(xs) \in Nat /\ Len(zs) \in Nat
  OBVIOUS
<1>4. 0 \in S
  BY <1>1, <1>2 DEF TextUpTo
<1>5. ASSUME NEW n \in S PROVE n + 1 \in S
  <2> SUFFICES ASSUME n + 1 <= Len(xs) PROVE g[n + 1] = f[n + 1]
    OBVIOUS
  <2>1. /\ n \in Nat /\ n <= Len(xs) /\ n + 1 \in 1 .. Len(xs) /\ n + 1 \in 1 .. Len(zs)
        /\ (n + 1) - 1 = n
    BY <1>3
  <2>2. g[n] = f[n] /\ zs[n + 1] = xs[n + 1]
    BY <2>1
  <2>3. f[n + 1] = WithText(f[n], xs[n + 1]) /\ g[n + 1] = WithText(g[n], zs[n + 1])
    BY <2>1, <1>1, <1>2 DEF TextUpTo
  <2> QED
    BY <2>2, <2>3
<1> HIDE DEF S
<1>6. S = Nat
  BY <1>4, <1>5, NatSetInduction DEF S
<1>7. g[Len(xs)] = f[Len(xs)]
  BY <1>3, <1>6 DEF S
<1>8. \A n \in Len(xs) + 1 .. Len(zs) : n \in 1 .. Len(zs)
  BY <1>3
<1> QED
  BY <1>1, <1>2, <1>7, <1>8 DEF TextUpTo

LEMMA UnkeyedAppend ==
  ASSUME NEW L, NEW xs \in Seq(L), NEW l \in L
  PROVE  Unkeyed(Append(xs, l)) = WithText(Unkeyed(xs), l)
<1> DEFINE zs == Append(xs, l)
           m == Len(xs)
<1>1. /\ zs \in Seq(L) /\ Len(zs) = m + 1 /\ m \in Nat /\ zs[m + 1] = l
      /\ \A i \in 1 .. m : zs[i] = xs[i]
  OBVIOUS
<1> HIDE DEF zs
<1>2. PICK g : /\ g[m] = Unkeyed(xs) /\ g[Len(zs)] = Unkeyed(zs)
               /\ \A n \in m + 1 .. Len(zs) : g[n] = WithText(g[n - 1], zs[n])
  <2>1. m <= Len(zs)
    BY <1>1
  <2> QED
    BY <1>1, <2>1, UnkeyedGrows
<1> HIDE DEF m
<1>3. m + 1 \in m + 1 .. Len(zs) /\ (m + 1) - 1 = m
  BY <1>1
<1>4. g[m + 1] = WithText(g[m], zs[m + 1])
  BY <1>2, <1>3
<1> QED
  BY <1>1, <1>2, <1>4 DEF zs

\* Lines of keys add nothing to it.
LEMMA UnkeyedTail ==
  ASSUME NEW L, NEW xs \in Seq(L), NEW ys \in Seq(L),
         \A i \in 1 .. Len(ys) : ys[i].kind = "key"
  PROVE  Unkeyed(xs \o ys) = Unkeyed(xs)
<1> DEFINE zs == xs \o ys
           m == Len(xs)
<1>1. /\ zs \in Seq(L) /\ m \in Nat /\ Len(ys) \in Nat /\ Len(zs) = m + Len(ys)
      /\ \A i \in 1 .. m + Len(ys) : zs[i] = IF i <= m THEN xs[i] ELSE ys[i - m]
  BY ConcatProperties
<1> HIDE DEF zs
<1>2. PICK g : /\ g[m] = Unkeyed(xs) /\ g[Len(zs)] = Unkeyed(zs)
               /\ \A n \in m + 1 .. Len(zs) : g[n] = WithText(g[n - 1], zs[n])
  <2>1. m <= Len(zs) /\ \A i \in 1 .. m : zs[i] = xs[i]
    BY <1>1
  <2> QED
    BY <1>1, <2>1, UnkeyedGrows
<1> HIDE DEF m
<1> DEFINE S == {n \in Nat : n <= Len(ys) => g[m + n] = g[m]}
<1>3. 0 \in S
  BY <1>1
<1>4. ASSUME NEW n \in S PROVE n + 1 \in S
  <2> SUFFICES ASSUME n + 1 <= Len(ys) PROVE g[m + (n + 1)] = g[m]
    OBVIOUS
  <2> DEFINE k == m + (n + 1)
  <2>1. /\ n \in Nat /\ n <= Len(ys) /\ n + 1 \in 1 .. Len(ys)
        /\ k \in m + 1 .. Len(zs) /\ k - 1 = m + n /\ k - m = n + 1
        /\ k \in 1 .. m + Len(ys) /\ ~(k <= m)
    BY <1>1
  <2>2. g[m + n] = g[m]
    BY <2>1
  <2> HIDE DEF k
  <2>3. zs[k] = ys[n + 1]
    BY <2>1, <1>1
  <2>4. zs[k].kind = "key"
    BY <2>1, <2>3
  <2>5. g[k] = g[k - 1]
    BY <2>1, <2>4, <1>2 DEF WithText
  <2> QED
    BY <2>1, <2>2, <2>5 DEF k
<1> HIDE DEF S
<1>5. S = Nat
  BY <1>3, <1>4, NatSetInduction DEF S
<1>6. g[m + Len(ys)] = g[m]
  BY <1>1, <1>5 DEF S
<1> QED
  BY <1>1, <1>2, <1>6 DEF zs

-----------------------------------------------------------------------------
(* The editor, line by line *)

Accs == [out : Seq(Whole), in : BOOLEAN, seen : SUBSET PresetKeys]

LEMMA FinishedWhole ==
  ASSUME NEW acc \in Accs, NEW patch, IsPatch(patch)
  PROVE  Finished(acc, patch) \in Seq(Whole)
<1>1. Missing(patch, acc.seen) \in Seq(Whole) /\ acc.out \in Seq(Whole)
  BY MissingIs DEF Accs
<1>2. acc.out \o Missing(patch, acc.seen) \in Seq(Whole)
  BY <1>1, ConcatProperties
<1> QED
  BY <1>1, <1>2 DEF Finished

LEMMA ReplacedWhole ==
  ASSUME NEW k \in PresetKeys, NEW v \in Values \union {Unset}
  PROVE  Replaced(k, v) \in Seq(Whole)
<1>1. Entry(k, v) \in Whole
  BY EntryWhole
<1> QED
  BY <1>1 DEF Replaced

\* A header, a line of a key the patch has, any other line.
LEMMA PatchHeader ==
  ASSUME NEW acc \in Accs, NEW l \in Whole, NEW s, NEW patch, IsPatch(patch),
         l.kind = "section"
  PROVE  LET new == PatchLine(acc, l, s, patch)
         IN  /\ new \in Accs /\ new.out = Append(Finished(acc, patch), l)
             /\ new.in <=> l.name = s
             /\ new.seen = acc.seen
<1>1. Append(Finished(acc, patch), l) \in Seq(Whole)
  BY FinishedWhole, AppendProperties
<1> HIDE DEF Finished
<1> QED
  BY <1>1 DEF PatchLine, Accs

LEMMA PatchKey ==
  ASSUME NEW acc \in Accs, NEW l \in Whole, NEW s, NEW patch, IsPatch(patch),
         l.kind = "key", acc.in, l.name \in DOMAIN patch
  PROVE  LET new == PatchLine(acc, l, s, patch)
         IN  /\ new \in Accs /\ new.out = acc.out \o Replaced(l.name, patch[l.name])
             /\ new.in
             /\ new.seen = acc.seen \union {l.name}
<1>1. l.name \in PresetKeys /\ patch[l.name] \in Values \union {Unset}
  BY DEF IsPatch
<1>2. Replaced(l.name, patch[l.name]) \in Seq(Whole) /\ acc.out \in Seq(Whole)
  BY <1>1, ReplacedWhole DEF Accs
<1>3. acc.out \o Replaced(l.name, patch[l.name]) \in Seq(Whole)
  BY <1>2, ConcatProperties
<1> QED
  BY <1>1, <1>3 DEF PatchLine, PatchedKey, Accs

LEMMA PatchOther ==
  ASSUME NEW acc \in Accs, NEW l \in Whole, NEW s, NEW patch,
         l.kind # "section",
         ~(l.kind = "key" /\ acc.in /\ l.name \in DOMAIN patch)
  PROVE  LET new == PatchLine(acc, l, s, patch)
         IN  /\ new \in Accs /\ new.out = Append(acc.out, l)
             /\ new.in <=> acc.in
             /\ new.seen = acc.seen
<1>1. acc.out \in Seq(Whole)
  BY DEF Accs
<1>2. Append(acc.out, l) \in Seq(Whole)
  BY <1>1, AppendProperties
<1> QED
  BY <1>2 DEF PatchLine, PatchedKey, Accs

LEMMA PatchLineAcc ==
  ASSUME NEW acc \in Accs, NEW l \in Whole, NEW s, NEW patch, IsPatch(patch)
  PROVE  PatchLine(acc, l, s, patch) \in Accs
<1>1. CASE l.kind = "section"
  BY <1>1, PatchHeader
<1>2. CASE l.kind = "key" /\ acc.in /\ l.name \in DOMAIN patch
  BY <1>2, PatchKey
<1>3. CASE l.kind # "section" /\ ~(l.kind = "key" /\ acc.in /\ l.name \in DOMAIN patch)
  BY <1>3, PatchOther
<1> QED
  BY <1>1, <1>2, <1>3

PatchRun(xs, s, patch, m, f) ==
    /\ f[0] = NoLines
    /\ \A n \in 1 .. m : f[n] = PatchLine(f[n - 1], xs[n], s, patch)

\* So is what the editor makes of a file.
LEMMA PatchedIsLast ==
  ASSUME NEW xs \in Seq(Whole), NEW s, NEW patch, IsPatch(patch)
  PROVE  \E f : /\ PatchRun(xs, s, patch, Len(xs), f)
                /\ Patched(xs, s, patch) = Joined(Finished(f[Len(xs)], patch))
<1> DEFINE m == Len(xs)
           Line(acc, n) == PatchLine(acc, xs[n], s, patch)
           Body(f) == [n \in 0 .. m |->
                         IF n = 0 THEN NoLines ELSE PatchLine(f[n - 1], xs[n], s, patch)]
           after == CHOOSE f : f = Body(f)
           step == [n \in Nat |-> [acc \in Accs |-> IF n \in 1 .. m THEN Line(acc, n)
                                                    ELSE acc]]
<1>1. m \in Nat /\ \A n \in 1 .. m : xs[n] \in Whole
  BY LenProperties, ElementOfSeq
<1>2. NoLines \in Accs
  BY DEF NoLines, Accs
<1>3. PICK f \in [0 .. m -> Accs] : RunOf(f, NoLines, step, m)
  <2> HIDE DEF m
  <2>1. ASSUME NEW n \in Nat
        PROVE  [acc \in Accs |-> IF n \in 1 .. m THEN Line(acc, n) ELSE acc]
                  \in [Accs -> Accs]
    <3>1. \A acc \in Accs : n \in 1 .. m => Line(acc, n) \in Accs
      BY <1>1, PatchLineAcc
    <3> HIDE DEF Line, Accs
    <3> QED
      BY <3>1
  <2>2. step \in Steps(Accs)
    BY <2>1 DEF Steps
  <2> HIDE DEF step
  <2> QED
    BY <2>2, <1>1, <1>2, RunExists
<1>4. f = Body(f)
  <2> HIDE DEF m, Accs
  <2>1. ASSUME NEW n \in 1 .. m PROVE f[n] = PatchLine(f[n - 1], xs[n], s, patch)
    <3>1. f[n - 1] \in Accs /\ n \in Nat
      BY <1>1, <1>3
    <3>2. f[n] = step[n][f[n - 1]]
      BY <1>3 DEF RunOf
    <3> HIDE DEF Line
    <3>3. f[n] = Line(f[n - 1], n)
      BY <3>1, <3>2
    <3> QED
      BY <3>3 DEF Line
  <2>2. \A n \in 0 .. m : n = 0 \/ n \in 1 .. m
    BY <1>1
  <2>3. f[0] = NoLines
    BY <1>3 DEF RunOf
  <2> QED
    BY <2>1, <2>2, <2>3, <1>3
<1>5. after = Body(after)
  BY <1>4
<1>6. Patched(xs, s, patch) = Joined(Finished(after[m], patch))
  BY DEF Patched
<1> HIDE DEF after
<1>7. PatchRun(xs, s, patch, m, after)
  <2> HIDE DEF m
  <2> QED
    BY <1>1, <1>5 DEF PatchRun
<1> QED
  BY <1>6, <1>7

\* Every line ends in a newline: nothing runs together.
LEMMA JoinedWhole ==
  ASSUME NEW xs \in Seq(Whole)
  PROVE  Joined(xs) = xs
<1>1. ASSUME NEW i \in DOMAIN xs PROVE xs[i].ended
  <2>1. i \in 1 .. Len(xs)
    BY LenProperties
  <2>2. xs[i] \in Whole
    BY <2>1, ElementOfSeq
  <2> QED
    BY <2>2 DEF Whole
<1>2. {i \in DOMAIN xs : ~xs[i].ended /\ i < Len(xs)} = {}
  BY <1>1
<1> QED
  BY <1>2 DEF Joined

-----------------------------------------------------------------------------
(* What the editor has made of the lines it has read *)

\* The output ends in the section the input ends in, and reads the same except for
\* the keys of the patch in its section.
FollowsFile(xs, out, s, patch) ==
    /\ \A t : Here(out, t) <=> Here(xs, t)
    /\ \A t, k : ~(t = s /\ k \in DOMAIN patch) => SameReading(xs, out, t, k)
    /\ Unkeyed(out) = Unkeyed(xs)

\* These say what the patch says; they are there once the section has shown them or
\* is over.
FollowsPatch(xs, acc, s, patch) ==
    \A k \in DOMAIN patch :
       /\ SaysOnly(acc.out, s, k, patch[k])
       /\ patch[k] # Unset /\ (k \in acc.seen \/ (Has(xs, s) /\ ~acc.in))
            => Occurrences(acc.out, s, k) # {}

PatchingIs(xs, acc, s, patch) ==
    /\ acc \in Accs
    /\ acc.in <=> Here(xs, s)
    /\ FollowsFile(xs, acc.out, s, patch)
    /\ FollowsPatch(xs, acc, s, patch)

LEMMA HasAppend ==
  ASSUME NEW L, NEW xs \in Seq(L), NEW l \in L, NEW s
  PROVE  Has(Append(xs, l), s) <=> Has(xs, s) \/ (l.kind = "section" /\ l.name = s)
<1> DEFINE zs == Append(xs, l)
<1>1. /\ Len(xs) \in Nat /\ DOMAIN xs = 1 .. Len(xs) /\ DOMAIN zs = 1 .. Len(xs) + 1
      /\ zs[Len(xs) + 1] = l /\ \A i \in 1 .. Len(xs) : zs[i] = xs[i]
  OBVIOUS
<1> HIDE DEF zs
<1>2. \A i \in 1 .. Len(xs) + 1 : i \in 1 .. Len(xs) \/ i = Len(xs) + 1
  BY <1>1
<1>3. \A i \in 1 .. Len(xs) : i \in 1 .. Len(xs) + 1
  BY <1>1
<1>4. Len(xs) + 1 \in 1 .. Len(xs) + 1
  BY <1>1
<1> QED
  BY <1>1, <1>2, <1>3, <1>4 DEF Has, zs

\* At the end of the section what is missing of the patch is added.
FinishedIs(xs, out, s, patch) ==
    /\ out \in Seq(Whole)
    /\ FollowsFile(xs, out, s, patch)
    /\ \A k \in DOMAIN patch : SaysOnly(out, s, k, patch[k])

LEMMA FinishedFollows ==
  ASSUME NEW xs \in Seq(Whole), NEW s, NEW patch, IsPatch(patch), NEW acc,
         PatchingIs(xs, acc, s, patch)
  PROVE  /\ FinishedIs(xs, Finished(acc, patch), s, patch)
         /\ \A k \in DOMAIN patch :
              patch[k] # Unset /\ (k \in acc.seen \/ Has(xs, s))
                => Occurrences(Finished(acc, patch), s, k) # {}
<1> DEFINE ms == Missing(patch, acc.seen)
<1>1. acc.out \in Seq(Whole) /\ Finished(acc, patch) \in Seq(Whole)
  BY FinishedWhole DEF PatchingIs, Accs
<1>2. CASE ~acc.in
  <2>1. Finished(acc, patch) = acc.out
    BY <1>2 DEF Finished
  <2> QED
    BY <1>1, <1>2, <2>1 DEF FinishedIs, PatchingIs, FollowsPatch
<1>3. CASE acc.in
  <2>1. Finished(acc, patch) = acc.out \o ms
    BY <1>3 DEF Finished
  <2>2. Here(acc.out, s)
    BY <1>3 DEF PatchingIs, FollowsFile
  <2>3. ms \in Seq(Whole)
    BY MissingIs
  <2>4. \A i \in 1 .. Len(ms) :
           /\ ms[i].kind = "key" /\ ms[i].name \in DOMAIN patch
           /\ ms[i].val = patch[ms[i].name] /\ patch[ms[i].name] # Unset
    BY MissingIs
  <2>5. \A k \in DOMAIN patch \ acc.seen : patch[k] # Unset =>
           \E i \in 1 .. Len(ms) : ms[i].kind = "key" /\ ms[i].name = k
    BY MissingIs
  <2> DEFINE out == acc.out
  <2> HIDE DEF ms, out
  <2>6. \A i \in 1 .. Len(ms) : ms[i].kind # "section"
    BY <2>4
  <2>7. \A t : Here(out \o ms, t) <=> Here(xs, t)
    <3>1. \A t : Here(out \o ms, t) <=> Here(out, t)
      BY <1>1, <2>3, <2>6, TailOccurrences DEF out
    <3> QED
      BY <3>1 DEF PatchingIs, FollowsFile, out
  <2>8. ASSUME NEW t, NEW k, ~(t = s /\ k \in DOMAIN patch)
        PROVE  SameReading(xs, out \o ms, t, k)
    <3>1. \A i \in 1 .. Len(ms) :
             /\ ms[i].kind # "section"
             /\ ~(ms[i].kind = "key" /\ ms[i].name = k /\ Here(out, t))
      <4>1. Here(out, t) => t = s
        BY <2>2, InOne DEF Here, out
      <4> QED
        BY <4>1, <2>4, <2>8
    <3>2. SameReading(out \o ms, out, t, k)
      BY <1>1, <2>3, <3>1, TailReads DEF out
    <3>3. SameReading(xs, out, t, k)
      BY <2>8 DEF PatchingIs, FollowsFile, out
    <3> QED
      BY <3>2, <3>3 DEF SameReading
  <2>9. Unkeyed(out \o ms) = Unkeyed(xs)
    <3>1. Unkeyed(out \o ms) = Unkeyed(out)
      BY <1>1, <2>3, <2>4, UnkeyedTail DEF out
    <3> QED
      BY <3>1 DEF PatchingIs, FollowsFile, out
  <2>10. ASSUME NEW k \in DOMAIN patch
         PROVE  /\ SaysOnly(out \o ms, s, k, patch[k])
                /\ patch[k] # Unset => Occurrences(out \o ms, s, k) # {}
    <3>1. /\ SaysOnly(out, s, k, patch[k])
          /\ patch[k] # Unset /\ k \in acc.seen => Occurrences(out, s, k) # {}
      BY DEF PatchingIs, FollowsPatch, out
    <3>2. \A i \in 1 .. Len(ms) :
             /\ ms[i].kind # "section"
             /\ ms[i].kind = "key" /\ ms[i].name = k /\ Here(out, s)
                  => ms[i].val = patch[k] /\ patch[k] # Unset
      BY <2>4, <2>6
    <3>3. /\ SaysOnly(out \o ms, s, k, patch[k])
          /\ Occurrences(out, s, k) # {} => Occurrences(out \o ms, s, k) # {}
          /\ Here(out, s) /\ (\E i \in 1 .. Len(ms) : ms[i].kind = "key" /\ ms[i].name = k)
               => Occurrences(out \o ms, s, k) # {}
      BY <1>1, <2>3, <3>1, <3>2, TailSays DEF out
    <3> QED
      BY <3>1, <3>3, <2>2, <2>5 DEF out
  <2>11. Finished(acc, patch) = out \o ms
    BY <2>1 DEF out
  <2> QED
    BY <1>1, <2>7, <2>8, <2>9, <2>10, <2>11 DEF FinishedIs, FollowsFile
<1> QED
  BY <1>2, <1>3

LEMMA PatchingStarts ==
  ASSUME NEW s, NEW patch
  PROVE  PatchingIs(<<>>, NoLines, s, patch)
<1>1. NoLines \in Accs /\ NoLines.out = <<>> /\ NoLines.in = FALSE /\ NoLines.seen = {}
  BY DEF NoLines, Accs
<1>2. \A t : ~Here(<<>>, t)
  BY DEF Here, In, Headers
<1>3. \A t, k : Occurrences(<<>>, t, k) = {}
  BY DEF Occurrences
<1>4. ~Has(<<>>, s)
  BY DEF Has
<1> QED
  BY <1>1, <1>2, <1>3, <1>4
  DEF PatchingIs, FollowsFile, FollowsPatch, SameReading, SaysOnly

\* One line.
LEMMA PatchingHeader ==
  ASSUME NEW xs \in Seq(Whole), NEW s, NEW patch, IsPatch(patch), NEW acc,
         PatchingIs(xs, acc, s, patch), NEW l \in Whole, l.kind = "section"
  PROVE  PatchingIs(Append(xs, l), PatchLine(acc, l, s, patch), s, patch)
<1> DEFINE new == PatchLine(acc, l, s, patch)
           fin == Finished(acc, patch)
           ys == Append(xs, l)
<1>1. /\ new \in Accs /\ new.out = Append(fin, l) /\ (new.in <=> l.name = s)
      /\ new.seen = acc.seen
  <2>1. acc \in Accs
    BY DEF PatchingIs
  <2> QED
    BY <2>1, PatchHeader
<1>2. /\ FinishedIs(xs, fin, s, patch)
      /\ \A k \in DOMAIN patch :
           patch[k] # Unset /\ (k \in acc.seen \/ Has(xs, s)) => Occurrences(fin, s, k) # {}
  BY FinishedFollows
<1>3. fin \in Seq(Whole)
  BY <1>2 DEF FinishedIs
<1> HIDE DEF new, fin
<1>4. \A t : /\ Here(Append(fin, l), t) <=> l.name = t
             /\ Here(ys, t) <=> l.name = t
  BY <1>3, HeaderOpens
<1>5. ASSUME NEW t, NEW k, ~(t = s /\ k \in DOMAIN patch)
      PROVE  SameReading(ys, Append(fin, l), t, k)
  <2>1. SameReading(xs, fin, t, k) /\ (Here(xs, t) <=> Here(fin, t))
    BY <1>2, <1>5 DEF FinishedIs, FollowsFile
  <2> QED
    BY <2>1, <1>3, BothGrow
<1>6. Unkeyed(Append(fin, l)) = Unkeyed(ys)
  <2>1. Unkeyed(fin) = Unkeyed(xs)
    BY <1>2 DEF FinishedIs, FollowsFile
  <2> QED
    BY <2>1, <1>3, UnkeyedAppend
<1>7. ASSUME NEW k \in DOMAIN patch
      PROVE  /\ SaysOnly(Append(fin, l), s, k, patch[k])
             /\ patch[k] # Unset /\ (k \in new.seen \/ (Has(ys, s) /\ ~new.in))
                  => Occurrences(Append(fin, l), s, k) # {}
  <2>1. SaysOnly(Append(fin, l), s, k, patch[k])
    BY <1>2, <1>3, HeaderSays DEF FinishedIs
  <2>2. Occurrences(Append(fin, l), s, k) = Occurrences(fin, s, k)
    BY <1>3, HeaderOccurrences
  <2>3. Has(ys, s) /\ ~new.in => Has(xs, s)
    BY <1>1, HasAppend
  <2> QED
    BY <2>1, <2>2, <2>3, <1>1, <1>2
<1>8. FollowsFile(ys, Append(fin, l), s, patch)
  BY <1>4, <1>5, <1>6 DEF FollowsFile
<1>9. FollowsPatch(ys, new, s, patch)
  BY <1>1, <1>7 DEF FollowsPatch
<1>10. PatchingIs(ys, new, s, patch)
  BY <1>1, <1>4, <1>8, <1>9 DEF PatchingIs
<1> QED
  BY <1>10 DEF new

LEMMA PatchingKey ==
  ASSUME NEW xs \in Seq(Whole), NEW s, NEW patch, IsPatch(patch), NEW acc,
         PatchingIs(xs, acc, s, patch), NEW l \in Whole,
         l.kind = "key", acc.in, l.name \in DOMAIN patch
  PROVE  PatchingIs(Append(xs, l), PatchLine(acc, l, s, patch), s, patch)
<1> DEFINE new == PatchLine(acc, l, s, patch)
           ys == Append(xs, l)
           out == acc.out
           v == patch[l.name]
           rs == Replaced(l.name, v)
<1>1. /\ new \in Accs /\ new.out = out \o rs /\ new.in
      /\ new.seen = acc.seen \union {l.name}
  <2>1. acc \in Accs
    BY DEF PatchingIs
  <2> QED
    BY <2>1, PatchKey
<1>2. out \in Seq(Whole) /\ Here(xs, s) /\ Here(out, s)
  BY DEF PatchingIs, FollowsFile, Accs
<1>3. l.name \in PresetKeys /\ v \in Values \union {Unset}
  BY DEF IsPatch
<1>4. /\ rs \in Seq(Whole)
      /\ \A i \in 1 .. Len(rs) : rs[i].kind = "key" /\ rs[i].name = l.name
                                 /\ rs[i].val = v /\ v # Unset
      /\ v # Unset => 1 \in 1 .. Len(rs)
  <2>1. CASE v = Unset
    <3>1. rs = <<>>
      BY <2>1 DEF Replaced
    <3> QED
      BY <3>1, <2>1
  <2>2. CASE v # Unset
    <3> DEFINE e == Entry(l.name, v)
    <3>1. rs = <<e>>
      BY <2>2 DEF Replaced
    <3>2. e \in Whole /\ e.kind = "key" /\ e.name = l.name /\ e.val = v
      BY <1>3, EntryWhole
    <3> HIDE DEF e, v
    <3>3. rs \in Seq(Whole) /\ Len(rs) = 1 /\ rs[1] = e
      BY <3>1, <3>2
    <3>4. \A i \in 1 .. Len(rs) : i = 1
      BY <3>3
    <3>5. 1 \in 1 .. Len(rs)
      BY <3>3
    <3> QED
      BY <2>2, <3>2, <3>3, <3>4, <3>5
  <2> QED
    BY <2>1, <2>2
<1> HIDE DEF new, out, rs, v
<1>5. \A i \in 1 .. Len(rs) : rs[i].kind # "section"
  BY <1>4
<1>6. ASSUME NEW t PROVE Here(out \o rs, t) <=> Here(ys, t)
  <2>1. Here(out \o rs, t) <=> Here(out, t)
    BY <1>2, <1>4, <1>5, TailOccurrences
  <2>2. Here(ys, t) <=> Here(xs, t)
    <3> DEFINE one == <<l>>
    <3>1. ys = xs \o one /\ one \in Seq(Whole) /\ Len(one) = 1 /\ one[1] = l
      BY AppendIsTail
    <3> HIDE DEF one, ys
    <3>2. \A i \in 1 .. Len(one) : i = 1
      BY <3>1
    <3>3. \A i \in 1 .. Len(one) : one[i].kind # "section"
      BY <3>1, <3>2
    <3>4. Here(xs \o one, t) <=> Here(xs, t)
      BY <3>1, <3>3, TailOccurrences
    <3> QED
      BY <3>1, <3>4
  <2>3. Here(out, t) <=> Here(xs, t)
    BY DEF PatchingIs, FollowsFile, out
  <2> QED
    BY <2>1, <2>2, <2>3
<1>7. ASSUME NEW t, NEW k, ~(t = s /\ k \in DOMAIN patch)
      PROVE  SameReading(ys, out \o rs, t, k)
  <2>1. ~(l.name = k /\ Here(xs, t)) /\ ~(l.name = k /\ Here(out, t))
    BY <1>2, <1>7, InOne DEF Here
  <2>2. SameReading(ys, xs, t, k)
    BY <2>1, OtherReads
  <2>3. \A i \in 1 .. Len(rs) :
           /\ rs[i].kind # "section"
           /\ ~(rs[i].kind = "key" /\ rs[i].name = k /\ Here(out, t))
    BY <1>4, <2>1
  <2>4. SameReading(out \o rs, out, t, k)
    BY <1>2, <1>4, <2>3, TailReads
  <2>5. SameReading(xs, out, t, k)
    BY <1>7 DEF PatchingIs, FollowsFile, out
  <2> QED
    BY <2>2, <2>4, <2>5 DEF SameReading
<1>8. Unkeyed(out \o rs) = Unkeyed(ys)
  <2>1. Unkeyed(out \o rs) = Unkeyed(out)
    BY <1>2, <1>4, UnkeyedTail
  <2>2. Unkeyed(ys) = Unkeyed(xs)
    BY UnkeyedAppend DEF WithText
  <2> QED
    BY <2>1, <2>2 DEF PatchingIs, FollowsFile, out
<1>9. ASSUME NEW k \in DOMAIN patch
      PROVE  /\ SaysOnly(out \o rs, s, k, patch[k])
             /\ patch[k] # Unset /\ k \in new.seen => Occurrences(out \o rs, s, k) # {}
  <2>1. /\ SaysOnly(out, s, k, patch[k])
        /\ patch[k] # Unset /\ k \in acc.seen => Occurrences(out, s, k) # {}
    BY DEF PatchingIs, FollowsPatch, out
  <2>2. \A i \in 1 .. Len(rs) :
           /\ rs[i].kind # "section"
           /\ rs[i].kind = "key" /\ rs[i].name = k /\ Here(out, s)
                => rs[i].val = patch[k] /\ patch[k] # Unset
    BY <1>4 DEF v
  <2>3. /\ SaysOnly(out \o rs, s, k, patch[k])
        /\ Occurrences(out, s, k) # {} => Occurrences(out \o rs, s, k) # {}
        /\ Here(out, s) /\ (\E i \in 1 .. Len(rs) : rs[i].kind = "key" /\ rs[i].name = k)
             => Occurrences(out \o rs, s, k) # {}
    BY <1>2, <1>4, <2>1, <2>2, TailSays
  <2>4. k = l.name /\ patch[k] # Unset => Occurrences(out \o rs, s, k) # {}
    BY <2>3, <1>2, <1>4 DEF v
  <2> QED
    BY <2>1, <2>3, <2>4, <1>1
<1>10. FollowsFile(ys, out \o rs, s, patch)
  BY <1>6, <1>7, <1>8 DEF FollowsFile
<1>11. FollowsPatch(ys, new, s, patch)
  BY <1>1, <1>9 DEF FollowsPatch
<1>12. Here(ys, s)
  <2>1. Here(out \o rs, s) <=> Here(out, s)
    BY <1>2, <1>4, <1>5, TailOccurrences
  <2> QED
    BY <2>1, <1>2, <1>6
<1>13. PatchingIs(ys, new, s, patch)
  BY <1>1, <1>10, <1>11, <1>12 DEF PatchingIs
<1> QED
  BY <1>13 DEF new

LEMMA PatchingOther ==
  ASSUME NEW xs \in Seq(Whole), NEW s, NEW patch, IsPatch(patch), NEW acc,
         PatchingIs(xs, acc, s, patch), NEW l \in Whole, l.kind # "section",
         ~(l.kind = "key" /\ acc.in /\ l.name \in DOMAIN patch)
  PROVE  PatchingIs(Append(xs, l), PatchLine(acc, l, s, patch), s, patch)
<1> DEFINE new == PatchLine(acc, l, s, patch)
           ys == Append(xs, l)
           out == acc.out
           one == <<l>>
<1>1. /\ new \in Accs /\ new.out = Append(out, l) /\ (new.in <=> acc.in)
      /\ new.seen = acc.seen
  <2>1. acc \in Accs
    BY DEF PatchingIs
  <2> QED
    BY <2>1, PatchOther
<1>2. out \in Seq(Whole) /\ (acc.in <=> Here(xs, s)) /\ (acc.in <=> Here(out, s))
  BY DEF PatchingIs, FollowsFile, Accs
<1>3. /\ one \in Seq(Whole) /\ Len(one) = 1 /\ one[1] = l
      /\ ys = xs \o one /\ Append(out, l) = out \o one
  BY <1>2, AppendIsTail
<1> HIDE DEF new, out, ys, one
<1>4. \A i \in 1 .. Len(one) : i = 1
  BY <1>3
<1>5. \A i \in 1 .. Len(one) : one[i].kind # "section"
  BY <1>3, <1>4
<1>6. ASSUME NEW t PROVE Here(Append(out, l), t) <=> Here(ys, t)
  <2>1. Here(out \o one, t) <=> Here(out, t)
    BY <1>2, <1>3, <1>5, TailOccurrences
  <2>2. Here(xs \o one, t) <=> Here(xs, t)
    BY <1>3, <1>5, TailOccurrences
  <2>3. Here(out, t) <=> Here(xs, t)
    BY DEF PatchingIs, FollowsFile, out
  <2> QED
    BY <2>1, <2>2, <2>3, <1>3
<1>7. new.in <=> Here(ys, s)
  <2>1. Here(xs \o one, s) <=> Here(xs, s)
    BY <1>3, <1>5, TailOccurrences
  <2> QED
    BY <2>1, <1>1, <1>2, <1>3
<1>8. ASSUME NEW t, NEW k, ~(t = s /\ k \in DOMAIN patch)
      PROVE  SameReading(ys, Append(out, l), t, k)
  <2>1. SameReading(xs, out, t, k) /\ (Here(xs, t) <=> Here(out, t))
    BY <1>8 DEF PatchingIs, FollowsFile, out
  <2> QED
    BY <2>1, <1>2, BothGrow DEF ys
<1>9. Unkeyed(Append(out, l)) = Unkeyed(ys)
  <2>1. Unkeyed(out) = Unkeyed(xs)
    BY DEF PatchingIs, FollowsFile, out
  <2> QED
    BY <2>1, <1>2, UnkeyedAppend DEF ys
<1>10. ASSUME NEW k \in DOMAIN patch
       PROVE  /\ SaysOnly(Append(out, l), s, k, patch[k])
              /\ patch[k] # Unset /\ (k \in new.seen \/ (Has(ys, s) /\ ~new.in))
                   => Occurrences(Append(out, l), s, k) # {}
  <2>1. /\ SaysOnly(out, s, k, patch[k])
        /\ patch[k] # Unset /\ (k \in acc.seen \/ (Has(xs, s) /\ ~acc.in))
             => Occurrences(out, s, k) # {}
    BY DEF PatchingIs, FollowsPatch, out
  <2>2. ~(l.kind = "key" /\ l.name = k /\ Here(out, s))
    BY <1>2
  <2>3. /\ SaysOnly(Append(out, l), s, k, patch[k])
        /\ Occurrences(out, s, k) # {} => Occurrences(Append(out, l), s, k) # {}
    BY <1>2, <2>1, <2>2, LineSays
  <2>4. Has(ys, s) <=> Has(xs, s)
    BY HasAppend DEF ys
  <2> QED
    BY <2>1, <2>3, <2>4, <1>1
<1>11. FollowsFile(ys, Append(out, l), s, patch)
  BY <1>6, <1>8, <1>9 DEF FollowsFile
<1>12. FollowsPatch(ys, new, s, patch)
  BY <1>1, <1>10 DEF FollowsPatch
<1>13. PatchingIs(ys, new, s, patch)
  BY <1>1, <1>7, <1>11, <1>12 DEF PatchingIs
<1> QED
  BY <1>13 DEF new, ys

LEMMA PatchingLine ==
  ASSUME NEW xs \in Seq(Whole), NEW s, NEW patch, IsPatch(patch), NEW acc,
         PatchingIs(xs, acc, s, patch), NEW l \in Whole
  PROVE  PatchingIs(Append(xs, l), PatchLine(acc, l, s, patch), s, patch)
<1>1. CASE l.kind = "section"
  BY <1>1, PatchingHeader
<1>2. CASE l.kind = "key" /\ acc.in /\ l.name \in DOMAIN patch
  BY <1>2, PatchingKey
<1>3. CASE l.kind # "section" /\ ~(l.kind = "key" /\ acc.in /\ l.name \in DOMAIN patch)
  BY <1>3, PatchingOther
<1> QED
  BY <1>1, <1>2, <1>3


\* What the editor makes of a file that has the section.
LEMMA PatchedSays ==
  ASSUME NEW xs \in Seq(Whole), NEW s, NEW patch, IsPatch(patch), Has(xs, s)
  PROVE  /\ Patched(xs, s, patch) \in Seq(Whole)
         /\ \A t, k : ~(t = s /\ k \in DOMAIN patch)
                        => SameReading(xs, Patched(xs, s, patch), t, k)
         /\ Unkeyed(Patched(xs, s, patch)) = Unkeyed(xs)
         /\ \A k \in DOMAIN patch : /\ IniGet(Patched(xs, s, patch), s, k) = patch[k]
                                    /\ Parsed(Patched(xs, s, patch), s, k) = patch[k]
<1> DEFINE m == Len(xs)
           upTo(n) == SubSeq(xs, 1, n)
<1>1. PICK f : /\ PatchRun(xs, s, patch, m, f)
               /\ Patched(xs, s, patch) = Joined(Finished(f[m], patch))
  BY PatchedIsLast
<1> DEFINE S == {n \in Nat : n <= m => PatchingIs(upTo(n), f[n], s, patch)}
<1>2. m \in Nat /\ \A n \in 1 .. m : xs[n] \in Whole
  BY LenProperties, ElementOfSeq
<1>3. 0 \in S
  <2>1. upTo(0) = <<>>
    OBVIOUS
  <2>2. f[0] = NoLines
    BY <1>1 DEF PatchRun
  <2> HIDE DEF upTo
  <2> QED
    BY <2>1, <2>2, PatchingStarts
<1>4. ASSUME NEW n \in S PROVE n + 1 \in S
  <2> SUFFICES ASSUME n + 1 <= m PROVE PatchingIs(upTo(n + 1), f[n + 1], s, patch)
    OBVIOUS
  <2>1. n \in Nat /\ n <= m /\ n + 1 \in 1 .. m /\ (n + 1) - 1 = n
    BY <1>2
  <2>2. /\ upTo(n) \in Seq(Whole)
        /\ upTo(n + 1) = Append(upTo(n), xs[n + 1])
    <3> HIDE DEF Whole
    <3> QED
      BY <2>1
  <2>3. f[n + 1] = PatchLine(f[n], xs[n + 1], s, patch)
    BY <2>1, <1>1 DEF PatchRun
  <2>4. PatchingIs(upTo(n), f[n], s, patch)
    BY <2>1
  <2> HIDE DEF upTo, m, S
  <2>5. xs[n + 1] \in Whole
    BY <2>1, <1>2
  <2>6. PatchingIs(Append(upTo(n), xs[n + 1]), PatchLine(f[n], xs[n + 1], s, patch),
                   s, patch)
    BY <2>2, <2>4, <2>5, PatchingLine
  <2> QED
    BY <2>2, <2>3, <2>6
<1> HIDE DEF S
<1>5. S = Nat
  BY <1>3, <1>4, NatSetInduction DEF S
<1>6. PatchingIs(xs, f[m], s, patch)
  <2>1. upTo(m) = xs
    <3> HIDE DEF Whole
    <3> QED
      OBVIOUS
  <2>2. PatchingIs(upTo(m), f[m], s, patch)
    BY <1>2, <1>5 DEF S
  <2> HIDE DEF upTo
  <2> QED
    BY <2>1, <2>2
<1> DEFINE out == Finished(f[m], patch)
<1>7. /\ FinishedIs(xs, out, s, patch)
      /\ \A k \in DOMAIN patch : patch[k] # Unset => Occurrences(out, s, k) # {}
  BY <1>6, FinishedFollows
<1> HIDE DEF out, m
<1>8. out \in Seq(Whole) /\ Patched(xs, s, patch) = out
  <2>1. out \in Seq(Whole)
    BY <1>7 DEF FinishedIs
  <2> QED
    BY <2>1, <1>1, JoinedWhole DEF out
<1>9. \A k \in DOMAIN patch : IniGet(out, s, k) = patch[k] /\ Parsed(out, s, k) = patch[k]
  <2> SUFFICES ASSUME NEW k \in DOMAIN patch
               PROVE  IniGet(out, s, k) = patch[k] /\ Parsed(out, s, k) = patch[k]
    OBVIOUS
  <2>1. SaysOnly(out, s, k, patch[k]) /\ (patch[k] # Unset => Occurrences(out, s, k) # {})
    BY <1>7 DEF FinishedIs
  <2> QED
    BY <2>1, <1>8, SaysOnlyReads
<1> QED
  BY <1>7, <1>8, <1>9 DEF FinishedIs, FollowsFile

-----------------------------------------------------------------------------
(* The edits on their way *)

\* Files whose last line has its newline, as the presets that are shipped: without it,
\* the first line the editor adds runs into the last one (apply_preset_patch.py:112).
WholeFiles == Files \subseteq Seq(Whole)

LEMMA PatchesValid ==
  ASSUME NEW patch \in Patches
  PROVE  IsPatch(patch)
<1>1. CASE patch \in Edited
  BY <1>1, EditedAssumption DEF IsPatch
<1>2. ASSUME NEW source \in Sources, patch = TagPatch(source) PROVE IsPatch(patch)
  <2>1. DOMAIN patch = {HfRepo} /\ patch[HfRepo] = source
    BY <1>2 DEF TagPatch
  <2>2. HfRepo \in PresetKeys /\ source \in Values
    BY DEF PresetKeys, Values
  <2> HIDE DEF HfRepo
  <2> QED
    BY <2>1, <2>2 DEF IsPatch
<1> QED
  BY <1>1, <1>2 DEF Patches

\* validate leaves the keys, and what it has passed it passes again.
LEMMA ValidatedIs ==
  ASSUME NEW patch, IsPatch(patch)
  PROVE  /\ IsPatch(Validated(patch)) /\ DOMAIN Validated(patch) = DOMAIN patch
         /\ Valid(Validated(patch)) <=> Valid(patch)
<1>1. ASSUME NEW v
      PROVE  /\ v \in Values \union {Unset} => Clean(v) \in Values \union {Unset}
             /\ Clean(v) \in Refused <=> v \in Refused
  BY WrittenAssumption DEF Clean, Values
<1>2. /\ DOMAIN Validated(patch) = DOMAIN patch
      /\ \A k \in DOMAIN patch : Validated(patch)[k] = Clean(patch[k])
  BY DEF Validated
<1> QED
  BY <1>1, <1>2 DEF IsPatch, Valid

LEMMA WholeIsLines ==
  ASSUME NEW xs \in Seq(Whole)
  PROVE  xs \in Seq(PresetLines)
<1>1. Whole \subseteq PresetLines
  BY DEF Whole, PresetLines
<1> QED
  BY <1>1, SeqMonotonic

LEMMA ReadingIsValue ==
  ASSUME NEW xs \in Seq(Whole), NEW t, NEW k
  PROVE  /\ IniGet(xs, t, k) \in Values \union {Unset}
         /\ Parsed(xs, t, k) \in Values \union {Unset}
<1> DEFINE S == Occurrences(xs, t, k)
<1>1. S \in SUBSET (1 .. Len(xs)) /\ S \in SUBSET Nat /\ Len(xs) \in Nat
  BY OccurrencesIn
<1>2. \A i \in S : xs[i].val \in Values \union {Unset}
  <2> SUFFICES ASSUME NEW i \in S PROVE xs[i].val \in Values \union {Unset}
    OBVIOUS
  <2>1. xs[i] \in Whole
    BY <1>1, ElementOfSeq
  <2> QED
    BY <2>1 DEF Whole
<1>3. CASE S = {}
  BY <1>3 DEF IniGet, Parsed
<1>4. CASE S # {}
  <2> HIDE DEF S
  <2>1. Earliest(S) \in S /\ Latest(S) \in S
    BY <1>1, <1>4, EarliestOf, LatestOf
  <2> QED
    BY <1>2, <1>4, <2>1 DEF IniGet, Parsed, S
<1> QED
  BY <1>3, <1>4

LEMMA RepoOfType ==
  ASSUME NEW v
  PROVE  RepoOf(v) \in HubRepos \union {NoRepo}
BY DEF RepoOf, Sources

\* Every edit made is taken, on its way, or waits.
Counted == made = done + Len(batch) + Len(pending)

\* A tag was put behind the repo the section has, unless the repo was set after what
\* the gateway knew then.
TagFits(e, lines, at) ==
    e.byTag => \/ RepoOf(Parsed(lines, e.section, HfRepo)) = e.patch[HfRepo][1]
               \/ at[e.section] > e.from

EditsFit(queue, lines, at, heard) ==
    \A i \in 1 .. Len(queue) : queue[i].from <= heard /\ TagFits(queue[i], lines, at)

\* The same of the repos the gateway knows.
KnownFits == \A s \in Sections : known[s] = Reported(s) \/ moved[s] > reported

PresetInv ==
    /\ EditsTypeOK
    /\ preset \in Seq(Whole)
    /\ Counted
    /\ EditsFit(batch, preset, moved, reported)
    /\ EditsFit(pending, preset, moved, reported)
    /\ KnownFits

LEMMA PresetInit ==
  ASSUME WholeFiles
  PROVE  EditsInit => PresetInv
<1> SUFFICES ASSUME EditsInit PROVE PresetInv
  OBVIOUS
<1>1. preset \in Seq(Whole)
  BY DEF EditsInit, WholeFiles
<1>2. preset \in Seq(PresetLines)
  BY <1>1, WholeIsLines
<1>3. \A s \in Sections : Reported(s) \in HubRepos \union {NoRepo}
  BY RepoOfType DEF Reported
<1>4. known \in [Sections -> HubRepos \union {NoRepo}]
  BY <1>3 DEF EditsInit
<1>5. /\ pending = <<>> /\ batch = <<>> /\ made = 0 /\ done = 0 /\ reported = 0
      /\ moved = [s \in Sections |-> 0]
  BY DEF EditsInit
<1>6. EditsTypeOK
  BY <1>2, <1>4, <1>5, MaxEditsAssumption DEF EditsTypeOK
<1>7. /\ Counted
      /\ EditsFit(batch, preset, moved, reported)
      /\ EditsFit(pending, preset, moved, reported)
  BY <1>5 DEF Counted, EditsFit
<1>8. KnownFits
  BY DEF EditsInit, KnownFits
<1> QED
  BY <1>1, <1>6, <1>7, <1>8 DEF PresetInv

\* One more edit waits.
LEMMA QueueKeeps ==
  ASSUME PresetInv, NEW s \in Sections, NEW patch \in Patches, NEW byTag \in BOOLEAN,
         Queue(s, patch, byTag), byTag => patch[HfRepo][1] = known[s]
  PROVE  PresetInv'
<1> DEFINE e == [section |-> s, patch |-> patch, byTag |-> byTag, from |-> reported]
<1>1. /\ made < MaxEdits /\ made' = made + 1 /\ pending' = Append(pending, e)
      /\ preset' = preset /\ known' = known /\ batch' = batch /\ done' = done
      /\ reported' = reported /\ moved' = moved
  BY DEF Queue
<1>2. /\ made \in 0 .. MaxEdits /\ done \in 0 .. made /\ reported \in 0 .. done
      /\ MaxEdits \in Nat
      /\ pending \in Seq(Edits) /\ batch \in Seq(Edits)
      /\ moved \in [Sections -> 0 .. done]
  BY MaxEditsAssumption DEF PresetInv, EditsTypeOK
<1>3. reported \in 0 .. MaxEdits
  BY <1>2
<1>4. e \in Edits
  BY <1>3 DEF Edits
<1>5. e.section = s /\ e.patch = patch /\ (e.byTag <=> byTag) /\ e.from = reported
  OBVIOUS
<1> HIDE DEF e
<1>6. /\ pending' \in Seq(Edits) /\ Len(pending') = Len(pending) + 1
      /\ \A i \in 1 .. Len(pending) : pending'[i] = pending[i]
      /\ pending'[Len(pending) + 1] = e
      /\ Len(pending) \in Nat /\ Len(batch) \in Nat
  <2> HIDE DEF Edits
  <2> QED
    BY <1>1, <1>2, <1>4
<1>7. EditsTypeOK'
  <2>1. made' \in 0 .. MaxEdits /\ done' \in 0 .. made'
    BY <1>1, <1>2
  <2>2. preset' \in Seq(PresetLines) /\ known' \in [Sections -> HubRepos \union {NoRepo}]
    BY <1>1 DEF PresetInv, EditsTypeOK
  <2> QED
    BY <2>1, <2>2, <1>1, <1>2, <1>6 DEF EditsTypeOK
<1>8. Counted'
  BY <1>1, <1>2, <1>6 DEF PresetInv, Counted
<1>9. \A t \in Sections : Reported(t)' = Reported(t)
  BY <1>1 DEF Reported
<1>10. KnownFits'
  BY <1>1, <1>9 DEF PresetInv, KnownFits
<1>12. EditsFit(batch', preset', moved', reported')
  BY <1>1 DEF PresetInv
<1>13. EditsFit(pending', preset', moved', reported')
  <2> SUFFICES ASSUME NEW i \in 1 .. Len(pending')
               PROVE  pending'[i].from <= reported /\ TagFits(pending'[i], preset, moved)
    BY <1>1 DEF EditsFit
  <2>1. CASE i \in 1 .. Len(pending)
    <3>1. pending'[i] = pending[i]
      BY <2>1, <1>6
    <3>2. pending[i].from <= reported /\ TagFits(pending[i], preset, moved)
      BY <2>1 DEF PresetInv, EditsFit
    <3> QED
      BY <3>1, <3>2
  <2>2. CASE i = Len(pending) + 1
    <3>1. pending'[i] = e
      BY <2>2, <1>6
    <3>2. known[s] = Reported(s) \/ moved[s] > reported
      BY DEF PresetInv, KnownFits
    <3>3. TagFits(e, preset, moved)
      BY <3>2, <1>5 DEF TagFits, Reported
    <3>4. e.from <= reported
      BY <1>2, <1>5
    <3> QED
      BY <3>1, <3>3, <3>4
  <2> QED
    BY <2>1, <2>2, <1>6
<1> QED
  BY <1>1, <1>7, <1>8, <1>10, <1>12, <1>13 DEF PresetInv

LEMMA HeartbeatKeeps ==
  ASSUME PresetInv, Heartbeat
  PROVE  PresetInv'
<1>1. /\ batch = <<>> /\ known' = [s \in Sections |-> Reported(s)] /\ reported' = done
      /\ batch' = pending /\ pending' = <<>>
      /\ preset' = preset /\ made' = made /\ done' = done /\ moved' = moved
  BY DEF Heartbeat, Kept
<1>2. /\ made \in 0 .. MaxEdits /\ done \in 0 .. made /\ reported \in 0 .. done
      /\ MaxEdits \in Nat
      /\ pending \in Seq(Edits)
      /\ moved \in [Sections -> 0 .. done]
  BY MaxEditsAssumption DEF PresetInv, EditsTypeOK
<1>3. \A s \in Sections : Reported(s) \in HubRepos \union {NoRepo}
  BY RepoOfType DEF Reported
<1>4. known' \in [Sections -> HubRepos \union {NoRepo}]
  BY <1>1, <1>3
<1>5. EditsTypeOK'
  <2>1. reported' \in 0 .. done' /\ preset' \in Seq(PresetLines) /\ pending' \in Seq(Edits)
    BY <1>1, <1>2 DEF PresetInv, EditsTypeOK
  <2> QED
    BY <2>1, <1>1, <1>2, <1>4 DEF EditsTypeOK
<1>6. Counted'
  <2>1. Len(batch) = 0 /\ Len(pending') = 0 /\ Len(batch') = Len(pending)
        /\ Len(pending) \in Nat
    BY <1>1, <1>2
  <2> QED
    BY <2>1, <1>1, <1>2 DEF PresetInv, Counted
<1>7. KnownFits'
  BY <1>1 DEF KnownFits, Reported
<1>8. EditsFit(batch', preset', moved', reported')
  <2> SUFFICES ASSUME NEW i \in 1 .. Len(pending)
               PROVE  pending[i].from <= done /\ TagFits(pending[i], preset, moved)
    BY <1>1 DEF EditsFit
  <2>1. pending[i].from <= reported /\ TagFits(pending[i], preset, moved)
    BY DEF PresetInv, EditsFit
  <2>2. pending[i] \in Edits
    BY <1>2, ElementOfSeq
  <2>3. pending[i].from \in Nat
    BY <2>2, <1>2 DEF Edits
  <2> QED
    BY <2>1, <2>3, <1>2
<1>9. EditsFit(pending', preset', moved', reported')
  BY <1>1 DEF EditsFit
<1> QED
  BY <1>1, <1>5, <1>6, <1>7, <1>8, <1>9 DEF PresetInv

\* The file after the oldest edit.
LEMMA AppliedIs ==
  ASSUME PresetInv, Apply, NEW e, e = Head(batch)
  PROVE  /\ e \in Edits /\ IsPatch(e.patch)
         /\ ~Takes(e) => preset' = preset /\ moved' = moved
         /\ Takes(e) =>
              /\ preset' \in Seq(Whole)
              /\ \A t, k : ~(t = e.section /\ k \in DOMAIN e.patch)
                             => SameReading(preset, preset', t, k)
              /\ Unkeyed(preset') = Unkeyed(preset)
              /\ \A k \in DOMAIN e.patch :
                   /\ IniGet(preset', e.section, k) = Validated(e.patch)[k]
                   /\ Parsed(preset', e.section, k) = Validated(e.patch)[k]
              /\ moved' = IF HfRepo \in DOMAIN e.patch
                          THEN [moved EXCEPT ![e.section] = done'] ELSE moved
<1>1. batch \in Seq(Edits) /\ batch # <<>>
  BY DEF PresetInv, EditsTypeOK, Apply
<1>2. e \in Edits
  <2> HIDE DEF Edits
  <2> QED
    BY <1>1
<1>3. IsPatch(e.patch)
  BY <1>2, PatchesValid DEF Edits
<1>4. ~Takes(e) => preset' = preset /\ moved' = moved
  BY DEF Apply
<1>5. ASSUME Takes(e)
      PROVE  /\ preset' = Patched(preset, e.section, Validated(e.patch)) /\ Has(preset, e.section)
             /\ moved' = IF HfRepo \in DOMAIN e.patch
                         THEN [moved EXCEPT ![e.section] = done'] ELSE moved
  BY <1>5 DEF Apply, Takes
<1>6. preset \in Seq(Whole)
  BY DEF PresetInv
<1>7. /\ IsPatch(Validated(e.patch)) /\ DOMAIN Validated(e.patch) = DOMAIN e.patch
  BY <1>3, ValidatedIs
<1> QED
  BY <1>2, <1>3, <1>4, <1>5, <1>6, <1>7, PatchedSays

\* The edit sets the repo of its section, and `moved` says so, or leaves all repos.
LEMMA ApplyKeeps ==
  ASSUME PresetInv, Apply
  PROVE  PresetInv'
<1> DEFINE e == Head(batch)
<1>1. /\ batch # <<>> /\ batch' = Tail(batch) /\ done' = done + 1
      /\ known' = known /\ pending' = pending /\ made' = made /\ reported' = reported
  BY DEF Apply
<1>2. /\ made \in 0 .. MaxEdits /\ done \in 0 .. made /\ reported \in 0 .. done
      /\ pending \in Seq(Edits) /\ batch \in Seq(Edits)
      /\ moved \in [Sections -> 0 .. done] /\ MaxEdits \in Nat
      /\ preset \in Seq(Whole)
  BY MaxEditsAssumption DEF PresetInv, EditsTypeOK
<1>3. /\ e \in Edits /\ IsPatch(e.patch)
      /\ ~Takes(e) => preset' = preset /\ moved' = moved
      /\ Takes(e) =>
           /\ preset' \in Seq(Whole)
           /\ \A t, k : ~(t = e.section /\ k \in DOMAIN e.patch)
                          => SameReading(preset, preset', t, k)
           /\ moved' = IF HfRepo \in DOMAIN e.patch
                       THEN [moved EXCEPT ![e.section] = done'] ELSE moved
  BY AppliedIs
<1> HIDE DEF e
<1>4. e.section \in Sections
  BY <1>3 DEF Edits
<1>5. /\ batch' \in Seq(Edits) /\ Len(batch') = Len(batch) - 1 /\ Len(batch) \in Nat
      /\ Len(batch) > 0 /\ Len(pending) \in Nat
      /\ \A i \in 1 .. Len(batch') : i + 1 \in 1 .. Len(batch) /\ batch'[i] = batch[i + 1]
  <2> HIDE DEF Edits
  <2> QED
    BY <1>1, <1>2
<1>6. preset' \in Seq(Whole)
  BY <1>2, <1>3
<1>7. Counted'
  BY <1>1, <1>2, <1>5 DEF PresetInv, Counted
<1>8. done' \in 0 .. made' /\ done < done' /\ reported' \in 0 .. done'
  BY <1>1, <1>2, <1>5, <1>7 DEF Counted
<1>9. moved' \in [Sections -> 0 .. done']
  <2>1. 0 .. done \subseteq 0 .. done' /\ done' \in 0 .. done'
    BY <1>8, <1>2
  <2>2. moved \in [Sections -> 0 .. done']
    BY <2>1, <1>2
  <2>3. [moved EXCEPT ![e.section] = done'] \in [Sections -> 0 .. done']
    BY <2>1, <2>2
  <2> QED
    BY <2>2, <2>3, <1>3
<1>10. EditsTypeOK'
  <2>1. preset' \in Seq(PresetLines)
    BY <1>6, WholeIsLines
  <2>2. known' \in [Sections -> HubRepos \union {NoRepo}] /\ made' \in 0 .. MaxEdits
        /\ pending' \in Seq(Edits)
    BY <1>1, <1>2 DEF PresetInv, EditsTypeOK
  <2> QED
    BY <2>1, <2>2, <1>5, <1>8, <1>9 DEF EditsTypeOK
\* A section has the repo it had, or it has just been given one.
<1>11. ASSUME NEW s \in Sections
       PROVE  \/ moved'[s] = done'
              \/ /\ Parsed(preset', s, HfRepo) = Parsed(preset, s, HfRepo)
                 /\ moved'[s] = moved[s]
  <2>1. CASE ~Takes(e)
    BY <2>1, <1>3
  <2>2. CASE Takes(e) /\ s = e.section /\ HfRepo \in DOMAIN e.patch
    BY <2>2, <1>2, <1>3
  <2>3. CASE Takes(e) /\ ~(s = e.section /\ HfRepo \in DOMAIN e.patch)
    <3>1. SameReading(preset, preset', s, HfRepo)
      BY <2>3, <1>3
    <3>2. moved'[s] = moved[s]
      BY <2>3, <1>2, <1>3
    <3> QED
      BY <3>1, <3>2 DEF SameReading
  <2> QED
    BY <2>1, <2>2, <2>3
<1>12. KnownFits'
  <2> SUFFICES ASSUME NEW s \in Sections
               PROVE  known[s] = RepoOf(Parsed(preset', s, HfRepo)) \/ moved'[s] > reported
    BY <1>1 DEF KnownFits, Reported
  <2>1. known[s] = RepoOf(Parsed(preset, s, HfRepo)) \/ moved[s] > reported
    BY DEF PresetInv, KnownFits, Reported
  <2>2. moved'[s] = done' => moved'[s] > reported
    BY <1>1, <1>2
  <2> QED
    BY <2>1, <2>2, <1>11
<1>13. ASSUME NEW f \in Edits, f.from <= reported, TagFits(f, preset, moved)
       PROVE  TagFits(f, preset', moved')
  <2>1. f.section \in Sections /\ f.from \in Nat
    BY <1>2 DEF Edits
  <2>2. moved'[f.section] = done' => moved'[f.section] > f.from
    BY <2>1, <1>13, <1>1, <1>2
  <2>3. \/ moved'[f.section] = done'
        \/ /\ Parsed(preset', f.section, HfRepo) = Parsed(preset, f.section, HfRepo)
           /\ moved'[f.section] = moved[f.section]
    BY <2>1, <1>11
  <2> QED
    BY <2>2, <2>3, <1>13 DEF TagFits
<1>14. EditsFit(batch', preset', moved', reported')
  <2> SUFFICES ASSUME NEW i \in 1 .. Len(batch')
               PROVE  batch'[i].from <= reported /\ TagFits(batch'[i], preset', moved')
    BY <1>1 DEF EditsFit
  <2>1. i + 1 \in 1 .. Len(batch) /\ batch'[i] = batch[i + 1]
    BY <1>5
  <2>2. batch[i + 1] \in Edits
    BY <2>1, <1>2, ElementOfSeq
  <2>3. batch[i + 1].from <= reported /\ TagFits(batch[i + 1], preset, moved)
    BY <2>1 DEF PresetInv, EditsFit
  <2> QED
    BY <2>1, <2>2, <2>3, <1>13
<1>15. EditsFit(pending', preset', moved', reported')
  <2> SUFFICES ASSUME NEW i \in 1 .. Len(pending)
               PROVE  pending[i].from <= reported /\ TagFits(pending[i], preset', moved')
    BY <1>1 DEF EditsFit
  <2>1. pending[i] \in Edits
    BY <1>2, ElementOfSeq
  <2>2. pending[i].from <= reported /\ TagFits(pending[i], preset, moved)
    BY DEF PresetInv, EditsFit
  <2> QED
    BY <2>1, <2>2, <1>13
<1> QED
  BY <1>6, <1>7, <1>10, <1>12, <1>14, <1>15 DEF PresetInv

LEMMA TagPatchIs ==
  ASSUME PresetInv, NEW s \in Sections, NEW t \in QuantTags \union {NoTag}, RepoKnown(s)
  PROVE  /\ TagPatch(<<known[s], t>>) \in Patches
         /\ TagPatch(<<known[s], t>>)[HfRepo][1] = known[s]
<1>1. known[s] \in HubRepos
  BY DEF RepoKnown, PresetInv, EditsTypeOK
<1>2. <<known[s], t>> \in Sources
  BY <1>1 DEF Sources
<1> QED
  BY <1>2 DEF Patches, TagPatch

LEMMA PresetNext ==
  ASSUME PresetInv, [EditsNext]_editVars
  PROVE  PresetInv'
<1>1. ASSUME NEW s \in Sections, NEW patch \in Edited, EditKeys(s, patch)
      PROVE  PresetInv'
  <2>1. patch \in Patches /\ Queue(s, patch, FALSE)
    BY <1>1 DEF EditKeys, Patches
  <2> QED
    BY <2>1, QueueKeeps
<1>2. ASSUME NEW s \in Sections, NEW t \in QuantTags \union {NoTag}, EditTag(s, t)
      PROVE  PresetInv'
  <2>1. RepoKnown(s) /\ Queue(s, TagPatch(<<known[s], t>>), TRUE)
    BY <1>2 DEF EditTag
  <2>2. /\ TagPatch(<<known[s], t>>) \in Patches
        /\ TagPatch(<<known[s], t>>)[HfRepo][1] = known[s]
    BY <2>1, TagPatchIs
  <2> QED
    BY <2>1, <2>2, QueueKeeps
<1>3. CASE Heartbeat
  BY <1>3, HeartbeatKeeps
<1>4. CASE Apply
  BY <1>4, ApplyKeeps
<1>5. CASE UNCHANGED editVars
  BY <1>5 DEF editVars, PresetInv, EditsTypeOK, Counted, KnownFits, Reported
<1> QED
  BY <1>1, <1>2, <1>3, <1>4, <1>5 DEF EditsNext

LEMMA PresetHolds ==
  ASSUME WholeFiles
  PROVE  EditsSpec => []PresetInv
BY PresetInit, PresetNext, PTL DEF EditsSpec

\* The types of the edits on their way, and of the numbers that count them.
THEOREM PresetTypes ==
  ASSUME WholeFiles
  PROVE  EditsSpec => []EditsTypeOK
<1>1. PresetInv => EditsTypeOK
  BY DEF PresetInv
<1> QED
  BY <1>1, PresetHolds, PTL

\* After an edit, ini_get of bin/llm and configparser of preset_json read the same of
\* every key the edit named: patch_lines rewrites all lines of a key, in all parts of
\* a section that is there twice.
THEOREM ReadersDoAgree ==
  ASSUME WholeFiles
  PROVE  EditsSpec => ReadersAgree
<1>1. ASSUME PresetInv, [EditsNext]_editVars
      PROVE  [\A k \in PresetKeys :
                (Apply /\ Takes(Head(batch)) /\ k \in DOMAIN Head(batch).patch) =>
                   LET s == Head(batch).section
                   IN  IniGet(preset', s, k) = Parsed(preset', s, k)]_editVars
  BY <1>1, AppliedIs
<1> QED
  BY <1>1, PresetHolds, PTL DEF EditsSpec, ReadersAgree

\* Comments and headers stay, in their order: patch_lines drops and adds lines of keys
\* only.
THEOREM TextIsKept ==
  ASSUME WholeFiles
  PROVE  EditsSpec => TextKept
<1>1. ASSUME PresetInv, [EditsNext]_editVars
      PROVE  [Unkeyed(preset') = Unkeyed(preset)]_editVars
  <2>1. CASE Apply
    BY <1>1, <2>1, AppliedIs
  <2>2. CASE preset' = preset
    BY <2>2
  <2>3. Apply \/ preset' = preset
    BY <1>1 DEF EditsNext, EditKeys, EditTag, Queue, Heartbeat, editVars
  <2> QED
    BY <2>1, <2>2, <2>3
<1> QED
  BY <1>1, PresetHolds, PTL DEF EditsSpec, TextKept

\* set_preset puts a tag behind the repo of the last heartbeat; when the edit gets to
\* the file the section still has that repo, or an edit made before it has changed it
\* since.
THEOREM TagsKeepRepo ==
  ASSUME WholeFiles
  PROVE  EditsSpec => TagKeepsRepo
<1>1. ASSUME PresetInv, [EditsNext]_editVars
      PROVE  [LET e == Head(batch)
              IN  (Apply /\ Takes(e) /\ e.byTag) =>
                    \/ Reported(e.section) = e.patch[HfRepo][1]
                    \/ moved[e.section] > e.from]_editVars
  <2> SUFFICES ASSUME Apply, Head(batch).byTag
               PROVE  \/ Reported(Head(batch).section) = Head(batch).patch[HfRepo][1]
                      \/ moved[Head(batch).section] > Head(batch).from
    OBVIOUS
  <2>1. batch \in Seq(Edits) /\ batch # <<>>
    BY <1>1 DEF PresetInv, EditsTypeOK, Apply
  <2>2. 1 \in 1 .. Len(batch) /\ Head(batch) = batch[1]
    <3> HIDE DEF Edits
    <3> QED
      BY <2>1
  <2>3. TagFits(Head(batch), preset, moved)
    BY <1>1, <2>2 DEF PresetInv, EditsFit
  <2> QED
    BY <2>3 DEF TagFits, Reported
<1> QED
  BY <1>1, PresetHolds, PTL DEF EditsSpec, TagKeepsRepo

-----------------------------------------------------------------------------
(* The editor implements the store *)

AskedOf(e) == [section |-> e.section, patch |-> Validated(e.patch)]

\* The edits on their way as the store sees them.
LEMMA AskedIs ==
  ASSUME NEW S, NEW q \in Seq(S)
  PROVE  /\ DOMAIN AskedEdits(q) = 1 .. Len(q) /\ Len(AskedEdits(q)) = Len(q)
         /\ AskedEdits(q) \in Seq({AskedOf(e) : e \in S})
         /\ \A i \in 1 .. Len(q) : AskedEdits(q)[i] = AskedOf(q[i])
<1> DEFINE T == {AskedOf(e) : e \in S}
<1>1. DOMAIN q = 1 .. Len(q) /\ Len(q) \in Nat /\ \A i \in 1 .. Len(q) : q[i] \in S
  BY LenProperties, ElementOfSeq
<1>2. AskedEdits(q) = [i \in 1 .. Len(q) |-> AskedOf(q[i])]
  BY <1>1 DEF AskedEdits, AskedOf
<1>3. \A i \in 1 .. Len(q) : AskedOf(q[i]) \in T
  BY <1>1
<1> HIDE DEF T
<1>4. AskedEdits(q) \in [1 .. Len(q) -> T]
  BY <1>2, <1>3
<1>5. AskedEdits(q) \in Seq(T) /\ Len(AskedEdits(q)) = Len(q)
  BY <1>1, <1>4
<1> QED
  BY <1>2, <1>5 DEF T

LEMMA AskedAppend ==
  ASSUME NEW S, NEW q \in Seq(S), NEW e \in S
  PROVE  AskedEdits(Append(q, e)) = Append(AskedEdits(q), AskedOf(e))
<1> DEFINE T == {AskedOf(x) : x \in S}
           r == Append(q, e)
           ar == AskedEdits(r)
           b == Append(AskedEdits(q), AskedOf(e))
<1>1. /\ r \in Seq(S) /\ Len(r) = Len(q) + 1 /\ Len(q) \in Nat /\ r[Len(q) + 1] = e
      /\ \A i \in 1 .. Len(q) : r[i] = q[i]
  OBVIOUS
<1>2. AskedOf(e) \in T
  OBVIOUS
<1> HIDE DEF r, T
<1>3. /\ ar \in Seq(T) /\ Len(ar) = Len(r)
      /\ \A i \in 1 .. Len(r) : ar[i] = AskedOf(r[i])
  BY <1>1, AskedIs DEF T
<1>4. /\ AskedEdits(q) \in Seq(T) /\ Len(AskedEdits(q)) = Len(q)
      /\ \A i \in 1 .. Len(q) : AskedEdits(q)[i] = AskedOf(q[i])
  BY AskedIs DEF T
<1>5. /\ b \in Seq(T) /\ Len(b) = Len(q) + 1 /\ b[Len(q) + 1] = AskedOf(e)
      /\ \A i \in 1 .. Len(q) : b[i] = AskedEdits(q)[i]
  BY <1>2, <1>4
<1> HIDE DEF ar, b
<1>6. \A i \in 1 .. Len(q) + 1 : ar[i] = b[i]
  <2>1. \A i \in 1 .. Len(q) + 1 : i \in 1 .. Len(q) \/ i = Len(q) + 1
    BY <1>1
  <2> QED
    BY <2>1, <1>1, <1>3, <1>4, <1>5
<1>7. ar = b
  BY <1>1, <1>3, <1>5, <1>6, SeqEqual
<1> QED
  BY <1>7 DEF ar, b, r

LEMMA AskedTail ==
  ASSUME NEW S, NEW q \in Seq(S), q # <<>>
  PROVE  /\ AskedEdits(q) # <<>> /\ Head(AskedEdits(q)) = AskedOf(Head(q))
         /\ Tail(AskedEdits(q)) = AskedEdits(Tail(q))
<1> DEFINE T == {AskedOf(x) : x \in S}
           r == Tail(q)
           aq == AskedEdits(q)
           ar == AskedEdits(r)
           b == Tail(aq)
<1>1. /\ r \in Seq(S) /\ Len(r) = Len(q) - 1 /\ Len(q) \in Nat /\ Len(q) > 0
      /\ Head(q) = q[1]
      /\ \A i \in 1 .. Len(r) : r[i] = q[i + 1]
  OBVIOUS
<1> HIDE DEF r, T
<1>2. /\ ar \in Seq(T) /\ Len(ar) = Len(r)
      /\ \A i \in 1 .. Len(r) : ar[i] = AskedOf(r[i])
  BY <1>1, AskedIs DEF T
<1>3. /\ aq \in Seq(T) /\ Len(aq) = Len(q)
      /\ \A i \in 1 .. Len(q) : aq[i] = AskedOf(q[i])
  BY AskedIs DEF T
<1> HIDE DEF aq, ar
<1>4. /\ aq # <<>> /\ Head(aq) = aq[1]
      /\ b \in Seq(T) /\ Len(b) = Len(q) - 1
      /\ \A i \in 1 .. Len(b) : b[i] = aq[i + 1]
  BY <1>1, <1>3
<1> HIDE DEF b
<1>5. \A i \in 1 .. Len(r) : i + 1 \in 1 .. Len(q)
  BY <1>1
<1>6. \A i \in 1 .. Len(b) : ar[i] = b[i]
  BY <1>1, <1>2, <1>3, <1>4, <1>5
<1>7. ar = b
  BY <1>1, <1>2, <1>4, <1>6, SeqEqual
<1>8. 1 \in 1 .. Len(q)
  BY <1>1
<1> QED
  BY <1>1, <1>3, <1>4, <1>7, <1>8 DEF aq, ar, b, r

Conf(lines) == [s \in Sections |-> [k \in PresetKeys |-> IniGet(lines, s, k)]]
Sees(lines) == {s \in Sections : Has(lines, s)}

\* The headers are among the lines that hold no key.
LEMMA HasUnkeyed ==
  ASSUME NEW L, NEW xs \in Seq(L), NEW s
  PROVE  Has(xs, s) <=> Has(Unkeyed(xs), s)
<1> DEFINE l == Len(xs)
           Opens(i) == xs[i].kind = "section" /\ xs[i].name = s
<1>1. l \in Nat /\ DOMAIN xs = 1 .. l /\ \A i \in 1 .. l : xs[i] \in L
  OBVIOUS
<1>2. PICK f : TextUpTo(xs, l, f) /\ Unkeyed(xs) = f[l]
  BY UnkeyedIsLast
<1> HIDE DEF l
<1> DEFINE Good(m) == /\ f[m] \in Seq(L)
                      /\ Has(f[m], s) <=> \E i \in 1 .. m : Opens(i)
           S == {m \in Nat : m <= l => Good(m)}
<1>3. 0 \in S
  <2>1. f[0] = <<>>
    BY <1>2 DEF TextUpTo
  <2>2. ~Has(<<>>, s) /\ <<>> \in Seq(L)
    BY DEF Has
  <2>3. 1 .. 0 = {}
    OBVIOUS
  <2> HIDE DEF Opens
  <2>4. Good(0)
    BY <2>1, <2>2, <2>3
  <2> QED
    BY <2>4
<1>4. ASSUME NEW m \in S PROVE m + 1 \in S
  <2> SUFFICES ASSUME m + 1 <= l PROVE Good(m + 1)
    OBVIOUS
  <2>1. m \in Nat /\ m + 1 \in 1 .. l /\ Good(m) /\ (m + 1) - 1 = m
    BY <1>1
  <2>2. f[m + 1] = WithText(f[m], xs[m + 1]) /\ xs[m + 1] \in L
    BY <1>1, <1>2, <2>1 DEF TextUpTo
  <2>3. (\E i \in 1 .. m + 1 : Opens(i)) <=> (\E i \in 1 .. m : Opens(i)) \/ Opens(m + 1)
    BY <2>1
  <2>4. CASE xs[m + 1].kind = "key"
    BY <2>1, <2>2, <2>3, <2>4 DEF WithText
  <2>5. CASE xs[m + 1].kind # "key"
    <3>1. f[m + 1] = Append(f[m], xs[m + 1])
      BY <2>2, <2>5 DEF WithText
    <3>2. Has(f[m + 1], s) <=> Has(f[m], s) \/ Opens(m + 1)
      BY <2>1, <2>2, <3>1, HasAppend
    <3> QED
      BY <2>1, <2>2, <2>3, <3>1, <3>2
  <2> QED
    BY <2>4, <2>5
<1> HIDE DEF S
<1>5. S = Nat
  BY <1>3, <1>4, NatSetInduction DEF S
<1>6. Good(l)
  BY <1>1, <1>5 DEF S
<1> QED
  BY <1>1, <1>2, <1>6 DEF Has

LEMMA StoreStarts ==
  ASSUME WholeFiles
  PROVE  EditsInit => KeyStore!StoreInit
<1> SUFFICES ASSUME EditsInit PROVE KeyStore!StoreInit
  OBVIOUS
<1>1. preset \in Seq(Whole)
  BY DEF EditsInit, WholeFiles
<1>2. \A s \in Sections : \A k \in PresetKeys : IniGet(preset, s, k) \in Values \union {Unset}
  BY <1>1, ReadingIsValue
<1>3. Conf(preset) \in [Sections -> [PresetKeys -> Values \union {Unset}]]
  BY <1>2 DEF Conf
<1>4. batch \o pending = <<>>
  BY DEF EditsInit
<1>5. AskedEdits(batch \o pending) = <<>>
  BY <1>4 DEF AskedEdits
<1> QED
  BY <1>3, <1>5 DEF KeyStore!StoreInit, Conf, Sees

\* An edit made is asked for, a heartbeat is a stutter, an edit applied is taken or
\* refused.
LEMMA StoreAsks ==
  ASSUME PresetInv, NEW s \in Sections, NEW patch \in Patches, NEW byTag \in BOOLEAN,
         Queue(s, patch, byTag)
  PROVE  KeyStore!Ask(s, Validated(patch))
<1> DEFINE e == [section |-> s, patch |-> patch, byTag |-> byTag, from |-> reported]
<1>1. pending' = Append(pending, e) /\ batch' = batch /\ preset' = preset
  BY DEF Queue
<1>2. batch \in Seq(Edits) /\ pending \in Seq(Edits)
  BY DEF PresetInv, EditsTypeOK
<1>3. e \in Edits
  <2>1. reported \in 0 .. MaxEdits
    BY MaxEditsAssumption DEF PresetInv, EditsTypeOK
  <2> QED
    BY <2>1 DEF Edits
<1>4. AskedOf(e) = [section |-> s, patch |-> Validated(patch)]
  BY DEF AskedOf
<1> HIDE DEF e, Edits
<1>5. /\ batch \o pending \in Seq(Edits)
      /\ batch' \o pending' = Append(batch \o pending, e)
  BY <1>1, <1>2, <1>3
<1>6. AskedEdits(batch' \o pending') = Append(AskedEdits(batch \o pending), AskedOf(e))
  BY <1>3, <1>5, AskedAppend
<1>7. Sees(preset') = Sees(preset)
  BY <1>1 DEF Sees
<1> QED
  BY <1>1, <1>4, <1>6, <1>7 DEF KeyStore!Ask, AskedEdits, Sees

LEMMA StoreApplies ==
  ASSUME PresetInv, Apply
  PROVE  KeyStore!Take \/ KeyStore!Refuse
<1> DEFINE e == Head(batch)
           q == batch \o pending
           a == Head(AskedEdits(q))
<1>1. /\ batch # <<>> /\ batch \in Seq(Edits) /\ pending \in Seq(Edits)
      /\ batch' = Tail(batch) /\ pending' = pending
  BY DEF PresetInv, EditsTypeOK, Apply
<1>2. /\ q \in Seq(Edits) /\ q # <<>> /\ Head(q) = e
      /\ batch' \o pending' = Tail(q)
  <2> HIDE DEF Edits
  <2> QED
    BY <1>1
<1> HIDE DEF q
<1>3. /\ AskedEdits(q) # <<>> /\ a = AskedOf(e)
      /\ AskedEdits(batch' \o pending') = Tail(AskedEdits(q))
  BY <1>2, AskedTail
<1>4. a.section = e.section /\ a.patch = Validated(e.patch)
  BY <1>3 DEF AskedOf
<1>5. /\ e \in Edits /\ IsPatch(e.patch)
      /\ ~Takes(e) => preset' = preset
      /\ Takes(e) =>
           /\ \A t, k : ~(t = e.section /\ k \in DOMAIN e.patch)
                          => SameReading(preset, preset', t, k)
           /\ Unkeyed(preset') = Unkeyed(preset) /\ preset' \in Seq(Whole)
           /\ \A k \in DOMAIN e.patch : IniGet(preset', e.section, k) = Validated(e.patch)[k]
  BY AppliedIs
<1>6. e.section \in Sections
  BY <1>5 DEF Edits
<1> DEFINE good == e.section \in Sees(preset) /\ \A k \in DOMAIN a.patch : a.patch[k] \notin Refused
<1>10. good <=> Takes(e)
  BY <1>4, <1>5, <1>6, ValidatedIs DEF Takes, Valid, Sees
<1>11. DOMAIN a.patch = DOMAIN e.patch
  BY <1>4, <1>5, ValidatedIs
<1>12. Sees(preset') = Sees(preset)
  <2>1. preset \in Seq(Whole)
    BY DEF PresetInv
  <2> QED
    BY <1>5, <2>1, HasUnkeyed DEF Sees
<1> HIDE DEF e, a
<1>7. CASE ~Takes(e)
  <2>1. preset' = preset
    BY <1>5, <1>7
  <2> QED
    BY <2>1, <1>3, <1>4, <1>7, <1>10, <1>12 DEF KeyStore!Refuse, KeyStore!Allowed, q, AskedEdits, Sees, a
<1>8. CASE Takes(e)
  <2> DEFINE after == [Conf(preset) EXCEPT ![e.section] =
                         [k \in PresetKeys |-> IF k \in DOMAIN e.patch THEN a.patch[k]
                                         ELSE @[k]]]
  <2>1. ASSUME NEW t \in Sections, NEW k \in PresetKeys
        PROVE  IniGet(preset', t, k) = after[t][k]
    <3>1. CASE t = e.section /\ k \in DOMAIN e.patch
      BY <3>1, <1>4, <1>5, <1>8 DEF Conf
    <3>2. CASE ~(t = e.section /\ k \in DOMAIN e.patch)
      <4>1. IniGet(preset', t, k) = IniGet(preset, t, k)
        BY <3>2, <1>5, <1>8 DEF SameReading
      <4> QED
        BY <3>2, <4>1 DEF Conf
    <3> QED
      BY <3>1, <3>2
  <2>2. Conf(preset') = after
    <3>1. DOMAIN after = Sections /\ \A t \in Sections : DOMAIN after[t] = PresetKeys
      BY DEF Conf
    <3>2. after = [t \in Sections |-> [k \in PresetKeys |-> after[t][k]]]
      BY DEF Conf
    <3> HIDE DEF after
    <3> QED
      BY <2>1, <3>2 DEF Conf
  <2>3. Conf(preset') = [Conf(preset) EXCEPT ![a.section] =
                         [k \in PresetKeys |-> IF k \in DOMAIN a.patch THEN a.patch[k]
                                         ELSE @[k]]]
    BY <2>2, <1>4, <1>11
  <2> HIDE DEF after
  <2>4. KeyStore!Take
    BY <2>3, <1>3, <1>4, <1>8, <1>10, <1>12 DEF KeyStore!Take, KeyStore!Allowed, Conf, q, a, AskedEdits, Sees
  <2> QED
    BY <2>4
<1> QED
  BY <1>7, <1>8

LEMMA StoreStep ==
  ASSUME PresetInv, [EditsNext]_editVars
  PROVE  [KeyStore!StoreNext]_<<Conf(preset), Sees(preset), AskedEdits(batch \o pending)>>
<1>1. ASSUME NEW s \in Sections, NEW patch \in Edited, EditKeys(s, patch)
      PROVE  KeyStore!StoreNext
  <2>1. patch \in Patches /\ Queue(s, patch, FALSE)
    BY <1>1 DEF EditKeys, Patches
  <2>2. KeyStore!Ask(s, Validated(patch))
    BY <2>1, StoreAsks
  <2> QED
    BY <2>1, <2>2 DEF KeyStore!StoreNext
<1>2. ASSUME NEW s \in Sections, NEW t \in QuantTags \union {NoTag}, EditTag(s, t)
      PROVE  KeyStore!StoreNext
  <2>1. RepoKnown(s) /\ Queue(s, TagPatch(<<known[s], t>>), TRUE)
    BY <1>2 DEF EditTag
  <2>2. TagPatch(<<known[s], t>>) \in Patches
    BY <2>1, TagPatchIs
  <2>3. KeyStore!Ask(s, Validated(TagPatch(<<known[s], t>>)))
    BY <2>1, <2>2, StoreAsks
  <2> QED
    BY <2>2, <2>3 DEF KeyStore!StoreNext
<1>3. CASE Heartbeat
  <2>1. /\ preset' = preset /\ batch = <<>> /\ batch' = pending /\ pending' = <<>>
        /\ pending \in Seq(Edits)
    BY <1>3 DEF Heartbeat, PresetInv, EditsTypeOK
  <2>2. batch \o pending = pending /\ batch' \o pending' = pending
    BY <2>1, ConcatEmptySeq
  <2> QED
    BY <2>1, <2>2 DEF Conf, Sees, AskedEdits
<1>4. CASE Apply
  BY <1>4, StoreApplies DEF KeyStore!StoreNext
<1>5. CASE UNCHANGED editVars
  BY <1>5 DEF editVars, Conf, Sees, AskedEdits
<1> QED
  BY <1>1, <1>2, <1>3, <1>4, <1>5 DEF EditsNext

\* Each step of the editor is a step of PresetStore or changes nothing there: what
\* bin/llm reads of the file changes as a table of keys does, and an edit is without
\* effect only where the store refuses it.
THEOREM EditorImplementsStore ==
  ASSUME WholeFiles
  PROVE  EditsSpec => ImplementsStore
<1>1. ASSUME PresetInv, [EditsNext]_editVars
      PROVE  [KeyStore!StoreNext]_<<[s \in Sections |-> [k \in PresetKeys |-> IniGet(preset, s, k)]],
                                 {s \in Sections : Has(preset, s)},
                                 AskedEdits(batch \o pending)>>
  BY <1>1, StoreStep DEF Conf, Sees
<1> QED
  BY <1>1, StoreStarts, PresetHolds, PTL DEF EditsSpec, ImplementsStore, KeyStore!StoreSpec

=============================================================================
