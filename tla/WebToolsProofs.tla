--------------------------- MODULE WebToolsProofs ---------------------------
(*****************************************************************************)
(* The web tools: that what is extracted of a page is what the page shows,   *)
(* that every result tells the truth about what was read and every request   *)
(* has its reply, and that the proxy passes on all that was said; for all    *)
(* pages, limits and engines, and any number of requests and bytes.          *)
(*****************************************************************************)
EXTENDS WebServer, EgressProxy, FiniteSetTheorems, SequenceTheorems, TLAPS

-----------------------------------------------------------------------------
(* Induction, and the text of a page *)

NatRel == {ss \in Nat \X Nat : ss[1] < ss[2]}

LEMMA NatSetInduction ==
  ASSUME NEW S \in SUBSET Nat, 0 \in S, \A n \in S : n + 1 \in S
  PROVE  S = Nat
<1> SUFFICES ASSUME S # Nat PROVE FALSE
  OBVIOUS
<1>1. IsWellFoundedOn(NatRel, Nat)
  BY NatLessThanWellFounded DEF NatRel, OpToRel
<1>2. PICK m \in Nat \ S : \A k \in Nat \ S : ~(<<k, m>> \in NatRel)
  <2>1. Nat \ S \subseteq Nat /\ Nat \ S # {}
    OBVIOUS
  <2> QED
    BY <2>1, <1>1, WFMin
<1>3. m # 0 /\ m - 1 \in Nat /\ <<m - 1, m>> \in NatRel
  BY DEF NatRel
<1>4. m - 1 \in S
  BY <1>2, <1>3
<1> QED
  BY <1>4, <1>3

-----------------------------------------------------------------------------
(* The state of the extractor after each byte *)

\* After each of the first m bytes.
Runs(bytes, m, f) ==
    /\ f = [n \in 0 .. m |-> f[n]]
    /\ f[0] = NoText
    /\ \A n \in 1 .. m : f[n] = Handle(f[n - 1], bytes[n])

LEMMA RunsExist ==
  ASSUME NEW bytes, NEW m \in Nat
  PROVE  \E f : Runs(bytes, m, f)
<1> DEFINE S == {k \in Nat : \E f : Runs(bytes, k, f)}
<1>1. 0 \in S
  <2>1. Runs(bytes, 0, [n \in 0 .. 0 |-> NoText])
    BY DEF Runs
  <2> QED
    BY <2>1
<1>2. ASSUME NEW k \in S PROVE k + 1 \in S
  <2>1. PICK f : Runs(bytes, k, f)
    OBVIOUS
  <2> DEFINE g == [n \in 0 .. k + 1 |->
                     IF n <= k THEN f[n] ELSE Handle(f[k], bytes[k + 1])]
  <2>2. k \in Nat /\ k + 1 \in Nat
    OBVIOUS
  <2>3. g = [n \in 0 .. k + 1 |-> g[n]] /\ g[0] = NoText
    BY <2>1, <2>2 DEF Runs
  <2>4. ASSUME NEW n \in 1 .. k + 1 PROVE g[n] = Handle(g[n - 1], bytes[n])
    <3>1. CASE n <= k
      <4>1. n \in 1 .. k /\ n \in 0 .. k + 1 /\ n - 1 \in 0 .. k + 1 /\ n - 1 <= k
        BY <3>1, <2>2
      <4>2. g[n] = f[n] /\ g[n - 1] = f[n - 1]
        BY <4>1, <3>1
      <4> HIDE DEF g
      <4> QED
        BY <4>1, <4>2, <2>1 DEF Runs
    <3>2. CASE n = k + 1
      <4>1. n \in 0 .. k + 1 /\ ~(n <= k) /\ k \in 0 .. k + 1 /\ n - 1 = k
        BY <3>2, <2>2
      <4>2. g[n] = Handle(f[k], bytes[k + 1]) /\ g[k] = f[k]
        BY <4>1
      <4> HIDE DEF g
      <4> QED
        BY <4>1, <4>2, <3>2
    <3> QED
      BY <3>1, <3>2, <2>2
  <2> HIDE DEF g
  <2>5. Runs(bytes, k + 1, g)
    BY <2>3, <2>4 DEF Runs
  <2> QED
    BY <2>2, <2>5
<1> HIDE DEF S
<1>3. S = Nat
  BY <1>1, <1>2, NatSetInduction DEF S
<1> QED
  BY <1>3 DEF S

LEMMA TextInIsLast ==
  ASSUME NEW B, NEW bytes \in Seq(B)
  PROVE  \E f : Runs(bytes, Len(bytes), f) /\ TextIn(bytes) = f[Len(bytes)].out
<1> DEFINE m == Len(bytes)
           Body(f) == [n \in 0 .. m |->
                         IF n = 0 THEN NoText ELSE Handle(f[n - 1], bytes[n])]
           after == CHOOSE f : f = Body(f)
<1>1. m \in Nat
  OBVIOUS
<1>2. PICK f : Runs(bytes, m, f)
  BY <1>1, RunsExist
<1>3. f = Body(f)
  <2>1. \A n \in 0 .. m : f[n] = IF n = 0 THEN NoText ELSE Handle(f[n - 1], bytes[n])
    <3> HIDE DEF m
    <3>1. ASSUME NEW n \in 0 .. m
          PROVE  f[n] = IF n = 0 THEN NoText ELSE Handle(f[n - 1], bytes[n])
      <4>1. n = 0 \/ n \in 1 .. m
        BY <1>1
      <4> QED
        BY <4>1, <1>2 DEF Runs
    <3> QED
      BY <3>1
  <2>2. f = [n \in 0 .. m |-> f[n]]
    BY <1>2 DEF Runs
  <2> HIDE DEF m
  <2> QED
    BY <2>1, <2>2
<1>4. after = Body(after)
  BY <1>3
<1>5. TextIn(bytes) = after[m].out
  BY DEF TextIn
<1> HIDE DEF after
<1>6. Runs(bytes, m, after)
  <2> HIDE DEF m
  <2>1. after = [n \in 0 .. m |-> after[n]]
    BY <1>4
  <2>2. after[0] = NoText
    BY <1>1, <1>4
  <2>3. \A n \in 1 .. m : after[n] = Handle(after[n - 1], bytes[n])
    BY <1>1, <1>4
  <2> QED
    BY <2>1, <2>2, <2>3 DEF Runs
<1> QED
  BY <1>5, <1>6

-----------------------------------------------------------------------------
(* Elements to skip and titles *)

LEMMA CountStep ==
  ASSUME NEW bytes, NEW m \in Nat, NEW j \in 1 .. m + 1, NEW byte
  PROVE  /\ CountOf(bytes, j, m, byte) \in Nat
         /\ CountOf(bytes, j, m + 1, byte) =
              CountOf(bytes, j, m, byte) + (IF bytes[m + 1] = byte THEN 1 ELSE 0)
<1> DEFINE S == {k \in j .. m : bytes[k] = byte}
           T == {k \in j .. m + 1 : bytes[k] = byte}
<1>1. IsFiniteSet(S)
  <2>1. IsFiniteSet(j .. m) /\ S \subseteq j .. m
    BY FS_Interval
  <2> QED
    BY <2>1, FS_Subset
<1>2. Cardinality(S) \in Nat
  BY <1>1, FS_CardinalityType
<1>3. Cardinality(T) = Cardinality(S) + (IF bytes[m + 1] = byte THEN 1 ELSE 0)
  <2>1. CASE bytes[m + 1] = byte
    <3>1. T = S \union {m + 1} /\ m + 1 \notin S
      BY <2>1
    <3> HIDE DEF S, T
    <3>2. Cardinality(T) = Cardinality(S) + 1
      BY <3>1, <1>1, FS_AddElement
    <3> QED
      BY <3>2, <2>1
  <2>2. CASE bytes[m + 1] # byte
    <3>1. T = S
      BY <2>2
    <3> HIDE DEF S, T
    <3> QED
      BY <3>1, <2>2, <1>2
  <2> QED
    BY <2>1, <2>2
<1> HIDE DEF S, T
<1>4. CountOf(bytes, j, m, byte) = Cardinality(S)
  BY DEF CountOf, S
<1>5. CountOf(bytes, j, m + 1, byte) = Cardinality(T)
  BY DEF CountOf, T
<1> QED
  BY <1>2, <1>3, <1>4, <1>5

LEMMA CountNone ==
  ASSUME NEW bytes, NEW m \in Nat, NEW byte
  PROVE  CountOf(bytes, m + 1, m, byte) = 0
<1>1. {k \in m + 1 .. m : bytes[k] = byte} = {}
  OBVIOUS
<1> QED
  BY <1>1, FS_EmptySet DEF CountOf

\* skip is the most elements that are open since any byte.
SkipIs(bytes, m, skip) ==
    /\ skip \in Nat
    /\ \A j \in 1 .. m + 1 :
          CountOf(bytes, j, m, "open") <= skip + CountOf(bytes, j, m, "close")
    /\ \E j \in 1 .. m + 1 :
          CountOf(bytes, j, m, "open") = skip + CountOf(bytes, j, m, "close")

LEMMA SkipStart ==
  ASSUME NEW bytes
  PROVE  SkipIs(bytes, 0, 0)
<1>1. CountOf(bytes, 0 + 1, 0, "open") = 0 /\ CountOf(bytes, 0 + 1, 0, "close") = 0
  BY CountNone
<1>2. \A j \in 1 .. 0 + 1 : j = 0 + 1
  OBVIOUS
<1>3. 0 + 1 \in 1 .. 0 + 1
  OBVIOUS
<1> QED
  BY <1>1, <1>2, <1>3 DEF SkipIs

LEMMA SkipStep ==
  ASSUME NEW bytes, NEW m \in Nat, NEW x, SkipIs(bytes, m, x.skip)
  PROVE  SkipIs(bytes, m + 1, Skips(x, bytes[m + 1]))
<1> DEFINE skip == x.skip
           byte == bytes[m + 1]
           next == Skips(x, byte)
           o(j, n) == CountOf(bytes, j, n, "open")
           c(j, n) == CountOf(bytes, j, n, "close")
<1>1. \A j \in 1 .. m + 1 :
        /\ o(j, m) \in Nat /\ c(j, m) \in Nat
        /\ o(j, m + 1) = o(j, m) + (IF byte = "open" THEN 1 ELSE 0)
        /\ c(j, m + 1) = c(j, m) + (IF byte = "close" THEN 1 ELSE 0)
  BY CountStep
<1>2. o(m + 2, m + 1) = 0 /\ c(m + 2, m + 1) = 0
  <2>1. m + 1 \in Nat /\ m + 2 = (m + 1) + 1
    OBVIOUS
  <2> QED
    BY <2>1, CountNone
<1>3. skip \in Nat /\ \A j \in 1 .. m + 1 : o(j, m) <= skip + c(j, m)
  BY DEF SkipIs
<1>4. PICK w \in 1 .. m + 1 : o(w, m) = skip + c(w, m)
  BY DEF SkipIs
<1>5. next = IF byte = "open" THEN skip + 1
             ELSE IF byte = "close" /\ skip > 0 THEN skip - 1 ELSE skip
  BY DEF Skips
<1> HIDE DEF skip, byte, next, o, c
<1>6. next \in Nat
  BY <1>3, <1>5
<1>7. ASSUME NEW j \in 1 .. m + 2 PROVE o(j, m + 1) <= next + c(j, m + 1)
  <2>1. CASE j \in 1 .. m + 1
    <3>1. o(j, m) \in Nat /\ c(j, m) \in Nat /\ o(j, m) <= skip + c(j, m)
      BY <2>1, <1>1, <1>3
    <3>2. /\ o(j, m + 1) = o(j, m) + (IF byte = "open" THEN 1 ELSE 0)
          /\ c(j, m + 1) = c(j, m) + (IF byte = "close" THEN 1 ELSE 0)
      BY <2>1, <1>1
    <3> QED
      BY <3>1, <3>2, <1>3, <1>5
  <2>2. CASE j = m + 2
    BY <2>2, <1>2, <1>6
  <2> QED
    BY <2>1, <2>2
<1>8. \E j \in 1 .. m + 2 : o(j, m + 1) = next + c(j, m + 1)
  <2>1. /\ o(w, m) \in Nat /\ c(w, m) \in Nat
        /\ o(w, m + 1) = o(w, m) + (IF byte = "open" THEN 1 ELSE 0)
        /\ c(w, m + 1) = c(w, m) + (IF byte = "close" THEN 1 ELSE 0)
        /\ w \in 1 .. m + 2
    BY <1>1
  <2>2. CASE byte = "close" /\ skip = 0
    <3>1. next = 0
      BY <2>2, <1>5
    <3>2. m + 2 \in 1 .. m + 2
      OBVIOUS
    <3> QED
      BY <3>1, <3>2, <1>2
  <2>3. CASE ~(byte = "close" /\ skip = 0)
    <3>1. o(w, m + 1) = next + c(w, m + 1)
      BY <2>1, <2>3, <1>3, <1>4, <1>5
    <3> QED
      BY <2>1, <3>1
  <2> QED
    BY <2>2, <2>3
<1>9. (m + 1) + 1 = m + 2
  OBVIOUS
<1> QED
  BY <1>6, <1>7, <1>8, <1>9 DEF SkipIs, next, o, c, byte

LEMMA SkipHides ==
  ASSUME NEW bytes, NEW m \in Nat, NEW skip, SkipIs(bytes, m, skip)
  PROVE  HiddenAt(bytes, m) <=> skip > 0
<1> DEFINE o(j) == CountOf(bytes, j, m, "open")
           c(j) == CountOf(bytes, j, m, "close")
<1>1. \A j \in 1 .. m + 1 : o(j) \in Nat /\ c(j) \in Nat
  BY CountStep
<1>2. o(m + 1) = 0 /\ c(m + 1) = 0
  BY CountNone
<1>3. /\ skip \in Nat /\ \A j \in 1 .. m + 1 : o(j) <= skip + c(j)
      /\ \E j \in 1 .. m + 1 : o(j) = skip + c(j)
  BY DEF SkipIs
<1>4. HiddenAt(bytes, m) <=> \E j \in 1 .. m : o(j) > c(j)
  BY DEF HiddenAt
<1> HIDE DEF o, c
<1>5. ASSUME NEW j \in 1 .. m, o(j) > c(j) PROVE skip > 0
  <2>1. j \in 1 .. m + 1
    OBVIOUS
  <2>2. o(j) \in Nat /\ c(j) \in Nat /\ o(j) <= skip + c(j)
    BY <2>1, <1>1, <1>3
  <2> QED
    BY <2>2, <1>3, <1>5
<1>6. ASSUME skip > 0 PROVE \E j \in 1 .. m : o(j) > c(j)
  <2>1. PICK j \in 1 .. m + 1 : o(j) = skip + c(j)
    BY <1>3
  <2>2. o(j) > c(j) /\ j # m + 1
    BY <2>1, <1>1, <1>2, <1>3, <1>6
  <2>3. j \in 1 .. m
    BY <2>2
  <2> QED
    BY <2>2, <2>3
<1> QED
  BY <1>4, <1>5, <1>6

LEMMA TitleStep ==
  ASSUME NEW bytes, NEW m \in Nat
  PROVE  TitleAt(bytes, m + 1) <=>
           (bytes[m + 1] = "title" \/ (TitleAt(bytes, m) /\ bytes[m + 1] # "/title"))
<1>1. ASSUME NEW j \in 1 .. m + 1, bytes[j] = "title",
             \A k \in j .. m + 1 : bytes[k] # "/title"
      PROVE  bytes[m + 1] = "title" \/ (TitleAt(bytes, m) /\ bytes[m + 1] # "/title")
  <2>1. CASE j = m + 1
    BY <1>1, <2>1
  <2>2. CASE j # m + 1
    <3>1. j \in 1 .. m /\ m + 1 \in j .. m + 1 /\ \A k \in j .. m : k \in j .. m + 1
      BY <2>2
    <3> QED
      BY <1>1, <3>1 DEF TitleAt
  <2> QED
    BY <2>1, <2>2
<1>2. ASSUME bytes[m + 1] = "title" PROVE TitleAt(bytes, m + 1)
  <2>1. m + 1 \in 1 .. m + 1 /\ \A k \in m + 1 .. m + 1 : k = m + 1
    OBVIOUS
  <2> QED
    BY <1>2, <2>1 DEF TitleAt
<1>3. ASSUME NEW j \in 1 .. m, bytes[j] = "title", \A k \in j .. m : bytes[k] # "/title",
             bytes[m + 1] # "/title"
      PROVE  TitleAt(bytes, m + 1)
  <2>1. j \in 1 .. m + 1 /\ \A k \in j .. m + 1 : k \in j .. m \/ k = m + 1
    OBVIOUS
  <2> QED
    BY <1>3, <2>1 DEF TitleAt
<1> QED
  BY <1>1, <1>2, <1>3 DEF TitleAt

-----------------------------------------------------------------------------
(* The bytes that are shown *)

\* Of the first m.
ShownTo(bytes, m) ==
    {i \in 1 .. m : bytes[i] \notin Tags /\ ~HiddenAt(bytes, i) /\ ~TitleAt(bytes, i)}

LEMMA ShownFinite ==
  ASSUME NEW S, NEW m \in Nat, S \subseteq 1 .. m
  PROVE  /\ IsFiniteSet(S) /\ Cardinality(S) \in Nat
         /\ \A i \in S : /\ Rank(S, i) \in Nat
                         /\ 1 <= Rank(S, i) /\ Rank(S, i) <= Cardinality(S)
<1>1. IsFiniteSet(S) /\ Cardinality(S) \in Nat
  <2>1. 1 \in Int /\ m \in Int
    OBVIOUS
  <2>2. IsFiniteSet(1 .. m)
    BY <2>1, FS_Interval
  <2>3. IsFiniteSet(S)
    BY <2>2, FS_Subset
  <2> QED
    BY <2>3, FS_CardinalityType
<1>2. ASSUME NEW i \in S
      PROVE  Rank(S, i) \in Nat /\ 1 <= Rank(S, i) /\ Rank(S, i) <= Cardinality(S)
  <2> DEFINE T == {j \in S : j <= i}
  <2>1. T \subseteq S /\ i \in T
    OBVIOUS
  <2>2. Rank(S, i) = Cardinality(T)
    BY DEF Rank
  <2> HIDE DEF T
  <2>3. IsFiniteSet(T) /\ Cardinality(T) \in Nat /\ Cardinality(T) <= Cardinality(S)
    BY <1>1, <2>1, FS_Subset, FS_CardinalityType
  <2>4. Cardinality(T) # 0
    BY <2>1, <2>3, FS_EmptySet
  <2> QED
    BY <2>2, <2>3, <2>4
<1> QED
  BY <1>1, <1>2

\* One more, greater than the others.
LEMMA RankOfMore ==
  ASSUME NEW S, NEW m \in Nat, S \subseteq 1 .. m
  PROVE  /\ Cardinality(S \union {m + 1}) = Cardinality(S) + 1
         /\ Rank(S \union {m + 1}, m + 1) = Cardinality(S) + 1
         /\ \A i \in S : Rank(S \union {m + 1}, i) = Rank(S, i)
<1> DEFINE T == S \union {m + 1}
<1>1. IsFiniteSet(S)
  BY ShownFinite
<1>2. Cardinality(T) = Cardinality(S) + 1
  <2>1. m + 1 \notin S
    OBVIOUS
  <2> DEFINE e == m + 1
  <2> HIDE DEF e
  <2>2. Cardinality(S \union {e}) = Cardinality(S) + 1
    <3>1. e \notin S
      BY <2>1 DEF e
    <3>2. Cardinality(S \union {e}) =
            IF e \in S THEN Cardinality(S) ELSE Cardinality(S) + 1
      BY <1>1, FS_AddElement, Zenon
    <3> QED
      BY <3>1, <3>2, Zenon
  <2>3. T = S \union {e}
    BY DEF e
  <2> HIDE DEF T
  <2> QED
    BY <2>2, <2>3
<1>3. {j \in T : j <= m + 1} = T
  <2>1. \A j \in T : j <= m + 1
    OBVIOUS
  <2> HIDE DEF T
  <2> QED
    BY <2>1
<1>4. ASSUME NEW i \in S PROVE {j \in T : j <= i} = {j \in S : j <= i}
  OBVIOUS
<1>5. Rank(T, m + 1) = Cardinality(T)
  BY <1>3 DEF Rank
<1>6. \A i \in S : Rank(T, i) = Rank(S, i)
  BY <1>4 DEF Rank
<1> QED
  BY <1>2, <1>5, <1>6

\* What TextExtractor has after the first m bytes.
TextIs(B, bytes, m, x) ==
    /\ SkipIs(bytes, m, x.skip)
    /\ x.inTitle \in BOOLEAN /\ (x.inTitle <=> TitleAt(bytes, m))
    /\ x.out \in Seq(B)
    /\ Len(x.out) = Cardinality(ShownTo(bytes, m))
    /\ \A i \in ShownTo(bytes, m) : x.out[Rank(ShownTo(bytes, m), i)] = bytes[i]

LEMMA TextStart ==
  ASSUME NEW B, NEW bytes
  PROVE  TextIs(B, bytes, 0, NoText)
<1>1. ShownTo(bytes, 0) = {} /\ ~TitleAt(bytes, 0)
  BY DEF ShownTo, TitleAt
<1>2. /\ NoText.skip = 0 /\ NoText.inTitle = FALSE
      /\ NoText.out \in Seq(B) /\ Len(NoText.out) = 0
  BY DEF NoText
<1>3. SkipIs(bytes, 0, NoText.skip)
  BY <1>2, SkipStart
<1> QED
  BY <1>1, <1>2, <1>3, FS_EmptySet DEF TextIs

LEMMA TextStep ==
  ASSUME NEW B, NEW bytes, NEW m \in Nat, bytes[m + 1] \in B, NEW x,
         TextIs(B, bytes, m, x)
  PROVE  TextIs(B, bytes, m + 1, Handle(x, bytes[m + 1]))
<1> DEFINE byte == bytes[m + 1]
           y == Handle(x, byte)
           S == ShownTo(bytes, m)
           T == ShownTo(bytes, m + 1)
<1>1. /\ SkipIs(bytes, m, x.skip)
      /\ x.inTitle \in BOOLEAN /\ (x.inTitle <=> TitleAt(bytes, m))
      /\ x.out \in Seq(B) /\ Len(x.out) = Cardinality(S)
      /\ \A i \in S : x.out[Rank(S, i)] = bytes[i]
  BY DEF TextIs
<1>2. /\ y.skip = Skips(x, byte)
      /\ y.inTitle = (byte = "title" \/ (x.inTitle /\ byte # "/title"))
      /\ y.out = IF byte \in Tags \/ x.inTitle \/ x.skip > 0 THEN x.out
                 ELSE Append(x.out, byte)
  BY DEF Handle
<1> HIDE DEF y
<1>3. SkipIs(bytes, m + 1, y.skip)
  BY <1>1, <1>2, SkipStep
<1>4. y.inTitle \in BOOLEAN /\ (y.inTitle <=> TitleAt(bytes, m + 1))
  BY <1>1, <1>2, TitleStep
<1>5. S \subseteq 1 .. m /\ m + 1 \notin S
  BY DEF ShownTo
<1>6. ASSUME NEW i \in 1 .. m + 1 PROVE i \in T <=> i \in S \/ (i = m + 1 /\ m + 1 \in T)
  BY DEF ShownTo
<1>7. m + 1 \in T <=> byte \notin Tags /\ ~(x.inTitle) /\ ~(x.skip > 0)
  <2>1. m + 1 \in T <=>
          byte \notin Tags /\ ~HiddenAt(bytes, m + 1) /\ ~TitleAt(bytes, m + 1)
    BY DEF ShownTo
  <2>2. HiddenAt(bytes, m + 1) <=> y.skip > 0
    <3>1. m + 1 \in Nat
      OBVIOUS
    <3> QED
      BY <1>3, <3>1, SkipHides
  <2>3. ASSUME byte \notin Tags PROVE y.skip = x.skip /\ (y.inTitle <=> x.inTitle)
    BY <1>2, <2>3 DEF Tags, Skips
  <2> QED
    BY <2>1, <2>2, <2>3, <1>4
<1>8. T \subseteq 1 .. m + 1
  BY DEF ShownTo
<1> HIDE DEF S, T
<1>9. /\ y.out \in Seq(B) /\ Len(y.out) = Cardinality(T)
      /\ \A i \in T : y.out[Rank(T, i)] = bytes[i]
  <2>1. CASE m + 1 \notin T
    <3>1. T = S
      <4>1. S \subseteq 1 .. m + 1
        BY <1>5
      <4> QED
        BY <4>1, <2>1, <1>6, <1>8
    <3>2. y.out = x.out
      BY <2>1, <1>2, <1>7
    <3> QED
      BY <3>1, <3>2, <1>1
  <2>2. CASE m + 1 \in T
    <3>1. T = S \union {m + 1}
      <4>1. S \subseteq 1 .. m + 1 /\ m + 1 \in 1 .. m + 1
        BY <1>5
      <4> QED
        BY <4>1, <2>2, <1>6, <1>8
    <3>2. /\ Cardinality(T) = Cardinality(S) + 1
          /\ Rank(T, m + 1) = Cardinality(S) + 1
          /\ \A i \in S : Rank(T, i) = Rank(S, i)
      BY <3>1, <1>5, RankOfMore
    <3>3. /\ Cardinality(S) \in Nat
          /\ \A i \in S : Rank(S, i) \in 1 .. Cardinality(S)
      <4>1. \A i \in S : Rank(S, i) \in Nat /\ 1 <= Rank(S, i) /\ Rank(S, i) <= Cardinality(S)
        BY <1>5, ShownFinite
      <4>2. Cardinality(S) \in Nat
        BY <1>5, ShownFinite
      <4> QED
        BY <4>1, <4>2
    <3>4. y.out = Append(x.out, byte)
      BY <2>2, <1>2, <1>7
    <3>5. /\ y.out \in Seq(B) /\ Len(y.out) = Cardinality(S) + 1
          /\ y.out[Cardinality(S) + 1] = byte
          /\ \A n \in 1 .. Cardinality(S) : y.out[n] = x.out[n]
      BY <3>3, <3>4, <1>1
    <3>6. ASSUME NEW i \in T PROVE y.out[Rank(T, i)] = bytes[i]
      <4>1. CASE i \in S
        BY <4>1, <3>2, <3>3, <3>5, <1>1
      <4>2. CASE i = m + 1
        BY <4>2, <3>2, <3>5
      <4> QED
        BY <4>1, <4>2, <3>1
    <3> QED
      BY <3>2, <3>5, <3>6
  <2> QED
    BY <2>1, <2>2
<1> QED
  BY <1>3, <1>4, <1>9 DEF TextIs, y, S, T

\* The text of a page is what is shown of it, in order.
LEMMA TextInIsShown ==
  ASSUME NEW B, NEW bytes \in Seq(B)
  PROVE  /\ TextIn(bytes) \in Seq(B)
         /\ Len(TextIn(bytes)) = Cardinality(ShownTo(bytes, Len(bytes)))
         /\ \A i \in ShownTo(bytes, Len(bytes)) :
               TextIn(bytes)[Rank(ShownTo(bytes, Len(bytes)), i)] = bytes[i]
<1> DEFINE m == Len(bytes)
<1>1. PICK f : Runs(bytes, m, f) /\ TextIn(bytes) = f[m].out
  BY TextInIsLast
<1> DEFINE S == {n \in Nat : n <= m => TextIs(B, bytes, n, f[n])}
<1>2. m \in Nat /\ \A n \in 1 .. m : bytes[n] \in B
  OBVIOUS
<1> HIDE DEF m
<1>3. 0 \in S
  BY <1>1, TextStart DEF Runs
<1>4. ASSUME NEW n \in S PROVE n + 1 \in S
  <2> SUFFICES ASSUME n + 1 <= m PROVE TextIs(B, bytes, n + 1, f[n + 1])
    OBVIOUS
  <2>1. n \in Nat /\ n + 1 \in 1 .. m /\ n <= m /\ (n + 1) - 1 = n
    BY <1>2
  <2>2. TextIs(B, bytes, n, f[n])
    BY <2>1
  <2>3. f[n + 1] = Handle(f[n], bytes[n + 1])
    BY <2>1, <1>1 DEF Runs
  <2> HIDE DEF S
  <2> QED
    BY <2>1, <2>2, <2>3, <1>2, TextStep
<1> HIDE DEF S
<1>5. S = Nat
  BY <1>3, <1>4, NatSetInduction DEF S
<1>6. TextIs(B, bytes, m, f[m])
  BY <1>5, <1>2 DEF S
<1> QED
  BY <1>1, <1>6 DEF TextIs, m

-----------------------------------------------------------------------------
(* What is shown of a page that was read in part *)

StartsAs(raw, bytes) ==
    /\ Len(raw) <= Len(bytes)
    /\ \A i \in 1 .. Len(raw) : raw[i] = bytes[i]

\* Whether a byte is shown depends on what comes before it only.
LEMMA ShownOfStart ==
  ASSUME NEW B, NEW bytes \in Seq(B), NEW raw \in Seq(B), StartsAs(raw, bytes)
  PROVE  ShownTo(raw, Len(raw)) = {i \in ShownTo(bytes, Len(bytes)) : i <= Len(raw)}
<1> DEFINE m == Len(raw)
<1>1. m \in Nat /\ Len(bytes) \in Nat /\ m <= Len(bytes) /\ \A i \in 1 .. m : raw[i] = bytes[i]
  BY DEF StartsAs
<1> HIDE DEF m
<1>2. ASSUME NEW i \in 1 .. m
      PROVE  (HiddenAt(raw, i) <=> HiddenAt(bytes, i)) /\ (TitleAt(raw, i) <=> TitleAt(bytes, i))
  <2>1. ASSUME NEW j \in 1 .. i, NEW byte
        PROVE  CountOf(raw, j, i, byte) = CountOf(bytes, j, i, byte)
    <3>1. \A k \in j .. i : raw[k] = bytes[k]
      BY <1>1
    <3>2. {k \in j .. i : raw[k] = byte} = {k \in j .. i : bytes[k] = byte}
      BY <3>1
    <3> QED
      BY <3>2 DEF CountOf
  <2>2. HiddenAt(raw, i) <=> HiddenAt(bytes, i)
    BY <2>1 DEF HiddenAt
  <2>3. TitleAt(raw, i) <=> TitleAt(bytes, i)
    <3>1. \A j \in 1 .. i : raw[j] = bytes[j] /\ \A k \in j .. i : raw[k] = bytes[k]
      BY <1>1
    <3> QED
      BY <3>1 DEF TitleAt
  <2> QED
    BY <2>2, <2>3
<1>3. ShownTo(raw, m) \subseteq 1 .. m /\ ShownTo(bytes, Len(bytes)) \subseteq 1 .. Len(bytes)
  BY DEF ShownTo
<1>4. \A i \in 1 .. m : i \in ShownTo(raw, m) <=> i \in ShownTo(bytes, Len(bytes))
  BY <1>1, <1>2 DEF ShownTo
<1> QED
  BY <1>1, <1>3, <1>4 DEF m

\* A text is spelt by those of the places of S that are in the first m bytes; it is the
\* beginning of what the places of S spell.
Spelt(text, S, m, bytes) ==
    LET M == {i \in S : i <= m}
    IN  /\ Len(text) = Cardinality(M)
        /\ \A i \in M : text[Rank(M, i)] = bytes[i]
Begins(text, S, bytes) ==
    /\ Len(text) <= Cardinality(S)
    /\ \A i \in S : Rank(S, i) <= Len(text) => text[Rank(S, i)] = bytes[i]

\* A text that spells the first places of S, cut anywhere, is a beginning of what S spells.
LEMMA CutOfShown ==
  ASSUME NEW B, NEW S, NEW n \in Nat, S \subseteq 1 .. n, NEW bytes, NEW m \in Nat,
         NEW e \in Seq(B), Spelt(e, S, m, bytes), NEW most \in Nat
  PROVE  Begins(Cut(e, most), S, bytes)
<1> DEFINE M == {i \in S : i <= m}
           t == Cut(e, most)
<1>1. t \in Seq(B) /\ Len(t) <= Len(e) /\ \A k \in 1 .. Len(t) : t[k] = e[k]
  <2>1. CASE Len(e) > most
    <3>1. t = SubSeq(e, 1, most)
      BY <2>1 DEF Cut
    <3>2. most <= Len(e) /\ Len(e) \in Nat
      BY <2>1
    <3> HIDE DEF t
    <3> QED
      BY <3>1, <3>2
  <2>2. CASE ~(Len(e) > most)
    <3>1. t = e
      BY <2>2 DEF Cut
    <3> HIDE DEF t
    <3> QED
      BY <3>1
  <2> QED
    BY <2>1, <2>2
<1>2. /\ IsFiniteSet(S) /\ Cardinality(S) \in Nat
      /\ \A i \in S : Rank(S, i) \in Nat /\ 1 <= Rank(S, i)
  BY ShownFinite
<1>3. IsFiniteSet(M) /\ Cardinality(M) \in Nat /\ Cardinality(M) <= Cardinality(S)
  <2>1. M \subseteq S
    OBVIOUS
  <2> HIDE DEF M
  <2> QED
    BY <1>2, <2>1, FS_Subset, FS_CardinalityType
<1>4. Len(e) = Cardinality(M) /\ \A i \in M : e[Rank(M, i)] = bytes[i]
  BY DEF Spelt
<1>5. ASSUME NEW i \in S, i <= m PROVE i \in M /\ Rank(S, i) = Rank(M, i)
  <2>1. \A j \in S : j <= i => j <= m
    BY <1>5
  <2>2. {j \in S : j <= i} = {j \in M : j <= i}
    BY <2>1
  <2> QED
    BY <1>5, <2>2 DEF Rank
<1>6. ASSUME NEW i \in S, i > m PROVE Rank(S, i) > Cardinality(M)
  <2> DEFINE R == {j \in S : j <= i}
             N == M \union {i}
  <2>1. R \subseteq S /\ N \subseteq R /\ i \notin M
    <3>1. i \in Nat /\ ~(i <= m) /\ i <= i /\ \A j \in S : j <= m => j <= i
      BY <1>6
    <3> QED
      BY <3>1
  <2>2. Rank(S, i) = Cardinality(R)
    BY DEF Rank
  <2> HIDE DEF R, M
  <2>3. Cardinality(N) = Cardinality(M) + 1
    BY <1>3, <2>1, FS_AddElement
  <2> HIDE DEF N
  <2>4. Cardinality(N) <= Cardinality(R) /\ Cardinality(R) \in Nat
    BY <1>2, <2>1, FS_Subset, FS_CardinalityType
  <2> QED
    BY <1>3, <2>2, <2>3, <2>4
<1> HIDE DEF M, t
<1>7. ASSUME NEW i \in S, Rank(S, i) <= Len(t) PROVE t[Rank(S, i)] = bytes[i]
  <2>0. Len(t) \in Nat /\ Len(e) \in Nat
    BY <1>1
  <2>1. i \in 1 .. n
    OBVIOUS
  <2>2. i <= m
    BY <1>1, <1>2, <1>3, <1>4, <1>6, <1>7, <2>0, <2>1
  <2>3. Rank(S, i) \in 1 .. Len(t)
    BY <1>2, <1>7, <2>0
  <2> QED
    BY <1>1, <1>4, <1>5, <2>2, <2>3
<1>8. Len(t) <= Cardinality(S)
  BY <1>1, <1>2, <1>3, <1>4
<1> QED
  BY <1>7, <1>8 DEF t, Begins

\* What fetch makes of the bytes it has.
TextOf(page, raw) == IF page.html THEN Extracted(raw) ELSE raw

LEMMA RankOfAll ==
  ASSUME NEW n \in Nat, NEW i \in 1 .. n
  PROVE  Rank(1 .. n, i) = i
<1>1. {j \in 1 .. n : j <= i} = 1 .. i
  OBVIOUS
<1>2. Cardinality(1 .. i) = i
  BY FS_Interval
<1> QED
  BY <1>1, <1>2 DEF Rank

\* What feed() hands over is the beginning of what it is given.
LEMMA HandedStarts ==
  ASSUME NEW B, NEW bytes \in Seq(B)
  PROVE  Handed(bytes) \in Seq(B) /\ StartsAs(Handed(bytes), bytes)
<1> DEFINE H == {i \in DOMAIN bytes : ~Waiting(bytes, i)}
           n == Len(bytes)
           k == Cardinality(H)
<1>1. n \in Nat /\ H \subseteq 1 .. n
  OBVIOUS
<1>2. k \in Nat /\ k <= n
  <2> HIDE DEF n, H
  <2>1. IsFiniteSet(1 .. n) /\ Cardinality(1 .. n) = IF 1 > n THEN 0 ELSE n - 1 + 1
    BY <1>1, FS_Interval
  <2>2. k \in Nat /\ k <= Cardinality(1 .. n)
    BY <1>1, <2>1, FS_Subset, FS_CardinalityType
  <2> QED
    BY <1>1, <2>1, <2>2
<1>3. Handed(bytes) = SubSeq(bytes, 1, k)
  BY DEF Handed
<1> HIDE DEF k, H
<1> QED
  BY <1>1, <1>2, <1>3 DEF StartsAs

\* It keeps nothing of a page that does not end within a reference or a tag.
LEMMA HandedAll ==
  ASSUME NEW B, NEW page, page.html, page.bytes \in Seq(B), ~Unfinished(page)
  PROVE  Handed(page.bytes) = page.bytes
<1> DEFINE bytes == page.bytes
           H == {i \in DOMAIN bytes : ~Waiting(bytes, i)}
           n == Len(bytes)
<1>1. n \in Nat /\ DOMAIN bytes = 1 .. n
  OBVIOUS
<1>2. ASSUME NEW i \in 1 .. n PROVE ~Waiting(bytes, i)
  <2>1. \A j \in 1 .. n : bytes[j] # "<"
    BY <1>1 DEF Unfinished
  <2>2. bytes # <<>> => bytes[n] # "&"
    BY DEF Unfinished, Last
  <2>3. bytes # <<>>
    BY <1>1, <1>2
  <2>4. \A j \in 1 .. i : j \in 1 .. n
    BY <1>1
  <2> QED
    BY <2>1, <2>2, <2>3, <2>4 DEF Waiting
<1>3. H = 1 .. n
  BY <1>1, <1>2
<1>4. Cardinality(1 .. n) = n
  <2> HIDE DEF n
  <2>1. 1 \in Int /\ n \in Int
    BY <1>1
  <2>2. Cardinality(1 .. n) = IF 1 > n THEN 0 ELSE n - 1 + 1
    BY <2>1, FS_Interval
  <2> QED
    BY <1>1, <2>2
<1>5. Handed(bytes) = SubSeq(bytes, 1, Cardinality(H))
  BY DEF Handed
<1>6. Cardinality(H) = n
  BY <1>3, <1>4
<1> HIDE DEF H
<1> QED
  BY <1>1, <1>5, <1>6

LEMMA TextOfStart ==
  ASSUME NEW B, NEW page, page.html \in BOOLEAN, page.bytes \in Seq(B), NEW raw \in Seq(B),
         StartsAs(raw, page.bytes)
  PROVE  /\ TextOf(page, raw) \in Seq(B)
         /\ Shown(page) \subseteq 1 .. Len(page.bytes)
         /\ \E m \in Nat : Spelt(TextOf(page, raw), Shown(page), m, page.bytes)
<1> DEFINE bytes == page.bytes
<1>2. CASE page.html
  <2> DEFINE kept == Handed(raw)
             m == Len(kept)
             M == {i \in Shown(page) : i <= m}
  <2>0. kept \in Seq(B) /\ StartsAs(kept, raw)
    BY HandedStarts
  <2> HIDE DEF kept
  <2>9. StartsAs(kept, bytes)
    <3>1. /\ Len(kept) \in Nat /\ Len(raw) \in Nat /\ Len(bytes) \in Nat
          /\ Len(kept) <= Len(raw) /\ Len(raw) <= Len(bytes)
      BY <2>0 DEF StartsAs
    <3>2. \A i \in 1 .. Len(kept) : i \in 1 .. Len(raw)
      BY <3>1
    <3> QED
      BY <2>0, <3>1, <3>2 DEF StartsAs
  <2>10. m \in Nat /\ Len(bytes) \in Nat /\ m <= Len(bytes) /\ \A i \in 1 .. m : kept[i] = bytes[i]
    BY <2>0, <2>9 DEF StartsAs
  <2>1. Shown(page) = ShownTo(bytes, Len(bytes))
    BY <1>2 DEF Shown, ShownIn, ShownTo
  <2>2. M = ShownTo(kept, m)
    BY <2>0, <2>1, <2>9, ShownOfStart
  <2>3. Shown(page) \subseteq 1 .. Len(bytes)
    BY <2>1 DEF ShownTo
  <2>4. TextOf(page, raw) = TextIn(kept)
    BY <1>2 DEF TextOf, Extracted, kept
  <2>5. /\ TextIn(kept) \in Seq(B)
        /\ Len(TextIn(kept)) = Cardinality(ShownTo(kept, m))
        /\ \A i \in ShownTo(kept, m) : TextIn(kept)[Rank(ShownTo(kept, m), i)] = kept[i]
    BY <2>0, TextInIsShown
  <2>6. \A i \in M : kept[i] = bytes[i]
    <3>1. M \subseteq 1 .. m
      BY <2>3
    <3> QED
      BY <3>1, <2>10
  <2> HIDE DEF M
  <2>7. Cardinality(M) = Cardinality(ShownTo(kept, m)) /\ \A i : Rank(M, i) = Rank(ShownTo(kept, m), i)
    BY <2>2, Zenon
  <2>8. Spelt(TextOf(page, raw), Shown(page), m, bytes)
    BY <2>2, <2>4, <2>5, <2>6, <2>7 DEF M, Spelt
  <2> QED
    BY <2>3, <2>4, <2>5, <2>8, <2>10
<1>3. CASE ~page.html
  <2> DEFINE m == Len(raw)
             M == {i \in Shown(page) : i <= m}
  <2>0. m \in Nat /\ Len(bytes) \in Nat /\ m <= Len(bytes) /\ \A i \in 1 .. m : raw[i] = bytes[i]
    BY DEF StartsAs
  <2>1. Shown(page) = 1 .. Len(bytes)
    BY <1>3 DEF Shown
  <2>2. M = 1 .. m
    BY <2>0, <2>1
  <2>3. TextOf(page, raw) = raw
    BY <1>3 DEF TextOf
  <2>4. Cardinality(1 .. m) = m
    <3> HIDE DEF m
    <3>1. 1 \in Int /\ m \in Int
      BY <2>0
    <3>2. Cardinality(1 .. m) = IF 1 > m THEN 0 ELSE m - 1 + 1
      BY <3>1, FS_Interval
    <3> QED
      BY <2>0, <3>2
  <2>5. \A i \in 1 .. m : Rank(1 .. m, i) = i
    BY <2>0, RankOfAll
  <2>6. Shown(page) \subseteq 1 .. Len(bytes)
    BY <2>1
  <2> HIDE DEF M
  <2>7. Cardinality(M) = m /\ \A i \in M : Rank(M, i) = i
    BY <2>2, <2>4, <2>5, Zenon
  <2>8. \A i \in M : raw[i] = bytes[i]
    BY <2>0, <2>2
  <2>9. Spelt(TextOf(page, raw), Shown(page), m, bytes)
    BY <2>3, <2>7, <2>8 DEF M, Spelt
  <2> QED
    BY <2>0, <2>3, <2>6, <2>9
<1> QED
  BY <1>2, <1>3

\* All that is shown of all of it.
LEMMA TextOfAll ==
  ASSUME NEW B, NEW page, page.html \in BOOLEAN, page.bytes \in Seq(B), ~Unfinished(page)
  PROVE  Len(TextOf(page, page.bytes)) = Cardinality(Shown(page))
<1> DEFINE bytes == page.bytes
<1>1. CASE page.html
  <2>1. Shown(page) = ShownTo(bytes, Len(bytes))
    BY <1>1 DEF Shown, ShownIn, ShownTo
  <2>2. TextOf(page, bytes) = TextIn(bytes)
    BY <1>1, HandedAll DEF TextOf, Extracted
  <2>3. Len(TextIn(bytes)) = Cardinality(ShownTo(bytes, Len(bytes)))
    BY TextInIsShown
  <2> QED
    BY <2>1, <2>2, <2>3
<1>2. CASE ~page.html
  <2> DEFINE m == Len(bytes)
  <2>1. Shown(page) = 1 .. m /\ m \in Nat
    BY <1>2 DEF Shown
  <2>2. TextOf(page, bytes) = bytes
    BY <1>2 DEF TextOf
  <2>3. Cardinality(1 .. m) = m
    <3> HIDE DEF m
    <3>1. 1 \in Int /\ m \in Int
      BY <2>1
    <3>2. Cardinality(1 .. m) = IF 1 > m THEN 0 ELSE m - 1 + 1
      BY <3>1, FS_Interval
    <3> QED
      BY <2>1, <3>2
  <2> QED
    BY <2>1, <2>2, <2>3
<1> QED
  BY <1>1, <1>2

-----------------------------------------------------------------------------
(* The loop and its calls *)

CallStates == {"none", "hop", "asked", "reading", "brave", "engines", "done", "failed"}

CallShape ==
    DOMAIN call = {"st", "limit", "hop", "page", "body", "late", "asked", "had", "result"}

\* The call at work is the one the last line asks for.
CallKinds ==
    /\ lines = <<>> => call.st = "none"
    /\ call.st \in {"hop", "asked", "reading"} => lines[Len(lines)] = "fetch"
    /\ call.st = "engines" => lines[Len(lines)] = "search"
    /\ call.st = "brave" => lines[Len(lines)] = "search with key"

\* What was read of a page is its beginning; an engine that found something ends the
\* search.
CallData ==
    /\ call.st \in {"hop", "asked"} => call.body = <<>>
    /\ call.st = "reading" =>
          /\ call.page \in Pages
          /\ call.body \in Seq(Range(call.page.bytes))
          /\ StartsAs(call.body, call.page.bytes)
    /\ call.st = "engines" => call.had = {}

WebInv ==
    WebTypeOK /\ CallShape /\ CallKinds /\ CallData /\ RepliesInOrder /\ ResultsTell

Written(ids) == [id : ids, isError : BOOLEAN]
Ids(written) == {written[i].id : i \in DOMAIN written}
Ascending(written) ==
    \A i, j \in DOMAIN written : i < j => written[i].id < written[j].id

OneIdMore(more, written, n) == Ids(more) = Ids(written) \union {n}

LEMMA OneReplyMore ==
  ASSUME NEW S \in SUBSET Nat, NEW written \in Seq(Written(S)),
         NEW n \in S, NEW r \in Written(S), r.id = n,
         Ascending(written), \A k \in Ids(written) : k < n,
         NEW more, more = Append(written, r)
  PROVE  /\ more \in Seq(Written(S))
         /\ OneIdMore(more, written, n)
         /\ Ascending(more)
<1> DEFINE m == Len(written)
           R == Written(S)
<1>1. m \in Nat /\ DOMAIN written = 1 .. m /\ \A i \in 1 .. m : written[i].id \in Nat
  <2>1. \A x \in R : x.id \in Nat
    BY DEF Written
  <2>2. written \in Seq(R)
    OBVIOUS
  <2> HIDE DEF R
  <2>3. \A i \in 1 .. m : written[i] \in R
    BY <2>2, ElementOfSeq
  <2> QED
    BY <2>1, <2>2, <2>3
<1>2. /\ DOMAIN more = 1 .. m + 1
      /\ \A i \in 1 .. m : more[i] = written[i]
      /\ more[m + 1] = r
  OBVIOUS
<1>3. more \in Seq(R)
  <2>1. r \in R
    OBVIOUS
  <2>2. written \in Seq(R) /\ more = Append(written, r)
    OBVIOUS
  <2> HIDE DEF R, m
  <2> QED
    BY <2>1, <2>2, AppendProperties
<1>4. r.id = n
  OBVIOUS
<1> HIDE DEF m, R
<1>5. OneIdMore(more, written, n)
  <2>1. ASSUME NEW k \in Ids(more) PROVE k \in Ids(written) \/ k = n
    <3>1. PICK i \in 1 .. m + 1 : k = more[i].id
      BY <1>2 DEF Ids
    <3>2. CASE i = m + 1
      BY <1>2, <1>4, <3>1, <3>2
    <3>3. CASE i # m + 1
      <4>1. i \in 1 .. m
        BY <1>1, <3>3
      <4> QED
        BY <1>1, <1>2, <3>1, <4>1 DEF Ids
    <3> QED
      BY <3>2, <3>3
  <2>2. ASSUME NEW k \in Ids(written) PROVE k \in Ids(more)
    <3>1. PICK i \in 1 .. m : k = written[i].id
      BY <1>1 DEF Ids
    <3>2. i \in 1 .. m + 1 /\ k = more[i].id
      BY <1>1, <1>2, <3>1
    <3> QED
      BY <1>2, <3>2 DEF Ids
  <2>3. n \in Ids(more)
    <3>1. m + 1 \in 1 .. m + 1
      BY <1>1
    <3> QED
      BY <1>2, <1>4, <3>1 DEF Ids
  <2> QED
    BY <2>1, <2>2, <2>3 DEF OneIdMore
<1>6. Ascending(more)
  <2> SUFFICES ASSUME NEW i \in 1 .. m + 1, NEW j \in 1 .. m + 1, i < j
               PROVE  more[i].id < more[j].id
    BY <1>2 DEF Ascending
  <2>1. i \in 1 .. m
    BY <1>1
  <2>2. CASE j = m + 1
    <3>1. written[i].id \in Ids(written)
      BY <1>1, <2>1 DEF Ids
    <3> QED
      BY <1>2, <1>4, <2>1, <2>2, <3>1
  <2>3. CASE j # m + 1
    <3>1. j \in 1 .. m
      BY <1>1, <2>3
    <3> QED
      BY <1>1, <1>2, <2>1, <3>1 DEF Ascending
  <2> QED
    BY <2>2, <2>3
<1> QED
  BY <1>3, <1>5, <1>6 DEF R

LEMMA WebInitInv == WebInit => WebInv
<1> SUFFICES ASSUME WebInit PROVE WebInv
  OBVIOUS
<1> USE DEF WebInit, NoCall
<1>1. WebTypeOK
  BY EnginesAssumption DEF WebTypeOK
<1>2. CallShape /\ CallKinds /\ CallData
  BY DEF CallShape, CallKinds, CallData
<1>3. RepliesInOrder
  BY DEF RepliesInOrder, Answerable, AtWork, Calling
<1>4. ResultsTell
  BY DEF ResultsTell
<1> QED
  BY <1>1, <1>2, <1>3, <1>4 DEF WebInv


\* The lines read up to one that are to be answered.
ToAnswer(line) == line \notin {"silent"} \union Deadly
Asks(read, n) == {i \in 1 .. n : ToAnswer(read[i])}

LEMMA AsksMore ==
  ASSUME NEW n \in Nat, NEW read, NEW more, \A i \in 1 .. n : more[i] = read[i],
         NEW k, k = n + 1
  PROVE  /\ Asks(more, k) = Asks(read, n) \union (IF ToAnswer(more[k]) THEN {k} ELSE {})
         /\ \A i \in Asks(read, n) : i < k
<1>1. \A i : i \in 1 .. k <=> i \in 1 .. n \/ i = k
  OBVIOUS
<1>2. \A i \in 1 .. n : i < k
  OBVIOUS
<1> QED
  BY <1>1, <1>2 DEF Asks

\* What the types and RepliesInOrder say, in these words.
LEMMA RepliesSay ==
  ASSUME lines \in Seq(Lines), NEW n, n = Len(lines)
  PROVE  /\ (replies \in Seq([id : DOMAIN lines, isError : BOOLEAN])) <=>
              replies \in Seq(Written(1 .. n))
         /\ RepliesInOrder <=>
              /\ Ids(replies) = Asks(lines, n) \ (IF Calling THEN {n} ELSE {})
              /\ Ascending(replies)
<1>1. DOMAIN lines = 1 .. n /\ n \in Nat
  OBVIOUS
<1>2. Answerable = Asks(lines, n) \ (IF Calling THEN {n} ELSE {})
  BY <1>1 DEF Answerable, Asks, AsksReply, AtWork, ToAnswer, Deadly
<1> QED
  BY <1>1, <1>2, Zenon DEF Written, RepliesInOrder, Ids, Ascending

\* A reply to the request at work, which is at work no more.
LEMMA ReplyStep ==
  ASSUME WebInv, Calling, lines' = lines, ~Calling', NEW isError \in BOOLEAN,
         replies' = Reply(isError)
  PROVE  RepliesInOrder' /\ (replies \in Seq([id : DOMAIN lines, isError : BOOLEAN]))'
<1> DEFINE n == Len(lines)
           S == 1 .. n
<1>1. /\ lines \in Seq(Lines) /\ replies \in Seq([id : DOMAIN lines, isError : BOOLEAN])
      /\ RepliesInOrder /\ lines # <<>> /\ ToAnswer(lines[n])
  BY DEF WebInv, WebTypeOK, CallKinds, Calling, ToAnswer, Deadly
<1>2. n \in Nat /\ n > 0
  BY <1>1
<1>3. /\ replies \in Seq(Written(S))
      /\ Ids(replies) = Asks(lines, n) \ {n} /\ Ascending(replies)
  BY <1>1, RepliesSay
<1>4. PICK r \in Written(S) : r.id = n /\ replies' = Append(replies, r)
  <2>1. \A e \in BOOLEAN : [id |-> n, isError |-> e] \in Written(S)
    BY <1>2 DEF Written
  <2>2. [id |-> n, isError |-> isError].id = n
    OBVIOUS
  <2>3. replies' = Append(replies, [id |-> n, isError |-> isError])
    BY DEF Reply
  <2> QED
    BY <2>1, <2>2, <2>3, Zenon
<1>5. lines' \in Seq(Lines) /\ n = Len(lines)'
  BY <1>1
<1>6. ASSUME lines' \in Seq(Lines), n = Len(lines)',
             replies' \in Seq(Written(S)), Ids(replies') = Asks(lines', n), Ascending(replies')
      PROVE  RepliesInOrder' /\ (replies \in Seq([id : DOMAIN lines, isError : BOOLEAN]))'
  <2>1. /\ DOMAIN lines' = S
        /\ Answerable' = Asks(lines', n)
    <3>1. DOMAIN lines' = S /\ AtWork' = {}
      BY <1>2, <1>6 DEF AtWork
    <3>2. \A i : AsksReply(i)' /\ lines'[i] \notin Deadly <=> ToAnswer(lines'[i])
      BY DEF AsksReply, ToAnswer, Deadly
    <3> QED
      BY <3>1, <3>2 DEF Answerable, Asks
  <2> QED
    BY <2>1, <1>6, Zenon DEF Written, RepliesInOrder, Ids, Ascending
<1>7. Asks(lines, n) = (Asks(lines, n) \ {n}) \union {n} /\ \A k \in Asks(lines, n) \ {n} : k < n
  BY <1>1, <1>2 DEF Asks
<1>8. S \in SUBSET Nat /\ n \in S
  BY <1>2
<1> HIDE DEF n, S
<1>9. /\ replies' \in Seq(Written(S))
      /\ OneIdMore(replies', replies, n)
      /\ Ascending(replies')
  <2>1. S \in SUBSET Nat /\ n \in S /\ \A k \in Ids(replies) : k < n
    BY <1>3, <1>7, <1>8
  <2>2. replies \in Seq(Written(S)) /\ Ascending(replies)
    BY <1>3
  <2>4. replies' \in Seq(Written(S))
    BY <1>4, <2>1, <2>2, OneReplyMore
  <2>5. OneIdMore(replies', replies, n)
    BY <1>4, <2>1, <2>2, OneReplyMore
  <2>6. Ascending(replies')
    BY <1>4, <2>1, <2>2, OneReplyMore
  <2> QED
    BY <2>4, <2>5, <2>6
<1> QED
  BY <1>3, <1>5, <1>6, <1>7, <1>9 DEF OneIdMore

\* A step of a call that goes on.
LEMMA GoesStep ==
  ASSUME WebInv, Calling, UNCHANGED <<lines, replies>>, Calling'
  PROVE  RepliesInOrder' /\ (replies \in Seq([id : DOMAIN lines, isError : BOOLEAN]))'
<1>1. RepliesInOrder /\ replies \in Seq([id : DOMAIN lines, isError : BOOLEAN])
  BY DEF WebInv, WebTypeOK
<1>2. Answerable' = Answerable
  BY DEF Answerable, AsksReply, AtWork
<1> QED
  BY <1>1, <1>2 DEF RepliesInOrder

LEMMA ReadLineStep ==
  ASSUME WebInv, NEW line \in Lines, ReadLine(line)
  PROVE  WebInv'
<1> DEFINE n == Len(lines)
           m == n + 1
           S == 1 .. n
           T == 1 .. m
<1>1. /\ lines \in Seq(Lines) /\ replies \in Seq([id : DOMAIN lines, isError : BOOLEAN])
      /\ RepliesInOrder /\ ~Calling /\ lines' = Append(lines, line)
  BY DEF WebInv, WebTypeOK, ReadLine
<1>2. n \in Nat /\ m \in Nat /\ DOMAIN lines = S
  BY <1>1
<1>3. /\ lines' \in Seq(Lines) /\ Len(lines') = m /\ DOMAIN lines' = T
      /\ lines'[m] = line /\ lines' # <<>>
      /\ \A i \in S : lines'[i] = lines[i]
  BY <1>1
<1>4. /\ replies \in Seq(Written(S))
      /\ Ids(replies) = Asks(lines, n) /\ Ascending(replies)
  BY <1>1, RepliesSay
<1>5. /\ call'.st \in {"hop", "engines", "brave", "none"}
      /\ call'.st = "hop" <=> line = "fetch"
      /\ call'.st = "engines" <=> line = "search"
      /\ call'.st = "brave" <=> line = "search with key"
      /\ DOMAIN call' = DOMAIN NoCall
      /\ call'.limit \in Limits \union {0} /\ call'.hop = 0 /\ call'.asked = 0 /\ call'.had = {}
      /\ call'.body = <<>>
  <2>1. \/ line = "fetch" /\ \E k \in Limits : call' = [NoCall EXCEPT !.st = "hop", !.limit = k]
        \/ line = "search" /\ call' = [NoCall EXCEPT !.st = "engines"]
        \/ line = "search with key" /\ call' = [NoCall EXCEPT !.st = "brave"]
        \/ line \in {"silent", "own", "bad call"} \union Deadly /\ call' = NoCall
    BY Zenon DEF ReadLine
  <2>2. CASE line = "fetch"
    BY <2>1, <2>2 DEF NoCall, Deadly
  <2>3. CASE line = "search"
    BY <2>1, <2>3 DEF NoCall, Deadly
  <2>4. CASE line = "search with key"
    BY <2>1, <2>4 DEF NoCall, Deadly
  <2>5. CASE line \in {"silent", "own", "bad call"} \union Deadly
    <3>1. call' = NoCall
      BY <2>1, <2>5 DEF Deadly
    <3>2. line # "fetch" /\ line # "search" /\ line # "search with key"
      BY <2>5 DEF Deadly
    <3> QED
      BY <3>1, <3>2 DEF NoCall
  <2> QED
    BY <2>2, <2>3, <2>4, <2>5 DEF Lines
<1>6. Calling' <=> line \in {"fetch", "search", "search with key"}
  BY <1>5 DEF Calling
<1>7. CallShape' /\ CallKinds' /\ CallData'
  BY <1>3, <1>5 DEF CallShape, CallKinds, CallData, NoCall
<1>8. ResultsTell'
  BY <1>5 DEF ResultsTell
<1>9. T \in SUBSET Nat /\ S \subseteq T /\ m \in T
  BY <1>2
<1>10. ASSUME replies' \in Seq(Written(T)),
              Ids(replies') = Asks(lines', m) \ (IF Calling' THEN {m} ELSE {}),
              Ascending(replies')
       PROVE  WebInv'
  <2>1. Answerable' = Asks(lines', m) \ (IF Calling' THEN {m} ELSE {})
    BY <1>2, <1>3 DEF Answerable, Asks, AsksReply, AtWork, ToAnswer, Deadly
  <2>2. RepliesInOrder' /\ (replies \in Seq([id : DOMAIN lines, isError : BOOLEAN]))'
    BY <1>3, <1>10, <2>1, Zenon DEF Written, RepliesInOrder, Ids, Ascending
  <2>3. call'.hop \in 0 .. MAX_REDIRECTS /\ call'.asked \in 0 .. Len(Engines)
    <3>1. MAX_REDIRECTS \in Nat /\ Len(Engines) \in Nat
      BY EnginesAssumption
    <3>2. call'.hop = 0 /\ call'.asked = 0
      BY <1>5
    <3> QED
      BY <3>1, <3>2
  <2>4. WebTypeOK'
    BY <1>3, <1>5, <2>2, <2>3, Zenon DEF WebTypeOK
  <2> QED
    BY <1>7, <1>8, <2>2, <2>4 DEF WebInv
<1>11. /\ Asks(lines', m) = Asks(lines, n) \union (IF ToAnswer(line) THEN {m} ELSE {})
       /\ \A i \in Asks(lines, n) : i < m
  BY <1>2, <1>3, AsksMore
<1>12. \/ line \in {"own", "bad call"} /\ \E isError \in BOOLEAN :
             replies' = Append(replies, [id |-> m, isError |-> isError])
       \/ line \notin {"own", "bad call"} /\ replies' = replies
  BY <1>3 DEF ReadLine
<1> HIDE DEF n, m, S, T
<1>15. replies \in Seq(Written(T))
  <2> DEFINE P == Written(S)
             Q == Written(T)
  <2>1. P \subseteq Q
    BY <1>9 DEF Written
  <2>2. replies \in Seq(P)
    BY <1>4
  <2> HIDE DEF P, Q
  <2>3. \A i \in 1 .. Len(replies) : replies[i] \in Q
    BY <2>1, <2>2, ElementOfSeq
  <2> QED
    BY <2>2, <2>3 DEF Q
<1>13. CASE line \in {"own", "bad call"}
  <2>1. PICK r \in Written(T) : r.id = m /\ replies' = Append(replies, r)
    <3>1. \A e \in BOOLEAN : [id |-> m, isError |-> e] \in Written(T)
      BY <1>9 DEF Written
    <3>2. \A e \in BOOLEAN : [id |-> m, isError |-> e].id = m
      OBVIOUS
    <3> QED
      BY <1>12, <1>13, <3>1, <3>2, Zenon
  <2>2. /\ replies' \in Seq(Written(T))
        /\ OneIdMore(replies', replies, m)
        /\ Ascending(replies')
    <3>1. \A k \in Ids(replies) : k < m
      BY <1>4, <1>11
    <3>2. T \in SUBSET Nat /\ m \in T
      BY <1>9
    <3>3. Ascending(replies)
      BY <1>4
    <3>4. replies' \in Seq(Written(T))
      BY <1>15, <2>1, <3>1, <3>2, <3>3, OneReplyMore
    <3>5. OneIdMore(replies', replies, m)
      BY <1>15, <2>1, <3>1, <3>2, <3>3, OneReplyMore
    <3>6. Ascending(replies')
      BY <1>15, <2>1, <3>1, <3>2, <3>3, OneReplyMore
    <3> QED
      BY <3>4, <3>5, <3>6
  <2>3. ~Calling' /\ ToAnswer(line)
    BY <1>6, <1>13 DEF ToAnswer, Deadly
  <2> QED
    BY <1>4, <1>10, <1>11, <2>2, <2>3 DEF OneIdMore
<1>14. CASE line \notin {"own", "bad call"}
  <2>1. replies' = replies
    BY <1>12, <1>14
  <2>2. replies' \in Seq(Written(T))
    BY <1>15, <2>1
  <2>3. Calling' <=> ToAnswer(line)
    BY <1>6, <1>14 DEF Lines, ToAnswer, Deadly
  <2>4. m \notin Asks(lines, n)
    BY <1>2, <1>11
  <2> QED
    BY <1>4, <1>10, <1>11, <2>1, <2>2, <2>3, <2>4
<1> QED
  BY <1>13, <1>14

\* What the steps of a call leave as it is.
LEMMA CallStep ==
  ASSUME WebInv, lines' = lines, CallShape', RepliesInOrder',
         (replies \in Seq([id : DOMAIN lines, isError : BOOLEAN]))',
         call'.st \in CallStates, call'.limit = call.limit,
         call'.hop \in 0 .. MAX_REDIRECTS, call'.asked \in 0 .. Len(Engines),
         call'.had \subseteq ToSet(Engines), CallKinds', CallData', ResultsTell'
  PROVE  WebInv'
<1>1. lines' \in Seq(Lines) /\ call'.limit \in Limits \union {0}
  BY DEF WebInv, WebTypeOK
<1>2. WebTypeOK'
  BY <1>1, Zenon DEF WebTypeOK, CallStates
<1> QED
  BY <1>2 DEF WebInv

\* A request that fails: nothing is told of it, unless it is a search without a key.
LEMMA FailsStep ==
  ASSUME WebInv, Calling, Fails,
         lines[Len(lines)] = "search" => call.had = {} /\ call.asked \in {0, Len(Engines)}
  PROVE  WebInv'
<1>1. lines' = lines /\ replies' = Reply(TRUE) /\ call' = [call EXCEPT !.st = "failed"]
  BY DEF Fails
<1>2. DOMAIN call = {"st", "limit", "hop", "page", "body", "late", "asked", "had", "result"}
  BY DEF WebInv, CallShape
<1>3. /\ DOMAIN call' = DOMAIN call /\ call'.st = "failed" /\ call'.limit = call.limit
      /\ call'.hop = call.hop /\ call'.asked = call.asked /\ call'.had = call.had
  BY <1>1, <1>2
<1>4. ~Calling' /\ lines # <<>>
  BY <1>3 DEF Calling, WebInv, CallKinds
<1>5. RepliesInOrder' /\ (replies \in Seq([id : DOMAIN lines, isError : BOOLEAN]))'
  BY <1>1, <1>4, ReplyStep
<1>6. ResultsTell'
  BY <1>1, <1>3 DEF ResultsTell, Last
<1>7. CallShape' /\ CallKinds' /\ CallData'
  BY <1>1, <1>2, <1>3, <1>4 DEF CallShape, CallKinds, CallData
<1>8. /\ call'.st \in CallStates /\ call'.hop \in 0 .. MAX_REDIRECTS
      /\ call'.asked \in 0 .. Len(Engines) /\ call'.had \subseteq ToSet(Engines)
  BY <1>3 DEF WebInv, WebTypeOK, CallStates
<1> QED
  BY <1>1, <1>3, <1>5, <1>6, <1>7, <1>8, CallStep

\* A step of fetch after which the request is still at work.
LEMMA FetchGoesOn ==
  ASSUME WebInv, call.st \in {"hop", "asked", "reading"}, NEW c, Goes(c),
         DOMAIN c = DOMAIN call, c.st \in {"hop", "asked", "reading"},
         c.limit = call.limit, c.hop \in 0 .. MAX_REDIRECTS, c.asked = call.asked,
         c.had = call.had, CallData'
  PROVE  WebInv'
<1>1. lines' = lines /\ replies' = replies /\ call' = c
  BY DEF Goes
<1>2. Calling /\ Calling'
  BY <1>1 DEF Calling
<1>3. RepliesInOrder' /\ (replies \in Seq([id : DOMAIN lines, isError : BOOLEAN]))'
  BY <1>1, <1>2, GoesStep
<1>4. ResultsTell'
  BY <1>1 DEF ResultsTell
<1>5. CallShape' /\ CallKinds'
  BY <1>1 DEF WebInv, CallShape, CallKinds
<1>6. /\ call'.st \in CallStates /\ call'.hop \in 0 .. MAX_REDIRECTS
      /\ call'.asked \in 0 .. Len(Engines) /\ call'.had \subseteq ToSet(Engines)
  BY <1>1 DEF WebInv, WebTypeOK, CallStates
<1> QED
  BY <1>1, <1>3, <1>4, <1>5, <1>6, CallStep

LEMMA VetStep ==
  ASSUME WebInv, Vet
  PROVE  WebInv'
<1>1. call.st = "hop" /\ Calling /\ lines[Len(lines)] = "fetch"
  BY DEF Vet, Calling, WebInv, CallKinds
<1>2. CASE Fails
  BY <1>1, <1>2, FailsStep
<1>3. CASE Goes([call EXCEPT !.st = "asked"])
  <2> DEFINE c == [call EXCEPT !.st = "asked"]
  <2>1. /\ DOMAIN c = DOMAIN call /\ c.st = "asked" /\ c.limit = call.limit
        /\ c.hop = call.hop /\ c.asked = call.asked /\ c.had = call.had
        /\ c.body = call.body
    BY DEF WebInv, CallShape
  <2>2. call' = c
    BY <1>3 DEF Goes
  <2>3. c.hop \in 0 .. MAX_REDIRECTS /\ call.body = <<>>
    BY <1>1, <2>1 DEF WebInv, WebTypeOK, CallData
  <2> HIDE DEF c
  <2>4. CallData'
    BY <2>1, <2>2, <2>3 DEF CallData
  <2> QED
    BY <1>1, <1>3, <2>1, <2>3, <2>4, FetchGoesOn DEF c
<1> QED
  BY <1>2, <1>3 DEF Vet

LEMMA RedirectedStep ==
  ASSUME WebInv, Redirected
  PROVE  WebInv'
<1>1. call.st = "asked" /\ Calling /\ lines[Len(lines)] = "fetch"
  BY DEF Redirected, Calling, WebInv, CallKinds
<1>2. CASE Fails
  BY <1>1, <1>2, FailsStep
<1>3. CASE call.hop < MAX_REDIRECTS /\ Goes([call EXCEPT !.st = "hop", !.hop = @ + 1])
  <2> DEFINE c == [call EXCEPT !.st = "hop", !.hop = @ + 1]
  <2>1. /\ DOMAIN c = DOMAIN call /\ c.st = "hop" /\ c.limit = call.limit
        /\ c.hop = call.hop + 1 /\ c.asked = call.asked /\ c.had = call.had
        /\ c.body = call.body
    BY DEF WebInv, CallShape
  <2>2. call' = c
    BY <1>3 DEF Goes
  <2>3. c.hop \in 0 .. MAX_REDIRECTS /\ call.body = <<>>
    BY <1>1, <1>3, <2>1, EnginesAssumption DEF WebInv, WebTypeOK, CallData
  <2> HIDE DEF c
  <2>4. CallData'
    BY <2>1, <2>2, <2>3 DEF CallData
  <2> QED
    BY <1>1, <1>3, <2>1, <2>3, <2>4, FetchGoesOn DEF c
<1> QED
  BY <1>2, <1>3 DEF Redirected

LEMMA AnsweredStep ==
  ASSUME WebInv, NEW p \in Pages, Answered(p)
  PROVE  WebInv'
<1>1. call.st = "asked" /\ Calling /\ lines[Len(lines)] = "fetch"
  BY DEF Answered, Calling, WebInv, CallKinds
<1>2. CASE Fails
  BY <1>1, <1>2, FailsStep
<1>3. CASE Goes([call EXCEPT !.st = "reading", !.page = p])
  <2> DEFINE c == [call EXCEPT !.st = "reading", !.page = p]
  <2>1. /\ DOMAIN c = DOMAIN call /\ c.st = "reading" /\ c.limit = call.limit
        /\ c.hop = call.hop /\ c.asked = call.asked /\ c.had = call.had
        /\ c.body = call.body /\ c.page = p
    BY DEF WebInv, CallShape
  <2>2. call' = c
    BY <1>3 DEF Goes
  <2>3. c.hop \in 0 .. MAX_REDIRECTS /\ call.body = <<>>
    BY <1>1, <2>1 DEF WebInv, WebTypeOK, CallData
  <2>4. StartsAs(<<>>, p.bytes) /\ <<>> \in Seq(Range(p.bytes))
    BY PagesAssumption DEF StartsAs
  <2> HIDE DEF c
  <2>5. CallData'
    BY <2>1, <2>2, <2>3, <2>4 DEF CallData
  <2> QED
    BY <1>1, <1>3, <2>1, <2>3, <2>5, FetchGoesOn DEF c
<1> QED
  BY <1>2, <1>3 DEF Answered

LEMMA ReadsMoreStep ==
  ASSUME WebInv, NEW n, ReadsMore(n)
  PROVE  WebInv'
<1>1. call.st = "reading" /\ lines[Len(lines)] = "fetch"
  BY DEF ReadsMore, WebInv, CallKinds
<1> DEFINE bytes == call.page.bytes
           B == Range(bytes)
           read == SubSeq(bytes, 1, n)
<1>2. call.page \in Pages /\ bytes \in Seq(B) /\ Len(call.body) \in Nat
  BY <1>1, PagesAssumption DEF WebInv, CallData
<1>3. n \in Nat /\ 1 <= n /\ n <= Len(bytes) /\ Len(bytes) \in Nat
  BY <1>2 DEF ReadsMore
<1>4. read \in Seq(B) /\ StartsAs(read, bytes)
  <2> HIDE DEF bytes, B
  <2>1. /\ read \in Seq(B) /\ Len(read) = n
        /\ \A i \in 1 .. n : read[i] = bytes[i]
    BY <1>2, <1>3
  <2> QED
    BY <1>3, <2>1 DEF StartsAs
<1>5. PICK late \in BOOLEAN : Goes([call EXCEPT !.body = read, !.late = late])
  BY DEF ReadsMore
<1> DEFINE c == [call EXCEPT !.body = read, !.late = late]
<1> HIDE DEF read
<1>6. /\ DOMAIN c = DOMAIN call /\ c.st = call.st /\ c.limit = call.limit
      /\ c.hop = call.hop /\ c.asked = call.asked /\ c.had = call.had
      /\ c.body = read /\ c.page = call.page
  BY DEF WebInv, CallShape
<1>7. call' = c
  BY <1>5 DEF Goes
<1>8. c.hop \in 0 .. MAX_REDIRECTS
  BY <1>6 DEF WebInv, WebTypeOK
<1>9. Goes(c)
  BY <1>5
<1> HIDE DEF c
<1>10. CallData'
  BY <1>1, <1>2, <1>4, <1>6, <1>7 DEF CallData
<1> QED
  BY <1>1, <1>6, <1>8, <1>9, <1>10, FetchGoesOn

\* The text of a fetch: what was read, cut, is the beginning of what the page shows.
LEMMA FetchedTells ==
  ASSUME WebInv, call.st = "reading", Stops \/ call.body = call.page.bytes
  PROVE  /\ StartOf(Fetched.text, call.page)
         /\ Fetched.truncated \/ call.late \/ Unfinished(call.page) \/
              Len(Fetched.text) = Cardinality(Shown(call.page))
<1> DEFINE page == call.page
           bytes == page.bytes
           B == Range(bytes)
           body == call.body
           raw == Cut(body, MAX_BYTES)
           text == TextOf(page, raw)
           most == Clamped(call.limit)
           S == Shown(page)
<1>1. /\ page \in Pages /\ page.html \in BOOLEAN /\ bytes \in Seq(B)
      /\ body \in Seq(B) /\ StartsAs(body, bytes)
  BY PagesAssumption DEF WebInv, CallData
<1>2. MAX_BYTES \in Nat /\ most \in Nat
  <2>1. call.limit \in Nat /\ MAX_CHARS \in Nat /\ MIN_CHARS \in Nat /\ MAX_BYTES \in Nat
    <3>1. call.limit \in Limits \union {0}
      BY DEF WebInv, WebTypeOK
    <3>2. /\ \A n \in Limits : n \in Nat
          /\ MAX_CHARS \in Nat /\ MIN_CHARS \in Nat /\ MAX_BYTES \in Nat
      BY LimitsAssumption
    <3> QED
      BY <3>1, <3>2
  <2> QED
    BY <2>1 DEF Clamped
<1>3. /\ Fetched.text = Cut(text, most)
      /\ Fetched.truncated <=> Len(body) > MAX_BYTES \/ Len(text) > most
  BY DEF Fetched, TextOf
<1>4. Len(body) \in Nat /\ Len(bytes) \in Nat
  BY <1>1
<1> HIDE DEF most, B, bytes, body, page
<1>5. raw \in Seq(B) /\ StartsAs(raw, bytes)
  <2>1. CASE Len(body) > MAX_BYTES
    <3>1. raw = SubSeq(body, 1, MAX_BYTES)
      BY <2>1 DEF Cut
    <3> HIDE DEF raw
    <3>2. /\ raw \in Seq(B) /\ Len(raw) = MAX_BYTES
          /\ \A i \in 1 .. MAX_BYTES : raw[i] = body[i]
      BY <1>1, <1>2, <2>1, <3>1
    <3> QED
      BY <1>1, <1>2, <1>4, <2>1, <3>2 DEF StartsAs
  <2>2. CASE ~(Len(body) > MAX_BYTES)
    <3>1. raw = body
      BY <2>2 DEF Cut
    <3> QED
      BY <1>1, <3>1
  <2> QED
    BY <2>1, <2>2
<1> HIDE DEF raw
<1>6. page.bytes = bytes
  BY DEF bytes
<1>7. /\ text \in Seq(B) /\ S \subseteq 1 .. Len(bytes)
      /\ \E m \in Nat : Spelt(text, S, m, bytes)
  <2>1. page.bytes \in Seq(B) /\ StartsAs(raw, page.bytes)
    BY <1>1, <1>5, <1>6
  <2>2. /\ TextOf(page, raw) \in Seq(B) /\ Shown(page) \subseteq 1 .. Len(page.bytes)
        /\ \E m \in Nat : Spelt(TextOf(page, raw), Shown(page), m, page.bytes)
    BY <1>1, <1>5, <2>1, TextOfStart
  <2> QED
    BY <1>6, <2>2, Zenon
<1>8. PICK m \in Nat : Spelt(text, S, m, bytes)
  BY <1>7
<1> DEFINE s == Cut(text, most)
<1>9. Begins(s, S, bytes)
  <2> HIDE DEF text, S
  <2> QED
    BY <1>2, <1>4, <1>7, <1>8, CutOfShown
<1>10. StartOf(s, page)
  BY <1>9, Zenon DEF Begins, StartOf, bytes
<1>11. ASSUME ~Fetched.truncated, ~call.late, ~Unfinished(page) PROVE Len(s) = Cardinality(S)
  <2>1. ~(Len(body) > MAX_BYTES) /\ ~(Len(text) > most) /\ ~call.late
    BY <1>3, <1>11
  <2>2. raw = body
    BY <2>1 DEF Cut, raw
  <2>3. body = bytes
    BY <2>1 DEF Stops, body, bytes, page
  <2>4. s = text
    BY <2>1 DEF Cut
  <2>5. text = TextOf(page, page.bytes)
    BY <2>2, <2>3 DEF bytes
  <2>6. Len(TextOf(page, page.bytes)) = Cardinality(S)
    BY <1>1, <1>11, TextOfAll DEF bytes
  <2> QED
    BY <2>4, <2>5, <2>6
<1>12. Fetched.text = s
  BY <1>3
<1> QED
  BY <1>10, <1>11, <1>12 DEF page

\* A reply with a result.
LEMMA ReturnsStep ==
  ASSUME WebInv, Calling, NEW result, Returns(result),
         lines[Len(lines)] = "fetch" =>
            /\ StartOf(result.text, call.page)
            /\ result.truncated \/ call.late \/ Unfinished(call.page) \/
                 Len(result.text) = Cardinality(Shown(call.page)),
         lines[Len(lines)] # "search"
  PROVE  WebInv'
<1>1. /\ lines' = lines /\ replies' = Reply(FALSE)
      /\ call' = [call EXCEPT !.st = "done", !.result = result]
  BY DEF Returns
<1>2. DOMAIN call = {"st", "limit", "hop", "page", "body", "late", "asked", "had", "result"}
  BY DEF WebInv, CallShape
<1>3. /\ DOMAIN call' = DOMAIN call /\ call'.st = "done" /\ call'.limit = call.limit
      /\ call'.hop = call.hop /\ call'.asked = call.asked /\ call'.had = call.had
      /\ call'.page = call.page /\ call'.late = call.late /\ call'.result = result
  BY <1>1, <1>2
<1>4. ~Calling' /\ lines # <<>>
  BY <1>3 DEF Calling, WebInv, CallKinds
<1>5. RepliesInOrder' /\ (replies \in Seq([id : DOMAIN lines, isError : BOOLEAN]))'
  BY <1>1, <1>4, ReplyStep
<1>6. ResultsTell'
  BY <1>1, <1>3 DEF ResultsTell, Last
<1>7. CallShape' /\ CallKinds' /\ CallData'
  BY <1>1, <1>2, <1>3, <1>4 DEF CallShape, CallKinds, CallData
<1>8. /\ call'.st \in CallStates /\ call'.hop \in 0 .. MAX_REDIRECTS
      /\ call'.asked \in 0 .. Len(Engines) /\ call'.had \subseteq ToSet(Engines)
  BY <1>3 DEF WebInv, WebTypeOK, CallStates
<1> QED
  BY <1>1, <1>3, <1>5, <1>6, <1>7, <1>8, CallStep

LEMMA FetchOverStep ==
  ASSUME WebInv, FetchOver
  PROVE  WebInv'
<1>1. call.st = "reading" /\ Calling /\ lines[Len(lines)] = "fetch" /\ Returns(Fetched)
  BY DEF FetchOver, Calling, WebInv, CallKinds
<1>2. /\ StartOf(Fetched.text, call.page)
      /\ Fetched.truncated \/ call.late \/ Unfinished(call.page) \/
           Len(Fetched.text) = Cardinality(Shown(call.page))
  BY <1>1, FetchedTells DEF FetchOver
<1> QED
  BY <1>1, <1>2, ReturnsStep

LEMMA FetchRaisesStep ==
  ASSUME WebInv, FetchRaises
  PROVE  WebInv'
<1>1. Fails /\ Calling /\ lines[Len(lines)] = "fetch"
  BY DEF FetchRaises, Calling, WebInv, CallKinds
<1> QED
  BY <1>1, FailsStep

LEMMA SearchesBraveStep ==
  ASSUME WebInv, SearchesBrave
  PROVE  WebInv'
<1>1. Calling /\ lines[Len(lines)] = "search with key"
  BY DEF SearchesBrave, Calling, WebInv, CallKinds
<1>2. CASE Fails
  BY <1>1, <1>2, FailsStep
<1>3. CASE Returns("brave")
  BY <1>1, <1>3, ReturnsStep
<1> QED
  BY <1>2, <1>3 DEF SearchesBrave

LEMMA EngineFindsStep ==
  ASSUME WebInv, EngineFinds
  PROVE  WebInv'
<1> DEFINE e == Engines[call.asked + 1]
           c == [call EXCEPT !.asked = @ + 1, !.had = {e}, !.st = "done", !.result = e]
<1>1. /\ call.st = "engines" /\ Calling /\ lines[Len(lines)] = "search"
      /\ call.asked \in Nat /\ call.asked < Len(Engines) /\ Len(Engines) \in Nat
  BY EnginesAssumption DEF EngineFinds, Calling, WebInv, WebTypeOK, CallKinds
<1>2. lines' = lines /\ replies' = Reply(FALSE)
  BY DEF EngineFinds
<1>3. DOMAIN call = {"st", "limit", "hop", "page", "body", "late", "asked", "had", "result"}
  BY DEF WebInv, CallShape
<1>4. call' = [Asked({e}) EXCEPT !.st = "done", !.result = e]
  BY DEF EngineFinds
<1>5. e \in ToSet(Engines)
  <2>1. call.asked + 1 \in DOMAIN Engines
    BY <1>1, EnginesAssumption
  <2> QED
    BY <2>1 DEF ToSet
<1> HIDE DEF e
<1>6. /\ DOMAIN call' = DOMAIN call /\ call'.st = "done" /\ call'.limit = call.limit
      /\ call'.hop = call.hop /\ call'.asked = call.asked + 1 /\ call'.had = {e}
      /\ call'.result = e
  BY <1>3, <1>4 DEF Asked
<1>7. ~Calling' /\ lines # <<>>
  BY <1>1, <1>6 DEF Calling, WebInv, CallKinds
<1>8. RepliesInOrder' /\ (replies \in Seq([id : DOMAIN lines, isError : BOOLEAN]))'
  BY <1>1, <1>2, <1>7, ReplyStep
<1>9. ResultsTell'
  BY <1>1, <1>2, <1>6 DEF ResultsTell, Last
<1>10. CallShape' /\ CallKinds' /\ CallData'
  BY <1>2, <1>3, <1>6, <1>7 DEF CallShape, CallKinds, CallData
<1>11. /\ call'.st \in CallStates /\ call'.hop \in 0 .. MAX_REDIRECTS
       /\ call'.asked \in 0 .. Len(Engines) /\ call'.had \subseteq ToSet(Engines)
  BY <1>1, <1>5, <1>6 DEF WebInv, WebTypeOK, CallStates
<1> QED
  BY <1>2, <1>6, <1>8, <1>9, <1>10, <1>11, CallStep

LEMMA EngineFindsNoneStep ==
  ASSUME WebInv, EngineFindsNone
  PROVE  WebInv'
<1>1. /\ call.st = "engines" /\ Calling /\ lines[Len(lines)] = "search"
      /\ call.asked \in Nat /\ call.asked < Len(Engines) /\ Len(Engines) \in Nat
      /\ call.had = {}
  BY EnginesAssumption DEF EngineFindsNone, Calling, WebInv, WebTypeOK, CallKinds, CallData
<1>2. /\ lines' = lines /\ replies' = replies
      /\ call' = [call EXCEPT !.asked = @ + 1, !.had = call.had]
  BY DEF EngineFindsNone, Goes, Asked
<1>3. DOMAIN call = {"st", "limit", "hop", "page", "body", "late", "asked", "had", "result"}
  BY DEF WebInv, CallShape
<1>4. /\ DOMAIN call' = DOMAIN call /\ call'.st = call.st /\ call'.limit = call.limit
      /\ call'.hop = call.hop /\ call'.asked = call.asked + 1 /\ call'.had = call.had
  BY <1>2, <1>3
<1>5. Calling'
  BY <1>1, <1>4 DEF Calling
<1>6. RepliesInOrder' /\ (replies \in Seq([id : DOMAIN lines, isError : BOOLEAN]))'
  BY <1>1, <1>2, <1>5, GoesStep
<1>7. ResultsTell'
  BY <1>1, <1>4 DEF ResultsTell
<1>8. CallShape' /\ CallKinds' /\ CallData'
  BY <1>1, <1>2, <1>3, <1>4 DEF WebInv, CallShape, CallKinds, CallData
<1>9. /\ call'.st \in CallStates /\ call'.hop \in 0 .. MAX_REDIRECTS
      /\ call'.asked \in 0 .. Len(Engines) /\ call'.had \subseteq ToSet(Engines)
  BY <1>1, <1>4 DEF WebInv, WebTypeOK, CallStates
<1> QED
  BY <1>2, <1>4, <1>6, <1>7, <1>8, <1>9, CallStep

LEMMA NoEngineLeftStep ==
  ASSUME WebInv, NoEngineLeft
  PROVE  WebInv'
<1>1. Fails /\ Calling /\ call.had = {} /\ call.asked = Len(Engines)
  BY DEF NoEngineLeft, Calling, WebInv, CallData
<1> QED
  BY <1>1, FailsStep

LEMMA ImportFailsStep ==
  ASSUME WebInv, ImportFails
  PROVE  WebInv'
<1>1. Fails /\ Calling /\ call.had = {} /\ call.asked = 0
  BY DEF ImportFails, Calling, WebInv, CallData
<1> QED
  BY <1>1, FailsStep

LEMMA WebNextInv == WebInv /\ [WebNext]_webVars => WebInv'
<1>1. ASSUME WebInv, WebNext PROVE WebInv'
  <2>1. CASE \E line \in Lines : ReadLine(line)
    BY <1>1, <2>1, ReadLineStep
  <2>2. CASE Vet \/ Redirected \/ FetchOver \/ FetchRaises
    BY <1>1, <2>2, VetStep, RedirectedStep, FetchOverStep, FetchRaisesStep
  <2>3. CASE \E p \in Pages : Answered(p)
    BY <1>1, <2>3, AnsweredStep
  <2>4. CASE \E n \in 1 .. Len(call.page.bytes) : ReadsMore(n)
    BY <1>1, <2>4, ReadsMoreStep
  <2>5. CASE SearchesBrave \/ EngineFinds \/ EngineFindsNone \/ NoEngineLeft \/ ImportFails
    BY <1>1, <2>5, SearchesBraveStep, EngineFindsStep, EngineFindsNoneStep, NoEngineLeftStep,
       ImportFailsStep
  <2> QED
    BY <1>1, <2>1, <2>2, <2>3, <2>4, <2>5 DEF WebNext
<1>2. ASSUME WebInv, UNCHANGED webVars PROVE WebInv'
  <2>1. lines' = lines /\ replies' = replies /\ call' = call
    BY <1>2 DEF webVars
  <2>2. WebTypeOK' <=> WebTypeOK
    BY <2>1, Zenon DEF WebTypeOK
  <2>3. /\ CallShape' <=> CallShape
        /\ CallKinds' <=> CallKinds
        /\ CallData' <=> CallData
    BY <2>1, Zenon DEF CallShape, CallKinds, CallData
  <2>4. ResultsTell' <=> ResultsTell
    BY <2>1 DEF ResultsTell
  <2>5. RepliesInOrder' <=> RepliesInOrder
    BY <2>1 DEF RepliesInOrder, Answerable, AsksReply, AtWork, Calling
  <2> QED
    BY <1>2, <2>2, <2>3, <2>4, <2>5 DEF WebInv
<1> QED
  BY <1>1, <1>2

LEMMA WebInvariant == WebSpec => []WebInv
BY WebInitInv, WebNextInv, PTL DEF WebSpec

\* mcp/web_server.py:129-276: type correctness of the web tools.
THEOREM WebTypes == WebSpec => []WebTypeOK
<1>1. WebInv => WebTypeOK
  BY DEF WebInv
<1> QED
  BY <1>1, WebInvariant, PTL

\* mcp/web_server.py:129-205: for any pages, limits and engines, what the result of a tool
\* says is true: the text of a fetch is the beginning of what the extractor's rule shows of
\* the page, and all of it unless the result says that it is truncated, the time ran out,
\* or the page ends within a reference or a tag.
THEOREM ResultsToldTrue == WebSpec => []ResultsTell
<1>1. WebInv => ResultsTell
  BY DEF WebInv
<1> QED
  BY <1>1, WebInvariant, PTL

\* mcp/web_server.py:236-272: every request read but the one at work has exactly one reply,
\* in the order of the requests, however long the conversation and whichever call fails:
\* but for a request whose params are no object, which raises outside call_tool and is the
\* last that is read.
THEOREM RepliesComeInOrder == WebSpec => []RepliesInOrder
<1>1. WebInv => RepliesInOrder
  BY DEF WebInv
<1> QED
  BY <1>1, WebInvariant, PTL

-----------------------------------------------------------------------------
(* The proxy *)

\* The pipes run while handle awaits them, and are through together when it goes on.
PipesByStage ==
    /\ handle \in {"head", "vet", "dial", "greet", "raised"} =>
          \A e \in Ends : pipe[e] = "off"
    /\ handle = "pipes" => \A e \in Ends : pipe[e] # "off"
    /\ handle = "over" => pipe["client"] = pipe["upstream"] /\ pipe["client"] # "on"

\* While the pipes run, a writer is closed by the pipe that writes to it and by nothing
\* else.
ClosedByPipe ==
    handle = "pipes" => \A e \in Ends : writer[e] = "closed" => pipe[Other(e)] = "over"

\* Before the pipes the client is there, and the server once it is dialled.
OpenByStage ==
    /\ handle \in {"head", "vet", "dial", "greet"} => writer["client"] = "open"
    /\ handle \in {"head", "vet", "dial"} => writer["upstream"] = "none"
    /\ handle = "greet" => writer["upstream"] = "open"
    /\ handle = "raised" => writer["upstream"] # "closed"
    /\ handle = "pipes" => \A e \in Ends : writer[e] # "none"

\* Nothing is passed on that was not sent, and as long as an end's writer is open, what
\* it has sent is passed on or still to be read.
Conserved ==
    \A e \in Ends :
        /\ got[Other(e)] + buffer[e] <= sent[e]
        /\ writer[e] # "closed" => got[Other(e)] + buffer[e] = sent[e]

\* If neither end broke off and one still talks, then the pipe of the other is the first
\* to end, and it has found the end of what it reads.
EndsInTurn ==
    \A e \in Ends :
        (end[e] # "gone" /\ end[Other(e)] = "talks") =>
            /\ pipe[e] = "over" => end[e] = "shut" /\ got[Other(e)] = sent[e]
            /\ pipe[Other(e)] = "over" => pipe[e] = "over"

ProxyInv ==
    /\ ProxyTypeOK /\ PipesByStage /\ ClosedByPipe /\ OpenByStage
    /\ Conserved /\ EndsInTurn

LEMMA ProxyInitInv == ProxyInit => ProxyInv
<1> SUFFICES ASSUME ProxyInit PROVE ProxyInv
  OBVIOUS
<1> USE BytesBound DEF ProxyInit, Ends, Other
<1>1. ProxyTypeOK
  BY DEF ProxyTypeOK
<1>2. PipesByStage /\ ClosedByPipe /\ OpenByStage
  BY DEF PipesByStage, ClosedByPipe, OpenByStage
<1>3. Conserved /\ EndsInTurn
  BY DEF Conserved, EndsInTurn
<1> QED
  BY <1>1, <1>2, <1>3 DEF ProxyInv

LEMMA SendsStep ==
  ASSUME ProxyInv, NEW e \in Ends, Sends(e)
  PROVE  ProxyInv'
<1> USE BytesBound DEF Ends, Other, Sends, Connected
<1> USE DEF ProxyInv, ProxyTypeOK
<1>1. ProxyTypeOK'
  BY DEF Conserved
<1>2. PipesByStage' /\ ClosedByPipe' /\ OpenByStage'
  BY <1>1 DEF PipesByStage, ClosedByPipe, OpenByStage
<1>3. Conserved'
  BY <1>1 DEF Conserved, ClosedByPipe, PipesByStage, OpenByStage
<1>4. EndsInTurn'
  BY <1>1, <1>3 DEF EndsInTurn, Conserved, ClosedByPipe, PipesByStage, OpenByStage
<1> QED
  BY <1>1, <1>2, <1>3, <1>4

LEMMA LeavesStep ==
  ASSUME ProxyInv, NEW e \in Ends, NEW how \in {"shut", "gone"}, Leaves(e, how)
  PROVE  ProxyInv'
<1> USE BytesBound DEF Ends, Other, Leaves, Connected
<1> USE DEF ProxyInv, ProxyTypeOK
<1>1. ProxyTypeOK'
  OBVIOUS
<1>2. PipesByStage' /\ ClosedByPipe' /\ OpenByStage'
  BY <1>1 DEF PipesByStage, ClosedByPipe, OpenByStage
<1>3. Conserved'
  BY <1>1 DEF Conserved, ClosedByPipe, PipesByStage, OpenByStage
<1>4. EndsInTurn'
  BY <1>1, <1>3 DEF EndsInTurn, Conserved, ClosedByPipe, PipesByStage, OpenByStage
<1> QED
  BY <1>1, <1>2, <1>3, <1>4

LEMMA ReadHeadStep ==
  ASSUME ProxyInv, ReadHead
  PROVE  ProxyInv'
<1> USE BytesBound DEF Ends, Other, ReadHead, Becomes, GivesUp, Raises
<1> USE DEF ProxyInv, ProxyTypeOK
<1>1. ProxyTypeOK'
  OBVIOUS
<1>2. PipesByStage' /\ ClosedByPipe' /\ OpenByStage'
  BY <1>1 DEF PipesByStage, ClosedByPipe, OpenByStage
<1>3. Conserved'
  BY <1>1 DEF Conserved, ClosedByPipe, PipesByStage, OpenByStage
<1>4. EndsInTurn'
  BY <1>1, <1>3 DEF EndsInTurn, Conserved, ClosedByPipe, PipesByStage, OpenByStage
<1> QED
  BY <1>1, <1>2, <1>3, <1>4

LEMMA VettedStep ==
  ASSUME ProxyInv, Vetted
  PROVE  ProxyInv'
<1> USE BytesBound DEF Ends, Other, Vetted, Becomes, GivesUp, Raises
<1> USE DEF ProxyInv, ProxyTypeOK
<1>1. ProxyTypeOK'
  OBVIOUS
<1>2. PipesByStage' /\ ClosedByPipe' /\ OpenByStage'
  BY <1>1 DEF PipesByStage, ClosedByPipe, OpenByStage
<1>3. Conserved'
  BY <1>1 DEF Conserved, ClosedByPipe, PipesByStage, OpenByStage
<1>4. EndsInTurn'
  BY <1>1, <1>3 DEF EndsInTurn, Conserved, ClosedByPipe, PipesByStage, OpenByStage
<1> QED
  BY <1>1, <1>2, <1>3, <1>4

LEMMA DialledStep ==
  ASSUME ProxyInv, Dialled
  PROVE  ProxyInv'
<1> USE BytesBound DEF Ends, Other, Dialled, Becomes, GivesUp, Raises
<1> USE DEF ProxyInv, ProxyTypeOK
<1>1. ProxyTypeOK'
  OBVIOUS
<1>2. PipesByStage' /\ ClosedByPipe' /\ OpenByStage'
  BY <1>1 DEF PipesByStage, ClosedByPipe, OpenByStage
<1>3. Conserved'
  BY <1>1 DEF Conserved, ClosedByPipe, PipesByStage, OpenByStage
<1>4. EndsInTurn'
  BY <1>1, <1>3 DEF EndsInTurn, Conserved, ClosedByPipe, PipesByStage, OpenByStage
<1> QED
  BY <1>1, <1>2, <1>3, <1>4

LEMMA GreetedStep ==
  ASSUME ProxyInv, Greeted
  PROVE  ProxyInv'
<1> USE BytesBound DEF Ends, Other, Greeted, Becomes, Raises
<1> USE DEF ProxyInv, ProxyTypeOK
<1>1. ProxyTypeOK'
  OBVIOUS
<1>2. PipesByStage' /\ ClosedByPipe' /\ OpenByStage'
  BY <1>1 DEF PipesByStage, ClosedByPipe, OpenByStage
<1>3. Conserved'
  BY <1>1 DEF Conserved, ClosedByPipe, PipesByStage, OpenByStage
<1>4. EndsInTurn'
  BY <1>1, <1>3 DEF EndsInTurn, Conserved, ClosedByPipe, PipesByStage, OpenByStage
<1> QED
  BY <1>1, <1>2, <1>3, <1>4

LEMMA BothOverStep ==
  ASSUME ProxyInv, BothOver
  PROVE  ProxyInv'
<1> USE BytesBound DEF Ends, Other, BothOver, Becomes
<1> USE DEF ProxyInv, ProxyTypeOK
<1>1. ProxyTypeOK'
  OBVIOUS
<1>2. PipesByStage' /\ ClosedByPipe' /\ OpenByStage'
  BY <1>1 DEF PipesByStage, ClosedByPipe, OpenByStage
<1>3. Conserved'
  BY <1>1 DEF Conserved, ClosedByPipe, PipesByStage, OpenByStage
<1>4. EndsInTurn'
  BY <1>1, <1>3 DEF EndsInTurn, Conserved, ClosedByPipe, PipesByStage, OpenByStage
<1> QED
  BY <1>1, <1>2, <1>3, <1>4

LEMMA CopiesStep ==
  ASSUME ProxyInv, NEW e \in Ends, Copies(e)
  PROVE  ProxyInv'
<1> USE BytesBound DEF Ends, Other, Copies
<1> USE DEF ProxyInv, ProxyTypeOK
<1>1. ProxyTypeOK'
  BY DEF Conserved
<1>2. PipesByStage' /\ ClosedByPipe' /\ OpenByStage'
  BY <1>1 DEF PipesByStage, ClosedByPipe, OpenByStage
<1>3. Conserved'
  BY <1>1 DEF Conserved, ClosedByPipe, PipesByStage, OpenByStage
<1>4. EndsInTurn'
  BY <1>1, <1>3 DEF EndsInTurn, Conserved, ClosedByPipe, PipesByStage, OpenByStage
<1> QED
  BY <1>1, <1>2, <1>3, <1>4

LEMMA FindsEndStep ==
  ASSUME ProxyInv, NEW e \in Ends, FindsEnd(e)
  PROVE  ProxyInv'
<1> USE BytesBound DEF Ends, Other, FindsEnd, Closes, AtEnd, SaidSo
<1> USE DEF ProxyInv, ProxyTypeOK
<1>1. ProxyTypeOK'
  OBVIOUS
<1>2. PipesByStage' /\ ClosedByPipe' /\ OpenByStage'
  BY <1>1 DEF PipesByStage, ClosedByPipe, OpenByStage
<1>3. Conserved'
  BY <1>1 DEF Conserved, ClosedByPipe, PipesByStage, OpenByStage
<1>4. EndsInTurn'
  BY <1>1, <1>3 DEF EndsInTurn, Conserved, ClosedByPipe, PipesByStage, OpenByStage
<1> QED
  BY <1>1, <1>2, <1>3, <1>4

LEMMA BreaksStep ==
  ASSUME ProxyInv, NEW e \in Ends, Breaks(e)
  PROVE  ProxyInv'
<1> USE BytesBound DEF Ends, Other, Breaks, Closes
<1> USE DEF ProxyInv, ProxyTypeOK
<1>1. ProxyTypeOK'
  OBVIOUS
<1>2. PipesByStage' /\ ClosedByPipe' /\ OpenByStage'
  BY <1>1 DEF PipesByStage, ClosedByPipe, OpenByStage
<1>3. Conserved'
  BY <1>1 DEF Conserved, ClosedByPipe, PipesByStage, OpenByStage
<1>4. EndsInTurn'
  BY <1>1, <1>3 DEF EndsInTurn, Conserved, ClosedByPipe, PipesByStage, OpenByStage
<1> QED
  BY <1>1, <1>2, <1>3, <1>4

LEMMA ProxyUnchanged ==
  ASSUME ProxyInv, UNCHANGED proxyVars
  PROVE  ProxyInv'
BY DEF ProxyInv, proxyVars, ProxyTypeOK, PipesByStage, ClosedByPipe, OpenByStage,
       Conserved, EndsInTurn

LEMMA ProxyInvariant == ProxySpec => []ProxyInv
<1>1. ProxyInit => ProxyInv
  BY ProxyInitInv
<1>2. ProxyInv /\ [ProxyNext]_proxyVars => ProxyInv'
  BY ProxyUnchanged, SendsStep, LeavesStep, ReadHeadStep, VettedStep, DialledStep,
     GreetedStep, BothOverStep, CopiesStep, FindsEndStep, BreaksStep DEF ProxyNext
<1> QED
  BY <1>1, <1>2, PTL DEF ProxySpec

\* mcp/egress_proxy.py:30-82: type correctness of a tunnel of the proxy.
THEOREM ProxyTypes == ProxySpec => []ProxyTypeOK
<1>1. ProxyInv => ProxyTypeOK
  BY DEF ProxyInv
<1> QED
  BY <1>1, ProxyInvariant, PTL

\* mcp/egress_proxy.py:82: for any number of bytes, all that an end has sent that shuts its
\* side in good order is passed on when its pipe is over, if the other end stays.
THEOREM NothingIsLost == ProxySpec => []NothingLost
<1>1. ProxyInv => NothingLost
  BY DEF ProxyInv, EndsInTurn, NothingLost, Ends, Other
<1> QED
  BY <1>1, ProxyInvariant, PTL
=============================================================================
