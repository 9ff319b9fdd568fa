------------------------- MODULE DmaTransferProofs -------------------------
(***************************************************************************)
(* Proofs about DmaTransfer with one caller, for every page size, page     *)
(* table, set of requests, poll count and behaviour of the engine.         *)
(*                                                                         *)
(* The argument has two halves. The first is about data: what the loops    *)
(* over pages and segments compute. They are recursive functions, so each  *)
(* fact is an induction; SetInduction below gives it, for a set in place   *)
(* of a predicate. It ends in Laid: the scatterlist, joined by the mapping *)
(* or not, lists the bytes of the buffer in order. The second half is an   *)
(* inductive invariant in parts, one per resource, each resting on those   *)
(* before it: the caller (CallInv), the pins (PinInv), the scatterlist     *)
(* (SglInv), the engine and its chain (EngineInv), written pages           *)
(* (DirtyInv), the untouched source (SourceInv) and the bytes that have    *)
(* arrived (MovedInv).                                                     *)
(***************************************************************************)
EXTENDS DmaTransfer, FiniteSetTheorems, SequenceTheorems, TLAPS

-----------------------------------------------------------------------------
(* Induction and division *)

\* Every set of naturals has a least element: the initial segments below its
\* members are finite sets, well-founded by strict inclusion.
LEMMA LeastElement ==
  ASSUME NEW T, T \subseteq Nat, T # {}
  PROVE  \E m \in T : \A k \in T : m <= k
<1> DEFINE C == {0 .. n : n \in T}
<1>1. IsWellFoundedOn(StrictSubsetOrdering(Nat), FiniteSubsetsOf(Nat))
  BY FS_StrictSubsetOrderingWellFounded
<1>2. C \subseteq FiniteSubsetsOf(Nat)
  <2>1. ASSUME NEW n \in T PROVE IsFiniteSet(0 .. n) /\ 0 .. n \subseteq Nat
    BY FS_Interval
  <2>. QED BY <2>1 DEF FiniteSubsetsOf
<1>3. C # {}
  OBVIOUS
<1>4. PICK x \in C : \A y \in C : ~ (<<y, x>> \in StrictSubsetOrdering(Nat))
  <2>. HIDE DEF C
  <2>. QED BY <1>1, <1>2, <1>3, WFMin
<1>5. PICK m \in T : x = 0 .. m
  OBVIOUS
<1>6. ASSUME NEW k \in T, ~(m <= k) PROVE FALSE
  <2>1. 0 .. k \in C OBVIOUS
  <2>2. 0 .. k \subseteq 0 .. m /\ m \in 0 .. m /\ m \notin 0 .. k BY <1>6
  <2>3. <<0 .. k, x>> \in StrictSubsetOrdering(Nat)
    <3>1. 0 .. k \in SUBSET Nat /\ 0 .. m \in SUBSET Nat OBVIOUS
    <3>2. 0 .. k # 0 .. m BY <2>2
    <3>. QED BY <3>1, <3>2, <2>2, <1>5 DEF StrictSubsetOrdering
  <2>. QED BY <1>4, <2>1, <2>3
<1>. QED BY <1>6

\* Induction over the naturals, for a set in place of a predicate.
LEMMA SetInduction ==
  ASSUME NEW S, 0 \in S, \A n \in Nat : n \in S => n + 1 \in S
  PROVE  Nat \subseteq S
<1>1. SUFFICES ASSUME Nat \ S # {} PROVE FALSE OBVIOUS
<1>2. PICK m \in Nat \ S : \A k \in Nat \ S : m <= k
  <2> DEFINE T == Nat \ S
  <2>1. T \subseteq Nat /\ T # {} BY <1>1
  <2>. HIDE DEF T
  <2>2. \E m \in T : \A k \in T : m <= k BY <2>1, LeastElement
  <2>. QED BY <2>2 DEF T
<1>3. m # 0 /\ m - 1 \in Nat /\ ~ (m <= m - 1) OBVIOUS
<1>4. m - 1 \in S BY <1>2, <1>3
<1>. QED BY <1>3, <1>4

\* Division with remainder, and that quotient and remainder are unique.
LEMMA DivMod ==
  ASSUME NEW a \in Nat, NEW p \in Nat, p # 0
  PROVE  /\ a \div p \in Nat /\ a % p \in 0 .. p - 1
         /\ a = (a \div p) * p + (a % p)
OBVIOUS

LEMMA DivUnique ==
  ASSUME NEW q \in Nat, NEW p \in Nat, p # 0, NEW o \in 0 .. p - 1
  PROVE  (q * p + o) \div p = q /\ (q * p + o) % p = o
OBVIOUS

-----------------------------------------------------------------------------
(* Sums of segment lengths *)

Sums(s, n) ==
  CHOOSE g : g = [j \in 0 .. n |-> IF j = 0 THEN 0 ELSE g[j - 1] + s[j].length]

\* The recursion in LengthUpTo has a solution.
LEMMA SumsDefined ==
  ASSUME NEW s
  PROVE  \A n \in Nat :
           Sums(s, n) = [j \in 0 .. n |-> IF j = 0 THEN 0 ELSE Sums(s, n)[j - 1] + s[j].length]
<1> DEFINE IsSum(g, n) == g = [j \in 0 .. n |-> IF j = 0 THEN 0 ELSE g[j - 1] + s[j].length]
           S == {n \in Nat : \E g : IsSum(g, n)}
<1>1. 0 \in S
  <2>1. IsSum([j \in 0 .. 0 |-> 0], 0) OBVIOUS
  <2>. QED BY <2>1
<1>2. ASSUME NEW n \in Nat, n \in S PROVE n + 1 \in S
  <2>1. PICK g : IsSum(g, n) BY <1>2
  <2> DEFINE h == [j \in 0 .. n + 1 |-> IF j <= n THEN g[j] ELSE g[n] + s[n + 1].length]
  <2>2. ASSUME NEW j \in 0 .. n + 1 PROVE h[j] = IF j = 0 THEN 0 ELSE h[j - 1] + s[j].length
    <3>1. CASE j = 0 BY <3>1, <2>1
    <3>2. CASE j \in 1 .. n
      <4>1. h[j] = g[j] /\ h[j - 1] = g[j - 1] /\ j # 0 BY <3>2
      <4>2. g[j] = g[j - 1] + s[j].length BY <2>1, <3>2
      <4>. HIDE DEF h
      <4>. QED BY <4>1, <4>2
    <3>3. CASE j = n + 1
      <4>1. h[j] = g[n] + s[n + 1].length /\ h[j - 1] = g[n] /\ j # 0 BY <3>3
      <4>. HIDE DEF h
      <4>. QED BY <4>1, <3>3
    <3>. QED BY <3>1, <3>2, <3>3
  <2>3. h = [j \in 0 .. n + 1 |-> h[j]] OBVIOUS
  <2>4. IsSum(h, n + 1)
    <3>. HIDE DEF h
    <3>. QED BY <2>2, <2>3
  <2>5. \E k : IsSum(k, n + 1)
    <3>. HIDE DEF h, IsSum
    <3>. QED BY <2>4
  <2>6. n + 1 \in Nat OBVIOUS
  <2>. HIDE DEF IsSum
  <2>. QED BY <2>5, <2>6
<1>3. Nat \subseteq S
  <2>. HIDE DEF S
  <2>. QED BY <1>1, <1>2, SetInduction
<1>4. ASSUME NEW n \in Nat PROVE IsSum(Sums(s, n), n)
  <2>1. PICK g : IsSum(g, n) BY <1>3
  <2>. QED BY <2>1, Zenon DEF Sums
<1>. QED BY <1>4

\* What LengthUpTo computes.
LEMMA LengthUpToUnfolds ==
  ASSUME NEW s
  PROVE  /\ LengthUpTo(s, 0) = 0
         /\ \A n \in Nat : LengthUpTo(s, n + 1) = LengthUpTo(s, n) + s[n + 1].length
<1>1. ASSUME NEW n \in Nat PROVE LengthUpTo(s, n) = Sums(s, n)[n]
  BY DEF LengthUpTo, Sums
<1>2. ASSUME NEW n \in Nat, NEW j \in 0 .. n
      PROVE  Sums(s, n)[j] = IF j = 0 THEN 0 ELSE Sums(s, n)[j - 1] + s[j].length
  BY SumsDefined
<1> DEFINE S == {j \in Nat : \A n \in Nat : j <= n => Sums(s, n)[j] = Sums(s, j)[j]}
<1>3. 0 \in S
  BY <1>2
<1>4. ASSUME NEW j \in Nat, j \in S PROVE j + 1 \in S
  <2>1. ASSUME NEW n \in Nat, j + 1 <= n
        PROVE  Sums(s, n)[j + 1] = Sums(s, j)[j] + s[j + 1].length
    <3>1. Sums(s, n)[j] = Sums(s, j)[j] BY <1>4, <2>1
    <3>2. j + 1 \in 0 .. n /\ j + 1 # 0 /\ (j + 1) - 1 = j BY <2>1
    <3>3. Sums(s, n)[j + 1] = Sums(s, n)[(j + 1) - 1] + s[j + 1].length BY <1>2, <3>2
    <3>. QED BY <3>1, <3>2, <3>3
  <2>2. j + 1 \in Nat /\ j + 1 <= j + 1 OBVIOUS
  <2>3. Sums(s, j + 1)[j + 1] = Sums(s, j)[j] + s[j + 1].length BY <2>1, <2>2
  <2>. QED BY <2>1, <2>3
<1>5. Nat \subseteq S
  <2>. HIDE DEF S
  <2>. QED BY <1>3, <1>4, SetInduction
<1>6. ASSUME NEW n \in Nat PROVE LengthUpTo(s, n + 1) = LengthUpTo(s, n) + s[n + 1].length
  <2>1. n + 1 \in Nat /\ n + 1 \in 0 .. n + 1 /\ n + 1 # 0 /\ (n + 1) - 1 = n /\ n <= n + 1 OBVIOUS
  <2>2. Sums(s, n + 1)[n + 1] = Sums(s, n + 1)[n] + s[n + 1].length BY <1>2, <2>1
  <2>3. Sums(s, n + 1)[n] = Sums(s, n)[n] BY <1>5, <2>1
  <2>4. LengthUpTo(s, n + 1) = Sums(s, n + 1)[n + 1] BY <1>1, <2>1
  <2>. QED BY <1>1, <2>2, <2>3, <2>4
<1>7. LengthUpTo(s, 0) = 0
  <2>1. 0 \in 0 .. 0 OBVIOUS
  <2>2. Sums(s, 0)[0] = 0 BY <1>2, <2>1
  <2>. QED BY <1>1, <2>2
<1>. QED BY <1>6, <1>7

-----------------------------------------------------------------------------
(* The scatterlist *)

OffsetIn(r, i) == IF i = 1 THEN offset_in_page(r.host_vaddr) ELSE 0

\* What the loop still has to place before its i-th entry.
Left(r, n) ==
  CHOOSE g : g = [i \in 1 .. n + 1 |->
    IF i = 1 THEN r.size
    ELSE g[i - 1] - Smaller(g[i - 1], PAGE_SIZE - OffsetIn(r, i - 1))]

\* So has the one in FillSgl.
LEMMA LeftDefined ==
  ASSUME NEW r
  PROVE  \A n \in Nat :
           Left(r, n) = [i \in 1 .. n + 1 |->
             IF i = 1 THEN r.size
             ELSE Left(r, n)[i - 1] - Smaller(Left(r, n)[i - 1], PAGE_SIZE - OffsetIn(r, i - 1))]
<1> DEFINE Rest1(x, i) == x - Smaller(x, PAGE_SIZE - OffsetIn(r, i - 1))
           IsLeft(g, n) == g = [i \in 1 .. n + 1 |-> IF i = 1 THEN r.size ELSE Rest1(g[i - 1], i)]
           S == {n \in Nat : \E g : IsLeft(g, n)}
<1>. HIDE DEF Rest1
<1>1. 0 \in S
  <2>1. IsLeft([i \in 1 .. 0 + 1 |-> r.size], 0) OBVIOUS
  <2>2. \E g : IsLeft(g, 0)
    <3>. HIDE DEF IsLeft
    <3>. QED BY <2>1
  <2>. HIDE DEF IsLeft
  <2>. QED BY <2>2
<1>2. ASSUME NEW n \in Nat, n \in S PROVE n + 1 \in S
  <2>1. PICK g : IsLeft(g, n) BY <1>2
  <2> DEFINE h == [i \in 1 .. (n + 1) + 1 |-> IF i <= n + 1 THEN g[i] ELSE Rest1(g[n + 1], n + 2)]
  <2>2. ASSUME NEW i \in 1 .. (n + 1) + 1 PROVE h[i] = IF i = 1 THEN r.size ELSE Rest1(h[i - 1], i)
    <3>1. CASE i = 1 BY <3>1, <2>1
    <3>2. CASE i \in 2 .. n + 1
      <4>1. h[i] = g[i] /\ h[i - 1] = g[i - 1] /\ i # 1 BY <3>2
      <4>2. g[i] = Rest1(g[i - 1], i) BY <2>1, <3>2
      <4>. HIDE DEF h
      <4>. QED BY <4>1, <4>2
    <3>3. CASE i = n + 2
      <4>1. h[i] = Rest1(g[n + 1], n + 2) /\ h[i - 1] = g[n + 1] /\ i # 1 BY <3>3
      <4>. HIDE DEF h
      <4>. QED BY <4>1, <3>3
    <3>. QED BY <3>1, <3>2, <3>3
  <2>3. h = [i \in 1 .. (n + 1) + 1 |-> h[i]] OBVIOUS
  <2>4. IsLeft(h, n + 1)
    <3>. HIDE DEF h
    <3>. QED BY <2>2, <2>3
  <2>5. \E k : IsLeft(k, n + 1)
    <3>. HIDE DEF h, IsLeft
    <3>. QED BY <2>4
  <2>6. n + 1 \in Nat OBVIOUS
  <2>. HIDE DEF IsLeft
  <2>. QED BY <2>5, <2>6
<1>3. Nat \subseteq S
  <2>. HIDE DEF S
  <2>. QED BY <1>1, <1>2, SetInduction
<1>4. ASSUME NEW n \in Nat PROVE IsLeft(Left(r, n), n)
  <2>1. PICK g : IsLeft(g, n) BY <1>3
  <2>. QED BY <2>1, Zenon DEF Left, Rest1
<1>. QED BY <1>4 DEF Rest1

LEMMA FillSglIs ==
  ASSUME NEW r, NEW pages, NEW n
  PROVE  FillSgl(r, pages, n) =
           [i \in 1 .. n |-> [addr   |-> pages[i] * PAGE_SIZE + OffsetIn(r, i),
                              length |-> Smaller(Left(r, n)[i], PAGE_SIZE - OffsetIn(r, i))]]
BY DEF FillSgl, Left, OffsetIn

\* Bytes of the buffer in its first i pages, were it long enough.
Full(r, i) == IF i = 0 THEN 0 ELSE i * PAGE_SIZE - offset_in_page(r.host_vaddr)

LEMMA FullGrows ==
  ASSUME NEW r, r.host_vaddr \in Nat
  PROVE  /\ Full(r, 0) = 0
         /\ \A i \in Nat : /\ Full(r, i) \in Nat
                            /\ OffsetIn(r, i) \in 0 .. PAGE_SIZE - 1
                            /\ Full(r, i + 1) = Full(r, i) + (PAGE_SIZE - OffsetIn(r, i + 1))
<1>1. PAGE_SIZE \in Nat /\ PAGE_SIZE # 0 BY GeometryAssumption
<1> DEFINE off == offset_in_page(r.host_vaddr)
<1>2. off \in 0 .. PAGE_SIZE - 1 BY <1>1, DivMod DEF offset_in_page
<1>3. ASSUME NEW i \in Nat PROVE Full(r, i) \in Nat
  <2>1. CASE i = 0 BY <2>1 DEF Full
  <2>2. CASE i # 0
    <3>1. i * PAGE_SIZE >= PAGE_SIZE /\ i * PAGE_SIZE \in Nat BY <2>2, <1>1
    <3>. QED BY <3>1, <2>2, <1>1, <1>2 DEF Full
  <2>. QED BY <2>1, <2>2
<1>4. ASSUME NEW i \in Nat PROVE Full(r, i + 1) = Full(r, i) + (PAGE_SIZE - OffsetIn(r, i + 1))
  <2>1. i * PAGE_SIZE \in Nat /\ (i + 1) * PAGE_SIZE = i * PAGE_SIZE + PAGE_SIZE BY <1>1
  <2>. HIDE DEF off
  <2>2. CASE i = 0
    <3>1. Full(r, 1) = PAGE_SIZE - off /\ Full(r, 0) = 0 /\ OffsetIn(r, 1) = off
      BY <1>1, <1>2 DEF Full, OffsetIn, off
    <3>. QED BY <3>1, <2>2, <1>1, <1>2
  <2>3. CASE i # 0
    <3>1. /\ Full(r, i + 1) = (i + 1) * PAGE_SIZE - off /\ Full(r, i) = i * PAGE_SIZE - off
          /\ OffsetIn(r, i + 1) = 0
      BY <2>3 DEF Full, OffsetIn, off
    <3>. QED BY <3>1, <2>1, <1>1, <1>2
  <2>. QED BY <2>2, <2>3
<1>. QED BY <1>1, <1>2, <1>3, <1>4 DEF Full, OffsetIn

Rest(r, i) == IF r.size > Full(r, i) THEN r.size - Full(r, i) ELSE 0

\* What the loop has left is what lies beyond the pages it has passed.
LEMMA LeftIsRest ==
  ASSUME NEW r, r.host_vaddr \in Nat, r.size \in Nat, NEW n \in Nat
  PROVE  \A i \in 0 .. n : Left(r, n)[i + 1] = Rest(r, i)
<1>1. PAGE_SIZE \in Nat /\ PAGE_SIZE # 0 BY GeometryAssumption
<1>2. /\ Full(r, 0) = 0
      /\ \A i \in Nat : /\ Full(r, i) \in Nat
                         /\ OffsetIn(r, i) \in 0 .. PAGE_SIZE - 1
                         /\ Full(r, i + 1) = Full(r, i) + (PAGE_SIZE - OffsetIn(r, i + 1))
  BY FullGrows
<1> DEFINE S == {i \in Nat : i <= n => Left(r, n)[i + 1] = Rest(r, i)}
<1>3. ASSUME NEW i \in 1 .. n + 1
      PROVE  Left(r, n)[i] = IF i = 1 THEN r.size ELSE
               Left(r, n)[i - 1] - Smaller(Left(r, n)[i - 1], PAGE_SIZE - OffsetIn(r, i - 1))
  BY LeftDefined
<1>4. 0 \in S
  <2>1. Left(r, n)[1] = r.size BY <1>3
  <2>. QED BY <2>1, <1>2 DEF Rest
<1>5. ASSUME NEW i \in Nat, i \in S PROVE i + 1 \in S
  <2>1. SUFFICES ASSUME i + 1 <= n PROVE Left(r, n)[(i + 1) + 1] = Rest(r, i + 1) OBVIOUS
  <2>2. Left(r, n)[i + 1] = Rest(r, i) BY <1>5, <2>1
  <2>3. i + 2 \in 1 .. n + 1 /\ i + 2 # 1 /\ (i + 2) - 1 = i + 1 /\ (i + 1) + 1 = i + 2 BY <2>1
  <2>4. Left(r, n)[i + 2] = Rest(r, i) - Smaller(Rest(r, i), PAGE_SIZE - OffsetIn(r, i + 1))
    BY <1>3, <2>2, <2>3
  <2>5. /\ Full(r, i) \in Nat /\ OffsetIn(r, i + 1) \in 0 .. PAGE_SIZE - 1
        /\ Full(r, i + 1) = Full(r, i) + (PAGE_SIZE - OffsetIn(r, i + 1))
    BY <1>2
  <2>. QED BY <2>3, <2>4, <2>5, <1>1 DEF Rest, Smaller
<1>6. Nat \subseteq S
  <2>. HIDE DEF S
  <2>. QED BY <1>4, <1>5, SetInduction
<1>. QED BY <1>6

LEMMA FillLength ==
  ASSUME NEW r, r.host_vaddr \in Nat, r.size \in Nat, NEW n \in Nat, NEW pages
  PROVE  \A i \in 1 .. n :
           /\ FillSgl(r, pages, n)[i] =
                [addr |-> pages[i] * PAGE_SIZE + OffsetIn(r, i), length |-> Rest(r, i - 1) - Rest(r, i)]
           /\ Rest(r, i - 1) - Rest(r, i) \in 0 .. PAGE_SIZE - OffsetIn(r, i)
           /\ Rest(r, i - 1) - Rest(r, i) # 0 => Rest(r, i - 1) = r.size - Full(r, i - 1)
<1>1. TAKE i \in 1 .. n
<1>2. PAGE_SIZE \in Nat /\ PAGE_SIZE # 0 BY GeometryAssumption
<1>3. i - 1 \in Nat /\ i - 1 \in 0 .. n /\ i \in 0 .. n /\ (i - 1) + 1 = i OBVIOUS
<1>4. /\ Full(r, i - 1) \in Nat /\ OffsetIn(r, i) \in 0 .. PAGE_SIZE - 1
      /\ Full(r, i) = Full(r, i - 1) + (PAGE_SIZE - OffsetIn(r, i))
  BY <1>3, FullGrows
<1>5. Left(r, n)[i] = Rest(r, i - 1)
  BY <1>3, LeftIsRest
<1>6. /\ Smaller(Rest(r, i - 1), PAGE_SIZE - OffsetIn(r, i)) = Rest(r, i - 1) - Rest(r, i)
      /\ Rest(r, i - 1) - Rest(r, i) \in 0 .. PAGE_SIZE - OffsetIn(r, i)
      /\ Rest(r, i - 1) - Rest(r, i) # 0 => Rest(r, i - 1) = r.size - Full(r, i - 1)
  BY <1>2, <1>4 DEF Rest, Smaller
<1>7. FillSgl(r, pages, n)[i] =
        [addr   |-> pages[i] * PAGE_SIZE + OffsetIn(r, i),
         length |-> Smaller(Left(r, n)[i], PAGE_SIZE - OffsetIn(r, i))]
  BY FillSglIs
<1>. QED BY <1>5, <1>6, <1>7

Segments == [addr : Nat, length : Nat]

\* Sums of lengths are naturals, and grow.
LEMMA SumsGrow ==
  ASSUME NEW s \in Seq(Segments)
  PROVE  /\ LengthUpTo(s, 0) = 0
         /\ \A i \in 0 .. Len(s) : LengthUpTo(s, i) \in Nat
         /\ \A i \in 1 .. Len(s) : /\ s[i].length \in Nat /\ s[i].addr \in Nat
                                    /\ LengthUpTo(s, i) = LengthUpTo(s, i - 1) + s[i].length
<1>1. ASSUME NEW i \in 1 .. Len(s) PROVE s[i].length \in Nat /\ s[i].addr \in Nat
  <2>1. s[i] \in Segments BY ElementOfSeq
  <2>. QED BY <2>1 DEF Segments
<1>2. ASSUME NEW i \in 1 .. Len(s) PROVE LengthUpTo(s, i) = LengthUpTo(s, i - 1) + s[i].length
  <2>1. i - 1 \in Nat /\ (i - 1) + 1 = i OBVIOUS
  <2>. QED BY <2>1, LengthUpToUnfolds
<1> DEFINE S == {i \in Nat : i <= Len(s) => LengthUpTo(s, i) \in Nat}
<1>3. 0 \in S BY LengthUpToUnfolds
<1>4. ASSUME NEW i \in Nat, i \in S PROVE i + 1 \in S
  <2>1. SUFFICES ASSUME i + 1 <= Len(s) PROVE LengthUpTo(s, i + 1) \in Nat OBVIOUS
  <2>2. LengthUpTo(s, i) \in Nat /\ i + 1 \in 1 .. Len(s) BY <1>4, <2>1
  <2>3. LengthUpTo(s, i + 1) = LengthUpTo(s, i) + s[i + 1].length BY LengthUpToUnfolds
  <2>. QED BY <1>1, <2>2, <2>3
<1>5. Nat \subseteq S
  <2>. HIDE DEF S
  <2>. QED BY <1>3, <1>4, SetInduction
<1>6. ASSUME NEW i \in 0 .. Len(s) PROVE LengthUpTo(s, i) \in Nat
  <2>1. Len(s) \in Nat /\ i \in Nat /\ i <= Len(s) OBVIOUS
  <2>. QED BY <1>5, <2>1
<1>7. LengthUpTo(s, 0) = 0 BY LengthUpToUnfolds
<1>. QED BY <1>1, <1>2, <1>6, <1>7

LEMMA SumsOrdered ==
  ASSUME NEW s \in Seq(Segments), NEW i \in 0 .. Len(s), NEW m \in 0 .. Len(s), i <= m
  PROVE  LengthUpTo(s, i) <= LengthUpTo(s, m)
<1>1. Len(s) \in Nat OBVIOUS
<1>. HIDE DEF LengthUpTo
<1> DEFINE S == {k \in Nat : i + k <= Len(s) => LengthUpTo(s, i) <= LengthUpTo(s, i + k)}
<1>2. 0 \in S BY SumsGrow
<1>3. ASSUME NEW k \in Nat, k \in S PROVE k + 1 \in S
  <2>1. SUFFICES ASSUME i + (k + 1) <= Len(s)
                 PROVE  LengthUpTo(s, i) <= LengthUpTo(s, i + (k + 1)) OBVIOUS
  <2>2. /\ LengthUpTo(s, i) <= LengthUpTo(s, i + k)
        /\ i + (k + 1) \in 1 .. Len(s) /\ i + k \in 0 .. Len(s) /\ (i + (k + 1)) - 1 = i + k
    BY <1>3, <2>1
  <2>3. /\ LengthUpTo(s, i + (k + 1)) = LengthUpTo(s, i + k) + s[i + (k + 1)].length
        /\ s[i + (k + 1)].length \in Nat
        /\ LengthUpTo(s, i + k) \in Nat /\ LengthUpTo(s, i) \in Nat
    BY <2>2, SumsGrow
  <2>. QED BY <2>2, <2>3
<1>4. Nat \subseteq S
  <2>. HIDE DEF S
  <2>. QED BY <1>2, <1>3, SetInduction
<1>5. m - i \in Nat /\ i + (m - i) = m /\ m <= Len(s) BY <1>1
<1>. QED BY <1>1, <1>4, <1>5

LEMMA SumsMonotone ==
  ASSUME NEW s \in Seq(Segments), NEW i \in 0 .. Len(s)
  PROVE  LengthUpTo(s, i) <= LengthUpTo(s, Len(s))
<1>1. Len(s) \in Nat /\ Len(s) \in 0 .. Len(s) /\ i <= Len(s) OBVIOUS
<1>. QED BY <1>1, SumsOrdered

\* Every byte lies in a segment.
LEMMA SegmentOf ==
  ASSUME NEW s \in Seq(Segments), NEW j \in Nat, j < LengthUpTo(s, Len(s))
  PROVE  \E i \in 1 .. Len(s) : LengthUpTo(s, i - 1) <= j /\ j < LengthUpTo(s, i)
<1>1. Len(s) \in Nat OBVIOUS
<1> DEFINE T == {i \in Nat : i <= Len(s) /\ j < LengthUpTo(s, i)}
<1>2. T \subseteq Nat /\ Len(s) \in T BY <1>1
<1>3. PICK m \in T : \A k \in T : m <= k
  <2>. HIDE DEF T
  <2>. QED BY <1>2, LeastElement
<1>4. m # 0 BY SumsGrow
<1>5. m \in 1 .. Len(s) /\ m - 1 \in Nat /\ m - 1 <= Len(s) /\ ~(m <= m - 1) BY <1>1, <1>4
<1>6. m - 1 \notin T BY <1>3, <1>5
<1>7. LengthUpTo(s, m - 1) \in Nat BY <1>5, SumsGrow
<1>8. LengthUpTo(s, m - 1) <= j BY <1>5, <1>6, <1>7
<1>. QED BY <1>5, <1>8

-----------------------------------------------------------------------------
(* A scatterlist that covers the buffer *)

Byte(r, j) == Phys(r.host_vaddr + j)

Laid(s, r) ==
  /\ s \in Seq(Segments) /\ Len(s) \in 1 .. NumPages(r)
  /\ LengthUpTo(s, Len(s)) = r.size
  /\ \A i \in 1 .. Len(s), o \in Nat :
       o < s[i].length => Byte(r, LengthUpTo(s, i - 1) + o) = s[i].addr + o

LEMMA PageCount ==
  ASSUME NEW r, r.host_vaddr \in Nat, r.size \in Nat, Valid(r)
  PROVE  NumPages(r) \in 1 .. MAX_PAGES /\ r.size <= Full(r, NumPages(r))
<1>1. PAGE_SIZE \in Nat /\ PAGE_SIZE # 0 /\ MAX_PAGES \in Nat BY GeometryAssumption
<1> DEFINE off == offset_in_page(r.host_vaddr)
           x == off + r.size + PAGE_SIZE - 1
           n == x \div PAGE_SIZE
<1>2. off \in 0 .. PAGE_SIZE - 1 BY <1>1, DivMod DEF offset_in_page
<1>3. x \in Nat /\ r.size >= 1 BY <1>1, <1>2 DEF Valid
<1>4. n \in Nat /\ x % PAGE_SIZE \in 0 .. PAGE_SIZE - 1 /\ x = n * PAGE_SIZE + (x % PAGE_SIZE)
  <2>. HIDE DEF x
  <2>. QED BY <1>1, <1>3, DivMod
<1>5. n = NumPages(r) /\ n <= MAX_PAGES BY DEF NumPages, Valid
<1> DEFINE m == n * PAGE_SIZE
           y == x % PAGE_SIZE
<1>6. m \in Nat
  <2>. HIDE DEF n
  <2>. QED BY <1>1, <1>4
<1>7. m - off >= r.size
  <2>1. off + r.size + PAGE_SIZE - 1 = m + y /\ y \in 0 .. PAGE_SIZE - 1 BY <1>4
  <2>. HIDE DEF off, m, y
  <2>. QED BY <2>1, <1>1, <1>2, <1>3, <1>6
<1>8. n # 0
  <2>1. ASSUME n = 0 PROVE m = 0
    <3>. HIDE DEF n
    <3>. QED BY <2>1, <1>1
  <2>. HIDE DEF off, m, n
  <2>. QED BY <2>1, <1>2, <1>3, <1>7
<1>9. Full(r, n) = m - off BY <1>8 DEF Full
<1>. HIDE DEF n, m
<1>. QED BY <1>1, <1>4, <1>5, <1>7, <1>8, <1>9

\* The pages a request touches, where they are pinned.
Backed(r, pages, n) ==
  \A i \in 1 .. n : /\ FirstPage(r) + i - 1 \in DOMAIN Frame
                    /\ pages[i] = Frame[FirstPage(r) + i - 1]

\* A byte of the i-th page of the buffer.
LEMMA ByteOfPage ==
  ASSUME NEW r, r.host_vaddr \in Nat, NEW i \in Nat, i # 0,
         NEW o \in Nat, OffsetIn(r, i) + o < PAGE_SIZE
  PROVE  Byte(r, Full(r, i - 1) + o) =
           Frame[FirstPage(r) + i - 1] * PAGE_SIZE + (OffsetIn(r, i) + o)
<1>1. PAGE_SIZE \in Nat /\ PAGE_SIZE # 0 BY GeometryAssumption
<1> DEFINE off == offset_in_page(r.host_vaddr)
           fp  == FirstPage(r)
           q   == fp + i - 1
           c   == OffsetIn(r, i) + o
<1>2. off \in 0 .. PAGE_SIZE - 1 /\ fp \in Nat /\ r.host_vaddr = fp * PAGE_SIZE + off
  BY <1>1, DivMod DEF offset_in_page, FirstPage
<1>3. c \in 0 .. PAGE_SIZE - 1 /\ q \in Nat
  <2>1. OffsetIn(r, i) \in Nat BY <1>2 DEF OffsetIn
  <2>. QED BY <1>1, <1>2, <2>1
<1>4. r.host_vaddr + (Full(r, i - 1) + o) = q * PAGE_SIZE + c
  <2>1. CASE i = 1
    <3>1. Full(r, i - 1) = 0 /\ c = off + o /\ q = fp BY <2>1, <1>2 DEF Full, OffsetIn
    <3>. HIDE DEF off, fp, q, c
    <3>. QED BY <3>1, <1>1, <1>2
  <2>2. CASE i # 1
    <3>1. Full(r, i - 1) = (i - 1) * PAGE_SIZE - off /\ c = o BY <2>2 DEF Full, OffsetIn
    <3>2. q * PAGE_SIZE = fp * PAGE_SIZE + (i - 1) * PAGE_SIZE
      <4>. HIDE DEF fp
      <4>. QED BY <1>1, <1>2
    <3>3. fp * PAGE_SIZE \in Nat /\ (i - 1) * PAGE_SIZE \in Nat
      <4>. HIDE DEF fp
      <4>. QED BY <1>1, <1>2
    <3>. HIDE DEF off, fp, q, c
    <3>. QED BY <3>1, <3>2, <3>3, <1>1, <1>2
  <2>. QED BY <2>1, <2>2
<1>5. (q * PAGE_SIZE + c) \div PAGE_SIZE = q /\ (q * PAGE_SIZE + c) % PAGE_SIZE = c
  <2>. HIDE DEF q, c
  <2>. QED BY <1>1, <1>3, DivUnique
<1>6. Byte(r, Full(r, i - 1) + o) = Phys(q * PAGE_SIZE + c)
  BY <1>4, Zenon DEF Byte
<1>7. Phys(q * PAGE_SIZE + c) = Frame[q] * PAGE_SIZE + c
  BY <1>5, Zenon DEF Phys, offset_in_page
<1>. QED BY <1>6, <1>7, Zenon

\* The scatterlist the loop builds covers the buffer, byte by byte and in order.
LEMMA FillIsLaid ==
  ASSUME NEW r, r.host_vaddr \in Nat, r.size \in Nat, Valid(r),
         NEW pages, Backed(r, pages, NumPages(r))
  PROVE  Laid(FillSgl(r, pages, NumPages(r)), r)
<1> DEFINE n == NumPages(r)
           s == FillSgl(r, pages, n)
<1>1. PAGE_SIZE \in Nat /\ PAGE_SIZE # 0 BY GeometryAssumption
<1>2. n \in Nat /\ n >= 1 /\ r.size <= Full(r, n)
  BY PageCount, GeometryAssumption
<1>. HIDE DEF n
<1>3. ASSUME NEW i \in 1 .. n
      PROVE  /\ s[i] = [addr |-> pages[i] * PAGE_SIZE + OffsetIn(r, i), length |-> Rest(r, i - 1) - Rest(r, i)]
             /\ Rest(r, i - 1) - Rest(r, i) \in 0 .. PAGE_SIZE - OffsetIn(r, i)
             /\ Rest(r, i - 1) - Rest(r, i) # 0 => Rest(r, i - 1) = r.size - Full(r, i - 1)
  BY <1>2, FillLength
<1>4. ASSUME NEW i \in Nat
      PROVE  Full(r, i) \in Nat /\ OffsetIn(r, i) \in 0 .. PAGE_SIZE - 1 /\ Rest(r, i) \in Nat
  BY FullGrows DEF Rest
<1>5. ASSUME NEW i \in 1 .. n
      PROVE  /\ s[i].addr = pages[i] * PAGE_SIZE + OffsetIn(r, i)
             /\ s[i].length = Rest(r, i - 1) - Rest(r, i)
             /\ s[i] \in Segments
  <2>1. i \in Nat BY <1>2
  <2>2. pages[i] \in Nat BY MemoryAssumption DEF Backed, n
  <2>3. pages[i] * PAGE_SIZE \in Nat BY <1>1, <2>2
  <2>4. pages[i] * PAGE_SIZE + OffsetIn(r, i) \in Nat BY <1>1, <1>4, <2>1, <2>3
  <2> DEFINE ad == pages[i] * PAGE_SIZE + OffsetIn(r, i)
             len == Rest(r, i - 1) - Rest(r, i)
  <2>5. OffsetIn(r, i) \in 0 .. PAGE_SIZE - 1 BY <1>4, <2>1
  <2>6. s[i] = [addr |-> ad, length |-> len] /\ len \in 0 .. PAGE_SIZE - OffsetIn(r, i) BY <1>3
  <2>. HIDE DEF s, len, ad
  <2>7. len \in Nat BY <1>1, <2>5, <2>6
  <2>8. ad \in Nat BY <2>4 DEF ad
  <2>9. s[i].addr = ad /\ s[i].length = len /\ s[i] \in Segments BY <2>6, <2>7, <2>8 DEF Segments
  <2>. QED BY <2>9 DEF ad, len
<1>6. s \in Seq(Segments) /\ Len(s) = n
  <2>1. s = [i \in 1 .. n |-> s[i]] BY FillSglIs
  <2>. HIDE DEF s
  <2>2. s \in [1 .. n -> Segments] BY <2>1, <1>5
  <2>. QED BY <1>2, <2>2
<1>. HIDE DEF s
<1> DEFINE S == {i \in Nat : i <= n => LengthUpTo(s, i) = r.size - Rest(r, i)}
<1>7. Nat \subseteq S
  <2>1. 0 \in S
    <3>1. Rest(r, 0) = r.size BY DEF Rest, Full
    <3>. QED BY <3>1, LengthUpToUnfolds
  <2>2. ASSUME NEW i \in Nat, i \in S PROVE i + 1 \in S
    <3>1. SUFFICES ASSUME i + 1 <= n PROVE LengthUpTo(s, i + 1) = r.size - Rest(r, i + 1) OBVIOUS
    <3>2. LengthUpTo(s, i) = r.size - Rest(r, i) BY <2>2, <3>1, <1>2
    <3>3. LengthUpTo(s, i + 1) = LengthUpTo(s, i) + s[i + 1].length BY LengthUpToUnfolds
    <3>4. i + 1 \in 1 .. n /\ (i + 1) - 1 = i BY <3>1, <1>2
    <3>5. s[i + 1].length = Rest(r, i) - Rest(r, i + 1) BY <1>5, <3>4
    <3>6. Rest(r, i) \in Nat /\ Rest(r, i + 1) \in Nat BY <1>4
    <3>. QED BY <3>2, <3>3, <3>5, <3>6
  <2>. HIDE DEF S
  <2>. QED BY <2>1, <2>2, SetInduction
<1>8. LengthUpTo(s, n) = r.size
  <2>1. LengthUpTo(s, n) = r.size - Rest(r, n) BY <1>2, <1>7
  <2>2. Rest(r, n) = 0 BY <1>2, <1>4 DEF Rest
  <2>. QED BY <2>1, <2>2
<1>9. ASSUME NEW i \in 1 .. n, NEW o \in Nat, o < s[i].length
      PROVE  Byte(r, LengthUpTo(s, i - 1) + o) = s[i].addr + o
  <2>1. i \in Nat /\ i # 0 /\ i - 1 \in Nat /\ i - 1 <= n BY <1>2
  <2>2. s[i].length # 0 /\ OffsetIn(r, i) + o < PAGE_SIZE
    <3> DEFINE len == s[i].length
    <3>1. len \in 0 .. PAGE_SIZE - OffsetIn(r, i) /\ OffsetIn(r, i) \in 0 .. PAGE_SIZE - 1
      BY <1>3, <1>4, <1>5, <2>1
    <3>2. o < len BY <1>9
    <3>. HIDE DEF len
    <3>3. len # 0 /\ OffsetIn(r, i) + o < PAGE_SIZE BY <1>1, <3>1, <3>2
    <3>. QED BY <3>3 DEF len
  <2>3. Rest(r, i - 1) = r.size - Full(r, i - 1) BY <1>3, <1>5, <2>2
  <2>4. LengthUpTo(s, i - 1) = r.size - Rest(r, i - 1) BY <1>7, <2>1
  <2>5. LengthUpTo(s, i - 1) = Full(r, i - 1) BY <1>4, <2>1, <2>3, <2>4
  <2>6. Byte(r, Full(r, i - 1) + o) = Frame[FirstPage(r) + i - 1] * PAGE_SIZE + (OffsetIn(r, i) + o)
    BY <2>1, <2>2, ByteOfPage
  <2>7. pages[i] = Frame[FirstPage(r) + i - 1] /\ pages[i] \in Nat
    BY MemoryAssumption DEF Backed, n
  <2>8. pages[i] * PAGE_SIZE \in Nat BY <1>1, <2>7
  <2>. QED BY <1>1, <1>4, <1>5, <2>1, <2>5, <2>6, <2>7, <2>8
<1>10. Len(s) \in 1 .. NumPages(r) BY <1>2, <1>6 DEF n
<1>11. Laid(s, r)
  BY <1>6, <1>8, <1>9, <1>10 DEF Laid
<1>. QED BY <1>11 DEF s, n

\* Joining adjacent entries keeps it so.
LEMMA JoinedIsLaid ==
  ASSUME NEW r, r.size \in Nat, NumPages(r) \in Nat, NEW s, Laid(s, r),
         NEW k \in 1 .. Len(s), NEW c \in Cuts(s, k)
  PROVE  Laid(Joined(s, k, c), r)
<1> DEFINE n == Len(s)
           j == Joined(s, k, c)
           L(i) == LengthUpTo(s, i)
<1>1. /\ s \in Seq(Segments) /\ n \in Nat /\ n <= NumPages(r) /\ L(n) = r.size
      /\ k \in Nat /\ k >= 1 /\ k <= n
  BY DEF Laid
<1>2. /\ L(0) = 0
      /\ \A i \in 0 .. n : L(i) \in Nat
      /\ \A i \in 1 .. n : /\ s[i].length \in Nat /\ s[i].addr \in Nat
                           /\ L(i) = L(i - 1) + s[i].length
  BY <1>1, SumsGrow
<1>3. /\ c \in [1 .. k + 1 -> 1 .. n + 1] /\ c[1] = 1 /\ c[k + 1] = n + 1
      /\ \A i \in 1 .. k : /\ c[i] < c[i + 1]
                           /\ \A q \in c[i] .. c[i + 1] - 2 : s[q + 1].addr = s[q].addr + s[q].length
  BY DEF Cuts, Adjacent
<1>4. ASSUME NEW a \in 0 .. n, NEW b \in 0 .. n, a <= b PROVE L(a) <= L(b)
  BY <1>1, <1>4, SumsOrdered
<1>. HIDE DEF L
<1>5. ASSUME NEW i \in 1 .. k
      PROVE  /\ c[i] \in 1 .. n /\ c[i + 1] - 1 \in 1 .. n /\ c[i] - 1 \in 0 .. n
             /\ c[i] <= c[i + 1] - 1 /\ c[i + 1] \in Nat
             /\ L(c[i] - 1) \in Nat /\ L(c[i + 1] - 1) \in Nat /\ L(c[i] - 1) <= L(c[i + 1] - 1)
  <2>1. i \in 1 .. k + 1 /\ i + 1 \in 1 .. k + 1 BY <1>1
  <2>2. c[i] \in 1 .. n + 1 /\ c[i + 1] \in 1 .. n + 1 /\ c[i] < c[i + 1] BY <1>3, <2>1
  <2> DEFINE b == c[i]
             e == c[i + 1]
  <2>3. b \in 1 .. n + 1 /\ e \in 1 .. n + 1 /\ b < e /\ n \in Nat BY <1>1, <2>2
  <2>. HIDE DEF b, e, n
  <2>4. /\ b \in 1 .. n /\ e - 1 \in 1 .. n /\ b - 1 \in 0 .. n /\ e - 1 \in 0 .. n
        /\ b <= e - 1 /\ b - 1 <= e - 1 /\ e \in Nat
    BY <2>3
  <2>5. L(b - 1) \in Nat /\ L(e - 1) \in Nat /\ L(b - 1) <= L(e - 1) BY <1>2, <1>4, <2>4
  <2>. QED BY <2>4, <2>5 DEF b, e
<1>6. ASSUME NEW i \in 1 .. k
      PROVE  /\ j[i].addr = s[c[i]].addr /\ j[i].length = L(c[i + 1] - 1) - L(c[i] - 1)
             /\ j[i].addr \in Nat /\ j[i].length \in Nat /\ j[i] \in Segments
  <2> DEFINE ad == s[c[i]].addr
             len == L(c[i + 1] - 1) - L(c[i] - 1)
  <2>1. j[i] = [addr |-> ad, length |-> len] BY DEF Joined, L
  <2>2. ad \in Nat BY <1>2, <1>5
  <2>3. len \in Nat
    <3> DEFINE x == L(c[i + 1] - 1)
               y == L(c[i] - 1)
    <3>1. x \in Nat /\ y \in Nat /\ y <= x BY <1>5
    <3>. HIDE DEF x, y
    <3>2. x - y \in Nat BY <3>1
    <3>. QED BY <3>2 DEF x, y
  <2>. HIDE DEF ad, len, j
  <2>4. j[i].addr = ad /\ j[i].length = len /\ j[i] \in Segments BY <2>1, <2>2, <2>3 DEF Segments
  <2>. QED BY <2>2, <2>3, <2>4 DEF ad, len
<1>7. j \in Seq(Segments) /\ Len(j) = k
  <2>1. j = [i \in 1 .. k |-> j[i]] BY DEF Joined
  <2>. HIDE DEF j
  <2>2. j \in [1 .. k -> Segments] BY <2>1, <1>6
  <2>. QED BY <1>1, <2>2
<1>. HIDE DEF j
<1> DEFINE S == {i \in Nat : i <= k => LengthUpTo(j, i) = L(c[i + 1] - 1)}
<1>8. Nat \subseteq S
  <2>1. 0 \in S
    <3>1. LengthUpTo(j, 0) = 0 BY LengthUpToUnfolds
    <3>2. c[0 + 1] - 1 = 0 BY <1>3
    <3>. QED BY <1>2, <3>1, <3>2
  <2>2. ASSUME NEW i \in Nat, i \in S PROVE i + 1 \in S
    <3>1. SUFFICES ASSUME i + 1 <= k PROVE LengthUpTo(j, i + 1) = L(c[(i + 1) + 1] - 1) OBVIOUS
    <3>2. LengthUpTo(j, i) = L(c[i + 1] - 1) /\ i + 1 \in 1 .. k BY <1>1, <2>2, <3>1
    <3>3. LengthUpTo(j, i + 1) = LengthUpTo(j, i) + j[i + 1].length BY LengthUpToUnfolds
    <3>4. j[i + 1].length = L(c[(i + 1) + 1] - 1) - L(c[i + 1] - 1) BY <1>6, <3>2
    <3>5. L(c[i + 1] - 1) \in Nat /\ L(c[(i + 1) + 1] - 1) \in Nat BY <1>5, <3>2
    <3>. QED BY <3>2, <3>3, <3>4, <3>5
  <2>. HIDE DEF S
  <2>. QED BY <2>1, <2>2, SetInduction
\* Inside a run the addresses follow the lengths.
<1>9. ASSUME NEW i \in 1 .. k, NEW q \in c[i] .. c[i + 1] - 1
      PROVE  s[q].addr = s[c[i]].addr + (L(q - 1) - L(c[i] - 1))
  <2> DEFINE b == c[i]
             e == c[i + 1] - 1
             T == {x \in Nat : b + x <= e => s[b + x].addr = s[b].addr + (L((b + x) - 1) - L(b - 1))}
  <2>1. b \in 1 .. n /\ e \in 1 .. n /\ b <= e /\ L(b - 1) \in Nat /\ s[b].addr \in Nat
    BY <1>2, <1>5
  <2>2. \A y \in b .. e - 1 : s[y + 1].addr = s[y].addr + s[y].length
    <3> DEFINE e1 == c[i + 1]
    <3>1. e1 \in Nat BY <1>5
    <3>. HIDE DEF e1
    <3>2. (e1 - 1) - 1 = e1 - 2 BY <3>1
    <3>3. e - 1 = c[i + 1] - 2 BY <3>2 DEF e1
    <3>. QED BY <1>3, <3>3
  <2>3. q \in b .. e OBVIOUS
  <2>. HIDE DEF b, e
  <2>a. n \in Nat /\ b \in Nat /\ e \in Nat BY <1>1, <2>1
  <2>. HIDE DEF n
  <2>4. 0 \in T
    <3> DEFINE x == L(b - 1)
               y == s[b].addr
    <3>1. b + 0 = b BY <2>a
    <3>2. x \in Nat /\ y \in Nat BY <2>1
    <3>. HIDE DEF x, y
    <3>3. y = y + (x - x) BY <3>2
    <3>4. s[b + 0].addr = s[b].addr + (L((b + 0) - 1) - L(b - 1)) BY <3>1, <3>3 DEF x, y
    <3>. QED BY <3>4
  <2>5. ASSUME NEW x \in Nat, x \in T PROVE x + 1 \in T
    <3>1. SUFFICES ASSUME b + (x + 1) <= e
                   PROVE  s[b + (x + 1)].addr = s[b].addr + (L((b + (x + 1)) - 1) - L(b - 1)) OBVIOUS
    <3> DEFINE y == b + x
    <3>2. y \in b .. e - 1 /\ y \in 1 .. n /\ y - 1 \in 0 .. n /\ b + (x + 1) = y + 1 /\ (y + 1) - 1 = y /\ y <= e
      BY <2>1, <2>a, <3>1
    <3>3. s[y].addr = s[b].addr + (L(y - 1) - L(b - 1)) BY <2>5, <3>2
    <3>. HIDE DEF y
    <3>4. s[y + 1].addr = s[y].addr + s[y].length BY <2>2, <3>2
    <3>5. L(y) = L(y - 1) + s[y].length /\ L(y - 1) \in Nat /\ s[y].length \in Nat BY <1>2, <3>2
    <3>6. s[y + 1].addr = s[b].addr + (L(y) - L(b - 1))
      <4> DEFINE a1 == s[b].addr
                 a2 == s[y].addr
                 l1 == L(b - 1)
                 l2 == L(y - 1)
                 d2 == s[y].length
      <4>1. a1 \in Nat /\ l1 \in Nat /\ l2 \in Nat /\ d2 \in Nat /\ a2 = a1 + (l2 - l1) BY <2>1, <3>3, <3>5
      <4>2. s[y + 1].addr = a2 + d2 /\ L(y) = l2 + d2 BY <3>4, <3>5
      <4>. HIDE DEF a1, a2, l1, l2, d2
      <4>3. a2 + d2 = a1 + ((l2 + d2) - l1) BY <4>1
      <4>4. s[y + 1].addr = a1 + (L(y) - l1) BY <4>2, <4>3
      <4>. QED BY <4>4 DEF a1, l1
    <3>. QED BY <3>2, <3>6
  <2>6. Nat \subseteq T
    <3>. HIDE DEF T
    <3>. QED BY <2>4, <2>5, SetInduction
  <2>7. q - b \in Nat /\ b + (q - b) = q /\ q <= e BY <2>1, <2>a, <2>3
  <2>8. s[q].addr = s[b].addr + (L(q - 1) - L(b - 1)) BY <2>6, <2>7
  <2>. QED BY <2>8 DEF b
<1>10. ASSUME NEW i \in 1 .. Len(j), NEW o \in Nat, o < j[i].length
       PROVE  Byte(r, LengthUpTo(j, i - 1) + o) = j[i].addr + o
  <2>1. i \in 1 .. k /\ i - 1 \in Nat /\ i - 1 <= k /\ (i - 1) + 1 = i BY <1>1, <1>7
  <2> DEFINE b == c[i]
             e == c[i + 1] - 1
             lo == L(b - 1)
             p == lo + o
  <2>2. /\ b \in 1 .. n /\ e \in 1 .. n /\ b - 1 \in 0 .. n /\ e \in 0 .. n /\ b <= e /\ lo \in Nat
        /\ L(e) \in Nat
    <3>1. /\ b \in 1 .. n /\ e \in 1 .. n /\ b - 1 \in 0 .. n /\ b <= e /\ lo \in Nat /\ L(e) \in Nat
      BY <1>5, <2>1
    <3>. HIDE DEF b, e, lo, n
    <3>2. e \in 0 .. n BY <3>1
    <3>. QED BY <3>1, <3>2
  <2>3. LengthUpTo(j, i - 1) = lo BY <1>8, <2>1
  <2>4. j[i].length = L(e) - lo /\ j[i].addr = s[b].addr /\ s[b].addr \in Nat BY <1>6, <2>1
  <2>. HIDE DEF b, e, lo, n
  <2>5. p \in Nat /\ p < L(e) /\ lo <= p
    <3> DEFINE x == L(e)
    <3>1. x \in Nat /\ lo \in Nat /\ o < x - lo BY <1>10, <2>2, <2>4
    <3>. HIDE DEF x
    <3>2. lo + o \in Nat /\ lo + o < x /\ lo <= lo + o BY <3>1
    <3>. QED BY <3>2 DEF x
  <2>6. L(e) <= L(n)
    <3>1. n \in 0 .. n /\ e <= n BY <1>1, <2>2
    <3>. QED BY <1>4, <2>2, <3>1
  <2>. HIDE DEF p
  <2>7. p < L(n) /\ L(n) \in Nat
    <3> DEFINE x == L(e)
               y == L(n)
    <3>1. x \in Nat /\ y \in Nat /\ x <= y /\ p < x /\ p \in Nat BY <1>1, <2>2, <2>5, <2>6
    <3>. HIDE DEF x, y
    <3>2. p < y BY <3>1
    <3>. QED BY <3>1, <3>2 DEF y
  <2>8. PICK q \in 1 .. n : L(q - 1) <= p /\ p < L(q)
    BY <1>1, <2>5, <2>7, SegmentOf DEF L, n
  <2>9. /\ q \in 0 .. n /\ q - 1 \in 0 .. n /\ L(q) \in Nat /\ L(q - 1) \in Nat /\ s[q].length \in Nat
        /\ L(q) = L(q - 1) + s[q].length /\ s[q].addr \in Nat
    BY <1>1, <1>2
  <2>10. b <= q
    <3>1. SUFFICES ASSUME q <= b - 1 PROVE FALSE BY <1>1, <2>2, <2>9
    <3>2. L(q) <= L(b - 1) BY <1>4, <2>2, <2>9, <3>1
    <3> DEFINE x == L(q)
    <3>3. x \in Nat /\ lo \in Nat /\ p \in Nat /\ x <= lo /\ lo <= p /\ p < x BY <2>2, <2>5, <2>8, <2>9, <3>2 DEF lo
    <3>. HIDE DEF x
    <3>. QED BY <3>3
  <2>11. q <= e
    <3>1. SUFFICES ASSUME e <= q - 1 PROVE FALSE BY <1>1, <2>2, <2>9
    <3>2. L(e) <= L(q - 1) BY <1>4, <2>2, <2>9, <3>1
    <3> DEFINE x == L(q - 1)
               y == L(e)
    <3>3. x \in Nat /\ y \in Nat /\ p \in Nat /\ y <= x /\ x <= p /\ p < y BY <2>2, <2>5, <2>8, <2>9, <3>2
    <3>. HIDE DEF x, y
    <3>. QED BY <3>3
  <2>12. s[q].addr = s[b].addr + (L(q - 1) - lo)
    <3>1. q \in c[i] .. c[i + 1] - 1 BY <2>2, <2>9, <2>10, <2>11 DEF b, e
    <3>. QED BY <1>9, <2>1, <3>1 DEF b, lo
  <2> DEFINE x == p - L(q - 1)
  <2>13. x \in Nat /\ x < s[q].length /\ L(q - 1) + x = p
    <3> DEFINE l1 == L(q - 1)
               d1 == s[q].length
    <3>1. l1 \in Nat /\ d1 \in Nat /\ p \in Nat /\ l1 <= p /\ p < l1 + d1 BY <2>5, <2>8, <2>9
    <3>. HIDE DEF l1, d1
    <3>2. p - l1 \in Nat /\ p - l1 < d1 /\ l1 + (p - l1) = p BY <3>1
    <3>. QED BY <3>2 DEF l1, d1
  <2>14. s[q].addr + x = s[b].addr + o
    <3> DEFINE l1 == L(q - 1)
               a1 == s[q].addr
               a2 == s[b].addr
    <3>1. p = lo + o BY DEF p
    <3>2. l1 \in Nat /\ a1 \in Nat /\ a2 \in Nat /\ lo \in Nat /\ a1 = a2 + (l1 - lo) BY <2>2, <2>4, <2>9, <2>12
    <3>. HIDE DEF l1, a1, a2
    <3>3. a1 + (p - l1) = a2 + o BY <3>1, <3>2
    <3>. QED BY <3>3 DEF l1, a1, a2
  <2>. HIDE DEF x
  <2>15. Byte(r, L(q - 1) + x) = s[q].addr + x BY <1>1, <2>13 DEF Laid, L, n
  <2>16. Byte(r, p) = s[b].addr + o BY <2>13, <2>14, <2>15
  <2>. QED BY <2>3, <2>4, <2>16 DEF p
<1>11. LengthUpTo(j, Len(j)) = r.size
  <2>1. LengthUpTo(j, k) = L(c[k + 1] - 1) BY <1>1, <1>8
  <2>2. c[k + 1] - 1 = n BY <1>1, <1>3
  <2>. QED BY <1>1, <1>7, <2>1, <2>2
<1>12. Len(j) \in 1 .. NumPages(r) BY <1>1, <1>7
<1>13. Laid(j, r)
  BY <1>7, <1>10, <1>11, <1>12 DEF Laid
<1>. QED BY <1>13 DEF j

LEMMA MappingIsLaid ==
  ASSUME NEW r, r.size \in Nat, NumPages(r) \in Nat, NEW s, Laid(s, r), NEW m \in Mappings(s)
  PROVE  Laid(m, r)
<1>1. PICK k \in 1 .. Len(s) : \E c \in Cuts(s, k) : m = Joined(s, k, c)
  BY DEF Mappings
<1>. QED BY <1>1, JoinedIsLaid

-----------------------------------------------------------------------------
(* One caller: its own state *)

CallInv(me) ==
  /\ pc \in [Threads -> Places] /\ timeout \in [Threads -> 0 .. Polls]
  /\ DOMAIN req = Threads /\ DOMAIN ret = Threads /\ DOMAIN before = Threads
  /\ pc[me] # "user" => req[me] \in Requests /\ Valid(req[me])
  /\ pc[me] = "poll" => timeout[me] # 0
  /\ DOMAIN host = HostBytes /\ DOMAIN ddr = DdrBytes

\* With one caller every step is a step of that caller or of the engine.
LEMMA StepCases ==
  ASSUME NEW me, Threads = {me}, [Next]_vars
  PROVE  \/ \E r \in Requests : Reject(me, r)
         \/ \E r \in Requests : Accept(me, r)
         \/ \E k \in 0 .. MAX_PAGES : PinPages(me, k)
         \/ PinFailed(me) \/ PinnedTooFew(me) \/ AllocFailed(me) \/ BuildSgl(me) \/ MapFailed(me)
         \/ \E s \in Mappings(sgl) : MapSgl(me, s)
         \/ BuildChain(me) \/ Start(me) \/ Poll(me) \/ PollDone(me)
         \/ Stop(me) \/ Unmap(me) \/ PutPages(me)
         \/ \E dir \in Directions : EngineStep(dir)
         \/ \E dir \in Directions : StopArrives(dir)
         \/ UNCHANGED vars
<1>1. CASE UNCHANGED vars BY <1>1
<1>2. CASE Next
  <2>1. CASE \E dir \in Directions : EngineStep(dir) \/ StopArrives(dir) BY <2>1
  <2>2. CASE \E t \in Threads : (\E r \in Requests : Reject(t, r) \/ Accept(t, r)) \/ Handler(t)
    <3>1. (\E r \in Requests : Reject(me, r) \/ Accept(me, r)) \/ Handler(me)
      BY <2>2, Zenon
    <3>. QED BY <3>1 DEF Handler
  <2>. QED BY <1>2, <2>1, <2>2 DEF Next
<1>. QED BY <1>1, <1>2

LEMMA CallInit ==
  ASSUME NEW me, Threads = {me}, Init
  PROVE  CallInv(me)
<1>1. Polls \in Nat BY GeometryAssumption
<1>. QED BY <1>1 DEF Init, CallInv, Places

LEMMA CallStep ==
  ASSUME NEW me, Threads = {me}, CallInv(me), [Next]_vars
  PROVE  CallInv(me)'
<1>0. Polls \in Nat \ {0} /\ me \in Threads BY GeometryAssumption
<1>. USE <1>0 DEF CallInv, Places
<1>1. CASE \E r \in Requests : Reject(me, r) BY <1>1 DEF Reject, memory
<1>2. CASE \E r \in Requests : Accept(me, r) BY <1>2 DEF Accept, Goto, memory
<1>3. CASE \E k \in 0 .. MAX_PAGES : PinPages(me, k) BY <1>3 DEF PinPages, Goto, memory
<1>4. CASE PinFailed(me) BY <1>4 DEF PinFailed, Leave, memory
<1>5. CASE PinnedTooFew(me) BY <1>5 DEF PinnedTooFew, Leave, memory
<1>6. CASE AllocFailed(me) BY <1>6 DEF AllocFailed, Leave, memory
<1>7. CASE BuildSgl(me) BY <1>7 DEF BuildSgl, Goto, memory
<1>8. CASE MapFailed(me) BY <1>8 DEF MapFailed, Leave, memory
<1>9. CASE \E s \in Mappings(sgl) : MapSgl(me, s) BY <1>9 DEF MapSgl, Goto, memory
<1>10. CASE BuildChain(me) BY <1>10 DEF BuildChain, Goto, memory
<1>11. CASE Start(me) BY <1>11 DEF Start, Goto, memory
<1>12. CASE Poll(me) BY <1>12 DEF Poll, Goto, memory
<1>13. CASE PollDone(me) BY <1>13 DEF PollDone, Goto, memory
<1>14. CASE Stop(me) BY <1>14 DEF Stop, Goto, memory
<1>15. CASE Unmap(me) BY <1>15 DEF Unmap, Goto, memory
<1>16. CASE PutPages(me) BY <1>16 DEF PutPages, Leave, memory
<1>17. CASE \E dir \in Directions : EngineStep(dir) BY <1>17 DEF EngineStep, Copy, caller
<1>18. CASE \E dir \in Directions : StopArrives(dir) BY <1>18 DEF StopArrives, memory, caller
<1>19. CASE UNCHANGED vars BY <1>19 DEF vars, caller, memory
<1>. QED BY <1>1, <1>2, <1>3, <1>4, <1>5, <1>6, <1>7, <1>8, <1>9, <1>10, <1>11, <1>12,
            <1>13, <1>14, <1>15, <1>16, <1>17, <1>18, <1>19, StepCases

-----------------------------------------------------------------------------
(* Pinned pages *)

\* The references a caller holds on a frame.
HeldOn(f) == Cardinality({i \in 1 .. num_pinned_pages : pinned_pages[i] = f})

PinInv(me) ==
  /\ num_pinned_pages \in -1 .. MAX_PAGES /\ DOMAIN pinned_pages = 1 .. MAX_PAGES
  /\ pins = [f \in Frames |-> HeldOn(f)]
  /\ Backed(req[me], pinned_pages, num_pinned_pages)
  /\ pc[me] \in {"user", "pin"} => num_pinned_pages <= 0
  /\ pc[me] \notin {"user", "pin", "pinned"} => num_pinned_pages = NumPages(req[me])
  /\ dirty \subseteq Frames

LEMMA HeldIsNat ==
  ASSUME NEW n \in Int, NEW pages, NEW f
  PROVE  Cardinality({i \in 1 .. n : pages[i] = f}) \in Nat
<1>1. IsFiniteSet(1 .. n) BY FS_Interval
<1>2. {i \in 1 .. n : pages[i] = f} \in SUBSET (1 .. n) OBVIOUS
<1>3. IsFiniteSet({i \in 1 .. n : pages[i] = f}) BY <1>1, <1>2, FS_Subset
<1>. QED BY <1>3, FS_CardinalityType

\* After Unpin no reference is left.
LEMMA UnpinClears ==
  ASSUME NEW me, PinInv(me), Unpin
  PROVE  pins' = [f \in Frames |-> 0] /\ num_pinned_pages' = 0
<1>1. num_pinned_pages \in Int BY GeometryAssumption DEF PinInv
<1>2. ASSUME NEW f \in Frames PROVE pins[f] - HeldOn(f) = 0
  <2>1. HeldOn(f) \in Nat BY <1>1, HeldIsNat DEF HeldOn
  <2>2. pins[f] = HeldOn(f) BY DEF PinInv
  <2>. QED BY <2>1, <2>2
<1>3. pins' = [f \in Frames |-> pins[f] - HeldOn(f)] BY DEF Unpin, HeldOn
<1>. QED BY <1>2, <1>3 DEF Unpin

LEMMA NoneHeld ==
  ASSUME NEW n \in Int, n <= 0, NEW pages, NEW f
  PROVE  Cardinality({i \in 1 .. n : pages[i] = f}) = 0
<1>1. {i \in 1 .. n : pages[i] = f} = {} OBVIOUS
<1>. QED BY <1>1, FS_EmptySet

\* A step that ends with nothing pinned.
LEMMA PinsCleared ==
  ASSUME NEW me, MAX_PAGES \in Nat, num_pinned_pages' \in {-1, 0},
         pins' = [f \in Frames |-> 0], DOMAIN pinned_pages' = 1 .. MAX_PAGES,
         pc'[me] \in {"user", "pin", "pinned"}, dirty' \subseteq Frames
  PROVE  PinInv(me)'
<1>1. num_pinned_pages' \in Int /\ num_pinned_pages' <= 0 OBVIOUS
<1>2. ASSUME NEW f \in Frames PROVE HeldOn(f)' = 0
  BY <1>1, NoneHeld DEF HeldOn
<1>3. pins' = [f \in Frames |-> HeldOn(f)'] BY <1>2
<1>4. Backed(req'[me], pinned_pages', num_pinned_pages') BY <1>1 DEF Backed
<1>5. num_pinned_pages' \in -1 .. MAX_PAGES OBVIOUS
<1>6. /\ pc'[me] \in {"user", "pin"} => num_pinned_pages' <= 0
      /\ pc'[me] \notin {"user", "pin", "pinned"}
           => num_pinned_pages' = NumPages(req'[me])
  BY <1>1
<1>. QED BY <1>3, <1>4, <1>5, <1>6 DEF PinInv

\* A step that leaves the pins alone.
LEMMA PinsKept ==
  ASSUME NEW me, PinInv(me),
         UNCHANGED <<num_pinned_pages, pinned_pages, pins, dirty, req>>,
         \/ pc'[me] = pc[me]
         \/ pc[me] \notin {"user", "pin", "pinned"} /\ pc'[me] \notin {"user", "pin", "pinned"}
         \/ num_pinned_pages = NumPages(req[me]) /\ pc'[me] \notin {"user", "pin"}
  PROVE  PinInv(me)'
<1>1. pins' = [f \in Frames |-> HeldOn(f)'] BY DEF PinInv, HeldOn
<1>2. Backed(req'[me], pinned_pages', num_pinned_pages') BY DEF PinInv
<1>. QED BY <1>1, <1>2 DEF PinInv, Frames, HeldOn

LEMMA PinInit ==
  ASSUME NEW me, Threads = {me}, Init
  PROVE  PinInv(me)
<1>1. num_pinned_pages = 0 /\ MAX_PAGES \in Nat BY GeometryAssumption DEF Init
<1>2. ASSUME NEW f \in Frames PROVE HeldOn(f) = 0 BY <1>1, NoneHeld DEF HeldOn
<1>3. pins = [f \in Frames |-> HeldOn(f)] BY <1>2 DEF Init
<1>. QED BY <1>1, <1>3 DEF PinInv, Init, Backed

LEMMA PinPagesPins ==
  ASSUME NEW me, Threads = {me}, CallInv(me), PinInv(me), NEW k \in 0 .. MAX_PAGES, PinPages(me, k)
  PROVE  PinInv(me)'
<1>1. MAX_PAGES \in Nat /\ me \in Threads BY GeometryAssumption
<1>2. pc[me] = "pin" /\ pc'[me] = "pinned" /\ req' = req /\ dirty' = dirty
  BY <1>1 DEF PinPages, Goto, CallInv
<1>3. num_pinned_pages \in Int /\ num_pinned_pages <= 0 BY <1>1, <1>2 DEF PinInv
<1> DEFINE page(i) == Frame[FirstPage(req[me]) + i - 1]
<1>4. num_pinned_pages' = (IF k = 0 THEN -1 ELSE k) /\ k \in Int BY <1>1 DEF PinPages
<1>5. /\ DOMAIN pinned_pages' = 1 .. MAX_PAGES
      /\ \A i \in 1 .. k : pinned_pages'[i] = page(i) /\ FirstPage(req[me]) + i - 1 \in DOMAIN Frame
  <2>1. \A i \in 1 .. k : FirstPage(req[me]) + i - 1 \in DOMAIN Frame BY DEF PinPages
  <2>2. DOMAIN pinned_pages = 1 .. MAX_PAGES BY DEF PinInv
  <2>3. pinned_pages' = [i \in DOMAIN pinned_pages |-> IF i <= k THEN page(i) ELSE pinned_pages[i]]
    BY DEF PinPages
  <2>4. ASSUME NEW i \in 1 .. k PROVE i \in 1 .. MAX_PAGES /\ i <= k BY <1>1, <1>4
  <2>. HIDE DEF page
  <2>. QED BY <2>1, <2>2, <2>3, <2>4
<1>. HIDE DEF page
<1>6. ASSUME NEW f \in Frames PROVE pins'[f] = HeldOn(f)'
  <2>1. pins[f] = 0
    <3>1. HeldOn(f) = 0 BY <1>3, NoneHeld DEF HeldOn
    <3>. QED BY <3>1 DEF PinInv
  <2>2. pins'[f] = pins[f] + Cardinality({i \in 1 .. k : page(i) = f}) BY DEF PinPages, page
  <2>3. {i \in 1 .. k : page(i) = f} = {i \in 1 .. k : pinned_pages'[i] = f} BY <1>5
  <2>4. Cardinality({i \in 1 .. k : pinned_pages'[i] = f}) \in Nat BY <1>4, HeldIsNat
  <2>5. pins'[f] = Cardinality({i \in 1 .. k : pinned_pages'[i] = f}) BY <2>1, <2>2, <2>3, <2>4
  <2>6. CASE k = 0
    <3>1. Cardinality({i \in 1 .. k : pinned_pages'[i] = f}) = 0 BY <2>6, NoneHeld
    <3>2. HeldOn(f)' = 0 BY <1>4, <2>6, NoneHeld DEF HeldOn
    <3>. QED BY <2>5, <3>1, <3>2
  <2>7. CASE k # 0
    <3>1. num_pinned_pages' = k BY <1>4, <2>7
    <3>2. HeldOn(f)' = Cardinality({i \in 1 .. k : pinned_pages'[i] = f}) BY <3>1, Zenon DEF HeldOn
    <3>. QED BY <2>5, <3>2, Zenon
  <2>. QED BY <2>6, <2>7
<1>7. pins' = [f \in Frames |-> HeldOn(f)']
  <2>1. pins' = [f \in Frames |-> pins'[f]] BY DEF PinPages
  <2>. QED BY <2>1, <1>6
<1>8. Backed(req'[me], pinned_pages', num_pinned_pages')
  BY <1>2, <1>4, <1>5 DEF Backed, page
<1>9. dirty' \subseteq Frames BY <1>2 DEF PinInv
<1>. QED BY <1>1, <1>2, <1>4, <1>5, <1>7, <1>8, <1>9 DEF PinInv, Frames, HeldOn

LEMMA PinStep ==
  ASSUME NEW me, Threads = {me}, CallInv(me), PinInv(me), [Next]_vars
  PROVE  PinInv(me)'
<1>0. MAX_PAGES \in Nat /\ me \in Threads /\ pc \in [Threads -> Places] /\ DOMAIN pinned_pages = 1 .. MAX_PAGES
  BY GeometryAssumption DEF CallInv, PinInv
<1>1. ASSUME Unpin, Leave(me, "EFAULT") \/ Leave(me, "ENOMEM"), UNCHANGED <<pinned_pages, dirty>>
      PROVE  PinInv(me)'
  <2>1. pins' = [f \in Frames |-> 0] /\ num_pinned_pages' = 0 BY <1>1, UnpinClears
  <2>2. pc'[me] = "user" BY <1>0, <1>1 DEF Leave
  <2>3. dirty' \subseteq Frames BY <1>1 DEF PinInv
  <2>. QED BY <1>0, <1>1, <2>1, <2>2, <2>3, PinsCleared
<1>2. ASSUME pc[me] \in {"user", "pin"}, pc'[me] \in {"user", "pin"}, UNCHANGED <<shared, kernel>>
      PROVE  PinInv(me)'
  <2>1. num_pinned_pages \in -1 .. MAX_PAGES /\ num_pinned_pages <= 0 /\ pins = [f \in Frames |-> HeldOn(f)]
    BY <1>2 DEF PinInv
  <2>2. num_pinned_pages \in {-1, 0} BY <1>0, <2>1
  <2>3. ASSUME NEW f \in Frames PROVE HeldOn(f) = 0
    <3>1. num_pinned_pages \in Int BY <2>2
    <3>. QED BY <2>1, <3>1, NoneHeld DEF HeldOn
  <2>4. pins = [f \in Frames |-> 0] BY <2>1, <2>3
  <2>5. UNCHANGED <<pinned_pages, num_pinned_pages, pins, dirty>> BY <1>2 DEF shared, kernel
  <2>6. dirty' \subseteq Frames BY <2>5 DEF PinInv
  <2>. QED BY <1>0, <1>2, <2>2, <2>4, <2>5, <2>6, PinsCleared
<1>3. CASE \E r \in Requests : Reject(me, r)
  BY <1>2, <1>3 DEF Reject
<1>4. CASE \E r \in Requests : Accept(me, r)
  BY <1>0, <1>2, <1>4 DEF Accept, Goto
<1>5. CASE \E k \in 0 .. MAX_PAGES : PinPages(me, k)
  BY <1>5, PinPagesPins
<1>6. CASE PinFailed(me)
  <2>1. num_pinned_pages < 0 /\ num_pinned_pages \in -1 .. MAX_PAGES BY <1>6 DEF PinFailed, PinInv
  <2>2. num_pinned_pages = -1 BY <1>0, <2>1
  <2>3. UNCHANGED <<pinned_pages, num_pinned_pages, pins, dirty>> /\ pc'[me] = "user"
    BY <1>0, <1>6 DEF PinFailed, Leave, shared, kernel
  <2>4. ASSUME NEW f \in Frames PROVE HeldOn(f) = 0 BY <2>2, NoneHeld DEF HeldOn
  <2>5. pins = [f \in Frames |-> 0] BY <2>4 DEF PinInv
  <2>6. dirty' \subseteq Frames BY <2>3 DEF PinInv
  <2>. QED BY <1>0, <2>2, <2>3, <2>5, <2>6, PinsCleared
<1>7. CASE PinnedTooFew(me) BY <1>1, <1>7 DEF PinnedTooFew
<1>8. CASE AllocFailed(me) BY <1>1, <1>8 DEF AllocFailed
<1>9. CASE BuildSgl(me) BY <1>0, <1>9, PinsKept DEF BuildSgl, Goto
<1>10. CASE MapFailed(me) BY <1>1, <1>10 DEF MapFailed
<1>11. CASE \E s \in Mappings(sgl) : MapSgl(me, s) BY <1>0, <1>11, PinsKept DEF MapSgl, Goto
<1>12. CASE BuildChain(me) BY <1>0, <1>12, PinsKept DEF BuildChain, Goto, kernel
<1>13. CASE Start(me) BY <1>0, <1>13, PinsKept DEF Start, Goto, shared, kernel
<1>14. CASE Poll(me) BY <1>0, <1>14, PinsKept DEF Poll, Goto, shared, kernel
<1>15. CASE PollDone(me) BY <1>0, <1>15, PinsKept DEF PollDone, Goto, shared, kernel
<1>16. CASE Stop(me) BY <1>0, <1>16, PinsKept DEF Stop, Goto, shared, kernel
<1>17. CASE Unmap(me) BY <1>0, <1>17, PinsKept DEF Unmap, Goto
<1>18. CASE PutPages(me)
  <2>1. pins' = [f \in Frames |-> 0] /\ num_pinned_pages' = 0 BY <1>18, UnpinClears DEF PutPages
  <2>2. pc'[me] = "user" /\ UNCHANGED pinned_pages BY <1>0, <1>18 DEF PutPages, Leave
  <2>3. ASSUME NEW i \in 1 .. num_pinned_pages PROVE pinned_pages[i] \in Frames
    BY DEF PinInv, Backed, Frames
  <2>4. dirty' \subseteq dirty \cup {pinned_pages[i] : i \in 1 .. num_pinned_pages}
    BY <1>18 DEF PutPages
  <2>5. dirty' \subseteq Frames BY <2>3, <2>4 DEF PinInv
  <2>. QED BY <1>0, <2>1, <2>2, <2>5, PinsCleared
<1>19. CASE \E dir \in Directions : EngineStep(dir)
  BY <1>19, PinsKept DEF EngineStep, shared, kernel, caller
<1>20. CASE \E dir \in Directions : StopArrives(dir)
  BY <1>20, PinsKept DEF StopArrives, shared, kernel, caller
<1>21. CASE UNCHANGED vars
  BY <1>21, PinsKept DEF vars, shared, kernel, caller
<1>. QED BY <1>3, <1>4, <1>5, <1>6, <1>7, <1>8, <1>9, <1>10, <1>11, <1>12, <1>13, <1>14,
            <1>15, <1>16, <1>17, <1>18, <1>19, <1>20, <1>21, StepCases

-----------------------------------------------------------------------------
(* The scatterlist and its mapping *)

HasSgl == {"map", "chain", "start", "poll", "stop", "unmap"}
IsMapped == HasSgl \ {"map"}

SglInv(me) ==
  /\ IF pc[me] \in HasSgl THEN Laid(sgl, req[me]) /\ sgls = 1 ELSE sgl = << >> /\ sgls = 0
  /\ IF pc[me] \in IsMapped THEN maps = 1 /\ sgl_nents = Len(sgl) ELSE maps = 0
  /\ sgl_nents \in 0 .. MAX_PAGES

LEMMA SglInit ==
  ASSUME NEW me, Threads = {me}, Init
  PROVE  SglInv(me)
<1>1. pc[me] = "user" /\ MAX_PAGES \in Nat BY GeometryAssumption DEF Init
<1>. QED BY <1>1 DEF Init, SglInv, HasSgl, IsMapped

\* What a valid request's fields are.
LEMMA ValidFacts ==
  ASSUME NEW r \in Requests, Valid(r)
  PROVE  /\ r.direction \in Directions
         /\ r.host_vaddr \in Nat /\ r.size \in Nat \ {0} /\ r.ddr3_addr \in Nat
         /\ NumPages(r) \in Nat /\ NumPages(r) \in 1 .. MAX_PAGES
<1>1. r.host_vaddr \in Nat /\ r.size \in Nat /\ r.ddr3_addr \in Nat
  BY RequestAssumption
<1>2. r.direction \in Directions /\ r.size # 0 BY DEF Valid
<1>3. NumPages(r) \in 1 .. MAX_PAGES /\ MAX_PAGES \in Nat
  BY <1>1, PageCount, GeometryAssumption
<1>. QED BY <1>1, <1>2, <1>3

LEMMA RequestFacts ==
  ASSUME NEW me, CallInv(me), pc[me] # "user"
  PROVE  /\ req[me] \in Requests /\ Valid(req[me]) /\ req[me].direction \in Directions
         /\ req[me].host_vaddr \in Nat /\ req[me].size \in Nat \ {0} /\ req[me].ddr3_addr \in Nat
         /\ NumPages(req[me]) \in Nat /\ NumPages(req[me]) \in 1 .. MAX_PAGES
<1>1. req[me] \in Requests /\ Valid(req[me]) BY DEF CallInv
<1>. QED BY <1>1, ValidFacts

LEMMA SglStep ==
  ASSUME NEW me, Threads = {me}, CallInv(me), PinInv(me), SglInv(me), [Next]_vars
  PROVE  SglInv(me)'
<1>0. MAX_PAGES \in Nat /\ me \in Threads /\ pc \in [Threads -> Places]
  BY GeometryAssumption DEF CallInv
<1>. USE <1>0 DEF HasSgl, IsMapped
<1>1. ASSUME UNCHANGED <<sgl, sgl_nents, maps, sgls>>,
             pc[me] \notin HasSgl, pc'[me] \notin HasSgl
      PROVE  SglInv(me)'
  BY <1>1 DEF SglInv
<1>2. ASSUME UNCHANGED <<sgl, sgl_nents, maps, sgls, req>>, pc'[me] = pc[me] \/ {pc[me], pc'[me]} \subseteq IsMapped
      PROVE  SglInv(me)'
  BY <1>2 DEF SglInv
<1>3. CASE \E r \in Requests : Reject(me, r)
  BY <1>1, <1>3 DEF Reject, shared, kernel
<1>4. CASE \E r \in Requests : Accept(me, r)
  BY <1>1, <1>4 DEF Accept, Goto, shared, kernel
<1>5. CASE \E k \in 0 .. MAX_PAGES : PinPages(me, k)
  BY <1>1, <1>5 DEF PinPages, Goto
<1>6. CASE PinFailed(me)
  BY <1>1, <1>6 DEF PinFailed, Leave, shared, kernel
<1>7. CASE PinnedTooFew(me)
  BY <1>1, <1>7 DEF PinnedTooFew, Leave
<1>8. CASE AllocFailed(me)
  <2>1. pc[me] = "pinned" /\ pc'[me] = "user" /\ sgl' = << >> /\ UNCHANGED <<sgl_nents, maps, sgls>>
    BY <1>8 DEF AllocFailed, Leave
  <2>. QED BY <2>1 DEF SglInv
<1>9. CASE BuildSgl(me)
  <2>1. /\ pc[me] = "pinned" /\ pc'[me] = "map" /\ UNCHANGED <<sgl_nents, maps, req>> /\ sgls' = sgls + 1
        /\ sgl' = FillSgl(req[me], pinned_pages, NumPages(req[me]))
        /\ num_pinned_pages = NumPages(req[me])
    BY <1>9 DEF BuildSgl, Goto
  <2>2. Laid(sgl', req[me])
    <3>1. Backed(req[me], pinned_pages, NumPages(req[me])) BY <2>1 DEF PinInv
    <3>. QED BY <2>1, <3>1, RequestFacts, FillIsLaid
  <2>. QED BY <2>1, <2>2 DEF SglInv
<1>10. CASE MapFailed(me)
  <2>1. pc[me] = "map" /\ pc'[me] = "user" /\ sgl_nents' = 0 /\ sgl' = << >> /\ sgls' = sgls - 1 /\ maps' = maps
    BY <1>10 DEF MapFailed, Leave
  <2>. QED BY <2>1 DEF SglInv
<1>11. CASE \E s \in Mappings(sgl) : MapSgl(me, s)
  <2>1. PICK s \in Mappings(sgl) : MapSgl(me, s) BY <1>11
  <2>2. /\ pc[me] = "map" /\ pc'[me] = "chain" /\ sgl' = s /\ sgl_nents' = Len(s) /\ maps' = maps + 1
        /\ UNCHANGED <<sgls, req>>
    BY <2>1 DEF MapSgl, Goto
  <2>3. NumPages(req[me]) \in 1 .. MAX_PAGES /\ NumPages(req[me]) \in Nat /\ req[me].size \in Nat
    BY <2>2, RequestFacts
  <2>4. Laid(s, req[me]) BY <2>2, <2>3, MappingIsLaid DEF SglInv
  <2>5. Len(s) \in 0 .. MAX_PAGES BY <2>3, <2>4 DEF Laid
  <2>. QED BY <2>2, <2>4, <2>5 DEF SglInv
<1>12. CASE BuildChain(me) BY <1>2, <1>12 DEF BuildChain, Goto, kernel
<1>13. CASE Start(me) BY <1>2, <1>13 DEF Start, Goto, shared, kernel
<1>14. CASE Poll(me) BY <1>2, <1>14 DEF Poll, Goto, shared, kernel
<1>15. CASE PollDone(me) BY <1>2, <1>15 DEF PollDone, Goto, shared, kernel
<1>16. CASE Stop(me) BY <1>2, <1>16 DEF Stop, Goto, shared, kernel
<1>17. CASE Unmap(me)
  <2>1. /\ pc[me] = "unmap" /\ pc'[me] = "put" /\ maps' = maps - 1 /\ sgl' = << >> /\ sgls' = sgls - 1
        /\ UNCHANGED sgl_nents
    BY <1>17 DEF Unmap, Goto
  <2>. QED BY <2>1 DEF SglInv
<1>18. CASE PutPages(me)
  BY <1>1, <1>18 DEF PutPages, Leave
<1>19. CASE \E dir \in Directions : EngineStep(dir)
  BY <1>2, <1>19 DEF EngineStep, shared, kernel, caller
<1>20. CASE \E dir \in Directions : StopArrives(dir)
  BY <1>2, <1>20 DEF StopArrives, shared, kernel, caller
<1>21. CASE UNCHANGED vars
  BY <1>2, <1>21 DEF vars, shared, kernel, caller
<1>. QED BY <1>3, <1>4, <1>5, <1>6, <1>7, <1>8, <1>9, <1>10, <1>11, <1>12, <1>13, <1>14,
            <1>15, <1>16, <1>17, <1>18, <1>19, <1>20, <1>21, StepCases

-----------------------------------------------------------------------------
(* The engine *)

Running == {"poll", "stop"}
OnSgl == {"poll", "stop", "unmap"}

\* The registers of the engine. A running engine that was not told to stop
\* belongs to a call that polls it.
ChanInv(me) ==
  /\ chan \in [Directions -> [run : BOOLEAN, at : 0 .. MAX_PAGES, stop : BOOLEAN]]
  /\ DOMAIN desc_ring = 1 .. MAX_PAGES
  /\ \A i \in 1 .. MAX_PAGES : desc_ring[i].next \in 0 .. MAX_PAGES
  /\ \A d \in Directions : chan[d].run => chan[d].stop \/ (pc[me] \in Running /\ d = req[me].direction)
  /\ pc[me] \in Running => ~chan[req[me].direction].stop

LEMMA ChanInit ==
  ASSUME NEW me, Threads = {me}, Init
  PROVE  ChanInv(me)
<1>1. pc[me] = "user" /\ MAX_PAGES \in Nat BY GeometryAssumption DEF Init
<1>. QED BY <1>1 DEF Init, ChanInv, Running, NoDesc

\* The i-th descriptor of the chain.
LEMMA ChainEntry ==
  ASSUME NEW r, NEW s, NEW i \in 1 .. Len(s)
  PROVE  /\ Chain(r, s)[i].bytes = s[i].length
         /\ Chain(r, s)[i].next = IF i < Len(s) THEN i + 1 ELSE 0
         /\ r.direction = "to_device" =>
              /\ Chain(r, s)[i].src = s[i].addr
              /\ Chain(r, s)[i].dst = r.ddr3_addr + LengthUpTo(s, i - 1)
         /\ r.direction # "to_device" =>
              /\ Chain(r, s)[i].dst = s[i].addr
              /\ Chain(r, s)[i].src = r.ddr3_addr + LengthUpTo(s, i - 1)
BY DEF Chain

\* BuildChain puts the chain of the scatterlist at the head of desc_ring.
LEMMA BuildsChain ==
  ASSUME NEW me, Threads = {me}, CallInv(me), SglInv(me), ChanInv(me), BuildChain(me)
  PROVE  /\ DOMAIN desc_ring' = 1 .. MAX_PAGES
         /\ Len(sgl) \in Nat /\ Len(sgl) <= MAX_PAGES
         /\ \A i \in 1 .. MAX_PAGES :
              desc_ring'[i] = IF i \in 1 .. Len(sgl) THEN Chain(req[me], sgl)[i] ELSE desc_ring[i]
<1>0. MAX_PAGES \in Nat /\ me \in Threads BY GeometryAssumption
<1>1. pc[me] = "chain" /\ desc_ring' = Overlay(Chain(req[me], SubSeq(sgl, 1, sgl_nents)), desc_ring)
  BY DEF BuildChain, Goto
<1>2. Laid(sgl, req[me]) /\ sgl_nents = Len(sgl) BY <1>1 DEF SglInv, HasSgl, IsMapped
<1>3. Len(sgl) \in Nat /\ Len(sgl) <= MAX_PAGES /\ sgl \in Seq(Segments)
  BY <1>0, <1>1, <1>2, RequestFacts DEF Laid
<1>4. SubSeq(sgl, 1, sgl_nents) = sgl BY <1>2, <1>3
<1>5. DOMAIN Chain(req[me], sgl) = 1 .. Len(sgl) BY DEF Chain
<1>6. DOMAIN desc_ring = 1 .. MAX_PAGES BY DEF ChanInv
<1>7. desc_ring' = Overlay(Chain(req[me], sgl), desc_ring) BY <1>1, <1>4
<1>. HIDE DEF Chain
<1>. QED BY <1>3, <1>5, <1>6, <1>7 DEF Overlay

LEMMA ChanStep ==
  ASSUME NEW me, Threads = {me}, CallInv(me), SglInv(me), ChanInv(me), [Next]_vars
  PROVE  ChanInv(me)'
<1>0. MAX_PAGES \in Nat \ {0} /\ me \in Threads /\ pc \in [Threads -> Places]
  BY GeometryAssumption DEF CallInv
<1>. USE <1>0
<1>k. ASSUME UNCHANGED <<chan, desc_ring>>, pc[me] \notin Running, pc'[me] \notin Running
      PROVE  ChanInv(me)'
  BY <1>k DEF ChanInv, Directions
<1>l. ASSUME UNCHANGED <<chan, desc_ring, req>>, pc[me] \in Running, pc'[me] \in Running
      PROVE  ChanInv(me)'
  BY <1>l DEF ChanInv, Directions
<1>1. CASE \E r \in Requests : Reject(me, r)
  BY <1>1, <1>k DEF Reject, shared, Running
<1>2. CASE \E r \in Requests : Accept(me, r)
  BY <1>2, <1>k DEF Accept, Goto, shared, Running
<1>3. CASE \E k \in 0 .. MAX_PAGES : PinPages(me, k)
  BY <1>3, <1>k DEF PinPages, Goto, Running
<1>4. CASE PinFailed(me)
  BY <1>4, <1>k DEF PinFailed, Leave, shared, Running
<1>5. CASE PinnedTooFew(me)
  BY <1>5, <1>k DEF PinnedTooFew, Leave, Running
<1>6. CASE AllocFailed(me)
  BY <1>6, <1>k DEF AllocFailed, Leave, Running
<1>7. CASE BuildSgl(me)
  BY <1>7, <1>k DEF BuildSgl, Goto, Running
<1>8. CASE MapFailed(me)
  BY <1>8, <1>k DEF MapFailed, Leave, Running
<1>9. CASE \E s \in Mappings(sgl) : MapSgl(me, s)
  BY <1>9, <1>k DEF MapSgl, Goto, Running
<1>10. CASE BuildChain(me)
  <2>1. pc[me] = "chain" /\ pc'[me] = "start" /\ UNCHANGED chan
    BY <1>10 DEF BuildChain, Goto
  <2>2. /\ DOMAIN desc_ring' = 1 .. MAX_PAGES /\ Len(sgl) \in Nat /\ Len(sgl) <= MAX_PAGES
        /\ \A i \in 1 .. MAX_PAGES :
             desc_ring'[i] = IF i \in 1 .. Len(sgl) THEN Chain(req[me], sgl)[i] ELSE desc_ring[i]
    BY <1>10, BuildsChain
  <2>3. ASSUME NEW i \in 1 .. MAX_PAGES PROVE desc_ring'[i].next \in 0 .. MAX_PAGES
    <3>1. CASE i \in 1 .. Len(sgl)
      <4>1. desc_ring'[i] = Chain(req[me], sgl)[i] BY <2>2, <3>1
      <4>2. Chain(req[me], sgl)[i].next = IF i < Len(sgl) THEN i + 1 ELSE 0 BY <3>1, ChainEntry
      <4>. HIDE DEF Chain
      <4>. QED BY <2>2, <4>1, <4>2
    <3>2. CASE i \notin 1 .. Len(sgl)
      <4>1. desc_ring'[i] = desc_ring[i] BY <2>2, <3>2
      <4>. QED BY <4>1 DEF ChanInv
    <3>. QED BY <3>1, <3>2
  <2>. QED BY <2>1, <2>2, <2>3 DEF ChanInv, Running, Directions
<1>11. CASE Start(me)
  <2>1. /\ pc[me] = "start" /\ pc'[me] = "poll" /\ UNCHANGED <<desc_ring, req>>
        /\ chan' = [chan EXCEPT ![req[me].direction] = [run |-> TRUE, at |-> 1, stop |-> FALSE]]
    BY <1>11 DEF Start, Goto, shared
  <2>2. req[me].direction \in Directions BY <2>1, RequestFacts
  <2>3. 1 \in 0 .. MAX_PAGES OBVIOUS
  <2>4. /\ chan' \in [Directions -> [run : BOOLEAN, at : 0 .. MAX_PAGES, stop : BOOLEAN]]
        /\ ~chan'[req[me].direction].stop
        /\ \A d \in Directions : d # req[me].direction => chan'[d] = chan[d]
    BY <2>1, <2>2, <2>3 DEF ChanInv
  <2>. QED BY <2>1, <2>2, <2>4 DEF ChanInv, Running, Directions
<1>12. CASE Poll(me)
  BY <1>12, <1>l DEF Poll, Goto, shared, Running
<1>13. CASE PollDone(me)
  BY <1>13, <1>l DEF PollDone, Goto, shared, Running
<1>14. CASE Stop(me)
  <2>1. /\ pc[me] = "stop" /\ pc'[me] = "unmap" /\ UNCHANGED <<desc_ring, req>>
        /\ chan' = [chan EXCEPT ![req[me].direction].stop = TRUE]
    BY <1>14 DEF Stop, Goto, shared
  <2>2. req[me].direction \in Directions BY <2>1, RequestFacts
  <2>3. /\ chan' \in [Directions -> [run : BOOLEAN, at : 0 .. MAX_PAGES, stop : BOOLEAN]]
        /\ chan'[req[me].direction].stop
        /\ \A d \in Directions : d # req[me].direction => chan'[d] = chan[d]
    BY <2>1, <2>2 DEF ChanInv
  <2>. QED BY <2>1, <2>3 DEF ChanInv, Running, Directions
<1>15. CASE Unmap(me)
  BY <1>15, <1>k DEF Unmap, Goto, Running
<1>16. CASE PutPages(me)
  BY <1>16, <1>k DEF PutPages, Leave, Running
<1>17. CASE \E dir \in Directions : EngineStep(dir)
  <2>1. PICK dir \in Directions : EngineStep(dir) BY <1>17
  <2>2. /\ chan[dir].at # 0 /\ UNCHANGED <<pc, req, desc_ring>>
        /\ chan' = [chan EXCEPT ![dir].at = desc_ring[chan[dir].at].next]
    BY <2>1 DEF EngineStep, shared, caller
  <2>3. chan[dir].at \in 1 .. MAX_PAGES BY <2>2 DEF ChanInv
  <2>4. desc_ring[chan[dir].at].next \in 0 .. MAX_PAGES BY <2>3 DEF ChanInv
  <2>5. /\ chan' \in [Directions -> [run : BOOLEAN, at : 0 .. MAX_PAGES, stop : BOOLEAN]]
        /\ \A d \in Directions : chan'[d].run = chan[d].run /\ chan'[d].stop = chan[d].stop
    BY <2>2, <2>4 DEF ChanInv
  <2>6. pc[me] \in Running => req[me].direction \in Directions BY RequestFacts DEF Running
  <2>. QED BY <2>2, <2>5, <2>6 DEF ChanInv, Directions
<1>18. CASE \E dir \in Directions : StopArrives(dir)
  <2>1. PICK dir \in Directions : StopArrives(dir) BY <1>18
  <2>2. /\ chan[dir].stop /\ UNCHANGED <<pc, req, desc_ring>>
        /\ chan' = [chan EXCEPT ![dir] = [run |-> FALSE, at |-> 0, stop |-> FALSE]]
    BY <2>1 DEF StopArrives, shared, caller
  <2>3. /\ chan' \in [Directions -> [run : BOOLEAN, at : 0 .. MAX_PAGES, stop : BOOLEAN]]
        /\ ~chan'[dir].run /\ ~chan'[dir].stop
        /\ \A d \in Directions : d # dir => chan'[d] = chan[d]
    BY <2>2 DEF ChanInv
  <2>4. pc[me] \in Running => req[me].direction \in Directions BY RequestFacts DEF Running
  <2>. QED BY <2>2, <2>3, <2>4 DEF ChanInv, Directions
<1>19. CASE UNCHANGED vars
  BY <1>19 DEF vars, shared, caller, ChanInv, Running, Directions
<1>. QED BY <1>1, <1>2, <1>3, <1>4, <1>5, <1>6, <1>7, <1>8, <1>9, <1>10, <1>11, <1>12,
            <1>13, <1>14, <1>15, <1>16, <1>17, <1>18, <1>19, StepCases

\* The descriptors are the chain of a list of segments.
Chained(me, s) ==
  Laid(s, req[me]) /\ \A i \in 1 .. Len(s) : desc_ring[i] = Chain(req[me], s)[i]

BusyOn(d) == chan[d].run /\ chan[d].at # 0

\* A busy engine works on the chain of the caller's request: while the caller
\* has its scatterlist on that chain, and later, if the transfer timed out, on
\* the chain of a list that is freed by then.
Serving(me, d) ==
  /\ d = req[me].direction /\ pc[me] \in OnSgl \cup {"put", "user"}
  /\ req[me] \in Requests /\ Valid(req[me]) /\ Backed(req[me], pinned_pages, NumPages(req[me]))
  /\ pc[me] = "poll" \/ timeout[me] = 0
  /\ \E s : /\ Chained(me, s) /\ chan[d].at \in 1 .. Len(s)
            /\ pc[me] \in OnSgl => s = sgl

EngineInv(me) ==
  /\ pc[me] \in {"start"} \cup OnSgl => Chained(me, sgl)
  /\ \A d \in Directions : BusyOn(d) => Serving(me, d)

LEMMA EngineInit ==
  ASSUME NEW me, Threads = {me}, Init
  PROVE  EngineInv(me)
<1>1. pc[me] = "user" BY DEF Init
<1>. QED BY <1>1 DEF Init, EngineInv, BusyOn, OnSgl

\* Steps with an idle engine.
LEMMA EngineStaysIdle ==
  ASSUME NEW me, EngineInv(me), UNCHANGED chan, pc'[me] \notin {"start", "poll", "stop", "unmap"},
         pc[me] \in {"pin", "pinned", "map", "chain", "start"}
  PROVE  EngineInv(me)'
<1>1. \A d \in Directions : ~BusyOn(d) BY DEF EngineInv, Serving, OnSgl
<1>2. \A d \in Directions : ~BusyOn(d)' BY <1>1 DEF BusyOn
<1>. QED BY <1>2 DEF EngineInv, OnSgl, Directions

\* Steps that leave the chain and the engine alone.
LEMMA EngineKept ==
  ASSUME NEW me, EngineInv(me), UNCHANGED <<chan, desc_ring, req, pinned_pages>>,
         \/ UNCHANGED <<pc, sgl>>
         \/ UNCHANGED sgl /\ pc[me] \in OnSgl /\ pc'[me] \in OnSgl
         \/ pc[me] \in OnSgl \cup {"put", "user"} /\ pc'[me] \in {"put", "user"},
         \A d \in Directions : BusyOn(d) => pc'[me] = "poll" \/ timeout'[me] = 0
  PROVE  EngineInv(me)'
<1>1. ASSUME NEW d \in Directions, BusyOn(d)' PROVE Serving(me, d)'
  <2>1. BusyOn(d) BY <1>1 DEF BusyOn
  <2>2. Serving(me, d) BY <2>1 DEF EngineInv
  <2>3. PICK s : Chained(me, s) /\ chan[d].at \in 1 .. Len(s) /\ (pc[me] \in OnSgl => s = sgl)
    BY <2>2 DEF Serving
  <2>4. Chained(me, s)' BY <2>3 DEF Chained
  <2>5. pc'[me] \in OnSgl => s = sgl' BY <2>3 DEF OnSgl
  <2>6. chan'[d].at \in 1 .. Len(s) BY <2>3
  <2>7. /\ d = req'[me].direction /\ pc'[me] \in OnSgl \cup {"put", "user"}
        /\ req'[me] \in Requests /\ Valid(req'[me]) /\ Backed(req'[me], pinned_pages', NumPages(req'[me]))
        /\ pc'[me] = "poll" \/ timeout'[me] = 0
    BY <2>1, <2>2 DEF Serving
  <2>. QED BY <2>4, <2>5, <2>6, <2>7 DEF Serving
<1>2. ASSUME pc'[me] \in {"start"} \cup OnSgl PROVE Chained(me, sgl)'
  BY <1>2 DEF EngineInv, Chained, OnSgl
<1>. QED BY <1>1, <1>2 DEF EngineInv, Directions

LEMMA EngineStepPreserves ==
  ASSUME NEW me, Threads = {me}, StopsInTime = TRUE,
         CallInv(me), PinInv(me), SglInv(me), ChanInv(me), EngineInv(me), [Next]_vars
  PROVE  EngineInv(me)'
<1>0. me \in Threads /\ pc \in [Threads -> Places] /\ timeout \in [Threads -> 0 .. Polls] /\ Polls \in Nat
  BY GeometryAssumption DEF CallInv
<1>. USE <1>0
<1>1. CASE \E r \in Requests : Reject(me, r)
  <2>1. pc[me] = "user" /\ UNCHANGED <<chan, desc_ring, req, pinned_pages, pc, sgl, timeout>>
    BY <1>1 DEF Reject, shared
  <2>2. \A d \in Directions : BusyOn(d) => timeout'[me] = 0 BY <2>1 DEF EngineInv, Serving
  <2>. QED BY <2>1, <2>2, EngineKept
<1>2. CASE \E r \in Requests : Accept(me, r)
  <2>1. /\ pc[me] = "user" /\ pc'[me] = "pin" /\ UNCHANGED chan
        /\ \A d \in Directions : ~chan[d].stop
    BY <1>2 DEF Accept, Goto
  <2>2. \A d \in Directions : ~chan[d].run BY <2>1 DEF ChanInv, Running
  <2>3. \A d \in Directions : ~BusyOn(d)' BY <2>1, <2>2 DEF BusyOn
  <2>. QED BY <2>1, <2>3 DEF EngineInv, OnSgl, Directions
<1>3. CASE \E k \in 0 .. MAX_PAGES : PinPages(me, k)
  BY <1>3, EngineStaysIdle DEF PinPages, Goto
<1>4. CASE PinFailed(me)
  BY <1>4, EngineStaysIdle DEF PinFailed, Leave
<1>5. CASE PinnedTooFew(me)
  BY <1>5, EngineStaysIdle DEF PinnedTooFew, Leave
<1>6. CASE AllocFailed(me)
  BY <1>6, EngineStaysIdle DEF AllocFailed, Leave
<1>7. CASE BuildSgl(me)
  BY <1>7, EngineStaysIdle DEF BuildSgl, Goto
<1>8. CASE MapFailed(me)
  BY <1>8, EngineStaysIdle DEF MapFailed, Leave
<1>9. CASE \E s \in Mappings(sgl) : MapSgl(me, s)
  BY <1>9, EngineStaysIdle DEF MapSgl, Goto
<1>10. CASE BuildChain(me)
  <2>1. pc[me] = "chain" /\ pc'[me] = "start" /\ UNCHANGED <<chan, sgl, req>>
    BY <1>10 DEF BuildChain, Goto
  <2>2. /\ Len(sgl) \in Nat /\ Len(sgl) <= MAX_PAGES /\ MAX_PAGES \in Nat
        /\ \A i \in 1 .. MAX_PAGES :
             desc_ring'[i] = IF i \in 1 .. Len(sgl) THEN Chain(req[me], sgl)[i] ELSE desc_ring[i]
    BY <1>10, BuildsChain, GeometryAssumption
  <2>3. \A i \in 1 .. Len(sgl) : desc_ring'[i] = Chain(req[me], sgl)[i] BY <2>2
  <2>4. Laid(sgl, req[me]) BY <2>1 DEF SglInv, HasSgl
  <2>5. Chained(me, sgl)' BY <2>1, <2>3, <2>4 DEF Chained
  <2>6. \A d \in Directions : ~BusyOn(d) BY <2>1 DEF EngineInv, Serving, OnSgl
  <2>7. \A d \in Directions : ~BusyOn(d)' BY <2>1, <2>6 DEF BusyOn
  <2>. QED BY <2>5, <2>7 DEF EngineInv, Directions
<1>11. CASE Start(me)
  <2>1. /\ pc[me] = "start" /\ pc'[me] = "poll" /\ UNCHANGED <<sgl, desc_ring, req, pinned_pages>>
        /\ chan' = [chan EXCEPT ![req[me].direction] = [run |-> TRUE, at |-> 1, stop |-> FALSE]]
    BY <1>11 DEF Start, Goto, shared
  <2>2. req[me] \in Requests /\ Valid(req[me]) /\ req[me].direction \in Directions
    BY <2>1, RequestFacts
  <2>3. Chained(me, sgl) BY <2>1 DEF EngineInv
  <2>4. Chained(me, sgl)' BY <2>1, <2>3 DEF Chained
  <2>5. Len(sgl) \in Nat /\ 1 \in 1 .. Len(sgl)
    <3>1. Laid(sgl, req[me]) BY <2>3 DEF Chained
    <3>. QED BY <3>1 DEF Laid
  <2>6. Backed(req[me], pinned_pages, NumPages(req[me])) BY <2>1 DEF PinInv
  <2>7. /\ chan'[req[me].direction].at = 1
        /\ \A d \in Directions : d # req[me].direction => chan'[d] = chan[d]
    BY <2>1, <2>2 DEF ChanInv
  <2>8. \A d \in Directions : ~BusyOn(d) BY <2>1 DEF EngineInv, Serving, OnSgl
  <2>9. ASSUME NEW d \in Directions, BusyOn(d)' PROVE Serving(me, d)'
    <3>1. d = req[me].direction BY <2>7, <2>8, <2>9 DEF BusyOn
    <3>2. Chained(me, sgl)' /\ chan'[d].at \in 1 .. Len(sgl) BY <2>4, <2>5, <2>7, <3>1
    <3>3. /\ d = req'[me].direction /\ pc'[me] \in OnSgl /\ pc'[me] = "poll" /\ sgl' = sgl
          /\ req'[me] \in Requests /\ Valid(req'[me])
          /\ Backed(req'[me], pinned_pages', NumPages(req'[me]))
      BY <2>1, <2>2, <2>6, <3>1 DEF OnSgl
    <3>. QED BY <3>2, <3>3 DEF Serving
  <2>. QED BY <2>4, <2>9 DEF EngineInv, Directions
<1>12. CASE Poll(me)
  <2>1. /\ pc[me] = "poll" /\ pc'[me] \in {"poll", "stop"} /\ UNCHANGED <<chan, desc_ring, req, pinned_pages, sgl>>
        /\ pc'[me] = IF timeout'[me] > 0 THEN "poll" ELSE "stop"
        /\ timeout'[me] = timeout[me] - 1
    BY <1>12 DEF Poll, Goto, shared
  <2>2. timeout[me] \in Nat /\ timeout[me] # 0 BY <2>1 DEF CallInv
  <2>3. pc'[me] = "poll" \/ timeout'[me] = 0 BY <2>1, <2>2
  <2>. QED BY <2>1, <2>3, EngineKept DEF OnSgl
<1>13. CASE PollDone(me)
  <2>1. /\ pc[me] = "poll" /\ pc'[me] = "stop" /\ UNCHANGED <<chan, desc_ring, req, pinned_pages, sgl>>
        /\ chan[req[me].direction].at = 0
    BY <1>13 DEF PollDone, Busy, Goto, shared
  <2>2. \A d \in Directions : ~BusyOn(d) BY <2>1 DEF EngineInv, Serving, BusyOn
  <2>. QED BY <2>1, <2>2, EngineKept DEF OnSgl
<1>14. CASE Stop(me)
  <2>1. /\ pc[me] = "stop" /\ pc'[me] = "unmap" /\ UNCHANGED <<desc_ring, req, pinned_pages, sgl, timeout>>
        /\ chan' = [chan EXCEPT ![req[me].direction].stop = TRUE]
    BY <1>14 DEF Stop, Goto, shared
  <2>2. \A d \in Directions : chan'[d].run = chan[d].run /\ chan'[d].at = chan[d].at
    BY <2>1 DEF ChanInv
  <2>3. Chained(me, sgl)' BY <2>1 DEF EngineInv, OnSgl, Chained
  <2>4. ASSUME NEW d \in Directions, BusyOn(d)' PROVE Serving(me, d)'
    <3>1. BusyOn(d) BY <2>2, <2>4 DEF BusyOn
    <3>2. Serving(me, d) BY <3>1 DEF EngineInv
    <3>3. timeout[me] = 0 /\ chan[d].at \in 1 .. Len(sgl) BY <2>1, <3>2 DEF Serving, OnSgl
    <3>. QED BY <2>1, <2>2, <2>3, <3>2, <3>3 DEF Serving, OnSgl
  <2>. QED BY <2>3, <2>4 DEF EngineInv, Directions
<1>15. CASE Unmap(me)
  <2>1. pc[me] = "unmap" /\ pc'[me] = "put" /\ UNCHANGED <<chan, desc_ring, req, pinned_pages, timeout>>
    BY <1>15 DEF Unmap, Goto
  <2>2. \A d \in Directions : BusyOn(d) => timeout'[me] = 0 BY <2>1 DEF EngineInv, Serving
  <2>. QED BY <2>1, <2>2, EngineKept DEF OnSgl
<1>16. CASE PutPages(me)
  <2>1. pc[me] = "put" /\ pc'[me] = "user" /\ UNCHANGED <<chan, desc_ring, req, pinned_pages, timeout>>
    BY <1>16 DEF PutPages, Leave
  <2>2. \A d \in Directions : BusyOn(d) => timeout'[me] = 0 BY <2>1 DEF EngineInv, Serving
  <2>. QED BY <2>1, <2>2, EngineKept
<1>17. CASE \E dir \in Directions : EngineStep(dir)
  <2>1. PICK dir \in Directions : EngineStep(dir) BY <1>17
  <2>2. /\ BusyOn(dir) /\ UNCHANGED <<pc, req, desc_ring, sgl, pinned_pages, timeout>>
        /\ chan' = [chan EXCEPT ![dir].at = desc_ring[chan[dir].at].next]
    BY <2>1 DEF EngineStep, shared, caller, BusyOn
  <2>3. Serving(me, dir) BY <2>2 DEF EngineInv
  <2>4. /\ \A d \in Directions : d # dir => chan'[d] = chan[d]
        /\ chan'[dir].at = desc_ring[chan[dir].at].next
    BY <2>2 DEF ChanInv
  <2>5. \A s : Chained(me, s) => Chained(me, s)' BY <2>2 DEF Chained
  <2>6. ASSUME NEW d \in Directions, BusyOn(d)' PROVE Serving(me, d)'
    <3>1. d = dir
      <4>1. ASSUME d # dir PROVE FALSE
        <5>1. BusyOn(d) BY <2>4, <2>6, <4>1 DEF BusyOn
        <5>2. d = req[me].direction /\ dir = req[me].direction BY <2>3, <5>1 DEF EngineInv, Serving
        <5>. QED BY <4>1, <5>2
      <4>. QED BY <4>1
    <3>2. PICK s : Chained(me, s) /\ chan[dir].at \in 1 .. Len(s) /\ (pc[me] \in OnSgl => s = sgl)
      BY <2>3 DEF Serving
    <3> DEFINE i == chan[dir].at
    <3>3. desc_ring[i] = Chain(req[me], s)[i] BY <3>2 DEF Chained
    <3>4. Chain(req[me], s)[i].next = IF i < Len(s) THEN i + 1 ELSE 0 BY <3>2, ChainEntry
    <3>5. Len(s) \in Nat
      <4>1. Laid(s, req[me]) BY <3>2 DEF Chained
      <4>. QED BY <4>1 DEF Laid
    <3>. HIDE DEF Chain
    <3>6. chan'[dir].at = (IF i < Len(s) THEN i + 1 ELSE 0) /\ i \in 1 .. Len(s)
      BY <2>4, <3>2, <3>3, <3>4
    <3>7. chan'[dir].at # 0 BY <2>6, <3>1 DEF BusyOn
    <3>. HIDE DEF i
    <3>8. chan'[dir].at \in 1 .. Len(s) BY <3>5, <3>6, <3>7
    <3>9. Chained(me, s)' /\ (pc'[me] \in OnSgl => s = sgl') BY <2>2, <2>5, <3>2
    <3>. QED BY <2>2, <2>3, <3>1, <3>8, <3>9 DEF Serving
  <2>7. pc'[me] \in {"start"} \cup OnSgl => Chained(me, sgl)' BY <2>2, <2>5 DEF EngineInv
  <2>. QED BY <2>6, <2>7 DEF EngineInv, Directions
<1>18. CASE \E dir \in Directions : StopArrives(dir)
  <2>1. PICK dir \in Directions : StopArrives(dir) BY <1>18
  <2>2. /\ UNCHANGED <<pc, req, desc_ring, sgl, pinned_pages, timeout>>
        /\ chan' = [chan EXCEPT ![dir] = [run |-> FALSE, at |-> 0, stop |-> FALSE]]
    BY <2>1 DEF StopArrives, shared, caller
  <2>3. ~chan'[dir].run /\ \A d \in Directions : d # dir => chan'[d] = chan[d]
    BY <2>2 DEF ChanInv
  <2>4. \A s : Chained(me, s) => Chained(me, s)' BY <2>2 DEF Chained
  <2>5. ASSUME NEW d \in Directions, BusyOn(d)' PROVE Serving(me, d)'
    <3>1. BusyOn(d) /\ chan'[d] = chan[d] BY <2>3, <2>5 DEF BusyOn
    <3>2. Serving(me, d) BY <3>1 DEF EngineInv
    <3>. QED BY <2>2, <2>4, <3>1, <3>2 DEF Serving
  <2>6. pc'[me] \in {"start"} \cup OnSgl => Chained(me, sgl)' BY <2>2, <2>4 DEF EngineInv
  <2>. QED BY <2>5, <2>6 DEF EngineInv, Directions
<1>19. CASE UNCHANGED vars
  <2>1. UNCHANGED <<chan, desc_ring, req, pinned_pages, pc, sgl, timeout>>
    BY <1>19 DEF vars, shared, caller
  <2>2. \A d \in Directions : BusyOn(d) => pc'[me] = "poll" \/ timeout'[me] = 0
    BY <2>1 DEF EngineInv, Serving
  <2>. QED BY <2>1, <2>2, EngineKept
<1>. QED BY <1>1, <1>2, <1>3, <1>4, <1>5, <1>6, <1>7, <1>8, <1>9, <1>10, <1>11, <1>12,
            <1>13, <1>14, <1>15, <1>16, <1>17, <1>18, <1>19, StepCases

-----------------------------------------------------------------------------
(* The bytes of the buffer *)

LEMMA FactorLess ==
  ASSUME NEW p \in Nat, p # 0, NEW a \in Nat, NEW b \in Nat, a * p < b * p
  PROVE  a < b
OBVIOUS

\* The page of a byte of the buffer is one of the pages pinned for it.
LEMMA ByteOnPage ==
  ASSUME NEW r, r.host_vaddr \in Nat, r.size \in Nat, Valid(r),
         NEW pages, Backed(r, pages, NumPages(r)), NEW j \in Nat, j < r.size
  PROVE  LET v == r.host_vaddr + j
             k == (v \div PAGE_SIZE) - FirstPage(r) + 1
         IN  /\ k \in 1 .. NumPages(r) /\ pages[k] = Frame[v \div PAGE_SIZE]
             /\ v \in Nat /\ v \div PAGE_SIZE \in DOMAIN Frame
             /\ Frame[v \div PAGE_SIZE] \in Nat /\ Frame[v \div PAGE_SIZE] \in Frames
<1> DEFINE v == r.host_vaddr + j
           q == v \div PAGE_SIZE
           fp == FirstPage(r)
           off == offset_in_page(r.host_vaddr)
           n == NumPages(r)
           k == q - fp + 1
<1>1. PAGE_SIZE \in Nat /\ PAGE_SIZE # 0 BY GeometryAssumption
<1>2. off \in 0 .. PAGE_SIZE - 1 /\ fp \in Nat /\ r.host_vaddr = fp * PAGE_SIZE + off
  BY <1>1, DivMod DEF offset_in_page, FirstPage
<1>3. n \in Nat /\ n >= 1 /\ r.size <= n * PAGE_SIZE - off
  <2>1. n \in Nat /\ n >= 1 /\ r.size <= Full(r, n) BY PageCount, GeometryAssumption
  <2>. QED BY <2>1 DEF Full
<1>4. v \in Nat /\ v = fp * PAGE_SIZE + off + j
  <2>. HIDE DEF fp, off
  <2>. QED BY <1>1, <1>2
<1>5. q \in Nat /\ v % PAGE_SIZE \in 0 .. PAGE_SIZE - 1 /\ v = q * PAGE_SIZE + (v % PAGE_SIZE)
  <2>. HIDE DEF v
  <2>. QED BY <1>1, <1>4, DivMod
<1>. HIDE DEF v, q, fp, off, n
<1>6. fp * PAGE_SIZE \in Nat /\ n * PAGE_SIZE \in Nat /\ q * PAGE_SIZE \in Nat
  BY <1>1, <1>2, <1>3, <1>5
<1>7. fp < q + 1
  <2>1. (q + 1) * PAGE_SIZE = q * PAGE_SIZE + PAGE_SIZE BY <1>1, <1>5
  <2>2. fp * PAGE_SIZE < (q + 1) * PAGE_SIZE BY <1>1, <1>2, <1>4, <1>5, <1>6, <2>1
  <2>3. q + 1 \in Nat BY <1>5
  <2>. QED BY <1>1, <1>2, <2>2, <2>3, FactorLess
<1>8. q < fp + n
  <2>1. (fp + n) * PAGE_SIZE = fp * PAGE_SIZE + n * PAGE_SIZE BY <1>1, <1>2, <1>3
  <2>2. q * PAGE_SIZE < (fp + n) * PAGE_SIZE BY <1>1, <1>2, <1>3, <1>4, <1>5, <1>6, <2>1
  <2>3. fp + n \in Nat BY <1>2, <1>3
  <2>. QED BY <1>1, <1>5, <2>2, <2>3, FactorLess
<1>9. k \in 1 .. n /\ fp + k - 1 = q BY <1>2, <1>3, <1>5, <1>7, <1>8
<1>10. pages[k] = Frame[q] /\ q \in DOMAIN Frame
  <2>1. \A i \in 1 .. n : fp + i - 1 \in DOMAIN Frame /\ pages[i] = Frame[fp + i - 1]
    BY DEF Backed, n, fp
  <2>. HIDE DEF k
  <2>. QED BY <1>9, <2>1
<1>11. Frame[q] \in Nat /\ Frame[q] \in Frames BY <1>10, MemoryAssumption DEF Frames
<1>. QED BY <1>4, <1>9, <1>10, <1>11 DEF v, q, fp, n

\* Its physical address.
LEMMA ByteSplits ==
  ASSUME NEW r, r.host_vaddr \in Nat, r.size \in Nat, Valid(r),
         NEW pages, Backed(r, pages, NumPages(r)), NEW j \in Nat, j < r.size
  PROVE  LET v == r.host_vaddr + j
         IN  /\ Byte(r, j) \div PAGE_SIZE = Frame[v \div PAGE_SIZE]
             /\ Byte(r, j) % PAGE_SIZE = v % PAGE_SIZE
             /\ Byte(r, j) \in HostBytes
<1> DEFINE v == r.host_vaddr + j
           f == Frame[v \div PAGE_SIZE]
           m == v % PAGE_SIZE
<1>1. PAGE_SIZE \in Nat /\ PAGE_SIZE # 0 BY GeometryAssumption
<1>2. v \in Nat /\ f \in Nat /\ f \in Frames BY ByteOnPage
<1>3. m \in 0 .. PAGE_SIZE - 1
  <2>. HIDE DEF v
  <2>. QED BY <1>1, <1>2, DivMod
<1>4. Byte(r, j) = f * PAGE_SIZE + m BY DEF Byte, Phys, offset_in_page
<1>. HIDE DEF f, m
<1>5. (f * PAGE_SIZE + m) \div PAGE_SIZE = f /\ (f * PAGE_SIZE + m) % PAGE_SIZE = m
  BY <1>1, <1>2, <1>3, DivUnique
<1>6. f * PAGE_SIZE + m \in HostBytes BY <1>2, <1>3 DEF HostBytes
<1>7. /\ Byte(r, j) \div PAGE_SIZE = f /\ Byte(r, j) % PAGE_SIZE = m /\ Byte(r, j) \in HostBytes
  BY <1>4, <1>5, <1>6, Zenon
<1>. QED BY <1>7 DEF f, m

\* Two bytes of the buffer have different addresses.
LEMMA BytesDiffer ==
  ASSUME NEW r, r.host_vaddr \in Nat, r.size \in Nat, Valid(r),
         NEW pages, Backed(r, pages, NumPages(r)),
         NEW i \in Nat, i < r.size, NEW j \in Nat, j < r.size, Byte(r, i) = Byte(r, j)
  PROVE  i = j
<1> DEFINE v == r.host_vaddr + i
           w == r.host_vaddr + j
<1>1. PAGE_SIZE \in Nat /\ PAGE_SIZE # 0 BY GeometryAssumption
<1>2. v \div PAGE_SIZE \in DOMAIN Frame /\ w \div PAGE_SIZE \in DOMAIN Frame /\ v \in Nat /\ w \in Nat
  BY ByteOnPage
<1>3. /\ Byte(r, i) \div PAGE_SIZE = Frame[v \div PAGE_SIZE] /\ Byte(r, i) % PAGE_SIZE = v % PAGE_SIZE
      /\ Byte(r, j) \div PAGE_SIZE = Frame[w \div PAGE_SIZE] /\ Byte(r, j) % PAGE_SIZE = w % PAGE_SIZE
  BY ByteSplits
<1>. HIDE DEF v, w
<1>4. Frame[v \div PAGE_SIZE] = Frame[w \div PAGE_SIZE] /\ v % PAGE_SIZE = w % PAGE_SIZE
  BY <1>3, Zenon
<1>5. v \div PAGE_SIZE = w \div PAGE_SIZE BY <1>2, <1>4, MemoryAssumption
<1>6. /\ v = (v \div PAGE_SIZE) * PAGE_SIZE + (v % PAGE_SIZE)
      /\ w = (w \div PAGE_SIZE) * PAGE_SIZE + (w % PAGE_SIZE)
  BY <1>1, <1>2, DivMod
<1>7. v = w BY <1>4, <1>5, <1>6, Zenon
<1>. QED BY <1>7 DEF v, w

\* The bytes of a segment are bytes of the buffer.
LEMMA SegmentBytes ==
  ASSUME NEW r, r.host_vaddr \in Nat, r.size \in Nat, Valid(r),
         NEW s, Laid(s, r), NEW i \in 1 .. Len(s), NEW a \in s[i].addr .. s[i].addr + s[i].length - 1
  PROVE  LET j == LengthUpTo(s, i - 1) + (a - s[i].addr)
         IN  /\ j \in Nat /\ j < r.size /\ Byte(r, j) = a
             /\ LengthUpTo(s, i - 1) <= j /\ j < LengthUpTo(s, i)
<1> DEFINE ad == s[i].addr
           len == s[i].length
           lo == LengthUpTo(s, i - 1)
           hi == LengthUpTo(s, i)
           o == a - ad
<1>1. s \in Seq(Segments) /\ LengthUpTo(s, Len(s)) = r.size /\ Len(s) \in Nat BY DEF Laid
<1>2. i - 1 \in 0 .. Len(s) /\ i \in 0 .. Len(s) BY <1>1
<1>3. lo \in Nat /\ hi = lo + len /\ len \in Nat /\ ad \in Nat BY <1>1, <1>2, SumsGrow
<1>4. hi <= r.size BY <1>1, <1>2, SumsMonotone
<1>5. a \in ad .. ad + len - 1 OBVIOUS
<1>6. \A x \in Nat : x < len => Byte(r, lo + x) = ad + x BY DEF Laid
<1>. HIDE DEF ad, len, lo, hi
<1>7. o \in Nat /\ o < len /\ ad + o = a BY <1>3, <1>5
<1>8. Byte(r, lo + o) = a
  <2>. HIDE DEF o
  <2>. QED BY <1>6, <1>7
<1>9. lo + o \in Nat /\ lo + o < r.size /\ lo <= lo + o /\ lo + o < hi BY <1>3, <1>4, <1>7
<1>. QED BY <1>8, <1>9 DEF ad, lo, hi

-----------------------------------------------------------------------------
(* What the engine writes *)

\* Byte a of one memory takes over what a descriptor's source holds for it.
LEMMA CopyEffect ==
  ASSUME NEW to, NEW from, NEW d
  PROVE  /\ DOMAIN Copy(to, from, d) = DOMAIN to
         /\ \A a \in DOMAIN to :
              Copy(to, from, d)[a] =
                IF a \in d.dst .. d.dst + d.bytes - 1 /\ d.src + (a - d.dst) \in DOMAIN from
                THEN from[d.src + (a - d.dst)] ELSE to[a]
BY DEF Copy

\* Where the engine is: at the i-th segment of s, whose bytes are lo, ..., hi - 1.
EngineAt(me, dir, s, i, lo, hi) ==
  /\ Serving(me, dir) /\ Chained(me, s) /\ (pc[me] \in OnSgl => s = sgl) /\ i = chan[dir].at
  /\ i \in 1 .. Len(s) /\ Len(s) \in Nat
  /\ lo = LengthUpTo(s, i - 1) /\ hi = LengthUpTo(s, i) /\ lo \in Nat /\ hi \in Nat
  /\ lo <= hi /\ hi <= req[me].size /\ (i = Len(s) => hi = req[me].size)
  /\ desc_ring[i].bytes = hi - lo
  /\ desc_ring[i].next = IF i < Len(s) THEN i + 1 ELSE 0

LEMMA EngineIsAt ==
  ASSUME NEW me, EngineInv(me), NEW dir \in Directions, BusyOn(dir)
  PROVE  \E s : EngineAt(me, dir, s, chan[dir].at,
                         LengthUpTo(s, chan[dir].at - 1), LengthUpTo(s, chan[dir].at))
<1>1. Serving(me, dir) BY DEF EngineInv
<1>2. PICK s : Chained(me, s) /\ chan[dir].at \in 1 .. Len(s) /\ (pc[me] \in OnSgl => s = sgl)
  BY <1>1 DEF Serving
<1> DEFINE i == chan[dir].at
           lo == LengthUpTo(s, i - 1)
           hi == LengthUpTo(s, i)
<1>3. Laid(s, req[me]) BY <1>2 DEF Chained
<1>4. s \in Seq(Segments) /\ Len(s) \in Nat /\ LengthUpTo(s, Len(s)) = req[me].size
  BY <1>3 DEF Laid
<1>5. i \in 1 .. Len(s) /\ desc_ring[i] = Chain(req[me], s)[i] BY <1>2 DEF Chained
<1>. HIDE DEF i
<1>6. i - 1 \in 0 .. Len(s) /\ i \in 0 .. Len(s) BY <1>4, <1>5
<1>7. lo \in Nat /\ hi \in Nat /\ hi = lo + s[i].length /\ s[i].length \in Nat
  BY <1>4, <1>5, <1>6, SumsGrow
<1>8. hi <= req[me].size BY <1>4, <1>6, SumsMonotone
<1>9. desc_ring[i].bytes = s[i].length /\ desc_ring[i].next = IF i < Len(s) THEN i + 1 ELSE 0
  BY <1>5, ChainEntry
<1>10. i = Len(s) => hi = req[me].size BY <1>4
<1>11. EngineAt(me, dir, s, i, lo, hi)
  <2>. HIDE DEF lo, hi
  <2>1. lo <= hi /\ desc_ring[i].bytes = hi - lo BY <1>7, <1>9
  <2>2. lo = LengthUpTo(s, i - 1) /\ hi = LengthUpTo(s, i) /\ i = chan[dir].at BY DEF lo, hi, i
  <2>. QED BY <1>1, <1>2, <1>4, <1>5, <1>7, <1>8, <1>9, <1>10, <2>1, <2>2 DEF EngineAt
<1>. QED BY <1>11 DEF i

\* What the engine serves is a valid request on the frames found for it.
LEMMA ServingFacts ==
  ASSUME NEW me, NEW dir, Serving(me, dir)
  PROVE  /\ dir = req[me].direction /\ req[me] \in Requests /\ Valid(req[me])
         /\ req[me].direction \in Directions
         /\ req[me].host_vaddr \in Nat /\ req[me].size \in Nat \ {0} /\ req[me].ddr3_addr \in Nat
         /\ Backed(req[me], pinned_pages, NumPages(req[me]))
<1>1. req[me] \in Requests /\ Valid(req[me]) BY DEF Serving
<1>. QED BY <1>1, ValidFacts DEF Serving

\* The effect of one descriptor, in bytes of the buffer.
WritesSegment(r, lo, hi) ==
  IF r.direction = "to_device"
  THEN /\ host' = host
       /\ \A a \in DdrBytes :
            \/ ddr'[a] = ddr[a]
            \/ \E j \in Nat : lo <= j /\ j < hi /\ a = r.ddr3_addr + j /\ ddr'[a] = host[Byte(r, j)]
       /\ \A j \in Nat : lo <= j /\ j < hi /\ r.ddr3_addr + j \in DdrBytes =>
            ddr'[r.ddr3_addr + j] = host[Byte(r, j)]
  ELSE /\ ddr' = ddr
       /\ \A a \in HostBytes :
            \/ host'[a] = host[a]
            \/ \E j \in Nat : /\ lo <= j /\ j < hi /\ a = Byte(r, j) /\ host'[a] = ddr[r.ddr3_addr + j]
                              /\ r.ddr3_addr + j \in DdrBytes
       /\ \A j \in Nat : lo <= j /\ j < hi /\ r.ddr3_addr + j \in DdrBytes =>
            host'[Byte(r, j)] = ddr[r.ddr3_addr + j]

LEMMA EngineWrites ==
  ASSUME NEW me, CallInv(me), NEW dir \in Directions, EngineStep(dir),
         NEW s, NEW i, NEW lo, NEW hi, EngineAt(me, dir, s, i, lo, hi)
  PROVE  WritesSegment(req[me], lo, hi)
<1> DEFINE r == req[me]
           d == desc_ring[i]
           ad == s[i].addr
           dev == r.ddr3_addr
<1>1. /\ dir = r.direction /\ i \in 1 .. Len(s) /\ i = chan[dir].at
      /\ lo \in Nat /\ hi \in Nat /\ lo <= hi /\ hi <= r.size /\ d.bytes = hi - lo
      /\ lo = LengthUpTo(s, i - 1) /\ hi = LengthUpTo(s, i)
  BY DEF EngineAt, Serving
<1>2. Serving(me, dir) BY DEF EngineAt
<1>3. /\ r.host_vaddr \in Nat /\ r.size \in Nat /\ dev \in Nat /\ Valid(r) /\ r.direction \in Directions
  BY <1>2, ServingFacts
<1>4. Laid(s, r) /\ Backed(r, pinned_pages, NumPages(r))
  BY <1>2, ServingFacts DEF EngineAt, Chained
<1>5. DOMAIN host = HostBytes /\ DOMAIN ddr = DdrBytes BY DEF CallInv
<1>6. d = Chain(r, s)[i] BY <1>1 DEF EngineAt, Chained
<1>7. ad \in Nat /\ s[i].length = hi - lo
  <2>1. s \in Seq(Segments) BY <1>4 DEF Laid
  <2> DEFINE len == s[i].length
  <2>2. hi = lo + len /\ len \in Nat /\ ad \in Nat BY <1>1, <2>1, SumsGrow
  <2>. HIDE DEF len, ad
  <2>3. lo \in Nat BY <1>1
  <2>4. len = hi - lo BY <2>2, <2>3
  <2>. QED BY <2>2, <2>4 DEF len
<1>. HIDE DEF r, d, dev, ad
<1>a. lo \in Nat /\ hi \in Nat /\ lo <= hi /\ ad \in Nat /\ dev \in Nat BY <1>1, <1>3, <1>7
\* The j-th byte of the buffer, if it is in this segment.
<1>8. ASSUME NEW j \in Nat, lo <= j, j < hi
      PROVE  /\ Byte(r, j) = ad + (j - lo) /\ Byte(r, j) \in HostBytes
             /\ Byte(r, j) \in ad .. ad + (hi - lo) - 1
  <2> DEFINE b == ad + (j - lo)
  <2>1. b \in ad .. ad + (hi - lo) - 1 BY <1>a, <1>8
  <2>2. lo + (b - ad) = j BY <1>a
  <2>. HIDE DEF b
  <2>3. b \in s[i].addr .. s[i].addr + s[i].length - 1 BY <1>7, <2>1 DEF ad
  <2>4. Byte(r, lo + (b - ad)) = b /\ lo + (b - ad) < r.size
    <3>1. /\ Byte(r, LengthUpTo(s, i - 1) + (b - s[i].addr)) = b
          /\ LengthUpTo(s, i - 1) + (b - s[i].addr) < r.size
      <4>1. i \in 1 .. Len(s) BY <1>1
      <4>2. ASSUME NEW a \in s[i].addr .. s[i].addr + s[i].length - 1
            PROVE  /\ Byte(r, LengthUpTo(s, i - 1) + (a - s[i].addr)) = a
                   /\ LengthUpTo(s, i - 1) + (a - s[i].addr) < r.size
        BY <1>3, <1>4, <4>1, SegmentBytes
      <4>. QED BY <2>3, <4>2, Zenon
    <3>2. lo = LengthUpTo(s, i - 1) /\ ad = s[i].addr BY <1>1 DEF ad
    <3>. QED BY <3>1, <3>2, Zenon
  <2>5. Byte(r, j) = b /\ j < r.size BY <2>2, <2>4
  <2>6. Byte(r, j) \in HostBytes BY <1>3, <1>4, <2>5, ByteSplits
  <2>. QED BY <2>1, <2>5, <2>6 DEF b
<1>9. CASE r.direction = "to_device"
  <2>1. d.src = ad /\ d.dst = dev + lo BY <1>1, <1>6, <1>9, ChainEntry DEF dev, ad
  <2>2. ddr' = Copy(ddr, host, d) /\ host' = host
    BY <1>1, <1>9 DEF EngineStep, d
  <2>3. ASSUME NEW a \in DdrBytes
        PROVE  ddr'[a] = IF a \in d.dst .. d.dst + d.bytes - 1 /\ d.src + (a - d.dst) \in HostBytes
                         THEN host[d.src + (a - d.dst)] ELSE ddr[a]
    BY <1>5, <2>2, CopyEffect
  <2>4. ASSUME NEW j \in Nat, lo <= j, j < hi, dev + j \in DdrBytes
        PROVE  ddr'[dev + j] = host[Byte(r, j)]
    <3>1. Byte(r, j) = ad + (j - lo) /\ Byte(r, j) \in HostBytes BY <1>8, <2>4
    <3>2. dev + j \in d.dst .. d.dst + d.bytes - 1
      <4>1. d.bytes = hi - lo BY <1>1
      <4>. QED BY <4>1, <1>a, <2>1, <2>4
    <3>3. d.src + ((dev + j) - d.dst) = ad + (j - lo) BY <1>a, <2>1
    <3>. QED BY <2>3, <2>4, <3>1, <3>2, <3>3
  <2>5. ASSUME NEW a \in DdrBytes, ddr'[a] # ddr[a]
        PROVE  \E j \in Nat : lo <= j /\ j < hi /\ a = dev + j /\ ddr'[a] = host[Byte(r, j)]
    <3>1. a \in Nat /\ a \in d.dst .. d.dst + d.bytes - 1 BY <2>3, <2>5, MemoryAssumption
    <3> DEFINE j == a - dev
    <3>2. j \in Nat /\ lo <= j /\ j < hi /\ a = dev + j
      <4>1. d.bytes = hi - lo BY <1>1
      <4>. QED BY <4>1, <1>a, <2>1, <3>1
    <3>. HIDE DEF j
    <3>3. ddr'[a] = host[Byte(r, j)] BY <2>4, <3>2
    <3>. QED BY <3>2, <3>3
  <2>. QED BY <1>9, <2>2, <2>4, <2>5 DEF WritesSegment, r, dev
<1>10. CASE r.direction # "to_device"
  <2>1. d.dst = ad /\ d.src = dev + lo
    <3>1. i \in 1 .. Len(s) BY <1>1
    <3>2. Chain(r, s)[i].dst = s[i].addr /\ Chain(r, s)[i].src = r.ddr3_addr + LengthUpTo(s, i - 1)
      BY <1>10, <3>1, ChainEntry
    <3>. QED BY <1>1, <1>6, <3>2 DEF dev, ad
  <2>2. host' = Copy(host, ddr, d) /\ ddr' = ddr
    BY <1>1, <1>3, <1>10 DEF EngineStep, Directions, d
  <2>3. ASSUME NEW a \in HostBytes
        PROVE  host'[a] = IF a \in d.dst .. d.dst + d.bytes - 1 /\ d.src + (a - d.dst) \in DdrBytes
                          THEN ddr[d.src + (a - d.dst)] ELSE host[a]
    BY <1>5, <2>2, CopyEffect
  <2>4. ASSUME NEW j \in Nat, lo <= j, j < hi, dev + j \in DdrBytes
        PROVE  host'[Byte(r, j)] = ddr[dev + j]
    <3>1. /\ Byte(r, j) = ad + (j - lo) /\ Byte(r, j) \in HostBytes
          /\ Byte(r, j) \in d.dst .. d.dst + d.bytes - 1
      BY <1>1, <1>8, <2>1, <2>4
    <3>2. d.src + (Byte(r, j) - d.dst) = dev + j BY <1>a, <2>1, <3>1
    <3>. QED BY <2>3, <2>4, <3>1, <3>2
  <2>5. ASSUME NEW a \in HostBytes, host'[a] # host[a]
        PROVE  \E j \in Nat : /\ lo <= j /\ j < hi /\ a = Byte(r, j) /\ host'[a] = ddr[dev + j]
                              /\ dev + j \in DdrBytes
    <3>1. a \in ad .. ad + (hi - lo) - 1 /\ d.src + (a - d.dst) \in DdrBytes
      BY <1>1, <2>1, <2>3, <2>5
    <3> DEFINE j == lo + (a - ad)
    <3>2. j \in Nat /\ lo <= j /\ j < hi /\ a = ad + (j - lo) /\ d.src + (a - d.dst) = dev + j
      BY <1>a, <2>1, <3>1
    <3>. HIDE DEF j
    <3>3. Byte(r, j) = a BY <1>8, <3>2
    <3>4. dev + j \in DdrBytes BY <3>1, <3>2
    <3>5. host'[a] = ddr[dev + j] BY <2>4, <3>2, <3>3, <3>4
    <3>. QED BY <3>2, <3>3, <3>4, <3>5
  <2>. QED BY <1>10, <2>2, <2>4, <2>5 DEF WritesSegment, r, dev
<1>. QED BY <1>9, <1>10

-----------------------------------------------------------------------------
(* Written pages, and delivered bytes *)

Writing == {"poll", "stop", "unmap", "put"}

\* A page the device has written is dirty, or will be marked by the caller. A
\* page an abandoned engine may still write was marked when it was put.
DirtyInv(me) ==
  /\ \A a \in HostBytes :
       host[a] # <<"host", a>> =>
         \/ a \div PAGE_SIZE \in dirty
         \/ /\ pc[me] \in Writing /\ req[me].direction = "from_device"
            /\ \E k \in 1 .. num_pinned_pages : a \div PAGE_SIZE = pinned_pages[k]
  /\ pc[me] = "user" /\ BusyOn("from_device") =>
       \A k \in 1 .. NumPages(req[me]) : pinned_pages[k] \in dirty

LEMMA DirtyKept ==
  ASSUME NEW me, DirtyInv(me), UNCHANGED <<host, dirty>>,
         \/ pc[me] \notin Writing
         \/ pc'[me] \in Writing /\ UNCHANGED <<req, num_pinned_pages, pinned_pages>>,
         pc'[me] = "user" /\ BusyOn("from_device")' =>
           pc[me] = "user" /\ BusyOn("from_device") /\ UNCHANGED <<req, pinned_pages>>
  PROVE  DirtyInv(me)'
<1>1. HostBytes' = HostBytes BY DEF HostBytes, Frames
<1>. QED BY <1>1 DEF DirtyInv

LEMMA DirtyStep ==
  ASSUME NEW me, Threads = {me}, CallInv(me), PinInv(me), SglInv(me), ChanInv(me), EngineInv(me), DirtyInv(me),
         [Next]_vars
  PROVE  DirtyInv(me)'
<1>0. me \in Threads /\ pc \in [Threads -> Places]
  BY DEF CallInv
<1>. USE <1>0 DEF Writing
\* Before the engine is started there is none to write.
<1>i. ASSUME pc[me] \in {"pin", "pinned", "map"}, UNCHANGED chan PROVE ~BusyOn("from_device")'
  <2>1. "from_device" \in Directions BY DEF Directions
  <2>2. ~BusyOn("from_device") BY <1>i, <2>1 DEF EngineInv, Serving, OnSgl
  <2>. QED BY <1>i, <2>2 DEF BusyOn
<1>1. CASE \E r \in Requests : Reject(me, r) BY <1>1, DirtyKept DEF Reject, memory, kernel, shared, BusyOn
<1>2. CASE \E r \in Requests : Accept(me, r) BY <1>2, DirtyKept DEF Accept, Goto, memory, kernel
<1>3. CASE \E k \in 0 .. MAX_PAGES : PinPages(me, k) BY <1>3, DirtyKept DEF PinPages, Goto, memory
<1>4. CASE PinFailed(me) BY <1>4, <1>i, DirtyKept DEF PinFailed, Leave, memory, kernel
<1>5. CASE PinnedTooFew(me) BY <1>5, <1>i, DirtyKept DEF PinnedTooFew, Leave, memory
<1>6. CASE AllocFailed(me) BY <1>6, <1>i, DirtyKept DEF AllocFailed, Leave, memory
<1>7. CASE BuildSgl(me) BY <1>7, DirtyKept DEF BuildSgl, Goto, memory
<1>8. CASE MapFailed(me) BY <1>8, <1>i, DirtyKept DEF MapFailed, Leave, memory
<1>9. CASE \E s \in Mappings(sgl) : MapSgl(me, s) BY <1>9, DirtyKept DEF MapSgl, Goto, memory
<1>10. CASE BuildChain(me) BY <1>10, DirtyKept DEF BuildChain, Goto, memory, kernel
<1>11. CASE Start(me) BY <1>11, DirtyKept DEF Start, Goto, memory, kernel, shared
<1>12. CASE Poll(me) BY <1>12, DirtyKept DEF Poll, Goto, memory, kernel, shared
<1>13. CASE PollDone(me) BY <1>13, DirtyKept DEF PollDone, Goto, memory, kernel, shared
<1>14. CASE Stop(me) BY <1>14, DirtyKept DEF Stop, Goto, memory, kernel, shared
<1>15. CASE Unmap(me) BY <1>15, DirtyKept DEF Unmap, Goto, memory
<1>16. CASE PutPages(me)
  <2>1. host' = host /\ HostBytes' = HostBytes BY <1>16 DEF PutPages, memory, HostBytes, Frames
  <2>2. /\ dirty \subseteq dirty'
        /\ req[me].direction = "from_device" =>
             \A k \in 1 .. num_pinned_pages : pinned_pages[k] \in dirty'
    BY <1>16 DEF PutPages
  <2>3. pc[me] = "put" /\ UNCHANGED <<chan, req, pinned_pages>> BY <1>16 DEF PutPages, Leave
  <2>4. ASSUME BusyOn("from_device")', NEW k \in 1 .. NumPages(req[me])'
        PROVE  pinned_pages'[k] \in dirty'
    <3>1. "from_device" \in Directions BY DEF Directions
    <3>2. BusyOn("from_device") BY <2>3, <2>4 DEF BusyOn
    <3>3. req[me].direction = "from_device" BY <3>1, <3>2 DEF EngineInv, Serving
    <3>4. num_pinned_pages = NumPages(req[me]) BY <2>3 DEF PinInv
    <3>. QED BY <2>2, <2>3, <2>4, <3>3, <3>4
  <2>. QED BY <2>1, <2>2, <2>4 DEF DirtyInv
<1>17. CASE \E dir \in Directions : EngineStep(dir)
  <2>1. PICK dir \in Directions : EngineStep(dir) BY <1>17
  <2>2. /\ BusyOn(dir) /\ UNCHANGED <<dirty, pc, req, num_pinned_pages, pinned_pages>>
        /\ \A d \in Directions : BusyOn(d)' => BusyOn(d)
    BY <2>1 DEF EngineStep, shared, kernel, caller, BusyOn, ChanInv
  <2>3. PICK s, i, lo, hi : EngineAt(me, dir, s, i, lo, hi) BY <2>2, EngineIsAt
  <2>4. WritesSegment(req[me], lo, hi) BY <2>1, <2>3, EngineWrites
  <2>5. Serving(me, dir) /\ pc[me] \in Writing \cup {"user"} /\ lo \in Nat /\ hi \in Nat /\ hi <= req[me].size
    BY <2>3 DEF EngineAt, Serving, OnSgl
  <2>6. /\ dir = req[me].direction /\ req[me].host_vaddr \in Nat /\ req[me].size \in Nat /\ Valid(req[me])
        /\ req[me].direction \in Directions /\ Backed(req[me], pinned_pages, NumPages(req[me]))
    BY <2>5, ServingFacts
  <2>d. "from_device" \in Directions BY DEF Directions
  <2>7. CASE req[me].direction = "to_device" BY <2>d, <2>2, <2>4, <2>5, <2>7, DirtyKept DEF WritesSegment
  <2>8. CASE req[me].direction # "to_device"
    <3>1. req[me].direction = "from_device" /\ BusyOn("from_device") BY <2>2, <2>6, <2>8 DEF Directions
    <3>2. pc[me] \in Writing => num_pinned_pages = NumPages(req[me]) BY DEF PinInv
    <3>3. ASSUME NEW a \in HostBytes, host'[a] # host[a]
          PROVE  \E k \in 1 .. NumPages(req[me]) : a \div PAGE_SIZE = pinned_pages[k]
      <4>1. PICK j \in Nat : j < hi /\ a = Byte(req[me], j)
        BY <2>4, <2>8, <3>3 DEF WritesSegment
      <4>2. j < req[me].size BY <2>5, <2>6, <4>1
      <4> DEFINE v == req[me].host_vaddr + j
                 k == (v \div PAGE_SIZE) - FirstPage(req[me]) + 1
      <4>3. k \in 1 .. NumPages(req[me]) /\ pinned_pages[k] = Frame[v \div PAGE_SIZE]
        BY <2>6, <4>2, ByteOnPage
      <4>4. Byte(req[me], j) \div PAGE_SIZE = Frame[v \div PAGE_SIZE]
        BY <2>6, <4>2, ByteSplits
      <4>. HIDE DEF v, k
      <4>. QED BY <4>1, <4>3, <4>4
    <3>4. HostBytes' = HostBytes BY DEF HostBytes, Frames
    <3>5. ASSUME NEW a \in HostBytes, host'[a] # <<"host", a>>
          PROVE  \/ a \div PAGE_SIZE \in dirty
                 \/ /\ pc[me] \in Writing
                    /\ \E k \in 1 .. num_pinned_pages : a \div PAGE_SIZE = pinned_pages[k]
      <4>1. CASE host'[a] = host[a] BY <3>5, <4>1 DEF DirtyInv
      <4>2. CASE host'[a] # host[a]
        <5>1. PICK k \in 1 .. NumPages(req[me]) : a \div PAGE_SIZE = pinned_pages[k] BY <3>3, <4>2
        <5>2. CASE pc[me] \in Writing BY <3>2, <5>1, <5>2
        <5>3. CASE pc[me] = "user" BY <3>1, <5>1, <5>3 DEF DirtyInv
        <5>. QED BY <2>5, <5>2, <5>3
      <4>. QED BY <4>1, <4>2
    <3>6. pc'[me] = "user" => \A k \in 1 .. NumPages(req[me])' : pinned_pages'[k] \in dirty'
      BY <2>2, <3>1 DEF DirtyInv
    <3>. HIDE DEF Writing
    <3>. QED BY <2>2, <3>1, <3>4, <3>5, <3>6 DEF DirtyInv
  <2>. QED BY <2>7, <2>8
<1>18. CASE \E dir \in Directions : StopArrives(dir)
  <2>1. PICK dir \in Directions : StopArrives(dir) BY <1>18
  <2>2. UNCHANGED <<host, dirty, pc, req, num_pinned_pages, pinned_pages>>
    BY <2>1 DEF StopArrives, shared, memory, kernel, caller
  <2>3. BusyOn("from_device")' => BusyOn("from_device")
    BY <2>1 DEF StopArrives, BusyOn, Directions, ChanInv
  <2>. QED BY <2>2, <2>3, DirtyKept
<1>19. CASE UNCHANGED vars
  BY <1>19, DirtyKept DEF vars, shared, memory, kernel, caller, BusyOn
<1>. QED BY <1>1, <1>2, <1>3, <1>4, <1>5, <1>6, <1>7, <1>8, <1>9, <1>10, <1>11, <1>12,
            <1>13, <1>14, <1>15, <1>16, <1>17, <1>18, <1>19, StepCases

\* Every device address a request names exists. (The driver does not check
\* it: the address comes from the allocator of the OpenCL library.)
InDevice ==
  \A r \in Requests : \A j \in Nat : Valid(r) /\ j < r.size => r.ddr3_addr + j \in DdrBytes

\* The first n bytes are the same on both sides.
Moved(r, n) == \A j \in Nat : j < n => ddr[r.ddr3_addr + j] = host[Byte(r, j)]

Progress(me) ==
  LET at == chan[req[me].direction].at
  IN  IF at = 0 THEN req[me].size ELSE LengthUpTo(sgl, at - 1)

MovedInv(me) ==
  /\ pc[me] \in Running => Moved(req[me], Progress(me))
  /\ pc[me] \in {"stop", "unmap", "put"} /\ timeout[me] # 0 => Moved(req[me], req[me].size)

SourceInv(me) ==
  pc[me] # "user" => /\ ret[me] = "none"
                     /\ req[me].direction = "to_device" => host = before[me].host
                     /\ req[me].direction = "from_device" => ddr = before[me].ddr

\* A descriptor brings the bytes of its segment, and disturbs no other.
LEMMA MovedGrows ==
  ASSUME NEW me, InDevice, CallInv(me), PinInv(me), pc[me] \in Running,
         NEW lo \in Nat, NEW hi \in Nat, hi <= req[me].size, WritesSegment(req[me], lo, hi),
         NEW j \in Nat, j < req[me].size,
         (lo <= j /\ j < hi) \/ ddr[req[me].ddr3_addr + j] = host[Byte(req[me], j)]
  PROVE  ddr'[req[me].ddr3_addr + j] = host'[Byte(req[me], j)]
<1> DEFINE r == req[me]
           dev == r.ddr3_addr
<1>1. /\ r \in Requests /\ Valid(r) /\ r.host_vaddr \in Nat /\ r.size \in Nat /\ dev \in Nat
  BY RequestFacts DEF Running
<1>2. Backed(r, pinned_pages, NumPages(r)) BY DEF PinInv, Running
<1>3. dev + j \in DdrBytes BY <1>1 DEF InDevice
<1>4. Byte(r, j) \in HostBytes BY <1>1, <1>2, ByteSplits
<1>5. CASE r.direction = "to_device"
  <2>1. CASE lo <= j /\ j < hi BY <1>3, <1>5, <2>1 DEF WritesSegment
  <2>2. CASE ~(lo <= j /\ j < hi)
    <3>1. ddr'[dev + j] = ddr[dev + j]
      <4>1. ASSUME NEW x \in Nat, lo <= x, x < hi, dev + j = dev + x PROVE FALSE
        <5>1. j = x BY <1>1, <4>1
        <5>. QED BY <2>2, <4>1, <5>1
      <4>2. \/ ddr'[dev + j] = ddr[dev + j]
            \/ \E x \in Nat : lo <= x /\ x < hi /\ dev + j = dev + x
        BY <1>3, <1>5 DEF WritesSegment
      <4>. QED BY <4>1, <4>2
    <3>2. host' = host BY <1>5 DEF WritesSegment
    <3>. QED BY <2>2, <3>1, <3>2
  <2>. QED BY <2>1, <2>2
<1>6. CASE r.direction # "to_device"
  <2>1. ddr' = ddr BY <1>6 DEF WritesSegment
  <2>2. CASE lo <= j /\ j < hi
    <3>1. host'[Byte(r, j)] = ddr[dev + j] BY <1>3, <1>6, <2>2 DEF WritesSegment
    <3>. QED BY <2>1, <3>1
  <2>3. CASE ~(lo <= j /\ j < hi)
    <3>1. host'[Byte(r, j)] = host[Byte(r, j)]
      <4>1. ASSUME NEW x \in Nat, lo <= x, x < hi, Byte(r, j) = Byte(r, x) PROVE FALSE
        <5>1. x < r.size BY <1>1, <4>1
        <5>2. j = x BY <1>1, <1>2, <4>1, <5>1, BytesDiffer
        <5>. QED BY <2>3, <4>1, <5>2
      <4>2. \/ host'[Byte(r, j)] = host[Byte(r, j)]
            \/ \E x \in Nat : lo <= x /\ x < hi /\ Byte(r, j) = Byte(r, x)
        BY <1>4, <1>6 DEF WritesSegment
      <4>. QED BY <4>1, <4>2
    <3>. QED BY <2>1, <2>3, <3>1
  <2>. QED BY <2>2, <2>3
<1>. QED BY <1>5, <1>6

LEMMA MovedStep ==
  ASSUME NEW me, Threads = {me}, InDevice,
         CallInv(me), PinInv(me), SglInv(me), ChanInv(me), EngineInv(me), MovedInv(me),
         CallInv(me)', [Next]_vars
  PROVE  MovedInv(me)'
<1>0. me \in Threads /\ pc \in [Threads -> Places] BY DEF CallInv
<1>. USE <1>0 DEF Running
<1>1. ASSUME pc'[me] \notin Writing PROVE MovedInv(me)'
  BY <1>1 DEF MovedInv, Writing
<1>2. CASE \E r \in Requests : Reject(me, r) BY <1>1, <1>2 DEF Reject, Writing
<1>3. CASE \E r \in Requests : Accept(me, r) BY <1>1, <1>3 DEF Accept, Goto, Writing
<1>4. CASE \E k \in 0 .. MAX_PAGES : PinPages(me, k) BY <1>1, <1>4 DEF PinPages, Goto, Writing
<1>5. CASE PinFailed(me) BY <1>1, <1>5 DEF PinFailed, Leave, Writing
<1>6. CASE PinnedTooFew(me) BY <1>1, <1>6 DEF PinnedTooFew, Leave, Writing
<1>7. CASE AllocFailed(me) BY <1>1, <1>7 DEF AllocFailed, Leave, Writing
<1>8. CASE BuildSgl(me) BY <1>1, <1>8 DEF BuildSgl, Goto, Writing
<1>9. CASE MapFailed(me) BY <1>1, <1>9 DEF MapFailed, Leave, Writing
<1>10. CASE \E s \in Mappings(sgl) : MapSgl(me, s) BY <1>1, <1>10 DEF MapSgl, Goto, Writing
<1>11. CASE BuildChain(me) BY <1>1, <1>11 DEF BuildChain, Goto, Writing
<1>12. CASE Start(me)
  <2>1. /\ pc[me] = "start" /\ pc'[me] = "poll" /\ UNCHANGED <<sgl, req>>
        /\ chan' = [chan EXCEPT ![req[me].direction] = [run |-> TRUE, at |-> 1, stop |-> FALSE]]
    BY <1>12 DEF Start, Goto, shared
  <2>2. req[me].direction \in Directions BY <2>1, RequestFacts
  <2>3. chan'[req[me].direction].at = 1 BY <2>1, <2>2 DEF ChanInv
  <2>4. Progress(me)' = 0
    <3>1. LengthUpTo(sgl, 1 - 1) = 0 BY LengthUpToUnfolds
    <3>. QED BY <2>1, <2>3, <3>1 DEF Progress
  <2>5. Moved(req[me], Progress(me))' BY <2>4 DEF Moved
  <2>. QED BY <2>1, <2>5 DEF MovedInv
<1>13. CASE Poll(me)
  <2>1. /\ pc[me] = "poll" /\ pc'[me] \in {"poll", "stop"}
        /\ UNCHANGED <<sgl, req, chan, host, ddr>>
        /\ pc'[me] = "stop" => ~(timeout'[me] > 0)
    BY <1>13 DEF Poll, Goto, shared, memory
  <2>2. Polls \in Nat /\ timeout'[me] \in 0 .. Polls BY GeometryAssumption DEF CallInv
  <2>3. pc'[me] = "stop" => timeout'[me] = 0 BY <2>1, <2>2
  <2>4. Moved(req[me], Progress(me))' BY <2>1 DEF MovedInv, Moved, Progress
  <2>. QED BY <2>1, <2>3, <2>4 DEF MovedInv
<1>14. CASE PollDone(me)
  <2>1. /\ pc[me] = "poll" /\ pc'[me] = "stop" /\ chan[req[me].direction].at = 0
        /\ UNCHANGED <<sgl, req, chan, host, ddr>>
    BY <1>14 DEF PollDone, Busy, Goto, shared, memory
  <2>2. Progress(me) = req[me].size /\ Progress(me)' = req[me].size BY <2>1 DEF Progress
  <2>3. Moved(req[me], req[me].size) BY <2>1, <2>2 DEF MovedInv
  <2>4. Moved(req[me], req[me].size)' BY <2>1, <2>3 DEF Moved
  <2>5. Moved(req[me], Progress(me))' BY <2>1, <2>2, <2>4
  <2>. QED BY <2>1, <2>4, <2>5 DEF MovedInv
<1>15. CASE Stop(me)
  <2>1. pc[me] = "stop" /\ pc'[me] = "unmap" /\ UNCHANGED <<req, timeout, host, ddr>>
    BY <1>15 DEF Stop, Goto, memory
  <2>. QED BY <2>1 DEF MovedInv, Moved
<1>16. CASE Unmap(me)
  <2>1. pc[me] = "unmap" /\ pc'[me] = "put" /\ UNCHANGED <<req, timeout, host, ddr>>
    BY <1>16 DEF Unmap, Goto, memory
  <2>. QED BY <2>1 DEF MovedInv, Moved
<1>17. CASE PutPages(me) BY <1>1, <1>17 DEF PutPages, Leave, Writing
<1>18. CASE \E dir \in Directions : EngineStep(dir)
  <2>1. PICK dir \in Directions : EngineStep(dir) BY <1>18
  <2>2. /\ BusyOn(dir) /\ UNCHANGED <<pc, req, sgl, timeout>>
        /\ chan' = [chan EXCEPT ![dir].at = desc_ring[chan[dir].at].next]
    BY <2>1 DEF EngineStep, shared, caller, BusyOn
  <2>a. Serving(me, dir) BY <2>2 DEF EngineInv
  <2>b. ASSUME pc[me] \notin Running PROVE MovedInv(me)'
    BY <2>2, <2>a, <2>b DEF MovedInv, Serving
  <2>c. SUFFICES ASSUME pc[me] \in Running PROVE MovedInv(me)'
    BY <2>b
  <2> DEFINE i == chan[dir].at
             lo == LengthUpTo(sgl, i - 1)
             hi == LengthUpTo(sgl, i)
             r == req[me]
  <2>3. EngineAt(me, dir, sgl, i, lo, hi)
    <3>1. PICK s : EngineAt(me, dir, s, chan[dir].at, LengthUpTo(s, chan[dir].at - 1), LengthUpTo(s, chan[dir].at))
      BY <2>2, EngineIsAt
    <3>2. s = sgl BY <2>c, <3>1 DEF EngineAt, OnSgl
    <3>. QED BY <3>1, <3>2
  <2>. HIDE DEF i, lo, hi, r
  <2>4. WritesSegment(r, lo, hi) BY <2>1, <2>3, EngineWrites DEF r
  <2>5. /\ pc[me] \in Running /\ dir = r.direction /\ i \in 1 .. Len(sgl) /\ Len(sgl) \in Nat
        /\ lo \in Nat /\ hi \in Nat /\ lo <= hi /\ hi <= r.size /\ (i = Len(sgl) => hi = r.size)
        /\ desc_ring[i].next = IF i < Len(sgl) THEN i + 1 ELSE 0
    BY <2>3, <2>c DEF EngineAt, Serving, r
  <2>6. r.size \in Nat BY <2>5, RequestFacts DEF r
  <2>7. ASSUME NEW j \in Nat, j < r.size,
               (lo <= j /\ j < hi) \/ ddr[r.ddr3_addr + j] = host[Byte(r, j)]
        PROVE  ddr'[r.ddr3_addr + j] = host'[Byte(r, j)]
    BY <2>4, <2>5, <2>7, MovedGrows DEF r
  <2>8. Progress(me) = lo BY <2>2, <2>5 DEF Progress, lo, i, r
  <2>9. Moved(r, lo) BY <2>5, <2>8 DEF MovedInv, r
  <2>10. ASSUME NEW j \in Nat, j < hi PROVE ddr'[r.ddr3_addr + j] = host'[Byte(r, j)]
    <3>1. j < r.size BY <2>5, <2>6, <2>10
    <3>2. j < lo \/ (lo <= j /\ j < hi) BY <2>5, <2>10
    <3>. QED BY <2>7, <2>9, <3>1, <3>2 DEF Moved
  <2>11. Progress(me)' = hi
    <3>1. chan'[dir].at = IF i < Len(sgl) THEN i + 1 ELSE 0
      BY <2>2, <2>5 DEF ChanInv, i
    <3>2. CASE i < Len(sgl)
      <4>1. i + 1 # 0 /\ (i + 1) - 1 = i BY <2>5
      <4>. QED BY <2>2, <2>5, <3>1, <3>2, <4>1 DEF Progress, hi, r
    <3>3. CASE ~(i < Len(sgl))
      <4>1. i = Len(sgl) BY <2>5, <3>3
      <4>. QED BY <2>2, <2>5, <3>1, <3>3, <4>1 DEF Progress, r
    <3>. QED BY <3>2, <3>3
  <2>12. req'[me] = r BY <2>2 DEF r
  <2>13. Moved(req[me], Progress(me))' BY <2>10, <2>11, <2>12 DEF Moved
  <2>14. ASSUME timeout'[me] # 0, pc'[me] \in {"stop", "unmap", "put"}
         PROVE  Moved(req[me], req[me].size)'
    <3>1. Moved(r, r.size) BY <2>2, <2>14 DEF MovedInv, r
    <3>2. ASSUME NEW j \in Nat, j < r.size PROVE ddr'[r.ddr3_addr + j] = host'[Byte(r, j)]
      BY <2>7, <3>1, <3>2 DEF Moved
    <3>. QED BY <2>12, <3>2 DEF Moved
  <2>. QED BY <2>13, <2>14 DEF MovedInv
<1>s. CASE \E dir \in Directions : StopArrives(dir)
  <2>1. PICK dir \in Directions : StopArrives(dir) BY <1>s
  <2>2. /\ chan[dir].stop /\ UNCHANGED <<pc, req, sgl, timeout, host, ddr>>
        /\ chan' = [chan EXCEPT ![dir] = [run |-> FALSE, at |-> 0, stop |-> FALSE]]
    BY <2>1 DEF StopArrives, shared, memory, caller
  <2>3. ASSUME pc[me] \in Running PROVE Moved(req[me], Progress(me))'
    <3>1. dir # req[me].direction BY <2>2, <2>3 DEF ChanInv
    <3>2. chan'[req[me].direction] = chan[req[me].direction] BY <2>2, <3>1 DEF ChanInv
    <3>3. Progress(me)' = Progress(me) BY <2>2, <3>2 DEF Progress
    <3>. QED BY <2>2, <2>3, <3>3 DEF MovedInv, Moved
  <2>. QED BY <2>2, <2>3 DEF MovedInv, Moved
<1>19. CASE UNCHANGED vars
  BY <1>19 DEF vars, shared, memory, caller, MovedInv, Moved, Progress
<1>. QED BY <1>2, <1>3, <1>4, <1>5, <1>6, <1>7, <1>8, <1>9, <1>10, <1>11, <1>12,
            <1>13, <1>14, <1>15, <1>16, <1>17, <1>18, <1>s, <1>19, StepCases

LEMMA SourceStep ==
  ASSUME NEW me, Threads = {me}, CallInv(me), PinInv(me), SglInv(me), EngineInv(me), SourceInv(me),
         [Next]_vars
  PROVE  SourceInv(me)'
<1>0. me \in Threads /\ pc \in [Threads -> Places] /\ DOMAIN before = Threads /\ DOMAIN req = Threads
      /\ DOMAIN ret = Threads
  BY DEF CallInv
<1>. USE <1>0
<1>1. ASSUME UNCHANGED <<host, ddr, req, before>>,
             pc'[me] = "user" \/ (pc[me] # "user" /\ UNCHANGED ret)
      PROVE  SourceInv(me)'
  BY <1>1 DEF SourceInv
<1>2. CASE \E r \in Requests : Reject(me, r) BY <1>2 DEF Reject, SourceInv
<1>3. CASE \E r \in Requests : Accept(me, r) BY <1>3 DEF Accept, Goto, Memory, memory, SourceInv
<1>4. CASE \E k \in 0 .. MAX_PAGES : PinPages(me, k) BY <1>1, <1>4 DEF PinPages, Goto, memory
<1>5. CASE PinFailed(me) BY <1>1, <1>5 DEF PinFailed, Leave, memory
<1>6. CASE PinnedTooFew(me) BY <1>1, <1>6 DEF PinnedTooFew, Leave, memory
<1>7. CASE AllocFailed(me) BY <1>1, <1>7 DEF AllocFailed, Leave, memory
<1>8. CASE BuildSgl(me) BY <1>1, <1>8 DEF BuildSgl, Goto, memory
<1>9. CASE MapFailed(me) BY <1>1, <1>9 DEF MapFailed, Leave, memory
<1>10. CASE \E s \in Mappings(sgl) : MapSgl(me, s) BY <1>1, <1>10 DEF MapSgl, Goto, memory
<1>11. CASE BuildChain(me) BY <1>1, <1>11 DEF BuildChain, Goto, memory
<1>12. CASE Start(me) BY <1>1, <1>12 DEF Start, Goto, memory
<1>13. CASE Poll(me) BY <1>1, <1>13 DEF Poll, Goto, memory
<1>14. CASE PollDone(me) BY <1>1, <1>14 DEF PollDone, Goto, memory
<1>15. CASE Stop(me) BY <1>1, <1>15 DEF Stop, Goto, memory
<1>16. CASE Unmap(me) BY <1>1, <1>16 DEF Unmap, Goto, memory
<1>17. CASE PutPages(me) BY <1>1, <1>17 DEF PutPages, Leave, memory
<1>18. CASE \E dir \in Directions : EngineStep(dir)
  <2>1. PICK dir \in Directions : EngineStep(dir) BY <1>18
  <2>2. BusyOn(dir) /\ UNCHANGED <<pc, req, ret, before>>
    BY <2>1 DEF EngineStep, caller, BusyOn
  <2>3. PICK s, i, lo, hi : EngineAt(me, dir, s, i, lo, hi) BY <2>2, EngineIsAt
  <2>4. WritesSegment(req[me], lo, hi) BY <2>1, <2>3, EngineWrites
  <2>. QED BY <2>2, <2>4 DEF SourceInv, WritesSegment
<1>s. CASE \E dir \in Directions : StopArrives(dir)
  <2>1. UNCHANGED <<host, ddr, req, ret, before, pc>> BY <1>s DEF StopArrives, memory, caller
  <2>. QED BY <2>1 DEF SourceInv
<1>19. CASE UNCHANGED vars
  BY <1>19 DEF vars, memory, caller, SourceInv
<1>. QED BY <1>2, <1>3, <1>4, <1>5, <1>6, <1>7, <1>8, <1>9, <1>10, <1>11, <1>12,
            <1>13, <1>14, <1>15, <1>16, <1>17, <1>18, <1>s, <1>19, StepCases

-----------------------------------------------------------------------------
(* The properties of one caller's transfers *)

\* What holds whenever a posted stop arrives.
HandlerInv(me) == CallInv(me) /\ PinInv(me) /\ SglInv(me) /\ ChanInv(me)

\* What holds if it arrives before the next call.
OneCallerInv(me) == HandlerInv(me) /\ EngineInv(me) /\ DirtyInv(me) /\ SourceInv(me)

LEMMA AlwaysHandler ==
  ASSUME NEW me, Threads = {me}
  PROVE  Spec => []HandlerInv(me)
<1>1. Init => HandlerInv(me)
  BY CallInit, PinInit, SglInit, ChanInit DEF HandlerInv
<1>2. HandlerInv(me) /\ [Next]_vars => HandlerInv(me)'
  BY CallStep, PinStep, SglStep, ChanStep DEF HandlerInv
<1>. QED BY <1>1, <1>2, PTL DEF Spec

LEMMA AlwaysOneCaller ==
  ASSUME NEW me, Threads = {me}, StopsInTime = TRUE
  PROVE  Spec => []OneCallerInv(me)
<1>1. Init => OneCallerInv(me)
  <2>1. ASSUME Init PROVE DirtyInv(me)
    <3>1. ~BusyOn("from_device") BY <2>1 DEF Init, BusyOn, Directions
    <3>. QED BY <2>1, <3>1 DEF Init, DirtyInv
  <2>2. ASSUME Init PROVE SourceInv(me) BY <2>2 DEF Init, SourceInv
  <2>. QED BY <2>1, <2>2, CallInit, PinInit, SglInit, ChanInit, EngineInit DEF OneCallerInv, HandlerInv
<1>2. OneCallerInv(me) /\ [Next]_vars => OneCallerInv(me)'
  BY CallStep, PinStep, SglStep, ChanStep, EngineStepPreserves, DirtyStep, SourceStep
     DEF OneCallerInv, HandlerInv
<1>. QED BY <1>1, <1>2, PTL DEF Spec

LEMMA AlwaysMoved ==
  ASSUME NEW me, Threads = {me}, StopsInTime = TRUE, InDevice
  PROVE  Spec => []MovedInv(me)
<1>1. Spec => []OneCallerInv(me) BY AlwaysOneCaller
<1>2. Init => MovedInv(me) BY DEF Init, MovedInv, Running
<1>3. OneCallerInv(me) /\ OneCallerInv(me)' /\ MovedInv(me) /\ [Next]_vars => MovedInv(me)'
  BY MovedStep DEF OneCallerInv, HandlerInv
<1>. QED BY <1>1, <1>2, <1>3, PTL DEF Spec

\* A frame on which a page is held has a reference.
LEMMA HeldIsPinned ==
  ASSUME NEW me, PinInv(me), NEW k \in 1 .. num_pinned_pages
  PROVE  pinned_pages[k] \in Frames /\ pins[pinned_pages[k]] \in Nat /\ pins[pinned_pages[k]] > 0
<1> DEFINE f == pinned_pages[k]
           T == {i \in 1 .. num_pinned_pages : pinned_pages[i] = f}
<1>1. num_pinned_pages \in Int BY GeometryAssumption DEF PinInv
<1>2. f \in Frames BY DEF PinInv, Backed, Frames
<1>3. pins[f] = Cardinality(T) BY <1>2 DEF PinInv, HeldOn
<1>4. IsFiniteSet(T)
  <2>1. IsFiniteSet(1 .. num_pinned_pages) BY <1>1, FS_Interval
  <2>2. T \in SUBSET (1 .. num_pinned_pages) OBVIOUS
  <2>. HIDE DEF T
  <2>. QED BY <2>1, <2>2, FS_Subset
<1>5. k \in T OBVIOUS
<1>. HIDE DEF T
<1>6. Cardinality(T) \in Nat /\ Cardinality(T) # 0 BY <1>4, <1>5, FS_EmptySet, FS_CardinalityType
<1>. QED BY <1>2, <1>3, <1>6

LEMMA TypesFollow ==
  ASSUME NEW me, Threads = {me}, HandlerInv(me)
  PROVE  TypeOK
<1>0. MAX_PAGES \in Nat BY GeometryAssumption
<1>1. CallInv(me) /\ PinInv(me) /\ SglInv(me) /\ ChanInv(me) BY DEF HandlerInv
<1>2. Len(sgl) \in Nat /\ Len(sgl) <= MAX_PAGES
  <2>1. CASE pc[me] \in HasSgl
    <3>1. Laid(sgl, req[me]) BY <1>1, <2>1 DEF SglInv
    <3>2. NumPages(req[me]) \in 1 .. MAX_PAGES BY <1>1, <2>1, RequestFacts DEF HasSgl
    <3>. QED BY <1>0, <3>1, <3>2 DEF Laid
  <2>2. CASE pc[me] \notin HasSgl
    <3>1. sgl = << >> BY <1>1, <2>2 DEF SglInv
    <3>. QED BY <1>0, <3>1
  <2>. QED BY <2>1, <2>2
<1>3. \A d \in Directions : chan[d].at \in 0 .. MAX_PAGES BY <1>1 DEF ChanInv
<1>4. pins \in [Frames -> Nat]
  <2>1. num_pinned_pages \in Int BY <1>0, <1>1 DEF PinInv
  <2>2. \A f \in Frames : HeldOn(f) \in Nat BY <2>1, HeldIsNat DEF HeldOn
  <2>. QED BY <1>1, <2>2 DEF PinInv
<1>5. maps \in Nat /\ sgls \in Nat /\ sgl_nents \in 0 .. MAX_PAGES BY <1>1 DEF SglInv
<1>. QED BY <1>1, <1>2, <1>3, <1>4, <1>5 DEF TypeOK, CallInv, PinInv, ChanInv

\* Every variable of DMA_TRANSFER keeps its type with one caller, whatever the
\* page size, the page table and the requests: the scatterlist and the chain
\* fit their arrays, and no page reference, mapping or scatterlist is given
\* back twice.
THEOREM TypeCorrect ==
  ASSUME NEW me, Threads = {me}
  PROVE  Spec => []TypeOK
<1>1. Spec => []HandlerInv(me) BY AlwaysHandler
<1>2. HandlerInv(me) => TypeOK BY TypesFollow
<1>. QED BY <1>1, <1>2, PTL

\* Between calls of DMA_TRANSFER nothing is left behind, whichever of its
\* returns the last call took; an engine that still runs was told to stop.
THEOREM NothingStaysBehind ==
  ASSUME NEW me, Threads = {me}
  PROVE  Spec => []NothingLeftBehind
<1>1. Spec => []HandlerInv(me) BY AlwaysHandler
<1>2. ASSUME HandlerInv(me) PROVE NothingLeftBehind
  <2>1. CallInv(me) /\ PinInv(me) /\ SglInv(me) /\ ChanInv(me) BY <1>2 DEF HandlerInv
  <2>2. SUFFICES ASSUME pc[me] = "user"
                 PROVE  /\ pins = [f \in Frames |-> 0] /\ maps = 0 /\ sgls = 0 /\ sgl = << >>
                        /\ \A d \in Directions : chan[d].run => chan[d].stop
    BY DEF NothingLeftBehind
  <2>3. num_pinned_pages \in Int /\ num_pinned_pages <= 0
    BY <2>1, <2>2, GeometryAssumption DEF PinInv
  <2>4. \A f \in Frames : HeldOn(f) = 0 BY <2>3, NoneHeld DEF HeldOn
  <2>5. pins = [f \in Frames |-> 0] BY <2>1, <2>4 DEF PinInv
  <2>6. maps = 0 /\ sgls = 0 /\ sgl = << >> BY <2>1, <2>2 DEF SglInv, HasSgl, IsMapped
  <2>7. \A d \in Directions : chan[d].run => chan[d].stop BY <2>1, <2>2 DEF ChanInv, Running
  <2>. QED BY <2>5, <2>6, <2>7
<1>. QED BY <1>1, <1>2, PTL

\* While the engine runs, the pages its remaining descriptors name are pinned
\* and mapped, except when a transfer timed out: then only until its stop has
\* arrived. A transfer that ends in any other way never leaves a busy engine.
THEOREM EngineStaysOnPinnedPages ==
  ASSUME NEW me, Threads = {me}, StopsInTime = TRUE
  PROVE  Spec => []EngineOnPinnedPages
<1>1. Spec => []OneCallerInv(me) BY AlwaysOneCaller
<1>2. ASSUME OneCallerInv(me) PROVE EngineOnPinnedPages
  <2>1. CallInv(me) /\ PinInv(me) /\ SglInv(me) /\ ChanInv(me) /\ EngineInv(me)
    BY <1>2 DEF OneCallerInv, HandlerInv
  <2>a. SUFFICES ASSUME NEW d \in Directions, BusyOn(d), ~Abandoned(d)
                 PROVE  /\ maps > 0
                        /\ \A i \in chan[d].at .. sgl_nents :
                             LET first == IF d = "to_device" THEN desc_ring[i].src ELSE desc_ring[i].dst
                             IN  \A a \in first .. first + desc_ring[i].bytes - 1 :
                                   pins[a \div PAGE_SIZE] > 0
    BY DEF EngineOnPinnedPages, BusyOn
  <2> DEFINE r == req[me]
  <2>b. Serving(me, d) BY <2>1, <2>a DEF EngineInv
  \* The caller still has its scatterlist.
  <2>2. pc[me] \in OnSgl
    <3>1. ASSUME pc[me] \in {"put", "user"} PROVE FALSE
      <4>1. timeout[me] = 0 /\ d = req[me].direction BY <2>b, <3>1 DEF Serving
      <4>2. chan[d].stop BY <2>1, <2>a, <3>1 DEF ChanInv, Running, BusyOn
      <4>. QED BY <2>a, <3>1, <4>1, <4>2 DEF Abandoned
    <3>. QED BY <2>b, <3>1 DEF Serving
  <2>3. /\ d = r.direction /\ chan[d].at \in 1 .. Len(sgl) /\ Len(sgl) \in Nat
        /\ \A i \in 1 .. Len(sgl) : desc_ring[i] = Chain(r, sgl)[i]
    <3>1. Chained(me, sgl) /\ chan[d].at \in 1 .. Len(sgl) BY <2>2, <2>b DEF Serving
    <3>. QED BY <2>b, <3>1 DEF Serving, Chained, Laid
  <2>4. maps = 1 /\ sgl_nents = Len(sgl) /\ Laid(sgl, r)
    BY <2>1, <2>2 DEF OnSgl, SglInv, IsMapped, HasSgl
  <2>5. r.host_vaddr \in Nat /\ r.size \in Nat /\ Valid(r) BY <2>b, ServingFacts
  <2>6. num_pinned_pages = NumPages(r) /\ Backed(r, pinned_pages, NumPages(r))
    BY <2>1, <2>2 DEF OnSgl, PinInv
  <2>7. ASSUME NEW i \in chan[d].at .. sgl_nents
        PROVE  LET first == IF d = "to_device" THEN desc_ring[i].src ELSE desc_ring[i].dst
               IN  \A a \in first .. first + desc_ring[i].bytes - 1 : pins[a \div PAGE_SIZE] > 0
    <3>1. i \in 1 .. Len(sgl)
      <4> DEFINE at == chan[d].at
      <4>1. at \in 1 .. Len(sgl) /\ i \in at .. Len(sgl) BY <2>3, <2>4
      <4>. HIDE DEF at
      <4>. QED BY <2>3, <4>1
    <3>2. desc_ring[i] = Chain(r, sgl)[i] BY <2>3, <3>1
    <3> DEFINE first == IF d = "to_device" THEN desc_ring[i].src ELSE desc_ring[i].dst
    <3>3. first = sgl[i].addr /\ desc_ring[i].bytes = sgl[i].length
      BY <2>3, <3>1, <3>2, ChainEntry
    <3>. HIDE DEF first, r
    <3>4. ASSUME NEW a \in first .. first + desc_ring[i].bytes - 1 PROVE pins[a \div PAGE_SIZE] > 0
      <4>1. a \in sgl[i].addr .. sgl[i].addr + sgl[i].length - 1 BY <3>3, <3>4
      <4>2. ASSUME NEW b \in sgl[i].addr .. sgl[i].addr + sgl[i].length - 1
            PROVE  \E j \in Nat : j < r.size /\ Byte(r, j) = b
        BY <2>4, <2>5, <3>1, SegmentBytes
      <4>3. PICK j \in Nat : j < r.size /\ Byte(r, j) = a BY <4>1, <4>2, Zenon
      <4> DEFINE v == r.host_vaddr + j
                 k == (v \div PAGE_SIZE) - FirstPage(r) + 1
      <4>4. k \in 1 .. NumPages(r) /\ pinned_pages[k] = Frame[v \div PAGE_SIZE]
        BY <2>5, <2>6, <4>3, ByteOnPage
      <4>5. Byte(r, j) \div PAGE_SIZE = Frame[v \div PAGE_SIZE]
        BY <2>5, <2>6, <4>3, ByteSplits
      <4>. HIDE DEF v, k
      <4>6. pins[pinned_pages[k]] > 0 BY <2>1, <2>6, <4>4, HeldIsPinned
      <4>. QED BY <4>3, <4>4, <4>5, <4>6, Zenon
    <3>. QED BY <3>4 DEF first
  <2>. QED BY <2>4, <2>7
<1>. QED BY <1>1, <1>2, PTL

\* A page the device has written is dirty before its last reference goes, so
\* that its contents survive; also when the transfer timed out.
THEOREM WrittenPagesBecomeDirty ==
  ASSUME NEW me, Threads = {me}, StopsInTime = TRUE
  PROVE  Spec => []WrittenPagesAreDirty
<1>1. Spec => []OneCallerInv(me) BY AlwaysOneCaller
<1>2. ASSUME OneCallerInv(me) PROVE WrittenPagesAreDirty
  <2>1. PinInv(me) /\ DirtyInv(me) BY <1>2 DEF OneCallerInv, HandlerInv
  <2>2. SUFFICES ASSUME NEW a \in HostBytes, host[a] # <<"host", a>>, pins[a \div PAGE_SIZE] = 0,
                        a \div PAGE_SIZE \notin dirty
                 PROVE  FALSE
    BY DEF WrittenPagesAreDirty
  <2>3. PICK k \in 1 .. num_pinned_pages : a \div PAGE_SIZE = pinned_pages[k]
    BY <2>1, <2>2 DEF DirtyInv
  <2>4. pins[pinned_pages[k]] \in Nat /\ pins[pinned_pages[k]] > 0 BY <2>1, HeldIsPinned
  <2>. QED BY <2>2, <2>3, <2>4
<1>. QED BY <1>1, <1>2, PTL

\* Whatever the outcome, a transfer writes no byte outside the range it was
\* asked for, on either side, and after a return only while its stop is on its
\* way.
THEOREM WritesStayConfined ==
  ASSUME NEW me, Threads = {me}, StopsInTime = TRUE
  PROVE  Spec => WritesConfined
<1> DEFINE writers(d) == {t \in Threads : req[t].direction = d /\ (pc[t] # "user" \/ chan[d].stop)}
           open(d) == UNION {Target(req[t]) : t \in writers(d)}
           Confined == /\ \A a \in DdrBytes  : ddr'[a]  # ddr[a]  => a \in open("to_device")
                       /\ \A a \in HostBytes : host'[a] # host[a] => a \in open("from_device")
<1>1. Spec => []OneCallerInv(me) BY AlwaysOneCaller
<1>2. ASSUME OneCallerInv(me), [Next]_vars PROVE [Confined]_vars
  <2>1. CASE UNCHANGED <<host, ddr>> BY <2>1
  <2>2. CASE \E dir \in Directions : EngineStep(dir)
    <3>0. CallInv(me) /\ ChanInv(me) /\ EngineInv(me) BY <1>2 DEF OneCallerInv, HandlerInv
    <3>1. PICK dir \in Directions : EngineStep(dir) BY <2>2
    <3>2. BusyOn(dir) BY <3>1 DEF EngineStep, BusyOn
    <3>3. PICK s, i, lo, hi : EngineAt(me, dir, s, i, lo, hi) BY <3>0, <3>2, EngineIsAt
    <3> DEFINE r == req[me]
    <3>4. WritesSegment(r, lo, hi) BY <3>0, <3>1, <3>3, EngineWrites
    <3>5. Serving(me, dir) /\ hi \in Nat /\ hi <= r.size BY <3>3 DEF EngineAt
    <3>6. r.size \in Nat /\ r.direction \in Directions /\ dir = r.direction BY <3>5, ServingFacts
    <3>a. pc[me] # "user" \/ chan[dir].stop BY <3>0, <3>2 DEF ChanInv, Running, BusyOn
    <3>7. ASSUME NEW j \in Nat, j < hi PROVE j \in 0 .. r.size - 1
      <4>. HIDE DEF r
      <4>. QED BY <3>5, <3>6, <3>7
    <3>8. open(r.direction) = Target(r)
      <4>1. writers(r.direction) = {me} BY <3>6, <3>a
      <4>. HIDE DEF writers
      <4>. QED BY <4>1
    <3>. HIDE DEF open
    <3>9. CASE r.direction = "to_device"
      <4>1. host' = host BY <3>4, <3>9 DEF WritesSegment
      <4>2. ASSUME NEW a \in DdrBytes, ddr'[a] # ddr[a] PROVE a \in Target(r)
        <5>1. PICK j \in Nat : j < hi /\ a = r.ddr3_addr + j BY <3>4, <3>9, <4>2 DEF WritesSegment
        <5>. QED BY <3>7, <3>9, <5>1 DEF Target
      <4>. QED BY <3>8, <3>9, <4>1, <4>2
    <3>10. CASE r.direction # "to_device"
      <4>1. ddr' = ddr /\ r.direction = "from_device" BY <3>4, <3>6, <3>10 DEF WritesSegment, Directions
      <4>2. ASSUME NEW a \in HostBytes, host'[a] # host[a] PROVE a \in Target(r)
        <5>1. PICK j \in Nat : j < hi /\ a = Byte(r, j) BY <3>4, <3>10, <4>2 DEF WritesSegment
        <5>. QED BY <3>7, <3>10, <5>1 DEF Target, Byte
      <4>. QED BY <3>8, <4>1, <4>2
    <3>. QED BY <3>9, <3>10
  <2>3. UNCHANGED <<host, ddr>> \/ \E dir \in Directions : EngineStep(dir)
    BY <1>2, StepCases DEF Reject, Accept, PinPages, PinFailed, PinnedTooFew, AllocFailed, BuildSgl,
       MapFailed, MapSgl, BuildChain, Start, Poll, PollDone, Stop, Unmap, PutPages, StopArrives, vars, memory
  <2>. QED BY <2>1, <2>2, <2>3
<1>3. Spec => [](OneCallerInv(me)) /\ [][Next]_vars BY <1>1, PTL DEF Spec
<1>4. Spec => [][Confined]_vars
  <2>. HIDE DEF Confined
  <2>. QED BY <1>2, <1>3, PTL
<1>. QED BY <1>4 DEF WritesConfined

\* A transfer that returns 0 has moved exactly the bytes of the buffer, in
\* order and over page boundaries, however the scatterlist was mapped.
THEOREM TransfersDeliver ==
  ASSUME NEW me, Threads = {me}, StopsInTime = TRUE, InDevice
  PROVE  Spec => TransferDelivered
<1> DEFINE Delivered ==
             \A t \in Threads :
               pc[t] = "put" /\ ret'[t] = "ok" =>
                 \A i \in 0 .. req[t].size - 1 :
                   LET a == Phys(req[t].host_vaddr + i)
                       b == req[t].ddr3_addr + i
                   IN  IF req[t].direction = "to_device" THEN ddr[b] = before[t].host[a]
                                                         ELSE host[a] = before[t].ddr[b]
<1>1. Spec => []OneCallerInv(me) BY AlwaysOneCaller
<1>2. Spec => []MovedInv(me) BY AlwaysMoved
<1>3. ASSUME OneCallerInv(me), MovedInv(me), [Next]_vars PROVE [Delivered]_vars
  <2>0. CallInv(me) /\ SourceInv(me) BY <1>3 DEF OneCallerInv, HandlerInv
  <2>1. SUFFICES ASSUME ~UNCHANGED vars, pc[me] = "put", ret'[me] = "ok" PROVE Delivered
    OBVIOUS
  <2>2. me \in Threads /\ DOMAIN ret = Threads BY <2>0 DEF CallInv
  <2>3. req[me].direction \in Directions /\ req[me].size \in Nat BY <2>0, <2>1, RequestFacts
  <2>4. CASE PutPages(me)
    <3>1. timeout[me] # 0 BY <2>1, <2>2, <2>4 DEF PutPages, Leave
    <3>2. Moved(req[me], req[me].size) BY <1>3, <2>1, <3>1 DEF MovedInv
    <3>3. ASSUME NEW i \in 0 .. req[me].size - 1
          PROVE  ddr[req[me].ddr3_addr + i] = host[Phys(req[me].host_vaddr + i)]
      <4>1. i \in Nat /\ i < req[me].size BY <2>3
      <4>. QED BY <3>2, <4>1 DEF Moved, Byte
    <3>. QED BY <2>0, <2>1, <2>3, <3>3 DEF SourceInv, Directions
  <2>5. CASE (\E dir \in Directions : EngineStep(dir)) \/ (\E dir \in Directions : StopArrives(dir))
    \* The caller has not returned before: its result is still open.
    <3>1. UNCHANGED ret BY <2>5 DEF EngineStep, StopArrives, caller
    <3>2. ret[me] # "ok" BY <1>3, <2>1 DEF OneCallerInv, SourceInv
    <3>. QED BY <2>1, <3>1, <3>2
  <2>6. \/ PutPages(me)
        \/ (\E dir \in Directions : EngineStep(dir)) \/ (\E dir \in Directions : StopArrives(dir))
    BY <1>3, <2>1, StepCases DEF Reject, Accept, PinPages, PinFailed, PinnedTooFew, AllocFailed, BuildSgl,
       MapFailed, MapSgl, BuildChain, Start, Poll, PollDone, Stop, Unmap, Goto
  <2>. QED BY <2>4, <2>5, <2>6
<1>4. Spec => [](OneCallerInv(me) /\ MovedInv(me)) /\ [][Next]_vars BY <1>1, <1>2, PTL DEF Spec
<1>5. Spec => [][Delivered]_vars
  <2>. HIDE DEF Delivered
  <2>. QED BY <1>3, <1>4, PTL
<1>. QED BY <1>5 DEF TransferDelivered

-----------------------------------------------------------------------------
(* Refinement of TransferService *)

Mem == Cells(host, ddr)
Open == [t \in Threads |-> IF pc[t] = "user" THEN NoReq ELSE req[t]]
Late == [t \in Threads |->
           IF /\ pc[t] = "user" /\ timeout[t] = 0
              /\ req[t].direction \in Directions /\ chan[req[t].direction].stop
           THEN req[t] ELSE NoReq]

LEMMA CellsAre ==
  ASSUME NEW h, NEW d
  PROVE  /\ DOMAIN Cells(h, d) = ({"host"} \X HostBytes) \cup ({"ddr"} \X DdrBytes)
         /\ \A a \in HostBytes : Cells(h, d)[<<"host", a>>] = h[a]
         /\ \A a \in DdrBytes : Cells(h, d)[<<"ddr", a>>] = d[a]
BY DEF Cells

\* The source of the j-th byte.
LEMMA SourceOfByte ==
  ASSUME NEW r, r.host_vaddr \in Nat, r.size \in Nat, r.ddr3_addr \in Nat, Valid(r),
         NEW pages, Backed(r, pages, NumPages(r))
  PROVE  LET h(j) == <<"host", Byte(r, j)>>
             d(j) == <<"ddr", r.ddr3_addr + j>>
         IN  IF r.direction = "to_device"
             THEN /\ DOMAIN SourceCell(r) = {d(j) : j \in 0 .. r.size - 1}
                  /\ \A j \in 0 .. r.size - 1 : SourceCell(r)[d(j)] = h(j)
             ELSE /\ DOMAIN SourceCell(r) = {h(j) : j \in 0 .. r.size - 1}
                  /\ \A j \in 0 .. r.size - 1 : SourceCell(r)[h(j)] = d(j)
<1> DEFINE h(j) == <<"host", Byte(r, j)>>
           d(j) == <<"ddr", r.ddr3_addr + j>>
           index(c) == CHOOSE i \in 0 .. r.size - 1 : c \in {h(i), d(i)}
<1>1. ASSUME NEW i \in 0 .. r.size - 1, NEW j \in 0 .. r.size - 1,
             d(j) \in {h(i), d(i)} \/ h(j) \in {h(i), d(i)}
      PROVE  i = j
  <2>1. i \in Nat /\ j \in Nat /\ i < r.size /\ j < r.size OBVIOUS
  <2>2. r.ddr3_addr + j = r.ddr3_addr + i \/ Byte(r, j) = Byte(r, i) BY <1>1
  <2>3. CASE r.ddr3_addr + j = r.ddr3_addr + i BY <2>1, <2>3
  <2>4. CASE Byte(r, j) = Byte(r, i) BY <2>1, <2>4, BytesDiffer
  <2>. QED BY <2>2, <2>3, <2>4
<1>2. ASSUME NEW j \in 0 .. r.size - 1 PROVE index(d(j)) = j /\ index(h(j)) = j
  <2>1. d(j) \in {h(j), d(j)} /\ h(j) \in {h(j), d(j)} OBVIOUS
  <2>. HIDE DEF h, d
  <2>2. index(d(j)) \in 0 .. r.size - 1 /\ d(j) \in {h(index(d(j))), d(index(d(j)))} BY <2>1, Zenon
  <2>3. index(h(j)) \in 0 .. r.size - 1 /\ h(j) \in {h(index(h(j))), d(index(h(j)))} BY <2>1, Zenon
  <2>. HIDE DEF index
  <2>. QED BY <1>1, <2>2, <2>3
<1>3. SourceCell(r) = IF r.direction = "to_device"
                      THEN [c \in {d(i) : i \in 0 .. r.size - 1} |-> h(index(c))]
                      ELSE [c \in {h(i) : i \in 0 .. r.size - 1} |-> d(index(c))]
  BY Zenon DEF SourceCell, Byte
<1>. HIDE DEF h, d, index
<1>4. CASE r.direction = "to_device"
  <2>1. SourceCell(r) = [c \in {d(i) : i \in 0 .. r.size - 1} |-> h(index(c))] BY <1>3, <1>4
  <2>2. \A j \in 0 .. r.size - 1 : SourceCell(r)[d(j)] = h(j) BY <1>2, <2>1
  <2>. QED BY <1>4, <2>1, <2>2 DEF h, d
<1>5. CASE r.direction # "to_device"
  <2>1. SourceCell(r) = [c \in {h(i) : i \in 0 .. r.size - 1} |-> d(index(c))] BY <1>3, <1>5
  <2>2. \A j \in 0 .. r.size - 1 : SourceCell(r)[h(j)] = d(j) BY <1>2, <2>1
  <2>. QED BY <1>5, <2>1, <2>2 DEF h, d
<1>. QED BY <1>4, <1>5

\* A descriptor moves some cells of the request's target.
LEMMA EngineMoves ==
  ASSUME NEW me, CallInv(me), EngineInv(me), NEW dir \in Directions, EngineStep(dir)
  PROVE  \E some \in SUBSET DOMAIN SourceCell(req[me]) :
           Mem' = [x \in DOMAIN Mem |-> IF x \in some THEN Mem[SourceCell(req[me])[x]] ELSE Mem[x]]
<1> DEFINE r == req[me]
           src == SourceCell(r)
           dev == r.ddr3_addr
<1>1. BusyOn(dir) BY DEF EngineStep, BusyOn
<1>2. PICK s, i, lo, hi : EngineAt(me, dir, s, i, lo, hi) BY <1>1, EngineIsAt
<1>3. WritesSegment(r, lo, hi) BY <1>2, EngineWrites
<1>4. Serving(me, dir) /\ hi \in Nat /\ hi <= r.size BY <1>2 DEF EngineAt
<1>5. /\ r.host_vaddr \in Nat /\ r.size \in Nat /\ dev \in Nat /\ Valid(r) /\ r.direction \in Directions
  BY <1>4, ServingFacts
<1>6. Backed(r, pinned_pages, NumPages(r)) BY <1>4, ServingFacts
<1>. HIDE DEF r, src, dev
<1>7. ASSUME NEW j \in Nat, j < hi
      PROVE  j \in 0 .. r.size - 1 /\ j < r.size /\ Byte(r, j) \in HostBytes
  <2>1. j \in 0 .. r.size - 1 /\ j < r.size BY <1>4, <1>5, <1>7
  <2>. QED BY <1>5, <1>6, <2>1, ByteSplits DEF dev
<1>8. ASSUME NEW x \in DOMAIN Mem, Mem'[x] # Mem[x]
      PROVE  x \in DOMAIN src /\ Mem'[x] = Mem[src[x]]
  <2>0. /\ DOMAIN Mem = ({"host"} \X HostBytes) \cup ({"ddr"} \X DdrBytes)
        /\ \A a \in HostBytes : Mem[<<"host", a>>] = host[a] /\ Mem'[<<"host", a>>] = host'[a]
        /\ \A a \in DdrBytes : Mem[<<"ddr", a>>] = ddr[a] /\ Mem'[<<"ddr", a>>] = ddr'[a]
    BY CellsAre DEF Mem
  <2>1. CASE r.direction = "to_device"
    <3>1. host' = host BY <1>3, <2>1 DEF WritesSegment
    <3>2. PICK a \in DdrBytes : x = <<"ddr", a>> BY <1>8, <2>0, <3>1
    <3>3. ddr'[a] # ddr[a] BY <1>8, <2>0, <3>2
    <3>4. PICK j \in Nat : j < hi /\ a = dev + j /\ ddr'[a] = host[Byte(r, j)]
      BY <1>3, <2>1, <3>3 DEF WritesSegment, dev
    <3>5. j \in 0 .. r.size - 1 /\ Byte(r, j) \in HostBytes BY <1>7, <3>4
    <3>6. /\ DOMAIN src = {<<"ddr", dev + k>> : k \in 0 .. r.size - 1}
          /\ \A k \in 0 .. r.size - 1 : src[<<"ddr", dev + k>>] = <<"host", Byte(r, k)>>
      BY <1>5, <1>6, <2>1, SourceOfByte DEF src, dev
    <3>7. x \in DOMAIN src /\ src[x] = <<"host", Byte(r, j)>> BY <3>2, <3>4, <3>5, <3>6
    <3>. QED BY <2>0, <3>2, <3>4, <3>5, <3>7
  <2>2. CASE r.direction # "to_device"
    <3>1. ddr' = ddr BY <1>3, <2>2 DEF WritesSegment
    <3>2. PICK a \in HostBytes : x = <<"host", a>> BY <1>8, <2>0, <3>1
    <3>3. host'[a] # host[a] BY <1>8, <2>0, <3>2
    <3>4. PICK j \in Nat : j < hi /\ a = Byte(r, j) /\ host'[a] = ddr[dev + j] /\ dev + j \in DdrBytes
      BY <1>3, <2>2, <3>3 DEF WritesSegment, dev
    <3>5. j \in 0 .. r.size - 1 BY <1>7, <3>4
    <3>6. /\ DOMAIN src = {<<"host", Byte(r, k)>> : k \in 0 .. r.size - 1}
          /\ \A k \in 0 .. r.size - 1 : src[<<"host", Byte(r, k)>>] = <<"ddr", dev + k>>
      BY <1>5, <1>6, <2>2, SourceOfByte DEF src, dev
    <3>7. x \in DOMAIN src /\ src[x] = <<"ddr", dev + j>> BY <3>2, <3>4, <3>5, <3>6
    <3>. QED BY <2>0, <3>2, <3>4, <3>7
  <2>. QED BY <2>1, <2>2
<1> DEFINE some == {x \in DOMAIN src : x \in DOMAIN Mem /\ Mem'[x] # Mem[x]}
<1>9. Mem' = [x \in DOMAIN Mem |-> Mem'[x]] BY DEF Mem, Cells
<1>10. Mem' = [x \in DOMAIN Mem |-> IF x \in some THEN Mem[src[x]] ELSE Mem[x]]
  <2>. HIDE DEF Mem
  <2>1. ASSUME NEW x \in DOMAIN Mem PROVE Mem'[x] = IF x \in some THEN Mem[src[x]] ELSE Mem[x]
    BY <1>8
  <2>. HIDE DEF some
  <2>. QED BY <1>9, <2>1
<1>11. some \in SUBSET DOMAIN src OBVIOUS
<1>. HIDE DEF some
<1>. QED BY <1>10, <1>11 DEF src, r

\* At the end of a successful transfer every cell of the target has its source.
LEMMA AllHaveArrived ==
  ASSUME NEW me, InDevice, CallInv(me), PinInv(me), pc[me] = "put", Moved(req[me], req[me].size)
  PROVE  \A x \in DOMAIN SourceCell(req[me]) : Mem[x] = Mem[SourceCell(req[me])[x]]
<1> DEFINE r == req[me]
           src == SourceCell(r)
           dev == r.ddr3_addr
<1>1. /\ r \in Requests /\ r.host_vaddr \in Nat /\ r.size \in Nat /\ dev \in Nat /\ Valid(r)
  BY RequestFacts
<1>2. Backed(r, pinned_pages, NumPages(r)) BY DEF PinInv
<1>. HIDE DEF src
<1>3. ASSUME NEW j \in 0 .. r.size - 1
      PROVE  Mem[<<"ddr", dev + j>>] = Mem[<<"host", Byte(r, j)>>]
  <2>1. j \in Nat /\ j < r.size BY <1>1
  <2>2. dev + j \in DdrBytes BY <1>1, <2>1 DEF InDevice
  <2>3. Byte(r, j) \in HostBytes BY <1>1, <1>2, <2>1, ByteSplits
  <2>4. ddr[dev + j] = host[Byte(r, j)] BY <2>1 DEF Moved
  <2>. QED BY <2>2, <2>3, <2>4, CellsAre DEF Mem
<1>4. CASE r.direction = "to_device"
  <2>1. /\ DOMAIN src = {<<"ddr", dev + k>> : k \in 0 .. r.size - 1}
        /\ \A k \in 0 .. r.size - 1 : src[<<"ddr", dev + k>>] = <<"host", Byte(r, k)>>
    BY <1>1, <1>2, <1>4, SourceOfByte DEF src
  <2>2. ASSUME NEW x \in DOMAIN src PROVE Mem[x] = Mem[src[x]]
    <3>1. PICK k \in 0 .. r.size - 1 : x = <<"ddr", dev + k>> BY <2>1
    <3>2. src[x] = <<"host", Byte(r, k)>> BY <2>1, <3>1
    <3>. QED BY <1>3, <3>1, <3>2
  <2>. QED BY <2>2 DEF src
<1>5. CASE r.direction # "to_device"
  <2>1. /\ DOMAIN src = {<<"host", Byte(r, k)>> : k \in 0 .. r.size - 1}
        /\ \A k \in 0 .. r.size - 1 : src[<<"host", Byte(r, k)>>] = <<"ddr", dev + k>>
    BY <1>1, <1>2, <1>5, SourceOfByte DEF src
  <2>2. ASSUME NEW x \in DOMAIN src PROVE Mem[x] = Mem[src[x]]
    <3>1. PICK k \in 0 .. r.size - 1 : x = <<"host", Byte(r, k)>> BY <2>1
    <3>2. src[x] = <<"ddr", dev + k>> BY <2>1, <3>1
    <3>. QED BY <1>3, <3>1, <3>2
  <2>. QED BY <2>2 DEF src
<1>. QED BY <1>4, <1>5

\* A step of the caller or of the engine is a step of TransferService, or none.
LEMMA StepRefines ==
  ASSUME NEW me, Threads = {me}, StopsInTime = TRUE, InDevice, OneCallerInv(me), MovedInv(me), [Next]_vars
  PROVE  [Service!Next]_(Service!vars)
<1>0. /\ CallInv(me) /\ PinInv(me) /\ SglInv(me) /\ ChanInv(me) /\ EngineInv(me) /\ me \in Threads
      /\ pc \in [Threads -> Places] /\ DOMAIN req = Threads /\ DOMAIN ret = Threads
      /\ timeout \in [Threads -> 0 .. Polls]
  BY DEF OneCallerInv, HandlerInv, CallInv
<1>. USE <1>0
<1>v. Service!vars = <<Mem, Open, Late, ret>> BY DEF Service!vars, Mem, Open, Late
<1>n. ASSUME \/ Service!Refuse(me) \/ Service!Fail(me) \/ Service!Succeed(me) \/ Service!Settle(me)
             \/ \E r \in Requests : Service!Begin(me, r) \/ Service!Move(me, r)
      PROVE  Service!Next
  BY <1>n DEF Service!Next
<1>d. \A r : r.direction \in Directions => r # NoReq
  <2>1. NoReq.direction = "none" BY DEF NoReq
  <2>2. "none" \notin Directions BY DEF Directions
  <2>. QED BY <2>1, <2>2
\* Inside the handler the client's request is under way, and none is late.
<1>o. pc[me] # "user" => /\ Open[me] # NoReq /\ Open[me] = req[me] /\ req[me] \in Requests
                         /\ Late = [t \in Threads |-> NoReq]
  <2>1. ASSUME pc[me] # "user" PROVE req[me] \in Requests /\ req[me].direction \in Directions
    BY <2>1, RequestFacts
  <2>. QED BY <1>d, <2>1 DEF Open, Late
<1>p. pc'[me] # "user" => Late' = [t \in Threads |-> NoReq] BY DEF Late
<1>1. ASSUME UNCHANGED <<host, ddr, req, ret>>, pc[me] # "user", pc'[me] # "user"
      PROVE  UNCHANGED Service!vars
  <2>1. Open' = Open BY <1>1 DEF Open
  <2>2. Mem' = Mem BY <1>1 DEF Mem, Cells, HostBytes, Frames
  <2>3. Late' = Late BY <1>1, <1>o, <1>p
  <2>. QED BY <1>1, <1>v, <2>1, <2>2, <2>3 DEF Service!vars, Mem, Open, Late
<1>2. ASSUME NEW code, UNCHANGED <<host, ddr>>, pc[me] # "user", Leave(me, code)
      PROVE  /\ Open[me] # NoReq /\ Open' = [Open EXCEPT ![me] = NoReq]
             /\ ret' = [ret EXCEPT ![me] = code] /\ Mem' = Mem
             /\ \E r \in {Open[me], NoReq} : Late' = [Late EXCEPT ![me] = r]
             /\ timeout[me] # 0 => Late' = Late
  <2>1. Open' = [Open EXCEPT ![me] = NoReq] BY <1>2 DEF Leave, Open
  <2>2. Mem' = Mem BY <1>2 DEF Mem, Cells, HostBytes, Frames
  <2>3. Late'[me] \in {Open[me], NoReq} BY <1>2, <1>o DEF Leave, Late
  <2>4. Late' = [Late EXCEPT ![me] = Late'[me]] BY <1>2, <1>o DEF Late
  <2>5. timeout[me] # 0 => Late' = Late BY <1>2, <1>o DEF Leave, Late
  <2>. HIDE DEF Late
  <2>. QED BY <1>2, <1>o, <2>1, <2>2, <2>3, <2>4, <2>5 DEF Leave
<1>3. ASSUME NEW code \in {"EINVAL", "EFAULT", "ENOMEM", "ETIMEDOUT"},
             UNCHANGED <<host, ddr>>, pc[me] # "user", Leave(me, code)
      PROVE  Service!Next
  <2>1. Service!End(me, code) BY <1>2, <1>3 DEF Service!End, Mem, Open
  <2>2. Service!Fail(me)
    <3>1. \E r \in {Open[me], NoReq} : Late' = [Late EXCEPT ![me] = r] BY <1>2, <1>3
    <3>. QED BY <2>1, <3>1 DEF Service!Fail, Open, Late
  <2>. QED BY <1>n, <2>2
<1>4. CASE \E r \in Requests : Reject(me, r)
  <2>1. /\ pc[me] = "user" /\ UNCHANGED <<host, ddr, pc, req, timeout, chan>>
        /\ ret' = [ret EXCEPT ![me] = "EINVAL"]
    BY <1>4 DEF Reject, memory
  <2>2. Open[me] = NoReq /\ Open' = Open /\ Late' = Late BY <2>1 DEF Open, Late
  <2>3. Mem' = Mem BY <2>1 DEF Mem, Cells, HostBytes, Frames
  <2>4. Service!Refuse(me) BY <2>1, <2>2, <2>3 DEF Service!Refuse, Mem, Open, Late
  <2>. QED BY <1>n, <2>4
<1>5. CASE \E r \in Requests : Accept(me, r)
  <2>1. PICK r \in Requests : Accept(me, r) BY <1>5
  <2>2. /\ pc[me] = "user" /\ pc'[me] = "pin" /\ req'[me] = r /\ UNCHANGED <<host, ddr>>
        /\ ret' = [ret EXCEPT ![me] = "none"] /\ \A d \in Directions : ~chan[d].stop
    BY <2>1 DEF Accept, Goto, memory
  <2>3. Open[me] = NoReq /\ Open' = [Open EXCEPT ![me] = r] BY <2>2 DEF Open
  <2>4. Mem' = Mem BY <2>2 DEF Mem, Cells, HostBytes, Frames
  <2>5. Late[me] = NoReq /\ Late' = Late BY <1>p, <2>2 DEF Late
  <2>6. Service!Begin(me, r) BY <2>2, <2>3, <2>4, <2>5 DEF Service!Begin, Mem, Open, Late
  <2>. QED BY <1>n, <2>6
<1>6. CASE \E k \in 0 .. MAX_PAGES : PinPages(me, k) BY <1>1, <1>6 DEF PinPages, Goto, memory
<1>7. CASE PinFailed(me) BY <1>3, <1>7 DEF PinFailed, memory
<1>8. CASE PinnedTooFew(me) BY <1>3, <1>8 DEF PinnedTooFew, memory
<1>9. CASE AllocFailed(me) BY <1>3, <1>9 DEF AllocFailed, memory
<1>10. CASE BuildSgl(me) BY <1>1, <1>10 DEF BuildSgl, Goto, memory
<1>11. CASE MapFailed(me) BY <1>3, <1>11 DEF MapFailed, memory
<1>12. CASE \E s \in Mappings(sgl) : MapSgl(me, s) BY <1>1, <1>12 DEF MapSgl, Goto, memory
<1>13. CASE BuildChain(me) BY <1>1, <1>13 DEF BuildChain, Goto, memory
<1>14. CASE Start(me) BY <1>1, <1>14 DEF Start, Goto, memory
<1>15. CASE Poll(me) BY <1>1, <1>15 DEF Poll, Goto, memory
<1>16. CASE PollDone(me) BY <1>1, <1>16 DEF PollDone, Goto, memory
<1>17. CASE Stop(me) BY <1>1, <1>17 DEF Stop, Goto, memory
<1>18. CASE Unmap(me) BY <1>1, <1>18 DEF Unmap, Goto, memory
<1>19. CASE PutPages(me)
  <2>1. pc[me] = "put" /\ UNCHANGED <<host, ddr>> BY <1>19 DEF PutPages, memory
  <2>2. CASE timeout[me] = 0
    <3>1. Leave(me, "ETIMEDOUT") BY <1>19, <2>2 DEF PutPages
    <3>. QED BY <1>3, <2>1, <3>1
  <2>3. CASE timeout[me] # 0
    <3>1. Leave(me, "ok") BY <1>19, <2>3 DEF PutPages
    <3>2. Moved(req[me], req[me].size) BY <2>1, <2>3 DEF MovedInv
    <3>3. \A x \in DOMAIN SourceCell(Open[me]) : Mem[x] = Mem[SourceCell(Open[me])[x]]
      BY <1>o, <2>1, <3>2, AllHaveArrived
    <3>4. Service!End(me, "ok") BY <1>2, <2>1, <3>1 DEF Service!End, Mem, Open
    <3>5. Late' = Late BY <1>2, <2>1, <2>3, <3>1
    <3>6. Service!Succeed(me) BY <3>3, <3>4, <3>5 DEF Service!Succeed, Mem, Open, Late
    <3>. QED BY <1>n, <3>6
  <2>. QED BY <2>2, <2>3
<1>20. CASE \E dir \in Directions : EngineStep(dir)
  <2>1. PICK dir \in Directions : EngineStep(dir) BY <1>20
  <2>2. /\ UNCHANGED <<pc, req, ret, timeout>> /\ BusyOn(dir)
        /\ chan' = [chan EXCEPT ![dir].at = desc_ring[chan[dir].at].next]
    BY <2>1 DEF EngineStep, caller, BusyOn
  <2>3. \E some \in SUBSET DOMAIN SourceCell(req[me]) :
          Mem' = [x \in DOMAIN Mem |-> IF x \in some THEN Mem[SourceCell(req[me])[x]] ELSE Mem[x]]
    BY <2>1, EngineMoves
  <2>4. Open' = Open BY <2>2 DEF Open
  <2>5. \A d \in Directions : chan'[d].stop = chan[d].stop BY <2>2 DEF ChanInv
  <2>6. Late' = Late BY <2>2, <2>5 DEF Late
  <2>7. Serving(me, dir) BY <2>2 DEF EngineInv
  <2>8. req[me] \in Requests /\ req[me].direction \in Directions /\ dir = req[me].direction
    BY <2>7, ServingFacts
  <2>9. req[me] \in {Open[me], Late[me]} /\ req[me] # NoReq
    <3>1. CASE pc[me] = "user"
      <4>1. timeout[me] = 0 BY <2>7, <3>1 DEF Serving
      <4>2. chan[dir].stop BY <2>2, <3>1 DEF ChanInv, Running, BusyOn
      <4>. QED BY <1>d, <2>8, <3>1, <4>1, <4>2 DEF Late
    <3>2. CASE pc[me] # "user" BY <1>o, <3>2
    <3>. QED BY <3>1, <3>2
  <2>10. Service!Move(me, req[me])
    BY <2>2, <2>3, <2>4, <2>6, <2>9 DEF Service!Move, Mem, Open, Late
  <2>. QED BY <1>n, <2>8, <2>10
<1>21. CASE \E dir \in Directions : StopArrives(dir)
  <2>1. PICK dir \in Directions : StopArrives(dir) BY <1>21
  <2>2. /\ UNCHANGED <<pc, req, ret, timeout, host, ddr>>
        /\ chan' = [chan EXCEPT ![dir] = [run |-> FALSE, at |-> 0, stop |-> FALSE]]
    BY <2>1 DEF StopArrives, caller, memory
  <2>3. Open' = Open BY <2>2 DEF Open
  <2>4. Mem' = Mem BY <2>2 DEF Mem, Cells, HostBytes, Frames
  <2>5. ~chan'[dir].stop /\ \A d \in Directions : d # dir => chan'[d] = chan[d] BY <2>2 DEF ChanInv
  <2>6. Late'[me] \in {Late[me], NoReq} BY <2>2, <2>5 DEF Late
  <2>7. Late' = [Late EXCEPT ![me] = Late'[me]] BY DEF Late
  <2>8. CASE Late'[me] = Late[me]
    <3>1. Late' = Late BY <2>7, <2>8 DEF Late
    <3>. QED BY <1>v, <2>2, <2>3, <2>4, <3>1 DEF Service!vars, Mem, Open, Late
  <2>9. CASE Late'[me] # Late[me]
    <3>1. Late'[me] = NoReq /\ Late[me] # NoReq BY <2>6, <2>9
    <3>2. Late' = [Late EXCEPT ![me] = NoReq] BY <2>7, <3>1
    <3>3. Service!Settle(me) BY <2>2, <2>3, <2>4, <3>1, <3>2 DEF Service!Settle, Mem, Open, Late
    <3>. QED BY <1>n, <3>3
  <2>. QED BY <2>8, <2>9
<1>22. CASE UNCHANGED vars
  <2>1. UNCHANGED <<host, ddr, pc, req, ret, timeout, chan>> BY <1>22 DEF vars, memory, caller
  <2>2. Open' = Open /\ Late' = Late BY <2>1 DEF Open, Late
  <2>3. Mem' = Mem BY <2>1 DEF Mem, Cells, HostBytes, Frames
  <2>. QED BY <2>1, <2>2, <2>3 DEF Service!vars, Mem, Open, Late
<1>. QED BY <1>4, <1>5, <1>6, <1>7, <1>8, <1>9, <1>10, <1>11, <1>12, <1>13, <1>14, <1>15,
            <1>16, <1>17, <1>18, <1>19, <1>20, <1>21, <1>22, StepCases

\* Pinning, mapping, chaining, polling and the engine together implement
\* TransferService: while a call is under way cells of its target take over
\* their sources and no other cell changes, it succeeds only when all have, and
\* cells move after a return only if the call failed.
THEOREM DmaTransferImplementsService ==
  ASSUME NEW me, Threads = {me}, StopsInTime = TRUE, InDevice
  PROVE  Spec => ImplementsTransfer
<1>1. Spec => []OneCallerInv(me) BY AlwaysOneCaller
<1>2. Spec => []MovedInv(me) BY AlwaysMoved
<1>3. Init => Service!Init
  <2>1. SUFFICES ASSUME Init PROVE Service!Init OBVIOUS
  <2>2. \A d \in Directions : ~chan[d].stop BY <2>1 DEF Init, Directions
  <2>. QED BY <2>1, <2>2 DEF Init, Service!Init, Cells
<1>4. OneCallerInv(me) /\ MovedInv(me) /\ [Next]_vars => [Service!Next]_(Service!vars)
  BY StepRefines
<1>. QED BY <1>1, <1>2, <1>3, <1>4, PTL DEF Spec, ImplementsTransfer, Service!Spec
=============================================================================
