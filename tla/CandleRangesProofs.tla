------------------------- MODULE CandleRangesProofs -------------------------
(***************************************************************************)
(* Facts about the arithmetic of candle gaps that the invariance proofs of *)
(* the modules above CandleRanges rest on, and facts about sums, counts and *)
(* products of numbers that the proofs of several modules need.            *)
(***************************************************************************)
EXTENDS CandleRanges, FiniteSetTheorems, WellFoundedInduction, TLAPS

\* A non-empty set of natural numbers has a least element.
LEMMA NatHasLeast ==
  ASSUME NEW S \in SUBSET Nat, S # {}
  PROVE  \E x \in S : \A y \in S : x <= y
<1>1. PICK x \in S : \A y \in S : ~ (<<y, x>> \in OpToRel(<, Nat))
  BY WFMin, NatLessThanWellFounded
<1>2. \A y \in S : ~ (y < x)
  BY <1>1 DEF OpToRel
<1> QED  BY <1>2

\* A non-empty finite set of integers has a greatest element: otherwise some
\* least initial part of an enumeration has none.
LEMMA FiniteHasGreatest ==
  ASSUME NEW S \in SUBSET Int, IsFiniteSet(S), S # {}
  PROVE  \E x \in S : \A y \in S : y <= x
<1>1. PICK n \in Nat : ExistsBijection(1 .. n, S)
  BY FS_CardinalityType
<1>2. PICK f \in [1 .. n -> S] : \A y \in S : \E k \in 1 .. n : f[k] = y
  BY <1>1 DEF ExistsBijection, Bijection, Surjection
<1> DEFINE Bounded(k) == \E x \in S : \A j \in 1 .. k : f[j] <= x
           Bad == {k \in 0 .. n : ~ Bounded(k)}
<1>3. \A k : k \in Bad <=> k \in 0 .. n /\ ~ Bounded(k)
  OBVIOUS
<1>4. ASSUME NEW m \in 1 .. n, Bounded(m - 1) PROVE Bounded(m)
  <2>1. PICK x \in S : \A j \in 1 .. m - 1 : f[j] <= x
    BY <1>4
  <2>2. f[m] \in S /\ x \in Int /\ f[m] \in Int
    BY <1>4
  <2>3. \A j \in 1 .. m : f[j] \in Int /\ (j \in 1 .. m - 1 \/ j = m)
    <3> SUFFICES ASSUME NEW j \in 1 .. m
                 PROVE  f[j] \in Int /\ (j \in 1 .. m - 1 \/ j = m)
      OBVIOUS
    <3>1. j \in 1 .. n /\ (j \in 1 .. m - 1 \/ j = m)
      OBVIOUS
    <3>2. f[j] \in S
      BY <3>1
    <3> QED  BY <3>1, <3>2
  <2>4. CASE f[m] <= x
    <3>1. \A j \in 1 .. m : f[j] <= x
      BY <2>1, <2>3, <2>4
    <3> QED  BY <3>1
  <2>5. CASE x <= f[m]
    <3>1. \A j \in 1 .. m : f[j] <= f[m]
      BY <2>1, <2>2, <2>3, <2>5
    <3> QED  BY <2>2, <3>1
  <2> QED  BY <2>2, <2>4, <2>5
<1>5. Bounded(0)
  <2>1. \A j \in 1 .. 0 : FALSE
    OBVIOUS
  <2> QED  BY <2>1
<1> HIDE DEF Bounded, Bad
<1>6. Bad = {}
  <2> SUFFICES ASSUME Bad # {} PROVE FALSE
    OBVIOUS
  <2>1. Bad \in SUBSET Nat
    BY <1>3
  <2>2. PICK m \in Bad : \A k \in Bad : m <= k
    BY <2>1, NatHasLeast
  <2>3. m \in 1 .. n /\ m - 1 \in 0 .. n
    BY <2>2, <1>3, <1>5
  <2>4. Bounded(m - 1)
    BY <2>2, <2>3, <1>3
  <2> QED  BY <2>2, <2>3, <2>4, <1>3, <1>4
<1>7. Bounded(n)
  BY <1>3, <1>6
<1> QED  BY <1>7, <1>2 DEF Bounded

\* MaxOf of a non-empty finite set of integers is its greatest element.
LEMMA MaxOfProperty ==
  ASSUME NEW S \in SUBSET Int, IsFiniteSet(S), S # {}
  PROVE  MaxOf(S) \in S /\ \A y \in S : y <= MaxOf(S)
BY FiniteHasGreatest DEF MaxOf

\* MinOf of a non-empty set of natural numbers is its least element.
LEMMA MinOfProperty ==
  ASSUME NEW S \in SUBSET Nat, S # {}
  PROVE  MinOf(S) \in S /\ \A y \in S : MinOf(S) <= y
BY NatHasLeast DEF MinOf

\* A page is a finite set of natural numbers.
LEMMA PageProperty ==
  ASSUME NEW Rows, NEW start \in Int, NEW end \in Int, Rows \subseteq start .. end
  PROVE  IsFiniteSet(Rows) /\ Rows \subseteq Int
<1>1. IsFiniteSet(start .. end)
  BY FS_Interval
<1>2. Rows \in SUBSET (start .. end)
  OBVIOUS
<1>3. IsFiniteSet(Rows)
  BY ONLY <1>1, <1>2, FS_Subset
<1>4. Rows \subseteq Int
  OBVIOUS
<1> QED  BY <1>3, <1>4

\* The values of a function with a finite domain are finitely many.
LEMMA FiniteImage ==
  ASSUME NEW D, IsFiniteSet(D), NEW f, f = [n \in D |-> f[n]]
  PROVE  IsFiniteSet({f[n] : n \in D})
<1> DEFINE T == {f[n] : n \in D}
<1>1. f \in Surjection(D, T)
  BY DEF Surjection
<1> HIDE DEF T
<1>2. IsFiniteSet(T)
  BY <1>1, FS_Surjection
<1> QED  BY <1>2 DEF T

\* Nor is one without a least element.
LEMMA FiniteHasLeast ==
  ASSUME NEW S \in SUBSET Int, IsFiniteSet(S), S # {}
  PROVE  \E x \in S : \A y \in S : x <= y
<1> DEFINE N == {0 - y : y \in S}
           f == [y \in S |-> 0 - y]
<1>1. f = [n \in S |-> f[n]] /\ N = {f[n] : n \in S}
  OBVIOUS
<1>2. N \in SUBSET Int /\ N # {}
  <2>1. ASSUME NEW x \in N PROVE x \in Int
    <3>1. PICK y \in S : x = 0 - y
      OBVIOUS
    <3> QED  BY <3>1
  <2>2. PICK y \in S : TRUE
    OBVIOUS
  <2>3. 0 - y \in N
    OBVIOUS
  <2> HIDE DEF N
  <2> QED  BY <2>1, <2>3
<1>3. IsFiniteSet(N)
  <2> HIDE DEF f
  <2> QED  BY <1>1, FiniteImage
<1>4. PICK k \in N : \A y \in N : y <= k
  BY <1>2, <1>3, FiniteHasGreatest
<1>5. PICK x \in S : k = 0 - x
  OBVIOUS
<1>6. \A y \in S : x <= y
  <2> SUFFICES ASSUME NEW y \in S PROVE x <= y
    OBVIOUS
  <2>1. 0 - y \in N
    OBVIOUS
  <2>2. 0 - y <= 0 - x
    BY <1>4, <1>5, <2>1
  <2>3. x \in Int /\ y \in Int
    OBVIOUS
  <2> QED  BY <2>2, <2>3
<1> QED  BY <1>6

\* Gaps are sets of integers, whatever the rows are.
LEMMA MissingRangesAreSlots ==
  ASSUME NEW Rows
  PROVE  list_candle_missing_ranges(Rows) \in SUBSET Int
BY DEF list_candle_missing_ranges

LEMMA MergedRangesAreSlots ==
  ASSUME NEW bridge, NEW Gaps \in SUBSET Int
  PROVE  merge_missing_range_windows(bridge)[Gaps] \in SUBSET Int
<1> DEFINE Pairs == {p \in Gaps \X Gaps : p[2] - p[1] <= bridge}
           Bridged == UNION {pair[1] .. pair[2] : pair \in Pairs}
<1>1. merge_missing_range_windows(bridge)[Gaps] = Gaps \cup Bridged
  BY DEF merge_missing_range_windows
<1>2. \A x \in Bridged : x \in Int
  <2> SUFFICES ASSUME NEW pair \in Pairs, NEW x \in pair[1] .. pair[2] PROVE x \in Int
    OBVIOUS
  <2> QED  OBVIOUS
<1> HIDE DEF Bridged
<1> QED  BY <1>1, <1>2

\* A range is a pair of slots.
LEMMA RangesArePairs ==
  ASSUME NEW Slots \in SUBSET Int
  PROVE  Ranges[Slots] \in SUBSET (Int \X Int)
<1>1. Ranges[Slots] \subseteq Slots \X Slots
  BY ZenonT(30) DEF Ranges
<1> QED  BY <1>1

\* Quotients and products.
LEMMA DivBounds ==
  ASSUME NEW w \in Nat \ {0}, NEW a \in Int, NEW b \in Int
  PROVE  /\ a \div w \in Int
         /\ (a \div w) * w <= a
         /\ a <= b * w => a \div w <= b
         /\ b * w <= a => b <= a \div w
<1> DEFINE q == a \div w
<1>1. /\ q \in Int /\ a % w \in 0 .. w - 1
      /\ a = (w * q) + (a % w)
  OBVIOUS
<1> HIDE DEF q
<1>2. q * w = w * q /\ b * w = w * b /\ w * q \in Int /\ w * b \in Int
  BY <1>1
<1>3. w * q <= a /\ a < w * q + w
  BY <1>1, <1>2
<1>4. \A c, d \in Int : c < d => w * c + w <= w * d
  <2> SUFFICES ASSUME NEW c \in Int, NEW d \in Int, c < d PROVE w * c + w <= w * d
    OBVIOUS
  <2>1. d - c >= 1 /\ d - c \in Int
    OBVIOUS
  <2>2. w * (d - c) >= w
    <3> DEFINE n == d - c
    <3>1. n \in Nat /\ n >= 1
      BY <2>1
    <3> HIDE DEF n
    <3>2. w * n >= w
      BY <3>1
    <3> QED  BY <3>2 DEF n
  <2>3. w * (d - c) = w * d - w * c /\ w * d \in Int /\ w * c \in Int
    OBVIOUS
  <2> QED  BY <2>2, <2>3
<1>5. a <= b * w => q <= b
  <2> SUFFICES ASSUME a <= b * w, b < q PROVE FALSE
    BY <1>1
  <2>1. w * b + w <= w * q
    BY <1>1, <1>4
  <2> QED  BY <1>2, <1>3, <2>1
<1>6. b * w <= a => b <= q
  <2> SUFFICES ASSUME b * w <= a, q < b PROVE FALSE
    BY <1>1
  <2>1. w * q + w <= w * b
    BY <1>1, <1>4
  <2> QED  BY <1>2, <1>3, <2>1
<1> QED  BY <1>1, <1>2, <1>3, <1>5, <1>6 DEF q

\* A member of a bounded set of slots is in one of its ranges.
LEMMA MaximalRange ==
  ASSUME NEW S \in SUBSET Int, NEW lo \in Int, NEW hi \in Int,
         \A x \in S : lo <= x /\ x <= hi, NEW t \in S
  PROVE  \E r \in Ranges[S] : r[1] <= t /\ t <= r[2]
<1> DEFINE A == {n \in Nat : lo + n <= t /\ (lo + n) .. t \subseteq S}
           B == {n \in Nat : t <= hi - n /\ t .. (hi - n) \subseteq S}
<1>1. t \in Int /\ t - lo \in Nat /\ hi - t \in Nat
  OBVIOUS
<1>2. t - lo \in A
  <2>1. lo + (t - lo) = t
    BY <1>1
  <2>2. t .. t \subseteq S
    BY <1>1
  <2> QED  BY <1>1, <2>1, <2>2
<1>3. hi - t \in B
  <2>1. hi - (hi - t) = t
    BY <1>1
  <2>2. t .. t \subseteq S
    BY <1>1
  <2> QED  BY <1>1, <2>1, <2>2
<1>4. PICK m \in A : \A n \in A : m <= n
  BY <1>2, NatHasLeast
<1>5. PICK l \in B : \A n \in B : l <= n
  BY <1>3, NatHasLeast
<1>6. m \in Nat /\ lo + m \in Int /\ lo + m <= t /\ (lo + m) .. t \subseteq S
  BY <1>4
<1>7. l \in Nat /\ hi - l \in Int /\ t <= hi - l /\ t .. (hi - l) \subseteq S
  BY <1>5
<1>8. (lo + m) - 1 \notin S
  <2> SUFFICES ASSUME (lo + m) - 1 \in S PROVE FALSE
    OBVIOUS
  <2>1. m - 1 \in Nat /\ lo + (m - 1) = (lo + m) - 1
    <3>1. lo <= (lo + m) - 1
      OBVIOUS
    <3> QED  BY <1>6, <3>1
  <2>2. (lo + (m - 1)) .. t \subseteq S
    <3> SUFFICES ASSUME NEW x \in (lo + (m - 1)) .. t PROVE x \in S
      OBVIOUS
    <3>1. x = (lo + m) - 1 \/ x \in (lo + m) .. t
      BY <1>6, <2>1
    <3> QED  BY <1>6, <3>1
  <2>3. m - 1 \in A
    BY <1>6, <2>1, <2>2
  <2> QED  BY <1>4, <1>6, <2>1, <2>3
<1>9. (hi - l) + 1 \notin S
  <2> SUFFICES ASSUME (hi - l) + 1 \in S PROVE FALSE
    OBVIOUS
  <2>1. l - 1 \in Nat /\ hi - (l - 1) = (hi - l) + 1
    <3>1. (hi - l) + 1 <= hi
      OBVIOUS
    <3> QED  BY <1>7, <3>1
  <2>2. t .. (hi - (l - 1)) \subseteq S
    <3> SUFFICES ASSUME NEW x \in t .. (hi - (l - 1)) PROVE x \in S
      OBVIOUS
    <3>1. x = (hi - l) + 1 \/ x \in t .. (hi - l)
      BY <1>1, <1>7, <2>1
    <3> QED  BY <1>7, <3>1
  <2>3. l - 1 \in B
    BY <1>7, <2>1, <2>2
  <2> QED  BY <1>5, <1>7, <2>1, <2>3
<1> HIDE DEF A, B
<1> DEFINE a == lo + m
           b == hi - l
<1>10. /\ a \in Int /\ b \in Int /\ a <= t /\ t <= b
       /\ a .. t \subseteq S /\ t .. b \subseteq S /\ a - 1 \notin S /\ b + 1 \notin S
  BY <1>6, <1>7, <1>8, <1>9
<1> HIDE DEF a, b
<1>11. a .. b \subseteq S
  <2> SUFFICES ASSUME NEW x \in a .. b PROVE x \in S
    OBVIOUS
  <2>1. x \in a .. t \/ x \in t .. b
    BY <1>1, <1>10
  <2> QED  BY <1>10, <2>1
<1>12. a \in S /\ b \in S /\ a <= b
  <2>1. a \in a .. b /\ b \in a .. b
    BY <1>1, <1>10
  <2> QED  BY <1>1, <1>10, <1>11, <2>1
<1>13. <<a, b>> \in Ranges[S]
  BY <1>10, <1>11, <1>12 DEF Ranges
<1> QED  BY <1>10, <1>13

\* Two ranges with the same first slot are the same.
LEMMA RangesApart ==
  ASSUME NEW S \in SUBSET Int, NEW r \in Ranges[S], NEW q \in Ranges[S], r[1] = q[1]
  PROVE  r[2] = q[2]
<1>1. /\ r[1] \in Int /\ r[2] \in Int /\ q[2] \in Int
      /\ r[1] <= r[2] /\ q[1] <= q[2]
      /\ r[1] .. r[2] \subseteq S /\ r[2] + 1 \notin S
      /\ q[1] .. q[2] \subseteq S /\ q[2] + 1 \notin S
  BY DEF Ranges
<1>2. ~ (r[2] < q[2])
  <2> SUFFICES ASSUME r[2] < q[2] PROVE FALSE
    OBVIOUS
  <2>1. r[2] + 1 \in q[1] .. q[2]
    BY <1>1
  <2> QED  BY <1>1, <2>1
<1>3. ~ (q[2] < r[2])
  <2> SUFFICES ASSUME q[2] < r[2] PROVE FALSE
    OBVIOUS
  <2>1. q[2] + 1 \in r[1] .. r[2]
    BY <1>1
  <2> QED  BY <1>1, <2>1
<1> QED  BY <1>1, <1>2, <1>3

\* The last range of a finite set of slots.
LEMMA LastRange ==
  ASSUME NEW S \in SUBSET Int, IsFiniteSet(S), S # {}
  PROVE  \E r \in Ranges[S] : r[2] = MaxOf(S)
<1> DEFINE m == MaxOf(S)
<1>1. m \in S /\ \A y \in S : y <= m
  BY MaxOfProperty
<1> HIDE DEF m
<1>2. PICK lo \in Int : \A y \in S : lo <= y
  BY FiniteHasLeast
<1>3. PICK r \in Ranges[S] : r[1] <= m /\ m <= r[2]
  BY <1>1, <1>2, MaximalRange
<1>4. r[1] \in S /\ r[2] \in S /\ r[2] \in Int
  BY <1>3 DEF Ranges
<1>5. r[2] = m
  <2>1. m \in Int /\ r[2] <= m
    BY <1>1, <1>4
  <2> QED  BY <1>3, <1>4, <2>1
<1> QED  BY <1>3, <1>5 DEF m

\* Merged gaps keep the gaps and stay within their bounds.
LEMMA MergedWithin ==
  ASSUME NEW bridge, NEW a \in Int, NEW b \in Int, NEW G, G \subseteq a .. b
  PROVE  /\ merge_missing_range_windows(bridge)[G] \subseteq a .. b
         /\ G \subseteq merge_missing_range_windows(bridge)[G]
<1> DEFINE Pairs == {p \in G \X G : p[2] - p[1] <= bridge}
           Bridged == UNION {pair[1] .. pair[2] : pair \in Pairs}
<1>1. G \in SUBSET Int
  OBVIOUS
<1>2. merge_missing_range_windows(bridge)[G] = G \cup Bridged
  BY <1>1 DEF merge_missing_range_windows
<1>3. ASSUME NEW x \in Bridged PROVE x \in a .. b
  <2>1. PICK pair \in Pairs : x \in pair[1] .. pair[2]
    OBVIOUS
  <2>2. pair[1] \in a .. b /\ pair[2] \in a .. b
    OBVIOUS
  <2> QED  BY <2>1, <2>2
<1> HIDE DEF Bridged
<1> QED  BY <1>2, <1>3

\* The first and the last n of a set.
FirstOf(n, S) == {t \in S : Cardinality({u \in S : u <= t}) <= n}
LastOf(n, S)  == {t \in S : Cardinality({u \in S : u >= t}) <= n}

LEMMA OneMore ==
  ASSUME NEW E, IsFiniteSet(E), NEW m
  PROVE  Cardinality(E \cup {m}) <= Cardinality(E) + 1 /\ IsFiniteSet(E \cup {m})
<1>1. Cardinality(E) \in Nat
  BY FS_CardinalityType
<1> QED  BY <1>1, FS_AddElement

\* The first n of a finite set: an initial part, of everything when it is small.
LEMMA FirstOnes ==
  ASSUME NEW S \in SUBSET Int, IsFiniteSet(S), NEW n \in Nat,
         NEW E, E = FirstOf(n, S)
  PROVE  /\ E \subseteq S
         /\ \A s \in S, r \in E : s <= r => s \in E
         /\ Cardinality(E) < n => E = S
         /\ \A t \in S, a \in Int : (\A u \in S : a <= u) /\ t < a + n => t \in E
<1> DEFINE Upto(t) == {u \in S : u <= t}
<1>1. \A t : IsFiniteSet(Upto(t)) /\ Cardinality(Upto(t)) \in Nat
  <2> SUFFICES ASSUME NEW t PROVE IsFiniteSet(Upto(t)) /\ Cardinality(Upto(t)) \in Nat
    OBVIOUS
  <2>1. Upto(t) \subseteq S
    OBVIOUS
  <2> HIDE DEF Upto
  <2>2. IsFiniteSet(Upto(t))
    BY <2>1, FS_Subset
  <2> QED  BY <2>2, FS_CardinalityType
<1>2. \A t : t \in E <=> t \in S /\ Cardinality(Upto(t)) <= n
  BY DEF FirstOf
<1>3. ASSUME NEW s \in S, NEW r \in E, s <= r PROVE s \in E
  <2>1. s \in Int /\ r \in Int /\ r \in S /\ \A u \in S : u \in Int
    BY <1>2
  <2>2. \A u \in S : u <= s => u <= r
    BY <1>3, <2>1
  <2>3. Cardinality(Upto(s)) <= Cardinality(Upto(r))
    <3>1. Upto(s) \subseteq Upto(r)
      BY <2>2
    <3> HIDE DEF Upto
    <3> QED  BY <1>1, <3>1, FS_Subset
  <2> HIDE DEF Upto
  <2>4. Cardinality(Upto(r)) <= n /\ Cardinality(Upto(r)) \in Nat /\ Cardinality(Upto(s)) \in Nat
    BY <1>1, <1>2
  <2> QED  BY <1>2, <2>3, <2>4
<1>4. ASSUME Cardinality(E) < n, E # S PROVE FALSE
  <2> DEFINE R == S \ E
  <2>1. R \in SUBSET Int /\ R # {} /\ R \subseteq S
    BY <1>2, <1>4
  <2>2. PICK m \in R : \A y \in R : m <= y
    <3>1. IsFiniteSet(R)
      BY <2>1, FS_Subset
    <3> HIDE DEF R
    <3> QED  BY <2>1, <3>1, FiniteHasLeast
  <2>3. m \in S /\ m \notin E
    BY <2>2
  <2>4. Upto(m) \subseteq E \cup {m}
    <3>1. m \in Int /\ \A u \in S : u \in Int
      BY <2>3
    <3> SUFFICES ASSUME NEW u \in S, u <= m, u \notin E PROVE u = m
      OBVIOUS
    <3>2. m <= u
      BY <2>2
    <3> QED  BY <3>1, <3>2
  <2>5. IsFiniteSet(E) /\ Cardinality(E) \in Nat
    <3>1. E \subseteq S
      BY <1>2
    <3>2. IsFiniteSet(E)
      BY <3>1, FS_Subset
    <3> QED  BY <3>2, FS_CardinalityType
  <2> HIDE DEF Upto
  <2>6. Cardinality(E \cup {m}) <= Cardinality(E) + 1 /\ IsFiniteSet(E \cup {m})
    BY <2>5, OneMore
  <2>7. Cardinality(Upto(m)) <= Cardinality(E \cup {m})
    BY <2>4, <2>6, FS_Subset
  <2>8. Cardinality(Upto(m)) \in Nat /\ Cardinality(E \cup {m}) \in Nat
    BY <1>1, <2>6, FS_CardinalityType
  <2>9. Cardinality(Upto(m)) <= n
    BY <1>4, <2>5, <2>6, <2>7, <2>8
  <2> QED  BY <1>2, <2>3, <2>9
<1>5. ASSUME NEW t \in S, NEW a \in Int, \A u \in S : a <= u, t < a + n PROVE t \in E
  <2>0. t \in Int /\ a <= t /\ \A u \in S : u \in Int /\ a <= u
    BY <1>5
  <2>1. t \in Int /\ a <= t /\ Upto(t) \subseteq a .. t
    <3>1. \A u \in Upto(t) : u \in a .. t
      BY <2>0
    <3> HIDE DEF Upto
    <3> QED  BY <2>0, <3>1
  <2>2. IsFiniteSet(a .. t) /\ Cardinality(a .. t) = t - a + 1
    BY <1>5, <2>1, FS_Interval
  <2> HIDE DEF Upto
  <2>3. Cardinality(Upto(t)) <= Cardinality(a .. t)
    BY <2>1, <2>2, FS_Subset
  <2>4. Cardinality(Upto(t)) <= n
    BY <1>1, <1>5, <2>1, <2>2, <2>3
  <2> QED  BY <1>2, <2>4
<1> QED  BY <1>2, <1>3, <1>4, <1>5

\* The last n of a finite set are at most n, and all of what is near its end.
LEMMA LastOnes ==
  ASSUME NEW S \in SUBSET Int, IsFiniteSet(S), NEW n \in Nat,
         NEW L, L = LastOf(n, S)
  PROVE  /\ L \subseteq S /\ Cardinality(L) <= n
         /\ \A t \in S, b \in Int : (\A u \in S : u <= b) /\ b - n < t => t \in L
<1> DEFINE From(t) == {u \in S : u >= t}
<1>1. \A t : IsFiniteSet(From(t)) /\ Cardinality(From(t)) \in Nat
  <2> SUFFICES ASSUME NEW t PROVE IsFiniteSet(From(t)) /\ Cardinality(From(t)) \in Nat
    OBVIOUS
  <2>1. From(t) \subseteq S
    OBVIOUS
  <2> HIDE DEF From
  <2>2. IsFiniteSet(From(t))
    BY <2>1, FS_Subset
  <2> QED  BY <2>2, FS_CardinalityType
<1>2. \A t : t \in L <=> t \in S /\ Cardinality(From(t)) <= n
  BY DEF LastOf
<1>3. Cardinality(L) <= n
  <2>1. CASE L = {}
    <3>1. Cardinality(L) = 0
      BY <2>1, FS_EmptySet
    <3> QED  BY <3>1
  <2>2. CASE L # {}
    <3>1. L \in SUBSET Int /\ IsFiniteSet(L)
      <4>1. L \subseteq S
        BY <1>2
      <4>2. IsFiniteSet(L)
        BY <4>1, FS_Subset
      <4> QED  BY <4>1, <4>2
    <3>2. PICK m \in L : \A y \in L : m <= y
      BY <2>2, <3>1, FiniteHasLeast
    <3>3. L \subseteq From(m)
      <4>1. \A y \in L : y \in S /\ y \in Int
        BY <1>2, <3>1
      <4>2. m \in Int
        BY <3>1
      <4> QED  BY <3>2, <4>1, <4>2
    <3> HIDE DEF From
    <3>4. Cardinality(L) <= Cardinality(From(m))
      BY <1>1, <3>3, FS_Subset
    <3>5. Cardinality(L) \in Nat /\ Cardinality(From(m)) \in Nat /\ Cardinality(From(m)) <= n
      BY <1>1, <1>2, <3>1, <3>2, FS_CardinalityType
    <3> QED  BY <3>4, <3>5
  <2> QED  BY <2>1, <2>2
<1>4. ASSUME NEW t \in S, NEW b \in Int, \A u \in S : u <= b, b - n < t PROVE t \in L
  <2>0. t \in Int /\ t <= b /\ \A u \in S : u \in Int /\ u <= b
    BY <1>4
  <2>1. t \in Int /\ t <= b /\ From(t) \subseteq t .. b
    <3>1. \A u \in From(t) : u \in t .. b
      BY <2>0
    <3> HIDE DEF From
    <3> QED  BY <2>0, <3>1
  <2>2. IsFiniteSet(t .. b) /\ Cardinality(t .. b) = b - t + 1
    BY <1>4, <2>1, FS_Interval
  <2> HIDE DEF From
  <2>3. Cardinality(From(t)) <= Cardinality(t .. b)
    BY <2>1, <2>2, FS_Subset
  <2>4. Cardinality(From(t)) <= n
    BY <1>1, <1>4, <2>1, <2>2, <2>3
  <2> QED  BY <1>2, <2>4
<1> QED  BY <1>2, <1>3, <1>4

-----------------------------------------------------------------------------
(* Sums *)

\* The members 1 .. n of v add up to t: f has the partial sums.
Sums(v, n, t) ==
  \E f \in [0 .. n -> Int] : f[0] = 0 /\ f[n] = t /\ \A i \in 1 .. n : f[i] = f[i - 1] + v[i]

LEMMA SumNone == ASSUME NEW v, NEW t, Sums(v, 0, t) PROVE t = 0
BY DEF Sums

LEMMA SumZero == ASSUME NEW v PROVE Sums(v, 0, 0)
<1>1. PICK f : f = [i \in 0 .. 0 |-> 0]
  OBVIOUS
<1>2. f \in [0 .. 0 -> Int] /\ f[0] = 0
  BY <1>1
<1> QED  BY <1>2 DEF Sums

LEMMA SumOne == ASSUME NEW v, v[1] \in Int, NEW t, Sums(v, 1, t) PROVE t = v[1]
<1>1. PICK f \in [0 .. 1 -> Int] : f[0] = 0 /\ f[1] = t /\ \A i \in 1 .. 1 : f[i] = f[i - 1] + v[i]
  BY DEF Sums
<1>2. f[1] = f[0] + v[1]
  BY <1>1
<1> QED  BY <1>1, <1>2

LEMMA SumAdds ==
  ASSUME NEW n \in Nat, NEW v, NEW w, NEW t \in Int, Sums(v, n, t), w[n + 1] \in Int,
         \A i \in 1 .. n : w[i] = v[i]
  PROVE  Sums(w, n + 1, t + w[n + 1])
<1>1. PICK f \in [0 .. n -> Int] : f[0] = 0 /\ f[n] = t /\ \A i \in 1 .. n : f[i] = f[i - 1] + v[i]
  BY DEF Sums
<1>2. PICK g : g = [i \in 0 .. n + 1 |-> IF i <= n THEN f[i] ELSE t + w[n + 1]]
  OBVIOUS
<1>3. g \in [0 .. n + 1 -> Int] /\ g[0] = 0 /\ g[n + 1] = t + w[n + 1]
  BY <1>1, <1>2
<1>4. ASSUME NEW i \in 1 .. n + 1 PROVE g[i] = g[i - 1] + w[i]
  <2>1. CASE i = n + 1
    BY <1>1, <1>2, <2>1
  <2>2. CASE i # n + 1
    BY <1>1, <1>2, <2>2
  <2> QED  BY <2>1, <2>2
<1> QED  BY <1>3, <1>4 DEF Sums

LEMMA SumDrops ==
  ASSUME NEW n \in Nat \ {0}, NEW v, NEW w, NEW t \in Int, Sums(v, n, t), NEW k \in 1 .. n,
         \A i \in 1 .. n : v[i] \in Int,
         \A i \in 1 .. n - 1 : w[i] = IF i < k THEN v[i] ELSE v[i + 1]
  PROVE  Sums(w, n - 1, t - v[k])
<1>1. PICK f \in [0 .. n -> Int] : f[0] = 0 /\ f[n] = t /\ \A i \in 1 .. n : f[i] = f[i - 1] + v[i]
  BY DEF Sums
<1>2. PICK g : g = [i \in 0 .. n - 1 |-> IF i < k THEN f[i] ELSE f[i + 1] - v[k]]
  OBVIOUS
<1>3. g \in [0 .. n - 1 -> Int] /\ g[0] = 0 /\ g[n - 1] = t - v[k]
  <2>1. f[k] = f[k - 1] + v[k] /\ f[n] = f[n - 1] + v[n]
    BY <1>1
  <2>2. \A i \in 0 .. n - 1 : g[i] \in Int
    BY SMTT(40), <1>1, <1>2
  <2>3. g[0] = 0
    BY <1>1, <1>2
  <2>4. g[n - 1] = t - v[k]
    BY SMTT(40), <1>1, <1>2, <2>1
  <2> QED  BY <1>2, <2>2, <2>3, <2>4
<1>4. ASSUME NEW i \in 1 .. n - 1 PROVE g[i] = g[i - 1] + w[i]
  <2>1. f[i] = f[i - 1] + v[i] /\ f[i + 1] = f[i] + v[i + 1]
    BY <1>1
  <2>2. f[i - 1] \in Int /\ f[i] \in Int /\ v[i] \in Int /\ v[i + 1] \in Int /\ v[k] \in Int
    BY <1>1
  <2>3. PICK h : h = i - 1
    OBVIOUS
  <2>4. h \in 0 .. n - 1 /\ i \in 0 .. n - 1 /\ h + 1 = i
    BY <2>3
  <2>5. /\ i < k => g[i] = f[i]
        /\ ~(i < k) => g[i] = f[i + 1] - v[k]
    BY <1>2, <2>4
  <2>6. /\ h < k => g[h] = f[h]
        /\ ~(h < k) => g[h] = f[h + 1] - v[k]
    BY <1>2, <2>4
  <2>7. w[i] = IF i < k THEN v[i] ELSE v[i + 1]
    OBVIOUS
  <2>8. f[h + 1] = f[i] /\ f[i] = f[h] + v[i]
    BY <2>1, <2>3, <2>4
  <2>9. f[h] \in Int
    BY <2>4
  <2>10. CASE i < k
    <3>1. g[i] = f[i] /\ g[h] = f[h] /\ w[i] = v[i]
      BY <2>4, <2>5, <2>6, <2>7, <2>10
    <3> QED  BY <2>3, <2>8, <3>1
  <2>11. CASE i = k
    <3>1. g[i] = f[i + 1] - v[k] /\ g[h] = f[h] /\ w[i] = v[i + 1]
      BY <2>4, <2>5, <2>6, <2>7, <2>11
    <3>2. PICK x, y, z : x = f[h] /\ y = v[i] /\ z = v[i + 1]
      OBVIOUS
    <3>3. x \in Int /\ y \in Int /\ z \in Int /\ f[i + 1] = (x + y) + z
      BY <2>1, <2>2, <2>8, <2>9, <3>2
    <3>4. ((x + y) + z) - y = x + z
      BY <3>3
    <3> QED  BY <2>3, <2>11, <3>1, <3>2, <3>3, <3>4
  <2>12. CASE i > k
    <3>1. g[i] = f[i + 1] - v[k] /\ g[h] = f[i] - v[k] /\ w[i] = v[i + 1]
      BY <2>4, <2>5, <2>6, <2>7, <2>8, <2>12
    <3>2. f[i + 1] - v[k] = (f[i] - v[k]) + v[i + 1]
      BY SMTT(40), <2>1, <2>2
    <3> QED  BY <2>3, <3>1, <3>2
  <2> QED  BY <2>10, <2>11, <2>12
<1> QED  BY <1>3, <1>4 DEF Sums

-----------------------------------------------------------------------------
(* Counting *)

\* What a function over a finite set hits has no more members than the set.
LEMMA HitsAreFew ==
  ASSUME NEW D, IsFiniteSet(D), NEW f, f = [x \in D |-> f[x]], NEW E, \A a \in E : \E x \in D : f[x] = a
  PROVE  IsFiniteSet(E) /\ Cardinality(E) <= Cardinality(D)
<1> DEFINE T == {f[x] : x \in D}
<1>1. f \in Surjection(D, T)
  BY DEF Surjection
<1>2. E \subseteq T
  OBVIOUS
<1> HIDE DEF T
<1>3. IsFiniteSet(T) /\ Cardinality(T) <= Cardinality(D)
  BY <1>1, FS_Surjection
<1>4. IsFiniteSet(E) /\ Cardinality(E) <= Cardinality(T)
  BY <1>2, <1>3, FS_Subset
<1>5. Cardinality(E) \in Nat /\ Cardinality(T) \in Nat /\ Cardinality(D) \in Nat
  BY <1>3, <1>4, FS_CardinalityType
<1> QED  BY <1>3, <1>4, <1>5

\* R orders S strictly, and V are those before each member; T has the members with fewer than n
\* before them; T is the beginning of S.
OrderOf(S, R, V) ==
  /\ \A a \in S : <<a, a>> \notin R
  /\ \A a, b, c \in S : <<a, b>> \in R /\ <<b, c>> \in R => <<a, c>> \in R
  /\ \A a, b \in S : a # b => <<a, b>> \in R \/ <<b, a>> \in R
  /\ \A a \in S : \A b : b \in V[a] <=> b \in S /\ <<b, a>> \in R
FewBefore(S, n, V, T) == \A a : a \in T <=> a \in S /\ Cardinality(V[a]) < n
BeginningOf(S, n, R, T) ==
  /\ T \subseteq S /\ IsFiniteSet(T) /\ Cardinality(T) <= n
  /\ T # S => n <= Cardinality(T)
  /\ \A a \in T, b \in S : <<b, a>> \in R => b \in T

\* The first n of a finite set in some order are at most n, fewer only when they are all.
LEMMA FirstInOrder ==
  ASSUME NEW S, IsFiniteSet(S), NEW n \in Nat, NEW R, NEW V, OrderOf(S, R, V), NEW T, FewBefore(S, n, V, T)
  PROVE  BeginningOf(S, n, R, T)
<1>0. /\ \A a \in S : <<a, a>> \notin R
      /\ \A a, b, c \in S : <<a, b>> \in R /\ <<b, c>> \in R => <<a, c>> \in R
      /\ \A a, b \in S : a # b => <<a, b>> \in R \/ <<b, a>> \in R
      /\ \A a \in S : \A b : b \in V[a] <=> b \in S /\ <<b, a>> \in R
  BY DEF OrderOf
<1> DEFINE Under(a) == V[a]
           rank == [a \in S |-> Cardinality(Under(a))]
<1>1. \A a \in S : Under(a) \subseteq S /\ a \notin Under(a) /\ \A b \in S : b \in Under(a) <=> <<b, a>> \in R
  BY ONLY <1>0
<1>2. \A a \in T : a \in S /\ rank[a] < n
  BY DEF FewBefore
<1>3. \A a \in S : rank[a] < n => a \in T
  BY DEF FewBefore
<1>4. \A a \in S : rank[a] = Cardinality(Under(a))
  OBVIOUS
<1>5. rank = [a \in S |-> rank[a]]
  OBVIOUS
<1> HIDE DEF Under, rank
<1>6. \A a \in S : IsFiniteSet(Under(a)) /\ rank[a] \in Nat
  <2> SUFFICES ASSUME NEW a \in S PROVE IsFiniteSet(Under(a)) /\ rank[a] \in Nat
    OBVIOUS
  <2>1. IsFiniteSet(Under(a))
    BY <1>1, FS_Subset
  <2> QED  BY <1>4, <2>1, FS_CardinalityType
\* Who comes before another one has the smaller rank.
<1>7. ASSUME NEW a \in S, NEW b \in S, <<b, a>> \in R PROVE rank[b] < rank[a]
  <2>1. Under(b) \cup {b} \subseteq Under(a)
    BY ZenonT(60), <1>0, <1>1, <1>7
  <2>2. Cardinality(Under(b) \cup {b}) = Cardinality(Under(b)) + 1
    BY <1>1, <1>6, FS_AddElement
  <2>3. Cardinality(Under(b) \cup {b}) <= Cardinality(Under(a))
    BY <1>6, <2>1, FS_Subset
  <2> QED  BY <1>4, <1>6, <2>2, <2>3
<1>8. T \subseteq S /\ IsFiniteSet(T) /\ Cardinality(T) \in Nat
  <2>1. T \subseteq S
    BY <1>2
  <2>2. IsFiniteSet(T)
    BY <2>1, FS_Subset
  <2> QED  BY <2>1, <2>2, FS_CardinalityType
<1>9. ASSUME NEW a \in T, NEW b \in S, <<b, a>> \in R PROVE b \in T
  <2>1. rank[b] < rank[a] /\ rank[a] < n /\ rank[a] \in Nat /\ rank[b] \in Nat
    BY <1>2, <1>6, <1>7, <1>9
  <2> QED  BY <1>3, <2>1
<1>10. Cardinality(T) <= n
  <2>1. CASE T = {}
    <3>1. Cardinality(T) = 0
      BY <2>1, FS_EmptySet
    <3> QED  BY <3>1
  <2>2. CASE T # {}
    <3>1. PICK f : f = [a \in T |-> rank[a]]
      OBVIOUS
    <3>2. PICK H : H = {f[a] : a \in T}
      OBVIOUS
    <3>0. f = [a \in T |-> f[a]]
      BY <3>1
    <3>3. IsFiniteSet(H)
      <4>1. \A v \in H : \E a \in T : f[a] = v
        BY ONLY <3>2
      <4>2. IsFiniteSet(T)
        BY <1>8
      <4> QED  BY ONLY <3>0, <4>1, <4>2, HitsAreFew
    <3>4. H \in SUBSET Int /\ H # {}
      <4>1. \A a \in T : f[a] \in Int
        BY <1>2, <1>6, <3>1
      <4>2. \A v \in H : v \in Int
        BY ONLY <3>2, <4>1
      <4>3. H # {}
        BY ONLY <2>2, <3>2
      <4> QED  BY <4>2, <4>3
    <3>5. PICK v \in H : \A y \in H : y <= v
      BY <3>3, <3>4, FiniteHasGreatest
    <3>6. PICK m \in T : v = rank[m]
      BY <3>1, <3>2, <3>5
    <3>7. \A b \in T : rank[b] <= rank[m]
      BY <3>1, <3>2, <3>5, <3>6
    <3>8. \A b \in T : b # m => b \in Under(m)
      <4> SUFFICES ASSUME NEW b \in T, b # m PROVE <<b, m>> \in R
        BY <1>1, <1>2
      <4>1. <<m, b>> \in R => rank[m] < rank[b]
        BY <1>2, <1>7
      <4>2. rank[b] <= rank[m] /\ rank[b] \in Nat /\ rank[m] \in Nat /\ b \in S /\ m \in S
        BY <1>2, <1>6, <3>7
      <4> QED  BY <4>1, <4>2, <1>0
    <3>9. T \subseteq Under(m) \cup {m}
      BY <3>8
    <3>10. IsFiniteSet(Under(m) \cup {m}) /\ Cardinality(Under(m) \cup {m}) = rank[m] + 1
      BY <1>1, <1>2, <1>4, <1>6, FS_AddElement
    <3>11. Cardinality(T) <= rank[m] + 1
      <4>1. Cardinality(T) <= Cardinality(Under(m) \cup {m})
        BY <3>9, <3>10, FS_Subset
      <4> QED  BY <3>10, <4>1
    <3>12. rank[m] \in Nat /\ rank[m] < n
      BY <1>2, <1>6
    <3> QED  BY <1>8, <3>11, <3>12
  <2> QED  BY <2>1, <2>2
<1>11. ASSUME T # S PROVE n <= Cardinality(T)
  <2>1. PICK f : f = [a \in S \ T |-> rank[a]]
    OBVIOUS
  <2>2. PICK H : H = {f[a] : a \in S \ T}
    OBVIOUS
  <2>3. H \in SUBSET Nat /\ H # {}
    <3>1. \A a \in S \ T : f[a] \in Nat
      BY <1>6, <2>1
    <3>2. \A v \in H : v \in Nat
      BY ONLY <2>2, <3>1
    <3>3. H # {}
      <4>1. S \ T # {}
        BY ONLY <1>8, <1>11
      <4> QED  BY ONLY <2>2, <4>1
    <3> QED  BY <3>2, <3>3
  <2>4. PICK v \in H : \A y \in H : v <= y
    BY <2>3, NatHasLeast
  <2>5. PICK m \in S \ T : v = rank[m]
    BY <2>1, <2>2, <2>4
  <2>6. \A b \in S \ T : rank[m] <= rank[b]
    BY <2>1, <2>2, <2>4, <2>5
  <2>7. Under(m) \subseteq T
    <3> SUFFICES ASSUME NEW b \in Under(m), b \notin T PROVE FALSE
      OBVIOUS
    <3>1. b \in S /\ <<b, m>> \in R
      BY <1>1
    <3>2. rank[b] < rank[m] /\ rank[m] <= rank[b] /\ rank[m] \in Nat /\ rank[b] \in Nat
      BY <1>6, <1>7, <2>6, <3>1
    <3> QED  BY <3>2
  <2>8. rank[m] <= Cardinality(T) /\ rank[m] \in Nat
    <3>1. Cardinality(Under(m)) <= Cardinality(T)
      BY <1>8, <2>7, FS_Subset
    <3> QED  BY <1>4, <1>6, <3>1
  <2>9. ~(rank[m] < n)
    BY <1>3
  <2> QED  BY <1>8, <2>8, <2>9
<1> QED  BY <1>8, <1>9, <1>10, <1>11 DEF BeginningOf

\* If n activities were handed on and none is older than the n newest ones were, the new ones
\* have taken the places of the missing ones.
LEMMA InWindow ==
  ASSUME NEW n \in Nat, NEW old \in Nat, NEW now \in Nat, old <= now,
         NEW K, K \subseteq 1 .. now, Cardinality(K) = n, \A x \in K : x <= old => old - n < x,
         NEW W, \A a \in W : a \in 1 .. old /\ old - n < a /\ a \notin K
  PROVE  IsFiniteSet(W) /\ Cardinality(W) <= now - old
<1>1. PICK K0, K1 : K0 = {x \in K : x <= old} /\ K1 = {x \in K : ~(x <= old)}
  OBVIOUS
<1>2. PICK I : I = (old + 1) .. now
  OBVIOUS
<1>3. IsFiniteSet(I) /\ Cardinality(I) = now - old
  <2>1. PICK lo : lo = old + 1
    OBVIOUS
  <2>2. lo \in Int /\ now \in Int
    BY <2>1
  <2>3. IsFiniteSet(lo .. now) /\ Cardinality(lo .. now) = IF lo > now THEN 0 ELSE now - lo + 1
    BY <2>2, FS_Interval
  <2> QED  BY <1>2, <2>1, <2>3
<1>4. IsFiniteSet(K)
  <2>1. IsFiniteSet(1 .. now)
    BY FS_Interval
  <2> QED  BY <2>1, FS_Subset
<1>5. IsFiniteSet(K0) /\ IsFiniteSet(K1) /\ Cardinality(K0) \in Nat /\ Cardinality(K1) \in Nat
  <2>1. K0 \subseteq K /\ K1 \subseteq K
    BY <1>1
  <2>2. IsFiniteSet(K0) /\ IsFiniteSet(K1)
    BY <1>4, <2>1, FS_Subset
  <2> QED  BY <2>2, FS_CardinalityType
<1>6. Cardinality(K1) <= now - old
  <2>1. \A x \in K1 : x \in 1 .. now /\ ~(x <= old)
    BY <1>1
  <2>0. \A x \in 1 .. now : ~(x <= old) => x \in I
    BY <1>2
  <2>2. K1 \subseteq I
    BY ONLY <2>0, <2>1
  <2> QED  BY <1>3, <2>2, FS_Subset
<1>7. n = Cardinality(K0) + Cardinality(K1)
  <2>1. K = K0 \cup K1 /\ K0 \cap K1 = {}
    BY <1>1
  <2>2. Cardinality(K0 \cup K1) = Cardinality(K0) + Cardinality(K1) - Cardinality(K0 \cap K1)
    BY <1>5, FS_Union
  <2>3. Cardinality(K0 \cap K1) = 0
    BY <2>1, FS_EmptySet
  <2> QED  BY <1>5, <2>1, <2>2, <2>3
<1>8. PICK J : J = (old - n + 1) .. old
  OBVIOUS
<1>9. IsFiniteSet(J) /\ Cardinality(J) = n
  <2>1. PICK lo : lo = old - n + 1
    OBVIOUS
  <2>2. lo \in Int /\ old \in Int
    BY <2>1
  <2>3. IsFiniteSet(lo .. old) /\ Cardinality(lo .. old) = IF lo > old THEN 0 ELSE old - lo + 1
    BY <2>2, FS_Interval
  <2> QED  BY <1>8, <2>1, <2>3
<1>10. W \subseteq J /\ K0 \subseteq J /\ W \cap K0 = {}
  <2>1. \A x \in 1 .. old : old - n < x => x \in J
    BY <1>8
  <2>2. \A x \in K0 : x \in K /\ x \in 1 .. old /\ old - n < x
    BY <1>1
  <2> QED  BY ONLY <2>1, <2>2, \A a \in W : a \in 1 .. old /\ old - n < a /\ a \notin K
<1>11. IsFiniteSet(W) /\ Cardinality(W) \in Nat
  <2>1. IsFiniteSet(W)
    BY <1>9, <1>10, FS_Subset
  <2> QED  BY <2>1, FS_CardinalityType
<1>12. Cardinality(W) + Cardinality(K0) <= n
  <2>1. Cardinality(W \cup K0) = Cardinality(W) + Cardinality(K0) - Cardinality(W \cap K0)
    BY <1>5, <1>11, FS_Union
  <2>2. Cardinality(W \cap K0) = 0
    BY <1>10, FS_EmptySet
  <2>3. Cardinality(W \cup K0) <= Cardinality(J)
    <3>1. W \cup K0 \subseteq J
      BY <1>10
    <3> QED  BY <1>9, <3>1, FS_Subset
  <2> QED  BY <1>5, <1>9, <1>11, <2>1, <2>2, <2>3
<1> QED  BY <1>5, <1>6, <1>7, <1>11, <1>12

\* Activities that were pushed behind the last page.
LEMMA TailIsFew ==
  ASSUME NEW n \in Nat, NEW x \in Nat, n <= x, NEW lo \in Nat, NEW hi \in Nat, lo <= hi,
         NEW W, \A a \in W : a \in Nat /\ lo - n < a /\ a <= hi - x
  PROVE  IsFiniteSet(W) /\ Cardinality(W) <= hi - lo
<1>1. PICK b, c : b = lo - x + 1 /\ c = hi - x
  OBVIOUS
<1>2. b \in Int /\ c \in Int /\ c - b + 1 = hi - lo
  BY <1>1
<1>3. IsFiniteSet(b .. c) /\ Cardinality(b .. c) = IF b > c THEN 0 ELSE c - b + 1
  BY <1>2, FS_Interval
<1>4. W \subseteq b .. c
  BY <1>1, <1>2
<1>5. IsFiniteSet(W) /\ Cardinality(W) <= Cardinality(b .. c)
  BY <1>3, <1>4, FS_Subset
<1> QED  BY <1>1, <1>2, <1>3, <1>5

-----------------------------------------------------------------------------
(* Products *)

LEMMA TimesGrows ==
  ASSUME NEW a \in Nat, NEW b \in Nat, NEW c \in Nat, a <= b
  PROVE  a * c \in Nat /\ b * c \in Nat /\ a * c <= b * c /\ c * a \in Nat /\ c * b \in Nat /\ c * a <= c * b
<1>1. PICK e \in Nat : b = a + e
  <2>1. b - a \in Nat /\ b = a + (b - a)
    OBVIOUS
  <2> QED  BY <2>1
<1>2. (a + e) * c = a * c + e * c /\ a * c \in Nat /\ e * c \in Nat
  OBVIOUS
<1>3. a * c <= b * c /\ b * c \in Nat
  BY <1>1, <1>2
<1>4. a * c = c * a /\ b * c = c * b
  OBVIOUS
<1> QED  BY <1>2, <1>3, <1>4

\* Where the pages of a batch begin.
LEMMA Offsets ==
  ASSUME NEW s \in Nat
  PROVE  \E o : /\ \A i \in Int : o[i] \in Int /\ o[i] = i * s
                /\ \A i \in Int : o[i - 1] = o[i] - s /\ (i - 1) * s = o[i] - s
                /\ \A i, j \in Int : i <= j => o[i] <= o[j]
                /\ o[0] = 0
<1>1. PICK o : o = [i \in Int |-> i * s]
  OBVIOUS
<1>2. \A i \in Int : o[i] \in Int /\ o[i] = i * s
  BY <1>1
<1>3. \A i \in Int : o[i - 1] = o[i] - s /\ (i - 1) * s = o[i] - s
  <2> SUFFICES ASSUME NEW i \in Int PROVE o[i - 1] = o[i] - s /\ (i - 1) * s = o[i] - s
    OBVIOUS
  <2>1. (i - 1) * s = i * s - s /\ i - 1 \in Int
    OBVIOUS
  <2> QED  BY <1>2, <2>1
<1>4. ASSUME NEW i \in Int, NEW j \in Int, i <= j PROVE o[i] <= o[j]
  <2>1. PICK e \in Nat : j = i + e
    <3>1. j - i \in Nat /\ j = i + (j - i)
      BY <1>4
    <3> QED  BY <3>1
  <2>2. (i + e) * s = i * s + e * s /\ e * s \in Nat /\ i * s \in Int
    OBVIOUS
  <2> QED  BY <1>2, <2>1, <2>2
<1>5. o[0] = 0
  BY <1>2
<1> QED  BY <1>2, <1>3, <1>4, <1>5

LEMMA BoundsGrow ==
  ASSUME NEW d \in Nat, NEW p \in Nat \ {0}
  PROVE  d * (p - 1) + d = d * p /\ d * (p - 1) \in Nat /\ d * p \in Nat /\ d <= d * p /\ d * (p - 1) <= d * p
<1>1. PICK e \in Nat : p = e + 1 /\ p - 1 = e
  <2>1. p - 1 \in Nat /\ p = (p - 1) + 1
    OBVIOUS
  <2> QED  BY <2>1
<1>2. d * (e + 1) = d * e + d
  OBVIOUS
<1>3. d * e \in Nat
  BY e \in Nat
<1>4. d * p = d * e + d
  BY <1>1, <1>2
<1> QED  BY <1>1, <1>3, <1>4
=============================================================================
