---------------------- MODULE RegistryStatisticsProofs ----------------------
(***************************************************************************)
(* Proofs about RegistryStatistics.tla for any tools, posts, fetches,      *)
(* filters, latencies, earlier rows and faults.                            *)
(***************************************************************************)
EXTENDS RegistryStatistics, FiniteSetTheorems, FunctionTheorems, SequenceTheorems,
        WellFoundedInduction, TLAPS

----------------------------------------------------------------------------
(* percentile_linear_sorted *)

Sorted(s) == \A i, j \in 1 .. Len(s) : i <= j => s[i] <= s[j]

\* The rank of a percentile in a series of n latencies, whole part and twentieths
Lo(n, num) == ((n - 1) * num) \div 20
Frac(n, num) == ((n - 1) * num) % 20

\* The two neighbours of a rank are inside the series.
LEMMA RankInside ==
  ASSUME NEW n \in Nat, n > 1, NEW num \in 0 .. 20
  PROVE  /\ Lo(n, num) \in 0 .. n - 1
         /\ Frac(n, num) \in 0 .. 19
         /\ (n - 1) * num = 20 * Lo(n, num) + Frac(n, num)
         /\ Frac(n, num) # 0 => Lo(n, num) <= n - 2
<1> DEFINE rank == (n - 1) * num
<1>1. rank \in Nat /\ rank <= (n - 1) * 20
  OBVIOUS
<1> HIDE DEF rank
<1>2. /\ rank \div 20 \in Nat /\ rank % 20 \in 0 .. 19
      /\ rank = 20 * (rank \div 20) + (rank % 20)
  BY <1>1
<1>3. rank \div 20 <= n - 1 /\ (rank % 20 # 0 => rank \div 20 <= n - 2)
  BY <1>1, <1>2
<1>4. QED
  BY <1>2, <1>3 DEF rank, Lo, Frac

\* A point between two neighbours lies between them.
LEMMA Between ==
  ASSUME NEW a \in Nat, NEW b \in Nat, a <= b, NEW frac \in 0 .. 20
  PROVE  /\ a * (20 - frac) + b * frac \in Nat
         /\ a * (20 - frac) + b * frac = 20 * a + (b - a) * frac
         /\ 20 * a <= a * (20 - frac) + b * frac
         /\ a * (20 - frac) + b * frac <= 20 * b
<1>1. PICK d \in Nat : b = a + d
  <2>1. b - a \in Nat /\ b = a + (b - a)
    OBVIOUS
  <2>2. QED
    BY <2>1
<1>2. a * (20 - frac) + b * frac = 20 * a + d * frac
  BY <1>1
<1>3. d * frac \in Nat /\ d * frac <= 20 * d
  OBVIOUS
<1>4. QED
  BY <1>1, <1>2, <1>3

\* ... and moves towards the greater one as its share grows.
LEMMA Slope ==
  ASSUME NEW a \in Nat, NEW b \in Nat, a <= b,
         NEW f \in 0 .. 20, NEW g \in 0 .. 20, f <= g
  PROVE  a * (20 - f) + b * f <= a * (20 - g) + b * g
<1>1. PICK d \in Nat : b = a + d
  <2>1. b - a \in Nat /\ b = a + (b - a)
    OBVIOUS
  <2>2. QED
    BY <2>1
<1>2. /\ a * (20 - f) + b * f = 20 * a + d * f
      /\ a * (20 - g) + b * g = 20 * a + d * g
  BY <1>1
<1>3. d * f <= d * g /\ d * f \in Nat /\ d * g \in Nat
  OBVIOUS
<1>4. QED
  BY <1>2, <1>3

LEMMA Chain ==
  ASSUME NEW x \in Nat, NEW a \in Nat, NEW b \in Nat, NEW y \in Nat,
         x = 20 * a \/ x <= 20 * a, a <= b, 20 * b <= y
  PROVE  x <= y
OBVIOUS

LEMMA Scaled ==
  ASSUME NEW a \in Nat, NEW b \in Nat, NEW y \in Nat, a <= b
  PROVE  /\ 20 * b <= y => 20 * a <= y
         /\ y <= 20 * a => y <= 20 * b
         /\ y = 20 * a => y <= 20 * b
OBVIOUS

LEMMA LengthCases ==
  ASSUME NEW s \in Seq(Nat)
  PROVE  s = <<>> \/ Len(s) = 1 \/ Len(s) > 1
<1>1. s # <<>> => Len(s) \in Nat \ {0}
  BY EmptySeq, Zenon
<1>2. \A n \in Nat \ {0} : n = 1 \/ n > 1
  OBVIOUS
<1>3. QED
  BY <1>1, <1>2, Zenon

\* Two entries at least: not the two special cases of the code.
LEMMA Longer ==
  ASSUME NEW s \in Seq(Nat), Len(s) > 1
  PROVE  s # <<>> /\ Len(s) # 1
<1>1. Len(<<>>) = 0 /\ ~ (0 > 1) /\ ~ (1 > 1)
  OBVIOUS
<1>2. QED
  BY <1>1, Zenon

LEMMA PercentileValue ==
  ASSUME NEW s \in Seq(Nat), Len(s) > 1, NEW num \in 0 .. 20
  PROVE  Percentile(s, num) =
           IF Frac(Len(s), num) = 0
             THEN 20 * s[Lo(Len(s), num) + 1]
             ELSE s[Lo(Len(s), num) + 1] * (20 - Frac(Len(s), num))
                  + s[Lo(Len(s), num) + 2] * Frac(Len(s), num)
<1>1. s # <<>> /\ Len(s) # 1
  BY Longer
<1> DEFINE n == Len(s)
           rank == (n - 1) * num
<1>2. Percentile(s, num) =
        IF rank % 20 = 0 THEN 20 * s[(rank \div 20) + 1]
        ELSE s[(rank \div 20) + 1] * (20 - (rank % 20)) + s[(rank \div 20) + 2] * (rank % 20)
  <2>1. CASE rank % 20 = 0
    BY <1>1, <2>1, Zenon DEF Percentile
  <2>2. CASE rank % 20 # 0
    BY <1>1, <2>2, Zenon DEF Percentile
  <2>3. QED
    BY <2>1, <2>2, Zenon
<1>3. QED
  BY <1>2, Zenon DEF Lo, Frac

\* The percentile of a sorted series lies between the neighbours of its rank.
LEMMA PercentileBetween ==
  ASSUME NEW s \in Seq(Nat), Sorted(s), Len(s) > 1, NEW num \in 0 .. 20
  PROVE  LET lo == Lo(Len(s), num)
             frac == Frac(Len(s), num)
         IN  /\ lo + 1 \in 1 .. Len(s) /\ s[lo + 1] \in Nat
             /\ Percentile(s, num) \in Nat
             /\ frac = 0 => Percentile(s, num) = 20 * s[lo + 1]
             /\ frac # 0 => /\ lo + 2 \in 1 .. Len(s) /\ s[lo + 2] \in Nat
                            /\ s[lo + 1] <= s[lo + 2]
                            /\ Percentile(s, num) <= 20 * s[lo + 2]
             /\ 20 * s[lo + 1] <= Percentile(s, num)
<1> DEFINE lo == Lo(Len(s), num)
           frac == Frac(Len(s), num)
<1>1. Len(s) \in Nat /\ \A i \in 1 .. Len(s) : s[i] \in Nat
  OBVIOUS
<1>2. /\ lo \in 0 .. Len(s) - 1 /\ frac \in 0 .. 19
      /\ frac # 0 => lo <= Len(s) - 2
  BY <1>1, RankInside
<1>3. Percentile(s, num) = IF frac = 0 THEN 20 * s[lo + 1]
                           ELSE s[lo + 1] * (20 - frac) + s[lo + 2] * frac
  BY PercentileValue
<1> HIDE DEF lo, frac
<1>4. lo + 1 \in 1 .. Len(s) /\ s[lo + 1] \in Nat
  BY <1>1, <1>2
<1>5. CASE frac = 0
  <2>1. Percentile(s, num) = 20 * s[lo + 1]
    BY <1>3, <1>5, Zenon
  <2>2. QED
    BY <1>4, <1>5, <2>1 DEF lo, frac
<1>6. CASE frac # 0
  <2>1. lo + 2 \in 1 .. Len(s) /\ s[lo + 2] \in Nat
    BY <1>1, <1>2, <1>6
  <2>2. s[lo + 1] <= s[lo + 2]
    <3>1. lo + 1 <= lo + 2
      BY <1>2
    <3>2. QED
      BY <1>4, <2>1, <3>1 DEF Sorted
  <2>3. frac \in 0 .. 20
    BY <1>2
  <2>4. Percentile(s, num) = s[lo + 1] * (20 - frac) + s[lo + 2] * frac
    BY <1>3, <1>6, Zenon
  <2>5. /\ Percentile(s, num) \in Nat
        /\ 20 * s[lo + 1] <= Percentile(s, num)
        /\ Percentile(s, num) <= 20 * s[lo + 2]
    BY <1>4, <2>1, <2>2, <2>3, <2>4, Between, ZenonT(30)
  <2>6. QED
    BY <1>4, <1>6, <2>1, <2>2, <2>5, Zenon DEF lo, frac
<1>7. QED
  BY <1>5, <1>6

\* Every percentile of a sorted series lies between its least and its greatest
\* latency (stats_percentiles.py:8), and the percentile of no latencies is 0.
THEOREM PercentileInRange ==
  ASSUME NEW s \in Seq(Nat), Sorted(s), NEW num \in 0 .. 20
  PROVE  /\ Percentile(s, num) \in Nat
         /\ s = <<>> => Percentile(s, num) = 0
         /\ s # <<>> => /\ 20 * s[1] <= Percentile(s, num)
                        /\ Percentile(s, num) <= 20 * s[Len(s)]
<1>1. CASE s = <<>>
  BY <1>1 DEF Percentile
<1>2. CASE Len(s) = 1
  <2>1. s # <<>> /\ s[1] \in Nat
    BY <1>2
  <2>2. Percentile(s, num) = 20 * s[1]
    BY <1>2, <2>1 DEF Percentile
  <2>3. QED
    BY <1>2, <2>1, <2>2
<1>3. CASE Len(s) > 1
  <2> DEFINE lo == Lo(Len(s), num)
             frac == Frac(Len(s), num)
  <2>1. /\ lo + 1 \in 1 .. Len(s) /\ s[lo + 1] \in Nat /\ Percentile(s, num) \in Nat
        /\ frac = 0 => Percentile(s, num) = 20 * s[lo + 1]
        /\ frac # 0 => /\ lo + 2 \in 1 .. Len(s) /\ s[lo + 2] \in Nat
                       /\ Percentile(s, num) <= 20 * s[lo + 2]
        /\ 20 * s[lo + 1] <= Percentile(s, num)
    BY <1>3, PercentileBetween, Zenon
  <2> HIDE DEF lo, frac
  <2>2. /\ s[1] \in Nat /\ s[Len(s)] \in Nat
        /\ \A i \in 1 .. Len(s) : s[1] <= s[i] /\ s[i] <= s[Len(s)]
    BY <1>3 DEF Sorted
  <2>3. s # <<>>
    BY <1>3
  <2>4. 20 * s[1] <= Percentile(s, num)
    BY <2>1, <2>2, Scaled, Zenon
  <2>5. Percentile(s, num) <= 20 * s[Len(s)]
    <3>1. CASE frac = 0
      BY <2>1, <2>2, <3>1, Scaled, Zenon
    <3>2. CASE frac # 0
      <4>1. /\ s[lo + 2] \in Nat /\ Percentile(s, num) <= 20 * s[lo + 2]
            /\ s[lo + 2] <= s[Len(s)]
        BY <2>1, <2>2, <3>2, Zenon
      <4>2. QED
        BY <2>1, <2>2, <4>1, Scaled, Zenon
    <3>3. QED
      BY <3>1, <3>2
  <2>6. QED
    BY <2>1, <2>3, <2>4, <2>5
<1>4. QED
  BY <1>1, <1>2, <1>3, LengthCases

\* A higher percentile is never smaller: the p95 a page shows is at least its p50.
THEOREM PercentilesOrdered ==
  ASSUME NEW s \in Seq(Nat), Sorted(s), NEW p \in 0 .. 20, NEW q \in 0 .. 20, p <= q
  PROVE  Percentile(s, p) <= Percentile(s, q)
<1>1. CASE s = <<>>
  BY <1>1 DEF Percentile
<1>2. CASE Len(s) = 1
  <2>1. s # <<>> /\ s[1] \in Nat
    BY <1>2
  <2>2. Percentile(s, p) = 20 * s[1] /\ Percentile(s, q) = 20 * s[1]
    BY <1>2, <2>1 DEF Percentile
  <2>3. QED
    BY <2>1, <2>2
<1>3. CASE Len(s) > 1
  <2> DEFINE lp == Lo(Len(s), p)
             fp == Frac(Len(s), p)
             lq == Lo(Len(s), q)
             fq == Frac(Len(s), q)
  <2>1. /\ lp + 1 \in 1 .. Len(s) /\ s[lp + 1] \in Nat /\ Percentile(s, p) \in Nat
        /\ fp = 0 => Percentile(s, p) = 20 * s[lp + 1]
        /\ fp # 0 => /\ lp + 2 \in 1 .. Len(s) /\ s[lp + 2] \in Nat
                     /\ s[lp + 1] <= s[lp + 2]
                     /\ Percentile(s, p) <= 20 * s[lp + 2]
    BY <1>3, PercentileBetween, Zenon
  <2>2. /\ lq + 1 \in 1 .. Len(s) /\ s[lq + 1] \in Nat /\ Percentile(s, q) \in Nat
        /\ 20 * s[lq + 1] <= Percentile(s, q)
    BY <1>3, PercentileBetween, Zenon
  <2>3. /\ lp \in Nat /\ lq \in Nat /\ fp \in 0 .. 19 /\ fq \in 0 .. 19
        /\ 20 * lp + fp <= 20 * lq + fq
    <3>1. Len(s) \in Nat
      OBVIOUS
    <3>2. (Len(s) - 1) * p <= (Len(s) - 1) * q
      BY <1>3, <3>1
    <3>3. /\ lp \in 0 .. Len(s) - 1 /\ fp \in 0 .. 19 /\ (Len(s) - 1) * p = 20 * lp + fp
          /\ lq \in 0 .. Len(s) - 1 /\ fq \in 0 .. 19 /\ (Len(s) - 1) * q = 20 * lq + fq
      BY <1>3, <3>1, RankInside, Zenon
    <3> HIDE DEF lp, fp, lq, fq
    <3>4. QED
      BY <3>1, <3>2, <3>3
  <2>4. CASE fp = 0
    <3> HIDE DEF lp, fp, lq, fq
    <3>1. lp + 1 <= lq + 1
      BY <2>3, <2>4
    <3>2. s[lp + 1] <= s[lq + 1]
      BY <2>1, <2>2, <3>1 DEF Sorted
    <3>3. QED
      BY <2>1, <2>2, <2>4, <3>2, Chain, Zenon
  <2>5. CASE fp # 0 /\ lp = lq
    <3>1. fp <= fq /\ fq # 0 /\ fq \in 0 .. 20 /\ fp \in 0 .. 20
      <4> HIDE DEF lp, fp, lq, fq
      <4>1. QED
        BY <2>3, <2>5
    <3>2. /\ Percentile(s, p) = s[lq + 1] * (20 - fp) + s[lq + 2] * fp
          /\ Percentile(s, q) = s[lq + 1] * (20 - fq) + s[lq + 2] * fq
      BY <1>3, <2>5, <3>1, PercentileValue, Zenon
    <3> HIDE DEF lp, fp, lq, fq
    <3>3. s[lq + 1] \in Nat /\ s[lq + 2] \in Nat /\ s[lq + 1] <= s[lq + 2]
      BY <2>1, <2>5
    <3>4. QED
      BY <3>1, <3>2, <3>3, Slope, Zenon
  <2>6. CASE fp # 0 /\ lp # lq
    <3> HIDE DEF lp, fp, lq, fq
    <3>1. lp + 2 <= lq + 1
      BY <2>3, <2>6
    <3>2. s[lp + 2] \in Nat /\ s[lp + 2] <= s[lq + 1]
      BY <2>1, <2>2, <2>6, <3>1 DEF Sorted
    <3>3. Percentile(s, p) <= 20 * s[lp + 2]
      BY <2>1, <2>6, Zenon
    <3>4. QED
      BY <2>1, <2>2, <3>2, <3>3, Chain, Zenon
  <2>7. QED
    BY <2>4, <2>5, <2>6
<1>4. QED
  BY <1>1, <1>2, <1>3, LengthCases

----------------------------------------------------------------------------
(* ORDER BY latency_ms *)

LEMMA Least ==
  ASSUME NEW T, T \subseteq Nat, T # {}
  PROVE  \E x \in T : \A y \in T : x <= y
<1> DEFINE R == OpToRel(<, Nat)
<1>1. IsWellFoundedOn(R, Nat)
  BY NatLessThanWellFounded
<1>2. \A x, y \in Nat : <<x, y>> \in R <=> x < y
  BY DEF OpToRel
<1> HIDE DEF R
<1>3. PICK x \in T : \A y \in T : ~ (<<y, x>> \in R)
  BY <1>1, WFMin
<1>4. ASSUME NEW y \in T
      PROVE  x <= y
  <2>1. x \in Nat /\ y \in Nat
    OBVIOUS
  <2>2. ~ (y < x)
    BY <1>2, <1>3, <2>1
  <2>3. QED
    BY <2>1, <2>2
<1>5. QED
  BY <1>4

Timed(rows) == IsFiniteSet(rows) /\ \A r \in rows : r.latency \in Nat

\* Some row is the fastest.
LEMMA Fastest ==
  ASSUME NEW rows, Timed(rows), rows # {}
  PROVE  \E m \in rows : \A r \in rows : m.latency <= r.latency
<1> DEFINE T == {r.latency : r \in rows}
<1>1. T \subseteq Nat /\ T # {}
  BY DEF Timed
<1>2. PICK x \in T : \A y \in T : x <= y
  BY <1>1, Least
<1>3. PICK m \in rows : x = m.latency
  BY <1>2
<1>4. QED
  BY <1>2, <1>3

\* What it means to be an order of n rows
IsOrder(o, rows, n) ==
  /\ o \in [1 .. n -> rows]
  /\ \A i, j \in 1 .. n : o[i] = o[j] => i = j
  /\ \A r \in rows : \E i \in 1 .. n : o[i] = r
  /\ \A i, j \in 1 .. n : i <= j => o[i].latency <= o[j].latency

LEMMA AscendingMeans ==
  ASSUME NEW rows, NEW o
  PROVE  o \in Ascending(rows) <=> IsOrder(o, rows, Cardinality(rows))
<1> DEFINE n == Cardinality(rows)
<1>1. ASSUME o \in Bijection(1 .. n, rows)
      PROVE  /\ o \in [1 .. n -> rows]
             /\ \A i, j \in 1 .. n : o[i] = o[j] => i = j
             /\ \A r \in rows : \E i \in 1 .. n : o[i] = r
  BY <1>1, Fun_IsBij DEF Bijection, Injection, Surjection, IsInjective
<1>2. ASSUME /\ o \in [1 .. n -> rows]
             /\ \A i, j \in 1 .. n : o[i] = o[j] => i = j
             /\ \A r \in rows : \E i \in 1 .. n : o[i] = r
      PROVE  o \in Bijection(1 .. n, rows)
  BY <1>2, Fun_IsBij
<1>3. o \in [1 .. n -> rows] => DOMAIN o = 1 .. n
  OBVIOUS
<1>4. QED
  BY <1>1, <1>2, <1>3, Zenon DEF Ascending, IsOrder

\* The fastest row, then the others in their order, is an order of all.
LEMMA FastestFirst ==
  ASSUME NEW rows, Timed(rows), NEW m \in rows, \A r \in rows : m.latency <= r.latency,
         NEW n \in Nat, n + 1 = Cardinality(rows), n = Cardinality(rows \ {m}),
         NEW o \in Ascending(rows \ {m})
  PROVE  [i \in 1 .. n + 1 |-> IF i = 1 THEN m ELSE o[i - 1]] \in Ascending(rows)
<1> DEFINE p == [i \in 1 .. n + 1 |-> IF i = 1 THEN m ELSE o[i - 1]]
<1>1. /\ o \in [1 .. n -> rows \ {m}]
      /\ \A i, j \in 1 .. n : o[i] = o[j] => i = j
      /\ \A r \in rows \ {m} : \E i \in 1 .. n : o[i] = r
      /\ \A i, j \in 1 .. n : i <= j => o[i].latency <= o[j].latency
  <2>1. IsOrder(o, rows \ {m}, Cardinality(rows \ {m}))
    BY AscendingMeans
  <2>2. IsOrder(o, rows \ {m}, n)
    BY <2>1
  <2>3. QED
    BY <2>2 DEF IsOrder
<1>2. \A i \in 1 .. n + 1 : i = 1 \/ i - 1 \in 1 .. n
  OBVIOUS
<1>3. /\ 1 \in 1 .. n + 1 /\ p[1] = m
      /\ \A i \in 1 .. n : i + 1 \in 1 .. n + 1 /\ p[i + 1] = o[i]
  <2>1. 1 \in 1 .. n + 1
    OBVIOUS
  <2>2. \A i \in 1 .. n : i + 1 \in 1 .. n + 1 /\ i + 1 # 1 /\ (i + 1) - 1 = i
    OBVIOUS
  <2>3. QED
    BY <2>1, <2>2, Zenon
<1>4. \A i \in 1 .. n + 1 : i # 1 => p[i] = o[i - 1]
  OBVIOUS
<1>5. p \in [1 .. n + 1 -> rows]
  BY <1>1, <1>2
<1> HIDE DEF p
<1>6. ASSUME NEW i \in 1 .. n + 1, NEW j \in 1 .. n + 1, p[i] = p[j]
      PROVE  i = j
  <2>0. \A k \in 1 .. n + 1 : k # 1 => p[k] # p[1]
    <3>1. ASSUME NEW k \in 1 .. n + 1, k # 1
          PROVE  p[k] # p[1]
      <4>1. k - 1 \in 1 .. n /\ p[k] = o[k - 1]
        BY <1>2, <1>4, <3>1
      <4>2. o[k - 1] \in rows \ {m}
        BY <1>1, <4>1
      <4>3. QED
        BY <1>3, <4>1, <4>2
    <3>2. QED
      BY <3>1
  <2>1. CASE i = 1
    BY <1>6, <2>0, <2>1, Zenon
  <2>2. CASE j = 1
    BY <1>6, <2>0, <2>2, Zenon
  <2>3. CASE i # 1 /\ j # 1
    <3>1. /\ i - 1 \in 1 .. n /\ j - 1 \in 1 .. n
          /\ p[i] = o[i - 1] /\ p[j] = o[j - 1]
      BY <1>2, <1>4, <2>3, Zenon
    <3>2. o[i - 1] = o[j - 1]
      BY <1>6, <3>1, Zenon
    <3>3. i - 1 = j - 1
      BY <1>1, <3>1, <3>2, Zenon
    <3>4. QED
      BY <3>3
  <2>4. QED
    BY <2>1, <2>2, <2>3
<1>7. ASSUME NEW r \in rows
      PROVE  \E i \in 1 .. n + 1 : p[i] = r
  <2>1. CASE r = m
    BY <1>3, <2>1
  <2>2. CASE r # m
    <3>1. PICK i \in 1 .. n : o[i] = r
      BY <1>1, <2>2
    <3>2. QED
      BY <1>3, <3>1
  <2>3. QED
    BY <2>1, <2>2
<1>8. ASSUME NEW i \in 1 .. n + 1, NEW j \in 1 .. n + 1, i <= j
      PROVE  p[i].latency <= p[j].latency
  <2>1. CASE i = 1
    BY <1>3, <1>5, <2>1
  <2>2. CASE i # 1
    <3>1. j # 1 /\ i - 1 <= j - 1
      BY <1>8, <2>2
    <3>2. o[i - 1].latency <= o[j - 1].latency
      BY <1>1, <1>2, <2>2, <3>1
    <3>3. QED
      BY <1>4, <2>2, <3>1, <3>2
  <2>3. QED
    BY <2>1, <2>2
<1>9. p \in Ascending(rows)
  BY <1>5, <1>6, <1>7, <1>8, AscendingMeans DEF IsOrder
<1>10. QED
  BY <1>9 DEF p

\* Any finite set of rows has an order: a set without one that is as small as
\* possible would not be empty, and without its fastest row it would have one.
LEMMA AscendingExists ==
  ASSUME NEW rows, Timed(rows)
  PROVE  \E o : o \in Ascending(rows)
<1>1. ASSUME NEW S \in SUBSET rows
      PROVE  Timed(S) /\ Cardinality(S) \in Nat
  BY FS_Subset, FS_CardinalityType DEF Timed
<1> DEFINE Unordered == {S \in SUBSET rows : \A o : o \notin Ascending(S)}
           Sizes == {Cardinality(S) : S \in Unordered}
<1>2. SUFFICES ASSUME rows \in Unordered
               PROVE  FALSE
  OBVIOUS
<1>3. PICK S \in Unordered : \A U \in Unordered : Cardinality(S) <= Cardinality(U)
  <2>1. Sizes \subseteq Nat /\ Sizes # {}
    BY <1>1, <1>2
  <2>2. PICK n \in Sizes : \A k \in Sizes : n <= k
    BY <2>1, Least
  <2>3. QED
    BY <2>2
<1>4. S \in SUBSET rows /\ Timed(S) /\ Cardinality(S) \in Nat
  BY <1>1
<1>5. CASE S = {}
  <2>1. Cardinality(S) = 0
    BY <1>5, FS_EmptySet
  <2>2. 1 .. 0 = {}
    OBVIOUS
  <2>3. [i \in {} |-> i] \in Ascending(S)
    BY <1>5, <2>1, <2>2, AscendingMeans DEF IsOrder
  <2>4. QED
    BY <2>3
<1>6. CASE S # {}
  <2>1. PICK m \in S : \A r \in S : m.latency <= r.latency
    BY <1>4, <1>6, Fastest
  <2>2. Cardinality(S \ {m}) = Cardinality(S) - 1 /\ S \ {m} \in SUBSET rows
    BY <1>4, FS_RemoveElement DEF Timed
  <2>3. Cardinality(S \ {m}) \in Nat
    BY <1>1, <2>2
  <2>4. S \ {m} \notin Unordered
    BY <1>3, <1>4, <2>2, <2>3
  <2>5. PICK o : o \in Ascending(S \ {m})
    BY <2>2, <2>4
  <2>6. Cardinality(S \ {m}) + 1 = Cardinality(S)
    BY <1>4, <2>2
  <2>7. \E p : p \in Ascending(S)
    BY <1>4, <2>1, <2>3, <2>5, <2>6, FastestFirst
  <2>8. QED
    BY <2>7
<1>7. QED
  BY <1>5, <1>6

\* The first k rows of an order are k rows.
LEMMA Prefix ==
  ASSUME NEW rows, Timed(rows), NEW o \in Ascending(rows),
         NEW k \in 0 .. Cardinality(rows)
  PROVE  /\ {o[j] : j \in 1 .. k} \in SUBSET rows
         /\ IsFiniteSet({o[j] : j \in 1 .. k})
         /\ Cardinality({o[j] : j \in 1 .. k}) = k
<1> DEFINE n == Cardinality(rows)
           S == {o[j] : j \in 1 .. k}
           p == [j \in 1 .. k |-> o[j]]
<1>1. IsOrder(o, rows, n) /\ n \in Nat
  BY AscendingMeans, FS_CardinalityType DEF Timed
<1>2. 1 .. k \subseteq 1 .. n /\ k \in Nat
  BY <1>1
<1>3. S \in SUBSET rows
  BY <1>1, <1>2 DEF IsOrder
<1>4. p \in Bijection(1 .. k, S)
  <2>1. p \in [1 .. k -> S]
    OBVIOUS
  <2>2. \A i, j \in 1 .. k : p[i] = p[j] => i = j
    BY <1>1, <1>2 DEF IsOrder
  <2>3. \A r \in S : \E i \in 1 .. k : p[i] = r
    OBVIOUS
  <2> HIDE DEF p, S
  <2>4. QED
    BY <2>1, <2>2, <2>3, Fun_IsBij
<1>5. Cardinality(S) = k
  <2>1. ExistsBijection(1 .. k, S)
    BY <1>4 DEF ExistsBijection
  <2> HIDE DEF S
  <2>2. QED
    BY <1>2, <2>1, FS_CountingElements
<1>6. IsFiniteSet(S)
  BY <1>3, FS_Subset DEF Timed
<1>7. QED
  BY <1>3, <1>5, <1>6

\* The i-th row of an order has the i-th latency.
LEMMA NthOfOrder ==
  ASSUME NEW rows, Timed(rows), \A r \in rows : r.latency \in Latency,
         NEW o \in Ascending(rows), NEW i \in 1 .. Cardinality(rows)
  PROVE  o[i].latency \in Latency /\ Nth(rows, i) = o[i].latency
<1> DEFINE n == Cardinality(rows)
           Below(l) == {r \in rows : r.latency < l}
           UpTo(l) == {r \in rows : r.latency <= l}
           here == o[i].latency
<1>1. IsOrder(o, rows, n) /\ n \in Nat /\ i \in Nat
  BY AscendingMeans, FS_CardinalityType DEF Timed
<1>2. here \in Latency /\ Latency \subseteq Nat
  BY <1>1, StatisticsAssumption DEF IsOrder
<1>3. ASSUME NEW S \in SUBSET rows
      PROVE  IsFiniteSet(S) /\ Cardinality(S) \in Nat
  BY FS_Subset, FS_CardinalityType DEF Timed
<1>4. ASSUME NEW S \in SUBSET rows, NEW T \in SUBSET rows, S \subseteq T
      PROVE  Cardinality(S) <= Cardinality(T)
  BY <1>3, <1>4, FS_Subset
<1>5. \A l : Below(l) \in SUBSET rows /\ UpTo(l) \in SUBSET rows
  OBVIOUS
<1>6. Cardinality(Below(here)) < i
  <2>1. PICK k \in 0 .. n : k = i - 1
    BY <1>1
  <2> DEFINE P == {o[j] : j \in 1 .. k}
  <2>2. P \in SUBSET rows /\ Cardinality(P) = k
    <3>1. \A m \in 0 .. Cardinality(rows) :
            {o[j] : j \in 1 .. m} \in SUBSET rows /\ Cardinality({o[j] : j \in 1 .. m}) = m
      BY Prefix
    <3>2. k \in 0 .. Cardinality(rows)
      BY <2>1
    <3>3. QED
      BY <3>1, <3>2, Zenon
  <2>3. ASSUME NEW r \in Below(here)
        PROVE  r \in P
    <3>1. PICK j \in 1 .. n : o[j] = r
      BY <1>1 DEF IsOrder
    <3>2. ~ (i <= j)
      <4>1. o[j].latency < here /\ o[j].latency \in Nat /\ here \in Nat
        BY <1>2, <3>1
      <4>2. ~ (here <= o[j].latency)
        BY <4>1
      <4>3. QED
        BY <1>1, <4>2 DEF IsOrder
    <3>3. j \in 1 .. k
      BY <1>1, <2>1, <3>2
    <3>4. QED
      BY <3>1, <3>3
  <2>4. Cardinality(Below(here)) <= i - 1
    <3>1. Below(here) \subseteq P
      BY <2>3
    <3> HIDE DEF Below, P
    <3>2. QED
      BY <1>4, <1>5, <2>1, <2>2, <3>1
  <2>5. Cardinality(Below(here)) \in Nat
    BY <1>3, <1>5
  <2> HIDE DEF Below
  <2>6. QED
    BY <1>1, <2>4, <2>5
<1>7. i <= Cardinality(UpTo(here))
  <2> DEFINE P == {o[j] : j \in 1 .. i}
  <2>1. i \in 0 .. n
    BY <1>1
  <2>2. P \in SUBSET rows /\ Cardinality(P) = i
    BY <2>1, Prefix
  <2>3. P \subseteq UpTo(here)
    <3>1. ASSUME NEW j \in 1 .. i
          PROVE  o[j] \in UpTo(here)
      <4>1. j \in 1 .. n /\ j <= i
        BY <1>1
      <4>2. QED
        BY <1>1, <4>1 DEF IsOrder
    <3>2. QED
      BY <3>1
  <2> HIDE DEF P, UpTo
  <2>4. QED
    BY <1>4, <1>5, <2>2, <2>3
<1>8. ASSUME NEW l \in Latency, Cardinality(Below(l)) < i, i <= Cardinality(UpTo(l))
      PROVE  l = here
  <2>1. \A S \in SUBSET rows : Cardinality(S) \in Nat
    BY <1>3
  <2>2. ASSUME l < here PROVE FALSE
    <3>1. UpTo(l) \subseteq Below(here)
      <4>1. ASSUME NEW r \in UpTo(l)
            PROVE  r.latency < here
        <5>1. r.latency \in Nat /\ l \in Nat /\ here \in Nat /\ r.latency <= l
          BY <1>2 DEF Timed
        <5> HIDE DEF here
        <5>2. QED
          BY <2>2, <5>1
      <4>2. QED
        BY <4>1
    <3> HIDE DEF Below, UpTo
    <3>2. Cardinality(UpTo(l)) <= Cardinality(Below(here))
      BY <1>4, <1>5, <3>1
    <3>3. QED
      BY <1>1, <1>5, <1>6, <1>8, <2>1, <3>2
  <2>3. ASSUME here < l PROVE FALSE
    <3>1. UpTo(here) \subseteq Below(l)
      <4>1. ASSUME NEW r \in UpTo(here)
            PROVE  r.latency < l
        <5>1. r.latency \in Nat /\ l \in Nat /\ here \in Nat /\ r.latency <= here
          BY <1>2 DEF Timed
        <5> HIDE DEF here
        <5>2. QED
          BY <2>3, <5>1
      <4>2. QED
        BY <4>1
    <3> HIDE DEF Below, UpTo
    <3>2. Cardinality(UpTo(here)) <= Cardinality(Below(l))
      BY <1>4, <1>5, <3>1
    <3>3. QED
      BY <1>1, <1>5, <1>7, <1>8, <2>1, <3>2
  <2>4. l \in Nat /\ here \in Nat
    BY <1>2
  <2> HIDE DEF here
  <2>5. QED
    BY <2>2, <2>3, <2>4
<1>9. QED
  <2>1. here \in Latency /\ Cardinality(Below(here)) < i /\ i <= Cardinality(UpTo(here))
    BY <1>2, <1>6, <1>7
  <2>2. Nth(rows, i) = CHOOSE l \in Latency : /\ Cardinality(Below(l)) < i
                                              /\ i <= Cardinality(UpTo(l))
    BY DEF Nth
  <2> HIDE DEF Below, UpTo, here
  <2>3. Nth(rows, i) = here
    BY <1>8, <2>1, <2>2
  <2>4. QED
    BY <2>1, <2>3 DEF here

\* ORDER BY latency_ms of any finite set of usage rows is their latencies from the
\* first to the last, whatever order the database gives to equal ones.
THEOREM SeriesInOrder ==
  ASSUME NEW rows, IsFiniteSet(rows), \A r \in rows : r.latency \in Latency
  PROVE  /\ Series(rows) \in Seq(Nat) /\ Sorted(Series(rows))
         /\ Len(Series(rows)) = Cardinality(rows)
         /\ \A i \in 1 .. Cardinality(rows) : Series(rows)[i] = Nth(rows, i)
<1> DEFINE n == Cardinality(rows)
           s == Series(rows)
<1>1. Timed(rows) /\ n \in Nat
  BY StatisticsAssumption, FS_CardinalityType DEF Timed
<1>2. PICK o \in Ascending(rows) : s = [i \in 1 .. n |-> o[i].latency]
  <2>1. (CHOOSE o \in Ascending(rows) : TRUE) \in Ascending(rows)
    BY <1>1, AscendingExists
  <2>2. QED
    BY <2>1 DEF Series
<1>3. IsOrder(o, rows, n)
  BY AscendingMeans
<1>4. \A i \in 1 .. n : o[i].latency \in Latency /\ Nth(rows, i) = o[i].latency
  BY <1>1, NthOfOrder
<1>5. \A i \in 1 .. n : o[i].latency \in Nat
  BY <1>4, StatisticsAssumption
<1> HIDE DEF s, n
<1>6. s \in Seq(Nat) /\ Len(s) = n
  <2>1. s \in [1 .. n -> Nat]
    BY <1>2, <1>5
  <2>2. QED
    BY <1>1, <2>1, SeqDef, LenProperties
<1>7. \A i, j \in 1 .. n : i <= j => s[i] <= s[j]
  BY <1>2, <1>3 DEF IsOrder
<1>8. \A i \in 1 .. n : s[i] = Nth(rows, i)
  BY <1>2, <1>4
<1>9. QED
  BY <1>6, <1>7, <1>8 DEF s, n, Sorted

\* The percentile of the code is the quantile of the rows: on the line through
\* their latencies in order, num/20 of the way from the first to the last
\* (stats_percentiles.py:8 of _latency_ms_by_tool, stats.py:20).
THEOREM PercentileIsQuantile ==
  ASSUME NEW rows, IsFiniteSet(rows), \A r \in rows : r.latency \in Latency,
         NEW num \in 0 .. 20
  PROVE  IsQuantile(Percentile(Series(rows), num), rows, num)
<1> DEFINE n == Cardinality(rows)
           s == Series(rows)
           v == Percentile(s, num)
<1>1. n \in Nat
  BY FS_CardinalityType
<1>2. /\ s \in Seq(Nat) /\ Len(s) = n
      /\ \A i \in 1 .. n : s[i] = Nth(rows, i) /\ s[i] \in Nat
  BY SeriesInOrder
<1>3. CASE n = 0
  <2>1. s = <<>>
    BY <1>2, <1>3, EmptySeq
  <2>2. v = 0
    BY <2>1 DEF Percentile
  <2>3. QED
    BY <1>3, <2>2 DEF IsQuantile
<1>4. CASE n = 1
  <2>1. s # <<>>
    BY <1>2, <1>4
  <2>2. v = 20 * s[1] /\ s[1] = Nth(rows, 1)
    BY <1>2, <1>4, <2>1 DEF Percentile
  <2>3. v = 20 * Nth(rows, 1)
    BY <2>2
  <2>4. QED
    BY <1>4, <2>3, Zenon DEF IsQuantile
<1>5. CASE n > 1
  <2> DEFINE lo == Lo(n, num)
             frac == Frac(n, num)
             Line(i, over) == Nth(rows, i) * (20 - over) + Nth(rows, i + 1) * over
  <2>1. v = IF frac = 0 THEN 20 * s[lo + 1] ELSE s[lo + 1] * (20 - frac) + s[lo + 2] * frac
    BY <1>2, <1>5, PercentileValue, Zenon
  <2>2. /\ lo \in 0 .. n - 1 /\ frac \in 0 .. 19 /\ (n - 1) * num = 20 * lo + frac
        /\ frac # 0 => lo <= n - 2
    BY <1>1, <1>5, RankInside, Zenon
  <2>3. SUFFICES \E i \in 1 .. n - 1 : /\ (n - 1) * num - 20 * (i - 1) \in 0 .. 20
                                       /\ v = Line(i, (n - 1) * num - 20 * (i - 1))
    BY Zenon DEF IsQuantile
  <2> DEFINE dist == (n - 1) * num
  <2> HIDE DEF v, lo, frac, n, s, dist
  <2>4. CASE lo <= n - 2
    <3>1. /\ lo + 1 \in 1 .. n - 1 /\ lo + 1 \in 1 .. n /\ lo + 2 \in 1 .. n
          /\ (lo + 1) + 1 = lo + 2
          /\ dist - 20 * ((lo + 1) - 1) = frac
      BY <1>1, <2>2, <2>4 DEF dist
    <3>2. /\ s[lo + 1] = Nth(rows, lo + 1) /\ s[lo + 1] \in Nat
          /\ s[lo + 2] = Nth(rows, lo + 2) /\ s[lo + 2] \in Nat
      BY <1>2, <3>1, Zenon
    <3>3. v = s[lo + 1] * (20 - frac) + s[lo + 2] * frac
      <4>1. ASSUME NEW a \in Nat, NEW b \in Nat
            PROVE  20 * a = a * (20 - 0) + b * 0
        OBVIOUS
      <4>2. QED
        BY <2>1, <3>2, <4>1, Zenon
    <3>4. v = Line(lo + 1, frac)
      BY <3>1, <3>2, <3>3, Zenon
    <3>5. frac \in 0 .. 20
      BY <2>2
    <3> HIDE DEF Line
    <3>6. QED
      BY <3>1, <3>4, <3>5, Zenon DEF dist
  <2>5. CASE lo = n - 1
    <3>1. /\ n - 1 \in 1 .. n - 1 /\ n - 1 \in 1 .. n /\ n \in 1 .. n
          /\ (n - 1) + 1 = n /\ lo + 1 = n /\ frac = 0
          /\ dist - 20 * ((n - 1) - 1) = 20
      BY <1>1, <1>5, <2>2, <2>5 DEF dist
    <3>2. /\ s[n - 1] = Nth(rows, n - 1) /\ s[n - 1] \in Nat
          /\ s[n] = Nth(rows, n) /\ s[n] \in Nat
      BY <1>2, <3>1, Zenon
    <3>3. v = s[n - 1] * (20 - 20) + s[n] * 20
      <4>1. ASSUME NEW a \in Nat, NEW b \in Nat
            PROVE  20 * b = a * (20 - 20) + b * 20
        OBVIOUS
      <4>2. QED
        BY <2>1, <3>1, <3>2, <4>1, Zenon
    <3>4. v = Line(n - 1, 20)
      BY <3>1, <3>2, <3>3, Zenon
    <3>5. 20 \in 0 .. 20
      OBVIOUS
    <3> HIDE DEF Line
    <3>6. QED
      BY <3>1, <3>4, <3>5, Zenon DEF dist
  <2>6. QED
    BY <1>1, <2>2, <2>4, <2>5
<1>6. QED
  BY <1>1, <1>3, <1>4, <1>5

----------------------------------------------------------------------------
(* Types *)

Page == [open : BOOLEAN, filter : Filter, loading : BOOLEAN,
         error : BOOLEAN, data : Filter \cup {Nothing}]

FetchRecord == [pc : FetchPC, filter : Filter, view : Tables]
PassedRecord == [tables : SUBSET Tables, created : SUBSET Post]

\* The three record-valued variables, with their types unexpanded.
LEMMA Opaque ==
  ASSUME TypeOK
  PROVE  /\ fetch \in [Fetch -> FetchRecord]
         /\ passed \in [Fetch -> PassedRecord]
         /\ DOMAIN answer = Fetch /\ \A f \in Fetch : DOMAIN answer[f] \subseteq Tool
         /\ {"idle", "rows", "latencies", "answered", "failed", "gone"} \subseteq FetchPC
BY DEF TypeOK, FetchRecord, PassedRecord, FetchPC

LEMMA NothingApart ==
  Nothing \notin LogRow /\ Nothing \notin Filter
BY StatisticsAssumption, EarlierAssumption

\* The filters of the page and of the fetches are filters.
LEMMA TypedPage ==
  ASSUME TypeOK
  PROVE  page.filter \in Filter /\ AnyFilter \in Filter
BY StatisticsAssumption DEF TypeOK

\* A report has an item for tools of the registry only.
LEMMA ReportTools ==
  ASSUME NEW filter, NEW t \in SUBSET Tool, NEW counted, NEW timed
  PROVE  /\ DOMAIN Report(filter, t, counted, timed) = Listed(filter, t, counted)
         /\ Listed(filter, t, counted) \subseteq Tool
BY DEF Report, Listed

LEMMA ChangeTyped ==
  ASSUME TypeOK, NEW t \in SUBSET Tool, NEW l \in SUBSET Rows, Change(t, l)
  PROVE  tools' \subseteq Tool /\ logs' \subseteq Rows
         /\ passed' \in [Fetch -> [tables : SUBSET Tables, created : SUBSET Post]]
<1>1. [tools |-> t, logs |-> l] \in Tables
  BY DEF Tables
<1>2. \A f \in Fetch : passed[f] \in PassedRecord
  BY Opaque
<1>3. \A f \in Fetch : passed'[f] = IF UnderWay(f)
        THEN [passed[f] EXCEPT !.tables = passed[f].tables \cup {[tools |-> t, logs |-> l]}]
        ELSE passed[f]
  BY DEF Change
<1>4. ASSUME NEW f \in Fetch
      PROVE  passed'[f] \in PassedRecord
  <2>1. ASSUME NEW p \in PassedRecord
        PROVE  [p EXCEPT !.tables = p.tables \cup {[tools |-> t, logs |-> l]}] \in PassedRecord
    BY <1>1 DEF PassedRecord
  <2>2. QED
    BY <1>2, <1>3, <2>1
<1>5. QED
  BY <1>4 DEF Change, PassedRecord

LEMMA RefetchTyped ==
  ASSUME TypeOK, NEW f \in Fetch, NEW filter \in Filter, Refetch(f, filter),
         page' \in Page
  PROVE  TypeOK'
<1>1. [tools |-> tools, logs |-> logs] \in Tables
  BY DEF TypeOK, Tables
<1>2. [tables |-> {[tools |-> tools, logs |-> logs]},
       created |-> {u \in Post : post[u].pc = "created"}]
      \in [tables : SUBSET Tables, created : SUBSET Post]
  BY <1>1
<1>3. passed' \in [Fetch -> [tables : SUBSET Tables, created : SUBSET Post]]
  BY <1>2 DEF TypeOK, Refetch
<1>4. fetch' \in [Fetch -> FetchRecord]
  BY Opaque DEF Refetch, FetchRecord
<1>5. QED
  BY <1>3, <1>4 DEF TypeOK, Refetch, Page, FetchRecord

LEMMA GoneTyped ==
  ASSUME TypeOK, NEW S \in SUBSET Fetch, Gone(S), page' \in Page
  PROVE  TypeOK'
<1>1. Unsent \in [pc : FetchPC, filter : Filter, view : Tables]
  BY StatisticsAssumption DEF Unsent, FetchPC, Tables
<1>2. Unseen \in [tables : SUBSET Tables, created : SUBSET Post]
  BY DEF Unseen
<1>3. DOMAIN <<>> \subseteq Tool
  OBVIOUS
<1>4. QED
  BY <1>1, <1>2, <1>3 DEF Gone, TypeOK, FetchPC, Page

LEMMA TypedInit == Init => TypeOK
<1>1. DOMAIN <<>> \subseteq Tool
  OBVIOUS
<1>2. QED
  BY <1>1, StatisticsAssumption, EarlierAssumption
     DEF Init, TypeOK, PostPC, Unsent, Unseen, Closed, FetchPC, Tables, Rows, Time

LEMMA TypedStep ==
  ASSUME TypeOK, [Next]_vars
  PROVE  TypeOK'
<1>0. /\ page \in Page /\ page.filter \in Filter
      /\ AnyFilter \in Filter /\ Closed \in Page
      /\ \A f \in Fetch : fetch[f].filter \in Filter
  BY StatisticsAssumption DEF TypeOK, Page, Closed
<1>1. CASE Tick
  BY <1>1, StatisticsAssumption DEF Tick, TypeOK, Time
<1>2. CASE Leave
  <2>1. {f \in Fetch : Outstanding(f)} \in SUBSET Fetch
    OBVIOUS
  <2>2. QED
    BY <1>0, <1>2, <2>1, GoneTyped DEF Leave
<1>3. ASSUME NEW tool \in Tool, Register(tool)
      PROVE  TypeOK'
  BY <1>3, ChangeTyped DEF Register, TypeOK
<1>4. ASSUME NEW u \in Post, Look(u)
      PROVE  TypeOK'
  BY <1>4, StatisticsAssumption DEF Look, TypeOK, LogRow, Time, PostPC
<1>5. ASSUME NEW u \in Post, Insert(u)
      PROVE  TypeOK'
  <2>1. post[u].row \in LogRow /\ now \in Time
    BY <1>5 DEF Insert, TypeOK
  <2>2. [post[u].row EXCEPT !.at = now] \in LogRow
    BY <2>1 DEF LogRow
  <2>3. QED
    BY <1>5, <2>2 DEF Insert, TypeOK, PostPC
<1>6. ASSUME NEW u \in Post, Commit(u)
      PROVE  TypeOK'
  <2>1. post[u].row \in LogRow
    BY <1>6 DEF Commit, TypeOK
  <2>2. tools \in SUBSET Tool /\ logs \cup {post[u].row} \in SUBSET Rows
    BY <2>1 DEF TypeOK, Rows
  <2>3. /\ tools' \subseteq Tool /\ logs' \subseteq Rows
        /\ passed' \in [Fetch -> [tables : SUBSET Tables, created : SUBSET Post]]
    BY <1>6, <2>2, ChangeTyped DEF Commit
  <2>4. /\ post' \in [Post -> [pc : PostPC, row : LogRow \cup {Nothing}]]
        /\ \A w \in Post : post'[w].pc # "idle" => post'[w].row \in LogRow
    <3>1. \E pc \in {"created", "failed"} : post' = [post EXCEPT ![u].pc = pc]
      BY <1>6 DEF Commit, PostAt
    <3>2. QED
      BY <2>1, <3>1 DEF TypeOK, PostPC
  <2>5. QED
    BY <1>6, <2>3, <2>4 DEF Commit, TypeOK
<1>7. ASSUME NEW u \in Post, PostFails(u)
      PROVE  TypeOK'
  BY <1>7 DEF PostFails, TypeOK, PostAt, PostPC
<1>8. ASSUME NEW f \in Fetch, QueryRows(f)
      PROVE  TypeOK'
  <2>1. [tools |-> tools, logs |-> logs] \in Tables
    BY DEF TypeOK, Tables
  <2>2. fetch' \in [Fetch -> FetchRecord]
    BY <1>8, <2>1, Opaque DEF QueryRows, FetchRecord
  <2>3. QED
    BY <1>8, <2>2 DEF QueryRows, TypeOK, FetchRecord
<1>9. ASSUME NEW f \in Fetch, QueryLatencies(f)
      PROVE  TypeOK'
  <2>1. fetch[f].view.tools \in SUBSET Tool /\ Unsent.view \in Tables
    BY DEF TypeOK, Tables, Unsent
  <2>2. fetch' \in [Fetch -> FetchRecord]
    BY <1>9, <2>1, Opaque DEF QueryLatencies, FetchRecord
  <2> DEFINE stats == Report(fetch[f].filter, fetch[f].view.tools,
                             fetch[f].view.logs, fetch[f].view.logs)
  <2>3. DOMAIN stats \subseteq Tool /\ answer' = [answer EXCEPT ![f] = stats]
    <3>1. answer' = [answer EXCEPT ![f] = stats]
      BY <1>9, Zenon DEF QueryLatencies
    <3>2. QED
      BY <2>1, <3>1, ReportTools
  <2> HIDE DEF stats
  <2>4. /\ DOMAIN answer' = Fetch
        /\ \A g \in Fetch : DOMAIN answer'[g] \subseteq Tool
    BY <2>3, Opaque
  <2>5. QED
    BY <1>9, <2>2, <2>4 DEF QueryLatencies, TypeOK, FetchRecord
<1>10. ASSUME NEW f \in Fetch, QueryFails(f)
       PROVE  TypeOK'
  BY <1>10, SMTT(30) DEF QueryFails, TypeOK, FetchPC
<1>11. ASSUME NEW f \in Fetch, Open(f)
       PROVE  TypeOK'
  <2>1. page' \in Page
    BY <1>0, <1>11 DEF Open, Page
  <2>2. QED
    BY <1>0, <1>11, <2>1, RefetchTyped DEF Open
<1>12. ASSUME NEW f \in Fetch, Retry(f)
       PROVE  TypeOK'
  <2>1. page' \in Page
    BY <1>0, <1>12 DEF Retry, Page
  <2>2. QED
    BY <1>0, <1>12, <2>1, RefetchTyped DEF Retry
<1>13. ASSUME NEW f \in Fetch, NEW filter \in Filter, ChangeFilter(f, filter)
       PROVE  TypeOK'
  <2>1. page' \in Page
    BY <1>0, <1>13 DEF ChangeFilter, Page
  <2>2. QED
    BY <1>13, <2>1, RefetchTyped DEF ChangeFilter
<1>14. ASSUME NEW f \in Fetch, Deliver(f)
       PROVE  TypeOK'
  <2>1. page' \in Page
    BY <1>0, <1>14 DEF Deliver, Page
  <2>2. QED
    BY <1>14, <2>1, GoneTyped DEF Deliver
<1>15. ASSUME NEW f \in Fetch, DeliverError(f)
       PROVE  TypeOK'
  <2>1. page' \in Page
    BY <1>0, <1>15 DEF DeliverError, Page
  <2>2. QED
    BY <1>15, <2>1, GoneTyped DEF DeliverError
<1>16. CASE UNCHANGED vars
  BY <1>16 DEF vars, TypeOK
<1>17. QED
  BY <1>1, <1>2, <1>3, <1>4, <1>5, <1>6, <1>7, <1>8, <1>9, <1>10, <1>11, <1>12,
     <1>13, <1>14, <1>15, <1>16 DEF Next, Serve, Receive

\* Every variable has its type in every reachable state.
THEOREM TypeCorrect == Spec => []TypeOK
BY TypedInit, TypedStep, PTL DEF Spec

----------------------------------------------------------------------------
(* The page *)

LEMMA OutcomeStep ==
  ASSUME TypeOK, OutcomeShown, [Next]_vars
  PROVE  OutcomeShown'
<1>1. ASSUME \E f \in Fetch : Outstanding(f)'
      PROVE  OutcomeShown'
  BY <1>1 DEF OutcomeShown
<1>2. ASSUME UNCHANGED page,
             \A f \in Fetch : Outstanding(f) => Outstanding(f)'
      PROVE  OutcomeShown'
  BY <1>2 DEF OutcomeShown
<1>3. ASSUME NEW f \in Fetch, Receive(f)
      PROVE  OutcomeShown'
  <2>1. fetch[f].filter # Nothing
    BY NothingApart, Opaque DEF FetchRecord
  <2>2. page \in Page
    BY DEF TypeOK, Page
  <2>3. ~ page'.loading /\ (page'.error \/ page'.data # Nothing)
    BY <1>3, <2>1, <2>2 DEF Receive, Deliver, DeliverError, Page
  <2>4. QED
    BY <2>3 DEF OutcomeShown
<1>4. ASSUME NEW f \in Fetch, NEW filter \in Filter, Refetch(f, filter)
      PROVE  OutcomeShown'
  <2>1. Outstanding(f)'
    BY <1>4, Opaque DEF Refetch, Outstanding, FetchRecord
  <2>2. QED
    BY <1>1, <2>1
<1>5. CASE Leave
  BY <1>5 DEF Leave, Closed, OutcomeShown
<1>6. ASSUME NEW f \in Fetch, Serve(f)
      PROVE  OutcomeShown'
  <2>1. UNCHANGED page /\ Outstanding(f)'
    BY <1>6, Opaque DEF Serve, QueryRows, QueryLatencies, QueryFails, Outstanding, FetchRecord
  <2>2. QED
    BY <1>1, <2>1
<1>7. ASSUME UNCHANGED <<fetch, page>>
      PROVE  OutcomeShown'
  BY <1>2, <1>7 DEF Outstanding
<1>8. CASE UNCHANGED vars
  BY <1>7, <1>8 DEF vars
<1>9. ASSUME NEW f \in Fetch, Open(f) \/ Retry(f)
      PROVE  OutcomeShown'
  BY <1>4, <1>9, TypedPage DEF Open, Retry
<1>10. ASSUME NEW f \in Fetch, NEW filter \in Filter, ChangeFilter(f, filter)
       PROVE  OutcomeShown'
  BY <1>4, <1>10 DEF ChangeFilter
<1>11. ASSUME NEW u \in Post, Look(u) \/ Insert(u) \/ Commit(u) \/ PostFails(u)
       PROVE  OutcomeShown'
  BY <1>7, <1>11 DEF Look, Insert, Commit, PostFails
<1>12. ASSUME NEW tool \in Tool, Register(tool)
       PROVE  OutcomeShown'
  BY <1>7, <1>12 DEF Register
<1>13. CASE Tick
  BY <1>7, <1>13 DEF Tick
<1>14. QED
  BY <1>3, <1>5, <1>6, <1>8, <1>9, <1>10, <1>11, <1>12, <1>13 DEF Next

\* The statistics page never stays loading with nothing under way, and shows an
\* answer or an error then (useApi.ts:18), for any number of overlapping fetches.
THEOREM OutcomeShownAlways == Spec => []OutcomeShown
<1>1. Init => OutcomeShown
  BY DEF Init, Closed, OutcomeShown
<1>2. QED
  BY <1>1, OutcomeStep, TypeCorrect, PTL DEF Spec

----------------------------------------------------------------------------
(* What an answer is made of *)

\* A usage row is of a registered tool, and is committed before its 201.
Backed ==
  /\ IsFiniteSet(logs)
  /\ \A r \in logs : r.tool \in tools
  /\ \A u \in Post : post[u].pc \in {"insert", "commit", "created"} => post[u].row.tool \in tools
  /\ \A u \in Post : post[u].pc = "created" => post[u].row \in logs

\* The tables at one moment, with the rows of the posts a fetch must know.
Moment(f, tables) ==
  /\ tables \in passed[f].tables
  /\ IsFiniteSet(tables.logs)
  /\ \A r \in tables.logs : r.tool \in tables.tools
  /\ \A u \in passed[f].created : post[u].row \in tables.logs

\* Every fetch under way keeps the tables as they are among those it passed, and
\* its snapshot and its answer are of one of these.
OfOneMoment ==
  \A f \in Fetch :
    /\ \A u \in passed[f].created : post[u].pc = "created"
    /\ UnderWay(f) => [tools |-> tools, logs |-> logs] \in passed[f].tables
    /\ fetch[f].pc = "latencies" => Moment(f, fetch[f].view)
    /\ Answered(f) => \E tables \in passed[f].tables :
         /\ Moment(f, tables)
         /\ answer[f] = Report(fetch[f].filter, tables.tools, tables.logs, tables.logs)

StatsInv == Backed /\ OfOneMoment

LEMMA StatsInit == Init => StatsInv
<1>1. SUFFICES ASSUME Init PROVE StatsInv
  OBVIOUS
<1>2. IsFiniteSet(logs)
  <2>1. logs \in SUBSET Earlier /\ IsFiniteSet(Earlier)
    BY <1>1, EarlierAssumption DEF Init
  <2>2. QED
    BY <2>1, FS_Subset
<1>3. Backed
  <2>1. /\ \A r \in logs : r.tool \in tools
        /\ \A u \in Post : post[u].pc = "idle"
    BY <1>1 DEF Init
  <2>2. QED
    BY <1>2, <2>1 DEF Backed
<1>4. OfOneMoment
  <2>1. \A f \in Fetch : fetch[f].pc = "idle" /\ passed[f].created = {}
    BY <1>1 DEF Init, Unsent, Unseen
  <2>2. QED
    BY <2>1 DEF OfOneMoment, UnderWay, Answered
<1>5. QED
  BY <1>3, <1>4 DEF StatsInv

\* A commit adds a registered tool, or a row of one, to the tables.
LEMMA ChangeMoments ==
  ASSUME TypeOK, OfOneMoment, NEW t, NEW l, Change(t, l), UNCHANGED <<fetch, answer>>,
         \A u \in Post : post[u].pc = "created" => post'[u] = post[u]
  PROVE  OfOneMoment'
<1>1. SUFFICES ASSUME NEW f \in Fetch
      PROVE  /\ \A u \in passed'[f].created : post'[u].pc = "created"
             /\ UnderWay(f)' => [tools |-> tools', logs |-> logs'] \in passed'[f].tables
             /\ fetch'[f].pc = "latencies" => Moment(f, fetch[f].view)'
             /\ Answered(f)' => \E tables \in passed'[f].tables :
                  /\ Moment(f, tables)'
                  /\ answer'[f] = Report(fetch'[f].filter, tables.tools, tables.logs, tables.logs)
  BY DEF OfOneMoment
<1>2. passed[f] \in PassedRecord
  BY Opaque
<1>3. /\ passed'[f].created = passed[f].created
      /\ passed[f].tables \subseteq passed'[f].tables
      /\ UnderWay(f) => [tools |-> t, logs |-> l] \in passed'[f].tables
  BY <1>2 DEF Change, PassedRecord
<1>4. \A u \in passed[f].created : u \in Post /\ post[u].pc = "created" /\ post'[u] = post[u]
  BY <1>2 DEF OfOneMoment, PassedRecord
<1>5. \A tables : Moment(f, tables) => Moment(f, tables)'
  BY <1>3, <1>4 DEF Moment
<1>6. UnderWay(f)' = UnderWay(f) /\ Answered(f)' = Answered(f)
  BY DEF UnderWay, Answered
<1>7. QED
  BY <1>3, <1>4, <1>5, <1>6 DEF OfOneMoment, Change

\* Steps that leave the tables alone and send or finish no fetch.
LEMMA QuietMoments ==
  ASSUME OfOneMoment, TypeOK, UNCHANGED <<tools, logs, fetch, answer, passed>>,
         \A u \in Post : post[u].pc = "created" => post'[u] = post[u]
  PROVE  OfOneMoment'
<1>1. \A f \in Fetch : \A u \in passed[f].created : u \in Post /\ post[u].pc = "created"
  BY Opaque DEF OfOneMoment, PassedRecord
<1>2. \A f \in Fetch : \A tables : Moment(f, tables) => Moment(f, tables)'
  BY <1>1 DEF Moment
<1>3. QED
  BY <1>1, <1>2 DEF OfOneMoment, UnderWay, Answered

\* A request is sent while the posts it must know are in the table.
LEMMA RefetchMoments ==
  ASSUME TypeOK, OfOneMoment, NEW f \in Fetch, NEW filter \in Filter, Refetch(f, filter)
  PROVE  OfOneMoment'
<1>1. SUFFICES ASSUME NEW g \in Fetch
      PROVE  /\ \A u \in passed'[g].created : post'[u].pc = "created"
             /\ UnderWay(g)' => [tools |-> tools', logs |-> logs'] \in passed'[g].tables
             /\ fetch'[g].pc = "latencies" => Moment(g, fetch[g].view)'
             /\ Answered(g)' => \E tables \in passed'[g].tables :
                  /\ Moment(g, tables)'
                  /\ answer'[g] = Report(fetch'[g].filter, tables.tools, tables.logs, tables.logs)
  BY DEF OfOneMoment
<1>2. CASE g = f
  BY <1>2, Opaque DEF Refetch, UnderWay, Answered, FetchRecord, PassedRecord
<1>3. CASE g # f
  <2>1. fetch'[g] = fetch[g] /\ passed'[g] = passed[g] /\ answer'[g] = answer[g]
    BY <1>3, Opaque DEF Refetch
  <2>2. \A tables : Moment(g, tables)' = Moment(g, tables)
    BY <2>1 DEF Moment, Refetch
  <2>3. QED
    BY <2>1, <2>2 DEF OfOneMoment, UnderWay, Answered, Refetch
<1>4. QED
  BY <1>2, <1>3

\* A finished fetch is forgotten.
LEMMA GoneMoments ==
  ASSUME TypeOK, OfOneMoment, NEW S, Gone(S)
  PROVE  OfOneMoment'
<1>1. SUFFICES ASSUME NEW g \in Fetch
      PROVE  /\ \A u \in passed'[g].created : post'[u].pc = "created"
             /\ UnderWay(g)' => [tools |-> tools', logs |-> logs'] \in passed'[g].tables
             /\ fetch'[g].pc = "latencies" => Moment(g, fetch[g].view)'
             /\ Answered(g)' => \E tables \in passed'[g].tables :
                  /\ Moment(g, tables)'
                  /\ answer'[g] = Report(fetch'[g].filter, tables.tools, tables.logs, tables.logs)
  BY DEF OfOneMoment
<1>2. CASE g \in S
  BY <1>2 DEF Gone, Unsent, Unseen, UnderWay, Answered
<1>3. CASE g \notin S
  <2>1. fetch'[g] = fetch[g] /\ passed'[g] = passed[g] /\ answer'[g] = answer[g]
    BY <1>3 DEF Gone
  <2>2. \A tables : Moment(g, tables)' = Moment(g, tables)
    BY <2>1 DEF Moment, Gone
  <2>3. QED
    BY <2>1, <2>2 DEF OfOneMoment, UnderWay, Answered, Gone
<1>4. QED
  BY <1>2, <1>3

\* A statement of get_stats: the first takes the tables as they are, the second
\* reports what the first has seen.
LEMMA ServeMoments ==
  ASSUME TypeOK, Backed, OfOneMoment, NEW f \in Fetch, Serve(f)
  PROVE  OfOneMoment'
<1>1. SUFFICES ASSUME NEW g \in Fetch
      PROVE  /\ \A u \in passed'[g].created : post'[u].pc = "created"
             /\ UnderWay(g)' => [tools |-> tools', logs |-> logs'] \in passed'[g].tables
             /\ fetch'[g].pc = "latencies" => Moment(g, fetch[g].view)'
             /\ Answered(g)' => \E tables \in passed'[g].tables :
                  /\ Moment(g, tables)'
                  /\ answer'[g] = Report(fetch'[g].filter, tables.tools, tables.logs, tables.logs)
  BY DEF OfOneMoment
<1>2. /\ UNCHANGED <<tools, logs, post, passed>>
      /\ g # f => fetch'[g] = fetch[g] /\ answer'[g] = answer[g]
  BY <1>1, Opaque DEF Serve, QueryRows, QueryLatencies, QueryFails
<1>3. \A tables : Moment(g, tables)' = Moment(g, tables)
  BY <1>2 DEF Moment
<1>4. \A u \in passed[g].created : u \in Post /\ post[u].pc = "created"
  BY Opaque DEF OfOneMoment, PassedRecord
<1>5. CASE g # f
  BY <1>2, <1>3, <1>5 DEF OfOneMoment, UnderWay, Answered
<1>6. CASE g = f /\ QueryRows(f)
  <2>1. /\ fetch'[f].pc = "latencies"
        /\ fetch'[f].view = [tools |-> tools, logs |-> logs]
    BY <1>6, Opaque DEF QueryRows, FetchRecord
  <2>2. Moment(f, [tools |-> tools, logs |-> logs])
    <3>1. [tools |-> tools, logs |-> logs] \in passed[f].tables
      BY <1>6 DEF QueryRows, OfOneMoment, UnderWay
    <3>2. \A u \in passed[f].created : post[u].row \in logs
      BY <1>4, <1>6 DEF Backed
    <3>3. QED
      BY <3>1, <3>2 DEF Moment, Backed
  <2>3. QED
    BY <1>2, <1>3, <1>4, <1>6, <2>1, <2>2 DEF Moment, UnderWay, Answered, OfOneMoment
<1>7. CASE g = f /\ QueryLatencies(f)
  <2>0. PICK view : view = fetch[f].view
    OBVIOUS
  <2> DEFINE stats == Report(fetch[f].filter, view.tools, view.logs, view.logs)
  <2>1. Moment(f, view)
    BY <1>7, <2>0 DEF QueryLatencies, OfOneMoment
  <2>2. answer' = [answer EXCEPT ![f] = stats]
    BY <1>7, <2>0, Zenon DEF QueryLatencies
  <2>3. fetch'[f].pc = "answered" /\ fetch'[f].filter = fetch[f].filter
    BY <1>7, Opaque DEF QueryLatencies, FetchRecord
  <2>4. answer'[f] = stats
    BY <2>2, Opaque
  <2> HIDE DEF stats
  <2>5. stats = Report(fetch'[f].filter, view.tools, view.logs, view.logs)
    BY <2>3 DEF stats
  <2>6. view \in passed'[f].tables /\ Moment(f, view)'
    BY <1>2, <1>3, <1>7, <2>1 DEF Moment
  <2>7. QED
    BY <1>2, <1>4, <1>7, <2>3, <2>4, <2>5, <2>6 DEF UnderWay, Answered
<1>8. CASE g = f /\ QueryFails(f)
  <2>1. fetch'[f].pc = "failed"
    BY <1>8, Opaque DEF QueryFails, FetchRecord
  <2>2. QED
    BY <1>2, <1>4, <1>8, <2>1 DEF UnderWay, Answered
<1>9. QED
  BY <1>5, <1>6, <1>7, <1>8 DEF Serve

LEMMA StatsStep ==
  ASSUME TypeOK, StatsInv, [Next]_vars
  PROVE  StatsInv'
<1> USE DEF StatsInv
<1>1. ASSUME NEW tool \in Tool, Register(tool)
      PROVE  StatsInv'
  <2>1. Backed'
    BY <1>1 DEF Register, Change, Backed
  <2>2. OfOneMoment'
    BY <1>1, ChangeMoments DEF Register
  <2>3. QED
    BY <2>1, <2>2
<1>2. ASSUME NEW u \in Post, Commit(u)
      PROVE  StatsInv'
  <2>1. \A v \in Post : post[v].pc = "created" => post'[v] = post[v]
    BY <1>2 DEF Commit, PostAt, TypeOK
  <2>2. /\ logs' = logs \cup {post[u].row} /\ tools' = tools
        /\ post[u].row.tool \in tools
    BY <1>2 DEF Commit, Change, Backed
  <2>3. /\ \A v \in Post : post'[v].row = post[v].row
        /\ \A v \in Post \ {u} : post'[v] = post[v]
    <3>1. \E pc \in {"created", "failed"} : post' = [post EXCEPT ![u].pc = pc]
      BY <1>2 DEF Commit, PostAt
    <3>2. post \in [Post -> [pc : PostPC, row : LogRow \cup {Nothing}]]
      BY DEF TypeOK
    <3>3. QED
      BY <3>1, <3>2
  <2>4. IsFiniteSet(logs')
    BY <2>2, FS_AddElement DEF Backed
  <2>5. Backed'
    BY <2>2, <2>3, <2>4 DEF Backed
  <2>6. OfOneMoment'
    BY <1>2, <2>1, ChangeMoments DEF Commit
  <2>7. QED
    BY <2>5, <2>6
<1>3. ASSUME NEW u \in Post, Look(u) \/ Insert(u) \/ PostFails(u)
      PROVE  StatsInv'
  <2>1. UNCHANGED <<tools, logs, fetch, answer, passed>>
    BY <1>3 DEF Look, Insert, PostFails
  <2>2. \A v \in Post : post[v].pc = "created" => post'[v] = post[v]
    BY <1>3 DEF Look, Insert, PostFails, PostAt, TypeOK
  <2>3. \A v \in Post : /\ post'[v].pc = "created" => post[v].pc = "created"
                        /\ post'[v].pc \in {"insert", "commit", "created"} => post'[v].row.tool \in tools
    <3>1. CASE Look(u)
      BY <3>1 DEF Look, Backed, TypeOK
    <3>2. CASE Insert(u)
      <4>1. post[u].row \in LogRow
        BY <3>2 DEF Insert, TypeOK
      <4>2. [post[u].row EXCEPT !.at = now].tool = post[u].row.tool
        BY <4>1 DEF LogRow
      <4>3. QED
        BY <3>2, <4>2 DEF Insert, Backed, TypeOK
    <3>3. CASE PostFails(u)
      BY <3>3 DEF PostFails, PostAt, Backed, TypeOK
    <3>4. QED
      BY <1>3, <3>1, <3>2, <3>3
  <2>4. Backed'
    BY <2>1, <2>2, <2>3 DEF Backed
  <2>5. OfOneMoment'
    BY <2>1, <2>2, QuietMoments
  <2>6. QED
    BY <2>4, <2>5
<1>4. ASSUME UNCHANGED <<tools, logs, post>>
      PROVE  Backed'
  BY <1>4 DEF Backed
<1>5. ASSUME NEW f \in Fetch, NEW filter \in Filter, Refetch(f, filter)
      PROVE  StatsInv'
  BY <1>4, <1>5, RefetchMoments DEF Refetch
<1>6. ASSUME NEW f \in Fetch, Open(f) \/ Retry(f)
      PROVE  StatsInv'
  BY <1>5, <1>6, TypedPage DEF Open, Retry
<1>7. ASSUME NEW f \in Fetch, NEW filter \in Filter, ChangeFilter(f, filter)
      PROVE  StatsInv'
  BY <1>5, <1>7 DEF ChangeFilter
<1>8. ASSUME NEW S, Gone(S)
      PROVE  StatsInv'
  BY <1>4, <1>8, GoneMoments DEF Gone
<1>9. ASSUME NEW f \in Fetch, Receive(f)
      PROVE  StatsInv'
  BY <1>8, <1>9 DEF Receive, Deliver, DeliverError
<1>10. CASE Leave
  BY <1>8, <1>10 DEF Leave
<1>11. ASSUME NEW f \in Fetch, Serve(f)
       PROVE  StatsInv'
  BY <1>4, <1>11, ServeMoments DEF Serve, QueryRows, QueryLatencies, QueryFails
<1>12. CASE Tick \/ UNCHANGED vars
  BY <1>4, <1>12, QuietMoments DEF Tick, vars
<1>13. QED
  BY <1>1, <1>2, <1>3, <1>6, <1>7, <1>9, <1>10, <1>11, <1>12 DEF Next

\* The inductive invariant behind the statistics: each answer is the report of
\* the tables at one moment while its request was under way, with every usage row
\* that was answered 201 before it was sent.
THEOREM StatsInvariant == Spec => [](TypeOK /\ StatsInv)
BY TypedInit, TypedStep, StatsInit, StatsStep, PTL DEF Spec

\* A usage post that was answered 201 is in every answer asked for later
\* (usage.py:35): any number of posts, fetches and tools, any faults.
THEOREM CreatedIsCountedAlways == Spec => []CreatedIsCounted
<1>1. ASSUME TypeOK, StatsInv
      PROVE  CreatedIsCounted
  <2>1. SUFFICES ASSUME NEW f \in Fetch, Answered(f), NEW tool \in Tool,
                        NEW known, known = InFilter(fetch[f].filter,
                                     {post[u].row : u \in passed[f].created}, tool),
                        known # {}
                 PROVE  /\ tool \in DOMAIN answer[f]
                        /\ answer[f][tool].invocations >= Cardinality(known)
    BY DEF CreatedIsCounted
  <2>2. PICK tables \in passed[f].tables :
          /\ Moment(f, tables)
          /\ answer[f] = Report(fetch[f].filter, tables.tools, tables.logs, tables.logs)
    BY <1>1, <2>1 DEF StatsInv, OfOneMoment
  <2> DEFINE rows == InFilter(fetch[f].filter, tables.logs, tool)
  <2>3. known \subseteq rows /\ rows \subseteq tables.logs
    BY <2>1, <2>2 DEF InFilter, Moment
  <2>4. IsFiniteSet(rows) /\ Cardinality(rows) \in Nat /\ Cardinality(known) <= Cardinality(rows)
        /\ Cardinality(known) \in Nat
    BY <2>2, <2>3, FS_Subset, FS_CardinalityType DEF Moment
  <2>5. tool \in Listed(fetch[f].filter, tables.tools, tables.logs)
    <3>1. PICK r \in rows : TRUE
      BY <2>1, <2>3
    <3>2. r \in tables.logs /\ r.tool = tool /\ fetch[f].filter.tool \in {AnyTool, r.tool}
      BY <3>1 DEF InFilter, Selects
    <3>3. tool \in tables.tools
      BY <2>2, <3>2 DEF Moment
    <3>4. QED
      BY <3>1, <3>2, <3>3 DEF Listed
  <2>6. tool \in DOMAIN answer[f] /\ answer[f][tool].invocations = Cardinality(rows)
    BY <2>2, <2>5 DEF Report
  <2>7. QED
    BY <2>4, <2>6
<1>2. QED
  BY <1>1, StatsInvariant, PTL

\* The usage rows of a moment, for one tool of a report: a finite set, with latencies
LEMMA RowsOfMoment ==
  ASSUME TypeOK, NEW f \in Fetch, NEW tables, Moment(f, tables),
         NEW filter, NEW tool
  PROVE  /\ InFilter(filter, tables.logs, tool) \in SUBSET tables.logs
         /\ IsFiniteSet(InFilter(filter, tables.logs, tool))
         /\ \A r \in InFilter(filter, tables.logs, tool) : r.latency \in Latency
<1>1. tables.logs \subseteq Rows /\ IsFiniteSet(tables.logs)
  BY Opaque DEF Moment, PassedRecord, Tables
<1>2. InFilter(filter, tables.logs, tool) \in SUBSET tables.logs
  BY DEF InFilter
<1>3. \A r \in Rows : r.latency \in Latency
  BY EarlierAssumption DEF Rows, LogRow
<1>4. QED
  BY <1>1, <1>2, <1>3, FS_Subset

\* Every answer of the statistics describes the tables at one moment between its
\* request and its response (stats.py:77), counts and percentiles alike, for any
\* number of rows: the report is made of one snapshot, and ORDER BY finds the
\* order that a quantile is defined by.
THEOREM AnswersAreSnapshotsAlways == Spec => []AnswersAreSnapshots
<1>1. ASSUME TypeOK, StatsInv
      PROVE  AnswersAreSnapshots
  <2>1. SUFFICES ASSUME NEW f \in Fetch, Answered(f)
                 PROVE  \E tables \in passed[f].tables :
                          Describes(answer[f], fetch[f].filter, tables)
    BY DEF AnswersAreSnapshots
  <2>2. PICK tables \in passed[f].tables :
          /\ Moment(f, tables)
          /\ answer[f] = Report(fetch[f].filter, tables.tools, tables.logs, tables.logs)
    BY <1>1, <2>1 DEF StatsInv, OfOneMoment
  <2> DEFINE filter == fetch[f].filter
             rows(tool) == InFilter(filter, tables.logs, tool)
  <2>3. ASSUME NEW tool
        PROVE  IsFiniteSet(rows(tool)) /\ \A r \in rows(tool) : r.latency \in Latency
    BY <1>1, <2>2, RowsOfMoment
  <2>4. ASSUME NEW tool, filter.tool \in {AnyTool, tool}
        PROVE  rows(tool) = Recent(filter, tables, tool)
    BY <2>4 DEF InFilter, Selects, Recent
  <2>5. DOMAIN answer[f] = Listed(filter, tables.tools, tables.logs)
    BY <2>2, ReportTools DEF Report
  <2>6. ASSUME NEW tool \in tables.tools
        PROVE  tool \in DOMAIN answer[f] <=>
                 /\ filter.tool \in {AnyTool, tool}
                 /\ filter.since = AnyTime \/ Recent(filter, tables, tool) # {}
    BY <2>4, <2>5 DEF Listed
  <2>7. ASSUME NEW tool \in DOMAIN answer[f]
        PROVE  /\ tool \in tables.tools
               /\ answer[f][tool].invocations = Cardinality(Recent(filter, tables, tool))
               /\ answer[f][tool].successes + answer[f][tool].errors
                    = answer[f][tool].invocations
    <3> DEFINE good == {r \in rows(tool) : r.success}
               bad == {r \in rows(tool) : ~ r.success}
    <3>1. tool \in tables.tools /\ filter.tool \in {AnyTool, tool}
      BY <2>5, <2>7 DEF Listed
    <3>2. /\ answer[f][tool].invocations = Cardinality(rows(tool))
          /\ answer[f][tool].successes = Cardinality(good)
          /\ answer[f][tool].errors = Cardinality(bad)
      BY <2>2, <2>5, <2>7 DEF Report
    <3>3. IsFiniteSet(rows(tool))
      BY <2>3
    <3>4. good \cup bad = rows(tool) /\ good \cap bad = {}
      OBVIOUS
    <3>5. /\ IsFiniteSet(good) /\ IsFiniteSet(bad)
          /\ good \in SUBSET rows(tool) /\ bad \in SUBSET rows(tool)
      BY <3>3, FS_Subset
    <3> HIDE DEF good, bad
    <3>6. /\ Cardinality(good) \in Nat /\ Cardinality(bad) \in Nat
          /\ Cardinality(good \cap bad) = 0
      BY <3>4, <3>5, FS_CardinalityType, FS_EmptySet
    <3>7. Cardinality(good \cup bad) = Cardinality(good) + Cardinality(bad) - Cardinality(good \cap bad)
      BY <3>5, FS_Union
    <3>8. Cardinality(good) + Cardinality(bad) = Cardinality(rows(tool))
      <4>1. Cardinality(good \cup bad) = Cardinality(good) + Cardinality(bad)
        BY <3>6, <3>7
      <4>2. QED
        BY <3>4, <4>1, Zenon
    <3>9. QED
      BY <2>4, <3>1, <3>2, <3>8
  <2>8. ASSUME NEW tool \in DOMAIN answer[f]
        PROVE  /\ IsQuantile(answer[f][tool].p50, Recent(filter, tables, tool), 10)
               /\ IsQuantile(answer[f][tool].p95, Recent(filter, tables, tool), 19)
    <3>1. rows(tool) = Recent(filter, tables, tool)
      BY <2>4, <2>5, <2>8 DEF Listed
    <3>2. /\ answer[f][tool].p50 = Percentile(Series(rows(tool)), 10)
          /\ answer[f][tool].p95 = Percentile(Series(rows(tool)), 19)
      BY <2>2, <2>5, <2>8 DEF Report
    <3>3. /\ IsQuantile(Percentile(Series(rows(tool)), 10), rows(tool), 10)
          /\ IsQuantile(Percentile(Series(rows(tool)), 19), rows(tool), 19)
      BY <2>3, PercentileIsQuantile
    <3>4. QED
      BY <3>1, <3>2, <3>3
  <2>9. Counts(answer[f], filter, tables)
    BY <2>2, <2>6, <2>7 DEF Counts
  <2>10. Describes(answer[f], filter, tables)
    BY <2>8, <2>9 DEF Describes
  <2>11. QED
    BY <2>2, <2>10 DEF Moment
<1>2. QED
  BY <1>1, StatsInvariant, PTL

\* No item of an answer has a p50 above its p95 (stats.py:121): the two are read
\* off one series, in order.
PercentilesInOrder ==
  \A f \in Fetch : Answered(f) =>
    \A tool \in DOMAIN answer[f] : answer[f][tool].p50 <= answer[f][tool].p95

THEOREM PercentilesInOrderAlways == Spec => []PercentilesInOrder
<1>1. ASSUME TypeOK, StatsInv
      PROVE  PercentilesInOrder
  <2>1. SUFFICES ASSUME NEW f \in Fetch, Answered(f), NEW tool \in DOMAIN answer[f]
                 PROVE  answer[f][tool].p50 <= answer[f][tool].p95
    BY DEF PercentilesInOrder
  <2>2. PICK tables \in passed[f].tables :
          /\ Moment(f, tables)
          /\ answer[f] = Report(fetch[f].filter, tables.tools, tables.logs, tables.logs)
    BY <1>1, <2>1 DEF StatsInv, OfOneMoment
  <2> DEFINE rows == InFilter(fetch[f].filter, tables.logs, tool)
  <2>3. IsFiniteSet(rows) /\ \A r \in rows : r.latency \in Latency
    BY <1>1, <2>2, RowsOfMoment
  <2>4. tool \in Listed(fetch[f].filter, tables.tools, tables.logs)
    BY <2>1, <2>2, ReportTools DEF Report
  <2>5. /\ answer[f][tool].p50 = Percentile(Series(rows), 10)
        /\ answer[f][tool].p95 = Percentile(Series(rows), 19)
    BY <2>2, <2>4 DEF Report
  <2>6. Percentile(Series(rows), 10) <= Percentile(Series(rows), 19)
    BY <2>3, SeriesInOrder, PercentilesOrdered
  <2>7. QED
    BY <2>5, <2>6
<1>2. QED
  BY <1>1, StatsInvariant, PTL
=============================================================================
