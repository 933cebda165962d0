------------------------------- MODULE SumsProofs -------------------------------
(* What running totals, ranks and largest remainders need: induction over the
   naturals, the arithmetic of SumTo, and ranks in a strict total order. *)
EXTENDS Sums, FiniteSets, FiniteSetTheorems, FunctionTheorems, TLAPS

\* Induction over the naturals for a set of them.  The library states induction
\* for an operator, which cannot be instantiated here; this form follows from
\* the pigeonhole principle: a set closed under successors that misses n maps
\* -1 and its members below n, by adding one, into its members below n.
LEMMA SetInduction ==
  ASSUME NEW S, 0 \in S, \A n \in Nat : n \in S => n + 1 \in S
  PROVE  \A n \in Nat : n \in S
<1>1. SUFFICES ASSUME NEW n \in Nat, n \notin S
               PROVE  FALSE
  OBVIOUS
<1> DEFINE below == {k \in 0..n : \A j \in 0..k : j \in S}
           from  == below \cup {-1}
           up    == [k \in from |-> k + 1]
<1>2. IsFiniteSet(0..n)
  BY FS_Interval
<1>3. IsFiniteSet(below)
  BY <1>2, FS_Subset
<1>4. -1 \notin below
  OBVIOUS
<1>5. IsFiniteSet(from) /\ Cardinality(from) = Cardinality(below) + 1
  BY <1>3, <1>4, FS_AddElement
<1>6. Cardinality(below) \in Nat
  BY <1>3, FS_CardinalityType
<1>7. up \in [from -> below]
  <2>1. ASSUME NEW k \in from PROVE k + 1 \in below
    <3>1. CASE k = -1
      BY <3>1
    <3>2. CASE k \in below
      <4>1. k \in 0..n /\ k \in S /\ k # n
        BY <1>1, <3>2
      <4>2. k + 1 \in 0..n /\ k + 1 \in S
        BY <4>1
      <4>3. ASSUME NEW j \in 0..(k + 1) PROVE j \in S
        <5>1. j \in 0..k \/ j = k + 1
          BY <4>1
        <5> QED
          BY <3>2, <4>2, <5>1
      <4> QED
        BY <4>2, <4>3
    <3> QED
      BY <3>1, <3>2
  <2> QED
    BY <2>1
<1>8. \A x, y \in from : x # y => up[x] # up[y]
  <2>1. from \subseteq Int
    OBVIOUS
  <2> QED
    BY <2>1
<1> HIDE DEF up
<1>9. Cardinality(below) < Cardinality(from)
  BY <1>5, <1>6
<1>10. \E x, y \in from : x # y /\ up[x] = up[y]
  <2> HIDE DEF from, below
  <2> QED
    BY <1>3, <1>5, <1>7, <1>9, FS_PigeonHole
<1> QED
  BY <1>8, <1>10

\* The totals of an array, up to n.
IsTotal(g, a, n) ==
    /\ g[0] = 0
    /\ \A k \in 0..(n - 1) : g[k + 1] = g[k] + a[k + 1]

\* Every array has totals up to every n.
LEMMA TotalsExist ==
  ASSUME NEW a
  PROVE  \A n \in Nat : \E g : IsTotal(g, a, n)
<1> DEFINE S == {n \in Nat : \E g : IsTotal(g, a, n)}
<1>1. 0 \in S
  <2>1. IsTotal([k \in {0} |-> 0], a, 0)
    BY DEF IsTotal
  <2> QED
    BY <2>1
<1>2. ASSUME NEW n \in Nat, n \in S PROVE n + 1 \in S
  <2>1. PICK g : IsTotal(g, a, n)
    BY <1>2
  <2> DEFINE h == [k \in 0..(n + 1) |-> IF k = n + 1 THEN g[n] + a[n + 1] ELSE g[k]]
  <2>2. h[0] = 0
    BY <2>1 DEF IsTotal
  <2>3. ASSUME NEW k \in 0..n PROVE h[k + 1] = h[k] + a[k + 1]
    <3>1. CASE k = n
      BY <3>1
    <3>2. CASE k # n
      <4>1. k \in 0..(n - 1) /\ k + 1 \in 0..(n + 1) /\ k + 1 # n + 1 /\ k \in 0..(n + 1) /\ k # n + 1
        BY <3>2
      <4>2. h[k + 1] = g[k + 1] /\ h[k] = g[k]
        BY <4>1
      <4> QED
        BY <2>1, <4>1, <4>2 DEF IsTotal
    <3> QED
      BY <3>1, <3>2
  <2>4. IsTotal(h, a, n + 1)
    <3> HIDE DEF h
    <3> QED
      BY <2>2, <2>3 DEF IsTotal
  <2> QED
    BY <2>4
<1> HIDE DEF S
<1>3. \A n \in Nat : n \in S
  BY <1>1, <1>2, SetInduction
<1> QED
  BY <1>3 DEF S

\* Two tables of totals of one array agree wherever both are defined.
LEMMA TotalsAgree ==
  ASSUME NEW a, NEW n \in Nat, NEW m \in Nat, NEW g, NEW h, IsTotal(g, a, n), IsTotal(h, a, m),
         NEW k \in Nat, k <= n, k <= m
  PROVE  g[k] = h[k]
<1> DEFINE S == {i \in Nat : i <= n /\ i <= m => g[i] = h[i]}
<1>1. 0 \in S
  BY DEF IsTotal
<1>2. ASSUME NEW i \in Nat, i \in S PROVE i + 1 \in S
  <2>1. SUFFICES ASSUME i + 1 <= n, i + 1 <= m PROVE g[i + 1] = h[i + 1]
    OBVIOUS
  <2>2. i \in 0..(n - 1) /\ i \in 0..(m - 1) /\ g[i] = h[i]
    BY <1>2, <2>1
  <2> QED
    BY <2>2 DEF IsTotal
<1> HIDE DEF S
<1>3. k \in S
  BY <1>1, <1>2, SetInduction
<1> QED
  BY <1>3 DEF S

\* SumTo is what its definition says, one step at a time.
LEMMA SumSteps ==
  ASSUME NEW a
  PROVE  /\ SumTo(a, 0) = 0
         /\ \A n \in Nat : SumTo(a, n + 1) = SumTo(a, n) + a[n + 1]
<1> DEFINE upTo(n) == CHOOSE g : IsTotal(g, a, n)
           f == [n \in Nat |-> upTo(n)[n]]
           Step(g) == [k \in Nat |-> IF k = 0 THEN 0 ELSE g[k - 1] + a[k]]
<1>1. \A n \in Nat : IsTotal(upTo(n), a, n)
  BY TotalsExist
<1>2. ASSUME NEW n \in Nat PROVE upTo(n + 1)[n] = upTo(n)[n]
  <2>1. n + 1 \in Nat /\ n <= n + 1
    OBVIOUS
  <2> QED
    BY <1>1, <2>1, TotalsAgree
<1>3. f = Step(f)
  <2>1. f[0] = 0
    BY <1>1 DEF IsTotal
  <2>2. ASSUME NEW k \in Nat \ {0} PROVE f[k] = f[k - 1] + a[k]
    <3>1. k - 1 \in Nat /\ k - 1 \in 0..(k - 1) /\ (k - 1) + 1 = k
      OBVIOUS
    <3>2. upTo(k)[k] = upTo(k)[k - 1] + a[k]
      BY <1>1, <3>1 DEF IsTotal
    <3>3. upTo(k)[k - 1] = upTo(k - 1)[k - 1]
      BY <1>2, <3>1
    <3> QED
      BY <3>1, <3>2, <3>3
  <2>3. \A k \in Nat : f[k] = Step(f)[k]
    BY <2>1, <2>2
  <2> QED
    BY <2>3
<1>4. ASSUME NEW g, g = Step(g)
      PROVE  g[0] = 0 /\ \A n \in Nat : g[n + 1] = g[n] + a[n + 1]
  <2>1. g[0] = 0
    BY <1>4
  <2>2. ASSUME NEW n \in Nat PROVE g[n + 1] = g[n] + a[n + 1]
    <3>1. n + 1 \in Nat /\ n + 1 # 0 /\ (n + 1) - 1 = n
      OBVIOUS
    <3> QED
      BY <1>4, <3>1
  <2> QED
    BY <2>1, <2>2
<1> DEFINE total == CHOOSE g : g = Step(g)
<1>5. total = Step(total)
  BY <1>3
<1>6. \A n \in Nat : SumTo(a, n) = total[n]
  BY DEF SumTo
<1> HIDE DEF total
<1> QED
  BY <1>4, <1>5, <1>6

\* The array holds natural numbers up to n.
Naturals(a, n) == \A k \in 1..n : a[k] \in Nat

\* A sum of natural numbers is one, and grows with every element.
LEMMA SumType ==
  ASSUME NEW a, NEW n \in Nat, Naturals(a, n)
  PROVE  /\ \A m \in 0..n : SumTo(a, m) \in Nat
         /\ \A m \in 0..(n - 1) : SumTo(a, m + 1) = SumTo(a, m) + a[m + 1]
<1> DEFINE S == {m \in Nat : m <= n => SumTo(a, m) \in Nat}
<1>1. 0 \in S
  BY SumSteps
<1>2. ASSUME NEW m \in Nat, m \in S PROVE m + 1 \in S
  <2>1. SUFFICES ASSUME m + 1 <= n PROVE SumTo(a, m + 1) \in Nat
    OBVIOUS
  <2>2. m <= n /\ SumTo(a, m) \in Nat /\ m + 1 \in 1..n
    BY <1>2, <2>1
  <2>3. a[m + 1] \in Nat
    BY <2>2 DEF Naturals
  <2> QED
    BY <2>2, <2>3, SumSteps
<1> HIDE DEF S
<1>3. \A m \in Nat : m \in S
  BY <1>1, <1>2, SetInduction
<1>4. \A m \in 0..n : m \in S /\ m <= n
  BY <1>3
<1>5. \A m \in 0..(n - 1) : m \in Nat
  OBVIOUS
<1> QED
  BY <1>4, <1>5, SumSteps DEF S

\* The totals of natural numbers never decrease.
LEMMA SumMonotone ==
  ASSUME NEW a, NEW n \in Nat, Naturals(a, n), NEW l \in 0..n
  PROVE  \A m \in l..n : SumTo(a, l) <= SumTo(a, m)
<1> DEFINE S == {d \in Nat : l + d <= n => SumTo(a, l) <= SumTo(a, l + d)}
<1>1. 0 \in S
  <2>1. SumTo(a, l) \in Nat /\ l + 0 = l
    BY SumType
  <2> QED
    BY <2>1
<1>2. ASSUME NEW d \in Nat, d \in S PROVE d + 1 \in S
  <2>1. SUFFICES ASSUME l + (d + 1) <= n PROVE SumTo(a, l) <= SumTo(a, l + (d + 1))
    OBVIOUS
  <2>2. l + d \in 0..(n - 1) /\ l + d \in 0..n /\ (l + d) + 1 = l + (d + 1) /\ l + d <= n
        /\ (l + d) + 1 \in 1..n
    BY <2>1
  <2>3. SumTo(a, l) <= SumTo(a, l + d)
    BY <1>2, <2>2
  <2>4. /\ SumTo(a, l) \in Nat /\ SumTo(a, l + d) \in Nat /\ a[(l + d) + 1] \in Nat
        /\ SumTo(a, (l + d) + 1) = SumTo(a, l + d) + a[(l + d) + 1]
    BY <2>2, SumType DEF Naturals
  <2> QED
    BY <2>2, <2>3, <2>4
<1> HIDE DEF S
<1>3. \A d \in Nat : d \in S
  BY <1>1, <1>2, SetInduction
<1>4. ASSUME NEW m \in l..n PROVE SumTo(a, l) <= SumTo(a, m)
  <2>1. m - l \in Nat /\ l + (m - l) = m /\ l + (m - l) <= n
    OBVIOUS
  <2> QED
    BY <1>3, <2>1 DEF S
<1> QED
  BY <1>4

\* Sums are linear,
LEMMA SumLinear ==
  ASSUME NEW n \in Nat, NEW a, NEW b, NEW c, NEW r \in Nat, NEW q \in Nat,
         Naturals(a, n), Naturals(b, n), Naturals(c, n),
         \A k \in 1..n : r * a[k] + b[k] = q * c[k]
  PROVE  r * SumTo(a, n) + SumTo(b, n) = q * SumTo(c, n)
<1> DEFINE S == {m \in Nat : m <= n => r * SumTo(a, m) + SumTo(b, m) = q * SumTo(c, m)}
<1>1. 0 \in S
  BY SumSteps
<1>2. ASSUME NEW m \in Nat, m \in S PROVE m + 1 \in S
  <2>1. SUFFICES ASSUME m + 1 <= n
                 PROVE  r * SumTo(a, m + 1) + SumTo(b, m + 1) = q * SumTo(c, m + 1)
    OBVIOUS
  <2>2. m \in 0..(n - 1) /\ m \in 0..n /\ m + 1 \in 1..n /\ m <= n
    BY <2>1
  <2>3. /\ SumTo(a, m) \in Nat /\ SumTo(b, m) \in Nat /\ SumTo(c, m) \in Nat
        /\ SumTo(a, m + 1) = SumTo(a, m) + a[m + 1]
        /\ SumTo(b, m + 1) = SumTo(b, m) + b[m + 1]
        /\ SumTo(c, m + 1) = SumTo(c, m) + c[m + 1]
    BY <2>2, SumType
  <2>4. a[m + 1] \in Nat /\ b[m + 1] \in Nat /\ c[m + 1] \in Nat
    BY <2>2 DEF Naturals
  <2>5. \A x, y, z \in Nat : z * (x + y) = z * x + z * y
    OBVIOUS
  <2>6. /\ r * (SumTo(a, m) + a[m + 1]) = r * SumTo(a, m) + r * a[m + 1]
        /\ q * (SumTo(c, m) + c[m + 1]) = q * SumTo(c, m) + q * c[m + 1]
    BY <2>3, <2>4, <2>5
  <2>7. r * SumTo(a, m) + SumTo(b, m) = q * SumTo(c, m)
    BY <1>2, <2>2
  <2>8. r * a[m + 1] + b[m + 1] = q * c[m + 1]
    BY <2>2
  <2>9. \A x, y \in Nat : x * y \in Nat
    OBVIOUS
  <2>10. /\ r * SumTo(a, m) \in Nat /\ r * a[m + 1] \in Nat
         /\ q * SumTo(c, m) \in Nat /\ q * c[m + 1] \in Nat
    BY <2>3, <2>4, <2>9
  <2> QED
    BY <2>3, <2>4, <2>6, <2>7, <2>8, <2>10
<1> HIDE DEF S
<1>3. n \in S
  BY <1>1, <1>2, SetInduction
<1> QED
  BY <1>3 DEF S

\* ... respect the order of their elements,
LEMMA SumSmaller ==
  ASSUME NEW n \in Nat, NEW a, NEW b, Naturals(a, n), Naturals(b, n),
         \A k \in 1..n : a[k] <= b[k]
  PROVE  SumTo(a, n) <= SumTo(b, n)
<1> DEFINE S == {m \in Nat : m <= n => SumTo(a, m) <= SumTo(b, m)}
<1>1. 0 \in S
  BY SumSteps
<1>2. ASSUME NEW m \in Nat, m \in S PROVE m + 1 \in S
  <2>1. SUFFICES ASSUME m + 1 <= n PROVE SumTo(a, m + 1) <= SumTo(b, m + 1)
    OBVIOUS
  <2>2. m \in 0..(n - 1) /\ m \in 0..n /\ m + 1 \in 1..n /\ m <= n
    BY <2>1
  <2>3. /\ SumTo(a, m) \in Nat /\ SumTo(b, m) \in Nat
        /\ SumTo(a, m + 1) = SumTo(a, m) + a[m + 1]
        /\ SumTo(b, m + 1) = SumTo(b, m) + b[m + 1]
    BY <2>2, SumType
  <2>4. a[m + 1] \in Nat /\ b[m + 1] \in Nat /\ a[m + 1] <= b[m + 1]
    BY <2>2 DEF Naturals
  <2> QED
    BY <1>2, <2>2, <2>3, <2>4
<1> HIDE DEF S
<1>3. n \in S
  BY <1>1, <1>2, SetInduction
<1> QED
  BY <1>3 DEF S

\* ... and count: the sum of a set's indicator is its cardinality.
LEMMA SumCounts ==
  ASSUME NEW n \in Nat, NEW B \in SUBSET (1..n), NEW a,
         \A k \in 1..n : a[k] = IF k \in B THEN 1 ELSE 0
  PROVE  Naturals(a, n) /\ SumTo(a, n) = Cardinality(B)
<1>0. Naturals(a, n)
  BY DEF Naturals
<1> DEFINE T(m) == B \cap (1..m)
           S == {m \in Nat : m <= n => SumTo(a, m) = Cardinality(T(m))}
<1>1. 0 \in S
  <2>1. T(0) = {}
    OBVIOUS
  <2> QED
    BY <2>1, SumSteps, FS_EmptySet
<1>2. ASSUME NEW m \in Nat, m \in S PROVE m + 1 \in S
  <2>1. SUFFICES ASSUME m + 1 <= n PROVE SumTo(a, m + 1) = Cardinality(T(m + 1))
    OBVIOUS
  <2>2. m \in 0..(n - 1) /\ m + 1 \in 1..n /\ m <= n
    BY <2>1
  <2>3. SumTo(a, m + 1) = SumTo(a, m) + a[m + 1] /\ SumTo(a, m) = Cardinality(T(m))
    BY <1>0, <1>2, <2>2, SumType
  <2>4. IsFiniteSet(T(m))
    <3>1. IsFiniteSet(1..m) /\ T(m) \in SUBSET (1..m)
      BY FS_Interval
    <3> QED
      BY <3>1, FS_Subset
  <2>5. m + 1 \notin T(m) /\ Cardinality(T(m)) \in Nat
    BY <2>4, FS_CardinalityType
  <2>6. CASE m + 1 \in B
    <3>1. T(m + 1) = T(m) \cup {m + 1}
      BY <2>6
    <3>2. Cardinality(T(m) \cup {m + 1}) = Cardinality(T(m)) + 1
      BY <2>4, <2>5, FS_AddElement
    <3> QED
      BY <2>2, <2>3, <2>5, <2>6, <3>1, <3>2
  <2>7. CASE m + 1 \notin B
    <3>1. T(m + 1) = T(m)
      BY <2>7
    <3> QED
      BY <2>2, <2>3, <2>5, <2>7, <3>1
  <2> QED
    BY <2>6, <2>7
<1> HIDE DEF S
<1>3. n \in S
  BY <1>1, <1>2, SetInduction
<1>4. T(n) = B
  OBVIOUS
<1> QED
  BY <1>0, <1>3, <1>4 DEF S

\* The ranges between consecutive totals cut up 1..SumTo: every number falls into
\* exactly one of them.
LEMMA SumCutsUp ==
  ASSUME NEW a, NEW n \in Nat, Naturals(a, n), NEW x \in 1..SumTo(a, n)
  PROVE  \E i \in 1..n : /\ SumTo(a, i - 1) < x /\ x <= SumTo(a, i - 1) + a[i]
                         /\ \A j \in 1..n : SumTo(a, j - 1) < x /\ x <= SumTo(a, j - 1) + a[j]
                                            => j = i
<1> DEFINE S == {m \in Nat : m <= n /\ x <= SumTo(a, m) =>
                   \E i \in 1..m : SumTo(a, i - 1) < x /\ x <= SumTo(a, i)}
<1>0. x \in Nat /\ x > 0
  <2>1. SumTo(a, n) \in Nat
    BY SumType
  <2> QED
    BY <2>1
<1>1. 0 \in S
  BY <1>0, SumSteps
<1>2. ASSUME NEW m \in Nat, m \in S PROVE m + 1 \in S
  <2>1. SUFFICES ASSUME m + 1 <= n, x <= SumTo(a, m + 1)
                 PROVE  \E i \in 1..(m + 1) : SumTo(a, i - 1) < x /\ x <= SumTo(a, i)
    OBVIOUS
  <2>2. CASE x <= SumTo(a, m)
    <3>1. \E i \in 1..m : SumTo(a, i - 1) < x /\ x <= SumTo(a, i)
      BY <1>2, <2>1, <2>2
    <3> QED
      BY <3>1
  <2>3. CASE ~(x <= SumTo(a, m))
    <3>1. SumTo(a, m) \in Nat /\ m + 1 \in 1..(m + 1) /\ (m + 1) - 1 = m
      BY <2>1, SumType
    <3> QED
      BY <1>0, <2>1, <2>3, <3>1
  <2> QED
    BY <2>2, <2>3
<1> HIDE DEF S
<1>3. n \in S
  BY <1>1, <1>2, SetInduction
<1>4. x <= SumTo(a, n)
  OBVIOUS
<1>5. PICK i \in 1..n : SumTo(a, i - 1) < x /\ x <= SumTo(a, i)
  BY <1>3, <1>4 DEF S
<1>6. \A j \in 1..n : /\ j - 1 \in 0..(n - 1) /\ j - 1 \in 0..n /\ j \in 0..n /\ (j - 1) + 1 = j
                      /\ SumTo(a, j) = SumTo(a, j - 1) + a[j]
                      /\ SumTo(a, j - 1) \in Nat /\ SumTo(a, j) \in Nat
  <2>1. ASSUME NEW j \in 1..n
        PROVE  j - 1 \in 0..(n - 1) /\ j - 1 \in 0..n /\ j \in 0..n /\ (j - 1) + 1 = j
    OBVIOUS
  <2> QED
    BY <2>1, SumType
<1>7. ASSUME NEW j \in 1..n, SumTo(a, j - 1) < x, x <= SumTo(a, j)
      PROVE  j = i
  <2>1. CASE j < i
    <3>1. i - 1 \in j..n /\ j \in 0..n
      BY <2>1
    <3>2. SumTo(a, j) <= SumTo(a, i - 1)
      BY <3>1, SumMonotone
    <3> QED
      BY <1>0, <1>5, <1>6, <1>7, <3>2
  <2>2. CASE i < j
    <3>1. j - 1 \in i..n /\ i \in 0..n
      BY <2>2
    <3>2. SumTo(a, i) <= SumTo(a, j - 1)
      BY <3>1, SumMonotone
    <3> QED
      BY <1>0, <1>5, <1>6, <1>7, <3>2
  <2> QED
    BY <2>1, <2>2
<1> QED
  BY <1>5, <1>6, <1>7

\* A set of natural numbers that is not empty has a least element.
LEMMA LeastElement ==
  ASSUME NEW T \in SUBSET Nat, T # {}
  PROVE  \E x \in T : \A y \in T : x <= y
<1> DEFINE S == {n \in Nat : (\E y \in T : y <= n) => \E x \in T : \A y \in T : x <= y}
<1>1. 0 \in S
  OBVIOUS
<1>2. ASSUME NEW n \in Nat, n \in S PROVE n + 1 \in S
  <2>1. CASE \E y \in T : y <= n
    BY <1>2, <2>1
  <2>2. CASE ~\E y \in T : y <= n
    <3>1. \A y \in T : n + 1 <= y
      BY <2>2
    <3>2. SUFFICES ASSUME NEW x \in T, x <= n + 1 PROVE \A y \in T : x <= y
      OBVIOUS
    <3> QED
      BY <3>1, <3>2
  <2> QED
    BY <2>1, <2>2
<1> HIDE DEF S
<1>3. \A n \in Nat : n \in S
  BY <1>1, <1>2, SetInduction
<1>4. PICK t : t \in T
  OBVIOUS
<1>5. t \in Nat /\ t \in S
  BY <1>3, <1>4
<1> QED
  BY <1>4, <1>5 DEF S

\* A set whose members are ranked without ties from 0 has L members of a rank
\* below L.
LEMMA RanksCount ==
  ASSUME NEW C, IsFiniteSet(C), NEW f \in [C -> 0..(Cardinality(C) - 1)],
         \A x, y \in C : x # y => f[x] # f[y],
         NEW L \in 0..Cardinality(C)
  PROVE  Cardinality({x \in C : f[x] < L}) = L
<1> DEFINE n == Cardinality(C)
           B == {x \in C : f[x] < L}
           g == [x \in B |-> f[x]]
<1>1. n \in Nat
  BY FS_CardinalityType
<1>2. IsFiniteSet(0..(n - 1)) /\ Cardinality(0..(n - 1)) = n
  <2> HIDE DEF n
  <2>1. 0 \in Int /\ n - 1 \in Int
    BY <1>1
  <2>2. /\ IsFiniteSet(0..(n - 1))
        /\ Cardinality(0..(n - 1)) = IF 0 > n - 1 THEN 0 ELSE (n - 1) - 0 + 1
    BY <2>1, FS_Interval
  <2> QED
    BY <1>1, <2>2
<1>3. f \in Injection(C, 0..(n - 1))
  BY DEF Injection, IsInjective
<1>4. f \in Surjection(C, 0..(n - 1))
  <2> HIDE DEF n
  <2> QED
    BY <1>2, <1>3, FS_Injection DEF n
<1>5. L \in Nat /\ IsFiniteSet(0..(L - 1)) /\ Cardinality(0..(L - 1)) = L
  <2>1. L \in Nat
    BY <1>1
  <2> QED
    BY <2>1, FS_Interval
<1>6. g \in [B -> 0..(L - 1)]
  <2>1. ASSUME NEW x \in B PROVE f[x] \in 0..(L - 1)
    <3>1. f[x] \in 0..(n - 1) /\ f[x] < L
      OBVIOUS
    <3> QED
      BY <1>1, <1>5, <3>1
  <2> QED
    BY <2>1
<1>7. g \in Injection(B, 0..(L - 1))
  BY <1>6 DEF Injection, IsInjective
<1>8. g \in Surjection(B, 0..(L - 1))
  <2>1. ASSUME NEW y \in 0..(L - 1) PROVE \E x \in B : g[x] = y
    <3>1. y \in 0..(n - 1) /\ y < L
      BY <1>1, <1>5
    <3>2. PICK x \in C : f[x] = y
      BY <1>4, <3>1 DEF Surjection
    <3> QED
      BY <3>1, <3>2
  <2> QED
    BY <1>6, <2>1 DEF Surjection
<1> HIDE DEF B, g
<1>9. Cardinality(B) = Cardinality(0..(L - 1))
  BY <1>5, <1>7, <1>8, FS_Injection
<1> QED
  BY <1>5, <1>9 DEF B

\* A strict total order on C, and the rank of a member: how many go before it.
Orders(R, C) ==
    /\ \A x \in C : <<x, x>> \notin R
    /\ \A x, y, z \in C : <<x, y>> \in R /\ <<y, z>> \in R => <<x, z>> \in R
    /\ \A x, y \in C : x # y => <<x, y>> \in R \/ <<y, x>> \in R
Rank(R, C, x) == Cardinality({y \in C : <<y, x>> \in R})

\* Ranks differ, and grow with the order.
LEMMA RanksDiffer ==
  ASSUME NEW C, IsFiniteSet(C), NEW R, Orders(R, C)
  PROVE  /\ \A x \in C : Rank(R, C, x) \in 0..(Cardinality(C) - 1)
         /\ \A x, y \in C : x # y => Rank(R, C, x) # Rank(R, C, y)
         /\ \A x, y \in C : Rank(R, C, x) < Rank(R, C, y) => x # y /\ <<x, y>> \in R
<1> USE DEF Orders
<1> DEFINE f == [x \in C |-> Cardinality({y \in C : <<y, x>> \in R})]
<1> DEFINE n == Cardinality(C)
           Front(x) == {y \in C : <<y, x>> \in R}
<1>1. n \in Nat
  BY FS_CardinalityType
<1>2. ASSUME NEW x \in C
      PROVE  /\ IsFiniteSet(Front(x)) /\ Cardinality(Front(x)) \in 0..(n - 1)
             /\ f[x] = Cardinality(Front(x))
  <2>1. Front(x) \in SUBSET (C \ {x})
    OBVIOUS
  <2>2. IsFiniteSet(C \ {x}) /\ Cardinality(C \ {x}) = n - 1
    BY FS_RemoveElement
  <2>3. IsFiniteSet(Front(x)) /\ Cardinality(Front(x)) <= n - 1
    <3> DEFINE rest == C \ {x}
               front == Front(x)
    <3>1. IsFiniteSet(rest) /\ Cardinality(rest) = n - 1 /\ front \in SUBSET rest
      BY <2>1, <2>2
    <3> HIDE DEF rest, front, n
    <3>2. IsFiniteSet(front) /\ Cardinality(front) <= n - 1
      BY <3>1, FS_Subset
    <3> QED
      BY <3>2 DEF front
  <2>4. Cardinality(Front(x)) \in Nat
    BY <2>3, FS_CardinalityType
  <2>5. Cardinality(Front(x)) \in 0..(n - 1)
    <3> HIDE DEF n, Front
    <3> QED
      BY <1>1, <2>3, <2>4
  <2> QED
    BY <2>3, <2>5
<1>3. ASSUME NEW x \in C, NEW y \in C, <<x, y>> \in R
      PROVE  f[x] < f[y]
  <2>1. Front(x) \in SUBSET Front(y) /\ Front(x) # Front(y)
    BY <1>3
  <2>2. /\ IsFiniteSet(Front(y))
        /\ Cardinality(Front(x)) \in Nat /\ Cardinality(Front(y)) \in Nat
        /\ f[x] = Cardinality(Front(x)) /\ f[y] = Cardinality(Front(y))
    <3>1. \A i \in 0..(n - 1) : i \in Nat
      OBVIOUS
    <3> HIDE DEF n, Front
    <3> QED
      BY <1>2, <3>1
  <2> HIDE DEF Front
  <2>3. Cardinality(Front(x)) < Cardinality(Front(y))
    <3> DEFINE a == Front(x)
               b == Front(y)
    <3>1. /\ IsFiniteSet(b) /\ a \in SUBSET b /\ a # b
          /\ Cardinality(a) \in Nat /\ Cardinality(b) \in Nat
      BY <2>1, <2>2
    <3> HIDE DEF a, b
    <3>2. Cardinality(a) < Cardinality(b)
      BY <3>1, FS_Subset
    <3> QED
      BY <3>2 DEF a, b
  <2> QED
    BY <2>2, <2>3
<1>4. f \in [C -> 0..(n - 1)]
  <2>1. \A x \in C : f[x] \in 0..(n - 1)
    BY <1>2
  <2> HIDE DEF n
  <2> QED
    BY <2>1
<1>5. \A x \in C : f[x] = Rank(R, C, x)
  BY DEF Rank
<1> HIDE DEF f
<1>6. \A x \in C : f[x] \in Int
  BY <1>1, <1>4
<1>7. ASSUME NEW x \in C, NEW y \in C, x # y PROVE f[x] # f[y]
  <2>1. <<x, y>> \in R \/ <<y, x>> \in R
    BY <1>7
  <2> QED
    BY <1>3, <1>6, <2>1
<1>8. ASSUME NEW x \in C, NEW y \in C, f[x] < f[y] PROVE <<x, y>> \in R
  <2>1. f[x] \in Int /\ f[y] \in Int
    BY <1>6
  <2>2. x # y
    BY <1>8, <2>1
  <2>3. <<x, y>> \in R \/ <<y, x>> \in R
    BY <2>2
  <2>4. <<y, x>> \in R => f[y] < f[x]
    BY <1>3
  <2> QED
    BY <1>8, <2>1, <2>3, <2>4
<1>9. \A x \in C : Rank(R, C, x) \in 0..(Cardinality(C) - 1)
  <2>1. \A x \in C : f[x] \in 0..(Cardinality(C) - 1)
    BY <1>4
  <2> QED
    BY <1>5, <2>1
<1>10. \A x, y \in C : f[x] < f[y] => x # y
  BY <1>6
<1> QED
  BY <1>5, <1>7, <1>8, <1>9, <1>10

\* Every rank below the size of the set is some member's.
LEMMA RanksAreTaken ==
  ASSUME NEW C, IsFiniteSet(C), NEW R, Orders(R, C)
  PROVE  \A k \in 0..(Cardinality(C) - 1) : \E x \in C : Rank(R, C, x) = k
<1> DEFINE f == [x \in C |-> Rank(R, C, x)]
           n == Cardinality(C)
<1>1. n \in Nat /\ n = Cardinality(C)
  BY FS_CardinalityType
<1>2. /\ \A x \in C : Rank(R, C, x) \in 0..(n - 1)
      /\ \A x, y \in C : x # y => Rank(R, C, x) # Rank(R, C, y)
  BY RanksDiffer
<1> HIDE DEF n
<1>3. f \in Injection(C, 0..(n - 1))
  BY <1>2 DEF Injection, IsInjective
<1>4. IsFiniteSet(0..(n - 1)) /\ Cardinality(0..(n - 1)) = n
  <2>1. 0 \in Int /\ n - 1 \in Int
    BY <1>1
  <2>2. /\ IsFiniteSet(0..(n - 1))
        /\ Cardinality(0..(n - 1)) = IF 0 > n - 1 THEN 0 ELSE (n - 1) - 0 + 1
    BY <2>1, FS_Interval
  <2> QED
    BY <1>1, <2>2
<1> HIDE DEF f
<1>5. f \in Surjection(C, 0..(n - 1))
  BY <1>1, <1>3, <1>4, FS_Injection
<1>6. \A k \in 0..(n - 1) : \E x \in C : f[x] = k
  BY <1>5 DEF Surjection
<1> QED
  BY <1>1, <1>6 DEF f

------------------------------------------------------------------------------
\* Arrays that agree have the same sum,
LEMMA SumSame ==
  ASSUME NEW n \in Nat, NEW a, NEW b, Naturals(a, n), \A k \in 1..n : a[k] = b[k]
  PROVE  SumTo(a, n) = SumTo(b, n)
<1>1. Naturals(b, n)
  BY DEF Naturals
<1>2. SumTo(a, n) \in Nat /\ SumTo(b, n) \in Nat
  BY <1>1, SumType
<1>3. \A k \in 1..n : a[k] <= b[k] /\ b[k] <= a[k]
  BY <1>1 DEF Naturals
<1>4. SumTo(a, n) <= SumTo(b, n) /\ SumTo(b, n) <= SumTo(a, n)
  BY <1>1, <1>3, SumSmaller
<1> QED
  BY <1>2, <1>4

\* ... and zeros at the end add nothing.
LEMMA SumExtends ==
  ASSUME NEW m \in Nat, NEW n \in Nat, m <= n, NEW a, Naturals(a, n),
         \A k \in (m + 1)..n : a[k] = 0
  PROVE  SumTo(a, n) = SumTo(a, m)
<1> DEFINE S == {d \in Nat : m + d <= n => SumTo(a, m + d) = SumTo(a, m)}
<1>1. 0 \in S
  OBVIOUS
<1>2. ASSUME NEW d \in Nat, d \in S PROVE d + 1 \in S
  <2>1. SUFFICES ASSUME m + (d + 1) <= n PROVE SumTo(a, m + (d + 1)) = SumTo(a, m)
    OBVIOUS
  <2>2. /\ m + d \in 0..(n - 1) /\ (m + d) + 1 = m + (d + 1) /\ m + d <= n
        /\ (m + d) + 1 \in (m + 1)..n
    BY <2>1
  <2>3. SumTo(a, (m + d) + 1) = SumTo(a, m + d) + a[(m + d) + 1] /\ SumTo(a, m + d) \in Nat
    BY <2>2, SumType
  <2> QED
    BY <1>2, <2>2, <2>3
<1> HIDE DEF S
<1>3. n - m \in S /\ m + (n - m) = n
  BY <1>1, <1>2, SetInduction
<1> QED
  BY <1>3 DEF S

\* A finite set of naturals has a last element.
LEMMA LastElement ==
  ASSUME NEW n \in Nat, NEW T \in SUBSET (0..n), T # {}
  PROVE  \E x \in T : \A y \in T : y <= x
<1> DEFINE U == {n - y : y \in T}
<1>1. \A y \in T : n - y \in Nat /\ y \in Int
  OBVIOUS
<1>0. U \in SUBSET Nat /\ U # {}
  BY <1>1
<1> HIDE DEF U
<1>2. PICK u \in U : \A v \in U : u <= v
  BY <1>0, LeastElement
<1>3. PICK x \in T : u = n - x
  BY <1>2 DEF U
<1>4. \A y \in T : n - x <= n - y
  BY <1>2, <1>3 DEF U
<1>5. ASSUME NEW y \in T PROVE y <= x
  <2>1. n - x <= n - y /\ x \in Int /\ y \in Int
    BY <1>1, <1>4
  <2> QED
    BY <2>1
<1> QED
  BY <1>5

\* A set of naturals up to n, and what may hold of functions on it: h is a
\* combination of f and g, f is nowhere above g, f counts the elements of B, and
\* g is f with zeros outside its domain.
UpTo(S, n) == n \in Nat /\ S \subseteq 0..n
Combines(S, r, f, g, q, h) ==
    /\ r \in Nat /\ q \in Nat
    /\ f \in [S -> Nat] /\ g \in [S -> Nat] /\ h \in [S -> Nat]
    /\ \A x \in S : r * f[x] + g[x] = q * h[x]
NotAbove(S, f, g) ==
    f \in [S -> Nat] /\ g \in [S -> Nat] /\ \A x \in S : f[x] <= g[x]
Indicates(S, f, B) ==
    f \in [S -> Nat] /\ B \subseteq S /\ \A x \in S : f[x] = IF x \in B THEN 1 ELSE 0
Widens(T, g, S, f) ==
    /\ S \subseteq T /\ f \in [S -> Nat] /\ g \in [T -> Nat]
    /\ \A x \in T : g[x] = IF x \in S THEN f[x] ELSE 0

LEMMA PaddedIsNatural ==
  ASSUME NEW n, NEW S, UpTo(S, n), NEW f \in [S -> Nat]
  PROVE  /\ Naturals(Padded(f, n), n + 1)
         /\ \A k \in S : k + 1 \in 1..(n + 1) /\ Padded(f, n)[k + 1] = f[k]
         /\ \A k \in 1..(n + 1) : k - 1 \notin S => Padded(f, n)[k] = 0
         /\ \A k \in 1..(n + 1) : k - 1 \in S => Padded(f, n)[k] = f[k - 1]
BY DEF Padded, Naturals, UpTo

\* A sum over a set may be taken up to any bound of it.
LEMMA SumOfUpTo ==
  ASSUME NEW n, NEW S, UpTo(S, n), NEW f \in [S -> Nat]
  PROVE  SumOf(f) = SumTo(Padded(f, n), n + 1)
<1> DEFINE last == CHOOSE m \in DOMAIN f \cup {0} : \A k \in DOMAIN f : k <= m
<1>1. \E m \in DOMAIN f \cup {0} : \A k \in DOMAIN f : k <= m
  BY LastElement DEF UpTo
<1>2. last \in S \cup {0} /\ \A k \in S : k <= last
  BY <1>1
<1>3. SumOf(f) = SumTo(Padded(f, last), last + 1)
  BY DEF SumOf
<1> HIDE DEF last
<1>4. last \in Nat /\ last <= n /\ UpTo(S, last) /\ n \in Nat
  BY <1>2 DEF UpTo
<1>5. SumTo(Padded(f, n), n + 1) = SumTo(Padded(f, n), last + 1)
  <2>1. ASSUME NEW k \in ((last + 1) + 1)..(n + 1) PROVE Padded(f, n)[k] = 0
    <3>1. k \in 1..(n + 1) /\ k - 1 > last /\ k \in Int
      BY <1>4
    <3>2. k - 1 \notin S
      BY <1>2, <1>4, <3>1
    <3> QED
      BY <3>1, <3>2, PaddedIsNatural
  <2>2. Naturals(Padded(f, n), n + 1)
    BY PaddedIsNatural
  <2>3. last + 1 \in Nat /\ n + 1 \in Nat /\ last + 1 <= n + 1
    BY <1>4
  <2> QED
    BY <2>1, <2>2, <2>3, SumExtends
<1>6. SumTo(Padded(f, last), last + 1) = SumTo(Padded(f, n), last + 1)
  <2>1. \A k \in 1..(last + 1) : Padded(f, last)[k] = Padded(f, n)[k]
    BY <1>4 DEF Padded
  <2> QED
    BY <1>4, <2>1, PaddedIsNatural, SumSame
<1> QED
  BY <1>3, <1>5, <1>6

LEMMA SumOfType ==
  ASSUME NEW n, NEW S, UpTo(S, n), NEW f \in [S -> Nat]
  PROVE  SumOf(f) \in Nat
<1>1. Naturals(Padded(f, n), n + 1)
  BY PaddedIsNatural
<1>2. n + 1 \in Nat /\ n + 1 \in 0..(n + 1)
  BY DEF UpTo
<1> QED
  BY <1>1, <1>2, SumOfUpTo, SumType

LEMMA SumOfLinear ==
  ASSUME NEW n, NEW S, UpTo(S, n), NEW r, NEW f, NEW g, NEW q, NEW h,
         Combines(S, r, f, g, q, h)
  PROVE  r * SumOf(f) + SumOf(g) = q * SumOf(h)
<1> USE DEF Combines
<1>1. \A k \in 1..(n + 1) : r * Padded(f, n)[k] + Padded(g, n)[k] = q * Padded(h, n)[k]
  <2>1. SUFFICES ASSUME NEW k \in 1..(n + 1)
                 PROVE  r * Padded(f, n)[k] + Padded(g, n)[k] = q * Padded(h, n)[k]
    OBVIOUS
  <2>2. CASE k - 1 \in S
    <3>1. r * f[k - 1] + g[k - 1] = q * h[k - 1]
      BY <2>2
    <3> QED
      BY <2>2, <3>1, PaddedIsNatural
  <2>3. CASE k - 1 \notin S
    <3>1. Padded(f, n)[k] = 0 /\ Padded(g, n)[k] = 0 /\ Padded(h, n)[k] = 0
      BY <2>3 DEF Padded
    <3>2. r * 0 = 0 /\ q * 0 = 0
      OBVIOUS
    <3> QED
      BY <3>1, <3>2
  <2> QED
    BY <2>2, <2>3
<1>2. /\ Naturals(Padded(f, n), n + 1) /\ Naturals(Padded(g, n), n + 1)
      /\ Naturals(Padded(h, n), n + 1)
  BY PaddedIsNatural
<1>3. r * SumTo(Padded(f, n), n + 1) + SumTo(Padded(g, n), n + 1)
        = q * SumTo(Padded(h, n), n + 1)
  <2>1. n + 1 \in Nat
    BY DEF UpTo
  <2> QED
    BY <1>1, <1>2, <2>1, SumLinear
<1> QED
  BY <1>3, SumOfUpTo

LEMMA SumOfSmaller ==
  ASSUME NEW n, NEW S, UpTo(S, n), NEW f, NEW g, NotAbove(S, f, g)
  PROVE  SumOf(f) <= SumOf(g)
<1> USE DEF NotAbove
<1>1. \A k \in 1..(n + 1) : Padded(f, n)[k] <= Padded(g, n)[k]
  <2>1. SUFFICES ASSUME NEW k \in 1..(n + 1) PROVE Padded(f, n)[k] <= Padded(g, n)[k]
    OBVIOUS
  <2>2. CASE k - 1 \in S
    BY <2>2, PaddedIsNatural
  <2>3. CASE k - 1 \notin S
    <3>1. Padded(f, n)[k] = 0 /\ Padded(g, n)[k] = 0
      BY <2>3 DEF Padded
    <3> QED
      BY <3>1
  <2> QED
    BY <2>2, <2>3
<1>2. Naturals(Padded(f, n), n + 1) /\ Naturals(Padded(g, n), n + 1)
  BY PaddedIsNatural
<1>3. n + 1 \in Nat
  BY DEF UpTo
<1> QED
  BY <1>1, <1>2, <1>3, SumSmaller, SumOfUpTo

\* Equal functions have the same sum; so have a function and the one that is
\* zero outside its domain.
LEMMA SumOfWider ==
  ASSUME NEW n, NEW T, UpTo(T, n), NEW g, NEW S, NEW f, Widens(T, g, S, f)
  PROVE  SumOf(g) = SumOf(f)
<1> USE DEF Widens
<1>1. UpTo(S, n)
  BY DEF UpTo
<1>2. \A k \in 1..(n + 1) : Padded(f, n)[k] = Padded(g, n)[k]
  BY DEF Padded
<1>3. Naturals(Padded(f, n), n + 1)
  BY <1>1, PaddedIsNatural
<1>5. n + 1 \in Nat
  BY DEF UpTo
<1>4. SumTo(Padded(f, n), n + 1) = SumTo(Padded(g, n), n + 1)
  BY <1>2, <1>3, <1>5, SumSame
<1> QED
  BY <1>1, <1>4, SumOfUpTo

\* The sum of a set's indicator is its cardinality.
LEMMA SumOfCounts ==
  ASSUME NEW n, NEW S, UpTo(S, n), NEW f, NEW B, Indicates(S, f, B)
  PROVE  SumOf(f) = Cardinality(B)
<1> USE DEF Indicates
<1> DEFINE C == {k \in 1..(n + 1) : k - 1 \in B}
           back == [k \in C |-> k - 1]
<1>1. C \in SUBSET (1..(n + 1)) /\ n + 1 \in Nat /\ n \in Nat /\ B \subseteq 0..n
  BY DEF UpTo
<1>2. \A k \in 1..(n + 1) : Padded(f, n)[k] = IF k \in C THEN 1 ELSE 0
  BY DEF Padded
<1>3. SumTo(Padded(f, n), n + 1) = Cardinality(C)
  <2> HIDE DEF C
  <2> QED
    BY <1>1, <1>2, SumCounts
<1>4. back \in Bijection(C, B)
  <2>1. back \in [C -> B]
    OBVIOUS
  <2>2. \A x, y \in C : back[x] = back[y] => x = y
    BY <1>1
  <2>3. ASSUME NEW y \in B PROVE \E x \in C : back[x] = y
    <3>1. y \in Int /\ y + 1 \in C /\ (y + 1) - 1 = y
      BY <1>1
    <3> QED
      BY <3>1
  <2> QED
    BY <2>1, <2>2, <2>3 DEF Bijection, Injection, Surjection, IsInjective
<1>5. IsFiniteSet(C)
  <2>1. 1 \in Int /\ n + 1 \in Int
    BY <1>1
  <2>2. IsFiniteSet(1..(n + 1))
    BY <2>1, FS_Interval
  <2> HIDE DEF C
  <2> QED
    BY <1>1, <2>2, FS_Subset
<1>6. Cardinality(C) = Cardinality(B)
  <2> HIDE DEF C, back
  <2>1. ExistsBijection(C, B)
    BY <1>4 DEF ExistsBijection
  <2> QED
    BY <1>5, <2>1, FS_Bijection
<1> QED
  BY <1>3, <1>6, SumOfUpTo

\* One element may be taken out of a sum.
LEMMA SumOfWithout ==
  ASSUME NEW n, NEW S, UpTo(S, n), NEW f \in [S -> Nat], NEW e \in S
  PROVE  SumOf(f) = SumOf([x \in S \ {e} |-> f[x]]) + f[e]
<1> DEFINE a == [x \in S |-> IF x = e THEN 0 ELSE f[x]]
           b == [x \in S |-> IF x = e THEN 1 ELSE 0]
           g == [x \in S \ {e} |-> f[x]]
<1>1. a \in [S -> Nat] /\ b \in [S -> Nat] /\ g \in [S \ {e} -> Nat] /\ f[e] \in Nat
  OBVIOUS
<1>2. ASSUME NEW x \in S PROVE f[e] * b[x] + a[x] = 1 * f[x]
  <2>1. f[x] \in Nat /\ f[e] \in Nat
    OBVIOUS
  <2>2. \A i \in Nat : i * 0 = 0 /\ i * 1 = i /\ 1 * i = i
    OBVIOUS
  <2>3. CASE x = e
    BY <2>1, <2>2, <2>3
  <2>4. CASE x # e
    BY <2>1, <2>2, <2>4
  <2> QED
    BY <2>3, <2>4
<1>3. Indicates(S, b, {e})
  BY <1>1 DEF Indicates
<1>4. Widens(S, a, S \ {e}, g)
  BY <1>1 DEF Widens
<1>5. Combines(S, f[e], b, a, 1, f)
  BY <1>1, <1>2 DEF Combines
<1> HIDE DEF a, b, g
<1>6. SumOf(b) = 1
  BY <1>3, SumOfCounts, FS_Singleton
<1>7. SumOf(a) = SumOf(g)
  BY <1>4, SumOfWider
<1>8. f[e] * SumOf(b) + SumOf(a) = 1 * SumOf(f)
  BY <1>5, SumOfLinear
<1>9. SumOf(f) \in Nat /\ SumOf(a) \in Nat
  BY <1>1, SumOfType
<1>10. f[e] * 1 = f[e] /\ 1 * SumOf(f) = SumOf(f)
  BY <1>1, <1>9
<1>11. f[e] + SumOf(a) = SumOf(f)
  BY <1>6, <1>8, <1>10
<1>12. SumOf(f) = SumOf(g) + f[e]
  BY <1>1, <1>7, <1>9, <1>11
<1> QED
  BY <1>12 DEF g

\* Where there is nothing there is no sum.
LEMMA SumOfNothing ==
  ASSUME NEW n, NEW S, UpTo(S, n), NEW f, DOMAIN f = S, \A x \in S : f[x] = 0,
         f \in [S -> Nat]
  PROVE  SumOf(f) = 0
<1>1. Indicates(S, f, {})
  BY DEF Indicates
<1> QED
  BY <1>1, SumOfCounts, FS_EmptySet

\* Sums may be exchanged: by rows or by columns, the total is the same.
Exchange(F, S, T) ==
    SumOf([x \in S |-> SumOf(F[x])]) = SumOf([y \in T |-> SumOf([x \in S |-> F[x][y]])])

Rows(F, S, T) == \A x \in S : F[x] \in [T -> Nat]

LEMMA ExchangeNone ==
  ASSUME NEW m, NEW T, UpTo(T, m), NEW F
  PROVE  Exchange(F, {}, T)
<1> DEFINE a == [x \in {} |-> SumOf(F[x])]
           c(y) == [x \in {} |-> F[x][y]]
           b == [y \in T |-> SumOf(c(y))]
<1>0. UpTo({}, 0)
  BY DEF UpTo
<1>1. SumOf(a) = 0
  <2>1. DOMAIN a = {} /\ a \in [{} -> Nat] /\ \A x \in {} : a[x] = 0
    OBVIOUS
  <2> HIDE DEF a
  <2> QED
    BY <1>0, <2>1, SumOfNothing
<1>2. ASSUME NEW y \in T PROVE SumOf(c(y)) = 0
  <2>1. DOMAIN c(y) = {} /\ c(y) \in [{} -> Nat] /\ \A x \in {} : c(y)[x] = 0
    OBVIOUS
  <2> HIDE DEF c
  <2> QED
    BY <1>0, <2>1, SumOfNothing
<1>3. SumOf(b) = 0
  <2>1. DOMAIN b = T /\ b \in [T -> Nat] /\ \A y \in T : b[y] = 0
    BY <1>2
  <2> HIDE DEF b
  <2> QED
    BY <2>1, SumOfNothing
<1> QED
  BY <1>1, <1>3 DEF Exchange

LEMMA ExchangeOne ==
  ASSUME NEW n, NEW S, UpTo(S, n), NEW m, NEW T, UpTo(T, m), NEW F,
         Rows(F, S, T), NEW e \in S, Exchange(F, S \ {e}, T)
  PROVE  Exchange(F, S, T)
<1> DEFINE R  == S \ {e}
           a  == [x \in S |-> SumOf(F[x])]
           a0 == [x \in R |-> SumOf(F[x])]
           c(y)  == [x \in S |-> F[x][y]]
           c0(y) == [x \in R |-> F[x][y]]
           b  == [y \in T |-> SumOf(c(y))]
           b0 == [y \in T |-> SumOf(c0(y))]
<1>1. UpTo(R, n) /\ R \subseteq S
  BY DEF UpTo
<1>14. \A x \in S : F[x] \in [T -> Nat]
  BY DEF Rows
<1>2. \A x \in S : SumOf(F[x]) \in Nat
  BY <1>14, SumOfType
<1>3. a \in [S -> Nat] /\ a0 \in [R -> Nat] /\ a[e] = SumOf(F[e])
      /\ a0 = [x \in S \ {e} |-> a[x]]
  BY <1>2
<1>4. SumOf(a) = SumOf(a0) + SumOf(F[e])
  <2> HIDE DEF a, a0
  <2>1. SumOf(a) = SumOf([x \in S \ {e} |-> a[x]]) + a[e]
    BY <1>3, SumOfWithout
  <2> QED
    BY <1>3, <2>1
<1>5. ASSUME NEW y \in T
      PROVE  /\ SumOf(c(y)) = SumOf(c0(y)) + F[e][y]
             /\ SumOf(c(y)) \in Nat /\ SumOf(c0(y)) \in Nat
  <2>1. /\ c(y) \in [S -> Nat] /\ c0(y) \in [R -> Nat] /\ c(y)[e] = F[e][y]
        /\ c0(y) = [x \in S \ {e} |-> c(y)[x]]
    BY <1>14
  <2> HIDE DEF c, c0
  <2> QED
    BY <1>1, <2>1, SumOfWithout, SumOfType
<1>6. b \in [T -> Nat] /\ b0 \in [T -> Nat] /\ F[e] \in [T -> Nat]
  BY <1>5, <1>14
<1>7. ASSUME NEW y \in T PROVE 1 * b0[y] + F[e][y] = 1 * b[y]
  <2>1. b0[y] = SumOf(c0(y)) /\ b[y] = SumOf(c(y))
    OBVIOUS
  <2>2. b0[y] \in Nat /\ b[y] \in Nat /\ F[e][y] \in Nat
    BY <1>6
  <2> HIDE DEF b, b0, c, c0
  <2> QED
    BY <1>5, <2>1, <2>2
<1>8. Combines(T, 1, b0, F[e], 1, b)
  BY <1>6, <1>7 DEF Combines
<1> HIDE DEF b, b0
<1>9. 1 * SumOf(b0) + SumOf(F[e]) = 1 * SumOf(b)
  BY <1>8, SumOfLinear
<1>10. SumOf(b) \in Nat /\ SumOf(b0) \in Nat /\ SumOf(F[e]) \in Nat
  BY <1>6, SumOfType
<1>11. SumOf(b) = SumOf(b0) + SumOf(F[e])
  BY <1>9, <1>10
<1>12. SumOf(a0) = SumOf(b0)
  BY DEF Exchange, b0
<1>13. SumOf(a) = SumOf(b)
  <2> HIDE DEF a, a0
  <2> QED
    BY <1>4, <1>11, <1>12
<1> QED
  BY <1>13 DEF Exchange, b

LEMMA SumOfExchange ==
  ASSUME NEW n, NEW S, UpTo(S, n), NEW m, NEW T, UpTo(T, m), NEW F,
         Rows(F, S, T)
  PROVE  Exchange(F, S, T)
<1> DEFINE U(k) == {x \in S : x < k}
           V == {k \in Nat : Exchange(F, U(k), T)}
<1>0. n \in Nat /\ \A x \in S : x \in Int /\ 0 <= x /\ x <= n
  BY DEF UpTo
<1>1. 0 \in V
  <2>1. U(0) = {}
    BY <1>0
  <2>2. Exchange(F, {}, T)
    BY ExchangeNone
  <2> QED
    BY <2>1, <2>2
<1>2. ASSUME NEW k \in Nat, k \in V PROVE k + 1 \in V
  <2>1. Exchange(F, U(k), T)
    BY <1>2
  <2>2. CASE k \notin S
    <3>1. U(k + 1) = U(k)
      BY <1>0, <2>2
    <3> QED
      BY <2>1, <3>1
  <2>3. CASE k \in S
    <3>1. U(k + 1) \ {k} = U(k) /\ k \in U(k + 1) /\ U(k + 1) \subseteq S
      <4>1. \A x \in S : x < k + 1 /\ x # k <=> x < k
        BY <1>0
      <4>2. k < k + 1
        OBVIOUS
      <4> QED
        BY <2>3, <4>1, <4>2
    <3>2. UpTo(U(k + 1), n)
      BY <3>1 DEF UpTo
    <3>3. Rows(F, U(k + 1), T)
      BY DEF Rows
    <3>4. Exchange(F, U(k + 1), T)
      <4> HIDE DEF U
      <4>1. Exchange(F, U(k + 1) \ {k}, T)
        BY <2>1, <3>1
      <4> QED
        BY <3>1, <3>2, <3>3, <4>1, ExchangeOne
    <3> QED
      BY <3>4
  <2> QED
    BY <2>2, <2>3
<1> HIDE DEF V
<1>3. n + 1 \in V
  BY <1>0, <1>1, <1>2, SetInduction
<1>4. U(n + 1) = S
  BY <1>0
<1> QED
  BY <1>3, <1>4 DEF V

------------------------------------------------------------------------------
\* Steps up to n, and below each number the highest step under it, if any.
Steps(L, n, low) ==
    /\ n \in Nat /\ L \subseteq 1..n /\ low \in [1..(n + 1) -> Nat]
    /\ \A l \in 1..(n + 1) : /\ low[l] \in L \cup {0} /\ low[l] < l
                             /\ \A k \in L : k < l => k <= low[l]

\* How much each step up to c rises over the one below it.
Stair(L, low, c) == [l \in L |-> IF l <= c THEN l - low[l] ELSE 0]

LEMMA StairIsNatural ==
  ASSUME NEW n, NEW L, NEW low, Steps(L, n, low), NEW c \in Nat
  PROVE  Stair(L, low, c) \in [L -> Nat] /\ UpTo(L, n)
<1>1. \A l \in L : l \in 1..(n + 1) /\ l - low[l] \in Nat
  BY DEF Steps
<1>2. UpTo(L, n)
  BY DEF Steps, UpTo
<1> QED
  BY <1>1, <1>2 DEF Stair

\* One number further the highest step below is that number, or the same as before.
LEMMA StepAfter ==
  ASSUME NEW n, NEW L, NEW low, Steps(L, n, low), NEW c \in Nat, c <= n
  PROVE  /\ c \in L \cup {0} => low[c + 1] = c
         /\ c \notin L /\ c > 0 => low[c + 1] = low[c]
<1>1. /\ c + 1 \in 1..(n + 1) /\ low[c + 1] \in Nat /\ low[c + 1] < c + 1
      /\ low[c + 1] \in L \cup {0} /\ \A k \in L : k < c + 1 => k <= low[c + 1]
  BY DEF Steps
<1>2. c \in L \cup {0} => low[c + 1] = c
  BY <1>1
<1>3. ASSUME c \notin L, c > 0 PROVE low[c + 1] = low[c]
  <2>1. /\ c \in 1..(n + 1) /\ low[c] \in Nat /\ low[c] < c
        /\ low[c] \in L \cup {0} /\ \A k \in L : k < c => k <= low[c]
    BY <1>3 DEF Steps
  <2>2. low[c] <= low[c + 1]
    BY <1>1, <2>1
  <2>3. low[c + 1] <= low[c]
    BY <1>1, <1>3, <2>1
  <2> QED
    BY <1>1, <2>1, <2>2, <2>3
<1> QED
  BY <1>2, <1>3

\* The rises up to c add up to the highest step that c reaches.
LEMMA StairsClimb ==
  ASSUME NEW n, NEW L, NEW low, Steps(L, n, low), NEW c \in Nat, c <= n
  PROVE  SumOf(Stair(L, low, c)) = low[c + 1]
<1> DEFINE V == {d \in Nat : d <= n => SumOf(Stair(L, low, d)) = low[d + 1]}
<1>0. n \in Nat /\ UpTo(L, n) /\ \A l \in L : l \in Int /\ 1 <= l /\ l <= n
  <2>1. UpTo(L, n)
    BY StairIsNatural
  <2> QED
    BY <2>1 DEF Steps
<1>1. 0 \in V
  <2>1. low[0 + 1] = 0
    BY <1>0, StepAfter
  <2>2. \A l \in L : Stair(L, low, 0)[l] = 0
    BY <1>0 DEF Stair
  <2>3. Stair(L, low, 0) \in [L -> Nat]
    BY StairIsNatural
  <2>4. SumOf(Stair(L, low, 0)) = 0
    BY <1>0, <2>2, <2>3, SumOfNothing
  <2> QED
    BY <2>1, <2>4
<1>2. ASSUME NEW d \in Nat, d \in V PROVE d + 1 \in V
  <2> SUFFICES ASSUME d + 1 <= n PROVE SumOf(Stair(L, low, d + 1)) = low[(d + 1) + 1]
    OBVIOUS
  <2>1. SumOf(Stair(L, low, d)) = low[d + 1] /\ d + 1 \in Nat /\ d + 1 > 0
    BY <1>0, <1>2
  <2>2. CASE d + 1 \notin L
    <3>1. Stair(L, low, d + 1) = Stair(L, low, d)
      <4>1. \A l \in L : l <= d + 1 <=> l <= d
        BY <1>0, <2>2
      <4> QED
        BY <4>1 DEF Stair
    <3>2. low[(d + 1) + 1] = low[d + 1]
      BY <2>1, <2>2, StepAfter
    <3> QED
      BY <2>1, <3>1, <3>2
  <2>3. CASE d + 1 \in L
    <3> DEFINE r == (d + 1) - low[d + 1]
               one == [l \in L |-> IF l = d + 1 THEN 1 ELSE 0]
               a == Stair(L, low, d)
               b == Stair(L, low, d + 1)
    <3>1. low[(d + 1) + 1] = d + 1
      BY <2>1, <2>3, StepAfter
    <3>2. r \in Nat /\ low[d + 1] \in Nat /\ d + 1 \in 1..(n + 1)
      BY <2>3 DEF Steps
    <3>3. a \in [L -> Nat] /\ b \in [L -> Nat] /\ one \in [L -> Nat]
      BY <2>1, StairIsNatural
    <3>4. ASSUME NEW l \in L PROVE r * one[l] + a[l] = 1 * b[l]
      <4>1. a[l] = (IF l <= d THEN l - low[l] ELSE 0) /\ b[l] = IF l <= d + 1 THEN l - low[l] ELSE 0
        BY DEF Stair
      <4>2. a[l] \in Nat /\ b[l] \in Nat /\ l \in Int
        BY <1>0, <3>3
      <4> HIDE DEF a, b
      <4>3. CASE l = d + 1
        <5>1. one[l] = 1 /\ a[l] = 0 /\ b[l] = r
          BY <4>1, <4>3
        <5>2. r * 1 + 0 = 1 * r
          BY <3>2
        <5> QED
          BY <5>1, <5>2
      <4>4. CASE l # d + 1
        <5>1. one[l] = 0 /\ a[l] = b[l]
          BY <4>1, <4>2, <4>4
        <5>2. r * 0 + a[l] = 1 * a[l]
          BY <3>2, <4>2
        <5> QED
          BY <5>1, <5>2
      <4> QED
        BY <4>3, <4>4
    <3>5. Combines(L, r, one, a, 1, b)
      BY <3>2, <3>3, <3>4 DEF Combines
    <3>6. Indicates(L, one, {d + 1})
      BY <2>3, <3>3 DEF Indicates
    <3> HIDE DEF one, a, b
    <3>7. SumOf(one) = 1
      BY <1>0, <3>6, SumOfCounts, FS_Singleton
    <3>8. r * SumOf(one) + SumOf(a) = 1 * SumOf(b)
      BY <1>0, <3>5, SumOfLinear
    <3>9. SumOf(b) \in Nat
      BY <1>0, <3>3, SumOfType
    <3>10. SumOf(a) = low[d + 1]
      BY <2>1 DEF a
    <3>11. r * 1 + low[d + 1] = d + 1
      BY <3>2
    <3>12. SumOf(b) = d + 1
      BY <3>7, <3>8, <3>9, <3>10, <3>11
    <3> QED
      BY <3>1, <3>12 DEF b
  <2> QED
    BY <2>2, <2>3
<1> HIDE DEF V
<1>3. c \in V
  BY <1>1, <1>2, SetInduction
<1> QED
  BY <1>3 DEF V

\* What everybody has put in, layer by layer: the layer of a level is what it
\* rises over the one below, from everybody who has reached it.
Reach(S, inv, l) == {p \in S : inv[p] >= l}
Layers(S, inv, L, low, c) ==
    [l \in L |-> IF l <= c THEN (l - low[l]) * Cardinality(Reach(S, inv, l)) ELSE 0]
UpToLevel(S, inv, c) == [p \in S |-> IF inv[p] <= c THEN inv[p] ELSE c]

\* The layers up to a level hold what everybody has put in up to it.
LEMMA LayersAddUp ==
  ASSUME NEW m, NEW S, UpTo(S, m), NEW n, NEW L, NEW low, Steps(L, n, low),
         NEW inv \in [S -> Nat], \A p \in S : inv[p] \in L \cup {0}, NEW c \in L \cup {0}
  PROVE  /\ Layers(S, inv, L, low, c) \in [L -> Nat]
         /\ UpToLevel(S, inv, c) \in [S -> Nat]
         /\ SumOf(Layers(S, inv, L, low, c)) = SumOf(UpToLevel(S, inv, c))
<1> DEFINE f == Layers(S, inv, L, low, c)
           h == UpToLevel(S, inv, c)
           F == [p \in S |-> Stair(L, low, h[p])]
<1>0. /\ n \in Nat /\ UpTo(L, n) /\ \A l \in L : l \in Int /\ 1 <= l /\ l <= n /\ l - low[l] \in Nat
      /\ c \in Nat /\ c <= n
  <2>1. n \in Nat /\ \A l \in L : l \in Int /\ 1 <= l /\ l <= n /\ l \in 1..(n + 1)
    BY DEF Steps
  <2>2. UpTo(L, n)
    BY <2>1, StairIsNatural
  <2>3. \A l \in L : l - low[l] \in Nat
    BY <2>1 DEF Steps
  <2> QED
    BY <2>1, <2>2, <2>3
<1>1. \A p \in S : h[p] \in L \cup {0} /\ h[p] \in Nat /\ h[p] <= n
  BY <1>0 DEF UpToLevel
<1>2. h \in [S -> Nat]
  BY <1>0 DEF UpToLevel
<1>3. \A p \in S : F[p] = Stair(L, low, h[p])
  OBVIOUS
<1> HIDE DEF h, F
<1>4. Rows(F, S, L)
  BY <1>1, <1>3, StairIsNatural DEF Rows
<1>5. ASSUME NEW p \in S PROVE SumOf(F[p]) = h[p]
  <2>1. SumOf(F[p]) = low[h[p] + 1]
    BY <1>1, <1>3, StairsClimb
  <2>2. low[h[p] + 1] = h[p]
    BY <1>1, StepAfter
  <2> QED
    BY <2>1, <2>2
<1>6. ASSUME NEW l \in L
      PROVE  /\ f[l] = SumOf([p \in S |-> F[p][l]])
             /\ f[l] \in Nat
  <2> DEFINE B   == Reach(S, inv, l)
             r   == IF l <= c THEN l - low[l] ELSE 0
             one == [p \in S |-> IF p \in B THEN 1 ELSE 0]
             nil == [p \in S |-> 0]
             col == [p \in S |-> F[p][l]]
  <2>1. r \in Nat /\ l \in Int
    BY <1>0
  <2>2. f[l] = r * Cardinality(B)
    <3>1. IsFiniteSet(B)
      <4>1. IsFiniteSet(0..m)
        <5>1. m \in Int /\ 0 \in Int
          BY DEF UpTo
        <5> QED
          BY <5>1, FS_Interval
      <4>2. B \in SUBSET (0..m)
        BY DEF UpTo, Reach
      <4> QED
        BY <4>1, <4>2, FS_Subset
    <3>2. Cardinality(B) \in Nat
      <4> HIDE DEF B
      <4> QED
        BY <3>1, FS_CardinalityType
    <3>3. f[l] = IF l <= c THEN (l - low[l]) * Cardinality(B) ELSE 0
      BY DEF Layers
    <3>4. 0 * Cardinality(B) = 0
      <4> HIDE DEF B
      <4> QED
        BY <3>2
    <3> QED
      BY <3>3, <3>4
  <2>3. \A p \in S : col[p] = IF p \in B THEN r ELSE 0
    <3> SUFFICES ASSUME NEW p \in S PROVE col[p] = IF p \in B THEN r ELSE 0
      OBVIOUS
    <3>1. col[p] = IF l <= h[p] THEN l - low[l] ELSE 0
      BY <1>3 DEF Stair
    <3>2. l <= h[p] <=> l <= c /\ inv[p] >= l
      BY <1>0 DEF h, UpToLevel
    <3> QED
      BY <3>1, <3>2 DEF Reach
  <2>4. col \in [S -> Nat] /\ one \in [S -> Nat] /\ nil \in [S -> Nat] /\ B \subseteq S
    BY <2>1, <2>3 DEF Reach
  <2> HIDE DEF B, r, col, f
  <2>5. Indicates(S, one, B) /\ Indicates(S, nil, {})
    BY <2>4 DEF Indicates
  <2>6. ASSUME NEW p \in S PROVE r * one[p] + nil[p] = 1 * col[p]
    <3>1. r * 1 + 0 = 1 * r /\ r * 0 + 0 = 1 * 0
      BY <2>1
    <3> QED
      BY <2>3, <3>1
  <2>7. Combines(S, r, one, nil, 1, col)
    BY <2>1, <2>4, <2>6 DEF Combines
  <2> HIDE DEF one, nil
  <2>8. r * SumOf(one) + SumOf(nil) = 1 * SumOf(col)
    BY <2>7, SumOfLinear
  <2>9. SumOf(one) = Cardinality(B) /\ SumOf(nil) = 0
    BY <2>5, SumOfCounts, FS_EmptySet
  <2>10. SumOf(col) \in Nat /\ SumOf(one) \in Nat
    BY <2>4, SumOfType
  <2>11. r * SumOf(one) \in Nat
    BY <2>1, <2>10
  <2>12. SumOf(col) = r * SumOf(one)
    BY <2>8, <2>9, <2>10, <2>11
  <2> QED
    BY <2>2, <2>9, <2>11, <2>12 DEF col
<1>7. f \in [L -> Nat]
  <2>1. f = [l \in L |-> f[l]]
    BY DEF f, Layers
  <2> HIDE DEF f
  <2> QED
    BY <1>6, <2>1
<1>8. SumOf(f) = SumOf(h)
  <2>1. Exchange(F, S, L)
    BY <1>0, <1>4, SumOfExchange
  <2>2. [p \in S |-> SumOf(F[p])] = h
    <3>1. h = [p \in S |-> h[p]]
      BY <1>2
    <3> QED
      BY <1>5, <3>1
  <2>3. [l \in L |-> SumOf([p \in S |-> F[p][l]])] = f
    <3>1. f = [l \in L |-> f[l]]
      BY <1>7
    <3> HIDE DEF f
    <3> QED
      BY <1>6, <3>1
  <2> HIDE DEF f
  <2> QED
    BY <2>1, <2>2, <2>3 DEF Exchange
<1> QED
  BY <1>2, <1>7, <1>8 DEF h
===============================================================================
