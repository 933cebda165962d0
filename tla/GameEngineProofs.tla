--------------------------- MODULE GameEngineProofs ---------------------------
(***************************************************************************)
(* The table engine keeps its accounts and pays every pot exactly, for any *)
(* number of seats, any stacks and blinds and any variants and hands.      *)
(***************************************************************************)
EXTENDS GameEngine, SumsProofs

Last == NumPlayers - 1

LEMMA SeatsUpTo == UpTo(Seat, Last) /\ 0 \in Seat /\ Last \in Nat
BY TableAssumption DEF UpTo, Seat, Last

\* The largest and the smallest of some numbers.
LEMMA LargestOf ==
  ASSUME NEW n \in Nat, NEW T \in SUBSET (0..n), T # {}
  PROVE  Max(T) \in T /\ \A x \in T : x <= Max(T)
<1>1. \E x \in T : \A y \in T : x >= y
  <2>1. PICK x \in T : \A y \in T : y <= x
    BY LastElement
  <2> QED
    BY <2>1
<1>2. Max(T) \in T /\ \A y \in T : Max(T) >= y
  BY <1>1 DEF Max
<1> QED
  BY <1>2

LEMMA SmallestOf ==
  ASSUME NEW T \in SUBSET Nat, T # {}
  PROVE  Min(T) \in T /\ \A x \in T : Min(T) <= x
<1>1. \E x \in T : \A y \in T : x <= y
  BY LeastElement
<1> QED
  BY <1>1 DEF Min

\* A sum is changed by what is added at one place of it, or everywhere.
LEMMA SumOfAdds ==
  ASSUME NEW n, NEW S, UpTo(S, n), NEW f \in [S -> Nat], NEW g \in [S -> Nat],
         NEW h \in [S -> Nat], \A x \in S : h[x] = f[x] + g[x]
  PROVE  SumOf(h) = SumOf(f) + SumOf(g)
<1>1. \A x \in S : 1 * f[x] + g[x] = 1 * h[x]
  OBVIOUS
<1>2. Combines(S, 1, f, g, 1, h)
  BY <1>1 DEF Combines
<1>3. 1 * SumOf(f) + SumOf(g) = 1 * SumOf(h)
  BY <1>2, SumOfLinear
<1>4. SumOf(f) \in Nat /\ SumOf(g) \in Nat /\ SumOf(h) \in Nat
  BY SumOfType
<1> QED
  BY <1>3, <1>4

Moves(S, f, g, e, c) ==
    /\ f \in [S -> Nat] /\ g \in [S -> Nat] /\ e \in S /\ c \in Nat
    /\ \A x \in S : g[x] = IF x = e THEN f[x] + c ELSE f[x]

LEMMA SumOfMoves ==
  ASSUME NEW n, NEW S, UpTo(S, n), NEW f, NEW g, NEW e, NEW c, Moves(S, f, g, e, c)
  PROVE  SumOf(g) = SumOf(f) + c
<1> USE DEF Moves
<1> DEFINE one == [x \in S |-> IF x = e THEN 1 ELSE 0]
<1>1. Indicates(S, one, {e})
  BY DEF Indicates
<1>2. ASSUME NEW x \in S PROVE c * one[x] + f[x] = 1 * g[x]
  <2>1. c * 1 = c /\ c * 0 = 0
    OBVIOUS
  <2> QED
    BY <2>1
<1>3. Combines(S, c, one, f, 1, g)
  BY <1>2 DEF Combines
<1> HIDE DEF one
<1>4. c * SumOf(one) + SumOf(f) = 1 * SumOf(g)
  BY <1>3, SumOfLinear
<1>5. SumOf(one) = 1 /\ SumOf(f) \in Nat /\ SumOf(g) \in Nat
  <2>1. SumOf(one) = Cardinality({e})
    BY <1>1, SumOfCounts
  <2> QED
    BY <2>1, SumOfType, FS_Singleton
<1>6. c * 1 = c
  OBVIOUS
<1> QED
  BY <1>4, <1>5, <1>6

LEMMA SumOfPart ==
  ASSUME NEW n, NEW S, UpTo(S, n), NEW f \in [S -> Nat], NEW e \in S
  PROVE  f[e] <= SumOf(f)
<1> DEFINE rest == [x \in S \ {e} |-> f[x]]
<1>1. SumOf(f) = SumOf(rest) + f[e]
  BY SumOfWithout
<1>2. UpTo(S \ {e}, n) /\ rest \in [S \ {e} -> Nat]
  BY DEF UpTo
<1> HIDE DEF rest
<1>3. SumOf(rest) \in Nat
  BY <1>2, SumOfType
<1> QED
  BY <1>1, <1>3

\* The highest of the seats' amounts.
LEMMA HighestOfSeats ==
  ASSUME NEW f \in [Seat -> Nat]
  PROVE  /\ Max(Range(f)) \in Nat /\ \A p \in Seat : f[p] <= Max(Range(f))
         /\ \E p \in Seat : f[p] = Max(Range(f))
<1> DEFINE T == Range(f)
<1>1. \A p \in Seat : f[p] <= SumOf(f) /\ f[p] \in T
  BY SeatsUpTo, SumOfPart DEF Range
<1>2. \A x \in T : \E p \in Seat : x = f[p]
  BY DEF Range
<1>3. SumOf(f) \in Nat
  BY SeatsUpTo, SumOfType
<1> HIDE DEF T
<1>4. T \in SUBSET (0..SumOf(f)) /\ T # {}
  BY <1>1, <1>2, <1>3, SeatsUpTo
<1>5. Max(T) \in T /\ \A x \in T : x <= Max(T)
  BY <1>3, <1>4, LargestOf
<1> QED
  BY <1>1, <1>2, <1>5 DEF T

------------------------------------------------------------------------------
\* The levels of the pot are steps up to the highest investment.
Top  == Max(Range(invested))
Lows == [l \in 1..(Top + 1) |-> Max({0} \cup {k \in Levels : k < l})]

LEMMA LevelsAreSteps ==
  ASSUME invested \in [Seat -> Nat]
  PROVE  /\ Steps(Levels, Top, Lows) /\ UpTo(Levels, Top)
         /\ \A p \in Seat : invested[p] \in Levels \cup {0} /\ invested[p] <= Top
         /\ Top \in Levels \cup {0}
         /\ \A l \in Levels : /\ l \in Nat /\ l > 0 /\ l <= Top
                              /\ Layer(l) = (l - Lows[l]) * Cardinality(Contributors(l))
                              /\ \E p \in Seat : invested[p] = l
<1>1. /\ Top \in Nat /\ \A p \in Seat : invested[p] <= Top
      /\ \E p \in Seat : invested[p] = Top
  BY HighestOfSeats DEF Top
<1>2. \A p \in Seat : invested[p] \in Nat /\ invested[p] \in Levels \cup {0}
  BY DEF Levels, Range
<1>3. \A l \in Levels : l \in Nat /\ l > 0 /\ l <= Top /\ \E p \in Seat : invested[p] = l
  <2>1. \A l \in Levels : l # 0 /\ \E p \in Seat : invested[p] = l
    BY DEF Levels, Range
  <2> QED
    BY <1>1, <1>2, <2>1
<1> DEFINE low(l) == Max({0} \cup {k \in Levels : k < l})
           n == Top
<1>4. ASSUME NEW l \in 1..(n + 1)
      PROVE  /\ low(l) \in Levels \cup {0} /\ low(l) < l /\ low(l) \in Nat
             /\ \A k \in Levels : k < l => k <= low(l)
  <2> DEFINE T == {0} \cup {k \in Levels : k < l}
  <2>1. /\ \A x \in T : x \in Nat /\ x <= n /\ x < l /\ x \in Levels \cup {0}
        /\ T # {} /\ \A k \in Levels : k < l => k \in T
    BY <1>1, <1>3
  <2>2. low(l) = Max(T)
    OBVIOUS
  <2> HIDE DEF T, low, n
  <2>3. T \in SUBSET (0..n) /\ n \in Nat
    BY <1>1, <2>1 DEF n
  <2>4. Max(T) \in T /\ \A x \in T : x <= Max(T)
    BY <2>1, <2>3, LargestOf
  <2> QED
    BY <2>1, <2>2, <2>4
<1>5. Lows = [l \in 1..(n + 1) |-> low(l)]
  BY DEF Lows
<1>6. \A l \in Levels : Layer(l) = (l - low(l)) * Cardinality(Contributors(l))
  BY DEF Layer
<1> HIDE DEF low, n
<1>7. n \in Nat /\ n = Top
  BY <1>1 DEF n
<1>8. Steps(Levels, n, Lows)
  BY <1>3, <1>4, <1>5, <1>7 DEF Steps
<1>9. UpTo(Levels, n)
  BY <1>3, <1>7 DEF UpTo
<1>10. ASSUME NEW l \in Levels PROVE l \in 1..(n + 1) /\ Lows[l] = low(l)
  BY <1>3, <1>5, <1>7
<1> QED
  BY <1>1, <1>2, <1>3, <1>6, <1>7, <1>8, <1>9, <1>10

\* The layers up to a level hold what the seats have invested up to it.
LayersUpTo(c) == [l \in Levels |-> IF l <= c THEN Layer(l) ELSE 0]

LEMMA LayersHold ==
  ASSUME invested \in [Seat -> Nat], NEW c \in Levels \cup {0}
  PROVE  /\ LayersUpTo(c) \in [Levels -> Nat]
         /\ SumOf(LayersUpTo(c)) = SumOf(UpToLevel(Seat, invested, c))
         /\ UpToLevel(Seat, invested, c) \in [Seat -> Nat]
<1>1. /\ Steps(Levels, Top, Lows) /\ UpTo(Seat, Last)
      /\ \A p \in Seat : invested[p] \in Levels \cup {0}
      /\ \A l \in Levels : Layer(l) = (l - Lows[l]) * Cardinality(Contributors(l))
  BY LevelsAreSteps, SeatsUpTo
<1>2. Layers(Seat, invested, Levels, Lows, c) = LayersUpTo(c)
  <2>1. \A l \in Levels : Reach(Seat, invested, l) = Contributors(l)
    BY DEF Reach, Contributors
  <2> QED
    BY <1>1, <2>1 DEF Layers, LayersUpTo
<1> QED
  BY <1>1, <1>2, LayersAddUp

\* All of them hold the pot.
LEMMA LayersHoldAll ==
  ASSUME invested \in [Seat -> Nat]
  PROVE  /\ \A l \in Levels : Layer(l) \in Nat
         /\ [l \in Levels |-> Layer(l)] \in [Levels -> Nat]
         /\ SumOf([l \in Levels |-> Layer(l)]) = SumOf(invested)
<1>1. /\ \A l \in Levels : l <= Top
      /\ \A p \in Seat : invested[p] <= Top
      /\ Top \in Levels \cup {0}
  BY LevelsAreSteps
<1>2. LayersUpTo(Top) = [l \in Levels |-> Layer(l)]
  BY <1>1 DEF LayersUpTo
<1>3. UpToLevel(Seat, invested, Top) = invested
  BY <1>1 DEF UpToLevel
<1>4. /\ LayersUpTo(Top) \in [Levels -> Nat]
      /\ SumOf(LayersUpTo(Top)) = SumOf(invested)
  BY <1>1, <1>3, LayersHold
<1>5. \A l \in Levels : Layer(l) \in Nat
  <2>1. \A l \in Levels : LayersUpTo(Top)[l] = Layer(l)
    BY <1>2
  <2> QED
    BY <1>4, <2>1
<1> QED
  BY <1>2, <1>4, <1>5

------------------------------------------------------------------------------
\* The sort keeps every seat that has invested in the list.
Lists(s) ==
    /\ s \in [0..(Cardinality(Investors) - 1) -> Investors]
    /\ \A p \in Investors : \E i \in 0..(Cardinality(Investors) - 1) : s[i] = p

LEMMA InvestorsCount ==
  IsFiniteSet(Investors) /\ Cardinality(Investors) \in Nat
<1>1. Investors \in SUBSET (0..Last)
  BY SeatsUpTo DEF UpTo, Investors
<1>2. IsFiniteSet(0..Last)
  BY SeatsUpTo, FS_Interval
<1> QED
  BY <1>1, <1>2, FS_Subset, FS_CardinalityType

LEMMA SeatOrderLists == Lists(InSeatOrder)
<1> DEFINE C == Investors
           n == Cardinality(C)
           R == {x \in C \X C : x[1] < x[2]}
           at(i) == CHOOSE p \in C : Cardinality({q \in C : q < p}) = i
<1>1. IsFiniteSet(C) /\ n \in Nat /\ \A p \in C : p \in Int
  BY InvestorsCount, SeatsUpTo DEF Investors, UpTo
<1>2. \A p \in C : {q \in C : q < p} = {q \in C : <<q, p>> \in R}
  OBVIOUS
<1>3. Orders(R, C)
  <2>1. \A x, y \in C : <<x, y>> \in R <=> x < y
    OBVIOUS
  <2> HIDE DEF R, C
  <2> QED
    BY <1>1, <2>1 DEF Orders
<1>4. \A p \in C : Cardinality({q \in C : q < p}) = Rank(R, C, p)
  BY <1>2 DEF Rank
<1>5. InSeatOrder = [i \in 0..(n - 1) |-> at(i)]
  BY DEF InSeatOrder
<1> HIDE DEF R, C, n
<1>6. /\ \A p \in C : Rank(R, C, p) \in 0..(n - 1)
      /\ \A p, q \in C : p # q => Rank(R, C, p) # Rank(R, C, q)
  BY <1>1, <1>3, RanksDiffer DEF n
<1>7. \A i \in 0..(n - 1) : \E p \in C : Rank(R, C, p) = i
  BY <1>1, <1>3, RanksAreTaken DEF n
<1>8. \A i \in 0..(n - 1) : at(i) \in C /\ Rank(R, C, at(i)) = i
  <2> SUFFICES ASSUME NEW i \in 0..(n - 1) PROVE at(i) \in C /\ Rank(R, C, at(i)) = i
    OBVIOUS
  <2>1. \E p \in C : Cardinality({q \in C : q < p}) = i
    BY <1>4, <1>7
  <2>2. at(i) \in C /\ Cardinality({q \in C : q < at(i)}) = i
    BY <2>1
  <2> HIDE DEF at
  <2> QED
    BY <1>4, <2>2
<1> HIDE DEF at
<1>9. ASSUME NEW p \in C PROVE \E i \in 0..(n - 1) : InSeatOrder[i] = p
  <2>1. Rank(R, C, p) \in 0..(n - 1)
    BY <1>6
  <2>2. at(Rank(R, C, p)) = p
    BY <1>6, <1>8, <2>1
  <2> QED
    BY <1>5, <2>1, <2>2
<1>10. InSeatOrder \in [0..(n - 1) -> C]
  BY <1>5, <1>8
<1> QED
  BY <1>9, <1>10 DEF Lists, n, C

LEMMA ExchangeLists ==
  ASSUME NEW s, Lists(s), NEW i \in Nat, NEW j \in 0..(Cardinality(Investors) - 1)
  PROVE  Lists(Exchanged(s, i, j))
<1> DEFINE n == Cardinality(Investors)
           t == Exchanged(s, i, j)
<1>1. CASE ~(i < j /\ invested[s[i]] > invested[s[j]])
  BY <1>1 DEF Exchanged
<1>2. CASE i < j /\ invested[s[i]] > invested[s[j]]
  <2>1. n \in Nat /\ i \in 0..(n - 1) /\ j \in 0..(n - 1) /\ i # j
    BY <1>2, InvestorsCount
  <2>2. t = [s EXCEPT ![i] = s[j], ![j] = s[i]]
    BY <1>2 DEF Exchanged
  <2> HIDE DEF n, t
  <2>3. s \in [0..(n - 1) -> Investors] /\ \A p \in Investors : \E k \in 0..(n - 1) : s[k] = p
    BY DEF Lists, n
  <2>4. /\ t \in [0..(n - 1) -> Investors]
        /\ t[i] = s[j] /\ t[j] = s[i]
        /\ \A k \in 0..(n - 1) : k # i /\ k # j => t[k] = s[k]
    BY <2>1, <2>2, <2>3
  <2>5. ASSUME NEW p \in Investors PROVE \E k \in 0..(n - 1) : t[k] = p
    <3>1. PICK k \in 0..(n - 1) : s[k] = p
      BY <2>3
    <3> QED
      BY <2>1, <2>4, <3>1
  <2> QED
    BY <2>4, <2>5 DEF Lists, n, t
<1> QED
  BY <1>1, <1>2

\* The first m comparisons of the sort.
Compares(g, m) ==
    /\ g[0] = InSeatOrder
    /\ \A k \in 0..(m - 1) :
           g[k + 1] = Exchanged(g[k], k \div Cardinality(Investors), k % Cardinality(Investors))

LEMMA SortExists == \A m \in Nat : \E g : Compares(g, m)
<1> DEFINE S == {m \in Nat : \E g : Compares(g, m)}
           n == Cardinality(Investors)
           next(s, k) == Exchanged(s, k \div n, k % n)
<1>1. 0 \in S
  <2>1. Compares([k \in {0} |-> InSeatOrder], 0)
    BY DEF Compares
  <2> QED
    BY <2>1
<1>2. ASSUME NEW m \in Nat, m \in S PROVE m + 1 \in S
  <2>1. PICK g : Compares(g, m)
    BY <1>2
  <2>2. g[0] = InSeatOrder /\ \A k \in 0..(m - 1) : g[k + 1] = next(g[k], k)
    BY <2>1 DEF Compares
  <2> HIDE DEF next
  <2> DEFINE h == [k \in 0..(m + 1) |-> IF k = m + 1 THEN next(g[m], m) ELSE g[k]]
  <2>3. h[0] = InSeatOrder
    BY <2>2
  <2>4. ASSUME NEW k \in 0..m PROVE h[k + 1] = next(h[k], k)
    <3>1. CASE k = m
      BY <3>1
    <3>2. CASE k # m
      <4>1. k \in 0..(m - 1) /\ k + 1 \in 0..(m + 1) /\ k + 1 # m + 1 /\ k \in 0..(m + 1) /\ k # m + 1
        BY <3>2
      <4>2. h[k + 1] = g[k + 1] /\ h[k] = g[k]
        BY <4>1
      <4> QED
        BY <2>2, <4>1, <4>2
    <3> QED
      BY <3>1, <3>2
  <2>5. Compares(h, m + 1)
    <3> HIDE DEF h
    <3>1. (m + 1) - 1 = m
      OBVIOUS
    <3> QED
      BY <2>3, <2>4, <3>1 DEF Compares, next
  <2> QED
    BY <2>5
<1> HIDE DEF S
<1>3. \A m \in Nat : m \in S
  BY <1>1, <1>2, SetInduction
<1> QED
  BY <1>3 DEF S

LEMMA SortsAgree ==
  ASSUME NEW l \in Nat, NEW m \in Nat, NEW g, NEW h, Compares(g, l), Compares(h, m),
         NEW k \in Nat, k <= l, k <= m
  PROVE  g[k] = h[k]
<1> DEFINE S == {i \in Nat : i <= l /\ i <= m => g[i] = h[i]}
<1>1. 0 \in S
  BY DEF Compares
<1>2. ASSUME NEW i \in Nat, i \in S PROVE i + 1 \in S
  <2> SUFFICES ASSUME i + 1 <= l, i + 1 <= m PROVE g[i + 1] = h[i + 1]
    OBVIOUS
  <2>1. i \in 0..(l - 1) /\ i \in 0..(m - 1) /\ g[i] = h[i]
    BY <1>2
  <2> QED
    BY <2>1 DEF Compares
<1> HIDE DEF S
<1>3. k \in S
  BY <1>1, <1>2, SetInduction
<1> QED
  BY <1>3 DEF S

\* The recursion of the sort is what its definition says: it ends with a list that
\* so many comparisons lead to.
LEMMA SortCompares ==
  \E g : /\ \A m \in Nat : Compares(g, m)
         /\ SortedSeats = g[Cardinality(Investors) * Cardinality(Investors)]
<1> DEFINE n == Cardinality(Investors)
           next(s, k) == Exchanged(s, k \div n, k % n)
           upTo(m) == CHOOSE g : Compares(g, m)
           f == [m \in Nat |-> upTo(m)[m]]
           Step(g) == [k \in Nat |-> IF k = 0 THEN InSeatOrder
                                     ELSE Exchanged(g[k - 1], (k - 1) \div n, (k - 1) % n)]
           sorted == CHOOSE g : g = Step(g)
<1>1. \A m \in Nat : Compares(upTo(m), m)
  BY SortExists
<1>2. ASSUME NEW k \in Nat PROVE upTo(k + 1)[k] = upTo(k)[k]
  <2>1. k + 1 \in Nat /\ k <= k + 1
    OBVIOUS
  <2> HIDE DEF upTo
  <2> QED
    BY <1>1, <2>1, SortsAgree
<1>3. f = Step(f)
  <2>1. f[0] = InSeatOrder
    <3> HIDE DEF upTo
    <3> QED
      BY <1>1 DEF Compares
  <2>2. ASSUME NEW k \in Nat \ {0} PROVE f[k] = next(f[k - 1], k - 1)
    <3>1. k - 1 \in Nat /\ k - 1 \in 0..(k - 1) /\ (k - 1) + 1 = k
      OBVIOUS
    <3> HIDE DEF upTo
    <3>2. upTo(k)[k] = next(upTo(k)[k - 1], k - 1)
      BY <1>1, <3>1 DEF Compares
    <3>3. upTo(k)[k - 1] = upTo(k - 1)[k - 1]
      BY <1>2, <3>1
    <3> QED
      BY <3>1, <3>2, <3>3
  <2>3. \A k \in Nat : f[k] = Step(f)[k]
    <3> HIDE DEF upTo
    <3>1. \A k \in Nat \ {0} : k - 1 \in Nat
      OBVIOUS
    <3> QED
      BY <2>1, <2>2, <3>1
  <2> HIDE DEF upTo
  <2> QED
    BY <2>3
<1> HIDE DEF f
<1>4. sorted = Step(sorted)
  BY <1>3
<1>5. SortedSeats = sorted[n * n]
  BY DEF SortedSeats
<1> HIDE DEF sorted
<1>6. ASSUME NEW m \in Nat PROVE Compares(sorted, m)
  <2>1. sorted[0] = InSeatOrder
    BY <1>4
  <2>2. ASSUME NEW k \in 0..(m - 1) PROVE sorted[k + 1] = next(sorted[k], k)
    <3>1. k + 1 \in Nat /\ k + 1 # 0 /\ (k + 1) - 1 = k
      OBVIOUS
    <3> QED
      BY <1>4, <3>1
  <2> QED
    BY <2>1, <2>2 DEF Compares
<1> QED
  BY <1>5, <1>6

LEMMA SortedLists ==
  ASSUME Investors # {}
  PROVE  Lists(SortedSeats)
<1> DEFINE n == Cardinality(Investors)
<1>1. PICK g : /\ \A m \in Nat : Compares(g, m)
               /\ SortedSeats = g[Cardinality(Investors) * Cardinality(Investors)]
  BY SortCompares
<1>2. n \in Nat \ {0}
  BY InvestorsCount, FS_EmptySet
<1> DEFINE S == {k \in Nat : Lists(g[k])}
<1>3. 0 \in S
  <2>1. g[0] = InSeatOrder
    BY <1>1 DEF Compares
  <2> QED
    BY <2>1, SeatOrderLists
<1>4. ASSUME NEW k \in Nat, k \in S PROVE k + 1 \in S
  <2> HIDE DEF n
  <2>1. k \div n \in Nat /\ k % n \in 0..(n - 1)
    BY <1>2
  <2>2. k + 1 \in Nat /\ k \in 0..((k + 1) - 1)
    OBVIOUS
  <2>3. g[k + 1] = Exchanged(g[k], k \div n, k % n)
    BY <1>1, <2>2 DEF Compares, n
  <2>4. Lists(g[k])
    BY <1>4
  <2>5. Lists(Exchanged(g[k], k \div n, k % n))
    BY <2>1, <2>4, ExchangeLists DEF n
  <2> QED
    BY <2>2, <2>3, <2>5
<1> HIDE DEF S, n
<1>5. n * n \in S
  <2>1. n * n \in Nat
    BY <1>2
  <2> QED
    BY <1>3, <1>4, <2>1, SetInduction
<1> QED
  BY <1>1, <1>5 DEF S, n

------------------------------------------------------------------------------
\* Quotient and remainder.
LEMMA Division ==
  ASSUME NEW x \in Nat, NEW r \in Nat \ {0}
  PROVE  /\ x \div r \in Nat /\ x % r \in 0..(r - 1)
         /\ (x \div r) * r + (x % r) = x
OBVIOUS

\* Two seats do not stand at one place of the list.
LEMMA PlacesDiffer ==
  ASSUME NEW s, Lists(s), NEW p \in Investors
  PROVE  /\ Place(s, p) \in Int
         /\ \A q \in Investors : q # p => Place(s, q) # Place(s, p)
<1>1. DOMAIN s = 0..(Cardinality(Investors) - 1)
  BY DEF Lists
<1>2. ASSUME NEW q \in Investors PROVE Place(s, q) \in DOMAIN s /\ s[Place(s, q)] = q
  <2>1. \E i \in DOMAIN s : s[i] = q
    BY <1>1 DEF Lists
  <2> QED
    BY <2>1 DEF Place
<1>3. \A i \in DOMAIN s : i \in Int
  BY <1>1
<1> QED
  BY <1>2, <1>3

\* The shares of an amount, odd chips and all, are the amount.
LEMMA SharesAddUp ==
  ASSUME NEW s, Lists(s), NEW W, W \subseteq Investors, W # {}, NEW x \in Nat
  PROVE  /\ [p \in Seat |-> Share(x, W, s, p)] \in [Seat -> Nat]
         /\ SumOf([p \in Seat |-> Share(x, W, s, p)]) = x
<1> DEFINE n == Cardinality(W)
           R == {y \in W \X W : Place(s, y[1]) < Place(s, y[2])}
           rank == [p \in W |-> Rank(R, W, p)]
           L == x % n
           d == x \div n
           B == {p \in W : rank[p] < L}
           share == [p \in Seat |-> Share(x, W, s, p)]
           won == [p \in Seat |-> IF p \in W THEN 1 ELSE 0]
           odd == [p \in Seat |-> IF p \in B THEN 1 ELSE 0]
<1>1. IsFiniteSet(W) /\ n \in Nat \ {0} /\ W \subseteq Seat
  BY InvestorsCount, FS_Subset, FS_CardinalityType, FS_EmptySet DEF Investors
<1>2. \A p, q \in W : <<q, p>> \in R <=> Place(s, q) < Place(s, p)
  OBVIOUS
<1>3. /\ \A p \in W : Place(s, p) \in Int
      /\ \A p, q \in W : q # p => Place(s, q) # Place(s, p)
  BY PlacesDiffer
<1>4. Orders(R, W)
  <2> HIDE DEF R
  <2> QED
    BY <1>2, <1>3 DEF Orders
<1>5. \A p \in W : {q \in W : Place(s, q) < Place(s, p)} = {q \in W : <<q, p>> \in R}
  BY <1>2
<1>6. L \in 0..(n - 1) /\ d \in Nat /\ d * n + L = x
  <2> HIDE DEF n
  <2> QED
    BY <1>1, Division
<1>7. \A p \in Seat : share[p] = IF p \in W THEN d + (IF Rank(R, W, p) < L THEN 1 ELSE 0) ELSE 0
  BY <1>5 DEF Share, Rank
<1> HIDE DEF R, share, L, d
<1>8. /\ \A p \in W : Rank(R, W, p) \in 0..(n - 1)
      /\ \A p, q \in W : p # q => Rank(R, W, p) # Rank(R, W, q)
  <2> HIDE DEF n
  <2> QED
    BY <1>1, <1>4, RanksDiffer DEF n
<1>9. rank \in [W -> 0..(n - 1)] /\ \A p, q \in W : p # q => rank[p] # rank[q]
  BY <1>8
<1> HIDE DEF rank
<1>10. L \in 0..n
  BY <1>1, <1>6
<1>11. Cardinality(B) = L
  BY <1>1, <1>9, <1>10, RanksCount
<1>12. \A p \in Seat : share[p] = IF p \in W THEN d + (IF p \in B THEN 1 ELSE 0) ELSE 0
  BY <1>7 DEF rank
<1>13. share = [p \in Seat |-> share[p]]
  BY DEF share
<1>14. B \subseteq W
  OBVIOUS
<1> HIDE DEF B, n
<1>15. share \in [Seat -> Nat]
  BY <1>6, <1>12, <1>13
<1>16. Indicates(Seat, won, W) /\ Indicates(Seat, odd, B)
  BY <1>1, <1>14 DEF Indicates
<1>17. ASSUME NEW p \in Seat PROVE d * won[p] + odd[p] = 1 * share[p]
  <2>1. d * 1 = d /\ d * 0 = 0
    BY <1>6
  <2> QED
    BY <1>6, <1>12, <1>14, <2>1
<1>18. Combines(Seat, d, won, odd, 1, share)
  BY <1>6, <1>15, <1>17 DEF Combines
<1> HIDE DEF won, odd
<1>19. d * SumOf(won) + SumOf(odd) = 1 * SumOf(share)
  BY <1>18, SeatsUpTo, SumOfLinear
<1>20. SumOf(won) = n /\ SumOf(odd) = L /\ SumOf(share) \in Nat
  <2>1. SumOf(won) = Cardinality(W) /\ SumOf(odd) = Cardinality(B)
    BY <1>16, SeatsUpTo, SumOfCounts
  <2> QED
    BY <1>11, <1>15, <2>1, SeatsUpTo, SumOfType DEF n
<1>21. SumOf(share) = x
  BY <1>6, <1>19, <1>20
<1> QED
  BY <1>15, <1>21 DEF share

\* Who is not a winner has no share.
LEMMA LosersGetNothing ==
  ASSUME NEW s, NEW W, NEW x, NEW p, p \notin W
  PROVE  Share(x, W, s, p) = 0
BY DEF Share

\* Some hand is the best of the hands of some seats.
LEMMA SomebodyWins ==
  ASSUME NEW showing \in Showings, NEW S, S \subseteq Seat
  PROVE  /\ HighWinners(showing, S) \subseteq S /\ LowWinners(showing, S) \subseteq S
         /\ S # {} => HighWinners(showing, S) # {}
<1>1. HighWinners(showing, S) \subseteq S /\ LowWinners(showing, S) \subseteq S
  BY DEF HighWinners, LowWinners
<1>2. ASSUME S # {} PROVE HighWinners(showing, S) # {}
  <2> DEFINE f == [p \in Seat |-> IF p \in S THEN High(showing, p) + 1 ELSE 0]
  <2>1. \A p \in Seat : High(showing, p) \in Nat
    BY TableAssumption DEF High
  <2>2. f \in [Seat -> Nat] /\ \A p \in Seat : f[p] = IF p \in S THEN High(showing, p) + 1 ELSE 0
    BY <2>1
  <2> HIDE DEF f
  <2>3. PICK p \in Seat : \A q \in Seat : f[q] <= f[p]
    <3>1. \E p \in Seat : f[p] = Max(Range(f)) /\ \A q \in Seat : f[q] <= Max(Range(f))
      BY <2>2, HighestOfSeats
    <3> QED
      BY <3>1
  <2>4. PICK y \in S : TRUE
    BY <1>2
  <2>5. f[y] > 0 /\ y \in Seat
    BY <2>1, <2>2
  <2>6. p \in S
    BY <2>2, <2>3, <2>5
  <2>7. \A q \in S : High(showing, q) <= High(showing, p)
    BY <2>1, <2>2, <2>3, <2>6
  <2> QED
    BY <2>6, <2>7 DEF HighWinners
<1> QED
  BY <1>1, <1>2

LEMMA EligibleInvested ==
  ASSUME invested \in [Seat -> Nat], NEW l \in Levels
  PROVE  Eligible(l) \subseteq Investors /\ Eligible(l) \subseteq Seat
<1>1. l \in Nat /\ l > 0
  BY LevelsAreSteps
<1> QED
  BY <1>1 DEF Eligible, Contributors, Investors

\* A layer is paid in full to seats that may win it, if there is one.
LEMMA TakesAddUp ==
  ASSUME invested \in [Seat -> Nat], NEW l \in Levels, NEW showing \in Showings,
         NEW s, Lists(s)
  PROVE  /\ [p \in Seat |-> Take(showing, s, l, p)] \in [Seat -> Nat]
         /\ SumOf([p \in Seat |-> Take(showing, s, l, p)])
              = IF Eligible(l) = {} THEN 0 ELSE Layer(l)
         /\ \A p \in Seat : p \notin Eligible(l) => Take(showing, s, l, p) = 0
<1> DEFINE S == Eligible(l)
           x == Layer(l)
           half == x \div 2
           H == HighWinners(showing, S)
           W == LowWinners(showing, S)
           take == [p \in Seat |-> Take(showing, s, l, p)]
           hi == [p \in Seat |-> Share(half, H, s, p)]
           lo == [p \in Seat |-> Share(x - half, W, s, p)]
           all == [p \in Seat |-> Share(x, H, s, p)]
<1>1. S \subseteq Investors /\ S \subseteq Seat /\ x \in Nat
  BY EligibleInvested, LayersHoldAll
<1>2. H \subseteq S /\ W \subseteq S /\ (S # {} => H # {})
  BY <1>1, SomebodyWins
<1>3. \A p \in Seat : take[p] = IF W = {} THEN all[p] ELSE hi[p] + lo[p]
  BY DEF Take
<1>4. half \in Nat /\ x - half \in Nat /\ half + (x - half) = x
  <2> HIDE DEF x
  <2> QED
    BY <1>1
<1>5. take = [p \in Seat |-> take[p]]
  OBVIOUS
<1>6. \A p \in Seat : p \notin S => all[p] = 0 /\ hi[p] = 0 /\ lo[p] = 0
  BY <1>2, LosersGetNothing
<1>7. S = {} => \A p \in Seat : take[p] = 0
  BY <1>2, <1>3, <1>6
<1>8. UpTo(Seat, Last)
  BY SeatsUpTo
<1>9. S # {} => all \in [Seat -> Nat] /\ SumOf(all) = x /\ hi \in [Seat -> Nat] /\ SumOf(hi) = half
  <2> HIDE DEF half, x, H, S
  <2> QED
    BY <1>1, <1>2, <1>4, SharesAddUp
<1>10. W # {} => lo \in [Seat -> Nat] /\ SumOf(lo) = x - half
  <2> HIDE DEF half, x, W, S
  <2> QED
    BY <1>1, <1>2, <1>4, SharesAddUp
<1> HIDE DEF S, x, half, H, W, take, hi, lo, all
<1>11. CASE S = {}
  <2>1. take \in [Seat -> Nat] /\ DOMAIN take = Seat
    BY <1>5, <1>7, <1>11
  <2>2. SumOf(take) = 0
    BY <1>7, <1>8, <1>11, <2>1, SumOfNothing
  <2> QED
    BY <1>7, <1>11, <2>1, <2>2 DEF take, S
<1>12. CASE S # {} /\ W = {}
  <2>1. \A p \in Seat : take[p] = all[p]
    BY <1>3, <1>12
  <2>2. take = all
    BY <1>5, <1>9, <1>12, <2>1 DEF all
  <2> QED
    BY <1>6, <1>9, <1>12, <2>1, <2>2 DEF take, S, x
<1>13. CASE S # {} /\ W # {}
  <2>1. \A p \in Seat : take[p] = hi[p] + lo[p]
    BY <1>3, <1>13
  <2>2. take \in [Seat -> Nat]
    BY <1>5, <1>9, <1>10, <1>13, <2>1
  <2>3. SumOf(take) = SumOf(hi) + SumOf(lo)
    BY <1>8, <1>9, <1>10, <1>13, <2>1, <2>2, SumOfAdds
  <2>4. SumOf(take) = x
    BY <1>4, <1>9, <1>10, <1>13, <2>3
  <2>5. \A p \in Seat : p \notin S => take[p] = 0
    BY <1>6, <2>1
  <2> QED
    BY <1>13, <2>2, <2>4, <2>5 DEF take, S, x
<1> QED
  BY <1>11, <1>12, <1>13

------------------------------------------------------------------------------
\* What the seats win, over all layers, and how deep somebody left in the hand is.
Takes(showing, p) == [l \in Levels |-> Take(showing, SortedSeats, l, p)]
Won(showing)      == [p \in Seat |-> SumOf(Takes(showing, p))]
Deepest           == Max({0} \cup {invested[p] : p \in InHand})

LEMMA SmallerOfTwo ==
  ASSUME NEW x \in Nat, NEW y \in Nat
  PROVE  Min({x, y}) = IF y <= x THEN y ELSE x
<1>1. Min({x, y}) \in {x, y} /\ \A z \in {x, y} : Min({x, y}) <= z
  BY SmallestOf
<1>2. Min({x, y}) <= x /\ Min({x, y}) <= y
  BY <1>1
<1> QED
  BY <1>1, <1>2

LEMMA LargerThanZero ==
  ASSUME NEW x \in Int
  PROVE  Max({0, x}) = IF x <= 0 THEN 0 ELSE x
<1>1. \E z \in {0, x} : \A y \in {0, x} : z >= y
  OBVIOUS
<1>2. Max({0, x}) \in {0, x} /\ \A y \in {0, x} : Max({0, x}) >= y
  BY <1>1 DEF Max
<1>3. Max({0, x}) >= 0 /\ Max({0, x}) >= x
  BY <1>2
<1> QED
  BY <1>2, <1>3

\* A layer has a seat that may win it up to the deepest of them and no further.
LEMMA DeepestEligible ==
  ASSUME invested \in [Seat -> Nat], active \subseteq Seat
  PROVE  /\ Deepest \in Levels \cup {0} /\ Deepest \in Nat
         /\ \A l \in Levels : Eligible(l) = {} <=> ~(l <= Deepest)
<1> DEFINE T == {0} \cup {invested[p] : p \in InHand}
<1>1. /\ \A p \in Seat : invested[p] \in Levels \cup {0} /\ invested[p] <= Top
      /\ \A l \in Levels : l \in Nat /\ l > 0
      /\ Top \in Nat
  <2>1. Top \in Nat
    BY HighestOfSeats DEF Top
  <2> QED
    BY <2>1, LevelsAreSteps
<1>2. InHand \subseteq Seat
  BY DEF InHand
<1>3. T \in SUBSET (0..Top) /\ T # {} /\ T \subseteq Levels \cup {0}
  BY <1>1, <1>2
<1>4. /\ \A p \in InHand : invested[p] \in T
      /\ \A x \in T : x = 0 \/ \E p \in InHand : x = invested[p]
  OBVIOUS
<1>5. Deepest = Max(T)
  BY DEF Deepest
<1> HIDE DEF T
<1>6. Deepest \in T /\ \A x \in T : x <= Deepest
  BY <1>1, <1>3, <1>5, LargestOf
<1>7. Deepest \in Nat
  BY <1>3, <1>6
<1>8. ASSUME NEW l \in Levels PROVE Eligible(l) = {} <=> ~(l <= Deepest)
  <2>1. CASE l <= Deepest
    <3>1. PICK p \in InHand : Deepest = invested[p]
      BY <1>1, <1>4, <1>6, <1>7, <2>1
    <3>2. p \in Eligible(l)
      BY <1>1, <1>2, <1>7, <2>1, <3>1 DEF Eligible, Contributors
    <3> QED
      BY <2>1, <3>2
  <2>2. CASE ~(l <= Deepest)
    <3>1. ASSUME NEW p \in Eligible(l) PROVE FALSE
      <4>1. p \in InHand /\ invested[p] >= l /\ invested[p] \in Nat
        BY <1>2 DEF Eligible, Contributors
      <4>2. invested[p] <= Deepest
        BY <1>4, <1>6, <4>1
      <4> QED
        BY <1>1, <1>7, <2>2, <4>1, <4>2
    <3> QED
      BY <2>2, <3>1
  <2> QED
    BY <2>1, <2>2
<1> QED
  BY <1>3, <1>6, <1>7, <1>8

\* What everybody has put in is what is won up to the deepest, and what is not
\* contested.
LEMMA UncontestedIsOver ==
  ASSUME invested \in [Seat -> Nat], active \subseteq Seat
  PROVE  /\ Uncontested \in Nat
         /\ SumOf(LayersUpTo(Deepest)) + Uncontested = SumOf(invested)
<1> DEFINE d == Deepest
           up == UpToLevel(Seat, invested, d)
           over == [q \in Seat |-> Max({0, invested[q] - d})]
<1>1. d \in Levels \cup {0} /\ d \in Nat
  BY DeepestEligible
<1>2. SumOf(LayersUpTo(d)) = SumOf(up) /\ up \in [Seat -> Nat]
  BY <1>1, LayersHold
<1>3. Uncontested = SumOf(over)
  BY DEF Uncontested, Deepest
<1> HIDE DEF d
<1>4. ASSUME NEW q \in Seat
      PROVE  Max({0, invested[q] - d}) = IF invested[q] - d <= 0 THEN 0 ELSE invested[q] - d
  <2>1. invested[q] - d \in Int
    BY <1>1
  <2> QED
    BY <2>1, LargerThanZero
<1>5. \A q \in Seat : over[q] \in Nat /\ invested[q] = up[q] + over[q]
  BY <1>1, <1>4 DEF UpToLevel
<1>6. over \in [Seat -> Nat]
  BY <1>5
<1> HIDE DEF up, over
<1>7. SumOf(invested) = SumOf(up) + SumOf(over)
  BY <1>2, <1>5, <1>6, SeatsUpTo, SumOfAdds
<1>8. SumOf(over) \in Nat
  BY <1>6, SeatsUpTo, SumOfType
<1> QED
  BY <1>2, <1>3, <1>7, <1>8 DEF d

LEMMA AwardPays ==
  ASSUME invested \in [Seat -> Nat], active \subseteq Seat, Levels # {},
         NEW showing \in Showings
  PROVE  /\ Won(showing) \in [Seat -> Nat]
         /\ \A p \in Seat : /\ p \notin InHand => Won(showing)[p] = 0
                            /\ Won(showing)[p] <= Covered(p)
         /\ SumOf(Won(showing)) + Uncontested = SumOf(invested)
<1> DEFINE F == [p \in Seat |-> Takes(showing, p)]
           won == Won(showing)
           h == [l \in Levels |-> SumOf([p \in Seat |-> F[p][l]])]
<1>1. Lists(SortedSeats)
  <2>1. PICK l \in Levels : TRUE
    OBVIOUS
  <2>2. \E p \in Seat : invested[p] = l /\ l > 0
    BY LevelsAreSteps
  <2>3. Investors # {}
    BY <2>2 DEF Investors
  <2> QED
    BY <2>3, SortedLists
<1>2. UpTo(Levels, Top) /\ UpTo(Seat, Last) /\ \A l \in Levels : l \in Nat
  BY LevelsAreSteps, SeatsUpTo
<1>3. ASSUME NEW l \in Levels, NEW p \in Seat
      PROVE  /\ F[p][l] = Take(showing, SortedSeats, l, p)
             /\ F[p][l] \in Nat
             /\ F[p][l] <= IF l <= invested[p] THEN Layer(l) ELSE 0
             /\ p \notin InHand => F[p][l] = 0
  <2> DEFINE take == [q \in Seat |-> Take(showing, SortedSeats, l, q)]
  <2>1. F[p][l] = take[p]
    BY DEF Takes
  <2>2. /\ take \in [Seat -> Nat]
        /\ SumOf(take) = IF Eligible(l) = {} THEN 0 ELSE Layer(l)
        /\ p \notin Eligible(l) => take[p] = 0
    BY <1>1, TakesAddUp
  <2> HIDE DEF take, F
  <2>3. take[p] <= SumOf(take) /\ take[p] \in Nat
    BY <1>2, <2>2, SumOfPart
  <2>4. p \in Eligible(l) => l <= invested[p] /\ p \in InHand
    BY <1>2 DEF Eligible, Contributors
  <2>5. Layer(l) \in Nat
    BY LayersHoldAll
  <2> QED
    BY <2>1, <2>2, <2>3, <2>4, <2>5 DEF take
<1>4. \A p \in Seat : F[p] = Takes(showing, p) /\ DOMAIN F[p] = Levels
  BY DEF Takes
<1>5. \A p \in Seat : F[p] = [l \in Levels |-> F[p][l]]
  BY DEF Takes
<1>6. ASSUME NEW l \in Levels PROVE h[l] = LayersUpTo(Deepest)[l]
  <2> DEFINE take == [q \in Seat |-> Take(showing, SortedSeats, l, q)]
  <2>1. [p \in Seat |-> F[p][l]] = take
    BY <1>3
  <2>2. SumOf(take) = IF Eligible(l) = {} THEN 0 ELSE Layer(l)
    BY <1>1, TakesAddUp
  <2>3. h[l] = SumOf(take)
    BY <2>1
  <2> HIDE DEF take, h
  <2>4. Eligible(l) = {} <=> ~(l <= Deepest)
    BY DeepestEligible
  <2> QED
    BY <2>2, <2>3, <2>4 DEF LayersUpTo
<1> HIDE DEF F
<1>7. \A p \in Seat : F[p] \in [Levels -> Nat]
  BY <1>3, <1>5
<1>8. Exchange(F, Seat, Levels)
  <2>1. Rows(F, Seat, Levels)
    BY <1>7 DEF Rows
  <2> QED
    BY <1>2, <2>1, SumOfExchange
<1>9. won = [p \in Seat |-> SumOf(F[p])]
  BY <1>4 DEF Won
<1>10. SumOf(won) = SumOf(LayersUpTo(Deepest))
  <2>1. SumOf(won) = SumOf(h)
    BY <1>8, <1>9 DEF Exchange
  <2>2. h = LayersUpTo(Deepest)
    <3>1. LayersUpTo(Deepest) = [l \in Levels |-> LayersUpTo(Deepest)[l]]
      BY DEF LayersUpTo
    <3> HIDE DEF h
    <3>2. h = [l \in Levels |-> h[l]]
      BY DEF h
    <3> QED
      BY <1>6, <3>1, <3>2
  <2> QED
    BY <2>1, <2>2
<1> HIDE DEF h
<1>11. ASSUME NEW p \in Seat
       PROVE  /\ won[p] \in Nat /\ (p \notin InHand => won[p] = 0)
              /\ won[p] <= Covered(p)
  <2> DEFINE y == LayersUpTo(invested[p])
             up == UpToLevel(Seat, invested, invested[p])
             mins == [q \in Seat |-> Min({invested[p], invested[q]})]
  <2>1. won[p] = SumOf(F[p]) /\ F[p] \in [Levels -> Nat] /\ DOMAIN F[p] = Levels
    BY <1>7, <1>9
  <2>2. SumOf(F[p]) \in Nat
    BY <1>2, <2>1, SumOfType
  <2>3. ASSUME p \notin InHand PROVE SumOf(F[p]) = 0
    <3>1. \A l \in Levels : F[p][l] = 0
      BY <1>3, <2>3
    <3> QED
      BY <1>2, <2>1, <3>1, SumOfNothing
  <2>4. invested[p] \in Levels \cup {0}
    BY LevelsAreSteps
  <2>5. y \in [Levels -> Nat] /\ SumOf(y) = SumOf(up)
    BY <2>4, LayersHold
  <2>6. \A l \in Levels : F[p][l] <= y[l]
    BY <1>3 DEF LayersUpTo
  <2> HIDE DEF y
  <2>7. SumOf(F[p]) <= SumOf(y)
    <3>1. NotAbove(Levels, F[p], y)
      BY <2>1, <2>5, <2>6 DEF NotAbove
    <3> QED
      BY <1>2, <3>1, SumOfSmaller
  <2>8. mins = up
    <3>1. ASSUME NEW q \in Seat
          PROVE  Min({invested[p], invested[q]})
                   = IF invested[q] <= invested[p] THEN invested[q] ELSE invested[p]
      <4>1. invested[p] \in Nat /\ invested[q] \in Nat
        OBVIOUS
      <4> QED
        BY <4>1, SmallerOfTwo
    <3> QED
      BY <3>1 DEF UpToLevel
  <2>9. Covered(p) = SumOf(up)
    BY <2>8 DEF Covered
  <2> QED
    BY <2>1, <2>2, <2>3, <2>5, <2>7, <2>9
<1>12. won \in [Seat -> Nat]
  BY <1>9, <1>11
<1>13. SumOf(won) + Uncontested = SumOf(invested)
  BY <1>10, UncontestedIsOver
<1> QED
  BY <1>11, <1>12, <1>13

------------------------------------------------------------------------------
\* What an action that leaves the chips and the rotation alone keeps.
Frame == UNCHANGED <<stack, bet, invested, pot, gone, done, variant, hands,
                     rotation, current, inCurrent, filed>>

LEMMA FrameKeeps == Accounts /\ RotationOK /\ Frame => Accounts' /\ RotationOK'
BY DEF Accounts, RotationOK, Frame

\* While a hand is played, two seats or more are in it and it is not done.
LEMMA PlayingMeans ==
  ASSUME GTypeOK, Playing
  PROVE  /\ ~done /\ hands > 0 /\ InHand \subseteq Seat /\ InHand # {}
         /\ \A p \in Seat : InHand \ {p} # {}
<1>1. ~done /\ hands > 0 /\ ~(Cardinality(InHand) <= 1)
  BY DEF Playing, IsHandComplete
<1>2. InHand \subseteq Seat
  BY DEF InHand, GTypeOK
<1>3. Cardinality({}) = 0 /\ \A p \in Seat : Cardinality({p}) = 1
  BY FS_EmptySet, FS_Singleton
<1>4. \A p \in Seat : ~(InHand \subseteq {p})
  <2> SUFFICES ASSUME NEW p \in Seat, InHand \subseteq {p} PROVE FALSE
    OBVIOUS
  <2>1. InHand = {} \/ InHand = {p}
    OBVIOUS
  <2> QED
    BY <1>1, <1>3, <2>1
<1> QED
  BY <1>1, <1>2, <1>4, SeatsUpTo

\* The turn goes to a seat, and a hand with somebody in it is not done by it.
LEMMA AdvanceFindsASeat ==
  ASSUME actor \in Seat, InHand' \subseteq Seat, InHand' # {}, Advance
  PROVE  actor' \in Seat /\ done' = done
<1> DEFINE Seated(i) == (actor + i) % NumPlayers
           turns == {i \in 1..NumPlayers : Seated(i) \in InHand'}
<1>1. NumPlayers \in Nat \ {0, 1} /\ Seat = 0..(NumPlayers - 1)
  BY TableAssumption DEF Seat
<1>2. PICK p \in Seat : p \in InHand'
  OBVIOUS
<1>3. \E i \in 1..NumPlayers : Seated(i) = p
  <2>1. CASE p > actor
    <3>1. p - actor \in 1..NumPlayers /\ actor + (p - actor) = p /\ p % NumPlayers = p
      BY <1>1, <2>1
    <3> QED
      BY <3>1
  <2>2. CASE p <= actor
    <3> DEFINE i == (p + NumPlayers) - actor
    <3>1. i \in 1..NumPlayers /\ actor + i = p + NumPlayers
      BY <1>1, <2>2
    <3>2. (p + NumPlayers) % NumPlayers = p
      BY <1>1
    <3> QED
      BY <3>1, <3>2
  <2> QED
    BY <1>1, <2>1, <2>2
<1>4. turns \in SUBSET Nat /\ turns # {}
  <2>1. PICK i \in 1..NumPlayers : Seated(i) = p
    BY <1>3
  <2> HIDE DEF Seated
  <2>2. i \in turns
    BY <1>2, <2>1
  <2> QED
    BY <1>1, <2>2
<1>5. Min(turns) \in turns
  BY <1>4, SmallestOf
<1>6. actor' = Seated(Min(turns)) /\ done' = done
  BY DEF Advance, InHand
<1> QED
  BY <1>1, <1>5, <1>6

\* Chips of the seat on turn: what leaves its stack is in the pot and in what it
\* has invested.
LEMMA PayKeeps ==
  ASSUME GTypeOK, Accounts, ~done, actor \in active, NEW amount \in Nat,
         amount <= stack[actor], Pay(amount)
  PROVE  /\ stack' \in [Seat -> Nat] /\ bet' \in [Seat -> Nat] /\ invested' \in [Seat -> Nat]
         /\ active' = active /\ folded' = folded /\ allIn' \subseteq active
         /\ pot' \in Nat /\ pot' = SumOf(invested')
         /\ SumOf(stack') + pot' = SumOf(stack) + pot
<1>1. /\ stack \in [Seat -> Nat] /\ bet \in [Seat -> Nat] /\ invested \in [Seat -> Nat]
      /\ actor \in Seat /\ pot \in Nat /\ pot = SumOf(invested)
  BY DEF GTypeOK, Accounts
<1>2. /\ bet' = [bet EXCEPT ![actor] = @ + amount]
      /\ stack' = [stack EXCEPT ![actor] = @ - amount]
      /\ invested' = [invested EXCEPT ![actor] = @ + amount]
      /\ pot' = pot + amount
  BY DEF Pay
<1>3. active' = active /\ folded' = folded /\ allIn' \subseteq active
  BY DEF Pay, GTypeOK
<1>4. /\ stack' \in [Seat -> Nat]
      /\ \A p \in Seat : stack[p] = IF p = actor THEN stack'[p] + amount ELSE stack'[p]
  BY <1>1, <1>2
<1>5. /\ invested' \in [Seat -> Nat]
      /\ \A p \in Seat : invested'[p] = IF p = actor THEN invested[p] + amount ELSE invested[p]
  BY <1>1, <1>2
<1>6. SumOf(stack) = SumOf(stack') + amount /\ SumOf(invested') = SumOf(invested) + amount
  <2>1. SumOf(stack) = SumOf(stack') + amount
    <3>1. Moves(Seat, stack', stack, actor, amount)
      BY <1>1, <1>4 DEF Moves
    <3> QED
      BY <3>1, SeatsUpTo, SumOfMoves
  <2>2. SumOf(invested') = SumOf(invested) + amount
    <3>1. Moves(Seat, invested, invested', actor, amount)
      BY <1>1, <1>5 DEF Moves
    <3> QED
      BY <3>1, SeatsUpTo, SumOfMoves
  <2> QED
    BY <2>1, <2>2
<1>7. SumOf(stack') \in Nat
  BY <1>4, SeatsUpTo, SumOfType
<1>8. bet' \in [Seat -> Nat]
  BY <1>1, <1>2
<1> QED
  BY <1>1, <1>2, <1>3, <1>4, <1>5, <1>6, <1>7, <1>8

LEMMA InitKeeps == Init => GInductive
<1> SUFFICES ASSUME Init PROVE GInductive
  OBVIOUS
<1>1. /\ stack = StartStacks /\ StartStacks \in [Seat -> Nat] /\ pot = 0 /\ gone = 0
      /\ invested = [p \in Seat |-> 0] /\ bet = [p \in Seat |-> 0] /\ done = FALSE
  BY TableAssumption DEF Init
<1>2. GTypeOK
  <2>1. actor = 0 /\ actor \in Seat /\ active = Seat /\ folded = {} /\ allIn = {} /\ hole = {}
    BY SeatsUpTo DEF Init
  <2>2. {shown, done} \subseteq BOOLEAN
    BY DEF Init
  <2>3. filed \in [DOMAIN Variants -> Nat] /\ {current, variant} \subseteq DOMAIN Variants
    BY TableAssumption DEF Init
  <2>4. board \in {0, 3, 4, 5} /\ rotation \in Rotations /\ {raises, inCurrent, hands} \subseteq Nat
    BY DEF Init
  <2> QED
    BY <1>1, <2>1, <2>2, <2>3, <2>4 DEF GTypeOK
<1>3. Accounts
  <2>1. SumOf(invested) = 0
    BY <1>1, SeatsUpTo, SumOfNothing
  <2>2. SumOf(stack) \in Nat /\ SumOf(stack) = Bankroll
    BY <1>1, SeatsUpTo, SumOfType DEF Bankroll
  <2> QED
    BY <1>1, <2>1, <2>2 DEF Accounts
<1>4. RotationOK
  BY TableAssumption DEF Init, RotationOK
<1> QED
  BY <1>2, <1>3, <1>4 DEF GInductive

\* Blinds and antes come out of the stacks; a pot that was not paid is dropped.
LEMMA SetupKeeps ==
  ASSUME GInductive, NEW button \in Seat, SetupHand(button)
  PROVE  GInductive'
<1> DEFINE blind == [p \in Seat |->
                       CASE p = SmallBlind(button) -> Post(stack, p, Blinds.small)
                         [] p = BigBlind(button) -> Post(stack, p, Blinds.big)
                         [] OTHER -> 0]
           left == [p \in Seat |-> stack[p] - blind[p]]
           ante == [p \in Seat |-> IF stack[p] > 0 THEN Post(left, p, Blinds.ante) ELSE 0]
<1>1. /\ stack \in [Seat -> Nat] /\ pot \in Nat /\ gone \in Nat
      /\ SumOf(stack) + pot + gone = Bankroll
      /\ Blinds.small \in Nat /\ Blinds.big \in Nat /\ Blinds.ante \in Nat
  BY TableAssumption DEF GInductive, GTypeOK, Accounts
<1>2. /\ bet' = blind /\ pot' = SumOf(invested') /\ gone' = gone + pot /\ done' = FALSE
      /\ invested' = [p \in Seat |-> blind[p] + ante[p]]
      /\ stack' = [p \in Seat |-> left[p] - ante[p]]
  BY DEF SetupHand
<1>3. ASSUME NEW p \in Seat PROVE blind[p] \in Nat /\ blind[p] <= stack[p]
  <2>1. blind[p] \in {Post(stack, p, Blinds.small), Post(stack, p, Blinds.big), 0}
    <3>1. blind[p] = CASE p = SmallBlind(button) -> Post(stack, p, Blinds.small)
                       [] p = BigBlind(button) -> Post(stack, p, Blinds.big)
                       [] OTHER -> 0
      OBVIOUS
    <3> QED
      BY <3>1
  <2>2. stack[p] \in Nat
    BY <1>1
  <2> HIDE DEF blind
  <2> QED
    BY <1>1, <2>1, <2>2 DEF Post
<1>4. ASSUME NEW p \in Seat PROVE ante[p] \in Nat /\ ante[p] <= left[p]
  <2>1. left[p] \in Nat /\ left[p] = stack[p] - blind[p]
    BY <1>1, <1>3
  <2>2. Post(left, p, Blinds.ante) \in {Blinds.ante, 0} /\ Post(left, p, Blinds.ante) <= left[p]
    <3> HIDE DEF left
    <3> QED
      BY <1>1, <2>1 DEF Post
  <2>3. ante[p] \in {Post(left, p, Blinds.ante), 0}
    OBVIOUS
  <2> HIDE DEF left, ante
  <2> QED
    BY <1>1, <2>1, <2>2, <2>3
<1>5. ASSUME NEW p \in Seat
      PROVE  stack'[p] \in Nat /\ invested'[p] \in Nat /\ stack[p] = stack'[p] + invested'[p]
  <2>1. invested'[p] = blind[p] + ante[p] /\ stack'[p] = (stack[p] - blind[p]) - ante[p]
        /\ left[p] = stack[p] - blind[p] /\ stack[p] \in Nat
    BY <1>1, <1>2
  <2> HIDE DEF blind, left, ante
  <2> QED
    BY <1>3, <1>4, <2>1
<1>6. bet' \in [Seat -> Nat]
  <2> HIDE DEF left, ante
  <2>1. bet' = [p \in Seat |-> blind[p]]
    BY <1>2
  <2> HIDE DEF blind
  <2> QED
    BY <1>3, <2>1
<1> HIDE DEF blind, left, ante
<1>7. stack' \in [Seat -> Nat] /\ invested' \in [Seat -> Nat]
  BY <1>2, <1>5
<1>8. SumOf(stack) = SumOf(stack') + SumOf(invested')
  BY <1>1, <1>5, <1>7, SeatsUpTo, SumOfAdds
<1>9. SumOf(stack') \in Nat /\ SumOf(invested') \in Nat
  BY <1>7, SeatsUpTo, SumOfType
<1>10. actor' \in Seat
  <2>1. NumPlayers \in Nat \ {0, 1} /\ Seat = 0..(NumPlayers - 1)
    BY TableAssumption DEF Seat
  <2>2. \A p \in Seat : Next_(p) \in Seat
    BY <2>1 DEF Next_
  <2>3. FirstToAct(button) \in Seat
    BY <2>2 DEF FirstToAct, BigBlind, SmallBlind
  <2> QED
    BY <2>3 DEF SetupHand
<1>11. GTypeOK'
  <2>1. /\ active' \subseteq Seat /\ folded' = {} /\ allIn' = {} /\ hole' = {} /\ board' = 0
        /\ shown' = FALSE /\ raises' = 0 /\ hands' = hands + 1 /\ variant' = current
        /\ UNCHANGED mixedVars
    BY DEF SetupHand
  <2>2. {shown', done'} \subseteq BOOLEAN
    BY <1>2, <2>1
  <2>3. /\ {current, variant} \subseteq DOMAIN Variants /\ rotation \in Rotations
        /\ filed \in [DOMAIN Variants -> Nat] /\ {raises, inCurrent, hands} \subseteq Nat
    BY DEF GInductive, GTypeOK
  <2>4. pot' \in Nat /\ gone' \in Nat
    BY <1>1, <1>2, <1>9
  <2>5. /\ {current', variant'} \subseteq DOMAIN Variants /\ rotation' \in Rotations
        /\ filed' \in [DOMAIN Variants -> Nat] /\ {raises', inCurrent', hands'} \subseteq Nat
    BY <2>1, <2>3 DEF mixedVars
  <2> QED
    BY <1>6, <1>7, <1>10, <2>1, <2>2, <2>4, <2>5 DEF GTypeOK
<1>12. Accounts'
  BY <1>1, <1>2, <1>8, <1>9 DEF Accounts
<1>13. RotationOK'
  BY DEF SetupHand, mixedVars, GInductive, RotationOK
<1> QED
  BY <1>11, <1>12, <1>13 DEF GInductive

LEMMA DealKeeps ==
  ASSUME GInductive, DealHole \/ DealBoard
  PROVE  GInductive'
<1>1. Frame /\ UNCHANGED <<seatVars, actor, raises, shown>>
  BY DEF Frame, DealHole, DealBoard, chipVars, mixedVars
<1>2. hole' \subseteq Seat /\ board' \in {0, 3, 4, 5}
  BY DEF DealHole, DealBoard, GInductive, GTypeOK
<1>3. GTypeOK'
  BY <1>1, <1>2 DEF GInductive, GTypeOK, Frame, chipVars, seatVars, mixedVars
<1> QED
  BY <1>1, <1>3, FrameKeeps DEF GInductive

\* What every action of a seat does to the chips and the seats, before the turn
\* passes on.
LEMMA ActionKeeps ==
  ASSUME GInductive, Act
  PROVE  /\ stack' \in [Seat -> Nat] /\ bet' \in [Seat -> Nat] /\ invested' \in [Seat -> Nat]
         /\ pot' \in Nat /\ pot' = SumOf(invested') /\ SumOf(stack') + pot' = SumOf(stack) + pot
         /\ active' \subseteq Seat /\ folded' \subseteq Seat /\ allIn' \subseteq active'
         /\ InHand' # {} /\ raises' \in Nat
<1>1. GTypeOK /\ Accounts /\ Playing /\ CanAct(actor)
  BY DEF GInductive, Act
<1>2. /\ ~done /\ InHand \subseteq Seat /\ InHand # {} /\ \A p \in Seat : InHand \ {p} # {}
  BY <1>1, PlayingMeans
<1>3. /\ stack \in [Seat -> Nat] /\ bet \in [Seat -> Nat] /\ invested \in [Seat -> Nat]
      /\ pot \in Nat /\ pot = SumOf(invested) /\ actor \in Seat /\ raises \in Nat
      /\ active \subseteq Seat /\ folded \subseteq Seat /\ allIn \subseteq active
  BY <1>1, <1>2 DEF GTypeOK, Accounts
<1>4. actor \in active /\ actor \notin folded /\ actor \notin allIn
  BY <1>1 DEF CanAct
<1>5. ASSUME NEW amount \in Nat, amount <= stack[actor], Pay(amount), raises' \in Nat
      PROVE  /\ stack' \in [Seat -> Nat] /\ bet' \in [Seat -> Nat] /\ invested' \in [Seat -> Nat]
             /\ pot' \in Nat /\ pot' = SumOf(invested') /\ SumOf(stack') + pot' = SumOf(stack) + pot
             /\ active' \subseteq Seat /\ folded' \subseteq Seat /\ allIn' \subseteq active'
             /\ InHand' # {} /\ raises' \in Nat
  <2>1. /\ stack' \in [Seat -> Nat] /\ bet' \in [Seat -> Nat] /\ invested' \in [Seat -> Nat]
        /\ active' = active /\ folded' = folded /\ allIn' \subseteq active
        /\ pot' \in Nat /\ pot' = SumOf(invested')
        /\ SumOf(stack') + pot' = SumOf(stack) + pot
    BY <1>1, <1>2, <1>4, <1>5, PayKeeps
  <2>2. InHand' # {}
    BY <1>2, <2>1 DEF InHand
  <2> QED
    BY <1>3, <1>5, <2>1, <2>2
<1>6. ToCall(actor) \in Nat
  <2>1. Max(Range(bet)) \in Nat /\ bet[actor] <= Max(Range(bet)) /\ bet[actor] \in Nat
    BY <1>3, HighestOfSeats
  <2> QED
    BY <2>1 DEF ToCall
<1>7. stack[actor] \in Nat
  BY <1>3
<1>8. CASE Fold
  <2>1. /\ folded' = folded \cup {actor} /\ active' = active \ {actor}
        /\ UNCHANGED <<stack, bet, invested, pot, allIn, raises>>
    BY <1>8 DEF Fold, chipVars
  <2>2. InHand' # {}
    BY <1>2, <1>3, <2>1 DEF InHand
  <2>3. SumOf(invested') = SumOf(invested) /\ SumOf(stack') = SumOf(stack)
    BY <2>1
  <2> QED
    BY <1>3, <1>4, <2>1, <2>2, <2>3
<1>9. CASE Check
  <2>1. UNCHANGED <<stack, bet, invested, pot, active, folded, allIn, raises>>
    BY <1>9 DEF Check, chipVars, seatVars
  <2>2. InHand' # {}
    BY <1>2, <2>1 DEF InHand
  <2>3. SumOf(invested') = SumOf(invested) /\ SumOf(stack') = SumOf(stack)
    BY <2>1
  <2> QED
    BY <1>3, <2>1, <2>2, <2>3
<1>10. CASE Call
  <2>1. Pay(Min({ToCall(actor), stack[actor]})) /\ raises' = raises
    BY <1>10 DEF Call
  <2>2. /\ Min({ToCall(actor), stack[actor]}) \in Nat
        /\ Min({ToCall(actor), stack[actor]}) <= stack[actor]
    BY <1>6, <1>7, SmallerOfTwo
  <2>3. raises' \in Nat
    BY <1>3, <2>1
  <2> QED
    BY <1>5, <2>1, <2>2, <2>3
<1>11. CASE AllIn
  <2>1. Pay(stack[actor]) /\ raises' \in Nat
    BY <1>3, <1>11 DEF AllIn
  <2>2. stack[actor] <= stack[actor]
    BY <1>7
  <2> QED
    BY <1>5, <1>7, <2>1, <2>2
<1>12. CASE \E amount \in 1..stack[actor] : BetChips(amount) \/ Raise(amount)
  <2>1. PICK amount \in 1..stack[actor] : BetChips(amount) \/ Raise(amount)
    BY <1>12
  <2>2. Pay(amount) /\ raises' \in Nat
    BY <1>3, <2>1 DEF BetChips, Raise
  <2>3. amount \in Nat /\ amount <= stack[actor]
    BY <1>7
  <2> QED
    BY <1>5, <2>2, <2>3
<1> QED
  BY <1>8, <1>9, <1>10, <1>11, <1>12 DEF Act

LEMMA ActKeeps ==
  ASSUME GInductive, Act
  PROVE  GInductive'
<1>1. /\ stack' \in [Seat -> Nat] /\ bet' \in [Seat -> Nat] /\ invested' \in [Seat -> Nat]
      /\ pot' \in Nat /\ pot' = SumOf(invested') /\ SumOf(stack') + pot' = SumOf(stack) + pot
      /\ active' \subseteq Seat /\ folded' \subseteq Seat /\ allIn' \subseteq active'
      /\ InHand' # {} /\ raises' \in Nat
  BY ActionKeeps
<1>2. Advance /\ UNCHANGED <<cardVars, shown, variant, mixedVars, hands, gone>> /\ Playing
  BY DEF Act
<1>3. GTypeOK /\ Accounts /\ RotationOK
  BY DEF GInductive
<1>4. ~done /\ actor \in Seat
  BY <1>2, <1>3, PlayingMeans DEF GTypeOK
<1>5. actor' \in Seat /\ done' = done
  <2>1. InHand' \subseteq Seat
    BY <1>1 DEF InHand
  <2> QED
    BY <1>1, <1>2, <1>4, <2>1, AdvanceFindsASeat
<1>6. GTypeOK'
  BY <1>1, <1>2, <1>3, <1>5 DEF GTypeOK, cardVars, mixedVars
<1>7. Accounts'
  <2>1. SumOf(stack') + pot' + gone' = SumOf(stack) + pot + gone
    <3>1. SumOf(stack') \in Nat /\ SumOf(stack) \in Nat /\ gone \in Nat /\ pot \in Nat
      BY <1>1, <1>3, SeatsUpTo, SumOfType DEF GTypeOK
    <3>2. gone' = gone
      BY <1>2
    <3> QED
      BY <1>1, <3>1, <3>2
  <2> QED
    BY <1>1, <1>3, <1>4, <1>5, <2>1 DEF Accounts
<1>8. RotationOK'
  BY <1>2, <1>3, <1>5 DEF RotationOK, mixedVars
<1> QED
  BY <1>6, <1>7, <1>8 DEF GInductive

LEMMA SkipKeeps ==
  ASSUME GInductive, Skip
  PROVE  GInductive'
<1>1. GTypeOK /\ Accounts /\ RotationOK /\ Playing /\ Advance
  BY DEF GInductive, Skip
<1>2. /\ UNCHANGED <<chipVars, seatVars, cardVars, raises, shown, variant, mixedVars, hands, gone>>
  BY DEF Skip
<1>3. InHand' = InHand
  BY <1>2 DEF seatVars, InHand
<1>4. actor' \in Seat /\ done' = done
  BY <1>1, <1>3, PlayingMeans, AdvanceFindsASeat DEF GTypeOK
<1>5. Frame
  BY <1>2, <1>4 DEF Frame, chipVars, mixedVars
<1>6. GTypeOK'
  BY <1>1, <1>2, <1>4 DEF GTypeOK, chipVars, seatVars, cardVars, mixedVars
<1> QED
  BY <1>1, <1>5, <1>6, FrameKeeps DEF GInductive

LEMMA ChooseKeeps ==
  ASSUME GInductive, ChooseVariant
  PROVE  GInductive'
<1>1. GTypeOK'
  BY DEF GInductive, GTypeOK, ChooseVariant, chipVars, seatVars, cardVars
<1>2. Accounts'
  BY DEF GInductive, Accounts, ChooseVariant, chipVars
<1>3. RotationOK'
  BY DEF GInductive, GTypeOK, RotationOK, ChooseVariant
<1> QED
  BY <1>1, <1>2, <1>3 DEF GInductive

\* The result is filed, and the rotation stays within its variants.
LEMMA FilingKeeps ==
  ASSUME GTypeOK, RotationOK, FileThenAdvance
  PROVE  /\ filed' = [filed EXCEPT ![current] = @ + 1] /\ filed' \in [DOMAIN Variants -> Nat]
         /\ current' \in DOMAIN Variants /\ inCurrent' \in Nat /\ rotation' \in Rotations
         /\ rotation' = "sequential" => inCurrent' < Variants[current'].hands
<1> DEFINE n == Cardinality(DOMAIN Variants)
<1>1. /\ current \in DOMAIN Variants /\ rotation \in Rotations /\ inCurrent \in Nat
      /\ filed \in [DOMAIN Variants -> Nat]
  BY DEF GTypeOK
<1>2. /\ n \in Nat /\ DOMAIN Variants = 0..(n - 1) /\ 0 \in DOMAIN Variants
      /\ \A v \in DOMAIN Variants : Variants[v].hands \in Nat \ {0}
      /\ Rotations \subseteq {"sequential", "random", "choice"}
  BY TableAssumption, FS_CardinalityType
<1>3. /\ filed' = [filed EXCEPT ![current] = @ + 1] /\ rotation' = rotation
      /\ CASE rotation = "sequential" ->
                IF inCurrent + 1 >= Variants[current].hands
                THEN current' = (current + 1) % n /\ inCurrent' = 0
                ELSE inCurrent' = inCurrent + 1 /\ current' = current
           [] rotation = "random" -> current' \in DOMAIN Variants /\ inCurrent' = 0
           [] OTHER -> inCurrent' = inCurrent + 1 /\ current' = current
  BY DEF FileThenAdvance
<1> HIDE DEF n
<1>4. (current + 1) % n \in DOMAIN Variants
  <2>1. n \in Nat \ {0} /\ current + 1 \in Nat
    BY <1>1, <1>2
  <2>2. (current + 1) % n \in 0..(n - 1)
    BY <2>1, Division
  <2> QED
    BY <1>2, <2>2
<1>5. filed' \in [DOMAIN Variants -> Nat]
  BY <1>1, <1>3
<1>6. CASE rotation = "sequential"
  <2>1. IF inCurrent + 1 >= Variants[current].hands
        THEN current' = (current + 1) % n /\ inCurrent' = 0
        ELSE inCurrent' = inCurrent + 1 /\ current' = current
    BY <1>3, <1>6
  <2>2. Variants[current].hands \in Nat \ {0}
    BY <1>1, <1>2
  <2>3. CASE inCurrent + 1 >= Variants[current].hands
    <3>1. current' = (current + 1) % n /\ inCurrent' = 0
      BY <2>1, <2>3
    <3>2. current' \in DOMAIN Variants /\ Variants[current'].hands \in Nat \ {0}
      BY <1>2, <1>4, <3>1
    <3> QED
      BY <1>1, <1>3, <1>5, <3>1, <3>2
  <2>4. CASE ~(inCurrent + 1 >= Variants[current].hands)
    <3>1. inCurrent' = inCurrent + 1 /\ current' = current
      BY <2>1, <2>4
    <3> QED
      BY <1>1, <1>3, <1>5, <2>2, <2>4, <3>1
  <2> QED
    BY <2>3, <2>4
<1>7. CASE rotation = "random"
  <2>1. current' \in DOMAIN Variants /\ inCurrent' = 0
    BY <1>3, <1>7
  <2> QED
    BY <1>1, <1>3, <1>5, <1>7, <2>1
<1>8. CASE rotation = "choice"
  <2>1. inCurrent' = inCurrent + 1 /\ current' = current
    BY <1>3, <1>8
  <2> QED
    BY <1>1, <1>3, <1>5, <1>8, <2>1
<1> QED
  BY <1>1, <1>2, <1>6, <1>7, <1>8

\* A pot that is paid: the winnings go to the stacks, what nobody left in the
\* hand has covered goes to nobody, and the hand is filed.
LEMMA DistributePays ==
  ASSUME GTypeOK, Accounts, RotationOK, ~done, Levels # {},
         NEW showing \in Showings, Distribute(showing)
  PROVE  /\ \A p \in Seat : stack'[p] = stack[p] + Won(showing)[p]
         /\ stack' \in [Seat -> Nat] /\ pot' = 0 /\ gone' \in Nat /\ done' = TRUE
         /\ SumOf(stack') = SumOf(stack) + pot - Uncontested
         /\ SumOf(stack') + pot' + gone' = Bankroll
         /\ FileThenAdvance
<1> DEFINE won == Won(showing)
<1>1. /\ stack \in [Seat -> Nat] /\ invested \in [Seat -> Nat] /\ active \subseteq Seat
      /\ pot \in Nat /\ gone \in Nat /\ pot = SumOf(invested)
      /\ SumOf(stack) + pot + gone = Bankroll
  BY DEF GTypeOK, Accounts
<1>2. won \in [Seat -> Nat] /\ SumOf(won) + Uncontested = SumOf(invested)
  BY <1>1, AwardPays
<1>3. /\ stack' = [p \in Seat |-> stack[p] + won[p]]
      /\ pot' = 0 /\ gone' = gone + pot - SumOf(won) /\ done' = TRUE /\ FileThenAdvance
  BY DEF Distribute, Won, Takes
<1>4. Uncontested \in Nat
  BY <1>1, UncontestedIsOver
<1> HIDE DEF won
<1>5. stack' \in [Seat -> Nat] /\ \A p \in Seat : stack'[p] = stack[p] + won[p]
  BY <1>1, <1>2, <1>3
<1>6. SumOf(stack') = SumOf(stack) + SumOf(won)
  BY <1>1, <1>2, <1>5, SeatsUpTo, SumOfAdds
<1>7. SumOf(stack) \in Nat /\ SumOf(won) \in Nat
  BY <1>1, <1>2, SeatsUpTo, SumOfType
<1>8. /\ gone' \in Nat /\ SumOf(stack') = SumOf(stack) + pot - Uncontested
      /\ SumOf(stack') + pot' + gone' = Bankroll
  BY <1>1, <1>2, <1>3, <1>4, <1>6, <1>7
<1> QED
  BY <1>3, <1>5, <1>8 DEF won

LEMMA NoLevelsNoPot ==
  ASSUME GTypeOK, Accounts, ~done, Levels = {}
  PROVE  pot = 0
<1>1. invested \in [Seat -> Nat] /\ pot = SumOf(invested)
  BY DEF GTypeOK, Accounts
<1>2. \A p \in Seat : invested[p] = 0
  BY <1>1 DEF Levels, Range
<1> QED
  BY <1>1, <1>2, SeatsUpTo, SumOfNothing

LEMMA CompleteKeeps ==
  ASSUME GInductive, CompleteHand
  PROVE  GInductive'
<1>1. /\ GTypeOK /\ Accounts /\ RotationOK /\ hands > 0 /\ ~done /\ shown' = TRUE
      /\ UNCHANGED <<bet, invested, seatVars, cardVars, actor, raises, variant, hands>>
  BY DEF GInductive, CompleteHand
<1>2. /\ bet' \in [Seat -> Nat] /\ invested' \in [Seat -> Nat]
      /\ active' \subseteq Seat /\ folded' \subseteq Seat /\ allIn' \subseteq active'
      /\ actor' \in Seat /\ board' \in {0, 3, 4, 5} /\ hole' \subseteq Seat
      /\ variant' \in DOMAIN Variants /\ raises' \in Nat /\ hands' \in Nat
  BY <1>1 DEF GTypeOK, seatVars, cardVars
<1>3. CASE UNCHANGED <<stack, pot, done, gone, mixedVars>>
  <2>1. Frame
    BY <1>1, <1>3 DEF Frame, mixedVars
  <2>2. {shown', done'} \subseteq BOOLEAN
    BY <1>1, <1>3 DEF GTypeOK
  <2>3. GTypeOK'
    BY <1>1, <1>2, <1>3, <2>2 DEF GTypeOK, mixedVars
  <2> QED
    BY <1>1, <2>1, <2>3, FrameKeeps DEF GInductive
<1>4. CASE \E showing \in Showings : Distribute(showing)
  <2>1. PICK showing \in Showings : Distribute(showing)
    BY <1>4
  <2>2. done' = TRUE /\ {shown', done'} \subseteq BOOLEAN
    BY <1>1, <2>1 DEF Distribute
  <2>3. CASE Levels = {}
    <3>1. UNCHANGED <<stack, pot, gone, mixedVars>>
      BY <2>1, <2>3 DEF Distribute
    <3>2. pot = 0
      BY <1>1, <2>3, NoLevelsNoPot
    <3>3. GTypeOK'
      BY <1>1, <1>2, <2>2, <3>1 DEF GTypeOK, mixedVars
    <3>4. Accounts'
      BY <1>1, <2>2, <3>1, <3>2 DEF Accounts
    <3>5. RotationOK'
      BY <1>1, <2>2, <3>1 DEF RotationOK, mixedVars
    <3> QED
      BY <3>3, <3>4, <3>5 DEF GInductive
  <2>4. CASE Levels # {}
    <3>1. /\ stack' \in [Seat -> Nat] /\ pot' = 0 /\ gone' \in Nat
          /\ SumOf(stack') + pot' + gone' = Bankroll /\ FileThenAdvance
      BY <1>1, <2>1, <2>4, DistributePays
    <3>2. /\ filed' \in [DOMAIN Variants -> Nat] /\ current' \in DOMAIN Variants
          /\ inCurrent' \in Nat /\ rotation' \in Rotations
          /\ rotation' = "sequential" => inCurrent' < Variants[current'].hands
      BY <1>1, <3>1, FilingKeeps
    <3>3. GTypeOK'
      BY <1>2, <2>2, <3>1, <3>2 DEF GTypeOK
    <3>4. Accounts' /\ RotationOK'
      BY <2>2, <3>1, <3>2 DEF Accounts, RotationOK
    <3> QED
      BY <3>3, <3>4 DEF GInductive
  <2> QED
    BY <2>3, <2>4
<1> QED
  BY <1>3, <1>4 DEF CompleteHand

LEMMA StepKeeps == GInductive /\ [Next]_vars => GInductive'
<1> SUFFICES ASSUME GInductive, [Next]_vars PROVE GInductive'
  OBVIOUS
<1>1. CASE UNCHANGED vars
  <2>1. GTypeOK'
    BY <1>1 DEF GInductive, GTypeOK, vars, chipVars, seatVars, cardVars, mixedVars
  <2>2. Frame
    BY <1>1 DEF Frame, vars, chipVars, mixedVars
  <2> QED
    BY <2>1, <2>2, FrameKeeps DEF GInductive
<1>2. CASE \E button \in Seat : SetupHand(button)
  BY <1>2, SetupKeeps
<1>3. CASE DealHole \/ DealBoard
  BY <1>3, DealKeeps
<1>4. CASE Act
  BY <1>4, ActKeeps
<1>5. CASE Skip
  BY <1>5, SkipKeeps
<1>6. CASE CompleteHand
  BY <1>6, CompleteKeeps
<1>7. CASE ChooseVariant
  BY <1>7, ChooseKeeps
<1> QED
  BY <1>1, <1>2, <1>3, <1>4, <1>5, <1>6, <1>7 DEF Next

------------------------------------------------------------------------------
\* Whatever is played, the table keeps its accounts and its rotation: until a
\* hand is done the pot is what the seats have invested, the chips in the stacks,
\* in the pot and dropped are those the table started with, and a hand is played
\* by the rules of the variant on turn (game_engine.c and mixed_game.c).
THEOREM TableInvariant == Spec => []GInductive
BY InitKeeps, StepKeeps, PTL DEF Spec

\* A step that ends a hand with chips in the pot is the one that pays it.
LEMMA PaidByDistribute ==
  ASSUME GInductive, [Next]_vars, ~done, done', pot > 0
  PROVE  /\ Levels # {} /\ variant = current
         /\ \E showing \in Showings : Distribute(showing)
<1>1. GTypeOK /\ Accounts /\ RotationOK
  BY DEF GInductive
<1>2. ~UNCHANGED vars
  BY DEF vars
<1>3. ~(\E button \in Seat : SetupHand(button))
  BY DEF SetupHand
<1>4. ~DealHole /\ ~DealBoard /\ ~ChooseVariant
  BY DEF DealHole, DealBoard, ChooseVariant
<1>5. ~Act
  <2>1. Act => InHand' # {} /\ InHand' \subseteq Seat /\ Advance
    BY ActionKeeps DEF InHand, Act
  <2> QED
    BY <1>1, <2>1, AdvanceFindsASeat DEF GTypeOK
<1>6. ~Skip
  <2>1. Skip => InHand' = InHand /\ Playing /\ Advance
    BY DEF Skip, seatVars, InHand
  <2> QED
    BY <1>1, <2>1, PlayingMeans, AdvanceFindsASeat DEF GTypeOK
<1>7. CompleteHand
  BY <1>2, <1>3, <1>4, <1>5, <1>6 DEF Next
<1>8. hands > 0 /\ \E showing \in Showings : Distribute(showing)
  BY <1>7 DEF CompleteHand
<1>9. Levels # {}
  BY <1>1, NoLevelsNoPot
<1> QED
  BY <1>1, <1>8, <1>9 DEF RotationOK

\* When a hand is paid, nobody who has folded wins, nobody wins more than his
\* investment covers, every chip is paid that is not above what the deepest seat
\* left in the hand has put in, and the result is filed once and under the variant
\* the hand was played by (game_engine_distribute_pot, mixed_game_record_result).
THEOREM PotsArePaidExactly == Spec => AwardIsExact
<1>1. ASSUME GInductive, [Next]_vars, ~done, done', pot > 0
      PROVE  /\ \A p \in Seat : /\ stack'[p] >= stack[p]
                                /\ stack'[p] > stack[p] => p \in InHand
                                /\ stack'[p] - stack[p] <= Covered(p)
             /\ SumOf(stack') = SumOf(stack) + pot - Uncontested
             /\ filed' = [filed EXCEPT ![variant] = @ + 1]
  <2>1. GTypeOK /\ Accounts /\ RotationOK
    BY <1>1 DEF GInductive
  <2>2. Levels # {} /\ variant = current
    BY <1>1, PaidByDistribute
  <2>3. PICK showing \in Showings : Distribute(showing)
    BY <1>1, PaidByDistribute
  <2>4. /\ \A p \in Seat : stack'[p] = stack[p] + Won(showing)[p]
        /\ SumOf(stack') = SumOf(stack) + pot - Uncontested /\ FileThenAdvance
    BY <1>1, <2>1, <2>2, <2>3, DistributePays
  <2>5. /\ Won(showing) \in [Seat -> Nat]
        /\ \A p \in Seat : /\ p \notin InHand => Won(showing)[p] = 0
                           /\ Won(showing)[p] <= Covered(p)
    BY <2>1, <2>2, AwardPays DEF GTypeOK
  <2>6. ASSUME NEW p \in Seat
        PROVE  /\ stack'[p] >= stack[p]
               /\ stack'[p] > stack[p] => p \in InHand
               /\ stack'[p] - stack[p] <= Covered(p)
    <3>1. stack[p] \in Nat /\ Won(showing)[p] \in Nat
      BY <2>1, <2>5 DEF GTypeOK
    <3>2. stack'[p] = stack[p] + Won(showing)[p] /\ Won(showing)[p] <= Covered(p)
          /\ (p \notin InHand => Won(showing)[p] = 0)
      BY <2>4, <2>5
    <3>3. stack'[p] - stack[p] = Won(showing)[p]
      BY <3>1, <3>2
    <3> QED
      BY <3>1, <3>2, <3>3
  <2>7. filed' = [filed EXCEPT ![variant] = @ + 1]
    BY <2>1, <2>2, <2>4, FilingKeeps
  <2> QED
    BY <2>4, <2>6, <2>7
<1>2. GInductive /\ [Next]_vars
        => [(~done /\ done' /\ pot > 0) =>
              /\ \A p \in Seat : /\ stack'[p] >= stack[p]
                                 /\ stack'[p] > stack[p] => p \in InHand
                                 /\ stack'[p] - stack[p] <= Covered(p)
              /\ SumOf(stack') = SumOf(stack) + pot - Uncontested
              /\ filed' = [filed EXCEPT ![variant] = @ + 1]]_vars
  BY <1>1
<1> QED
  BY <1>2, TableInvariant, PTL DEF Spec, AwardIsExact
===============================================================================
