---------------------------- MODULE WorkDispatchProofs ----------------------------
(* DInductive is an invariant of WorkDispatch, and with it every safety property
   of the run: first the schedule, then a worker's steps, then the
   coordinator's, and last the order in which results are applied. *)
EXTENDS WorkDispatch, SumsProofs, SequenceTheorems

\* What the schedule works on.
Schedulable ==
    fleet \in Fleets /\ registry \in Seq(Workers) /\ IsInjective(registry)

\* The schedule's inputs: the rates are natural numbers, and the candidates
\* the places whose worker has a backend.
LEMMA RateType ==
  ASSUME Schedulable
  PROVE  /\ DOMAIN registry = 1..Len(registry) /\ Len(registry) \in Nat
         /\ \A i \in DOMAIN registry : /\ registry[i] \in Workers /\ registry[i] \in Nat
                                       /\ Rates[i] = Rate(registry[i]) /\ Rates[i] \in Nat
                                       /\ i \in Candidates <=> Rates[i] > 0
         /\ Candidates \subseteq 1..Len(registry)
         /\ IsFiniteSet(Candidates) /\ Cardinality(Candidates) \in Nat
<1>1. DOMAIN registry = 1..Len(registry) /\ Len(registry) \in Nat
  BY DEF Schedulable
<1>2. ASSUME NEW i \in DOMAIN registry
      PROVE  /\ registry[i] \in Workers /\ registry[i] \in Nat
             /\ Rates[i] = Rate(registry[i]) /\ Rates[i] \in Nat
             /\ i \in Candidates <=> Rates[i] > 0
  <2>1. registry[i] \in Workers
    BY DEF Schedulable
  <2>2. Workers \subseteq Nat
    <3>1. Cardinality(Workers) \in Nat /\ Workers = 1..Cardinality(Workers)
      BY DispatchAssumption, FS_CardinalityType
    <3> QED
      BY <3>1
  <2>3. fleet[registry[i]].rate \in Nat
    BY <2>1, DispatchAssumption DEF Schedulable
  <2> QED
    BY <2>1, <2>2, <2>3 DEF Rates, Rate, Candidates
<1>3. Candidates \subseteq 1..Len(registry)
  BY <1>1 DEF Candidates
<1>4. IsFiniteSet(1..Len(registry))
  BY <1>1, FS_Interval
<1>5. IsFiniteSet(Candidates)
  BY <1>3, <1>4, FS_Subset
<1> QED
  BY <1>1, <1>2, <1>3, <1>5, FS_CardinalityType

\* With a candidate the total rate is positive.
LEMMA TotalPositive ==
  ASSUME Schedulable, Candidates # {}
  PROVE  TotalRate \in Nat \ {0}
<1> DEFINE n == Len(registry)
<1>1. Naturals(Rates, n)
  BY RateType DEF Naturals
<1>2. n \in Nat
  BY RateType
<1>3. PICK i : i \in Candidates
  OBVIOUS
<1>4. i \in 1..n /\ Rates[i] \in Nat /\ Rates[i] > 0
  BY <1>3, RateType
<1> HIDE DEF n
<1>5. i - 1 \in 0..(n - 1) /\ i \in 0..n /\ n \in i..n /\ (i - 1) + 1 = i /\ i - 1 \in 0..n
  BY <1>2, <1>4
<1>6. /\ SumTo(Rates, i - 1) \in Nat /\ SumTo(Rates, n) \in Nat
      /\ SumTo(Rates, i) = SumTo(Rates, i - 1) + Rates[i]
  BY <1>1, <1>2, <1>5, SumType
<1>7. SumTo(Rates, i) <= SumTo(Rates, n)
  BY <1>1, <1>2, <1>5, SumMonotone
<1>8. SumTo(Rates, n) > 0 /\ SumTo(Rates, n) \in Nat
  BY <1>4, <1>6, <1>7
<1> QED
  BY <1>8 DEF TotalRate, n

\* Quotient and remainder.
LEMMA DivisionParts ==
  ASSUME NEW x \in Nat, NEW r \in Nat \ {0}
  PROVE  /\ x \div r \in Nat /\ x % r \in Nat /\ x % r < r
         /\ r * (x \div r) + (x % r) = x
OBVIOUS

\* Largest remainders: the floors and the fractions.
LEMMA FloorsAndFractions ==
  ASSUME Schedulable, Candidates # {}, NEW n \in Nat
  PROVE  /\ Naturals(Floored(n), Len(registry)) /\ Naturals(Fraction(n), Len(registry))
         /\ \A i \in 1..Len(registry) :
               /\ Fraction(n)[i] < TotalRate
               /\ i \notin Candidates => Floored(n)[i] = 0 /\ Fraction(n)[i] = 0
               /\ TotalRate * Floored(n)[i] + Fraction(n)[i] = n * Rates[i]
<1>1. TotalRate \in Nat \ {0}
  BY TotalPositive
<1>2. ASSUME NEW i \in 1..Len(registry)
      PROVE  /\ Floored(n)[i] \in Nat /\ Fraction(n)[i] \in Nat
             /\ Fraction(n)[i] < TotalRate
             /\ i \notin Candidates => Floored(n)[i] = 0 /\ Fraction(n)[i] = 0
             /\ TotalRate * Floored(n)[i] + Fraction(n)[i] = n * Rates[i]
  <2>1. i \in DOMAIN registry /\ Rates[i] \in Nat /\ (i \notin Candidates => Rates[i] = 0)
    BY RateType
  <2> DEFINE x == n * Rates[i]
  <2>2. x \in Nat /\ (Rates[i] = 0 => x = 0)
    BY <2>1
  <2>3. Floored(n)[i] = x \div TotalRate /\ Fraction(n)[i] = x % TotalRate
    BY <2>1 DEF Floored, Fraction
  <2> HIDE DEF x
  <2>4. /\ x \div TotalRate \in Nat /\ x % TotalRate \in Nat /\ x % TotalRate < TotalRate
        /\ TotalRate * (x \div TotalRate) + (x % TotalRate) = x
    BY <1>1, <2>2, DivisionParts
  <2>5. 0 \div TotalRate = 0 /\ 0 % TotalRate = 0
    BY <1>1
  <2> QED
    BY <2>1, <2>2, <2>3, <2>4, <2>5 DEF x
<1> QED
  BY <1>2 DEF Naturals

\* What the floors leave over is less than the number of candidates.
LEMMA LeftOverFits ==
  ASSUME Schedulable, Candidates # {}, NEW n \in Nat
  PROVE  /\ LeftOver(n) \in 0..Cardinality(Candidates)
         /\ SumTo(Floored(n), Len(registry)) \in Nat
         /\ SumTo(Floored(n), Len(registry)) + LeftOver(n) = n
<1> DEFINE m  == Len(registry)
           R  == TotalRate
           F  == SumTo(Floored(n), m)
           r  == SumTo(Fraction(n), m)
           one == [i \in 1..m |-> IF i \in Candidates THEN 1 ELSE 0]
           cap == [i \in 1..m |-> IF i \in Candidates THEN R ELSE 0]
           c  == Cardinality(Candidates)
           none == [i \in 1..m |-> 0]
<1>1. m \in Nat /\ c \in Nat /\ Candidates \subseteq 1..m
  BY RateType
<1>2. R \in Nat \ {0}
  BY TotalPositive
<1>3. /\ Naturals(Floored(n), m) /\ Naturals(Fraction(n), m) /\ Naturals(Rates, m)
      /\ \A i \in 1..m : /\ Fraction(n)[i] < R /\ (i \notin Candidates => Fraction(n)[i] = 0)
                         /\ R * Floored(n)[i] + Fraction(n)[i] = n * Rates[i]
  BY FloorsAndFractions, RateType DEF Naturals
<1>4. R * F + r = n * R
  <2>1. SumTo(Rates, m) = R
    BY DEF TotalRate
  <2>2. \A k \in 1..m : R * Floored(n)[k] + Fraction(n)[k] = n * Rates[k]
    BY <1>3
  <2>3. R \in Nat /\ m \in Nat
    BY <1>1, <1>2
  <2> HIDE DEF m, R
  <2>4. R * SumTo(Floored(n), m) + SumTo(Fraction(n), m) = n * SumTo(Rates, m)
    BY <1>3, <2>2, <2>3, SumLinear
  <2> QED
    BY <2>1, <2>4
<1>5. F \in Nat /\ r \in Nat
  <2> HIDE DEF m
  <2>1. m \in 0..m
    BY <1>1
  <2> QED
    BY <1>1, <1>3, <2>1, SumType
<1>6. SumTo(one, m) = c
  <2>1. \A k \in 1..m : one[k] = IF k \in Candidates THEN 1 ELSE 0
    OBVIOUS
  <2> HIDE DEF m, one
  <2> QED
    BY <1>1, <2>1, SumCounts
<1>7. SumTo(cap, m) = R * c
  <2>1. Naturals(one, m) /\ Naturals(cap, m) /\ Naturals(none, m)
    BY <1>2 DEF Naturals
  <2>2. \A k \in 1..m : R * one[k] + none[k] = 1 * cap[k]
    BY <1>2
  <2>3. \A k \in 1..m : none[k] = IF k \in {} THEN 1 ELSE 0
    OBVIOUS
  <2> HIDE DEF m, one, cap, none, R, c
  <2>4. R * SumTo(one, m) + SumTo(none, m) = 1 * SumTo(cap, m)
    BY <1>1, <1>2, <2>1, <2>2, SumLinear
  <2>5. SumTo(none, m) = 0
    <3>1. {} \in SUBSET (1..m)
      OBVIOUS
    <3> QED
      BY <1>1, <2>3, <3>1, SumCounts, FS_EmptySet
  <2>6. SumTo(none, m) \in Nat /\ SumTo(cap, m) \in Nat /\ SumTo(one, m) \in Nat
    <3>1. m \in 0..m
      BY <1>1
    <3> QED
      BY <1>1, <2>1, <3>1, SumType
  <2>7. R * c \in Nat
    BY <1>1, <1>2
  <2> QED
    BY <1>6, <2>4, <2>5, <2>6, <2>7
<1>8. r <= R * c
  <2>1. \A k \in 1..m : cap[k] \in Nat /\ Fraction(n)[k] <= cap[k]
    BY <1>2, <1>3 DEF Naturals
  <2>2. Naturals(cap, m)
    BY <2>1 DEF Naturals
  <2> HIDE DEF m, cap, R
  <2>3. SumTo(Fraction(n), m) <= SumTo(cap, m)
    BY <1>1, <1>3, <2>1, <2>2, SumSmaller
  <2> QED
    BY <1>7, <2>3
<1>9. LeftOver(n) = n - F
  BY DEF LeftOver
<1> HIDE DEF m, R, F, r, c
<1>10. R * (n - F) = r
  <2>1. \A x, y, z \in Int : z * (x - y) = x * z - z * y
    OBVIOUS
  <2>2. R * (n - F) = n * R - R * F
    BY <1>2, <1>5, <2>1
  <2>3. R * F \in Int /\ n * R \in Int
    BY <1>2, <1>5
  <2> QED
    BY <1>4, <1>5, <2>2, <2>3
<1>11. \A d, e \in Int, q \in Nat \ {0} : /\ 0 <= q * d => 0 <= d
                                          /\ q * d <= q * e => d <= e
  <2>1. ASSUME NEW d \in Int, NEW q \in Nat \ {0}, d < 0 PROVE q * d < 0
    BY <2>1
  <2>2. ASSUME NEW d \in Int, NEW e \in Int, NEW q \in Nat \ {0}, e < d PROVE q * e < q * d
    BY <2>2
  <2>3. ASSUME NEW d \in Int, NEW e \in Int, NEW q \in Nat \ {0}
        PROVE  (0 <= q * d => 0 <= d) /\ (q * d <= q * e => d <= e)
    <3>1. q * d \in Int /\ q * e \in Int
      OBVIOUS
    <3> QED
      BY <2>1, <2>2, <3>1
  <2> QED
    BY <2>3
<1>12. n - F \in Int /\ 0 <= n - F /\ n - F <= c
  BY <1>1, <1>2, <1>5, <1>8, <1>10, <1>11
<1> QED
  BY <1>1, <1>5, <1>9, <1>12 DEF m, F, c

\* Who is favoured is decided between any two candidates: as many candidates
\* have fewer than L in front of them as L says.
LEMMA LeftOverIsDealt ==
  ASSUME Schedulable, Candidates # {}, NEW n \in Nat, NEW L \in 0..Cardinality(Candidates)
  PROVE  Cardinality({i \in Candidates : InFront(n, i) < L}) = L
<1> DEFINE C == Candidates
           R == {p \in C \X C : Favoured(n, p[1], p[2])}
           f == [i \in C |-> Cardinality({j \in C : <<j, i>> \in R})]
<1>1. \A i \in C : Fraction(n)[i] \in Int /\ registry[i] \in Int
  BY RateType, FloorsAndFractions DEF Naturals
<1>2. \A i, j \in C : i # j => registry[i] # registry[j]
  <2>1. C \subseteq DOMAIN registry
    BY DEF Candidates
  <2> QED
    BY <2>1 DEF Schedulable, IsInjective
<1>3. \A i, j \in C : <<i, j>> \in R <=> Favoured(n, i, j)
  OBVIOUS
<1>4. IsFiniteSet(C)
  BY RateType
<1>5. \A i \in C : f[i] = InFront(n, i)
  BY <1>3 DEF InFront
<1>6. \A i \in C : <<i, i>> \notin R
  BY <1>1, <1>3 DEF Favoured
<1>7. \A i, j, k \in C : <<i, j>> \in R /\ <<j, k>> \in R => <<i, k>> \in R
  <2>1. ASSUME NEW i \in C, NEW j \in C, NEW k \in C, Favoured(n, i, j), Favoured(n, j, k)
        PROVE  Favoured(n, i, k)
    <3>1. /\ Fraction(n)[i] \in Int /\ Fraction(n)[j] \in Int /\ Fraction(n)[k] \in Int
          /\ registry[i] \in Int /\ registry[j] \in Int /\ registry[k] \in Int
      BY <1>1
    <3> QED
      BY <2>1, <3>1 DEF Favoured
  <2> QED
    BY <1>3, <2>1
<1>8. \A i, j \in C : i # j => <<i, j>> \in R \/ <<j, i>> \in R
  BY <1>1, <1>2, <1>3 DEF Favoured
<1>9. f = [i \in C |-> Cardinality({j \in C : <<j, i>> \in R})]
  OBVIOUS
<1> HIDE DEF R, f, C
<1>10. /\ f \in [C -> 0..(Cardinality(C) - 1)]
       /\ \A i, j \in C : i # j => f[i] # f[j]
  <2>1. Orders(R, C)
    BY <1>6, <1>7, <1>8 DEF Orders
  <2>2. /\ \A i \in C : Rank(R, C, i) \in 0..(Cardinality(C) - 1)
        /\ \A i, j \in C : i # j => Rank(R, C, i) # Rank(R, C, j)
    BY <1>4, <2>1, RanksDiffer
  <2>3. f = [i \in C |-> Rank(R, C, i)]
    BY <1>9 DEF Rank
  <2> QED
    BY <2>2, <2>3
<1>11. L \in 0..Cardinality(C)
  BY DEF C
<1>12. Cardinality({i \in C : f[i] < L}) = L
  BY <1>4, <1>10, <1>11, RanksCount
<1>13. {i \in C : f[i] < L} = {i \in C : InFront(n, i) < L}
  BY <1>5
<1> QED
  BY <1>12, <1>13 DEF C

\* Largest remainders deal out every unit: the shares add up.
LEMMA SharesAddUp ==
  ASSUME Schedulable, Candidates # {}, NEW n \in Nat
  PROVE  /\ Naturals(Shares(n), Len(registry))
         /\ \A i \in 1..Len(registry) : i \notin Candidates => Shares(n)[i] = 0
         /\ SumTo(Shares(n), Len(registry)) = n
<1> DEFINE m == Len(registry)
           L == LeftOver(n)
           B == {i \in Candidates : InFront(n, i) < L}
           extra == [i \in 1..m |-> IF i \in B THEN 1 ELSE 0]
           F == Floored(n)
           S == Shares(n)
<1>1. /\ m \in Nat /\ DOMAIN registry = 1..m /\ Candidates \subseteq 1..m
  BY RateType
<1>2. /\ Naturals(F, m) /\ \A i \in 1..m : i \notin Candidates => F[i] = 0
  BY FloorsAndFractions
<1>3. ASSUME NEW i \in 1..m PROVE S[i] = F[i] + extra[i]
  BY <1>1 DEF Shares
<1>4. B \in SUBSET (1..m) /\ \A i \in 1..m : extra[i] = IF i \in B THEN 1 ELSE 0
  BY <1>1
<1>5. L \in 0..Cardinality(Candidates) /\ SumTo(F, m) \in Nat /\ SumTo(F, m) + L = n
  BY LeftOverFits
<1>6. Cardinality(B) = L
  BY <1>5, LeftOverIsDealt
<1>7. \A i \in 1..m : F[i] \in Nat /\ extra[i] \in Nat /\ (i \notin Candidates => extra[i] = 0)
  BY <1>2 DEF Naturals
<1>8. Naturals(S, m) /\ \A i \in 1..m : i \notin Candidates => S[i] = 0
  <2>1. ASSUME NEW i \in 1..m PROVE S[i] \in Nat /\ (i \notin Candidates => S[i] = 0)
    <3> HIDE DEF S, F, extra, m, B
    <3> QED
      BY <1>2, <1>3, <1>7
  <2> QED
    BY <2>1 DEF Naturals
<1>9. Naturals(extra, m) /\ SumTo(extra, m) = L
  <2> HIDE DEF extra, B, L, m
  <2> QED
    BY <1>1, <1>4, <1>6, SumCounts
<1>10. 1 * SumTo(F, m) + SumTo(extra, m) = 1 * SumTo(S, m)
  <2>1. \A i \in 1..m : 1 * F[i] + extra[i] = 1 * S[i]
    <3>1. \A i \in 1..m : S[i] \in Nat
      BY <1>8 DEF Naturals
    <3> HIDE DEF S, F, extra, m, B
    <3> QED
      BY <1>3, <1>7, <3>1
  <2> HIDE DEF S, F, extra, m, B
  <2> QED
    BY <1>1, <1>2, <1>8, <1>9, <2>1, SumLinear
<1>11. SumTo(S, m) \in Nat
  <2> HIDE DEF S, m
  <2>1. m \in 0..m
    BY <1>1
  <2> QED
    BY <1>1, <1>8, <2>1, SumType
<1>12. SumTo(S, m) = n
  <2> HIDE DEF S, m, F, extra, L
  <2> QED
    BY <1>5, <1>9, <1>10, <1>11
<1> QED
  BY <1>8, <1>12

\* The schedule: typed, to workers with a backend, and every unit of 1..n falls
\* in one range.
DealsOnce(out, n) ==
    /\ out \in [DOMAIN out -> Assignments]
    /\ DOMAIN out \subseteq DOMAIN registry /\ DOMAIN out \subseteq Nat
    /\ \A i \in DOMAIN out : /\ out[i].worker = registry[i] /\ Rate(out[i].worker) > 0
                             /\ UnitRange(out[i]) \subseteq 1..n
    /\ \A k \in 1..n : Cardinality({i \in DOMAIN out : k \in UnitRange(out[i])}) = 1

\* What pe_work_coordinator_schedule returns deals every unit of the job once.
LEMMA ScheduleDealsOnce ==
  ASSUME Schedulable, NEW n \in Nat, NEW out, out = Schedule(n), DOMAIN out # {}
  PROVE  DealsOnce(out, n)
<1> DEFINE m == Len(registry)
           S == Shares(n)
           D == {c \in Candidates : S[c] > 0}
<1>1. DOMAIN out = D /\ D \subseteq Candidates /\ Candidates # {}
  BY DEF Schedule
<1>2. /\ Naturals(S, m) /\ \A i \in 1..m : i \notin Candidates => S[i] = 0
      /\ SumTo(S, m) = n
  BY <1>1, SharesAddUp
<1>3. /\ m \in Nat /\ DOMAIN registry = 1..m /\ Candidates \subseteq 1..m
      /\ \A i \in 1..m : registry[i] \in Workers /\ (i \in Candidates <=> Rate(registry[i]) > 0)
  BY RateType
<1>4. ASSUME NEW i \in 1..m
      PROVE  /\ S[i] \in Nat /\ SumTo(S, i - 1) \in Nat /\ SumTo(S, i - 1) + S[i] <= n
  <2> HIDE DEF S, m
  <2>1. i - 1 \in 0..(m - 1) /\ i - 1 \in 0..m /\ (i - 1) + 1 = i /\ i \in 0..m /\ m \in i..m
    BY <1>3
  <2>2. /\ SumTo(S, i - 1) \in Nat /\ SumTo(S, i) = SumTo(S, i - 1) + S[i]
    BY <1>2, <1>3, <2>1, SumType
  <2>3. SumTo(S, i) <= SumTo(S, m)
    BY <1>2, <1>3, <2>1, SumMonotone
  <2>4. S[i] \in Nat
    BY <1>2 DEF Naturals
  <2> QED
    BY <1>2, <2>2, <2>3, <2>4
<1>5. ASSUME NEW i \in D
      PROVE  /\ out[i] = [worker |-> registry[i], count |-> S[i], first |-> 1 + SumTo(S, i - 1)]
             /\ i \in 1..m /\ S[i] \in Nat \ {0} /\ SumTo(S, i - 1) \in Nat
             /\ SumTo(S, i - 1) + S[i] <= n
             /\ UnitRange(out[i]) = (1 + SumTo(S, i - 1))..(SumTo(S, i - 1) + S[i])
  <2>1. out[i] = [worker |-> registry[i], count |-> S[i], first |-> 1 + SumTo(S, i - 1)]
    BY DEF Schedule
  <2>2. i \in 1..m /\ S[i] > 0
    BY <1>1, <1>3
  <2>3. S[i] \in Nat /\ SumTo(S, i - 1) \in Nat /\ SumTo(S, i - 1) + S[i] <= n
    BY <1>4, <2>2
  <2> HIDE DEF S, m, D
  <2>4. UnitRange(out[i]) = (1 + SumTo(S, i - 1))..((1 + SumTo(S, i - 1)) + S[i] - 1)
    BY <2>1 DEF UnitRange
  <2>5. (1 + SumTo(S, i - 1)) + S[i] - 1 = SumTo(S, i - 1) + S[i]
    BY <2>3
  <2> QED
    BY <2>1, <2>2, <2>3, <2>4, <2>5
<1> HIDE DEF S
<1>6. ASSUME NEW i \in D
      PROVE  /\ out[i] \in Assignments /\ out[i].worker = registry[i]
             /\ Rate(out[i].worker) > 0 /\ UnitRange(out[i]) \subseteq 1..n
  <2>1. /\ out[i] = [worker |-> registry[i], count |-> S[i], first |-> 1 + SumTo(S, i - 1)]
        /\ registry[i] \in Workers /\ S[i] \in Nat \ {0} /\ SumTo(S, i - 1) \in Nat
        /\ SumTo(S, i - 1) + S[i] <= n
        /\ UnitRange(out[i]) = (1 + SumTo(S, i - 1))..(SumTo(S, i - 1) + S[i])
    BY <1>3, <1>5
  <2>2. out[i] \in Assignments /\ out[i].worker = registry[i]
    BY <2>1 DEF Assignments
  <2>3. UnitRange(out[i]) \subseteq 1..n
    BY <2>1
  <2>4. Rate(registry[i]) > 0
    BY <1>1, <1>3
  <2> QED
    BY <2>2, <2>3, <2>4
<1>7. ASSUME NEW k \in 1..n
      PROVE  Cardinality({i \in D : k \in UnitRange(out[i])}) = 1
  <2>1. PICK i \in 1..m :
           /\ SumTo(S, i - 1) < k /\ k <= SumTo(S, i - 1) + S[i]
           /\ \A j \in 1..m : SumTo(S, j - 1) < k /\ k <= SumTo(S, j - 1) + S[j] => j = i
    <3>1. k \in 1..SumTo(S, m)
      BY <1>2
    <3> QED
      BY <1>2, <1>3, <3>1, SumCutsUp
  <2>2. S[i] > 0 /\ i \in D
    <3>1. S[i] \in Nat /\ SumTo(S, i - 1) \in Nat
      BY <1>4
    <3>2. S[i] > 0
      BY <2>1, <3>1
    <3> QED
      BY <1>2, <3>2
  <2>3. ASSUME NEW j \in D PROVE k \in UnitRange(out[j]) <=> j = i
    <3>1. /\ j \in 1..m /\ S[j] \in Nat /\ SumTo(S, j - 1) \in Nat
          /\ UnitRange(out[j]) = (1 + SumTo(S, j - 1))..(SumTo(S, j - 1) + S[j])
      BY <1>5
    <3>2. k \in UnitRange(out[j]) <=> SumTo(S, j - 1) < k /\ k <= SumTo(S, j - 1) + S[j]
      BY <3>1
    <3> QED
      BY <2>1, <3>1, <3>2
  <2>4. {j \in D : k \in UnitRange(out[j])} = {i}
    BY <2>2, <2>3
  <2> QED
    BY <2>4, FS_Singleton
<1>8. out \in [D -> Assignments]
  <2>1. out = [j \in D |-> out[j]]
    BY <1>1 DEF Schedule, S
  <2> QED
    BY <1>6, <2>1
<1>9. D \subseteq 1..m
  BY <1>1, <1>3
<1> QED
  BY <1>1, <1>3, <1>6, <1>7, <1>8, <1>9 DEF DealsOnce

-------------------------------------------------------------------------------
\* Streams.

\* Taking the first chunk off a stream.
LEMMA TakenOff ==
  ASSUME NEW S, NEW s \in Seq(S), s # <<>>
  PROVE  /\ Head(s) \in S /\ Head(s) = s[1] /\ 1 \in DOMAIN s
         /\ Tail(s) \in Seq(S) /\ Len(Tail(s)) = Len(s) - 1
         /\ \A k \in DOMAIN Tail(s) : k + 1 \in DOMAIN s /\ Tail(s)[k] = s[k + 1]
OBVIOUS

\* Putting a chunk into it.
LEMMA PutInto ==
  ASSUME NEW S, NEW s \in Seq(S), NEW e \in S
  PROVE  /\ Append(s, e) \in Seq(S) /\ Len(Append(s, e)) = Len(s) + 1
         /\ DOMAIN Append(s, e) = DOMAIN s \cup {Len(s) + 1}
         /\ \A k \in DOMAIN s : Append(s, e)[k] = s[k]
         /\ Append(s, e)[Len(s) + 1] = e
OBVIOUS

\* What a stream says of a kind of frame, with its first chunk taken off,
LEMMA ShorterStream ==
  ASSUME NEW T, NEW s \in Seq(Frames(T)), s # <<>>, NEW type
  PROVE  /\ Has(Tail(s), type) => Has(s, type)
         /\ Ended(Tail(s), type) => Ended(s, type)
         /\ EndsWith(s, type) => EndsWith(Tail(s), type)
         /\ EndsWith(s, type) /\ Head(s).type = type /\ Head(s).last => Tail(s) = <<>>
         /\ Head(s).type = type => Has(s, type)
         /\ Head(s).type = type /\ Head(s).last => Ended(s, type)
<1>1. /\ Head(s) = s[1] /\ 1 \in DOMAIN s
      /\ Tail(s) \in Seq(Frames(T)) /\ Len(Tail(s)) = Len(s) - 1
      /\ \A k \in DOMAIN Tail(s) : k + 1 \in DOMAIN s /\ Tail(s)[k] = s[k + 1]
  BY TakenOff
<1>2. DOMAIN s = 1..Len(s) /\ Len(s) \in Nat /\ DOMAIN Tail(s) = 1..Len(Tail(s))
  BY <1>1
<1>3. Has(Tail(s), type) => Has(s, type)
  BY <1>1 DEF Has
<1>4. Ended(Tail(s), type) => Ended(s, type)
  BY <1>1 DEF Ended
<1>5. EndsWith(s, type) => EndsWith(Tail(s), type)
  <2>1. ASSUME EndsWith(s, type), NEW k \in DOMAIN Tail(s),
               Tail(s)[k].type = type, Tail(s)[k].last
        PROVE  k = Len(Tail(s))
    <3>1. k + 1 \in DOMAIN s /\ s[k + 1].type = type /\ s[k + 1].last /\ k \in Int
      BY <1>1, <1>2, <2>1
    <3>2. k + 1 = Len(s)
      BY <2>1, <3>1 DEF EndsWith
    <3>3. Len(Tail(s)) = Len(s) - 1 /\ Len(s) \in Int
      BY <1>1, <1>2
    <3> QED
      BY <3>1, <3>2, <3>3
  <2> QED
    BY <2>1 DEF EndsWith
<1>6. EndsWith(s, type) /\ Head(s).type = type /\ Head(s).last => Tail(s) = <<>>
  <2>1. SUFFICES ASSUME EndsWith(s, type), Head(s).type = type, Head(s).last
                 PROVE  Tail(s) = <<>>
    OBVIOUS
  <2>2. Len(s) = 1
    BY <1>1, <2>1 DEF EndsWith
  <2>3. Len(Tail(s)) = 0
    BY <1>1, <2>2
  <2> QED
    BY <1>1, <2>3, EmptySeq
<1>7. Head(s).type = type => Has(s, type)
  BY <1>1 DEF Has
<1>8. Head(s).type = type /\ Head(s).last => Ended(s, type)
  BY <1>1 DEF Ended
<1> QED
  BY <1>3, <1>4, <1>5, <1>6, <1>7, <1>8

\* ... and with a chunk put into it.
LEMMA LongerStream ==
  ASSUME NEW T, NEW s \in Seq(Frames(T)), NEW e \in Frames(T), NEW type
  PROVE  /\ Has(Append(s, e), type) => Has(s, type) \/ e.type = type
         /\ Ended(Append(s, e), type) => Ended(s, type) \/ (e.type = type /\ e.last)
         /\ ~Ended(s, type) => EndsWith(Append(s, e), type)
<1> DEFINE a == Append(s, e)
<1>1. /\ Len(a) = Len(s) + 1 /\ DOMAIN a = DOMAIN s \cup {Len(s) + 1}
      /\ \A k \in DOMAIN s : a[k] = s[k]
      /\ a[Len(s) + 1] = e
  BY PutInto
<1> HIDE DEF a
<1>2. \A k \in DOMAIN a : (k \in DOMAIN s /\ a[k] = s[k]) \/ (k = Len(a) /\ a[k] = e)
  BY <1>1
<1>3. Has(a, type) => Has(s, type) \/ e.type = type
  BY <1>2 DEF Has
<1>4. Ended(a, type) => Ended(s, type) \/ (e.type = type /\ e.last)
  BY <1>2 DEF Ended
<1>5. ~Ended(s, type) => EndsWith(a, type)
  BY <1>2 DEF Ended, EndsWith
<1> QED
  BY <1>3, <1>4, <1>5 DEF a

\* An empty stream says nothing.
LEMMA EmptyStream ==
  ASSUME NEW type
  PROVE  ~Has(<<>>, type) /\ ~Ended(<<>>, type) /\ EndsWith(<<>>, type)
BY DEF Has, Ended, EndsWith

\* The least place of some.
LEMMA MinIsLeast ==
  ASSUME NEW T \in SUBSET Nat, T # {}
  PROVE  Min(T) \in T /\ \A y \in T : Min(T) <= y
BY LeastElement DEF Min

-------------------------------------------------------------------------------
\* What the workers do.

\* What a step of a worker leaves unchanged of the coordinator.
CoordinatorSame ==
    UNCHANGED <<fleet, registryVars, callVars, loopVars, resultVars, owed, tainted>>

\* The steps of a worker leave the coordinator's parts of the invariant alone.
LEMMA CoordinatorKept ==
  ASSUME DInductive, CoordinatorSame
  PROVE  /\ RegistryInv' /\ LoopInv' /\ UnitsAreDealtOnce' /\ OwedInv'
         /\ AnswersAreCurrent' /\ AnsweredInv' /\ ReducerInv' /\ AppliedIsCanonical'
         /\ (faults' \in 0..MaxCrashes => CoordinatorTypes')
<1> USE DEF CoordinatorSame, registryVars, callVars, loopVars, resultVars, InCall
<1>1. RegistryInv'
  BY DEF DInductive, RegistryInv
<1>2. LoopInv'
  BY DEF DInductive, LoopInv, Assigned
<1>3. UnitsAreDealtOnce'
  BY DEF DInductive, UnitsAreDealtOnce, UnitRange, Rate
<1>4. OwedInv'
  BY DEF DInductive, OwedInv, Sending
<1>5. AnswersAreCurrent'
  BY DEF DInductive, AnswersAreCurrent
<1>6. AnsweredInv'
  BY DEF DInductive, AnsweredInv, Assigned, Mine, MineFrom, Unanswered
<1>7. ReducerInv'
  BY DEF DInductive, ReducerInv
<1>8. AppliedIsCanonical'
  BY DEF DInductive, AppliedIsCanonical
<1>9. faults' \in 0..MaxCrashes => CoordinatorTypes'
  BY DEF DInductive, DTypeOK, CoordinatorTypes
<1> QED
  BY <1>1, <1>2, <1>3, <1>4, <1>5, <1>6, <1>7, <1>8, <1>9

\* The invariant is about the workers and the streams as well.
LEMMA WorkersMove ==
  ASSUME DInductive, CoordinatorSame, faults' \in 0..MaxCrashes,
         ChannelTypes', AnnounceInv', FlightInv', UnitInv'
  PROVE  DInductive'
BY CoordinatorKept DEF DInductive, DTypeOK

\* What is true of a worker and its channel stays true while they do not move.
LEMMA OthersKept ==
  ASSUME CoordinatorSame, NEW v, Bounded(v), Announced(v), HoldsUnits(v),
         v \notin tainted => Flight(v),
         down'[v] = down[v], up'[v] = up[v], wpc'[v] = wpc[v], hand'[v] = hand[v],
         wleft'[v] = wleft[v], served'[v] = served[v]
  PROVE  Bounded(v)' /\ Announced(v)' /\ HoldsUnits(v)' /\ (v \notin tainted' => Flight(v)')
<1> USE DEF CoordinatorSame, registryVars, callVars, loopVars
<1>1. Bounded(v)'
  BY DEF Bounded, Busy, ServesForever
<1>2. Announced(v)'
  BY DEF Announced
<1>3. HoldsUnits(v)'
  BY DEF HoldsUnits, Busy
<1>4. v \notin tainted' => Flight(v)'
  <2>1. SUFFICES ASSUME v \notin tainted PROVE Flight(v)'
    OBVIOUS
  <2>2. (Halfway(v)' <=> Halfway(v)) /\ (Busy(v)' <=> Busy(v)) /\ (Traffic(v)' <=> Traffic(v))
    BY DEF Halfway, Sending, Busy, Traffic
  <2>3. Flight(v)
    BY <2>1
  <2> QED
    BY <2>2, <2>3 DEF Flight
<1> QED
  BY <1>1, <1>2, <1>3, <1>4

\* So a step of w is judged by what it does to w.
LEMMA WorkerMoves ==
  ASSUME DInductive, CoordinatorSame, faults' \in 0..MaxCrashes, NEW w \in Workers,
         \A v \in Workers \ {w} :
             /\ down'[v] = down[v] /\ up'[v] = up[v] /\ wpc'[v] = wpc[v]
             /\ hand'[v] = hand[v] /\ wleft'[v] = wleft[v] /\ served'[v] = served[v],
         down' \in [Workers -> Seq(Frames({"UNIT", "SHUTDOWN"}))],
         up' \in [Workers -> Seq(Frames({"CAPABILITIES", "RESULT"}))],
         wpc' \in [Workers -> {"away", "recv", "execute", "send", "ended"}],
         hand' \in [Workers -> Spans], wleft' \in [Workers -> 0..ResultSize],
         served' \in [Workers -> Nat],
         Bounded(w)', Announced(w)', HoldsUnits(w)', w \notin tainted' => Flight(w)'
  PROVE  DInductive'
<1>1. ASSUME NEW v \in Workers
      PROVE  /\ Bounded(v)' /\ Announced(v)' /\ HoldsUnits(v)'
             /\ v \notin tainted' => Flight(v)'
  <2>1. CASE v = w
    BY <2>1
  <2>2. CASE v # w
    <3>1. /\ Bounded(v) /\ Announced(v) /\ HoldsUnits(v)
          /\ v \notin tainted => Flight(v)
      BY DEF DInductive, DTypeOK, ChannelTypes, AnnounceInv, UnitInv, FlightInv
    <3>2. /\ down'[v] = down[v] /\ up'[v] = up[v] /\ wpc'[v] = wpc[v]
          /\ hand'[v] = hand[v] /\ wleft'[v] = wleft[v] /\ served'[v] = served[v]
      BY <2>2
    <3> QED
      BY <3>1, <3>2, OthersKept
  <2> QED
    BY <2>1, <2>2
<1>2. ChannelTypes'
  BY <1>1 DEF ChannelTypes
<1>3. AnnounceInv' /\ UnitInv' /\ FlightInv'
  BY <1>1 DEF AnnounceInv, UnitInv, FlightInv
<1> QED
  BY <1>2, <1>3, WorkersMove

\* What the invariant says of one worker.
LEMMA AboutWorker ==
  ASSUME DInductive, NEW w \in Workers
  PROVE  /\ down[w] \in Seq(Frames({"UNIT", "SHUTDOWN"}))
         /\ up[w] \in Seq(Frames({"CAPABILITIES", "RESULT"}))
         /\ wpc[w] \in {"away", "recv", "execute", "send", "ended"}
         /\ hand[w] \in Spans /\ wleft[w] \in 0..ResultSize /\ served[w] \in Nat
         /\ Bounded(w) /\ Announced(w) /\ HoldsUnits(w) /\ (w \notin tainted => Flight(w))
         /\ fleet[w].rate \in Nat /\ (~ServesForever(w) => fleet[w].quota \in Nat)
         /\ owed[w] \in Int /\ faults \in 0..MaxCrashes
         /\ UnitSize \in Nat \ {0} /\ ResultSize \in Nat \ {0} /\ SocketSize \in Nat \ {0}
<1>1. /\ down[w] \in Seq(Frames({"UNIT", "SHUTDOWN"}))
      /\ up[w] \in Seq(Frames({"CAPABILITIES", "RESULT"}))
      /\ wpc[w] \in {"away", "recv", "execute", "send", "ended"}
      /\ hand[w] \in Spans /\ wleft[w] \in 0..ResultSize /\ served[w] \in Nat
  BY DEF DInductive, DTypeOK, ChannelTypes
<1>2. Bounded(w) /\ Announced(w) /\ HoldsUnits(w) /\ (w \notin tainted => Flight(w))
  BY DEF DInductive, DTypeOK, ChannelTypes, AnnounceInv, UnitInv, FlightInv
<1>3. fleet[w].rate \in Nat /\ (~ServesForever(w) => fleet[w].quota \in Nat)
  BY DispatchAssumption DEF DInductive, DTypeOK, CoordinatorTypes, ServesForever
<1>4. owed[w] \in Int /\ faults \in 0..MaxCrashes
  BY DEF DInductive, DTypeOK, CoordinatorTypes
<1> QED
  BY <1>1, <1>2, <1>3, <1>4, DispatchAssumption

\* A socket is closed, or its process dies.
LEMMA EndKeeps ==
  ASSUME DInductive, CoordinatorSame, faults' \in 0..MaxCrashes, NEW w \in Workers, End(w),
         UNCHANGED <<hand, wleft, served>>
  PROVE  DInductive'
<1> USE DEF CoordinatorSame, registryVars, callVars, loopVars
<1>1. /\ DTypeOK /\ ChannelTypes
      /\ down \in [Workers -> Seq(Frames({"UNIT", "SHUTDOWN"}))]
      /\ up \in [Workers -> Seq(Frames({"CAPABILITIES", "RESULT"}))]
      /\ wpc \in [Workers -> {"away", "recv", "execute", "send", "ended"}]
      /\ hand \in [Workers -> Spans] /\ wleft \in [Workers -> 0..ResultSize]
      /\ served \in [Workers -> Nat]
  BY DEF DInductive, DTypeOK, ChannelTypes
<1>2. /\ wpc' = [wpc EXCEPT ![w] = "ended"] /\ down' = [down EXCEPT ![w] = <<>>]
      /\ up' = up \/ up' = [up EXCEPT ![w] = <<>>]
  BY DEF End, WorkerGoto
<1>3. /\ wpc' \in [Workers -> {"away", "recv", "execute", "send", "ended"}]
      /\ down' \in [Workers -> Seq(Frames({"UNIT", "SHUTDOWN"}))]
      /\ up' \in [Workers -> Seq(Frames({"CAPABILITIES", "RESULT"}))]
      /\ wpc'[w] = "ended" /\ down'[w] = <<>> /\ up'[w] \in {up[w], <<>>}
      /\ \A v \in Workers \ {w} : down'[v] = down[v] /\ up'[v] = up[v] /\ wpc'[v] = wpc[v]
  <2>1. <<>> \in Seq(Frames({"UNIT", "SHUTDOWN"})) /\ <<>> \in Seq(Frames({"CAPABILITIES", "RESULT"}))
    OBVIOUS
  <2>2. /\ wpc' \in [Workers -> {"away", "recv", "execute", "send", "ended"}]
        /\ wpc'[w] = "ended" /\ \A v \in Workers \ {w} : wpc'[v] = wpc[v]
    BY <1>1, <1>2
  <2>3. /\ down' \in [Workers -> Seq(Frames({"UNIT", "SHUTDOWN"}))]
        /\ down'[w] = <<>> /\ \A v \in Workers \ {w} : down'[v] = down[v]
    BY <1>1, <1>2, <2>1
  <2>4. /\ up' \in [Workers -> Seq(Frames({"CAPABILITIES", "RESULT"}))]
        /\ up'[w] \in {up[w], <<>>} /\ \A v \in Workers \ {w} : up'[v] = up[v]
    <3>1. CASE up' = up
      BY <1>1, <3>1
    <3>2. CASE up' = [up EXCEPT ![w] = <<>>]
      BY <1>1, <2>1, <3>2
    <3> QED
      BY <1>2, <3>1, <3>2
  <2> QED
    BY <2>2, <2>3, <2>4
<1>4. Len(<<>>) = 0 /\ DOMAIN <<>> = {}
  OBVIOUS
<1>5. Bounded(w) /\ Announced(w) /\ HoldsUnits(w) /\ (w \notin tainted => Flight(w))
  BY AboutWorker
<1>6. ~Busy(w)'
  BY <1>3 DEF Busy
<1>7. Bounded(w)'
  BY <1>3, <1>4, <1>5, <1>6, DispatchAssumption DEF Bounded, ServesForever
<1>8. Announced(w)'
  BY <1>3, <1>4, <1>5, EmptyStream DEF Announced
<1>9. HoldsUnits(w)'
  BY <1>3, <1>4, <1>5, <1>6 DEF HoldsUnits
<1>10. w \notin tainted' => Flight(w)'
  <2>1. SUFFICES ASSUME w \notin tainted PROVE Flight(w)'
    OBVIOUS
  <2>2. Flight(w)
    BY <1>5, <2>1
  <2>3. Halfway(w)' <=> Halfway(w)
    BY DEF Halfway, Sending
  <2>4. Traffic(w)' => Traffic(w)
    BY <1>3, <1>6, EmptyStream DEF Traffic
  <2> QED
    BY <1>3, <1>4, <1>6, <2>2, <2>3, <2>4, EmptyStream DEF Flight
<1> QED
  BY <1>1, <1>3, <1>7, <1>8, <1>9, <1>10, WorkerMoves

\* Replacing one value of a function.
LEMMA Replaced ==
  ASSUME NEW S, NEW T, NEW f \in [S -> T], NEW w \in S, NEW e \in T
  PROVE  /\ [f EXCEPT ![w] = e] \in [S -> T] /\ [f EXCEPT ![w] = e][w] = e
         /\ \A v \in S \ {w} : [f EXCEPT ![w] = e][v] = f[v]
OBVIOUS

\* A worker that sends its capabilities keeps the invariant.
LEMMA AnnounceStep ==
  ASSUME DInductive, NEW w \in Workers, Announce(w)
  PROVE  DInductive'
<1> USE DEF CoordinatorSame, registryVars, callVars, loopVars
<1>1. CoordinatorSame /\ faults' \in 0..MaxCrashes /\ UNCHANGED <<hand, wleft, served>>
  BY AboutWorker DEF Announce, ghostVars, End
<1>2. CASE End(w)
  BY <1>1, <1>2, EndKeeps
<1>3. CASE ~End(w)
  <2> DEFINE hello == Chunk("CAPABILITIES", NoUnit, TRUE)
  <2>1. /\ up' = [up EXCEPT ![w] = Append(@, hello)]
        /\ wpc' = [wpc EXCEPT ![w] = "recv"] /\ UNCHANGED down /\ wpc[w] = "away"
    BY <1>3 DEF Announce, WorkerGoto
  <2>2. /\ down \in [Workers -> Seq(Frames({"UNIT", "SHUTDOWN"}))]
        /\ up \in [Workers -> Seq(Frames({"CAPABILITIES", "RESULT"}))]
        /\ wpc \in [Workers -> {"away", "recv", "execute", "send", "ended"}]
        /\ hand \in [Workers -> Spans] /\ wleft \in [Workers -> 0..ResultSize]
        /\ served \in [Workers -> Nat]
    BY DEF DInductive, DTypeOK, ChannelTypes
  <2>3. hello \in Frames({"CAPABILITIES", "RESULT"}) /\ hello.type = "CAPABILITIES"
    BY DEF Chunk, Frames, Spans, NoUnit
  <2> HIDE DEF hello
  <2>4. up[w] = <<>> /\ Bounded(w) /\ Announced(w) /\ HoldsUnits(w) /\ (w \notin tainted => Flight(w))
    BY <2>1, AboutWorker DEF Announced
  <2>5. /\ Append(up[w], hello) \in Seq(Frames({"CAPABILITIES", "RESULT"}))
        /\ Append(up[w], hello) = <<hello>>
    BY <2>3, <2>4
  <2>6. /\ up' \in [Workers -> Seq(Frames({"CAPABILITIES", "RESULT"}))]
        /\ up'[w] = <<hello>> /\ \A v \in Workers \ {w} : up'[v] = up[v]
    BY <2>1, <2>2, <2>5, Replaced
  <2>7. /\ wpc' \in [Workers -> {"away", "recv", "execute", "send", "ended"}]
        /\ wpc'[w] = "recv" /\ \A v \in Workers \ {w} : wpc'[v] = wpc[v]
    BY <2>1, <2>2
  <2>8. ~Busy(w) /\ ~Busy(w)'
    BY <2>1, <2>7 DEF Busy
  <2>9. Bounded(w)'
    BY <1>1, <2>1, <2>4, <2>6, <2>7, <2>8, DispatchAssumption DEF Bounded, ServesForever
  <2>10. ~Has(<<hello>>, "RESULT") /\ ~Ended(<<hello>>, "RESULT") /\ EndsWith(<<hello>>, "RESULT")
    BY <2>3 DEF Has, Ended, EndsWith
  <2>11. Announced(w)'
    <3>1. w \notin Range(channels)
      BY <2>1, <2>4 DEF Announced
    <3> QED
      BY <1>1, <2>6, <2>7, <3>1 DEF Announced
  <2>12. HoldsUnits(w)'
    BY <2>1, <2>3, <2>4, <2>6, <2>8 DEF HoldsUnits
  <2>13. w \notin tainted' => Flight(w)'
    <3>1. SUFFICES ASSUME w \notin tainted PROVE Flight(w)'
      BY <1>1
    <3>2. Flight(w)
      BY <2>4, <3>1
    <3>3. (Halfway(w)' <=> Halfway(w)) /\ (Traffic(w)' => Traffic(w))
      BY <1>1, <2>1, <2>6, <2>8, <2>10 DEF Halfway, Sending, Traffic
    <3>4. \A k \in DOMAIN <<hello>> : <<hello>>[k].type # "RESULT"
      BY <2>3
    <3>5. UNCHANGED <<owed, batch>> /\ down'[w] = down[w] /\ up'[w] = <<hello>>
      BY <1>1, <2>1, <2>6
    <3> HIDE DEF CoordinatorSame
    <3> QED
      BY <2>8, <2>10, <3>2, <3>3, <3>4, <3>5 DEF Flight
  <2> QED
    BY <1>1, <2>1, <2>2, <2>6, <2>7, <2>9, <2>11, <2>12, <2>13, WorkerMoves
<1> QED
  BY <1>2, <1>3

\* A worker that has served its quota and closes keeps it.
LEMMA LeaveServeStep ==
  ASSUME DInductive, NEW w \in Workers, LeaveServe(w)
  PROVE  DInductive'
<1>1. CoordinatorSame /\ faults' \in 0..MaxCrashes /\ UNCHANGED <<hand, wleft, served>> /\ End(w)
  BY AboutWorker DEF LeaveServe, ghostVars, CoordinatorSame, registryVars, callVars, loopVars
<1> QED
  BY <1>1, EndKeeps

\* A worker that dies keeps it.
LEMMA CrashStep ==
  ASSUME DInductive, NEW w \in Workers, Crash(w)
  PROVE  DInductive'
<1>1. faults' \in 0..MaxCrashes
  BY AboutWorker, DispatchAssumption DEF Crash, MayFault
<1>2. CoordinatorSame /\ UNCHANGED <<hand, wleft, served>> /\ End(w)
  BY DEF Crash, CoordinatorSame, registryVars, callVars, loopVars
<1> QED
  BY <1>1, <1>2, EndKeeps

\* A worker that computes its unit, or fails to, keeps it.
LEMMA ExecuteStep ==
  ASSUME DInductive, NEW w \in Workers, Execute(w)
  PROVE  DInductive'
<1>1. CoordinatorSame /\ faults' \in 0..MaxCrashes /\ UNCHANGED <<hand, served>>
  BY AboutWorker, DispatchAssumption
     DEF Execute, MayFault, CoordinatorSame, registryVars, callVars, loopVars
<1>2. CASE End(w) /\ UNCHANGED wleft
  BY <1>1, <1>2, EndKeeps
<1>3. CASE ~(End(w) /\ UNCHANGED wleft)
  <2>1. /\ wpc' = [wpc EXCEPT ![w] = "send"] /\ wleft' = [wleft EXCEPT ![w] = ResultSize]
        /\ UNCHANGED <<down, up>> /\ wpc[w] = "execute"
    BY <1>3 DEF Execute, WorkerGoto, streamVars
  <2>2. /\ down \in [Workers -> Seq(Frames({"UNIT", "SHUTDOWN"}))]
        /\ up \in [Workers -> Seq(Frames({"CAPABILITIES", "RESULT"}))]
        /\ wpc \in [Workers -> {"away", "recv", "execute", "send", "ended"}]
        /\ hand \in [Workers -> Spans] /\ wleft \in [Workers -> 0..ResultSize]
        /\ served \in [Workers -> Nat]
    BY DEF DInductive, DTypeOK, ChannelTypes
  <2>3. ResultSize \in 0..ResultSize /\ ResultSize > 0
    BY DispatchAssumption
  <2>4. /\ wpc' \in [Workers -> {"away", "recv", "execute", "send", "ended"}]
        /\ wpc'[w] = "send" /\ \A v \in Workers \ {w} : wpc'[v] = wpc[v]
        /\ wleft' \in [Workers -> 0..ResultSize]
        /\ wleft'[w] = ResultSize /\ \A v \in Workers \ {w} : wleft'[v] = wleft[v]
    BY <2>1, <2>2, <2>3
  <2>5. Bounded(w) /\ Announced(w) /\ HoldsUnits(w) /\ (w \notin tainted => Flight(w))
    BY AboutWorker
  <2>6. Busy(w) /\ Busy(w)' /\ UNCHANGED <<fleet, hand, served, pc, channels, owed, batch, tainted>>
    BY <1>1, <2>1, <2>4
       DEF Busy, CoordinatorSame, registryVars, callVars, loopVars
  <2>7. Bounded(w)'
    BY <2>1, <2>3, <2>4, <2>5, <2>6 DEF Bounded, ServesForever
  <2>8. Announced(w)'
    BY <2>1, <2>4, <2>5, <2>6 DEF Announced
  <2>9. HoldsUnits(w)'
    BY <2>1, <2>5, <2>6 DEF HoldsUnits
  <2>10. (Halfway(w)' <=> Halfway(w)) /\ (Traffic(w)' <=> Traffic(w))
    BY <1>1, <2>1, <2>6
       DEF Halfway, Sending, Traffic, CoordinatorSame, registryVars, callVars, loopVars
  <2>11. w \notin tainted' => Flight(w)'
    BY <2>1, <2>5, <2>6, <2>10 DEF Flight
  <2> QED
    BY <1>1, <2>1, <2>2, <2>4, <2>6, <2>7, <2>8, <2>9, <2>11, WorkerMoves
<1> QED
  BY <1>2, <1>3

\* A worker that reads a chunk keeps it.
LEMMA WorkerReceiveStep ==
  ASSUME DInductive, NEW w \in Workers, WorkerReceive(w)
  PROVE  DInductive'
<1>1. /\ CoordinatorSame /\ faults' \in 0..MaxCrashes /\ UNCHANGED <<wleft, served>>
      /\ wpc[w] = "recv" /\ MayServe(w)
  BY AboutWorker
     DEF WorkerReceive, ghostVars, CoordinatorSame, registryVars, callVars, loopVars
<1>2. CASE End(w) /\ UNCHANGED hand
  BY <1>1, <1>2, EndKeeps
<1>3. CASE ~(End(w) /\ UNCHANGED hand)
  <2> DEFINE e == Head(down[w])
             rest == Tail(down[w])
  <2>1. /\ down[w] # <<>> /\ e.type = "UNIT" /\ down' = [down EXCEPT ![w] = rest]
        /\ UNCHANGED up
        /\ \/ /\ e.last /\ wpc' = [wpc EXCEPT ![w] = "execute"]
              /\ hand' = [hand EXCEPT ![w] = e.unit]
           \/ ~e.last /\ UNCHANGED <<wpc, hand>>
    BY <1>3 DEF WorkerReceive, WorkerGoto
  <2>2. /\ down \in [Workers -> Seq(Frames({"UNIT", "SHUTDOWN"}))]
        /\ up \in [Workers -> Seq(Frames({"CAPABILITIES", "RESULT"}))]
        /\ wpc \in [Workers -> {"away", "recv", "execute", "send", "ended"}]
        /\ hand \in [Workers -> Spans] /\ wleft \in [Workers -> 0..ResultSize]
        /\ served \in [Workers -> Nat]
    BY DEF DInductive, DTypeOK, ChannelTypes
  <2>3. down[w] \in Seq(Frames({"UNIT", "SHUTDOWN"}))
    BY <2>2
  <2>4. /\ e \in Frames({"UNIT", "SHUTDOWN"}) /\ e = down[w][1] /\ 1 \in DOMAIN down[w]
        /\ rest \in Seq(Frames({"UNIT", "SHUTDOWN"})) /\ Len(rest) = Len(down[w]) - 1
        /\ Len(down[w]) \in Nat
        /\ \A k \in DOMAIN rest : k + 1 \in DOMAIN down[w] /\ rest[k] = down[w][k + 1]
    BY <2>1, <2>3, TakenOff
  <2>5. /\ Has(rest, "UNIT") => Has(down[w], "UNIT")
        /\ Ended(rest, "UNIT") => Ended(down[w], "UNIT")
        /\ EndsWith(down[w], "UNIT") => EndsWith(rest, "UNIT")
        /\ EndsWith(down[w], "UNIT") /\ e.last => rest = <<>>
        /\ Has(down[w], "UNIT") /\ (e.last => Ended(down[w], "UNIT"))
    BY <2>1, <2>3, ShorterStream
  <2> HIDE DEF e, rest
  <2>6. e.unit \in Spans
    BY <2>4 DEF Frames
  <2>7. /\ down' \in [Workers -> Seq(Frames({"UNIT", "SHUTDOWN"}))]
        /\ down'[w] = rest /\ \A v \in Workers \ {w} : down'[v] = down[v]
    BY <2>1, <2>2, <2>4
  <2>8. /\ wpc' \in [Workers -> {"away", "recv", "execute", "send", "ended"}]
        /\ hand' \in [Workers -> Spans]
        /\ \A v \in Workers \ {w} : wpc'[v] = wpc[v] /\ hand'[v] = hand[v]
        /\ e.last => wpc'[w] = "execute" /\ hand'[w] = e.unit
        /\ ~e.last => wpc'[w] = "recv" /\ hand'[w] = hand[w]
    <3>1. CASE e.last
      BY <2>1, <2>2, <2>6, <3>1
    <3>2. CASE ~e.last
      BY <1>1, <2>1, <2>2, <3>2
    <3> QED
      BY <3>1, <3>2
  <2>9. Bounded(w) /\ Announced(w) /\ HoldsUnits(w) /\ (w \notin tainted => Flight(w))
    BY AboutWorker
  <2>10. /\ ~Busy(w) /\ (Busy(w)' => e.last) /\ (e.last => Busy(w)')
         /\ UNCHANGED <<fleet, served, pc, channels, owed, batch, tainted>>
    BY <1>1, <2>8 DEF Busy, CoordinatorSame, registryVars, callVars, loopVars
  <2>11. Bounded(w)'
    <3>1. SocketSize \in Nat /\ (~ServesForever(w) => served[w] < fleet[w].quota)
      BY <1>1, DispatchAssumption DEF MayServe
    <3>2. Len(rest) <= SocketSize /\ Len(up[w]) <= SocketSize
      BY <2>4, <2>9, <3>1 DEF Bounded
    <3>3. wpc'[w] # "send"
      BY <2>8
    <3>4. /\ down'[w] = rest /\ up'[w] = up[w] /\ UNCHANGED <<fleet, served>>
          /\ ServesForever(w) <=> ServesForever(w)'
          /\ ~ServesForever(w) => served[w] <= fleet[w].quota
      BY <2>1, <2>7, <2>9, <2>10 DEF ServesForever, Bounded
    <3> QED
      BY <3>1, <3>2, <3>3, <3>4 DEF Bounded
  <2>12. Announced(w)'
    BY <1>1, <2>1, <2>8, <2>9, <2>10 DEF Announced
  <2>13. HoldsUnits(w)'
    BY <2>1, <2>4, <2>7, <2>8, <2>9, <2>10 DEF HoldsUnits
  <2>14. w \notin tainted' => Flight(w)'
    <3>1. SUFFICES ASSUME w \notin tainted PROVE Flight(w)'
      BY <2>10
    <3>2. Flight(w)
      BY <2>9, <3>1
    <3>3. Halfway(w)' <=> Halfway(w)
      BY <1>1 DEF Halfway, Sending, CoordinatorSame, registryVars, callVars, loopVars
    <3>4. owed[w] = 1 /\ ~Has(up[w], "RESULT")
      BY <2>5, <3>2 DEF Flight, Traffic
    <3>5. ~Ended(up[w], "RESULT")
      BY <3>4 DEF Ended, Has
    <3>6. e.last => ~Has(rest, "UNIT") /\ ~Halfway(w) /\ e.unit.batch = batch
      <4>1. e.last => rest = <<>>
        BY <2>5, <3>2 DEF Flight
      <4>2. e.unit.batch = batch
        BY <2>1, <2>4, <3>2 DEF Flight
      <4> QED
        BY <2>5, <3>2, <4>1, <4>2, EmptyStream DEF Flight
    <3>7. \A k \in DOMAIN rest : rest[k].type = "UNIT" => rest[k].unit.batch = batch
      BY <2>4, <3>2 DEF Flight
    <3>8. EndsWith(rest, "UNIT") /\ EndsWith(up[w], "RESULT")
      BY <2>5, <3>2 DEF Flight
    <3>9. Halfway(w) => ~Ended(rest, "UNIT")
      BY <2>5, <3>2 DEF Flight
    <3>10. /\ owed'[w] = 1 /\ down'[w] = rest /\ up'[w] = up[w] /\ batch' = batch
           /\ e.last => hand'[w] = e.unit
      BY <2>1, <2>7, <2>8, <2>10, <3>4
    <3>11. \A k \in DOMAIN up[w] : up[w][k].type = "RESULT" => up[w][k].unit.batch = batch
      BY <3>2 DEF Flight
    <3> QED
      BY <2>10, <3>3, <3>4, <3>5, <3>6, <3>7, <3>8, <3>9, <3>10, <3>11 DEF Flight
  <2> QED
    BY <1>1, <2>1, <2>2, <2>7, <2>8, <2>11, <2>12, <2>13, <2>14, WorkerMoves
<1> QED
  BY <1>2, <1>3

\* A worker that writes a chunk of its result keeps it.
LEMMA WorkerSendStep ==
  ASSUME DInductive, NEW w \in Workers, WorkerSend(w)
  PROVE  DInductive'
<1>1. /\ CoordinatorSame /\ faults' \in 0..MaxCrashes /\ wpc[w] = "send"
  BY AboutWorker
     DEF WorkerSend, ghostVars, CoordinatorSame, registryVars, callVars, loopVars
<1>2. CASE w \notin open
  BY <1>1, <1>2, EndKeeps DEF WorkerSend
<1>3. CASE w \in open
  <2> DEFINE place == ResultSize - wleft[w] + 1
             e == Frame("RESULT", hand[w], ResultSize)[place]
             more == Append(up[w], e)
             up_T == Frames({"CAPABILITIES", "RESULT"})
  <2>1. /\ Room(up[w]) /\ up' = [up EXCEPT ![w] = more]
        /\ wleft' = [wleft EXCEPT ![w] = @ - 1] /\ UNCHANGED down
        /\ \/ /\ wleft[w] = 1 /\ wpc' = [wpc EXCEPT ![w] = "recv"]
              /\ hand' = [hand EXCEPT ![w] = NoUnit]
              /\ served' = [served EXCEPT ![w] = IF ServesForever(w) THEN @ ELSE @ + 1]
           \/ wleft[w] # 1 /\ UNCHANGED <<wpc, hand, served>>
    BY <1>3 DEF WorkerSend, WorkerGoto
  <2>2. /\ down \in [Workers -> Seq(Frames({"UNIT", "SHUTDOWN"}))]
        /\ up \in [Workers -> Seq(up_T)]
        /\ wpc \in [Workers -> {"away", "recv", "execute", "send", "ended"}]
        /\ hand \in [Workers -> Spans] /\ wleft \in [Workers -> 0..ResultSize]
        /\ served \in [Workers -> Nat]
    BY DEF DInductive, DTypeOK, ChannelTypes
  <2>3. /\ Bounded(w) /\ Announced(w) /\ HoldsUnits(w) /\ (w \notin tainted => Flight(w))
        /\ hand[w] \in Spans /\ wleft[w] \in 0..ResultSize /\ served[w] \in Nat
        /\ ResultSize \in Nat /\ SocketSize \in Nat /\ up[w] \in Seq(up_T)
    BY AboutWorker
  <2>4. wleft[w] > 0
    BY <1>1, <2>3 DEF Bounded
  <2>5. place \in 1..ResultSize /\ (place = ResultSize <=> wleft[w] = 1)
    BY <2>3, <2>4
  <2>6. e = [type |-> "RESULT", unit |-> hand[w], last |-> place = ResultSize]
    <3> HIDE DEF place
    <3> QED
      BY <2>5 DEF Frame, Chunk
  <2>7. /\ e.type = "RESULT" /\ e.unit = hand[w] /\ (e.last <=> wleft[w] = 1) /\ e.last \in BOOLEAN
    <3> HIDE DEF place, e
    <3> QED
      BY <2>5, <2>6
  <2>8. e \in up_T
    <3> HIDE DEF place, e
    <3>1. (place = ResultSize) \in BOOLEAN
      OBVIOUS
    <3> QED
      BY <2>3, <2>6, <3>1 DEF Frames
  <2> HIDE DEF place, e, up_T
  <2>9. /\ more \in Seq(up_T) /\ Len(more) = Len(up[w]) + 1
        /\ DOMAIN more = DOMAIN up[w] \cup {Len(up[w]) + 1}
        /\ \A k \in DOMAIN up[w] : more[k] = up[w][k]
        /\ more[Len(up[w]) + 1] = e
    BY <2>3, <2>8, PutInto
  <2>10. /\ Has(more, "CAPABILITIES") => Has(up[w], "CAPABILITIES")
         /\ Ended(more, "RESULT") => Ended(up[w], "RESULT") \/ e.last
         /\ ~Ended(up[w], "RESULT") => EndsWith(more, "RESULT")
    BY <2>3, <2>7, <2>8, LongerStream DEF up_T
  <2> HIDE DEF more
  <2>11. /\ up' \in [Workers -> Seq(up_T)]
         /\ up'[w] = more /\ \A v \in Workers \ {w} : up'[v] = up[v]
    BY <2>1, <2>2, <2>9, Replaced
  <2>12. /\ wleft' \in [Workers -> 0..ResultSize]
         /\ wleft'[w] = wleft[w] - 1 /\ \A v \in Workers \ {w} : wleft'[v] = wleft[v]
    <3>1. wleft[w] - 1 \in 0..ResultSize
      BY <2>3, <2>4
    <3> QED
      BY <2>1, <2>2, <3>1, Replaced
  <2>13. /\ wpc' \in [Workers -> {"away", "recv", "execute", "send", "ended"}]
         /\ hand' \in [Workers -> Spans] /\ served' \in [Workers -> Nat]
         /\ \A v \in Workers \ {w} : wpc'[v] = wpc[v] /\ hand'[v] = hand[v] /\ served'[v] = served[v]
         /\ wleft[w] = 1 => /\ wpc'[w] = "recv"
                            /\ served'[w] = IF ServesForever(w) THEN served[w] ELSE served[w] + 1
         /\ wleft[w] # 1 => wpc'[w] = "send" /\ hand'[w] = hand[w] /\ served'[w] = served[w]
    <3>1. CASE wleft[w] = 1
      <4>1. NoUnit \in Spans
        BY DEF NoUnit, Spans
      <4>2. (IF ServesForever(w) THEN served[w] ELSE served[w] + 1) \in Nat
        BY <2>3
      <4>3. /\ wpc' = [wpc EXCEPT ![w] = "recv"] /\ hand' = [hand EXCEPT ![w] = NoUnit]
            /\ served' = [served EXCEPT ![w] =
                             IF ServesForever(w) THEN served[w] ELSE served[w] + 1]
        BY <2>1, <3>1
      <4>4. wpc' \in [Workers -> {"away", "recv", "execute", "send", "ended"}]
        BY <2>2, <4>3
      <4> QED
        BY <2>2, <3>1, <4>1, <4>2, <4>3, <4>4, Replaced
    <3>2. CASE wleft[w] # 1
      BY <1>1, <2>1, <2>2, <3>2
    <3> QED
      BY <3>1, <3>2
  <2>14. /\ Busy(w) /\ (Busy(w)' <=> wleft[w] # 1)
         /\ UNCHANGED <<fleet, pc, channels, owed, batch, tainted>>
    BY <1>1, <2>13 DEF Busy, CoordinatorSame, registryVars, callVars, loopVars
  <2>15. Bounded(w)'
    <3>1. Len(more) <= SocketSize /\ Len(down[w]) <= SocketSize
      BY <2>1, <2>3, <2>9 DEF Room, Bounded
    <3>2. wpc'[w] = "send" => wleft'[w] > 0
      BY <2>3, <2>4, <2>12, <2>13
    <3>3. /\ ~ServesForever(w) => served'[w] <= fleet[w].quota
          /\ ~ServesForever(w) /\ wleft[w] # 1 => served'[w] < fleet[w].quota
      <4>1. ~ServesForever(w) => fleet[w].quota \in Nat /\ served[w] < fleet[w].quota
        BY <2>3, <2>14, AboutWorker DEF Bounded
      <4> QED
        BY <2>3, <2>13, <4>1
    <3>4. ServesForever(w) <=> ServesForever(w)'
      BY <2>14 DEF ServesForever
    <3>5. Len(down[w])' <= SocketSize /\ Len(up[w])' <= SocketSize
      BY <2>1, <2>11, <3>1
    <3>6. /\ ~ServesForever(w)' => served'[w] <= fleet'[w].quota
          /\ ~ServesForever(w)' /\ Busy(w)' => served'[w] < fleet'[w].quota
      BY <2>14, <3>3 DEF ServesForever
    <3> QED
      BY <3>2, <3>5, <3>6 DEF Bounded
  <2>16. Announced(w)'
    <3>1. ~(pc = "accept")
      <4>1. SUFFICES ASSUME pc = "accept" PROVE FALSE
        OBVIOUS
      <4>2. w \notin tainted
        BY <4>1 DEF DInductive, RegistryInv
      <4>3. owed[w] = 1
        BY <2>3, <2>14, <4>2 DEF Flight, Traffic
      <4>4. InCall
        BY <4>2, <4>3 DEF DInductive, OwedInv
      <4> QED
        BY <4>1, <4>4 DEF InCall
    <3>2. wpc'[w] # "away"
      BY <2>13
    <3> QED
      BY <2>3, <2>10, <2>11, <2>14, <3>1, <3>2 DEF Announced
  <2>17. HoldsUnits(w)'
    <3>1. IsUnit(hand[w])
      BY <2>3, <2>14 DEF HoldsUnits
    <3>2. \A k \in DOMAIN more : more[k].type = "RESULT" => IsUnit(more[k].unit)
      BY <2>3, <2>7, <2>9, <3>1 DEF HoldsUnits
    <3>3. Busy(w)' => hand'[w] = hand[w]
      BY <2>13, <2>14
    <3>4. \A k \in DOMAIN down[w] : down[w][k].type = "UNIT" => IsUnit(down[w][k].unit)
      BY <2>3 DEF HoldsUnits
    <3> QED
      BY <2>1, <2>11, <3>1, <3>2, <3>3, <3>4 DEF HoldsUnits
  <2>18. w \notin tainted' => Flight(w)'
    <3>1. SUFFICES ASSUME w \notin tainted PROVE Flight(w)'
      BY <2>14
    <3>2. Flight(w)
      BY <2>3, <3>1
    <3>3. /\ owed[w] = 1 /\ ~Has(down[w], "UNIT") /\ ~Ended(up[w], "RESULT") /\ ~Halfway(w)
          /\ hand[w].batch = batch
      BY <2>14, <3>2 DEF Flight, Traffic
    <3>4. ~Halfway(w)'
      BY <1>1, <3>3 DEF Halfway, Sending, CoordinatorSame, registryVars, callVars, loopVars
    <3>5. EndsWith(more, "RESULT") /\ (Busy(w)' => ~Ended(more, "RESULT"))
      BY <2>7, <2>10, <2>14, <3>3
    <3>6. \A k \in DOMAIN more : more[k].type = "RESULT" => more[k].unit.batch = batch
      BY <2>7, <2>9, <3>2, <3>3 DEF Flight
    <3>7. EndsWith(down[w], "UNIT")
      BY <3>2 DEF Flight
    <3>8. /\ down'[w] = down[w] /\ up'[w] = more /\ owed'[w] = 1 /\ batch' = batch
          /\ Busy(w)' => hand'[w] = hand[w]
      BY <2>1, <2>11, <2>13, <2>14, <3>3
    <3>9. \A k \in DOMAIN down[w] : down[w][k].type = "UNIT" => down[w][k].unit.batch = batch
      BY <3>2 DEF Flight
    <3> QED
      BY <3>3, <3>4, <3>5, <3>6, <3>7, <3>8, <3>9 DEF Flight
  <2> QED
    BY <1>1, <2>1, <2>2, <2>11, <2>12, <2>13, <2>15, <2>16, <2>17, <2>18, WorkerMoves DEF up_T
<1> QED
  BY <1>2, <1>3

-------------------------------------------------------------------------------
\* Accepting the workers, and losing them.

\* unregister takes one worker out and keeps the others, each once.
LEMMA WithoutDrops ==
  ASSUME NEW S, NEW reg \in Seq(S), IsInjective(reg), NEW w, NEW r, r = Without(reg, w)
  PROVE  r \in Seq(S) /\ IsInjective(r) /\ Range(r) = Range(reg) \ {w}
<1>1. CASE w \notin Range(reg)
  BY <1>1 DEF Without
<1>2. CASE w \in Range(reg)
  <2>1. PICK p \in DOMAIN reg : reg[p] = w
    BY <1>2 DEF Range
  <2> DEFINE n == Len(reg)
             g == [i \in DOMAIN reg |-> IF reg[i] = w THEN reg[n] ELSE reg[i]]
  <2>2. n \in Nat /\ DOMAIN reg = 1..n /\ p \in 1..n /\ n \in 1..n /\ \A i \in 1..n : reg[i] \in S
    BY <2>1
  <2>3. g \in Seq(S) /\ Len(g) = n
    BY <2>2
  <2>4. r = SubSeq(g, 1, n - 1)
    <3>1. r = Front([i \in DOMAIN reg |-> IF reg[i] = w THEN Last(reg) ELSE reg[i]])
      BY <1>2 DEF Without
    <3> QED
      BY <2>3, <3>1 DEF Front, Last
  <2>5. \A i \in 1..n : g[i] = IF i = p THEN reg[n] ELSE reg[i]
    BY <2>1, <2>2 DEF IsInjective
  <2> HIDE DEF g, n
  <2>6. /\ r \in Seq(S) /\ Len(r) = n - 1
        /\ \A i \in 1..(n - 1) : r[i] = g[i]
    <3>1. /\ 1 \in Int /\ n - 1 \in Int /\ \A i \in 1..(n - 1) : g[i] \in S
      BY <2>2, <2>3
    <3>2. /\ r \in Seq(S) /\ Len(r) = (IF 1 <= n - 1 THEN (n - 1) - 1 + 1 ELSE 0)
          /\ \A i \in 1..((n - 1) - 1 + 1) : r[i] = g[1 + i - 1]
      BY <2>4, <3>1, SubSeqProperties
    <3>3. \A i \in 1..(n - 1) : i \in 1..((n - 1) - 1 + 1) /\ 1 + i - 1 = i
      BY <2>2
    <3>4. (IF 1 <= n - 1 THEN (n - 1) - 1 + 1 ELSE 0) = n - 1
      BY <2>2
    <3> QED
      BY <3>2, <3>3, <3>4
  <2>7. DOMAIN r = 1..(n - 1)
    BY <2>6
  <2>8. \A i \in 1..(n - 1) : i \in 1..n /\ i # n /\ r[i] = IF i = p THEN reg[n] ELSE reg[i]
    BY <2>2, <2>5, <2>6
  <2>9. \A i, j \in 1..n : reg[i] = reg[j] => i = j
    BY <2>2 DEF IsInjective
  <2>10. IsInjective(r)
    <3>1. ASSUME NEW i \in 1..(n - 1), NEW j \in 1..(n - 1), r[i] = r[j] PROVE i = j
      BY <2>2, <2>8, <2>9, <3>1
    <3> QED
      BY <2>7, <3>1 DEF IsInjective
  <2>11. ASSUME NEW x \in Range(r) PROVE x \in Range(reg) /\ x # w
    <3>1. PICK i \in 1..(n - 1) : x = r[i]
      BY <2>7 DEF Range
    <3> QED
      BY <2>1, <2>2, <2>8, <2>9, <3>1 DEF Range
  <2>12. ASSUME NEW x \in Range(reg), x # w PROVE x \in Range(r)
    <3>1. PICK i \in 1..n : x = reg[i]
      BY <2>2 DEF Range
    <3>2. i # p
      BY <2>1, <2>12, <3>1
    <3>3. CASE i = n
      <4>1. p \in 1..(n - 1)
        BY <2>2, <3>2, <3>3
      <4>2. r[p] = reg[n]
        BY <2>8, <4>1
      <4> QED
        BY <2>7, <3>1, <3>3, <4>1, <4>2 DEF Range
    <3>4. CASE i # n
      <4>1. i \in 1..(n - 1)
        BY <2>2, <3>4
      <4>2. r[i] = reg[i]
        BY <2>8, <3>2, <4>1
      <4> QED
        BY <2>7, <3>1, <4>1, <4>2 DEF Range
    <3> QED
      BY <3>3, <3>4
  <2> QED
    BY <2>6, <2>10, <2>11, <2>12
<1> QED
  BY <1>1, <1>2

\* What a step of the coordinator that touches no stream leaves unchanged.
WorkersSame == UNCHANGED <<fleet, workerVars, streamVars>>

\* The steps of the coordinator that touch no stream.
LEMMA WorkersKept ==
  ASSUME DInductive, WorkersSame
  PROVE  /\ ChannelTypes' /\ UnitInv'
         /\ UNCHANGED channels /\ pc' # "accept" => AnnounceInv'
         /\ UNCHANGED <<owed, tainted, batch>> /\ (\A w \in Workers : Halfway(w)' => Halfway(w))
              => FlightInv'
<1> USE DEF WorkersSame, workerVars, streamVars
<1>1. ChannelTypes'
  BY DEF DInductive, DTypeOK, ChannelTypes, Bounded, Busy, ServesForever
<1>2. UnitInv'
  BY DEF DInductive, UnitInv, HoldsUnits, Busy
<1>3. UNCHANGED channels /\ pc' # "accept" => AnnounceInv'
  BY DEF DInductive, AnnounceInv, Announced
<1>4. ASSUME UNCHANGED <<owed, tainted, batch>>, \A w \in Workers : Halfway(w)' => Halfway(w)
      PROVE  FlightInv'
  <2>1. ASSUME NEW w \in Workers, w \notin tainted' PROVE Flight(w)'
    <3>1. Flight(w)
      BY <1>4, <2>1 DEF DInductive, FlightInv
    <3>2. (Busy(w)' <=> Busy(w)) /\ (Traffic(w)' <=> Traffic(w))
      BY DEF Busy, Traffic
    <3> QED
      BY <1>4, <3>1, <3>2 DEF Flight
  <2> QED
    BY <2>1 DEF FlightInv
<1> QED
  BY <1>1, <1>2, <1>3, <1>4

\* Between two calls nothing is on its way on a channel that is not tainted.
LEMMA QuietOutsideCalls ==
  ASSUME DInductive, ~InCall, NEW w \in Workers \ tainted
  PROVE  /\ owed[w] = 0 /\ ~Traffic(w)
         /\ ~Has(down[w], "UNIT") /\ ~Busy(w) /\ ~Has(up[w], "RESULT")
         /\ ~Ended(down[w], "UNIT") /\ ~Ended(up[w], "RESULT")
<1>1. Flight(w)
  BY DEF DInductive, FlightInv
<1>2. owed[w] = 0
  BY DEF DInductive, OwedInv
<1>3. ~Traffic(w)
  BY <1>1, <1>2 DEF Flight
<1> QED
  BY <1>2, <1>3 DEF Traffic, Has, Ended

\* What is kept by a step that changes neither the call nor the reducer.
CallSame ==
    UNCHANGED <<fleet, callVars, left, ready, remaining, rc, resultVars, owed, tainted>>

\* Outside a call, a change of the registry or of the channels leaves what was
\* dealt, answered, filed and applied alone.
LEMMA CallKept ==
  ASSUME DInductive, CallSame, ~InCall, ~InCall'
  PROVE  /\ UnitsAreDealtOnce' /\ OwedInv' /\ AnswersAreCurrent' /\ AnsweredInv'
         /\ ReducerInv' /\ AppliedIsCanonical'
         /\ (\A i \in DOMAIN assign : assign[i].worker = registry'[i])
              /\ (pc' \in {"accept", "reject"} => rc = "none") => LoopInv'
         /\ registry' \in Seq(Workers) /\ channels' \in Seq(Workers) /\ open' \subseteq Workers
              /\ pc' \in {"accept", "reject", "idle", "shutdown", "closed"} /\ at' \in Nat
              /\ DOMAIN assign \subseteq DOMAIN registry' /\ faults' \in 0..MaxCrashes
              => CoordinatorTypes'
<1> USE DEF CallSame, callVars, resultVars
<1>1. UnitsAreDealtOnce'
  BY DEF DInductive, UnitsAreDealtOnce, UnitRange, Rate
<1>2. OwedInv'
  BY DEF DInductive, OwedInv
<1>3. AnswersAreCurrent'
  BY DEF DInductive, AnswersAreCurrent
<1>4. AnsweredInv'
  BY DEF DInductive, AnsweredInv, Assigned, Mine, MineFrom, Unanswered
<1>5. ReducerInv' /\ AppliedIsCanonical'
  BY DEF DInductive, ReducerInv, AppliedIsCanonical
<1>6. ASSUME \A i \in DOMAIN assign : assign[i].worker = registry'[i],
             pc' \in {"accept", "reject"} => rc = "none"
      PROVE  LoopInv'
  <2>1. pc' \notin {"send", "select", "recv", "resend"} /\ pc \notin {"send", "select", "recv", "resend"}
    BY DEF InCall
  <2>2. LoopInv
    BY DEF DInductive
  <2>3. (left > 0 <=> FALSE) /\ (ready # {} <=> FALSE)
    BY <2>1, <2>2 DEF LoopInv
  <2>4. (left' > 0 <=> pc' \in {"send", "resend"}) /\ (ready' # {} <=> pc' \in {"recv", "resend"})
    BY <2>1, <2>3
  <2>5. ready' = {} /\ ~InCall' /\ (Assigned' <=> Assigned)
    BY <2>1, <2>3 DEF Assigned
  <2> QED
    BY <1>6, <2>1, <2>2, <2>4, <2>5 DEF LoopInv
<1>7. ASSUME registry' \in Seq(Workers), channels' \in Seq(Workers), open' \subseteq Workers,
             pc' \in {"accept", "reject", "idle", "shutdown", "closed"}, at' \in Nat,
             DOMAIN assign \subseteq DOMAIN registry', faults' \in 0..MaxCrashes
      PROVE  CoordinatorTypes'
  BY <1>7 DEF DInductive, DTypeOK, CoordinatorTypes
<1> QED
  BY <1>1, <1>2, <1>3, <1>4, <1>5, <1>6, <1>7

\* Accepting a worker keeps the invariant.
LEMMA AcceptWorkerStep ==
  ASSUME DInductive, NEW w \in Workers, AcceptWorker(w)
  PROVE  DInductive'
<1> DEFINE n == Len(channels)
<1>1. /\ pc = "accept" /\ w = n + 1 /\ up[w] # <<>>
      /\ registry' = Append(registry, w) /\ channels' = Append(channels, w)
      /\ up' = [up EXCEPT ![w] = Tail(@)]
      /\ pc' = IF w + 1 \in Workers THEN "accept" ELSE "idle"
      /\ UNCHANGED <<fleet, open, callVars, at, left, ready, remaining, rc,
                     resultVars, workerVars, down, ghostVars>>
  BY DEF AcceptWorker
<1>2. /\ registry = channels /\ channels \in Seq(Workers) /\ channels = [i \in 1..n |-> i]
      /\ n \in Nat /\ tainted = {} /\ rc = "none" /\ open = Workers
      /\ at \in Nat /\ faults \in 0..MaxCrashes
  <2>1. RegistryInv /\ LoopInv /\ CoordinatorTypes
    BY DEF DInductive, DTypeOK
  <2>2. registry = channels /\ channels = [i \in 1..n |-> i] /\ tainted = {} /\ open = Workers
    BY <1>1, <2>1 DEF RegistryInv
  <2>3. rc = "none"
    BY <1>1, <2>1 DEF LoopInv
  <2>4. channels \in Seq(Workers) /\ at \in Nat /\ faults \in 0..MaxCrashes
    BY <2>1 DEF CoordinatorTypes
  <2>5. n \in Nat
    BY <2>4
  <2> QED
    BY <2>2, <2>3, <2>4, <2>5
<1>3. ~InCall /\ ~InCall' /\ CallSame
  BY <1>1 DEF InCall, CallSame, ghostVars
<1>4. DOMAIN assign = {}
  BY <1>2, <1>3 DEF DInductive, LoopInv, Assigned
<1>5. /\ channels' \in Seq(Workers) /\ registry' = channels' /\ Len(channels') = n + 1
      /\ channels' = [i \in 1..(n + 1) |-> i]
  <2>1. channels' \in Seq(Workers) /\ registry' = channels' /\ Len(channels') = n + 1
    BY <1>1, <1>2
  <2>2. DOMAIN channels' = 1..(n + 1)
    BY <1>2, <2>1
  <2>3. \A i \in 1..(n + 1) : channels'[i] = i
    <3>1. /\ DOMAIN channels = 1..n
          /\ \A i \in DOMAIN channels : channels'[i] = channels[i]
          /\ channels'[n + 1] = w
      BY <1>1, <1>2, PutInto
    <3>2. \A i \in 1..n : channels'[i] = i
      <4> HIDE DEF n
      <4> QED
        BY <1>2, <3>1
    <3> HIDE DEF n
    <3> QED
      BY <1>1, <1>2, <3>1, <3>2
  <2>4. channels' = [i \in 1..(n + 1) |-> channels'[i]]
    BY <2>1, <2>2
  <2> HIDE DEF n
  <2> QED
    BY <2>1, <2>3, <2>4
<1>6. RegistryInv'
  <2>1. IsInjective(registry')
    BY <1>5 DEF IsInjective
  <2>2. pc' \in {"accept", "idle"} /\ (pc' = "accept" => w + 1 \in Workers)
    BY <1>1
  <2>3. open' = Workers /\ tainted' = {}
    BY <1>1, <1>2 DEF ghostVars
  <2> HIDE DEF n
  <2> QED
    BY <1>1, <1>2, <1>5, <2>1, <2>2, <2>3 DEF RegistryInv
<1>7. /\ up[w] \in Seq(Frames({"CAPABILITIES", "RESULT"})) /\ Bounded(w) /\ Announced(w)
      /\ HoldsUnits(w) /\ Flight(w) /\ SocketSize \in Nat
  BY <1>2, AboutWorker
<1> DEFINE rest == Tail(up[w])
<1>8. /\ rest \in Seq(Frames({"CAPABILITIES", "RESULT"})) /\ Len(rest) = Len(up[w]) - 1
      /\ Len(up[w]) \in Nat
      /\ \A k \in DOMAIN rest : k + 1 \in DOMAIN up[w] /\ rest[k] = up[w][k + 1]
  BY <1>1, <1>7, TakenOff
<1>9. w \notin Range(channels)
  <2>1. Range(channels) = 1..n
    BY <1>2 DEF Range
  <2> HIDE DEF n
  <2> QED
    BY <1>1, <1>2, <2>1
<1>10. rest = <<>>
  <2>1. Len(up[w]) <= 1
    BY <1>1, <1>7, <1>9 DEF Announced
  <2>2. Len(rest) = 0
    <3>1. Len(up[w]) # 0
      BY <1>1, <1>7, EmptySeq
    <3>2. Len(rest) = Len(up[w]) - 1 /\ Len(up[w]) \in Nat
      BY <1>8
    <3>3. \A x \in Nat : x <= 1 /\ x # 0 => x - 1 = 0
      OBVIOUS
    <3> QED
      BY <2>1, <3>1, <3>2, <3>3, Zenon
  <2> HIDE DEF rest
  <2> QED
    BY <1>8, <2>2, EmptySeq
<1> HIDE DEF rest, n
<1>11. /\ up' \in [Workers -> Seq(Frames({"CAPABILITIES", "RESULT"}))]
       /\ up'[w] = <<>> /\ \A v \in Workers \ {w} : up'[v] = up[v]
  <2>1. up \in [Workers -> Seq(Frames({"CAPABILITIES", "RESULT"}))] /\ up' = [up EXCEPT ![w] = rest]
    BY <1>1 DEF DInductive, DTypeOK, ChannelTypes, rest
  <2> QED
    BY <1>8, <1>10, <2>1, Replaced
<1>12. UNCHANGED <<fleet, down, wpc, hand, wleft, served, owed, batch, tainted>>
  BY <1>1 DEF workerVars, ghostVars, callVars
<1>13. Len(<<>>) = 0 /\ DOMAIN <<>> = {}
  OBVIOUS
<1>14. ASSUME NEW v \in Workers
       PROVE  Bounded(v)' /\ Announced(v)' /\ HoldsUnits(v)' /\ Flight(v)'
  <2>1. Bounded(v) /\ Announced(v) /\ HoldsUnits(v) /\ Flight(v)
    BY <1>2, AboutWorker
  <2>2. up'[v] = up[v] \/ (v = w /\ up'[v] = <<>>)
    BY <1>11
  <2>3. Busy(v)' <=> Busy(v)
    BY <1>12 DEF Busy
  <2>4. Bounded(v)'
    BY <1>7, <1>12, <1>13, <2>1, <2>2, <2>3 DEF Bounded, ServesForever
  <2>5. Announced(v)'
    <3>1. wpc'[v] = "away" => up'[v] = <<>>
      BY <1>12, <2>1, <2>2 DEF Announced
    <3>2. v \in Range(channels') => v = w \/ v \in Range(channels)
      BY <1>1, <1>2, PutInto DEF Range
    <3>3. v \in Range(channels) => v \in Range(channels')
      <4>1. \A i \in DOMAIN channels : i \in DOMAIN channels' /\ channels'[i] = channels[i]
        BY <1>1, <1>2, PutInto
      <4> QED
        BY <4>1 DEF Range
    <3>4. Len(up[v]) <= 1 => Len(up'[v]) <= 1
      BY <1>13, <2>2
    <3>5. v = w => wpc[v] # "away" /\ up'[v] = <<>>
      BY <1>1, <1>7, <1>11 DEF Announced
    <3>6. ~Has(<<>>, "CAPABILITIES")
      BY EmptyStream
    <3> QED
      BY <1>1, <1>12, <2>1, <2>2, <3>1, <3>2, <3>3, <3>4, <3>5, <3>6 DEF Announced
  <2>6. HoldsUnits(v)'
    BY <1>12, <1>13, <2>1, <2>2, <2>3 DEF HoldsUnits
  <2>7. Flight(v)'
    <3>1. ~Halfway(v)'
      BY <1>1 DEF Halfway
    <3>2. /\ Has(up'[v], "RESULT") => Has(up[v], "RESULT")
          /\ Ended(up'[v], "RESULT") => Ended(up[v], "RESULT")
          /\ EndsWith(up[v], "RESULT") => EndsWith(up'[v], "RESULT")
          /\ \A k \in DOMAIN up'[v] : k \in DOMAIN up[v] /\ up'[v][k] = up[v][k]
      BY <1>13, <2>2, EmptyStream
    <3>3. Traffic(v)' => Traffic(v)
      BY <1>12, <2>3, <3>2 DEF Traffic
    <3> QED
      BY <1>12, <2>1, <2>3, <3>1, <3>2, <3>3 DEF Flight
  <2> QED
    BY <2>4, <2>5, <2>6, <2>7
<1>15. ChannelTypes'
  <2>1. ChannelTypes
    BY DEF DInductive, DTypeOK
  <2> QED
    BY <1>11, <1>12, <1>14, <2>1 DEF ChannelTypes
<1>16. AnnounceInv' /\ UnitInv' /\ FlightInv'
  BY <1>14 DEF AnnounceInv, UnitInv, FlightInv
<1>17. /\ UnitsAreDealtOnce' /\ OwedInv' /\ AnswersAreCurrent' /\ AnsweredInv'
       /\ ReducerInv' /\ AppliedIsCanonical' /\ LoopInv' /\ CoordinatorTypes'
  <2>1. at' \in Nat /\ faults' \in 0..MaxCrashes /\ open' \subseteq Workers
        /\ pc' \in {"accept", "reject", "idle", "shutdown", "closed"}
    BY <1>1, <1>2 DEF ghostVars
  <2> QED
    BY <1>2, <1>3, <1>4, <1>5, <2>1, CallKept
<1> QED
  BY <1>6, <1>15, <1>16, <1>17 DEF DInductive, DTypeOK

\* Refusing a worker of a batch keeps it.
LEMMA RejectBatchStep ==
  ASSUME DInductive, NEW w \in Workers, RejectBatch(w)
  PROVE  DInductive'
<1> DEFINE n == Len(channels)
<1>1. /\ pc = "accept" /\ w = n + 1 /\ pc' = "reject" /\ at' = 1 /\ open' = open \ {w}
      /\ UNCHANGED <<fleet, registry, channels, callVars, left, ready, remaining,
                     rc, resultVars, workerVars, streamVars, ghostVars>>
  BY DEF RejectBatch
<1>2. /\ registry = channels /\ channels \in Seq(Workers) /\ channels = [i \in 1..n |-> i]
      /\ n \in Nat /\ rc = "none" /\ open = Workers
      /\ faults \in 0..MaxCrashes /\ IsInjective(registry)
  <2>1. RegistryInv /\ LoopInv /\ CoordinatorTypes
    BY DEF DInductive, DTypeOK
  <2>2. /\ registry = channels /\ channels = [i \in 1..n |-> i] /\ open = Workers
        /\ IsInjective(registry)
    BY <1>1, <2>1 DEF RegistryInv
  <2>3. rc = "none"
    BY <1>1, <2>1 DEF LoopInv
  <2>4. channels \in Seq(Workers) /\ faults \in 0..MaxCrashes
    BY <2>1 DEF CoordinatorTypes
  <2>5. n \in Nat
    BY <2>4
  <2> QED
    BY <2>2, <2>3, <2>4, <2>5
<1>3. ~InCall /\ ~InCall' /\ CallSame /\ WorkersSame
  BY <1>1 DEF InCall, CallSame, ghostVars, WorkersSame
<1>4. DOMAIN assign = {}
  BY <1>2, <1>3 DEF DInductive, LoopInv, Assigned
<1>5. RegistryInv'
  <2>1. Range(registry) = {channels[k] : k \in 1..n}
    BY <1>2 DEF Range
  <2>2. w \notin Range(registry)
    <3>1. \A k \in 1..n : channels[k] = k
      BY <1>2
    <3> HIDE DEF n
    <3> QED
      BY <1>1, <1>2, <2>1, <3>1
  <2>3. Range(registry) \subseteq open'
    BY <1>1, <1>2, <2>2 DEF Range
  <2>4. 1 \in 1..(n + 1)
    BY <1>2
  <2> QED
    BY <1>1, <1>2, <2>1, <2>3, <2>4 DEF RegistryInv
<1>6. /\ UnitsAreDealtOnce' /\ OwedInv' /\ AnswersAreCurrent' /\ AnsweredInv'
      /\ ReducerInv' /\ AppliedIsCanonical' /\ LoopInv' /\ CoordinatorTypes'
  BY <1>1, <1>2, <1>3, <1>4, CallKept DEF ghostVars
<1>7. ChannelTypes' /\ UnitInv' /\ AnnounceInv'
  BY <1>1, <1>3, WorkersKept
<1>8. FlightInv'
  <2>1. \A v \in Workers : ~Halfway(v)'
    BY <1>1 DEF Halfway
  <2> QED
    BY <1>1, <1>3, <2>1, WorkersKept DEF ghostVars, callVars
<1> QED
  BY <1>5, <1>6, <1>7, <1>8 DEF DInductive, DTypeOK

\* Unregistering and closing one of those accepted before keeps it.
LEMMA UndoAcceptedStep ==
  ASSUME DInductive, UndoAccepted
  PROVE  DInductive'
<1> DEFINE n == Len(channels)
<1>1. /\ pc = "reject"
      /\ UNCHANGED <<fleet, callVars, left, ready, remaining, rc, resultVars,
                     workerVars, streamVars, ghostVars>>
  BY DEF UndoAccepted
<1>2. /\ registry \in Seq(Workers) /\ channels \in Seq(Workers) /\ channels = [i \in 1..n |-> i]
      /\ n \in Nat /\ rc = "none" /\ open \subseteq Workers /\ at \in 1..(n + 1)
      /\ Range(registry) = {channels[k] : k \in at..n} /\ Range(registry) \subseteq open
      /\ faults \in 0..MaxCrashes /\ IsInjective(registry)
  <2>1. RegistryInv /\ LoopInv /\ CoordinatorTypes
    BY DEF DInductive, DTypeOK
  <2>2. /\ channels = [i \in 1..n |-> i] /\ at \in 1..(n + 1)
        /\ Range(registry) = {channels[k] : k \in at..n} /\ Range(registry) \subseteq open
        /\ IsInjective(registry)
    BY <1>1, <2>1 DEF RegistryInv
  <2>3. rc = "none"
    BY <1>1, <2>1 DEF LoopInv
  <2>4. /\ registry \in Seq(Workers) /\ channels \in Seq(Workers) /\ open \subseteq Workers
        /\ faults \in 0..MaxCrashes
    BY <2>1 DEF CoordinatorTypes
  <2>5. n \in Nat
    BY <2>4
  <2> QED
    BY <2>2, <2>3, <2>4, <2>5
<1>3. ~InCall /\ CallSame /\ WorkersSame
  BY <1>1 DEF InCall, CallSame, ghostVars, WorkersSame
<1>4. DOMAIN assign = {}
  BY <1>2, <1>3 DEF DInductive, LoopInv, Assigned
<1>5. /\ pc' \in {"reject", "closed"} /\ at' \in Nat /\ open' \subseteq Workers
      /\ registry' \in Seq(Workers) /\ channels' \in Seq(Workers) /\ RegistryInv'
  <2>1. CASE at <= n
    <3>1. /\ open' = open \ {channels[at]} /\ registry' = Without(registry, channels[at])
          /\ at' = at + 1 /\ UNCHANGED <<channels, pc>>
      BY <2>1 DEF UndoAccepted
    <3>2. /\ registry' \in Seq(Workers) /\ IsInjective(registry')
          /\ Range(registry') = Range(registry) \ {channels[at]}
      BY <1>2, <3>1, WithoutDrops
    <3>3. \A k \in 1..n : channels[k] = k
      BY <1>2
    <3>4. Range(registry') = {channels[k] : k \in (at + 1)..n}
      <4> HIDE DEF n
      <4>1. at \in Nat /\ \A k \in at..n : k \in 1..n
        BY <1>2
      <4>2. \A k \in (at + 1)..n : k \in at..n /\ k # at
        BY <4>1
      <4>3. \A k \in at..n : k # at => k \in (at + 1)..n
        BY <1>2, <4>1
      <4>4. at \in at..n
        BY <1>2, <2>1, <4>1
      <4>5. \A k \in at..n : channels[k] = channels[at] => k = at
        BY <3>3, <4>1, <4>4
      <4> QED
        BY <1>2, <3>2, <4>2, <4>3, <4>5
    <3>5. Range(registry') \subseteq open'
      BY <1>2, <3>1, <3>2
    <3>6. at + 1 \in 1..(n + 1) /\ at + 1 \in Nat
      <4> HIDE DEF n
      <4> QED
        BY <1>2, <2>1
    <3>7. pc' = "reject" /\ channels' = channels /\ Len(channels') = n /\ open' \subseteq Workers
      BY <1>1, <1>2, <3>1
    <3> HIDE DEF n
    <3>8. RegistryInv'
      <4>1. channels' = [i \in 1..Len(channels') |-> i]
        BY <1>2, <3>7
      <4>2. at' \in 1..(Len(channels') + 1)
        BY <3>1, <3>6, <3>7
      <4>3. Range(registry') = {channels'[k] : k \in at'..Len(channels')}
        BY <3>1, <3>4, <3>7
      <4> QED
        BY <3>2, <3>5, <3>7, <4>1, <4>2, <4>3 DEF RegistryInv
    <3> QED
      BY <1>2, <3>1, <3>2, <3>6, <3>7, <3>8
  <2>2. CASE ~(at <= n)
    <3>1. /\ channels' = <<>> /\ open' = {} /\ at' = 0 /\ pc' = "closed" /\ UNCHANGED registry
      BY <2>2 DEF UndoAccepted
    <3>2. registry = <<>>
      <4>1. at..n = {}
        <5> HIDE DEF n
        <5> QED
          BY <1>2, <2>2
      <4>2. Range(registry) = {}
        BY <1>2, <4>1
      <4>3. Len(registry) = 0
        <5>1. \A k \in DOMAIN registry : FALSE
          BY <4>2 DEF Range
        <5>2. DOMAIN registry = 1..Len(registry) /\ Len(registry) \in Nat
          BY <1>2
        <5>3. Len(registry) # 0 => 1 \in 1..Len(registry)
          BY <5>2
        <5> QED
          BY <5>1, <5>2, <5>3, Zenon
      <4> QED
        BY <1>2, <4>3, EmptySeq
    <3>3. RegistryInv'
      BY <1>2, <3>1, <3>2 DEF RegistryInv
    <3>4. <<>> \in Seq(Workers)
      OBVIOUS
    <3> QED
      BY <1>2, <3>1, <3>3, <3>4
  <2> QED
    BY <2>1, <2>2
<1>6. ~InCall'
  BY <1>5 DEF InCall
<1>7. /\ UnitsAreDealtOnce' /\ OwedInv' /\ AnswersAreCurrent' /\ AnsweredInv'
      /\ ReducerInv' /\ AppliedIsCanonical' /\ LoopInv' /\ CoordinatorTypes'
  BY <1>1, <1>2, <1>3, <1>4, <1>5, <1>6, CallKept DEF ghostVars
<1>8. ChannelTypes' /\ UnitInv'
  BY <1>3, WorkersKept
<1>9. AnnounceInv'
  <2>1. ASSUME NEW v \in Workers PROVE Announced(v)'
    <3>1. Announced(v)
      BY AboutWorker
    <3>2. v \in Range(channels') => v \in Range(channels)
      <4>1. CASE channels' = channels
        BY <4>1
      <4>2. CASE channels' = <<>>
        BY <4>2 DEF Range
      <4> QED
        BY <4>1, <4>2 DEF UndoAccepted
    <3>3. UNCHANGED <<wpc, up>> /\ pc' # "accept"
      BY <1>1, <1>5 DEF workerVars, streamVars
    <3> QED
      BY <3>1, <3>2, <3>3 DEF Announced
  <2> QED
    BY <2>1 DEF AnnounceInv
<1>10. FlightInv'
  <2>1. \A v \in Workers : ~Halfway(v)'
    BY <1>5 DEF Halfway
  <2> QED
    BY <1>1, <1>3, <2>1, WorkersKept DEF ghostVars, callVars
<1> QED
  BY <1>5, <1>7, <1>8, <1>9, <1>10 DEF DInductive, DTypeOK

\* Starting the shutdown keeps it.
LEMMA ShutdownStep ==
  ASSUME DInductive, Shutdown
  PROVE  DInductive'
<1>1. /\ pc = "idle" /\ pc' = "shutdown" /\ at' = 1
      /\ CallSame /\ WorkersSame /\ ~InCall /\ ~InCall' /\ UNCHANGED <<registryVars, ghostVars>>
  BY DEF Shutdown, CallSame, WorkersSame, InCall, ghostVars
<1>2. RegistryInv /\ LoopInv /\ CoordinatorTypes
  BY DEF DInductive, DTypeOK
<1>3. RegistryInv'
  BY <1>1, <1>2 DEF RegistryInv, registryVars
<1>4. /\ UnitsAreDealtOnce' /\ OwedInv' /\ AnswersAreCurrent' /\ AnsweredInv'
      /\ ReducerInv' /\ AppliedIsCanonical' /\ LoopInv' /\ CoordinatorTypes'
  <2>1. /\ registry' \in Seq(Workers) /\ channels' \in Seq(Workers) /\ open' \subseteq Workers
        /\ at' \in Nat /\ DOMAIN assign \subseteq DOMAIN registry' /\ faults' \in 0..MaxCrashes
    BY <1>1, <1>2 DEF CoordinatorTypes, registryVars, ghostVars
  <2>2. \A i \in DOMAIN assign : assign[i].worker = registry'[i]
    BY <1>1, <1>2 DEF LoopInv, registryVars
  <2> QED
    BY <1>1, <2>1, <2>2, CallKept
<1>5. ChannelTypes' /\ UnitInv' /\ AnnounceInv'
  BY <1>1, WorkersKept DEF registryVars
<1>6. FlightInv'
  <2>1. \A v \in Workers : ~Halfway(v)'
    BY <1>1 DEF Halfway
  <2> QED
    BY <1>1, <2>1, WorkersKept DEF ghostVars, CallSame, callVars
<1> QED
  BY <1>3, <1>4, <1>5, <1>6 DEF DInductive, DTypeOK

\* Unregistering a worker, which moves the last one to its place, keeps it.
LEMMA UnregisterStep ==
  ASSUME DInductive, NEW w \in Workers, Unregister(w)
  PROVE  DInductive'
<1>1. /\ pc = "idle" /\ rc = "failed" /\ registry' = Without(registry, w)
      /\ CallSame /\ WorkersSame /\ ~InCall /\ ~InCall'
      /\ UNCHANGED <<channels, open, loopVars, ghostVars>>
  BY DEF Unregister, CallSame, WorkersSame, InCall, ghostVars, loopVars
<1>2. RegistryInv /\ LoopInv /\ CoordinatorTypes
  BY DEF DInductive, DTypeOK
<1>3. /\ registry' \in Seq(Workers) /\ IsInjective(registry')
      /\ Range(registry') = Range(registry) \ {w}
  <2>1. registry \in Seq(Workers) /\ IsInjective(registry)
    BY <1>2 DEF RegistryInv, CoordinatorTypes
  <2> QED
    BY <1>1, <2>1, WithoutDrops
<1>4. RegistryInv'
  BY <1>1, <1>2, <1>3 DEF RegistryInv, loopVars
<1>5. DOMAIN assign = {}
  BY <1>1, <1>2 DEF LoopInv, Assigned
<1>6. /\ UnitsAreDealtOnce' /\ OwedInv' /\ AnswersAreCurrent' /\ AnsweredInv'
      /\ ReducerInv' /\ AppliedIsCanonical' /\ LoopInv' /\ CoordinatorTypes'
  <2>1. /\ channels' \in Seq(Workers) /\ open' \subseteq Workers /\ pc' = "idle"
        /\ at' \in Nat /\ faults' \in 0..MaxCrashes
    BY <1>1, <1>2 DEF CoordinatorTypes, loopVars, ghostVars
  <2> QED
    BY <1>1, <1>3, <1>5, <2>1, CallKept
<1>7. ChannelTypes' /\ UnitInv' /\ AnnounceInv'
  BY <1>1, WorkersKept DEF loopVars
<1>8. FlightInv'
  <2>1. \A v \in Workers : ~Halfway(v)'
    BY <1>1 DEF Halfway, loopVars
  <2> QED
    BY <1>1, <2>1, WorkersKept DEF ghostVars, CallSame, callVars
<1> QED
  BY <1>4, <1>6, <1>7, <1>8 DEF DInductive, DTypeOK

\* Giving up the results of a failed call keeps it.
LEMMA DropResultsStep ==
  ASSUME DInductive, DropResults
  PROVE  DInductive'
<1>1. /\ pc = "idle" /\ rc = "failed" /\ records' = <<>> /\ ~InCall /\ WorkersSame
      /\ UNCHANGED <<fleet, registryVars, callVars, loopVars, applied, workerVars,
                     streamVars, ghostVars>>
  BY DEF DropResults, InCall, WorkersSame
<1> USE DEF registryVars, callVars, loopVars, ghostVars
<1>2. (InCall' <=> InCall) /\ (Assigned' <=> Assigned)
  BY <1>1 DEF InCall, Assigned
<1>3. DOMAIN <<>> = {} /\ <<>> \in Seq([worker : Workers, unit : {u \in Spans : IsUnit(u)},
                                        call : 1..batch])
  OBVIOUS
<1>4. CoordinatorTypes'
  <2>1. CoordinatorTypes
    BY DEF DInductive, DTypeOK
  <2> QED
    BY <1>1, <1>2, <1>3, <2>1 DEF CoordinatorTypes
<1>5. RegistryInv'
  BY <1>1 DEF DInductive, RegistryInv
<1>6. LoopInv'
  BY <1>1, <1>2 DEF DInductive, LoopInv
<1>7. UnitsAreDealtOnce'
  BY <1>1 DEF DInductive, UnitsAreDealtOnce, UnitRange, Rate
<1>8. OwedInv'
  BY <1>1, <1>2 DEF DInductive, OwedInv, Sending
<1>9. AnswersAreCurrent' /\ ReducerInv' /\ AppliedIsCanonical'
  BY <1>1, <1>3 DEF DInductive, AnswersAreCurrent, ReducerInv, AppliedIsCanonical
<1>10. AnsweredInv'
  BY <1>1, <1>2 DEF Assigned, AnsweredInv
<1>11. ChannelTypes' /\ UnitInv' /\ AnnounceInv'
  BY <1>1, WorkersKept
<1>12. FlightInv'
  <2>1. \A v \in Workers : ~Halfway(v)'
    BY <1>1 DEF Halfway
  <2> QED
    BY <1>1, <2>1, WorkersKept
<1> QED
  BY <1>4, <1>5, <1>6, <1>7, <1>8, <1>9, <1>10, <1>11, <1>12 DEF DInductive, DTypeOK

\* A select that finds a channel readable keeps it.
LEMMA SelectStep ==
  ASSUME DInductive, Select
  PROVE  DInductive'
<1>1. /\ pc = "select" /\ pc' = "recv" /\ ready' = {i \in Waiting : Readable(i)} /\ ready' # {}
      /\ InCall /\ InCall' /\ WorkersSame
      /\ UNCHANGED <<fleet, registryVars, callVars, at, left, remaining, rc,
                     resultVars, workerVars, streamVars, ghostVars>>
  BY DEF Select, InCall, WorkersSame
<1> USE DEF registryVars, callVars, resultVars, ghostVars
<1>2. \A i \in ready' : i \in DOMAIN assign /\ remaining[i] > 0
  BY <1>1 DEF Waiting
<1>3. CoordinatorTypes'
  <2>1. CoordinatorTypes
    BY DEF DInductive, DTypeOK
  <2> QED
    BY <1>1, <1>2, <2>1 DEF CoordinatorTypes
<1>4. RegistryInv'
  BY <1>1 DEF DInductive, RegistryInv
<1>5. LoopInv'
  <2>1. LoopInv
    BY DEF DInductive
  <2> QED
    BY <1>1, <1>2, <2>1 DEF LoopInv, Assigned
<1>6. UnitsAreDealtOnce'
  BY <1>1 DEF DInductive, UnitsAreDealtOnce, UnitRange, Rate
<1>7. OwedInv'
  BY <1>1 DEF DInductive, OwedInv
<1>8. AnswersAreCurrent' /\ ReducerInv' /\ AppliedIsCanonical'
  BY <1>1 DEF DInductive, AnswersAreCurrent, ReducerInv, AppliedIsCanonical
<1>9. AnsweredInv'
  BY <1>1 DEF DInductive, Assigned, AnsweredInv, Mine, MineFrom, Unanswered
<1>10. ChannelTypes' /\ UnitInv' /\ AnnounceInv'
  BY <1>1, WorkersKept
<1>11. FlightInv'
  <2>1. \A v \in Workers : ~Halfway(v)'
    BY <1>1 DEF Halfway
  <2> QED
    BY <1>1, <2>1, WorkersKept
<1> QED
  BY <1>3, <1>4, <1>5, <1>6, <1>7, <1>8, <1>9, <1>10, <1>11 DEF DInductive, DTypeOK

\* Sending SHUTDOWN on the next channel, or closing all of them, keeps it.
LEMMA SendShutdownStep ==
  ASSUME DInductive, SendShutdown
  PROVE  DInductive'
<1>1. /\ pc = "shutdown" /\ ~InCall
      /\ UNCHANGED <<fleet, registry, channels, callVars, left, ready, remaining,
                     rc, resultVars, workerVars, up, ghostVars>>
  BY DEF SendShutdown, InCall
<1>2. RegistryInv /\ LoopInv /\ CoordinatorTypes /\ ChannelTypes
  BY DEF DInductive, DTypeOK
<1> DEFINE w == channels[at]
           bye == Chunk("SHUTDOWN", NoUnit, TRUE)
           Sent == /\ at \in DOMAIN channels /\ w \in Workers
                   /\ Room(down[w]) /\ down' = [down EXCEPT ![w] = Append(down[w], bye)]
<1>3. /\ pc' \in {"shutdown", "closed"} /\ at' \in Nat /\ open' \subseteq Workers
      /\ pc' = "shutdown" => open' = open
      /\ down' = down \/ Sent
  <2>1. CASE at > Len(channels)
    BY <1>1, <1>2, <2>1 DEF SendShutdown, CoordinatorTypes
  <2>2. CASE ~(at > Len(channels))
    <3>0. at \in DOMAIN channels
      BY <1>1, <1>2, <2>2 DEF RegistryInv, CoordinatorTypes
    <3>1. w \in Workers /\ at + 1 \in Nat /\ at \in Nat /\ open \subseteq Workers
      BY <1>2, <3>0 DEF CoordinatorTypes
    <3>2. CASE pc' = "closed" /\ open' = {} /\ UNCHANGED <<down, at>>
      BY <3>1, <3>2
    <3>3. CASE ~(pc' = "closed" /\ open' = {} /\ UNCHANGED <<down, at>>)
      <4>1. /\ Room(down[w]) \/ Closed(w)
            /\ down' = IF Closed(w) THEN down
                       ELSE [down EXCEPT ![w] = Append(@, bye)]
            /\ at' = at + 1 /\ UNCHANGED <<pc, open>>
        BY <2>2, <3>3 DEF SendShutdown
      <4>2. down' = down \/ Sent
        BY <3>0, <3>1, <4>1
      <4> QED
        BY <1>1, <3>1, <4>1, <4>2
    <3> QED
      BY <3>2, <3>3
  <2> QED
    BY <2>1, <2>2
<1>4. ~InCall' /\ CallSame /\ UNCHANGED <<fleet, registry, channels, wpc, hand, wleft, served, up, owed,
                                           tainted, faults, batch>>
  BY <1>1, <1>3 DEF InCall, CallSame, ghostVars, workerVars, callVars
<1>5. RegistryInv'
  <2>1. pc' = "closed" /\ channels' = <<>> => registry' = <<>>
    <3>1. SUFFICES ASSUME channels = <<>> PROVE registry = <<>>
      BY <1>4
    <3>2. Range(registry) \subseteq Range(channels) /\ registry \in Seq(Workers)
      BY <1>1, <1>2 DEF RegistryInv, CoordinatorTypes
    <3>3. \A k \in DOMAIN registry : FALSE
      BY <3>1, <3>2 DEF Range
    <3>4. DOMAIN registry = 1..Len(registry) /\ Len(registry) \in Nat
      BY <3>2
    <3>5. Len(registry) # 0 => 1 \in 1..Len(registry)
      BY <3>4
    <3>6. Len(registry) = 0
      BY <3>3, <3>4, <3>5, Zenon
    <3> QED
      BY <3>2, <3>6, EmptySeq
  <2>2. pc' = "shutdown" => at' > 0
    <3>1. at > 0 /\ at \in Nat
      BY <1>1, <1>2 DEF RegistryInv, CoordinatorTypes
    <3>2. at' = at \/ at' = at + 1 \/ pc' = "closed"
      BY DEF SendShutdown
    <3> QED
      BY <3>1, <3>2
  <2>3. IsInjective(registry) /\ Range(registry) \subseteq Range(channels) /\ open = Workers
    BY <1>1, <1>2 DEF RegistryInv
  <2> QED
    BY <1>3, <1>4, <2>1, <2>2, <2>3 DEF RegistryInv
<1>6. /\ UnitsAreDealtOnce' /\ OwedInv' /\ AnswersAreCurrent' /\ AnsweredInv'
      /\ ReducerInv' /\ AppliedIsCanonical' /\ LoopInv' /\ CoordinatorTypes'
  <2>1. /\ registry' \in Seq(Workers) /\ channels' \in Seq(Workers)
        /\ DOMAIN assign \subseteq DOMAIN registry' /\ faults' \in 0..MaxCrashes
        /\ pc' \in {"accept", "reject", "idle", "shutdown", "closed"}
    BY <1>2, <1>3, <1>4 DEF CoordinatorTypes
  <2>2. \A i \in DOMAIN assign : assign[i].worker = registry'[i]
    BY <1>2, <1>4 DEF LoopInv
  <2>3. pc' \in {"accept", "reject"} => rc = "none"
    BY <1>3
  <2> QED
    BY <1>1, <1>3, <1>4, <2>1, <2>2, <2>3, CallKept
<1>7. bye \in Frames({"UNIT", "SHUTDOWN"}) /\ bye.type = "SHUTDOWN"
  BY DEF Chunk, Frames, NoUnit, Spans
<1>8. /\ down' \in [Workers -> Seq(Frames({"UNIT", "SHUTDOWN"}))]
      /\ \A v \in Workers : \/ down'[v] = down[v]
                            \/ down'[v] = Append(down[v], bye) /\ Room(down[v])
  <2>1. down \in [Workers -> Seq(Frames({"UNIT", "SHUTDOWN"}))]
    BY <1>2 DEF ChannelTypes
  <2>2. CASE down' = down
    BY <2>1, <2>2
  <2>3. CASE Sent
    <3> DEFINE more == Append(down[w], bye)
    <3>1. w \in Workers /\ down[w] \in Seq(Frames({"UNIT", "SHUTDOWN"}))
      BY <2>1, <2>3
    <3>2. more \in Seq(Frames({"UNIT", "SHUTDOWN"})) /\ Room(down[w]) /\ down' = [down EXCEPT ![w] = more]
      BY <1>7, <2>3, <3>1, PutInto
    <3> HIDE DEF w, bye, more
    <3>3. /\ down' \in [Workers -> Seq(Frames({"UNIT", "SHUTDOWN"}))]
          /\ down'[w] = more /\ \A v \in Workers \ {w} : down'[v] = down[v]
      BY <2>1, <3>1, <3>2, Replaced
    <3> QED
      BY <3>2, <3>3 DEF more
  <2> QED
    BY <1>3, <2>2, <2>3
<1> HIDE DEF w, bye, Sent
<1>9. ASSUME NEW v \in Workers
      PROVE  Bounded(v)' /\ Announced(v)' /\ HoldsUnits(v)' /\ (v \notin tainted' => Flight(v)')
  <2>1. /\ Bounded(v) /\ Announced(v) /\ HoldsUnits(v) /\ (v \notin tainted => Flight(v))
        /\ down[v] \in Seq(Frames({"UNIT", "SHUTDOWN"})) /\ SocketSize \in Nat
    BY AboutWorker
  <2>2. \/ down'[v] = down[v]
        \/ down'[v] = Append(down[v], bye) /\ Room(down[v])
    BY <1>8
  <2>3. (Busy(v)' <=> Busy(v)) /\ ~Halfway(v)'
    BY <1>3, <1>4 DEF Busy, Halfway
  <2>4. Len(down'[v]) <= SocketSize
    BY <1>7, <2>1, <2>2, PutInto DEF Bounded, Room
  <2>5. \A k \in DOMAIN down'[v] : down'[v][k].type = "UNIT" => k \in DOMAIN down[v] /\ down'[v][k] = down[v][k]
    <3>1. CASE down'[v] = down[v]
      BY <3>1
    <3>2. CASE down'[v] = Append(down[v], bye)
      <4> DEFINE more == Append(down[v], bye)
      <4>1. /\ DOMAIN more = DOMAIN down[v] \cup {Len(down[v]) + 1}
            /\ \A k \in DOMAIN down[v] : more[k] = down[v][k]
            /\ more[Len(down[v]) + 1] = bye
        BY <1>7, <2>1, PutInto
      <4> HIDE DEF more
      <4>2. \A k \in DOMAIN more : more[k].type = "UNIT" => k \in DOMAIN down[v] /\ more[k] = down[v][k]
        BY <1>7, <4>1
      <4> QED
        BY <3>2, <4>2 DEF more
    <3> QED
      BY <2>2, <3>1, <3>2
  <2>6. Bounded(v)'
    BY <1>4, <2>1, <2>3, <2>4 DEF Bounded, ServesForever
  <2>7. Announced(v)'
    BY <1>3, <1>4, <2>1 DEF Announced
  <2>8. HoldsUnits(v)'
    BY <1>4, <2>1, <2>3, <2>5 DEF HoldsUnits
  <2>9. v \notin tainted' => Flight(v)'
    <3>1. SUFFICES ASSUME v \notin tainted PROVE Flight(v)'
      BY <1>4
    <3>2. /\ owed[v] = 0 /\ ~Traffic(v)
          /\ ~Has(down[v], "UNIT") /\ ~Busy(v) /\ ~Has(up[v], "RESULT")
          /\ ~Ended(down[v], "UNIT") /\ ~Ended(up[v], "RESULT") /\ Flight(v)
      BY <1>1, <2>1, <3>1, QuietOutsideCalls
    <3>3. ~Has(down'[v], "UNIT")
      BY <2>5, <3>2 DEF Has
    <3>4. EndsWith(down'[v], "UNIT")
      BY <3>3 DEF Has, EndsWith
    <3>5. ~Traffic(v)' /\ ~Busy(v)' /\ ~Has(up'[v], "RESULT") /\ EndsWith(up'[v], "RESULT")
      BY <1>4, <2>3, <3>2, <3>3 DEF Traffic, Flight
    <3>6. \A k \in DOMAIN down'[v] : ~(down'[v][k].type = "UNIT")
      BY <3>3 DEF Has
    <3>7. \A k \in DOMAIN up'[v] : ~(up'[v][k].type = "RESULT")
      BY <3>5 DEF Has
    <3> QED
      BY <1>4, <2>3, <3>2, <3>3, <3>4, <3>5, <3>6, <3>7 DEF Flight
  <2> QED
    BY <2>6, <2>7, <2>8, <2>9
<1>10. ChannelTypes'
  BY <1>2, <1>4, <1>8, <1>9 DEF ChannelTypes
<1>11. AnnounceInv' /\ UnitInv' /\ FlightInv'
  BY <1>9 DEF AnnounceInv, UnitInv, FlightInv
<1> QED
  BY <1>5, <1>6, <1>10, <1>11 DEF DInductive, DTypeOK

-------------------------------------------------------------------------------
\* The call.

\* What is filed.
LEMMA RecordTypes ==
  ASSUME CoordinatorTypes
  PROVE  /\ DOMAIN records = 1..Len(records) /\ Len(records) \in Nat
         /\ \A k \in DOMAIN records :
               /\ records[k].worker \in Workers /\ records[k].call \in 1..batch
               /\ records[k].unit \in Spans /\ IsUnit(records[k].unit)
<1> DEFINE U == {u \in Spans : IsUnit(u)}
           R == [worker : Workers, unit : U, call : 1..batch]
<1>1. records \in Seq(R)
  BY DEF CoordinatorTypes
<1> HIDE DEF R
<1>2. DOMAIN records = 1..Len(records) /\ Len(records) \in Nat /\ \A k \in DOMAIN records : records[k] \in R
  BY <1>1
<1> HIDE DEF U
<1>3. \A x \in R : x.worker \in Workers /\ x.call \in 1..batch /\ x.unit \in U
  BY DEF R
<1>4. \A u \in U : u \in Spans /\ IsUnit(u)
  BY DEF U
<1> QED
  BY <1>2, <1>3, <1>4

\* Starting a call with a schedule keeps it.
LEMMA StartCallStep ==
  ASSUME DInductive, NEW job \in Jobs, StartCall(job)
  PROVE  DInductive'
<1> DEFINE n == Len(job)
           out == Schedule(n)
<1>1. /\ pc = "idle" /\ ~InCall /\ batch < MaxCalls /\ batch' = batch + 1 /\ WorkersSame
      /\ UNCHANGED <<fleet, registryVars, ready, resultVars, workerVars, streamVars, ghostVars>>
  BY DEF StartCall, InCall, WorkersSame
<1>2. RegistryInv /\ LoopInv /\ CoordinatorTypes /\ AnswersAreCurrent
  BY DEF DInductive, DTypeOK
<1>3. /\ job \in Seq([state : Nat, begin : Nat, end : Nat]) /\ n \in Nat /\ DOMAIN job = 1..n
      /\ UnitSize \in Nat \ {0} /\ batch \in Nat /\ MaxCalls \in Nat
  <2>1. job \in Seq([state : Nat, begin : Nat, end : Nat])
    BY DispatchAssumption
  <2> QED
    BY <1>2, <2>1, DispatchAssumption DEF CoordinatorTypes
<1>4. Schedulable
  BY <1>2 DEF Schedulable, RegistryInv, CoordinatorTypes
<1> USE DEF registryVars, resultVars, ghostVars
<1> DEFINE Idle == /\ DOMAIN out = {} /\ rc' = "nothing" /\ units' = <<>> /\ assign' = <<>>
                   /\ UNCHANGED <<pc, at, left, remaining>>
           Goes == /\ DOMAIN out # {} /\ assign' = out /\ units' = job
                   /\ remaining' = [i \in DOMAIN out |-> out[i].count]
                   /\ pc' = "send" /\ rc' = "none" /\ left' = UnitSize
                   /\ at' = Min(DOMAIN out)
<1>5. Idle \/ Goes
  BY DEF StartCall
<1>6. Idle => ~InCall' /\ ~Assigned' /\ DOMAIN assign' = {} /\ ready' = {} /\ left' = left
  <2>1. ready = {}
    BY <1>1, <1>2 DEF LoopInv
  <2> QED
    BY <1>1, <2>1 DEF InCall, Assigned
<1>7. Goes => InCall' /\ Assigned'
  BY DEF InCall, Assigned
<1>8. Goes => /\ out \in [DOMAIN out -> Assignments]
              /\ DOMAIN out \subseteq DOMAIN registry /\ DOMAIN out \subseteq Nat
              /\ \A i \in DOMAIN out : /\ out[i].worker = registry[i] /\ Rate(out[i].worker) > 0
                                       /\ UnitRange(out[i]) \subseteq 1..n
                                       /\ out[i].count \in Nat
              /\ \A k \in 1..n : Cardinality({i \in DOMAIN out : k \in UnitRange(out[i])}) = 1
              /\ at' \in DOMAIN out
  <2>1. SUFFICES ASSUME Goes
                 PROVE  /\ out \in [DOMAIN out -> Assignments]
                        /\ DOMAIN out \subseteq DOMAIN registry /\ DOMAIN out \subseteq Nat
                        /\ \A i \in DOMAIN out : /\ out[i].worker = registry[i] /\ Rate(out[i].worker) > 0
                                                 /\ UnitRange(out[i]) \subseteq 1..n
                                                 /\ out[i].count \in Nat
                        /\ \A k \in 1..n : Cardinality({i \in DOMAIN out : k \in UnitRange(out[i])}) = 1
                        /\ at' \in DOMAIN out
    OBVIOUS
  <2>2. DOMAIN out # {} /\ at' = Min(DOMAIN out) /\ out = Schedule(n)
    BY <2>1
  <2> HIDE DEF out, n, Goes
  <2>3. DealsOnce(out, n)
    BY <1>3, <1>4, <2>2, ScheduleDealsOnce
  <2>4. \A i \in DOMAIN out : out[i].count \in Nat
    BY <2>3 DEF Assignments, DealsOnce
  <2>5. at' \in DOMAIN out
    BY <2>2, <2>3, MinIsLeast DEF DealsOnce
  <2> QED
    BY <2>3, <2>4, <2>5 DEF DealsOnce
<1> HIDE DEF n, out
<1>9. CoordinatorTypes'
  <2>1. /\ fleet' \in Fleets /\ registry' \in Seq(Workers) /\ channels' \in Seq(Workers)
        /\ open' \subseteq Workers /\ owed' \in [Workers -> Int] /\ tainted' \subseteq Workers
        /\ faults' \in 0..MaxCrashes /\ batch' \in 0..MaxCalls
    BY <1>1, <1>2, <1>3 DEF CoordinatorTypes
  <2>2. records' \in Seq([worker : Workers, unit : {u \in Spans : IsUnit(u)}, call : 1..batch'])
    <3>1. records \in Seq([worker : Workers, unit : {u \in Spans : IsUnit(u)}, call : 1..batch])
      BY <1>2 DEF CoordinatorTypes
    <3>2. 1..batch \subseteq 1..batch'
      BY <1>1, <1>3
    <3> DEFINE R(b) == [worker : Workers, unit : {u \in Spans : IsUnit(u)}, call : 1..b]
    <3>3. R(batch) \subseteq R(batch')
      BY <3>2
    <3>4. records \in Seq(R(batch))
      BY <3>1
    <3> HIDE DEF R
    <3>5. records \in Seq(R(batch'))
      BY <3>3, <3>4
    <3> QED
      BY <1>1, <3>5 DEF R
  <2>3. CASE Idle
    <3>1. assign' \in [DOMAIN assign' -> Assignments] /\ DOMAIN assign' \subseteq DOMAIN registry'
      BY <2>3
    <3>2. remaining' \in [{} -> Nat] /\ ready' = {}
      BY <1>1, <1>2, <1>6, <2>3 DEF CoordinatorTypes
    <3>3. at' \in Nat /\ left' \in 0..UnitSize /\ pc' = "idle" /\ rc' = "nothing" /\ units' = <<>>
      BY <1>1, <1>2, <2>3 DEF CoordinatorTypes
    <3> QED
      BY <1>6, <2>1, <2>2, <2>3, <3>1, <3>2, <3>3 DEF CoordinatorTypes
  <2>4. CASE Goes
    <3>1. assign' \in [DOMAIN assign' -> Assignments] /\ DOMAIN assign' \subseteq DOMAIN registry'
      BY <1>1, <1>8, <2>4
    <3>2. remaining' \in [DOMAIN assign' -> Nat]
      BY <1>8, <2>4
    <3>3. at' \in Nat /\ left' \in 0..UnitSize /\ pc' = "send" /\ rc' = "none" /\ units' \in Jobs
      BY <1>3, <1>8, <2>4
    <3>4. ready' = {}
      BY <1>1, <1>2 DEF LoopInv
    <3> QED
      BY <1>7, <2>1, <2>2, <2>4, <3>1, <3>2, <3>3, <3>4 DEF CoordinatorTypes
  <2> QED
    BY <1>5, <2>3, <2>4
<1>10. RegistryInv'
  <2>1. pc' \in {"idle", "send"}
    BY <1>1, <1>5
  <2> QED
    BY <1>1, <1>2, <2>1 DEF RegistryInv
<1>11. LoopInv'
  <2>1. CASE Idle
    <3>1. left = 0 /\ rc' = "nothing" /\ pc' = "idle" /\ units' = <<>>
      BY <1>1, <1>2, <2>1 DEF LoopInv, CoordinatorTypes
    <3> QED
      BY <1>6, <2>1, <3>1 DEF LoopInv
  <2>2. CASE Goes
    <3>1. ready' = {}
      BY <1>1, <1>2 DEF LoopInv
    <3>2. \A i \in DOMAIN out : remaining'[i] = out[i].count /\ out[i].count \in Nat
      BY <1>8, <2>2
    <3>3. batch' > 0 /\ left' > 0
      BY <1>1, <1>3, <2>2
    <3> QED
      BY <1>1, <1>7, <1>8, <2>2, <3>1, <3>2, <3>3 DEF LoopInv
  <2> QED
    BY <1>5, <2>1, <2>2
<1>12. UnitsAreDealtOnce'
  <2>1. CASE Idle
    BY <1>6, <2>1 DEF UnitsAreDealtOnce
  <2>2. CASE Goes
    <3>1. assign' = out /\ DOMAIN units' = 1..n /\ fleet' = fleet
      BY <1>1, <1>3, <2>2
    <3> QED
      BY <1>8, <2>2, <3>1 DEF UnitsAreDealtOnce, UnitRange, Rate
  <2> QED
    BY <1>5, <2>1, <2>2
<1>13. \A v \in Workers : ~Halfway(v)'
  <2>1. Idle => ~(pc' \in {"send", "resend"})
    BY <1>1
  <2>2. Goes => ~(left' < UnitSize)
    BY <1>3
  <2> QED
    BY <1>5, <2>1, <2>2 DEF Halfway
<1>14. FlightInv'
  <2>1. ASSUME NEW v \in Workers, v \notin tainted' PROVE Flight(v)'
    <3>1. v \notin tainted
      BY <1>1, <2>1
    <3>2. /\ owed[v] = 0 /\ ~Traffic(v)
          /\ ~Has(down[v], "UNIT") /\ ~Busy(v) /\ ~Has(up[v], "RESULT")
      BY <1>1, <3>1, QuietOutsideCalls
    <3>3. Flight(v)
      BY <3>1, AboutWorker
    <3>4. UNCHANGED <<owed, down, up, wpc, hand>>
      BY <1>1 DEF WorkersSame, workerVars, streamVars
    <3>5. (Busy(v)' <=> Busy(v)) /\ (Traffic(v)' <=> Traffic(v))
      BY <3>4 DEF Busy, Traffic
    <3>6. /\ \A k \in DOMAIN down[v] : ~(down[v][k].type = "UNIT")
          /\ \A k \in DOMAIN up[v] : ~(up[v][k].type = "RESULT")
      BY <3>2 DEF Has
    <3> QED
      BY <1>13, <3>2, <3>3, <3>4, <3>5, <3>6 DEF Flight
  <2> QED
    BY <2>1 DEF FlightInv
<1>15. OwedInv'
  <2>1. \A v \in Workers \ tainted : owed[v] = 0
    BY <1>1, QuietOutsideCalls
  <2> QED
    BY <1>1, <2>1 DEF OwedInv
<1>16. AnswersAreCurrent' /\ ReducerInv' /\ AppliedIsCanonical'
  BY <1>1 DEF DInductive, AnswersAreCurrent, ReducerInv, AppliedIsCanonical
<1>17. AnsweredInv'
  <2>1. CASE Idle
    BY <1>6, <2>1 DEF AnsweredInv
  <2>2. CASE Goes
    <3>1. Mine' = {}
      <4>1. \A k \in DOMAIN records : records[k].call \in 1..batch
        BY <1>2, RecordTypes
      <4>2. \A k \in DOMAIN records : records[k].call # batch'
        BY <1>1, <1>3, <4>1
      <4> QED
        BY <1>1, <4>2 DEF Mine
    <3>2. \A v : MineFrom(v)' = {}
      BY <3>1 DEF MineFrom
    <3>3. Cardinality({}) = 0
      BY FS_EmptySet
    <3>4. ASSUME NEW i \in DOMAIN out
          PROVE  /\ Cardinality(MineFrom(assign[i].worker))' = out[i].count - Unanswered(i)'
                 /\ out[i].first..(out[i].first + out[i].count - Unanswered(i)' - 1) = {}
      <4>1. Unanswered(i)' = out[i].count
        BY <1>7, <2>2 DEF Unanswered
      <4>2. out[i].count \in Nat /\ out[i].first \in Nat
        BY <1>8, <2>2 DEF Assignments
      <4>3. out[i].count - out[i].count = 0
            /\ out[i].first..(out[i].first + out[i].count - out[i].count - 1) = {}
        BY <4>2
      <4> QED
        BY <3>2, <3>3, <4>1, <4>3
    <3>5. assign' = out
      BY <2>2
    <3> QED
      BY <3>1, <3>4, <3>5 DEF AnsweredInv
  <2> QED
    BY <1>5, <2>1, <2>2
<1>18. ChannelTypes' /\ UnitInv' /\ AnnounceInv'
  <2>1. pc' # "accept" /\ UNCHANGED channels
    BY <1>1, <1>5
  <2> QED
    BY <1>1, <2>1, WorkersKept
<1> QED
  BY <1>9, <1>10, <1>11, <1>12, <1>14, <1>15, <1>16, <1>17, <1>18 DEF DInductive, DTypeOK

\* A call that fails: what was owed is tainted, and the rest is reset.
LEMMA FailKeeps ==
  ASSUME DInductive, InCall, Returns("failed"),
         UNCHANGED <<fleet, registryVars, batch, resultVars>>,
         faults' \in 0..MaxCrashes, owed' \in [Workers -> Int],
         \A v \in Workers \ tainted : owed'[v] \in {0, 1}
  PROVE  /\ CoordinatorTypes' /\ RegistryInv' /\ LoopInv' /\ UnitsAreDealtOnce' /\ OwedInv'
         /\ AnswersAreCurrent' /\ AnsweredInv' /\ ReducerInv' /\ AppliedIsCanonical'
         /\ UNCHANGED channels /\ pc' = "idle"
         /\ \A v \in Workers : v \notin tainted' => v \notin tainted /\ owed'[v] = 0
<1> USE DEF registryVars, resultVars
<1>1. /\ pc' = "idle" /\ rc' = "failed" /\ at' = 0 /\ left' = 0 /\ ready' = {}
      /\ remaining' = <<>> /\ assign' = <<>> /\ units' = <<>>
      /\ tainted' = tainted \cup {w \in Workers : owed'[w] > 0}
  BY DEF Returns
<1>2. ~InCall' /\ ~Assigned'
  BY <1>1 DEF InCall, Assigned
<1>3. DOMAIN <<>> = {} /\ <<>> \in [{} -> Nat] /\ <<>> \in [{} -> Assignments]
  OBVIOUS
<1>4. CoordinatorTypes /\ RegistryInv /\ UnitSize \in Nat
  BY DispatchAssumption DEF DInductive, DTypeOK
<1>5. CoordinatorTypes'
  <2>1. /\ fleet' \in Fleets /\ registry' \in Seq(Workers) /\ channels' \in Seq(Workers)
        /\ open' \subseteq Workers /\ batch' \in 0..MaxCalls /\ tainted' \subseteq Workers
        /\ records' \in Seq([worker : Workers, unit : {u \in Spans : IsUnit(u)},
                             call : 1..batch'])
    BY <1>1, <1>4 DEF CoordinatorTypes
  <2>2. /\ assign' \in [DOMAIN assign' -> Assignments] /\ DOMAIN assign' = {}
        /\ remaining' \in [{} -> Nat] /\ left' \in 0..UnitSize
    BY <1>1, <1>3, <1>4
  <2> QED
    BY <1>1, <1>2, <2>1, <2>2 DEF CoordinatorTypes
<1>6. RegistryInv'
  <2>1. pc \notin {"accept", "reject", "closed", "shutdown"}
    BY DEF InCall
  <2> QED
    BY <1>1, <1>4, <2>1 DEF RegistryInv
<1>7. LoopInv'
  BY <1>1, <1>2, <1>3 DEF LoopInv
<1>8. UnitsAreDealtOnce' /\ AnsweredInv'
  BY <1>1, <1>2, <1>3 DEF UnitsAreDealtOnce, AnsweredInv
<1>9. \A v \in Workers : v \notin tainted' => v \notin tainted /\ owed'[v] = 0
  BY <1>1
<1>10. OwedInv'
  BY <1>9 DEF OwedInv
<1>11. AnswersAreCurrent'
  BY <1>1, <1>9 DEF DInductive, AnswersAreCurrent
<1>12. ReducerInv' /\ AppliedIsCanonical'
  BY DEF DInductive, ReducerInv, AppliedIsCanonical
<1> QED
  BY <1>1, <1>5, <1>6, <1>7, <1>8, <1>9, <1>10, <1>11, <1>12

\* While a range is unfinished, its next unit is a unit of the job, and its
\* worker has no other range.
LEMMA CurrentUnit ==
  ASSUME DInductive, InCall, NEW i \in DOMAIN assign, remaining[i] > 0
  PROVE  /\ assign[i].worker \in Workers /\ assign[i].worker \in Range(channels)
         /\ assign[i].count \in Nat /\ assign[i].first \in Nat
         /\ remaining[i] \in 1..assign[i].count
         /\ NextUnit(i) \in UnitRange(assign[i]) /\ NextUnit(i) \in DOMAIN units
         /\ NextUnit(i) = assign[i].first + assign[i].count - remaining[i]
         /\ batch \in 1..MaxCalls
         /\ Stamped(units[NextUnit(i)], batch) \in Spans
         /\ Stamped(units[NextUnit(i)], batch).batch = batch
         /\ IsUnit(Stamped(units[NextUnit(i)], batch))
         /\ \A j \in DOMAIN assign : assign[j].worker = assign[i].worker => j = i
<1>1. CoordinatorTypes /\ RegistryInv /\ LoopInv /\ UnitsAreDealtOnce /\ Assigned
  BY DEF DInductive, DTypeOK, Assigned
<1>2. /\ assign[i] \in Assignments /\ DOMAIN assign \subseteq DOMAIN registry
      /\ remaining \in [DOMAIN assign -> Nat] /\ registry \in Seq(Workers) /\ batch \in 0..MaxCalls
  BY <1>1 DEF CoordinatorTypes
<1>3. /\ assign[i].worker \in Workers /\ assign[i].count \in Nat \ {0}
      /\ assign[i].first \in Nat \ {0} /\ remaining[i] \in Nat
  BY <1>2 DEF Assignments
<1>4. /\ units \in Jobs /\ batch > 0 /\ remaining[i] <= assign[i].count
      /\ assign[i].worker = registry[i]
      /\ \A j \in DOMAIN assign : assign[j].worker = registry[j]
  BY <1>1 DEF LoopInv
<1>5. assign[i].worker \in Range(channels) /\ IsInjective(registry)
  <2>1. Range(registry) \subseteq Range(channels) /\ IsInjective(registry)
    BY <1>1 DEF RegistryInv, InCall
  <2>2. registry[i] \in Range(registry)
    BY <1>2 DEF Range
  <2> QED
    BY <1>4, <2>1, <2>2
<1>6. \A j \in DOMAIN assign : assign[j].worker = assign[i].worker => j = i
  BY <1>2, <1>4, <1>5 DEF IsInjective
<1>7. UnitRange(assign[i]) \subseteq DOMAIN units
  BY <1>1 DEF UnitsAreDealtOnce
<1>8. NextUnit(i) = assign[i].first + assign[i].count - remaining[i]
  BY DEF NextUnit
<1>9. NextUnit(i) \in UnitRange(assign[i])
  BY <1>3, <1>4, <1>8 DEF UnitRange
<1>10. MaxCalls \in Nat /\ batch \in 1..MaxCalls /\ batch \in Nat
  BY <1>2, <1>4, DispatchAssumption
<1>11. units \in Seq([state : Nat, begin : Nat, end : Nat])
  BY <1>4, DispatchAssumption
<1> DEFINE u == units[NextUnit(i)]
<1>12. u \in [state : Nat, begin : Nat, end : Nat]
  <2> DEFINE U == [state : Nat, begin : Nat, end : Nat]
  <2>1. units \in Seq(U) /\ NextUnit(i) \in DOMAIN units
    BY <1>7, <1>9, <1>11
  <2> HIDE DEF U
  <2>2. \A k \in DOMAIN units : units[k] \in U
    BY <2>1
  <2>3. u \in U
    BY <2>1, <2>2
  <2> QED
    BY <2>3 DEF U
<1>13. Stamped(u, batch) \in Spans /\ Stamped(u, batch).batch = batch
  BY <1>10, <1>12 DEF Stamped, Spans
<1>14. IsUnit(Stamped(u, batch))
  BY <1>4, <1>7, <1>9, <1>10 DEF IsUnit
<1> QED
  BY <1>3, <1>4, <1>5, <1>6, <1>7, <1>8, <1>9, <1>10, <1>13, <1>14

\* The assignment at hand is one of the call's, and unfinished.
LEMMA AtHand ==
  ASSUME DInductive
  PROVE  /\ pc \in {"send", "resend"} => /\ Sending \in DOMAIN assign /\ remaining[Sending] > 0
                                         /\ Sending \in Nat
         /\ pc \in {"recv", "resend"} => Min(ready) \in ready /\ Min(ready) \in DOMAIN assign
         /\ DOMAIN assign \subseteq Nat
<1>1. CoordinatorTypes /\ LoopInv
  BY DEF DInductive, DTypeOK
<1>2. DOMAIN assign \subseteq Nat /\ ready \subseteq DOMAIN assign
  <2>1. DOMAIN assign \subseteq DOMAIN registry /\ registry \in Seq(Workers)
    BY <1>1 DEF CoordinatorTypes
  <2> QED
    BY <1>1, <2>1 DEF CoordinatorTypes
<1>3. pc \in {"recv", "resend"} => Min(ready) \in ready /\ Min(ready) \in DOMAIN assign
  <2>1. pc \in {"recv", "resend"} => ready # {}
    BY <1>1 DEF LoopInv
  <2> QED
    BY <1>2, <2>1, MinIsLeast
<1>4. CASE pc = "send"
  <2>1. at \in DOMAIN assign /\ remaining[at] = assign[at].count /\ Sending = at
    BY <1>1, <1>4 DEF LoopInv, Sending
  <2>2. assign[at].count > 0
    BY <1>1, <2>1 DEF CoordinatorTypes, Assignments
  <2> QED
    BY <1>2, <1>3, <1>4, <2>1, <2>2
<1>5. CASE pc # "send"
  <2>1. \A j \in ready : remaining[j] > 0
    BY <1>1 DEF LoopInv
  <2>2. Sending = Min(ready)
    BY <1>5 DEF Sending
  <2> QED
    BY <1>2, <1>3, <1>5, <2>1, <2>2
<1> QED
  BY <1>4, <1>5

\* Nothing is on its way on a channel on which nothing is owed.
LEMMA NothingOwed ==
  ASSUME DInductive, NEW v \in Workers, v \notin tainted, owed[v] = 0
  PROVE  /\ ~Traffic(v) /\ ~Halfway(v) /\ ~Has(down[v], "UNIT") /\ ~Busy(v) /\ ~Has(up[v], "RESULT")
         /\ ~Ended(down[v], "UNIT") /\ ~Ended(up[v], "RESULT")
<1>1. Flight(v)
  BY DEF DInductive, FlightInv
<1>2. ~Traffic(v) /\ ~Halfway(v)
  BY <1>1 DEF Flight
<1> QED
  BY <1>2 DEF Traffic, Has, Ended

\* A channel that owes nothing and carries nothing is as Flight requires.
LEMMA QuietFlight ==
  ASSUME NEW v, owed'[v] = 0, ~Halfway(v)', ~Busy(v)', ~Has(down'[v], "UNIT"), ~Has(up'[v], "RESULT")
  PROVE  Flight(v)'
<1>1. ~Traffic(v)'
  BY DEF Traffic
<1>2. /\ \A k \in DOMAIN down'[v] : ~(down'[v][k].type = "UNIT")
      /\ \A k \in DOMAIN up'[v] : ~(up'[v][k].type = "RESULT")
  BY DEF Has
<1>3. EndsWith(down'[v], "UNIT") /\ EndsWith(up'[v], "RESULT")
  BY <1>2 DEF EndsWith
<1> QED
  BY <1>1, <1>2, <1>3 DEF Flight

\* What the send of a chunk leaves of the loop: the next chunk, the first chunk
\* of the next first send, or the next visit.
Continues(i) ==
    /\ UNCHANGED <<remaining, rc, units, assign, tainted>>
    /\ left' \in 0..UnitSize /\ at' \in Nat
    /\ \/ left > 1 /\ left' = left - 1 /\ UNCHANGED <<pc, at, ready>>
       \/ /\ left = 1 /\ pc = "send" /\ pc' = "send" /\ left' = UnitSize /\ ready' = ready
          /\ at' \in DOMAIN assign /\ at' > at
       \/ /\ left = 1 /\ pc = "send" /\ pc' = "select" /\ left' = 0 /\ ready' = ready
       \/ /\ left = 1 /\ pc = "resend" /\ left' = 0 /\ ready' = ready \ {i}
          /\ pc' = IF ready' # {} THEN "recv" ELSE "select"

\* SendUnit leaves the loop in one of these three ways.
LEMMA SendContinues ==
  ASSUME DInductive, pc \in {"send", "resend"},
         IF left = 1 THEN SentUnit
         ELSE /\ left' = left - 1
              /\ UNCHANGED <<at, pc, ready, remaining, rc, units, assign, tainted>>
  PROVE  Continues(Sending)
<1>1. CoordinatorTypes /\ LoopInv /\ UnitSize \in Nat \ {0}
  BY DispatchAssumption DEF DInductive, DTypeOK
<1>2. left \in 0..UnitSize /\ left > 0 /\ at \in Nat
  BY <1>1 DEF CoordinatorTypes, LoopInv
<1>3. /\ Sending \in DOMAIN assign /\ remaining[Sending] > 0 /\ DOMAIN assign \subseteq Nat
      /\ remaining[Sending] \in Nat
  <2>1. Sending \in DOMAIN assign /\ remaining[Sending] > 0 /\ DOMAIN assign \subseteq Nat
    BY AtHand
  <2>2. remaining \in [DOMAIN assign -> Nat]
    BY <1>1 DEF CoordinatorTypes, InCall
  <2> QED
    BY <2>1, <2>2
<1>4. CASE left # 1
  BY <1>1, <1>2, <1>4 DEF Continues
<1>5. CASE left = 1 /\ pc = "send"
  <2>1. /\ IF ToSend # {} THEN at' = Min(ToSend) /\ left' = UnitSize /\ pc' = pc
                          ELSE at' = 0 /\ left' = 0 /\ pc' = "select"
        /\ UNCHANGED <<ready, remaining, rc, units, assign, tainted>>
    BY <1>5 DEF SentUnit
  <2>2. ToSend \in SUBSET Nat
    BY <1>3 DEF ToSend
  <2>3. ToSend # {} => Min(ToSend) \in ToSend
    BY <2>2, MinIsLeast
  <2>4. ToSend # {} => at' \in DOMAIN assign /\ at' > at /\ at' \in Nat
    BY <1>3, <2>1, <2>3 DEF ToSend
  <2> QED
    BY <1>1, <1>5, <2>1, <2>4 DEF Continues
<1>6. CASE left = 1 /\ pc = "resend"
  <2>1. AfterVisit(ready \ {Sending}, remaining) /\ Sending \in DOMAIN remaining
    <3>1. remaining \in [DOMAIN assign -> Nat]
      BY <1>1, <1>6 DEF CoordinatorTypes, InCall
    <3> QED
      BY <1>3, <1>6, <3>1 DEF SentUnit, Sending
  <2>2. ~(\A i \in DOMAIN remaining : remaining[i] = 0)
    BY <1>3, <2>1
  <2>3. /\ ready' = ready \ {Sending} /\ remaining' = remaining /\ left' = 0
        /\ pc' = IF ready' # {} THEN "recv" ELSE "select"
        /\ UNCHANGED <<at, rc, units, assign, tainted>>
    BY <2>1, <2>2 DEF AfterVisit
  <2> QED
    BY <1>1, <1>2, <1>6, <2>3 DEF Continues
<1> QED
  BY <1>4, <1>5, <1>6

\* So the coordinator's parts of the invariant are kept when a chunk was sent.
LEMMA ContinuesKeeps ==
  ASSUME DInductive, pc \in {"send", "resend"}, NEW i, i = Sending, Continues(i),
         UNCHANGED <<fleet, registryVars, batch, resultVars, faults>>,
         owed' \in [Workers -> Int],
         owed' = [owed EXCEPT ![assign[i].worker] =
                     IF left = UnitSize THEN @ + 1 ELSE @],
         assign[i].worker \notin tainted => owed'[assign[i].worker] = 1
  PROVE  /\ CoordinatorTypes' /\ RegistryInv' /\ LoopInv' /\ UnitsAreDealtOnce' /\ OwedInv'
         /\ AnswersAreCurrent' /\ AnsweredInv' /\ ReducerInv' /\ AppliedIsCanonical'
         /\ \A v \in Workers : Halfway(v)' => v = assign[i].worker /\ left > 1
<1> USE DEF registryVars, resultVars
<1> DEFINE w == assign[i].worker
<1>1. CoordinatorTypes /\ LoopInv /\ RegistryInv /\ OwedInv /\ UnitSize \in Nat \ {0}
  BY DispatchAssumption DEF DInductive, DTypeOK
<1>2. /\ pc' \in {"send", "select", "recv", "resend"} /\ InCall /\ InCall'
      /\ UNCHANGED <<remaining, rc, units, assign, tainted>>
      /\ left' \in 0..UnitSize /\ at' \in Nat
      /\ ready' \subseteq ready
  <2>1. pc' \in {"send", "select", "recv", "resend"} /\ ready' \subseteq ready
    BY DEF Continues
  <2> QED
    BY <2>1 DEF Continues, InCall
<1>3. /\ i \in DOMAIN assign /\ remaining[i] > 0 /\ DOMAIN assign \subseteq Nat
      /\ pc = "send" => i = at
  BY AtHand DEF Sending
<1>4. /\ w \in Workers /\ \A j \in DOMAIN assign : assign[j].worker = w => j = i
  BY <1>2, <1>3, CurrentUnit
<1>5. /\ left \in 0..UnitSize /\ left > 0 /\ at \in Nat /\ owed \in [Workers -> Int]
  BY <1>1 DEF CoordinatorTypes, LoopInv
<1>6. \A v \in Workers \ {w} : owed'[v] = owed[v]
  BY <1>4, <1>5
<1> HIDE DEF w
<1>7. CoordinatorTypes'
  <2>1. ready' \subseteq DOMAIN assign'
    BY <1>1, <1>2 DEF CoordinatorTypes
  <2> QED
    BY <1>1, <1>2, <2>1 DEF CoordinatorTypes
<1>8. RegistryInv'
  BY <1>1, <1>2 DEF RegistryInv
<1>9. LoopInv'
  <2>1. /\ InCall' \/ pc' \in {"accept", "reject"} => rc' = "none"
        /\ Assigned' => units' \in Jobs /\ batch' > 0 /\ DOMAIN assign' # {}
        /\ ~Assigned' => DOMAIN assign' = {} /\ units' = <<>>
        /\ \A j \in DOMAIN assign' : assign'[j].worker = registry'[j]
        /\ InCall' => \A j \in DOMAIN assign' : remaining'[j] <= assign'[j].count
        /\ \A j \in ready' : remaining'[j] > 0
    BY <1>1, <1>2 DEF LoopInv, Assigned
  <2>2. pc' = "send" => /\ at' \in DOMAIN assign'
                        /\ \A j \in DOMAIN assign' : remaining'[j] = assign'[j].count
    <3>1. pc' = "send" => pc = "send" /\ at' \in {at} \cup DOMAIN assign
      BY DEF Continues
    <3>2. pc = "send" => /\ at \in DOMAIN assign
                         /\ \A j \in DOMAIN assign : remaining[j] = assign[j].count
      BY <1>1 DEF LoopInv
    <3> QED
      BY <1>2, <3>1, <3>2
  <2>3. left' > 0 <=> pc' \in {"send", "resend"}
    BY <1>1, <1>5 DEF Continues
  <2>4. ready' # {} <=> pc' \in {"recv", "resend"}
    <3>1. ready # {} <=> pc \in {"recv", "resend"}
      BY <1>1 DEF LoopInv
    <3> QED
      BY <3>1 DEF Continues
  <2> QED
    BY <2>1, <2>2, <2>3, <2>4 DEF LoopInv
<1>10. UnitsAreDealtOnce'
  BY <1>2 DEF DInductive, UnitsAreDealtOnce, UnitRange, Rate
<1>11. OwedInv'
  <2>1. SUFFICES ASSUME NEW v \in Workers, v \notin tainted, owed'[v] # 0
        PROVE  /\ \E j \in DOMAIN assign : assign[j].worker = v /\ remaining[j] > 0
               /\ pc' = "send" => \A j \in DOMAIN assign :
                     assign[j].worker = v => j < at' \/ (j = at' /\ left' < UnitSize)
               /\ pc' = "resend" /\ assign[Sending'].worker = v => left' < UnitSize
    BY <1>2 DEF OwedInv
  <2>2. v # w => /\ \E j \in DOMAIN assign : assign[j].worker = v /\ remaining[j] > 0
                 /\ pc = "send" => \A j \in DOMAIN assign :
                       assign[j].worker = v => j < at \/ (j = at /\ left < UnitSize)
    BY <1>1, <1>6, <2>1 DEF OwedInv
  <2>3. \E j \in DOMAIN assign : assign[j].worker = v /\ remaining[j] > 0
    BY <1>3, <2>2 DEF w
  <2>4. ASSUME pc' = "send", NEW j \in DOMAIN assign, assign[j].worker = v
        PROVE  j < at' \/ (j = at' /\ left' < UnitSize)
    <3>1. pc = "send" /\ i = at
      BY <1>3, <2>4 DEF Continues
    <3>2. j = at \/ j < at
      BY <1>4, <2>2, <2>4, <3>1
    <3>3. j = at => v = w
      BY <2>4, <3>1 DEF w
    <3>4. (at' = at /\ left' < UnitSize) \/ at' > at
      BY <1>1, <1>5, <2>4 DEF Continues
    <3> QED
      BY <1>2, <1>3, <1>5, <3>2, <3>4
  <2>5. pc' = "resend" => left' < UnitSize
    BY <1>1, <1>5 DEF Continues
  <2> QED
    BY <2>3, <2>4, <2>5
<1>12. AnswersAreCurrent'
  <2>1. AnswersAreCurrent
    BY DEF DInductive
  <2>2. \A v \in Workers \ tainted : owed'[v] <= 1
    <3>1. \A v \in Workers \ tainted : v # w => owed'[v] <= 1
      BY <1>6, <2>1 DEF AnswersAreCurrent
    <3>2. w \notin tainted => owed'[w] = 1
      BY DEF w
    <3> QED
      BY <3>1, <3>2
  <2> QED
    BY <1>2, <2>1, <2>2 DEF AnswersAreCurrent
<1>13. AnsweredInv'
  BY <1>2 DEF DInductive, AnsweredInv, Assigned, Mine, MineFrom, Unanswered
<1>14. ReducerInv' /\ AppliedIsCanonical'
  BY DEF DInductive, ReducerInv, AppliedIsCanonical
<1>15. \A v \in Workers : Halfway(v)' => v = w /\ left > 1
  <2>1. ASSUME NEW v \in Workers, Halfway(v)' PROVE v = w /\ left > 1
    <3>1. pc' \in {"send", "resend"} /\ assign'[Sending'].worker = v /\ left' < UnitSize
      BY <2>1 DEF Halfway
    <3>2. left > 1 /\ UNCHANGED <<pc, at, ready>>
      BY <1>1, <3>1 DEF Continues
    <3>3. Sending' = i
      BY <3>2 DEF Sending
    <3> QED
      BY <1>2, <3>1, <3>2, <3>3 DEF w
  <2> QED
    BY <2>1
<1> QED
  BY <1>7, <1>8, <1>9, <1>10, <1>11, <1>12, <1>13, <1>14, <1>15 DEF w

\* A call fails without having touched a stream.
LEMMA FailedInPlace ==
  ASSUME DInductive, InCall, Returns("failed"), WorkersSame, faults' \in 0..MaxCrashes,
         UNCHANGED <<fleet, registryVars, batch, resultVars, owed>>
  PROVE  DInductive'
<1>1. faults' \in 0..MaxCrashes /\ owed' \in [Workers -> Int]
  BY DEF DInductive, DTypeOK, CoordinatorTypes
<1>2. \A v \in Workers \ tainted : owed'[v] \in {0, 1}
  BY DEF DInductive, FlightInv, Flight
<1>3. /\ CoordinatorTypes' /\ RegistryInv' /\ LoopInv' /\ UnitsAreDealtOnce' /\ OwedInv'
      /\ AnswersAreCurrent' /\ AnsweredInv' /\ ReducerInv' /\ AppliedIsCanonical'
      /\ UNCHANGED channels /\ pc' = "idle"
      /\ \A v \in Workers : v \notin tainted' => v \notin tainted /\ owed'[v] = 0
  BY <1>1, <1>2, FailKeeps
<1>4. ChannelTypes' /\ UnitInv' /\ AnnounceInv'
  <2>1. pc' # "accept" /\ UNCHANGED channels
    BY <1>3
  <2> QED
    BY <2>1, WorkersKept
<1>5. FlightInv'
  <2>1. ASSUME NEW v \in Workers, v \notin tainted' PROVE Flight(v)'
    <3>1. v \notin tainted /\ owed'[v] = 0 /\ owed[v] = 0
      BY <1>3, <2>1
    <3>2. ~Has(down[v], "UNIT") /\ ~Busy(v) /\ ~Has(up[v], "RESULT")
      BY <3>1, NothingOwed
    <3>3. ~Has(down'[v], "UNIT") /\ ~Busy(v)' /\ ~Has(up'[v], "RESULT")
      BY <3>2 DEF WorkersSame, workerVars, streamVars, Busy
    <3>4. ~Halfway(v)'
      BY <1>3 DEF Halfway
    <3> QED
      BY <3>1, <3>3, <3>4, QuietFlight
  <2> QED
    BY <2>1 DEF FlightInv
<1> QED
  BY <1>3, <1>4, <1>5 DEF DInductive, DTypeOK

\* The chunk a send writes.
LEMMA ChunkSent ==
  ASSUME NEW unit \in Spans, NEW l \in 1..UnitSize, NEW e,
         e = Frame("UNIT", unit, UnitSize)[UnitSize - l + 1]
  PROVE  /\ e \in Frames({"UNIT", "SHUTDOWN"}) /\ e.type = "UNIT" /\ e.unit = unit
         /\ e.last <=> l = 1
<1>1. UnitSize \in Nat /\ UnitSize - l + 1 \in 1..UnitSize /\ (UnitSize - l + 1 = UnitSize <=> l = 1)
  BY DispatchAssumption
<1> DEFINE last == UnitSize - l + 1 = UnitSize
<1>2. e = [type |-> "UNIT", unit |-> unit, last |-> last]
  BY <1>1 DEF Frame, Chunk
<1>3. last \in BOOLEAN
  BY Zenon
<1>4. last <=> l = 1
  BY <1>1
<1> HIDE DEF last
<1>5. e \in Frames({"UNIT", "SHUTDOWN"})
  BY <1>2, <1>3 DEF Frames
<1> QED
  BY <1>2, <1>4, <1>5

\* Sending a chunk of a unit, or failing to, keeps the invariant.
LEMMA SendUnitStep ==
  ASSUME DInductive, SendUnit
  PROVE  DInductive'
<1> DEFINE i == Sending
           w == assign[i].worker
           unit == Stamped(units[NextUnit(i)], batch)
           e == Frame("UNIT", unit, UnitSize)[UnitSize - left + 1]
           more == Append(down[w], e)
<1>1. /\ pc \in {"send", "resend"} /\ InCall /\ UnitSize \in Nat \ {0}
      /\ UNCHANGED <<fleet, registryVars, batch, resultVars, workerVars, up>>
      /\ faults \in 0..MaxCrashes /\ MaxCrashes \in Nat
  BY DispatchAssumption DEF SendUnit, InCall, DInductive, DTypeOK, CoordinatorTypes
<1> DEFINE Failed == UNCHANGED <<down, owed>> /\ Returns("failed") /\ faults' \in 0..MaxCrashes
<1>2. CASE Failed
  BY <1>1, <1>2, FailedInPlace DEF WorkersSame, streamVars
<1>3. CASE ~Failed
  <2>1. /\ Room(down[w]) \/ Closed(w)
        /\ down' = IF Closed(w) THEN down ELSE [down EXCEPT ![w] = more]
        /\ owed' = [owed EXCEPT ![w] = IF left = UnitSize THEN @ + 1 ELSE @]
        /\ IF left = 1 THEN SentUnit
           ELSE /\ left' = left - 1
                /\ UNCHANGED <<at, pc, ready, remaining, rc, units, assign, tainted>>
        /\ UNCHANGED faults
    <3>1. /\ UNCHANGED faults => faults' \in 0..MaxCrashes
          /\ faults < MaxCrashes /\ faults' = faults + 1 => faults' \in 0..MaxCrashes
      BY <1>1
    <3> QED
      BY <1>3, <3>1 DEF SendUnit, MayFault
  <2>2. Continues(i)
    BY <1>1, <2>1, SendContinues
  <2>3. /\ CoordinatorTypes /\ ChannelTypes /\ LoopInv /\ OwedInv
        /\ owed \in [Workers -> Int] /\ left \in 1..UnitSize
        /\ down \in [Workers -> Seq(Frames({"UNIT", "SHUTDOWN"}))]
        /\ up \in [Workers -> Seq(Frames({"CAPABILITIES", "RESULT"}))]
    <3>1. CoordinatorTypes /\ ChannelTypes /\ LoopInv /\ OwedInv
      BY DEF DInductive, DTypeOK
    <3>2. left > 0 /\ left \in 0..UnitSize
      BY <1>1, <3>1 DEF CoordinatorTypes, LoopInv
    <3>3. left \in 1..UnitSize
      BY <1>1, <3>2
    <3>4. owed \in [Workers -> Int]
      BY <3>1 DEF CoordinatorTypes
    <3> QED
      BY <3>1, <3>3, <3>4 DEF ChannelTypes
  <2>4. /\ i \in DOMAIN assign /\ remaining[i] > 0 /\ w \in Workers
        /\ unit \in Spans /\ unit.batch = batch /\ IsUnit(unit)
        /\ \A j \in DOMAIN assign : assign[j].worker = w => j = i
        /\ pc = "send" => i = at
    <3>1. i \in DOMAIN assign /\ remaining[i] > 0
      BY <1>1, AtHand
    <3>2. pc = "send" => i = at
      BY DEF Sending
    <3> HIDE DEF i
    <3> QED
      BY <1>1, <3>1, <3>2, CurrentUnit
  <2>5. /\ e \in Frames({"UNIT", "SHUTDOWN"}) /\ e.type = "UNIT" /\ e.unit = unit
        /\ e.last <=> left = 1
    BY <2>3, <2>4, ChunkSent
  <2>6. down[w] \in Seq(Frames({"UNIT", "SHUTDOWN"}))
    BY <2>3, <2>4
  <2>7. /\ more \in Seq(Frames({"UNIT", "SHUTDOWN"})) /\ Len(more) = Len(down[w]) + 1
        /\ DOMAIN more = DOMAIN down[w] \cup {Len(down[w]) + 1}
        /\ \A k \in DOMAIN down[w] : more[k] = down[w][k]
        /\ more[Len(down[w]) + 1] = e
    BY <2>5, <2>6, PutInto
  <2>8. /\ Ended(more, "UNIT") => Ended(down[w], "UNIT") \/ left = 1
        /\ ~Ended(down[w], "UNIT") => EndsWith(more, "UNIT")
    BY <2>5, <2>6, LongerStream
  <2>9. w \notin tainted => /\ Flight(w) /\ owed'[w] = 1 /\ ~Busy(w) /\ ~Has(up[w], "RESULT")
                            /\ ~Ended(down[w], "UNIT")
    <3>1. SUFFICES ASSUME w \notin tainted
          PROVE  /\ Flight(w) /\ owed'[w] = 1 /\ ~Busy(w) /\ ~Has(up[w], "RESULT")
                 /\ ~Ended(down[w], "UNIT")
      OBVIOUS
    <3>2. Flight(w)
      BY <2>4, <3>1 DEF DInductive, FlightInv
    <3>3. owed'[w] = IF left = UnitSize THEN owed[w] + 1 ELSE owed[w]
      BY <2>1, <2>3, <2>4
    <3>4. CASE left = UnitSize
      <4>1. owed[w] = 0
        <5>1. SUFFICES ASSUME owed[w] # 0 PROVE FALSE
          OBVIOUS
        <5>2. /\ pc = "send" => \A j \in DOMAIN assign :
                   assign[j].worker = w => j < at \/ (j = at /\ left < UnitSize)
              /\ pc = "resend" => left < UnitSize
          BY <2>3, <2>4, <3>1, <5>1 DEF OwedInv
        <5>3. at \in Nat
          BY <2>3 DEF CoordinatorTypes
        <5> QED
          BY <1>1, <2>4, <3>4, <5>2, <5>3
      <4>2. ~Has(down[w], "UNIT") /\ ~Busy(w) /\ ~Has(up[w], "RESULT") /\ ~Ended(down[w], "UNIT")
        BY <2>4, <3>1, <4>1, NothingOwed
      <4> QED
        BY <3>2, <3>3, <3>4, <4>1, <4>2
    <3>5. CASE left # UnitSize
      <4>1. Halfway(w)
        BY <1>1, <2>3, <3>5 DEF Halfway
      <4> QED
        BY <3>2, <3>3, <3>5, <4>1 DEF Flight
    <3> QED
      BY <3>4, <3>5
  <2>10. owed' \in [Workers -> Int] /\ \A v \in Workers \ {w} : owed'[v] = owed[v]
    BY <2>1, <2>3, <2>4
  <2>11. /\ CoordinatorTypes' /\ RegistryInv' /\ LoopInv' /\ UnitsAreDealtOnce' /\ OwedInv'
         /\ AnswersAreCurrent' /\ AnsweredInv' /\ ReducerInv' /\ AppliedIsCanonical'
         /\ \A v \in Workers : Halfway(v)' => v = w /\ left > 1
    BY <1>1, <2>1, <2>2, <2>9, <2>10, ContinuesKeeps
  <2>12. pc' # "accept" /\ UNCHANGED <<channels, tainted, batch, fleet, up, wpc, hand, wleft, served>>
    BY <1>1, <2>2 DEF Continues, registryVars, workerVars
  <2>13. /\ down' \in [Workers -> Seq(Frames({"UNIT", "SHUTDOWN"}))]
         /\ \A v \in Workers \ {w} : down'[v] = down[v]
         /\ down'[w] = down[w] \/ (down'[w] = more /\ Room(down[w]))
    <3>1. CASE Closed(w)
      BY <2>1, <2>3, <3>1
    <3>2. CASE ~Closed(w)
      <4>1. down' = [down EXCEPT ![w] = more] /\ Room(down[w])
        BY <2>1, <3>2
      <4> HIDE DEF more, w
      <4> QED
        BY <2>3, <2>4, <2>7, <4>1, Replaced
    <3> QED
      BY <3>1, <3>2
  <2> HIDE DEF more, w, e, i, unit
  <2>14. ASSUME NEW v \in Workers
         PROVE  Bounded(v)' /\ Announced(v)' /\ HoldsUnits(v)' /\ (v \notin tainted' => Flight(v)')
    <3>1. /\ Bounded(v) /\ Announced(v) /\ HoldsUnits(v) /\ (v \notin tainted => Flight(v))
          /\ down[v] \in Seq(Frames({"UNIT", "SHUTDOWN"})) /\ SocketSize \in Nat
      BY AboutWorker
    <3>2. Busy(v)' <=> Busy(v)
      BY <2>12 DEF Busy
    <3>3. Announced(v)'
      BY <2>12, <3>1 DEF Announced
    <3>4. CASE down'[v] = down[v]
      <4>1. Bounded(v)' /\ HoldsUnits(v)'
        BY <2>12, <3>1, <3>2, <3>4 DEF Bounded, ServesForever, HoldsUnits
      <4>2. v \notin tainted' => Flight(v)'
        <5>1. SUFFICES ASSUME v \notin tainted PROVE Flight(v)'
          BY <2>12
        <5>2. Flight(v) /\ (Traffic(v)' <=> Traffic(v))
          BY <2>12, <3>1, <3>2, <3>4, <5>1 DEF Traffic
        <5>3. CASE v = w
          <6>1. /\ owed'[v] = 1 /\ ~Busy(v) /\ ~Has(up[v], "RESULT") /\ ~Ended(down[v], "UNIT")
            BY <2>9, <5>1, <5>3
          <6> QED
            BY <2>12, <3>2, <3>4, <5>2, <6>1 DEF Flight
        <5>4. CASE v # w
          <6>1. owed'[v] = owed[v] /\ ~Halfway(v)'
            BY <2>10, <2>11, <5>4
          <6> QED
            BY <2>12, <3>2, <3>4, <5>2, <6>1 DEF Flight
        <5> QED
          BY <5>3, <5>4
      <4> QED
        BY <3>3, <4>1, <4>2
    <3>5. CASE v = w /\ down'[w] = more /\ Room(down[w])
      <4>1. Len(more) <= SocketSize
        BY <2>6, <2>7, <3>1, <3>5 DEF Room
      <4>2. Bounded(v)'
        BY <2>12, <3>1, <3>2, <3>5, <4>1 DEF Bounded, ServesForever
      <4>3. \A k \in DOMAIN more : (k \in DOMAIN down[w] /\ more[k] = down[w][k]) \/ more[k] = e
        BY <2>7
      <4>4. HoldsUnits(v)'
        BY <2>4, <2>5, <2>12, <3>1, <3>2, <3>5, <4>3 DEF HoldsUnits
      <4>5. v \notin tainted' => Flight(v)'
        <5>1. SUFFICES ASSUME w \notin tainted PROVE Flight(v)'
          BY <2>12, <3>5
        <5>2. /\ Flight(w) /\ owed'[w] = 1 /\ ~Busy(w) /\ ~Has(up[w], "RESULT")
              /\ ~Ended(down[w], "UNIT")
          BY <2>9, <5>1
        <5>3. EndsWith(more, "UNIT") /\ (Ended(more, "UNIT") => left = 1)
          BY <2>8, <5>2
        <5>4. Halfway(v)' => ~Ended(more, "UNIT")
          <6>1. Halfway(v)' => left > 1
            BY <2>4, <2>11
          <6> QED
            BY <2>3, <5>3, <6>1
        <5>5. \A k \in DOMAIN more : more[k].type = "UNIT" => more[k].unit.batch = batch
          BY <2>4, <2>5, <4>3, <5>2 DEF Flight
        <5>6. EndsWith(up[w], "RESULT")
              /\ \A k \in DOMAIN up[w] : up[w][k].type = "RESULT" => up[w][k].unit.batch = batch
          BY <5>2 DEF Flight
        <5> QED
          BY <2>12, <3>2, <3>5, <5>2, <5>3, <5>4, <5>5, <5>6 DEF Flight
      <4> QED
        BY <3>3, <4>2, <4>4, <4>5
    <3> QED
      BY <2>13, <3>4, <3>5
  <2>15. ChannelTypes'
    BY <2>3, <2>12, <2>13, <2>14 DEF ChannelTypes
  <2>16. AnnounceInv' /\ UnitInv' /\ FlightInv'
    BY <2>14 DEF AnnounceInv, UnitInv, FlightInv
  <2> QED
    BY <2>11, <2>15, <2>16 DEF DInductive, DTypeOK
<1> QED
  BY <1>2, <1>3

-------------------------------------------------------------------------------
\* What the coordinator reads.

\* A channel of the call carries results only.
LEMMA ResultAtHand ==
  ASSUME DInductive, pc = "recv", NEW i, i = Min(ready), NEW w, w = assign[i].worker
  PROVE  /\ InCall /\ i \in DOMAIN assign /\ remaining[i] > 0 /\ w \in Workers /\ w \in Range(channels)
         /\ up[w] # <<>> => /\ Head(up[w]) \in Frames({"CAPABILITIES", "RESULT"})
                            /\ Head(up[w]).type = "RESULT" /\ Head(up[w]).unit \in Spans
                            /\ IsUnit(Head(up[w]).unit)
                            /\ w \notin tainted => Head(up[w]).unit.batch = batch
<1>1. InCall /\ i \in DOMAIN assign /\ remaining[i] > 0
  <2>1. i \in DOMAIN assign /\ i \in ready
    BY AtHand
  <2> QED
    BY <2>1 DEF DInductive, LoopInv, InCall
<1>2. w \in Workers /\ w \in Range(channels)
  BY <1>1, CurrentUnit
<1>3. /\ up[w] \in Seq(Frames({"CAPABILITIES", "RESULT"})) /\ Announced(w) /\ HoldsUnits(w)
      /\ w \notin tainted => Flight(w)
  BY <1>2, AboutWorker
<1>4. ASSUME up[w] # <<>>
      PROVE  /\ Head(up[w]) \in Frames({"CAPABILITIES", "RESULT"})
             /\ Head(up[w]).type = "RESULT" /\ Head(up[w]).unit \in Spans
             /\ IsUnit(Head(up[w]).unit)
             /\ w \notin tainted => Head(up[w]).unit.batch = batch
  <2>1. /\ Head(up[w]) \in Frames({"CAPABILITIES", "RESULT"})
        /\ Head(up[w]) = up[w][1] /\ 1 \in DOMAIN up[w]
    BY <1>3, <1>4, TakenOff
  <2> DEFINE e == Head(up[w])
  <2> HIDE DEF e
  <2>2. e.unit \in Spans /\ e.type \in {"CAPABILITIES", "RESULT"}
    BY <2>1 DEF Frames, e
  <2>3. e.type # "CAPABILITIES"
    BY <1>2, <1>3, <2>1 DEF Announced, Has, e
  <2>4. e.type = "RESULT"
    BY <2>2, <2>3
  <2>5. IsUnit(e.unit)
    BY <1>3, <2>1, <2>4 DEF HoldsUnits, e
  <2>6. w \notin tainted => e.unit.batch = batch
    BY <1>3, <2>1, <2>4 DEF Flight, e
  <2> QED
    BY <2>1, <2>2, <2>4, <2>5, <2>6 DEF e
<1> QED
  BY <1>1, <1>2, <1>4

\* A chunk of a result that is not its last changes one stream.
LEMMA ReadPart ==
  ASSUME DInductive, pc = "recv", NEW i, i = Min(ready), NEW w, w = assign[i].worker,
         up[w] # <<>>, up' = [up EXCEPT ![w] = Tail(@)],
         CoordinatorSame, UNCHANGED <<workerVars, down, faults>>
  PROVE  DInductive'
<1> DEFINE rest == Tail(up[w])
<1> USE DEF workerVars
<1>1. w \in Workers /\ w \in Range(channels)
  BY ResultAtHand
<1>2. /\ up[w] \in Seq(Frames({"CAPABILITIES", "RESULT"}))
      /\ Bounded(w) /\ Announced(w) /\ HoldsUnits(w) /\ (w \notin tainted => Flight(w))
      /\ faults \in 0..MaxCrashes /\ SocketSize \in Nat
  BY <1>1, AboutWorker
<1>3. /\ rest \in Seq(Frames({"CAPABILITIES", "RESULT"})) /\ Len(rest) = Len(up[w]) - 1
      /\ \A k \in DOMAIN rest : k + 1 \in DOMAIN up[w] /\ rest[k] = up[w][k + 1]
  BY <1>2, TakenOff
<1>4. /\ Has(rest, "RESULT") => Has(up[w], "RESULT")
      /\ Ended(rest, "RESULT") => Ended(up[w], "RESULT")
      /\ EndsWith(up[w], "RESULT") => EndsWith(rest, "RESULT")
      /\ Has(rest, "CAPABILITIES") => Has(up[w], "CAPABILITIES")
  BY <1>2, ShorterStream
<1>5. ChannelTypes
  BY DEF DInductive, DTypeOK
<1>6. up' = [up EXCEPT ![w] = rest]
  OBVIOUS
<1> HIDE DEF rest
<1>7. /\ up' \in [Workers -> Seq(Frames({"CAPABILITIES", "RESULT"}))]
      /\ up'[w] = rest /\ \A v \in Workers \ {w} : up'[v] = up[v]
  <2>1. up \in [Workers -> Seq(Frames({"CAPABILITIES", "RESULT"}))]
    BY <1>5 DEF ChannelTypes
  <2> QED
    BY <1>1, <1>3, <1>6, <2>1, Replaced
<1>8. UNCHANGED <<fleet, pc, channels, owed, batch, tainted>> /\ (Busy(w)' <=> Busy(w))
  BY DEF CoordinatorSame, registryVars, callVars, loopVars, Busy
<1>9. Bounded(w)'
  <2>1. Len(rest) <= SocketSize
    BY <1>2, <1>3 DEF Bounded
  <2> QED
    BY <1>2, <1>7, <1>8, <2>1 DEF Bounded, ServesForever
<1>10. Announced(w)'
  BY <1>1, <1>2, <1>4, <1>7, <1>8 DEF Announced
<1>11. HoldsUnits(w)'
  BY <1>2, <1>3, <1>7, <1>8 DEF HoldsUnits
<1>12. w \notin tainted' => Flight(w)'
  <2>1. SUFFICES ASSUME w \notin tainted PROVE Flight(w)'
    BY <1>8
  <2>2. Flight(w) /\ ~Halfway(w)'
    BY <1>2, <1>8, <2>1 DEF Halfway
  <2>3. Traffic(w)' => Traffic(w)
    BY <1>4, <1>7, <1>8 DEF Traffic
  <2>4. \A k \in DOMAIN rest : rest[k].type = "RESULT" => rest[k].unit.batch = batch
    BY <1>3, <2>2 DEF Flight
  <2> QED
    BY <1>4, <1>7, <1>8, <2>2, <2>3, <2>4 DEF Flight
<1>13. /\ down' \in [Workers -> Seq(Frames({"UNIT", "SHUTDOWN"}))]
       /\ wpc' \in [Workers -> {"away", "recv", "execute", "send", "ended"}]
       /\ hand' \in [Workers -> Spans] /\ wleft' \in [Workers -> 0..ResultSize]
       /\ served' \in [Workers -> Nat] /\ faults' \in 0..MaxCrashes
  BY <1>2, <1>5 DEF ChannelTypes
<1> QED
  BY <1>1, <1>7, <1>9, <1>10, <1>11, <1>12, <1>13, WorkerMoves

\* The last chunk of a result leaves its channel quiet.
LEMMA ReadResult ==
  ASSUME DInductive, pc = "recv", NEW i, i = Min(ready), NEW w, w = assign[i].worker,
         up[w] # <<>>, up' = [up EXCEPT ![w] = Tail(@)], Head(up[w]).last,
         owed' = [owed EXCEPT ![w] = @ - 1],
         UNCHANGED <<fleet, registryVars, batch, workerVars, down>>, pc' # "accept"
  PROVE  /\ ChannelTypes' /\ UnitInv' /\ AnnounceInv'
         /\ owed' \in [Workers -> Int] /\ \A v \in Workers \ tainted : owed'[v] \in {0, 1}
         /\ w \notin tainted => owed'[w] = 0
         /\ \A v \in Workers \ {w} : owed'[v] = owed[v]
         /\ (\A v \in Workers : ~Halfway(v)' /\ (v \notin tainted' => v \notin tainted)) => FlightInv'
<1> DEFINE rest == Tail(up[w])
<1> USE DEF workerVars, registryVars
<1>1. /\ w \in Workers /\ w \in Range(channels) /\ Head(up[w]).type = "RESULT"
  BY ResultAtHand
<1>2. /\ up[w] \in Seq(Frames({"CAPABILITIES", "RESULT"}))
      /\ Bounded(w) /\ Announced(w) /\ HoldsUnits(w) /\ (w \notin tainted => Flight(w))
      /\ SocketSize \in Nat
  BY <1>1, AboutWorker
<1>3. /\ rest \in Seq(Frames({"CAPABILITIES", "RESULT"})) /\ Len(rest) = Len(up[w]) - 1
      /\ \A k \in DOMAIN rest : k + 1 \in DOMAIN up[w] /\ rest[k] = up[w][k + 1]
  BY <1>2, TakenOff
<1>4. /\ EndsWith(up[w], "RESULT") => rest = <<>>
      /\ Has(up[w], "RESULT") /\ Ended(up[w], "RESULT")
      /\ Has(rest, "CAPABILITIES") => Has(up[w], "CAPABILITIES")
  BY <1>1, <1>2, ShorterStream
<1>5. ChannelTypes /\ owed \in [Workers -> Int]
  BY DEF DInductive, DTypeOK, CoordinatorTypes
<1>6. up' = [up EXCEPT ![w] = rest]
  OBVIOUS
<1> HIDE DEF rest
<1>7. /\ up' \in [Workers -> Seq(Frames({"CAPABILITIES", "RESULT"}))]
      /\ up'[w] = rest /\ \A v \in Workers \ {w} : up'[v] = up[v]
  <2>1. up \in [Workers -> Seq(Frames({"CAPABILITIES", "RESULT"}))]
    BY <1>5 DEF ChannelTypes
  <2>2. w \in Workers /\ rest \in Seq(Frames({"CAPABILITIES", "RESULT"}))
    BY <1>1, <1>3
  <2>3. /\ [up EXCEPT ![w] = rest] \in [Workers -> Seq(Frames({"CAPABILITIES", "RESULT"}))]
        /\ [up EXCEPT ![w] = rest][w] = rest
        /\ \A v \in Workers \ {w} : [up EXCEPT ![w] = rest][v] = up[v]
    BY <2>1, <2>2, Replaced, Zenon
  <2> QED
    BY <1>6, <2>3, Zenon
<1>8. /\ owed' \in [Workers -> Int] /\ owed'[w] = owed[w] - 1
      /\ \A v \in Workers \ {w} : owed'[v] = owed[v]
  BY <1>1, <1>5
<1>9. w \notin tainted => /\ owed'[w] = 0 /\ rest = <<>> /\ ~Busy(w) /\ ~Has(down[w], "UNIT")
  <2>1. SUFFICES ASSUME w \notin tainted
                 PROVE  owed'[w] = 0 /\ rest = <<>> /\ ~Busy(w) /\ ~Has(down[w], "UNIT")
    OBVIOUS
  <2>2. Flight(w)
    BY <1>2, <2>1
  <2>3. rest = <<>> /\ ~Busy(w) /\ ~Has(down[w], "UNIT")
    BY <1>4, <2>2 DEF Flight
  <2>4. owed[w] = 1
    BY <1>4, <2>2 DEF Flight, Traffic
  <2> QED
    BY <1>8, <2>3, <2>4
<1>10. ASSUME NEW v \in Workers
       PROVE  Bounded(v)' /\ Announced(v)' /\ HoldsUnits(v)'
  <2>1. Bounded(v) /\ Announced(v) /\ HoldsUnits(v) /\ (Busy(v)' <=> Busy(v))
    BY AboutWorker DEF Busy
  <2>2. CASE v # w
    BY <1>7, <2>1, <2>2 DEF Bounded, Announced, HoldsUnits, ServesForever
  <2>3. CASE v = w
    <3>1. Len(rest) <= SocketSize
      BY <1>2, <1>3 DEF Bounded
    <3>2. Bounded(v)'
      BY <1>7, <2>1, <2>3, <3>1 DEF Bounded, ServesForever
    <3>3. Announced(v)'
      BY <1>1, <1>4, <1>7, <2>1, <2>3 DEF Announced
    <3>4. HoldsUnits(v)'
      BY <1>3, <1>7, <2>1, <2>3 DEF HoldsUnits
    <3> QED
      BY <3>2, <3>3, <3>4
  <2> QED
    BY <2>2, <2>3
<1>11. ChannelTypes'
  BY <1>5, <1>7, <1>10 DEF ChannelTypes
<1>12. AnnounceInv' /\ UnitInv'
  BY <1>10 DEF AnnounceInv, UnitInv
<1>13. \A v \in Workers \ tainted : owed'[v] \in {0, 1}
  <2>1. \A v \in Workers \ tainted : owed[v] \in {0, 1}
    BY DEF DInductive, FlightInv, Flight
  <2> QED
    BY <1>8, <1>9, <2>1
<1>14. ASSUME \A v \in Workers : ~Halfway(v)' /\ (v \notin tainted' => v \notin tainted)
       PROVE  FlightInv'
  <2>1. ASSUME NEW v \in Workers, v \notin tainted' PROVE Flight(v)'
    <3>1. v \notin tainted /\ ~Halfway(v)' /\ (Busy(v)' <=> Busy(v))
      BY <1>14, <2>1 DEF Busy
    <3>2. CASE v = w
      <4>1. ~Has(<<>>, "RESULT")
        BY EmptyStream
      <4> QED
        BY <1>7, <1>9, <3>1, <3>2, <4>1, QuietFlight
    <3>3. CASE v # w
      <4>1. Flight(v) /\ up'[v] = up[v] /\ owed'[v] = owed[v]
        BY <1>7, <1>8, <3>1, <3>3 DEF DInductive, FlightInv
      <4>2. Traffic(v)' <=> Traffic(v)
        BY <3>1, <4>1 DEF Traffic
      <4> QED
        BY <3>1, <4>1, <4>2 DEF Flight
    <3> QED
      BY <3>2, <3>3
  <2> QED
    BY <2>1 DEF FlightInv
<1> QED
  BY <1>8, <1>9, <1>11, <1>12, <1>13, <1>14

\* What the visit of a channel whose result was accepted leaves of the loop: the
\* next unit, the end of the call, or the next visit.
OneLess(i) == [remaining EXCEPT ![i] = @ - 1]
Visited(i) ==
    /\ UNCHANGED <<units, assign, tainted>>
    /\ \/ /\ OneLess(i)[i] > 0 /\ pc' = "resend" /\ left' = UnitSize /\ remaining' = OneLess(i)
          /\ UNCHANGED <<ready, rc, at>>
       \/ /\ \A j \in DOMAIN OneLess(i) : OneLess(i)[j] = 0
          /\ pc' = "idle" /\ rc' = "ok" /\ at' = 0 /\ left' = 0 /\ ready' = {}
          /\ remaining' = <<>>
       \/ /\ ~(OneLess(i)[i] > 0) /\ remaining' = OneLess(i) /\ left' = 0 /\ ready' = ready \ {i}
          /\ pc' = IF ready' # {} THEN "recv" ELSE "select"
          /\ UNCHANGED <<rc, at>>

\* The answer that is accepted becomes a record of the call.
Filed(i, unit) ==
    /\ Answers(i, unit) /\ MayAccept(unit)
    /\ records' = Append(records, [worker |-> assign[i].worker, unit |-> unit, call |-> batch])

\* What Receive does with an answer it accepts, in these words.
LEMMA AcceptedIsFiled ==
  ASSUME NEW i, NEW unit, Answers(i, unit) /\ MayAccept(unit),
         records' = Append(records, [worker |-> assign[i].worker, unit |-> unit, call |-> batch]),
         IF OneLess(i)[i] > 0
         THEN /\ pc' = "resend" /\ left' = UnitSize /\ remaining' = OneLess(i)
              /\ UNCHANGED <<at, ready, rc, units, assign, tainted>>
         ELSE AfterVisit(ready \ {i}, OneLess(i))
  PROVE  Filed(i, unit) /\ Visited(i)
<1>1. Filed(i, unit)
  BY DEF Filed
<1> DEFINE todo == OneLess(i)
<1> HIDE DEF todo
<1>2. CASE todo[i] > 0
  BY <1>1, <1>2 DEF Visited, todo
<1>3. CASE ~(todo[i] > 0)
  <2>1. AfterVisit(ready \ {i}, todo)
    BY <1>3 DEF todo
  <2>2. CASE ready \ {i} = {} /\ \A j \in DOMAIN todo : todo[j] = 0
    <3>1. Returns("ok")
      BY <2>1, <2>2 DEF AfterVisit
    <3>2. /\ pc' = "idle" /\ rc' = "ok" /\ at' = 0 /\ left' = 0 /\ ready' = {}
          /\ remaining' = <<>> /\ UNCHANGED <<units, assign, tainted>>
      BY <3>1 DEF Returns
    <3> QED
      BY <1>1, <2>2, <3>2 DEF Visited, todo
  <2>3. CASE ~(ready \ {i} = {} /\ \A j \in DOMAIN todo : todo[j] = 0)
    <3>1. /\ ready' = ready \ {i} /\ remaining' = todo /\ left' = 0
          /\ pc' = IF ready' # {} THEN "recv" ELSE "select"
          /\ UNCHANGED <<at, rc, units, assign, tainted>>
      BY <2>1, <2>3 DEF AfterVisit
    <3> QED
      BY <1>1, <1>3, <3>1 DEF Visited, todo
  <2> QED
    BY <2>2, <2>3
<1> QED
  BY <1>1, <1>2, <1>3

\* A visit takes one unit off what remains; afterwards nothing is half-way.
LEMMA VisitCounts ==
  ASSUME DInductive, pc = "recv", NEW i, i = Min(ready), Visited(i)
  PROVE  /\ i \in DOMAIN assign /\ OneLess(i) \in [DOMAIN assign -> Nat]
         /\ OneLess(i)[i] = remaining[i] - 1 /\ remaining[i] \in Nat
         /\ \A j \in DOMAIN assign : j # i => OneLess(i)[j] = remaining[j]
         /\ \A j \in DOMAIN assign : Unanswered(j)' = OneLess(i)[j]
         /\ Assigned' /\ pc' \in {"idle", "select", "recv", "resend"}
         /\ InCall' \/ \A j \in DOMAIN assign : OneLess(i)[j] = 0
         /\ InCall' => remaining' = OneLess(i)
         /\ \A v \in Workers : ~Halfway(v)'
<1>1. CoordinatorTypes /\ LoopInv /\ InCall /\ UnitSize \in Nat \ {0}
  BY DispatchAssumption DEF DInductive, DTypeOK, InCall
<1>2. i \in DOMAIN assign /\ remaining[i] > 0 /\ remaining \in [DOMAIN assign -> Nat]
  <2>1. i \in DOMAIN assign /\ i \in ready
    BY AtHand
  <2> QED
    BY <1>1, <2>1 DEF CoordinatorTypes, LoopInv
<1>3. /\ OneLess(i) \in [DOMAIN assign -> Nat] /\ OneLess(i)[i] = remaining[i] - 1
      /\ remaining[i] \in Nat
      /\ \A j \in DOMAIN assign : j # i => OneLess(i)[j] = remaining[j]
  BY <1>2 DEF OneLess
<1> DEFINE todo == OneLess(i)
<1>4. DOMAIN todo = DOMAIN assign
  BY <1>3
<1>5. pc' \in {"idle", "select", "recv", "resend"} /\ (pc' = "resend" => left' = UnitSize)
  BY <1>1 DEF Visited
<1>6. CASE InCall'
  <2>1. remaining' = todo
    BY <1>6 DEF Visited, InCall
  <2>2. \A j \in DOMAIN assign : Unanswered(j)' = todo[j]
    BY <1>6, <2>1 DEF Unanswered
  <2>3. Assigned'
    BY <1>6 DEF Assigned
  <2>4. \A v \in Workers : ~Halfway(v)'
    BY <1>1, <1>5 DEF Halfway
  <2> QED
    BY <1>2, <1>3, <1>5, <1>6, <2>1, <2>2, <2>3, <2>4
<1>7. CASE ~InCall'
  <2>1. pc' = "idle" /\ rc' = "ok" /\ \A j \in DOMAIN todo : todo[j] = 0
    BY <1>7 DEF Visited, InCall
  <2>2. \A j \in DOMAIN assign : Unanswered(j)' = todo[j]
    BY <1>4, <1>7, <2>1 DEF Unanswered
  <2>3. Assigned'
    BY <2>1 DEF Assigned
  <2>4. \A v \in Workers : ~Halfway(v)'
    BY <2>1 DEF Halfway
  <2> QED
    BY <1>2, <1>3, <1>4, <1>5, <1>7, <2>1, <2>2, <2>3, <2>4
<1> QED
  BY <1>6, <1>7

\* The reducer has one record more.
LEMMA OneMoreRecord ==
  ASSUME CoordinatorTypes, NEW i \in DOMAIN assign, batch > 0, NEW unit \in Spans, IsUnit(unit),
         Filed(i, unit)
  PROVE  /\ records' \in Seq([worker : Workers, unit : {u \in Spans : IsUnit(u)}, call : 1..batch])
         /\ Len(records) \in Nat /\ DOMAIN records = 1..Len(records)
         /\ DOMAIN records' = DOMAIN records \cup {Len(records) + 1}
         /\ \A k \in DOMAIN records : records'[k] = records[k]
         /\ records'[Len(records) + 1] =
                [worker |-> assign[i].worker, unit |-> unit, call |-> batch]
<1> DEFINE R == [worker : Workers, unit : {u \in Spans : IsUnit(u)}, call : 1..batch]
           r == [worker |-> assign[i].worker, unit |-> unit, call |-> batch]
<1>1. records \in Seq(R)
  BY DEF CoordinatorTypes
<1>2. r \in R
  <2>1. assign[i].worker \in Workers /\ batch \in 1..batch
    BY DEF CoordinatorTypes, Assignments
  <2> QED
    BY <2>1
<1>3. records' = Append(records, r)
  BY DEF Filed
<1>4. DOMAIN records = 1..Len(records) /\ Len(records) \in Nat
  BY RecordTypes
<1> HIDE DEF R, r
<1>5. /\ Append(records, r) \in Seq(R)
      /\ DOMAIN Append(records, r) = DOMAIN records \cup {Len(records) + 1}
      /\ \A k \in DOMAIN records : Append(records, r)[k] = records[k]
      /\ Append(records, r)[Len(records) + 1] = r
  BY <1>1, <1>2, PutInto
<1> QED
  BY <1>3, <1>4, <1>5 DEF R, r

\* The call's record of what it has filed, with one more result.
LEMMA AnsweredStep ==
  ASSUME DInductive, pc = "recv", NEW i, i = Min(ready), NEW unit \in Spans, IsUnit(unit),
         Filed(i, unit), Visited(i), UNCHANGED batch
  PROVE  AnsweredInv'
<1> DEFINE w == assign[i].worker
           n == Len(records)
           todo == OneLess(i)
<1>1. CoordinatorTypes /\ LoopInv /\ AnsweredInv /\ InCall /\ Assigned
  BY DEF DInductive, DTypeOK, InCall, Assigned
<1>2. /\ i \in DOMAIN assign /\ todo[i] = remaining[i] - 1 /\ remaining[i] > 0
      /\ \A j \in DOMAIN assign : j # i => todo[j] = remaining[j]
      /\ \A j \in DOMAIN assign : Unanswered(j)' = todo[j]
      /\ UNCHANGED <<units, assign>>
  <2>1. i \in ready
    BY AtHand
  <2> QED
    BY <1>1, <2>1, VisitCounts DEF LoopInv, Visited
<1>3. /\ w \in Workers /\ assign[i].count \in Nat /\ assign[i].first \in Nat
      /\ remaining[i] \in 1..assign[i].count
      /\ NextUnit(i) = assign[i].first + assign[i].count - remaining[i]
      /\ batch \in 1..MaxCalls
      /\ \A j \in DOMAIN assign : assign[j].worker = w => j = i
  BY <1>1, <1>2, CurrentUnit
<1>4. /\ n \in Nat /\ DOMAIN records = 1..n /\ DOMAIN records' = DOMAIN records \cup {n + 1}
      /\ \A k \in DOMAIN records : records'[k] = records[k]
      /\ records'[n + 1] = [worker |-> w, unit |-> unit, call |-> batch]
  <2>1. batch > 0
    BY <1>3
  <2> QED
    BY <1>1, <1>2, <2>1, OneMoreRecord
<1>5. /\ \A k \in Mine : \E j \in DOMAIN assign : records[k].worker = assign[j].worker
      /\ \A j \in DOMAIN assign :
            /\ Cardinality(MineFrom(assign[j].worker)) = assign[j].count - remaining[j]
            /\ \A u \in assign[j].first..(assign[j].first + assign[j].count - remaining[j] - 1) :
                  \E k \in MineFrom(assign[j].worker) : Key(records[k].unit) = Key(units[u])
  BY <1>1 DEF AnsweredInv, Unanswered
<1>6. Key(unit) = Key(units[NextUnit(i)])
  BY DEF Filed, Answers
<1> HIDE DEF w, n, todo
<1>7. n + 1 \notin DOMAIN records
  BY <1>4
<1>8. Mine' = Mine \cup {n + 1} /\ Mine \subseteq DOMAIN records
  BY <1>4 DEF Mine
<1>9. ASSUME NEW v PROVE /\ v # w => MineFrom(v)' = MineFrom(v)
                         /\ MineFrom(w) \subseteq Mine
  BY <1>4, <1>7, <1>8 DEF MineFrom
<1>10. {k \in Mine' : records'[k].worker = w} = MineFrom(w) \cup {n + 1}
  BY <1>4, <1>7, <1>8 DEF MineFrom
<1>11. Cardinality(MineFrom(w) \cup {n + 1}) = Cardinality(MineFrom(w)) + 1
  <2>1. IsFiniteSet(MineFrom(w))
    <3>1. 1 \in Int /\ n \in Int
      BY <1>4
    <3>2. IsFiniteSet(1..n)
      BY <3>1, FS_Interval
    <3>3. MineFrom(w) \subseteq 1..n
      BY <1>4, <1>8, <1>9
    <3> QED
      BY <3>2, <3>3, FS_Subset
  <2>2. n + 1 \notin MineFrom(w)
    BY <1>7, <1>8, <1>9
  <2> QED
    BY <2>1, <2>2, FS_AddElement
<1>12. \A k \in Mine' : \E j \in DOMAIN assign : records'[k].worker = assign[j].worker
  BY <1>2, <1>4, <1>5, <1>8 DEF w
<1>13. ASSUME NEW j \in DOMAIN assign
       PROVE  /\ Cardinality({k \in Mine' : records'[k].worker = assign[j].worker})
                    = assign[j].count - todo[j]
              /\ \A u \in assign[j].first..(assign[j].first + assign[j].count - todo[j] - 1) :
                    \E k \in {k \in Mine' : records'[k].worker = assign[j].worker} :
                        Key(records'[k].unit) = Key(units[u])
  <2> DEFINE F(v) == {k \in Mine' : records'[k].worker = v}
  <2>0. /\ Cardinality(MineFrom(assign[j].worker)) = assign[j].count - remaining[j]
        /\ \A u \in assign[j].first..(assign[j].first + assign[j].count - remaining[j] - 1) :
              \E k \in MineFrom(assign[j].worker) : Key(records[k].unit) = Key(units[u])
    BY <1>5
  <2>1. CASE j # i
    <3>1. assign[j].worker # w /\ todo[j] = remaining[j]
      BY <1>2, <1>3, <2>1
    <3>2. F(assign[j].worker) = MineFrom(assign[j].worker)
      BY <1>4, <1>7, <1>8, <3>1 DEF MineFrom
    <3>3. \A k \in MineFrom(assign[j].worker) : records'[k] = records[k]
      BY <1>4, <1>8 DEF MineFrom
    <3> HIDE DEF F
    <3>4. \A u \in assign[j].first..(assign[j].first + assign[j].count - todo[j] - 1) :
              \E k \in F(assign[j].worker) : Key(records'[k].unit) = Key(units[u])
      BY <2>0, <3>1, <3>2, <3>3
    <3> QED
      BY <2>0, <3>1, <3>2, <3>4 DEF F
  <2>2. CASE j = i
    <3>1. assign[j].worker = w /\ todo[j] = remaining[i] - 1
      BY <1>2, <2>2 DEF w
    <3>2. F(w) = MineFrom(w) \cup {n + 1}
      BY <1>10
    <3>3. \A k \in MineFrom(w) : records'[k] = records[k]
      BY <1>4, <1>8 DEF MineFrom
    <3>4. Key(records'[n + 1].unit) = Key(units[NextUnit(i)])
      BY <1>4, <1>6
    <3> HIDE DEF F
    <3>5. Cardinality(F(w)) = assign[j].count - todo[j]
      BY <1>3, <1>11, <2>0, <2>2, <3>1, <3>2
    <3>6. ASSUME NEW u \in assign[j].first..(assign[j].first + assign[j].count - todo[j] - 1)
          PROVE  \E k \in F(w) : Key(records'[k].unit) = Key(units[u])
      <4>1. \/ u \in assign[j].first..(assign[j].first + assign[j].count - remaining[j] - 1)
            \/ u = NextUnit(i)
        BY <1>3, <2>2, <3>1
      <4>2. CASE u = NextUnit(i)
        BY <3>2, <3>4, <4>2
      <4>3. CASE u \in assign[j].first..(assign[j].first + assign[j].count - remaining[j] - 1)
        <5>1. PICK k \in MineFrom(w) : Key(records[k].unit) = Key(units[u])
          BY <2>0, <3>1, <4>3
        <5> QED
          BY <3>2, <3>3, <5>1
      <4> QED
        BY <4>1, <4>2, <4>3
    <3> QED
      BY <3>1, <3>5, <3>6 DEF F
  <2> QED
    BY <2>1, <2>2
<1> QED
  <2>1. \A v : MineFrom(v)' = {k \in Mine' : records'[k].worker = v}
    BY DEF MineFrom
  <2> QED
    BY <1>2, <1>12, <1>13, <2>1 DEF AnsweredInv

\* What the reducer and the channels owe, with one more result.
LEMMA FiledStep ==
  ASSUME DInductive, pc = "recv", NEW i, i = Min(ready), NEW unit \in Spans, IsUnit(unit),
         Filed(i, unit), Visited(i), UNCHANGED <<batch, applied>>,
         NEW w, w = assign[i].worker, w \notin tainted => unit.batch = batch,
         \A v \in Workers \ tainted : owed'[v] \in {0, 1},
         w \notin tainted => owed'[w] = 0,
         \A v \in Workers \ {w} : owed'[v] = owed[v]
  PROVE  ReducerInv' /\ AnswersAreCurrent' /\ OwedInv' /\ AppliedIsCanonical'
<1> DEFINE n == Len(records)
           todo == OneLess(i)
<1>1. /\ CoordinatorTypes /\ LoopInv /\ InCall /\ OwedInv /\ ReducerInv /\ AnswersAreCurrent
      /\ AppliedIsCanonical
  BY DEF DInductive, DTypeOK, InCall
<1>2. /\ i \in DOMAIN assign /\ remaining[i] > 0
      /\ \A j \in DOMAIN assign : j # i => todo[j] = remaining[j]
      /\ InCall' \/ \A j \in DOMAIN assign : todo[j] = 0
      /\ InCall' => remaining' = todo
      /\ pc' \in {"idle", "select", "recv", "resend"}
      /\ UNCHANGED <<units, assign, tainted>>
  <2>1. i \in ready
    BY AtHand
  <2>2. remaining[i] > 0
    BY <1>1, <2>1 DEF LoopInv
  <2> QED
    BY <2>2, VisitCounts DEF Visited
<1>3. w \in Workers /\ batch \in 1..MaxCalls
  BY <1>1, <1>2, CurrentUnit
<1>4. /\ n \in Nat /\ DOMAIN records = 1..n /\ DOMAIN records' = DOMAIN records \cup {n + 1}
      /\ \A k \in DOMAIN records : records'[k] = records[k]
      /\ records'[n + 1] = [worker |-> w, unit |-> unit, call |-> batch]
  <2>1. batch > 0
    BY <1>3
  <2> QED
    BY <1>1, <1>2, <2>1, OneMoreRecord
<1> HIDE DEF n, todo
<1>5. ReducerInv'
  <2>1. \A k \in DOMAIN records : ~Overlap(records[k].unit, unit)
    BY DEF Filed, MayAccept
  <2>2. \A k \in DOMAIN records : ~Overlap(unit, records[k].unit)
    BY <2>1 DEF Overlap
  <2>3. \A a, b \in DOMAIN records : a # b => ~Overlap(records[a].unit, records[b].unit)
    BY <1>1 DEF ReducerInv
  <2>4. ASSUME NEW a \in DOMAIN records', NEW b \in DOMAIN records', a # b
        PROVE  ~Overlap(records'[a].unit, records'[b].unit)
    <3>1. CASE a \in DOMAIN records /\ b \in DOMAIN records
      BY <1>4, <2>3, <2>4, <3>1
    <3>2. CASE a = n + 1
      <4>1. b \in DOMAIN records
        BY <1>4, <2>4, <3>2
      <4>2. records'[a].unit = unit /\ records'[b] = records[b]
        BY <1>4, <3>2, <4>1
      <4> QED
        BY <2>2, <4>1, <4>2
    <3>3. CASE b = n + 1
      <4>1. a \in DOMAIN records
        BY <1>4, <2>4, <3>3
      <4>2. records'[b].unit = unit /\ records'[a] = records[a]
        BY <1>4, <3>3, <4>1
      <4> QED
        BY <2>1, <4>1, <4>2
    <3> QED
      BY <1>4, <3>1, <3>2, <3>3
  <2> QED
    BY <2>4 DEF ReducerInv, Overlap
<1>6. AnswersAreCurrent'
  <2>1. \A k \in DOMAIN records' :
            records'[k].unit.batch = records'[k].call \/ records'[k].worker \in tainted'
    BY <1>1, <1>2, <1>4 DEF AnswersAreCurrent
  <2>2. \A v \in Workers \ tainted' : owed'[v] <= 1
    BY <1>2
  <2> QED
    BY <2>1, <2>2 DEF AnswersAreCurrent
<1>7. OwedInv'
  <2>1. SUFFICES ASSUME NEW v \in Workers, v \notin tainted, owed'[v] # 0
        PROVE  /\ InCall'
               /\ \E j \in DOMAIN assign : assign[j].worker = v /\ remaining'[j] > 0
               /\ ~(pc' = "resend" /\ assign[Sending'].worker = v)
    BY <1>2 DEF OwedInv
  <2>2. v # w /\ owed[v] # 0
    BY <2>1
  <2>3. PICK j \in DOMAIN assign : assign[j].worker = v /\ remaining[j] > 0
    BY <1>1, <2>1, <2>2 DEF OwedInv
  <2>4. j # i /\ todo[j] > 0
    BY <1>2, <2>2, <2>3
  <2>5. InCall' /\ remaining'[j] > 0
    BY <1>2, <2>4
  <2>6. pc' = "resend" => Sending' = i
    BY DEF Visited, Sending
  <2> QED
    BY <2>2, <2>3, <2>5, <2>6
<1>8. AppliedIsCanonical'
  BY <1>1 DEF AppliedIsCanonical
<1> QED
  BY <1>5, <1>6, <1>7, <1>8

\* The loop, with one visit more.
LEMMA VisitedStep ==
  ASSUME DInductive, pc = "recv", NEW i, i = Min(ready), NEW unit \in Spans, IsUnit(unit),
         Filed(i, unit), Visited(i), UNCHANGED <<fleet, registryVars, batch, faults>>,
         owed' \in [Workers -> Int]
  PROVE  CoordinatorTypes' /\ RegistryInv' /\ LoopInv' /\ UnitsAreDealtOnce'
<1> USE DEF registryVars
<1> DEFINE todo == OneLess(i)
<1>1. /\ CoordinatorTypes /\ LoopInv /\ InCall /\ RegistryInv /\ UnitsAreDealtOnce
      /\ UnitSize \in Nat \ {0}
  BY DispatchAssumption DEF DInductive, DTypeOK, InCall
<1>2. /\ i \in DOMAIN assign /\ todo \in [DOMAIN assign -> Nat]
      /\ todo[i] = remaining[i] - 1 /\ remaining[i] \in Nat
      /\ \A j \in DOMAIN assign : j # i => todo[j] = remaining[j]
      /\ Assigned' /\ pc' \in {"idle", "select", "recv", "resend"}
      /\ InCall' => remaining' = todo
  BY VisitCounts
<1>3. UNCHANGED <<units, assign, tainted>>
  BY DEF Visited
<1>4. i \in ready /\ ready # {} /\ ready \subseteq DOMAIN assign
  BY <1>1, AtHand DEF CoordinatorTypes
<1>5. /\ at' \in Nat /\ left' \in 0..UnitSize /\ ready' \subseteq DOMAIN assign
      /\ rc' \in {"none", "ok"}
      /\ remaining' \in [IF InCall' THEN DOMAIN assign ELSE {} -> Nat]
  <2>1. at \in Nat /\ left \in 0..UnitSize /\ rc = "none"
    BY <1>1 DEF CoordinatorTypes, LoopInv
  <2>2. at' \in Nat /\ left' \in 0..UnitSize /\ ready' \subseteq DOMAIN assign /\ rc' \in {"none", "ok"}
    BY <1>1, <1>4, <2>1 DEF Visited
  <2>3. InCall' => remaining' \in [DOMAIN assign -> Nat]
    BY <1>2
  <2>4. ~InCall' => remaining' = <<>>
    BY DEF Visited, InCall
  <2>5. <<>> \in [{} -> Nat]
    OBVIOUS
  <2> QED
    BY <2>2, <2>3, <2>4, <2>5
<1>6. CoordinatorTypes'
  <2>1. records' \in Seq([worker : Workers, unit : {u \in Spans : IsUnit(u)}, call : 1..batch])
    <3>1. batch > 0
      BY <1>1 DEF LoopInv, Assigned
    <3> QED
      BY <1>1, <1>2, <3>1, OneMoreRecord
  <2> QED
    BY <1>1, <1>2, <1>3, <1>5, <2>1 DEF CoordinatorTypes
<1>7. RegistryInv'
  <2>1. Range(registry) \subseteq Range(channels) /\ open = Workers /\ IsInjective(registry)
    BY <1>1 DEF RegistryInv, InCall
  <2> QED
    BY <1>2, <2>1 DEF RegistryInv
<1>8. LoopInv'
  <2>1. /\ InCall' \/ pc' \in {"accept", "reject"} => rc' = "none"
        /\ Assigned' => units' \in Jobs /\ batch' > 0 /\ DOMAIN assign' # {}
        /\ \A j \in DOMAIN assign' : assign'[j].worker = registry'[j]
    <3>1. InCall' => rc' = rc
      BY DEF Visited, InCall
    <3> QED
      BY <1>1, <1>2, <1>3, <3>1 DEF LoopInv, Assigned
  <2>2. InCall' => \A j \in DOMAIN assign' : remaining'[j] <= assign'[j].count
    <3>1. SUFFICES ASSUME InCall', NEW j \in DOMAIN assign PROVE todo[j] <= assign[j].count
      BY <1>2, <1>3
    <3>2. remaining[j] <= assign[j].count /\ assign[j].count \in Nat
      BY <1>1 DEF LoopInv, CoordinatorTypes, Assignments
    <3> QED
      BY <1>2, <3>2
  <2>3. left' > 0 <=> pc' \in {"send", "resend"}
    BY <1>1 DEF Visited
  <2>4. ready' # {} <=> pc' \in {"recv", "resend"}
    BY <1>4 DEF Visited
  <2>5. \A j \in ready' : remaining'[j] > 0
    <3>1. \A j \in ready : remaining[j] > 0
      BY <1>1 DEF LoopInv
    <3>2. \A j \in ready \ {i} : todo[j] > 0
      BY <1>2, <1>4, <3>1
    <3>3. todo[i] > 0 => \A j \in ready : todo[j] > 0
      BY <3>2
    <3> QED
      BY <3>2, <3>3 DEF Visited
  <2> QED
    BY <1>2, <2>1, <2>2, <2>3, <2>4, <2>5 DEF LoopInv
<1>9. UnitsAreDealtOnce'
  BY <1>1, <1>3 DEF UnitsAreDealtOnce, UnitRange, Rate
<1> QED
  BY <1>6, <1>7, <1>8, <1>9

\* Reading a chunk of a result, accepting or refusing it, keeps the invariant.
LEMMA ReceiveStep ==
  ASSUME DInductive, Receive
  PROVE  DInductive'
<1> DEFINE i == Min(ready)
           w == assign[i].worker
           e == Head(up[w])
<1>1. /\ pc = "recv" /\ InCall
      /\ UNCHANGED <<fleet, registryVars, batch, applied, workerVars, down>>
  BY DEF Receive, InCall
<1>2. /\ i \in DOMAIN assign /\ w \in Workers
      /\ up[w] # <<>> => /\ e.unit \in Spans /\ IsUnit(e.unit)
                         /\ w \notin tainted => e.unit.batch = batch
  <2>1. \A j, v : j = Min(ready) /\ v = assign[j].worker =>
           /\ j \in DOMAIN assign /\ v \in Workers
           /\ up[v] # <<>> => /\ Head(up[v]).unit \in Spans /\ IsUnit(Head(up[v]).unit)
                              /\ v \notin tainted => Head(up[v]).unit.batch = batch
    BY <1>1, ResultAtHand
  <2> QED
    BY <2>1
<1> DEFINE Eof == up[w] = <<>> /\ UNCHANGED <<up, owed, records, faults>> /\ Returns("failed")
           Part == /\ up[w] # <<>> /\ up' = [up EXCEPT ![w] = Tail(@)]
                   /\ UNCHANGED <<owed, loopVars, units, assign, records, tainted, faults>>
           Whole == /\ up[w] # <<>> /\ up' = [up EXCEPT ![w] = Tail(@)] /\ e.last
                    /\ owed' = [owed EXCEPT ![w] = @ - 1] /\ Judge(i, e.unit)
<1>3. Eof \/ Part \/ Whole
  BY DEF Receive
<1>4. CASE Eof
  <2>1. faults' \in 0..MaxCrashes
    BY <1>4 DEF DInductive, DTypeOK, CoordinatorTypes
  <2> QED
    BY <1>1, <1>4, <2>1, FailedInPlace DEF WorkersSame, streamVars, resultVars
<1>5. CASE Part
  <2>1. CoordinatorSame
    BY <1>1, <1>5 DEF CoordinatorSame, callVars, resultVars
  <2>2. \A j, v : j = Min(ready) /\ v = assign[j].worker /\ up[v] # <<>>
                  /\ up' = [up EXCEPT ![v] = Tail(@)] => DInductive'
    BY <1>1, <1>5, <2>1, ReadPart
  <2> QED
    BY <1>5, <2>2
<1>6. CASE Whole
  <2>1. pc' # "accept"
    <3>1. Judge(i, e.unit)
      BY <1>6
    <3> HIDE DEF i, e
    <3>2. pc' \in {"idle", "resend", "recv", "select"}
      BY <3>1 DEF Judge, AfterVisit, Returns
    <3> QED
      BY <3>2
  <2>2. /\ ChannelTypes' /\ UnitInv' /\ AnnounceInv'
        /\ owed' \in [Workers -> Int] /\ \A v \in Workers \ tainted : owed'[v] \in {0, 1}
        /\ w \notin tainted => owed'[w] = 0
        /\ \A v \in Workers \ {w} : owed'[v] = owed[v]
        /\ (\A v \in Workers : ~Halfway(v)' /\ (v \notin tainted' => v \notin tainted)) => FlightInv'
    <3> DEFINE Quiet(x) ==
          /\ ChannelTypes' /\ UnitInv' /\ AnnounceInv'
          /\ owed' \in [Workers -> Int] /\ \A v \in Workers \ tainted : owed'[v] \in {0, 1}
          /\ x \notin tainted => owed'[x] = 0
          /\ \A v \in Workers \ {x} : owed'[v] = owed[v]
          /\ (\A v \in Workers : ~Halfway(v)' /\ (v \notin tainted' => v \notin tainted)) => FlightInv'
    <3>1. \A j, x : j = Min(ready) /\ x = assign[j].worker /\ up[x] # <<>>
                    /\ up' = [up EXCEPT ![x] = Tail(@)] /\ Head(up[x]).last
                    /\ owed' = [owed EXCEPT ![x] = @ - 1] => Quiet(x)
      BY <1>1, <2>1, ReadResult
    <3> HIDE DEF Quiet
    <3>2. Quiet(w)
      BY <1>6, <3>1
    <3> QED
      BY <3>2 DEF Quiet
  <2> DEFINE unit == e.unit
  <2>3. unit \in Spans /\ IsUnit(unit) /\ (w \notin tainted => unit.batch = batch)
    BY <1>2, <1>6
  <2>4. Judge(i, unit)
    BY <1>6
  <2> HIDE DEF unit, e
  <2> DEFINE Failed == /\ Returns("failed") /\ UNCHANGED records
                       /\ faults' \in 0..MaxCrashes
             Accepted == /\ Filed(i, unit) /\ Visited(i) /\ UNCHANGED faults
  <2>5. Failed \/ Accepted
    <3>1. faults \in 0..MaxCrashes /\ MaxCrashes \in Nat
      BY DispatchAssumption DEF DInductive, DTypeOK, CoordinatorTypes
    <3> HIDE DEF i
    <3>2. \/ /\ Answers(i, unit) /\ MayAccept(unit)
             /\ records' = Append(records, [worker |-> assign[i].worker, unit |-> unit, call |-> batch])
             /\ IF OneLess(i)[i] > 0
                THEN /\ pc' = "resend" /\ left' = UnitSize /\ remaining' = OneLess(i)
                     /\ UNCHANGED <<at, ready, rc, units, assign, tainted>>
                ELSE AfterVisit(ready \ {i}, OneLess(i))
             /\ UNCHANGED faults
          \/ Returns("failed") /\ UNCHANGED <<records, faults>>
          \/ /\ MayFault("backend") \/ MayFault("memory")
             /\ faults' = faults + 1 /\ Returns("failed") /\ UNCHANGED records
      BY <2>4 DEF Judge, OneLess
    <3>3. (MayFault("backend") \/ MayFault("memory")) /\ faults' = faults + 1
              => faults' \in 0..MaxCrashes
      BY <3>1 DEF MayFault
    <3>4. ASSUME Answers(i, unit) /\ MayAccept(unit),
                 records' = Append(records, [worker |-> assign[i].worker, unit |-> unit, call |-> batch]),
                 IF OneLess(i)[i] > 0
                 THEN /\ pc' = "resend" /\ left' = UnitSize /\ remaining' = OneLess(i)
                      /\ UNCHANGED <<at, ready, rc, units, assign, tainted>>
                 ELSE AfterVisit(ready \ {i}, OneLess(i))
          PROVE  Filed(i, unit) /\ Visited(i)
      BY <3>4, AcceptedIsFiled
    <3> QED
      BY <3>1, <3>2, <3>3, <3>4
  <2>6. CASE Failed
    <3>1. /\ CoordinatorTypes' /\ RegistryInv' /\ LoopInv' /\ UnitsAreDealtOnce' /\ OwedInv'
          /\ AnswersAreCurrent' /\ AnsweredInv' /\ ReducerInv' /\ AppliedIsCanonical'
          /\ pc' = "idle"
          /\ \A v \in Workers : v \notin tainted' => v \notin tainted /\ owed'[v] = 0
      <4>1. UNCHANGED <<fleet, registryVars, batch, resultVars>>
        BY <1>1, <2>6 DEF resultVars
      <4>2. /\ Returns("failed") /\ faults' \in 0..MaxCrashes /\ owed' \in [Workers -> Int]
            /\ \A v \in Workers \ tainted : owed'[v] \in {0, 1}
        BY <2>2, <2>6
      <4> QED
        BY <1>1, <4>1, <4>2, FailKeeps
    <3>2. \A v \in Workers : ~Halfway(v)' /\ (v \notin tainted' => v \notin tainted)
      BY <3>1 DEF Halfway
    <3>3. FlightInv'
      BY <2>2, <3>2
    <3> QED
      BY <2>2, <3>1, <3>3 DEF DInductive, DTypeOK
  <2>7. CASE Accepted
    <3> DEFINE Kept == /\ CoordinatorTypes' /\ RegistryInv' /\ LoopInv' /\ UnitsAreDealtOnce'
                       /\ AnsweredInv' /\ ReducerInv' /\ AnswersAreCurrent' /\ OwedInv'
                       /\ AppliedIsCanonical' /\ \A v \in Workers : ~Halfway(v)'
    <3>1. Filed(i, unit) /\ Visited(i) /\ UNCHANGED faults
      BY <2>7
    <3>2. /\ unit \in Spans /\ IsUnit(unit) /\ (w \notin tainted => unit.batch = batch)
          /\ i = Min(ready) /\ w = assign[i].worker
      BY <2>3
    <3> HIDE DEF i, w, unit
    <3>3. AnsweredInv'
      BY <1>1, <3>1, <3>2, AnsweredStep
    <3>4. ReducerInv' /\ AnswersAreCurrent' /\ OwedInv' /\ AppliedIsCanonical'
      BY <1>1, <2>2, <3>1, <3>2, FiledStep
    <3>5. CoordinatorTypes' /\ RegistryInv' /\ LoopInv' /\ UnitsAreDealtOnce'
      BY <1>1, <2>2, <3>1, <3>2, VisitedStep
    <3>6. \A v \in Workers : ~Halfway(v)'
      BY <1>1, <3>1, <3>2, VisitCounts
    <3>7. tainted' = tainted
      BY <3>1 DEF Visited
    <3>8. FlightInv'
      BY <2>2, <3>6, <3>7
    <3> QED
      BY <2>2, <3>3, <3>4, <3>5, <3>8 DEF DInductive, DTypeOK
  <2> QED
    BY <2>5, <2>6, <2>7
<1> QED
  BY <1>3, <1>4, <1>5, <1>6

-------------------------------------------------------------------------------
\* The order in which the results are applied.

\* The order of the records is strict, and what it does not order is one key.
Orderable(a) ==
    /\ a.unit.state \in Int /\ a.unit.begin \in Int /\ a.unit.end \in Int /\ a.worker \in Int

\* record_before is irreflexive and transitive, also through records it does not
\* order.
LEMMA RecordOrder ==
  ASSUME NEW a, NEW b, NEW c, Orderable(a), Orderable(b), Orderable(c)
  PROVE  /\ ~(RecordBefore(a, b) /\ RecordBefore(b, a))
         /\ RecordBefore(a, b) /\ RecordBefore(b, c) => RecordBefore(a, c)
         /\ RecordBefore(a, b) /\ ~RecordBefore(c, b) => RecordBefore(a, c)
         /\ ~RecordBefore(b, a) /\ RecordBefore(b, c) => RecordBefore(a, c)
         /\ ~RecordBefore(b, a) /\ ~RecordBefore(c, b) => ~RecordBefore(c, a)
BY DEF Orderable, RecordBefore

\* The places the sort gives to records follow their order, and no place is
\* given twice or to none.
LEMMA PlacesAreDistinct ==
  ASSUME NEW recs, NEW n \in Nat, DOMAIN recs = 1..n, \A k \in 1..n : Orderable(recs[k])
  PROVE  /\ \A k \in 1..n : \E x \in 1..n : Place(recs, x) = k
         /\ \A x, y \in 1..n : Place(recs, x) < Place(recs, y) =>
               x # y /\ ~RecordBefore(recs[y], recs[x])
<1> DEFINE C == 1..n
           R == {p \in C \X C : SortsBefore(recs, p[1], p[2])}
<1>1. IsFiniteSet(C) /\ Cardinality(C) = n
  BY FS_Interval
<1>2. \A x, y \in C : <<x, y>> \in R <=> SortsBefore(recs, x, y)
  OBVIOUS
<1>3. ASSUME NEW x \in C PROVE Place(recs, x) = 1 + Rank(R, C, x)
  <2>1. {y \in C : <<y, x>> \in R} = {y \in C : SortsBefore(recs, y, x)}
    BY <1>2
  <2>2. Place(recs, x) = 1 + Cardinality({y \in C : SortsBefore(recs, y, x)})
    BY DEF Place
  <2> QED
    BY <2>1, <2>2 DEF Rank
<1> HIDE DEF R
<1>5. \A x \in C : <<x, x>> \notin R
  <2>1. ASSUME NEW x \in C PROVE ~SortsBefore(recs, x, x)
    BY RecordOrder DEF SortsBefore
  <2> QED
    BY <1>2, <2>1
<1>6. \A x, y, z \in C : <<x, y>> \in R /\ <<y, z>> \in R => <<x, z>> \in R
  <2>1. ASSUME NEW x \in C, NEW y \in C, NEW z \in C,
               SortsBefore(recs, x, y), SortsBefore(recs, y, z)
        PROVE  SortsBefore(recs, x, z)
    <3> DEFINE a == recs[x]
               b == recs[y]
               c == recs[z]
    <3>1. Orderable(a) /\ Orderable(b) /\ Orderable(c)
      OBVIOUS
    <3>2. /\ RecordBefore(a, b) \/ (~RecordBefore(b, a) /\ x < y)
          /\ RecordBefore(b, c) \/ (~RecordBefore(c, b) /\ y < z)
      BY <2>1 DEF SortsBefore
    <3> HIDE DEF a, b, c
    <3>3. /\ RecordBefore(a, b) /\ RecordBefore(b, c) => RecordBefore(a, c)
          /\ RecordBefore(a, b) /\ ~RecordBefore(c, b) => RecordBefore(a, c)
          /\ ~RecordBefore(b, a) /\ RecordBefore(b, c) => RecordBefore(a, c)
          /\ ~RecordBefore(b, a) /\ ~RecordBefore(c, b) => ~RecordBefore(c, a)
      BY <3>1, RecordOrder
    <3>4. x < y /\ y < z => x < z
      OBVIOUS
    <3>5. RecordBefore(a, c) \/ (~RecordBefore(c, a) /\ x < z)
      BY <3>2, <3>3, <3>4, Zenon
    <3> QED
      BY <3>5 DEF SortsBefore, a, c
  <2> QED
    BY <1>2, <2>1
<1>7. \A x, y \in C : x # y => <<x, y>> \in R \/ <<y, x>> \in R
  <2>1. ASSUME NEW x \in C, NEW y \in C, x # y
        PROVE  SortsBefore(recs, x, y) \/ SortsBefore(recs, y, x)
    <3>1. x < y \/ y < x
      BY <2>1
    <3> QED
      BY <3>1 DEF SortsBefore
  <2> QED
    BY <1>2, <2>1
<1> HIDE DEF C
<1>8. /\ \A k \in 0..(Cardinality(C) - 1) : \E x \in C : Rank(R, C, x) = k
      /\ \A x \in C : Rank(R, C, x) \in 0..(Cardinality(C) - 1)
      /\ \A x, y \in C : Rank(R, C, x) < Rank(R, C, y) => x # y /\ <<x, y>> \in R
  <2>1. Orders(R, C)
    BY <1>5, <1>6, <1>7 DEF Orders
  <2> QED
    BY <1>1, <2>1, RanksDiffer, RanksAreTaken
<1>9. ASSUME NEW k \in 1..n PROVE \E x \in 1..n : Place(recs, x) = k
  <2>1. k - 1 \in 0..(Cardinality(C) - 1)
    BY <1>1
  <2>2. PICK x \in C : Rank(R, C, x) = k - 1
    BY <1>8, <2>1
  <2>3. Place(recs, x) = k
    BY <1>3, <2>2
  <2> QED
    BY <2>3 DEF C
<1>10. ASSUME NEW x \in 1..n, NEW y \in 1..n, Place(recs, x) < Place(recs, y)
       PROVE  x # y /\ ~RecordBefore(recs[y], recs[x])
  <2>1. x \in C /\ y \in C
    BY DEF C
  <2>2. Rank(R, C, x) \in Int /\ Rank(R, C, y) \in Int
    BY <1>1, <1>8, <2>1
  <2>3. Rank(R, C, x) < Rank(R, C, y)
    BY <1>3, <1>10, <2>1, <2>2
  <2>4. SortsBefore(recs, x, y) /\ x # y
    BY <1>2, <1>8, <2>1, <2>3
  <2> QED
    BY <2>4, RecordOrder DEF SortsBefore
<1> QED
  BY <1>9, <1>10

\* The sort moves the records, each to a place of its own, into their order.
LEMMA SortedRecords ==
  ASSUME CoordinatorTypes, ReducerInv
  PROVE  LET sorted == Sorted(records)
             n == Len(records)
         IN /\ n \in Nat /\ DOMAIN records = 1..n
            /\ sorted = [k \in 1..n |-> sorted[k]]
            /\ \A k \in 1..n : \E j \in 1..n : sorted[k] = records[j]
            /\ \A k, l \in 1..n : k # l => ~Overlap(sorted[k].unit, sorted[l].unit)
            /\ \A k, l \in 1..n : k < l => ~RecordBefore(sorted[l], sorted[k])
<1> DEFINE sorted == Sorted(records)
           n == Len(records)
<1> DEFINE which(k) == CHOOSE j \in DOMAIN records : Place(records, j) = k
<1>1. n \in Nat /\ DOMAIN records = 1..n
  BY RecordTypes
<1>2. \A k \in 1..n : Orderable(records[k])
  <2>1. \A w \in Workers : w \in Int
    <3>1. Workers = 1..Cardinality(Workers)
      BY DispatchAssumption
    <3>2. \A w \in 1..Cardinality(Workers) : w \in Int
      OBVIOUS
    <3> QED
      BY <3>1, <3>2, Zenon
  <2>2. \A k \in DOMAIN records : records[k].worker \in Workers /\ records[k].unit \in Spans
    BY RecordTypes
  <2>3. \A u \in Spans : u.state \in Nat /\ u.begin \in Nat /\ u.end \in Nat
    BY DEF Spans
  <2>4. ASSUME NEW k \in 1..n PROVE Orderable(records[k])
    <3> DEFINE r == records[k]
    <3>1. r.worker \in Workers /\ r.unit \in Spans
      BY <1>1, <2>2
    <3> HIDE DEF r
    <3>2. r.worker \in Int /\ r.unit.state \in Nat /\ r.unit.begin \in Nat /\ r.unit.end \in Nat
      BY <2>1, <2>3, <3>1
    <3>3. Orderable(r)
      BY <3>2 DEF Orderable
    <3> QED
      BY <3>3 DEF r
  <2> QED
    BY <2>4
<1>3. sorted = [k \in 1..n |-> records[which(k)]]
  BY <1>1 DEF Sorted
<1>4. /\ \A k \in 1..n : \E x \in 1..n : Place(records, x) = k
      /\ \A x, y \in 1..n : Place(records, x) < Place(records, y) =>
            x # y /\ ~RecordBefore(records[y], records[x])
  BY <1>1, <1>2, PlacesAreDistinct
<1>5. \A k \in 1..n : which(k) \in 1..n /\ Place(records, which(k)) = k
  BY <1>1, <1>4
<1> HIDE DEF which, sorted, n
<1>6. \A k \in 1..n : sorted[k] = records[which(k)]
  BY <1>3
<1>7. ASSUME NEW k \in 1..n, NEW l \in 1..n, k # l
      PROVE  ~Overlap(sorted[k].unit, sorted[l].unit)
  <2>1. which(k) # which(l) /\ which(k) \in 1..n /\ which(l) \in 1..n
    BY <1>5, <1>7
  <2>2. ~Overlap(records[which(k)].unit, records[which(l)].unit)
    BY <1>1, <2>1 DEF ReducerInv
  <2> QED
    BY <1>6, <2>2
<1>8. ASSUME NEW k \in 1..n, NEW l \in 1..n, k < l
      PROVE  ~RecordBefore(sorted[l], sorted[k])
  <2>1. ~RecordBefore(records[which(l)], records[which(k)])
    BY <1>4, <1>5, <1>8
  <2> QED
    BY <1>6, <2>1
<1>9. sorted = [k \in 1..n |-> sorted[k]]
  BY <1>3
<1>10. \A k \in 1..n : \E j \in 1..n : sorted[k] = records[j]
  BY <1>5, <1>6
<1> QED
  BY <1>1, <1>7, <1>8, <1>9, <1>10 DEF sorted, n

\* Applying the sorted results, all of them or those before one that cannot be
\* applied, keeps the invariant, and what is applied is in canonical order.
LEMMA ApplyStep ==
  ASSUME DInductive, Apply
  PROVE  DInductive'
<1> DEFINE sorted == Sorted(records)
           n == Len(records)
           R == [worker : Workers, unit : {u \in Spans : IsUnit(u)}, call : 1..batch]
<1>1. /\ pc = "idle" /\ rc = "ok" /\ ~InCall /\ ~InCall' /\ WorkersSame
      /\ rc' \in {"none", "failed"} /\ units' = <<>> /\ assign' = <<>> /\ ~Assigned'
      /\ UNCHANGED <<fleet, registryVars, batch, pc, at, left, ready, remaining,
                     workerVars, streamVars, owed, tainted>>
  BY DEF Apply, InCall, WorkersSame, Assigned
<1> USE DEF registryVars
<1>2. CoordinatorTypes /\ LoopInv /\ RegistryInv /\ ReducerInv /\ AnswersAreCurrent
  BY DEF DInductive, DTypeOK
<1>3. ready = {}
  BY <1>1, <1>2 DEF LoopInv
<1>4. DOMAIN <<>> = {} /\ <<>> \in [{} -> Assignments]
  OBVIOUS
<1>5. faults' \in 0..MaxCrashes
  <2>1. faults \in 0..MaxCrashes /\ MaxCrashes \in Nat
    BY <1>2, DispatchAssumption DEF CoordinatorTypes
  <2> QED
    BY <2>1 DEF Apply, MayFault
<1>6. /\ n \in Nat /\ DOMAIN records = 1..n /\ sorted = [k \in 1..n |-> sorted[k]]
      /\ \A k \in 1..n : \E j \in 1..n : sorted[k] = records[j]
      /\ \A k, l \in 1..n : k # l => ~Overlap(sorted[k].unit, sorted[l].unit)
      /\ \A k, l \in 1..n : k < l => ~RecordBefore(sorted[l], sorted[k])
  BY <1>2, SortedRecords
<1>7. records' \in {<<>>, sorted}
      /\ \E m \in 0..n : applied' = SubSeq(sorted, 1, m)
  <2>1. sorted \in Seq(R)
    <3>1. records \in [1..n -> R]
      <4>1. records \in Seq(R)
        BY <1>2 DEF CoordinatorTypes
      <4> HIDE DEF R
      <4> QED
        BY <1>6, <4>1
    <3> HIDE DEF R, sorted, n
    <3>2. \A k \in 1..n : sorted[k] \in R
      BY <1>6, <3>1
    <3> QED
      BY <1>6, <3>2
  <2>2. Len(sorted) = n
    BY <1>6
  <2> HIDE DEF R, sorted, n
  <2>3. SubSeq(sorted, 1, n) = sorted
    BY <1>6, <2>1, <2>2
  <2>4. CASE applied' = sorted /\ records' = <<>>
    <3>1. n \in 0..n
      BY <1>6
    <3> QED
      BY <2>3, <2>4, <3>1
  <2>5. CASE records' = sorted /\ \E m \in 0..(n - 1) : applied' = SubSeq(sorted, 1, m)
    <3>1. PICK m \in 0..(n - 1) : applied' = SubSeq(sorted, 1, m)
      BY <2>5
    <3>2. m \in 0..n
      BY <1>6
    <3> QED
      BY <2>5, <3>1, <3>2
  <2> QED
    BY <2>4, <2>5 DEF Apply, sorted, n
<1>8. /\ records' \in Seq(R)
      /\ \A k \in DOMAIN records' : \E j \in DOMAIN records : records'[k] = records[j]
      /\ \A k, l \in DOMAIN records' :
            k # l => ~Overlap(records'[k].unit, records'[l].unit)
  <2>1. records \in [1..n -> R]
    <3>1. records \in Seq(R)
      BY <1>2 DEF CoordinatorTypes
    <3> HIDE DEF R
    <3> QED
      BY <1>6, <3>1
  <2> HIDE DEF R, sorted, n
  <2>2. CASE records' = <<>>
    BY <1>4, <2>2
  <2>3. CASE records' = sorted
    <3>1. DOMAIN sorted = 1..n
      BY <1>6
    <3>2. \A k \in 1..n : sorted[k] \in R
      BY <1>6, <2>1
    <3>3. sorted \in Seq(R)
      BY <1>6, <3>2
    <3> QED
      BY <1>6, <2>3, <3>1, <3>3
  <2> QED
    BY <1>7, <2>2, <2>3
<1>9. CoordinatorTypes'
  <2>1. remaining' \in [{} -> Nat]
    BY <1>1, <1>2 DEF CoordinatorTypes
  <2> QED
    BY <1>1, <1>2, <1>3, <1>4, <1>5, <1>8, <2>1 DEF CoordinatorTypes
<1>10. RegistryInv'
  BY <1>1, <1>2 DEF RegistryInv
<1>11. LoopInv'
  BY <1>1, <1>2, <1>3, <1>4 DEF LoopInv
<1>12. UnitsAreDealtOnce' /\ AnsweredInv'
  BY <1>1, <1>4 DEF UnitsAreDealtOnce, AnsweredInv
<1>13. ReducerInv'
  BY <1>8 DEF ReducerInv
<1>14. OwedInv'
  <2>1. \A v \in Workers \ tainted : owed[v] = 0
    BY <1>1, QuietOutsideCalls
  <2> QED
    BY <1>1, <2>1 DEF OwedInv
<1>15. AnswersAreCurrent'
  BY <1>1, <1>2, <1>8 DEF AnswersAreCurrent
<1>16. AppliedIsCanonical'
  <2>1. PICK m \in 0..n : applied' = SubSeq(sorted, 1, m)
    BY <1>7
  <2> HIDE DEF sorted, n
  <2>2. SubSeq(sorted, 1, m) = [k \in 1..m |-> sorted[k]]
    BY <1>6, <2>1
  <2>3. /\ DOMAIN applied' = 1..m /\ \A k \in 1..m : k \in 1..n /\ applied'[k] = sorted[k]
    BY <1>6, <2>1, <2>2
  <2>4. ASSUME NEW k \in 1..m, NEW l \in 1..m, k < l
        PROVE  /\ ~RecordBefore(applied'[l], applied'[k])
               /\ ~Overlap(applied'[k].unit, applied'[l].unit)
    <3>1. k \in 1..n /\ l \in 1..n /\ k # l
      BY <2>3, <2>4
    <3>2. ~RecordBefore(sorted[l], sorted[k]) /\ ~Overlap(sorted[k].unit, sorted[l].unit)
      BY <1>6, <2>4, <3>1
    <3> QED
      BY <2>3, <3>2
  <2> QED
    BY <2>3, <2>4 DEF AppliedIsCanonical, RecordBefore, Overlap
<1>17. ChannelTypes' /\ UnitInv' /\ AnnounceInv'
  <2>1. pc' # "accept" /\ UNCHANGED channels
    BY <1>1
  <2> QED
    BY <1>1, <2>1, WorkersKept
<1>18. FlightInv'
  <2>1. \A v \in Workers : ~Halfway(v)'
    BY <1>1 DEF Halfway
  <2> QED
    BY <1>1, <2>1, WorkersKept
<1> QED
  BY <1>9, <1>10, <1>11, <1>12, <1>13, <1>14, <1>15, <1>16, <1>17, <1>18
     DEF DInductive, DTypeOK

-------------------------------------------------------------------------------
\* The theorems.

\* The invariant holds initially,
LEMMA InitHolds ==
  ASSUME DInit
  PROVE  DInductive
<1> USE DEF DInit
<1>1. /\ DOMAIN <<>> = {} /\ Len(<<>>) = 0 /\ Range(<<>>) = {} /\ IsInjective(<<>>)
      /\ <<>> = [k \in 1..0 |-> k]
  BY DEF Range, IsInjective
<1>2. /\ MaxCalls \in Nat /\ MaxCrashes \in Nat /\ UnitSize \in Nat /\ ResultSize \in Nat
      /\ SocketSize \in Nat /\ 1 \in Workers
  BY DispatchAssumption
<1>3. ~InCall /\ ~Assigned
  BY DEF InCall, Assigned
<1>4. CoordinatorTypes
  <2>1. /\ <<>> \in Seq(Workers) /\ <<>> \in [{} -> Assignments] /\ <<>> \in [{} -> Nat]
        /\ <<>> \in Seq([worker : Workers, unit : {u \in Spans : IsUnit(u)}, call : 1..batch])
    OBVIOUS
  <2>2. owed \in [Workers -> Int]
    OBVIOUS
  <2> QED
    BY <1>1, <1>2, <1>3, <2>1, <2>2 DEF CoordinatorTypes
<1>5. ASSUME NEW w \in Workers
      PROVE  Bounded(w) /\ Announced(w) /\ HoldsUnits(w) /\ Flight(w)
  <2>1. /\ down[w] = <<>> /\ up[w] = <<>> /\ wpc[w] = "away" /\ served[w] = 0 /\ owed[w] = 0
        /\ ~Busy(w) /\ ~Halfway(w)
    BY DEF Busy, Halfway
  <2>2. ~ServesForever(w) => fleet[w].quota \in Nat
    BY DispatchAssumption DEF ServesForever
  <2>3. Bounded(w)
    BY <1>1, <1>2, <2>1, <2>2 DEF Bounded
  <2>4. Announced(w) /\ HoldsUnits(w)
    BY <1>1, <2>1 DEF Announced, HoldsUnits
  <2>5. Flight(w)
    BY <1>1, <2>1, EmptyStream DEF Flight, Traffic
  <2> QED
    BY <2>3, <2>4, <2>5
<1>6. ChannelTypes
  <2>1. /\ <<>> \in Seq(Frames({"UNIT", "SHUTDOWN"}))
        /\ <<>> \in Seq(Frames({"CAPABILITIES", "RESULT"})) /\ NoUnit \in Spans
    BY DEF NoUnit, Spans
  <2> QED
    BY <1>2, <1>5, <2>1 DEF ChannelTypes
<1>7. RegistryInv
  BY <1>1, <1>2 DEF RegistryInv
<1>8. LoopInv
  BY <1>1, <1>3 DEF LoopInv
<1>9. UnitsAreDealtOnce /\ AnsweredInv /\ ReducerInv /\ AppliedIsCanonical /\ OwedInv
  BY <1>1, <1>3 DEF UnitsAreDealtOnce, AnsweredInv, ReducerInv, AppliedIsCanonical, OwedInv
<1>10. AnswersAreCurrent
  BY <1>1 DEF AnswersAreCurrent
<1>11. AnnounceInv /\ UnitInv /\ FlightInv
  BY <1>5 DEF AnnounceInv, UnitInv, FlightInv
<1> QED
  BY <1>4, <1>6, <1>7, <1>8, <1>9, <1>10, <1>11 DEF DInductive, DTypeOK

\* ... is kept when nothing changes,
LEMMA StutterKeeps ==
  ASSUME DInductive, UNCHANGED dvars
  PROVE  DInductive'
<1>1. CoordinatorSame /\ WorkersSame /\ UNCHANGED <<faults, channels, pc, at, left, ready, assign>>
  BY DEF dvars, CoordinatorSame, WorkersSame, ghostVars, callVars, loopVars, registryVars
<1>2. faults' \in 0..MaxCrashes
  BY <1>1 DEF DInductive, DTypeOK, CoordinatorTypes
<1>3. ChannelTypes' /\ UnitInv'
  BY <1>1, WorkersKept
<1>4. AnnounceInv'
  BY <1>1 DEF DInductive, AnnounceInv, Announced, WorkersSame, workerVars, streamVars
<1>5. FlightInv'
  <2>1. \A v \in Workers : Halfway(v)' => Halfway(v)
    BY <1>1 DEF Halfway, Sending
  <2> QED
    BY <1>1, <2>1, WorkersKept DEF CoordinatorSame, callVars
<1> QED
  BY <1>1, <1>2, <1>3, <1>4, <1>5, WorkersMove

\* ... and by every step.
LEMMA NextKeeps ==
  ASSUME DInductive, [DNext]_dvars
  PROVE  DInductive'
<1>1. ASSUME NEW w \in Workers, AcceptWorker(w) PROVE DInductive'
  BY <1>1, AcceptWorkerStep
<1>2. ASSUME NEW w \in Workers, RejectBatch(w) PROVE DInductive'
  BY <1>2, RejectBatchStep
<1>3. CASE UndoAccepted
  BY <1>3, UndoAcceptedStep
<1>4. CASE SendUnit
  BY <1>4, SendUnitStep
<1>5. CASE Select
  BY <1>5, SelectStep
<1>6. CASE Receive
  BY <1>6, ReceiveStep
<1>7. CASE SendShutdown
  BY <1>7, SendShutdownStep
<1>8. ASSUME NEW job \in Jobs, StartCall(job) PROVE DInductive'
  BY <1>8, StartCallStep
<1>9. CASE Apply
  BY <1>9, ApplyStep
<1>10. CASE DropResults
  BY <1>10, DropResultsStep
<1>11. CASE Shutdown
  BY <1>11, ShutdownStep
<1>12. ASSUME NEW w \in Workers, Unregister(w) PROVE DInductive'
  BY <1>12, UnregisterStep
<1>13. ASSUME NEW w \in Workers, WorkerStep(w) PROVE DInductive'
  BY <1>13, AnnounceStep, LeaveServeStep, WorkerReceiveStep, ExecuteStep, WorkerSendStep
     DEF WorkerStep
<1>14. ASSUME NEW w \in Workers, Crash(w) PROVE DInductive'
  BY <1>14, CrashStep
<1>15. CASE UNCHANGED dvars
  BY <1>15, StutterKeeps
<1> QED
  BY <1>1, <1>2, <1>3, <1>4, <1>5, <1>6, <1>7, <1>8, <1>9, <1>10, <1>11, <1>12, <1>13,
     <1>14, <1>15 DEF DNext, CoordinatorStep, CallerStep

\* Types, the socket's bounds and the quotas hold, at most one unit of the
\* current call is on its way on every channel that no failed call left an
\* answer owed on, and what is no longer remaining has been filed once.
THEOREM DispatchInvariant == DSpec => []DInductive
<1>1. DInit => DInductive
  BY InitHolds
<1>2. DInductive /\ [DNext]_dvars => DInductive'
  BY NextKeeps
<1> QED
  BY <1>1, <1>2, PTL DEF DSpec

\* Every unit of a job is dealt to exactly one worker that has a backend.
THEOREM DealtOnce == DSpec => []UnitsAreDealtOnce
<1>1. DInductive => UnitsAreDealtOnce
  BY DEF DInductive
<1> QED
  BY <1>1, DispatchInvariant, PTL

\* A call that returns its count has filed one record for every unit of the job.
THEOREM OkIsAnswered == DSpec => []OkMeansAnswered
<1>1. ASSUME DInductive PROVE OkMeansAnswered
  <2>1. SUFFICES ASSUME rc = "ok"
        PROVE  /\ \A k \in Mine : \E i \in DOMAIN assign : records[k].worker = assign[i].worker
               /\ \A i \in DOMAIN assign :
                     /\ Cardinality(MineFrom(assign[i].worker)) = assign[i].count
                     /\ \A u \in UnitRange(assign[i]) :
                           \E k \in MineFrom(assign[i].worker) :
                               Key(records[k].unit) = Key(units[u])
    BY DEF OkMeansAnswered
  <2>2. Assigned /\ ~InCall
    BY <1>1, <2>1 DEF DInductive, LoopInv, Assigned
  <2>3. \A i \in DOMAIN assign : Unanswered(i) = 0
    BY <2>2 DEF Unanswered
  <2>4. AnsweredInv /\ CoordinatorTypes
    BY <1>1 DEF DInductive, DTypeOK
  <2>5. \A k \in Mine : \E i \in DOMAIN assign : records[k].worker = assign[i].worker
    BY <2>2, <2>4 DEF AnsweredInv
  <2>6. ASSUME NEW i \in DOMAIN assign
        PROVE  /\ Cardinality(MineFrom(assign[i].worker)) = assign[i].count
               /\ \A u \in UnitRange(assign[i]) :
                     \E k \in MineFrom(assign[i].worker) : Key(records[k].unit) = Key(units[u])
    <3>1. assign[i].count \in Nat /\ assign[i].first \in Nat
      BY <2>4 DEF CoordinatorTypes, Assignments
    <3>2. /\ Cardinality(MineFrom(assign[i].worker)) = assign[i].count - 0
          /\ \A u \in assign[i].first..(assign[i].first + assign[i].count - 0 - 1) :
                \E k \in MineFrom(assign[i].worker) : Key(records[k].unit) = Key(units[u])
      BY <2>2, <2>3, <2>4 DEF AnsweredInv
    <3>3. /\ assign[i].count - 0 = assign[i].count
          /\ assign[i].first + assign[i].count - 0 - 1 = assign[i].first + assign[i].count - 1
      BY <3>1
    <3> QED
      BY <3>2, <3>3 DEF UnitRange
  <2> QED
    BY <2>5, <2>6
<1> QED
  BY <1>1, DispatchInvariant, PTL

\* What a call files was computed for it, and at most one unit is unanswered,
\* except on a channel that a failed call left an answer owed on.
THEOREM AnswersStayCurrent == DSpec => []AnswersAreCurrent
<1>1. DInductive => AnswersAreCurrent
  BY DEF DInductive
<1> QED
  BY <1>1, DispatchInvariant, PTL

\* What is applied to the destination is in canonical order and has no iteration
\* of a public state twice.
THEOREM AppliedInOrder == DSpec => []AppliedIsCanonical
<1>1. DInductive => AppliedIsCanonical
  BY DEF DInductive
<1> QED
  BY <1>1, DispatchInvariant, PTL

\* A registered worker has an open channel of its own.
THEOREM RegisteredStaysConnected == DSpec => []RegisteredIsConnected
<1>1. ASSUME DInductive PROVE RegisteredIsConnected
  <2>1. RegistryInv /\ CoordinatorTypes
    BY <1>1 DEF DInductive, DTypeOK
  <2>2. SUFFICES ASSUME pc # "closed" \/ channels = <<>>
        PROVE  Range(registry) \subseteq Range(channels) \cap open /\ IsInjective(registry)
    BY DEF RegisteredIsConnected
  <2>3. CASE pc = "accept"
    <3>1. Range(channels) \subseteq Workers
      BY <2>1 DEF CoordinatorTypes, Range
    <3> QED
      BY <2>1, <2>3, <3>1 DEF RegistryInv
  <2>4. CASE pc = "reject"
    <3>1. {channels[k] : k \in at..Len(channels)} \subseteq Range(channels)
      <4>1. at \in Nat /\ at >= 1 /\ DOMAIN channels = 1..Len(channels) /\ Len(channels) \in Nat
        BY <2>1, <2>4 DEF RegistryInv, CoordinatorTypes
      <4>2. \A k \in at..Len(channels) : k \in DOMAIN channels
        BY <4>1
      <4> QED
        BY <4>2 DEF Range
    <3> QED
      BY <2>1, <2>4, <3>1 DEF RegistryInv
  <2>5. CASE pc = "closed"
    <3>1. registry = <<>> /\ IsInjective(registry)
      BY <2>1, <2>2, <2>5 DEF RegistryInv
    <3> QED
      BY <3>1 DEF Range
  <2>6. CASE pc \notin {"accept", "reject", "closed"}
    <3>1. Range(channels) \subseteq Workers
      BY <2>1 DEF CoordinatorTypes, Range
    <3> QED
      BY <2>1, <2>6, <3>1 DEF RegistryInv
  <2> QED
    BY <2>3, <2>4, <2>5, <2>6
<1> QED
  BY <1>1, DispatchInvariant, PTL
===============================================================================
