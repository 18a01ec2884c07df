----------------------- MODULE OperationalSamplesProofs -----------------------
(***************************************************************************)
(* Proofs about OperationalSamples and the handoff of OperationalBatches,  *)
(* for any attempts, requests, targets, latencies, capacity and clock:     *)
(* what a window the store agrees to read holds and what it may lack, and  *)
(* that evidence stays true on every path it can take.                     *)
(***************************************************************************)
EXTENDS OperationalBatches, FiniteSetTheorems, WellFoundedInduction, TLAPS

(***************************************************************************)
(* Order statistics.  The samples of a finite group can be put in order of *)
(* latency, and the nearest rank of that order is the percentile by        *)
(* definition.  Induction over the subsets of the group is stated with the *)
(* set of those that are good.                                             *)
(***************************************************************************)
\* A set of subsets that holds the empty set, and each set with whose every
\* element removed it still holds what remains, holds them all.
LEMMA SubsetInduction ==
  ASSUME NEW S, IsFiniteSet(S), NEW Good \in SUBSET (SUBSET S), {} \in Good,
         \A U \in SUBSET S : U # {} /\ (\A x \in U : U \ {x} \in Good) => U \in Good
  PROVE  S \in Good
  <1>1. IsWellFoundedOn(StrictSubsetOrdering(S), SUBSET S)
    <2>1. FiniteSubsetsOf(S) = SUBSET S
      BY FS_FiniteSubsetsOfFinite
    <2>2. IsWellFoundedOn(StrictSubsetOrdering(S), FiniteSubsetsOf(S))
      BY FS_StrictSubsetOrderingWellFounded
    <2> QED BY <2>1, <2>2
  <1> DEFINE Bad == (SUBSET S) \ Good
  <1> SUFFICES ASSUME Bad # {} PROVE FALSE
    OBVIOUS
  <1>2. Bad \in SUBSET (SUBSET S)
    OBVIOUS
  <1>3. PICK U \in Bad : \A V \in Bad : ~(<<V, U>> \in StrictSubsetOrdering(S))
    <2> HIDE DEF Bad
    <2> QED BY <1>1, <1>2, WFMin
  <1>4. U \in SUBSET S /\ U # {}
    OBVIOUS
  <1>5. ASSUME NEW x \in U PROVE U \ {x} \in Good
    <2>1. U \ {x} \in SUBSET S /\ U \ {x} # U
      OBVIOUS
    <2>2. <<U \ {x}, U>> \in StrictSubsetOrdering(S)
      BY <1>4, <2>1 DEF StrictSubsetOrdering
    <2> QED BY <1>3, <2>1, <2>2, Zenon
  <1> QED BY <1>4, <1>5

\* The latency of a sample.
LatencyOf(x) == Latency[x.attempt]

LEMMA LatencyOfType ==
  ASSUME NEW x \in Samples PROVE LatencyOf(x) \in Nat
  BY SamplesAssumption DEF Samples, LatencyOf

\* A finite group that is not empty has a slowest sample.
LEMMA SlowestExists ==
  ASSUME NEW S \in SUBSET Samples, IsFiniteSet(S), S # {}
  PROVE  \E m \in S : \A x \in S : LatencyOf(x) <= LatencyOf(m)
  <1> DEFINE Good == {U \in SUBSET S : U = {} \/ \E m \in U : \A x \in U : LatencyOf(x) <= LatencyOf(m)}
  <1>1. {} \in Good /\ Good \in SUBSET (SUBSET S)
    OBVIOUS
  <1>2. ASSUME NEW U \in SUBSET S, U # {}, \A x \in U : U \ {x} \in Good
        PROVE  U \in Good
    <2>1. \A x \in U : LatencyOf(x) \in Nat
      BY LatencyOfType
    <2>2. PICK a \in U : TRUE
      BY <1>2
    <2>3. CASE U \ {a} = {}
      <3>1. \A x \in U : LatencyOf(x) <= LatencyOf(a)
        BY <2>1, <2>3
      <3> QED BY <3>1
    <2>4. CASE U \ {a} # {}
      <3>1. PICK m \in U \ {a} : \A x \in U \ {a} : LatencyOf(x) <= LatencyOf(m)
        BY <1>2, <2>4
      <3>2. \E n \in {a, m} : \A x \in U : LatencyOf(x) <= LatencyOf(n)
        BY <2>1, <3>1
      <3> QED BY <3>1, <3>2
    <2> QED BY <2>3, <2>4
  <1>3. S \in Good
    <2> HIDE DEF Good
    <2> QED BY <1>1, <1>2, SubsetInduction, Zenon
  <1> QED BY <1>3

\* The orders of a group that never decrease: those sorted may return.
Orders(group) ==
  {order \in Bijection(1..Cardinality(group), group) :
     \A i, j \in 1..Cardinality(group) : i <= j => LatencyOf(order[i]) <= LatencyOf(order[j])}

\* Every finite group has one.
LEMMA OrdersExist ==
  ASSUME NEW S \in SUBSET Samples, IsFiniteSet(S)
  PROVE  Orders(S) # {}
  <1> DEFINE Good == {U \in SUBSET S : Orders(U) # {}}
  <1>1. {} \in Good
    <2> DEFINE o == [i \in 1..0 |-> 0]
    <2>1. Cardinality({}) = 0 /\ 1..0 = {}
      BY FS_EmptySet
    <2>2. o \in Orders({})
      BY <2>1 DEF Orders, Bijection, Injection, Surjection, IsInjective
    <2> QED BY <2>2
  <1>2. ASSUME NEW U \in SUBSET S, U # {}, \A x \in U : U \ {x} \in Good
        PROVE  U \in Good
    <2>1. IsFiniteSet(U) /\ U \in SUBSET Samples
      BY FS_Subset
    <2>2. PICK m \in U : \A x \in U : LatencyOf(x) <= LatencyOf(m)
      BY <1>2, <2>1, SlowestExists
    <2>3. PICK o \in Orders(U \ {m}) : TRUE
      BY <1>2
    <2>4. PICK n \in Nat : /\ n = Cardinality(U \ {m})
                           /\ Cardinality(U) = n + 1
      <3>1. IsFiniteSet(U \ {m}) /\ Cardinality(U \ {m}) = Cardinality(U) - 1
        BY <2>1, FS_RemoveElement
      <3>2. Cardinality(U \ {m}) \in Nat /\ Cardinality(U) \in Nat
        BY <2>1, <3>1, FS_CardinalityType
      <3> QED BY <3>1, <3>2
    <2>5. /\ o \in [1..n -> U \ {m}]
          /\ \A i, j \in 1..n : o[i] = o[j] => i = j
          /\ \A x \in U \ {m} : \E i \in 1..n : o[i] = x
          /\ \A i, j \in 1..n : i <= j => LatencyOf(o[i]) <= LatencyOf(o[j])
      BY <2>3, <2>4, Zenon DEF Orders, Bijection, Injection, Surjection, IsInjective
    <2> DEFINE q == [i \in 1..(n + 1) |-> IF i = n + 1 THEN m ELSE o[i]]
    <2>6. \A i \in 1..(n + 1) : i = n + 1 \/ i \in 1..n
      BY <2>4
    <2>7. q[n + 1] = m /\ \A i \in 1..n : q[i] = o[i] /\ i \in 1..(n + 1)
      <3>1. n + 1 \in 1..(n + 1) /\ \A i \in 1..n : i \in 1..(n + 1) /\ i # n + 1
        BY <2>4
      <3> QED BY <3>1
    <2>8. q \in [1..(n + 1) -> U]
      BY <2>2, <2>5, <2>6
    <2> HIDE DEF q
    <2>9. \A i, j \in 1..(n + 1) : q[i] = q[j] => i = j
      BY <2>5, <2>6, <2>7
    <2>10. \A x \in U : \E i \in 1..(n + 1) : q[i] = x
      <3> TAKE x \in U
      <3>1. CASE x = m
        BY <2>4, <2>7, <3>1
      <3>2. CASE x # m
        BY <2>5, <2>7, <3>2
      <3> QED BY <3>1, <3>2
    <2>11. ASSUME NEW i \in 1..(n + 1), NEW j \in 1..(n + 1), i <= j
           PROVE  LatencyOf(q[i]) <= LatencyOf(q[j])
      <3>1. CASE j = n + 1
        BY <2>2, <2>7, <2>8, <3>1
      <3>2. CASE j \in 1..n
        <4>1. i \in 1..n
          BY <2>4, <2>11, <3>2
        <4> QED BY <2>5, <2>7, <2>11, <3>2, <4>1
      <3> QED BY <2>6, <3>1, <3>2
    <2>12. q \in Orders(U)
      BY <2>4, <2>8, <2>9, <2>10, <2>11, Zenon DEF Orders, Bijection, Injection, Surjection, IsInjective
    <2> QED BY <2>12
  <1>3. S \in Good
    <2> HIDE DEF Good
    <2>1. Good \in SUBSET (SUBSET S)
      BY DEF Good
    <2> QED BY <1>1, <1>2, <2>1, SubsetInduction, Zenon
  <1> QED BY <1>3

\* The order ByLatency chooses is one of them.
LEMMA ByLatencyOrders ==
  ASSUME NEW S \in SUBSET Samples, IsFiniteSet(S)
  PROVE  LET n == Cardinality(S)
             o == ByLatency(S)
         IN  /\ n \in Nat /\ o \in [1..n -> S]
             /\ \A i, j \in 1..n : o[i] = o[j] => i = j
             /\ \A x \in S : \E i \in 1..n : o[i] = x
             /\ \A i, j \in 1..n : i <= j => LatencyOf(o[i]) <= LatencyOf(o[j])
  <1>1. ByLatency(S) = CHOOSE o \in Bijection(1..Cardinality(S), S) :
                         \A i, j \in 1..Cardinality(S) : i <= j => LatencyOf(o[i]) <= LatencyOf(o[j])
    BY Zenon DEF ByLatency, LatencyOf
  <1>2. ByLatency(S) \in Orders(S)
    BY <1>1, OrdersExist, Zenon DEF Orders
  <1>3. Cardinality(S) \in Nat
    BY FS_CardinalityType
  <1> QED BY <1>2, <1>3 DEF Orders, Bijection, Injection, Surjection, IsInjective

\* What a function makes of a finite set is finite and no larger, and as large
\* when it tells the elements apart.
LEMMA ImageCount ==
  ASSUME NEW S, IsFiniteSet(S), NEW f
  PROVE  LET T == {f[x] : x \in S}
         IN  /\ IsFiniteSet(T) /\ Cardinality(T) \in Nat /\ Cardinality(S) \in Nat
             /\ Cardinality(T) <= Cardinality(S)
             /\ (\A x, y \in S : f[x] = f[y] => x = y) => Cardinality(T) = Cardinality(S)
  <1> DEFINE T == {f[x] : x \in S}
             g == [x \in S |-> f[x]]
  <1>1. g \in Surjection(S, T)
    BY DEF Surjection
  <1>2. (\A x, y \in S : f[x] = f[y] => x = y) => g \in Injection(S, T)
    BY DEF Injection, IsInjective
  <1> HIDE DEF T, g
  <1>3. /\ IsFiniteSet(T) /\ Cardinality(T) <= Cardinality(S)
        /\ Cardinality(T) = Cardinality(S) <=> g \in Injection(S, T)
    BY <1>1, FS_Surjection
  <1>4. Cardinality(T) \in Nat /\ Cardinality(S) \in Nat
    BY <1>3, FS_CardinalityType
  <1> QED BY <1>2, <1>3, <1>4 DEF T

\* The samples of a group at or below a latency.
AtMost(S, v) == {x \in S : LatencyOf(x) <= v}

\* v is a p-th percentile of the samples of a group: the least latency that p
\* per cent of them do not exceed.
IsPercentile(S, p, v) ==
  /\ v \in {LatencyOf(x) : x \in S}
  /\ 100 * Cardinality(AtMost(S, v)) >= p * Cardinality(S)
  /\ \A w \in {LatencyOf(x) : x \in S} :
       100 * Cardinality(AtMost(S, w)) >= p * Cardinality(S) => v <= w

\* The k-th latency in order has at least k samples at or below it, and every
\* latency of the group below it has fewer.
LEMMA KthLatency ==
  ASSUME NEW S \in SUBSET Samples, IsFiniteSet(S), NEW k \in 1..Cardinality(S)
  PROVE  LET v == Latencies(S)[k]
         IN  /\ v \in {LatencyOf(x) : x \in S} /\ v \in Nat
             /\ Cardinality(AtMost(S, v)) >= k
             /\ \A w \in {LatencyOf(x) : x \in S} : w < v => Cardinality(AtMost(S, w)) < k
  <1> DEFINE n == Cardinality(S)
             o == ByLatency(S)
             v == Latencies(S)[k]
  <1>1. /\ n \in Nat /\ o \in [1..n -> S]
        /\ \A i, j \in 1..n : o[i] = o[j] => i = j
        /\ \A x \in S : \E i \in 1..n : o[i] = x
        /\ \A i, j \in 1..n : i <= j => LatencyOf(o[i]) <= LatencyOf(o[j])
    BY ByLatencyOrders
  <1>2. v = LatencyOf(o[k])
    BY DEF Latencies, LatencyOf
  <1>3. \A x \in S : LatencyOf(x) \in Nat
    BY LatencyOfType
  <1> HIDE DEF n, o, v
  <1>4. k \in Nat /\ k \in 1..n /\ 1 <= k /\ \A i \in 1..k : i \in 1..n
    BY <1>1 DEF n
  <1>5. v \in {LatencyOf(x) : x \in S} /\ v \in Nat
    BY <1>1, <1>2, <1>3, <1>4
  <1>6. \A w : IsFiniteSet(AtMost(S, w)) /\ Cardinality(AtMost(S, w)) \in Nat
    BY FS_Subset, FS_CardinalityType DEF AtMost
  <1>7. Cardinality(AtMost(S, v)) >= k
    <2> DEFINE f == [i \in 1..k |-> o[i]]
    <2>1. \A i \in 1..k : o[i] \in AtMost(S, v)
      BY <1>1, <1>2, <1>4 DEF AtMost
    <2>2. f \in Injection(1..k, AtMost(S, v))
      BY <1>1, <1>4, <2>1 DEF Injection, IsInjective
    <2>3. Cardinality(1..k) <= Cardinality(AtMost(S, v))
      BY <1>6, <2>2, FS_Injection
    <2>4. Cardinality(1..k) = k
      BY <1>4, FS_Interval
    <2> QED BY <1>4, <1>6, <2>3, <2>4
  <1>8. ASSUME NEW w \in {LatencyOf(x) : x \in S}, w < v
        PROVE  Cardinality(AtMost(S, w)) < k
    <2> DEFINE Low == {i \in 1..(k - 1) : o[i] \in AtMost(S, w)}
               f == [i \in Low |-> o[i]]
    <2>1. \A x \in AtMost(S, w) : \E i \in Low : o[i] = x
      <3> TAKE x \in AtMost(S, w)
      <3>1. PICK i \in 1..n : o[i] = x
        BY <1>1 DEF AtMost
      <3>2. LatencyOf(x) <= w /\ w \in Nat /\ LatencyOf(x) \in Nat
        BY <1>3 DEF AtMost
      <3>3. ~(k <= i)
        BY <1>1, <1>2, <1>4, <1>5, <1>8, <3>1, <3>2
      <3>4. i \in 1..(k - 1)
        BY <1>4, <3>3
      <3> QED BY <3>1, <3>4
    <2>2. f \in Surjection(Low, AtMost(S, w))
      BY <2>1 DEF Surjection
    <2>3. /\ IsFiniteSet(1..(k - 1)) /\ Cardinality(1..(k - 1)) = k - 1
      BY <1>4, FS_Interval
    <2>4. Low \in SUBSET (1..(k - 1))
      OBVIOUS
    <2> HIDE DEF Low, f
    <2>5. IsFiniteSet(Low) /\ Cardinality(Low) <= k - 1
      <3>1. PICK R : R = 1..(k - 1)
        OBVIOUS
      <3>2. IsFiniteSet(R) /\ Cardinality(R) = k - 1 /\ Low \in SUBSET R
        BY <2>3, <2>4, <3>1
      <3>3. IsFiniteSet(Low) /\ Cardinality(Low) <= Cardinality(R)
        BY <3>2, FS_Subset
      <3> QED BY <3>2, <3>3
    <2>6. Cardinality(AtMost(S, w)) <= Cardinality(Low) /\ Cardinality(Low) \in Nat
      BY <2>2, <2>5, FS_Surjection, FS_CardinalityType
    <2> QED BY <1>4, <1>6, <2>5, <2>6
  <1> QED BY <1>5, <1>7, <1>8 DEF v

\* A percentile's rank is a rank of the group, and the larger of two is no
\* lower.
LEMMA Ranks ==
  ASSUME NEW n \in Nat \ {0}
  PROVE  /\ (50 * n + 99) \div 100 \in 1..n /\ (95 * n + 99) \div 100 \in 1..n
         /\ (50 * n + 99) \div 100 <= (95 * n + 99) \div 100
  OBVIOUS

\* _nearest_rank of the sorted latencies is the percentile by definition.
LEMMA NearestRankIsPercentile ==
  ASSUME NEW S \in SUBSET Samples, IsFiniteSet(S), S # {}, NEW p \in {50, 95}
  PROVE  LET v == NearestRank(Latencies(S), p)
         IN  v \in Nat /\ IsPercentile(S, p, v)
  <1> DEFINE n == Cardinality(S)
             k == (p * n + 99) \div 100
             v == Latencies(S)[k]
  <1>1. n \in Nat \ {0}
    BY FS_CardinalityType, FS_EmptySet
  <1>2. NearestRank(Latencies(S), p) = v
    <2>1. Latencies(S) \in Seq({LatencyOf(x) : x \in S}) /\ Len(Latencies(S)) = n
      <3>1. \A i \in 1..n : Latency[ByLatency(S)[i].attempt] \in {LatencyOf(x) : x \in S}
        BY ByLatencyOrders DEF LatencyOf
      <3> QED BY <1>1, <3>1 DEF Latencies
    <2> QED BY <2>1 DEF NearestRank
  <1>3. k \in 1..n
    BY <1>1, Ranks
  <1>4. /\ v \in {LatencyOf(x) : x \in S} /\ v \in Nat
        /\ Cardinality(AtMost(S, v)) >= k
        /\ \A w \in {LatencyOf(x) : x \in S} : w < v => Cardinality(AtMost(S, w)) < k
    BY <1>3, KthLatency
  <1>5. \A w : Cardinality(AtMost(S, w)) \in Nat
    BY FS_Subset, FS_CardinalityType DEF AtMost
  <1>6. \A x \in S : LatencyOf(x) \in Nat
    BY LatencyOfType
  <1>7. \A c \in Nat : 100 * c >= p * n <=> c >= k
    BY <1>1
  <1> HIDE DEF k, v, n
  <1>8. k \in Nat
    BY <1>1, <1>3
  <1>9. 100 * Cardinality(AtMost(S, v)) >= p * n
    BY <1>4, <1>5, <1>7
  <1>10. \A w \in {LatencyOf(x) : x \in S} :
           100 * Cardinality(AtMost(S, w)) >= p * n => v <= w
    <2> TAKE w \in {LatencyOf(x) : x \in S}
    <2>1. w \in Nat
      BY <1>6
    <2>2. ~(w < v) => v <= w
      BY <1>4, <2>1
    <2> QED BY <1>4, <1>5, <1>7, <1>8, <2>2
  <1> QED BY <1>2, <1>4, <1>9, <1>10 DEF IsPercentile, n

-----------------------------------------------------------------------------
(* What is made of a group of samples.                                     *)

\* Two parts of a finite set without a common element are together no larger
\* than it.
LEMMA TwoParts ==
  ASSUME NEW S, IsFiniteSet(S), NEW A \in SUBSET S, NEW B \in SUBSET S, A \cap B = {}
  PROVE  /\ Cardinality(A) \in Nat /\ Cardinality(B) \in Nat /\ Cardinality(S) \in Nat
         /\ Cardinality(B) <= Cardinality(S) - Cardinality(A)
  <1>1. IsFiniteSet(A) /\ IsFiniteSet(B) /\ A \cup B \in SUBSET S
    BY FS_Subset
  <1>2. Cardinality(A \cup B) = Cardinality(A) + Cardinality(B) - Cardinality(A \cap B)
    BY <1>1, FS_Union
  <1>3. Cardinality(A \cup B) <= Cardinality(S) /\ IsFiniteSet(A \cup B)
    BY <1>1, FS_Subset
  <1>4. /\ Cardinality(A) \in Nat /\ Cardinality(B) \in Nat /\ Cardinality(S) \in Nat
        /\ Cardinality(A \cup B) \in Nat
    BY <1>1, <1>3, FS_CardinalityType
  <1>5. Cardinality(A \cap B) = 0
    BY FS_EmptySet
  <1> QED BY <1>2, <1>3, <1>4, <1>5

\* A percentile is no lower than a smaller one.
LEMMA PercentilesOrdered ==
  ASSUME NEW S \in SUBSET Samples, IsFiniteSet(S), S # {}
  PROVE  NearestRank(Latencies(S), 50) <= NearestRank(Latencies(S), 95)
  <1> DEFINE v == NearestRank(Latencies(S), 50)
             w == NearestRank(Latencies(S), 95)
             n == Cardinality(S)
             c == Cardinality(AtMost(S, w))
  <1>1. v \in Nat /\ IsPercentile(S, 50, v) /\ w \in Nat /\ IsPercentile(S, 95, w)
    BY NearestRankIsPercentile
  <1>2. c \in Nat /\ n \in Nat
    BY FS_Subset, FS_CardinalityType DEF AtMost
  <1>3. 100 * c >= 95 * n /\ w \in {LatencyOf(x) : x \in S}
    BY <1>1 DEF IsPercentile
  <1>4. 100 * c >= 50 * n => v <= w
    BY <1>1, <1>3 DEF IsPercentile
  <1> HIDE DEF v, w, n, c
  <1>5. v <= w
    BY <1>2, <1>3, <1>4
  <1> QED BY <1>5 DEF v, w

\* The record of a group keeps the contract of _validate_record.
LEMMA RecordsAreValid ==
  ASSUME NEW S \in SUBSET Samples, IsFiniteSet(S), S # {}
  PROVE  RecordOf(S) \in Records /\ ValidRecord(RecordOf(S))
  <1> DEFINE With(outcome) == {x \in S : x.outcome = outcome}
             requestOf == [x \in S |-> Request[x.attempt]]
             Moved == {x \in S : FallbackIndex[x.attempt] > 0}
             R == {Request[x.attempt] : x \in S}
             F == {Request[x.attempt] : x \in Moved}
             r == RecordOf(S)
  <1>1. /\ Cardinality(With("succeeded")) \in Nat /\ Cardinality(S) \in Nat
        /\ Cardinality(With("rate_limit")) \in Nat /\ Cardinality(With("timeout")) \in Nat
        /\ Cardinality(With("rate_limit")) <= Cardinality(S) - Cardinality(With("succeeded"))
        /\ Cardinality(With("timeout")) <= Cardinality(S) - Cardinality(With("succeeded"))
    <2>1. With("succeeded") \cap With("rate_limit") = {} /\ With("succeeded") \cap With("timeout") = {}
      OBVIOUS
    <2>2. \A o : With(o) \in SUBSET S
      OBVIOUS
    <2> HIDE DEF With
    <2> QED BY <2>1, <2>2, TwoParts
  <1>2. Cardinality(S) # 0
    BY FS_EmptySet
  <1>3. /\ Cardinality(R) \in Nat \ {0} /\ Cardinality(F) \in Nat
        /\ Cardinality(F) <= Cardinality(R)
    <2>1. R = {requestOf[x] : x \in S}
      OBVIOUS
    <2> HIDE DEF requestOf
    <2>2. IsFiniteSet(R)
      <3>1. IsFiniteSet({requestOf[x] : x \in S})
        BY ImageCount, Zenon
      <3> QED BY <2>1, <3>1, Zenon
    <2>3. F \in SUBSET R /\ R # {}
      OBVIOUS
    <2> HIDE DEF R, F
    <2>4. IsFiniteSet(F) /\ Cardinality(F) <= Cardinality(R)
      BY <2>2, <2>3, FS_Subset
    <2> QED BY <2>2, <2>3, <2>4, FS_CardinalityType, FS_EmptySet
  <1>4. /\ NearestRank(Latencies(S), 50) \in Nat /\ NearestRank(Latencies(S), 95) \in Nat
        /\ NearestRank(Latencies(S), 50) <= NearestRank(Latencies(S), 95)
    BY NearestRankIsPercentile, PercentilesOrdered
  <1>5. r = [requests |-> Cardinality(R), attempts |-> Cardinality(S),
             successes |-> Cardinality(With("succeeded")),
             errors |-> Cardinality(S) - Cardinality(With("succeeded")),
             rateLimits |-> Cardinality(With("rate_limit")),
             timeouts |-> Cardinality(With("timeout")),
             fallbacks |-> Cardinality(F),
             p50 |-> NearestRank(Latencies(S), 50), p95 |-> NearestRank(Latencies(S), 95)]
    BY Zenon DEF RecordOf, Fallbacks
  <1> HIDE DEF With, R, F, r
  <1>6. r \in Records /\ ValidRecord(r)
    BY <1>1, <1>2, <1>3, <1>4, <1>5 DEF Records, ValidRecord
  <1> QED BY <1>6 DEF r

\* The attempts of a part of a group are as many as its samples, when no attempt
\* has two samples.
LEMMA AttemptsCount ==
  ASSUME NEW S \in SUBSET Samples, IsFiniteSet(S),
         \A x, y \in S : x.attempt = y.attempt => x = y,
         NEW T \in SUBSET S
  PROVE  Cardinality({x.attempt : x \in T}) = Cardinality(T)
  <1> DEFINE f == [x \in S |-> x.attempt]
  <1>1. {x.attempt : x \in T} = {f[x] : x \in T}
    BY Zenon
  <1>2. \A x, y \in T : f[x] = f[y] => x = y
    OBVIOUS
  <1>3. IsFiniteSet(T)
    BY FS_Subset
  <1> HIDE DEF f
  <1>4. Cardinality({f[x] : x \in T}) = Cardinality(T)
    BY <1>2, <1>3, ImageCount
  <1> QED BY <1>1, <1>4, Zenon

\* A percentile of the samples is the percentile of their attempts.
LEMMA PercentileOfAttempts ==
  ASSUME NEW S \in SUBSET Samples, IsFiniteSet(S),
         \A x, y \in S : x.attempt = y.attempt => x = y,
         NEW p \in Nat, NEW v \in Nat, IsPercentile(S, p, v)
  PROVE  Percentile({x.attempt : x \in S}, p) = v
  <1> DEFINE G == {x.attempt : x \in S}
             L == {LatencyOf(x) : x \in S}
             Is(u) == /\ 100 * Cardinality(AtMost(S, u)) >= p * Cardinality(S)
                      /\ \A w \in L : 100 * Cardinality(AtMost(S, w)) >= p * Cardinality(S) => u <= w
  <1>1. {Latency[a] : a \in G} = L
    BY DEF LatencyOf
  <1>2. Cardinality(G) = Cardinality(S)
    BY AttemptsCount
  <1>3. \A u : Cardinality({a \in G : Latency[a] <= u}) = Cardinality(AtMost(S, u))
    <2> TAKE u
    <2>1. {a \in G : Latency[a] <= u} = {x.attempt : x \in AtMost(S, u)}
      BY DEF AtMost, LatencyOf
    <2>2. AtMost(S, u) \in SUBSET S
      BY DEF AtMost
    <2> QED BY <2>1, <2>2, AttemptsCount
  <1>4. v \in L /\ Is(v)
    BY DEF IsPercentile
  <1>5. \A u \in L : Is(u) => u = v
    <2> TAKE u \in L
    <2> HAVE Is(u)
    <2>1. u <= v /\ v <= u
      BY <1>4
    <2>2. u \in Nat
      BY LatencyOfType
    <2> QED BY <2>1, <2>2
  <1>6. Percentile(G, p) = CHOOSE u \in L : Is(u)
    <2> HIDE DEF L, G
    <2> QED BY <1>1, <1>2, <1>3, Zenon DEF Percentile
  <1> HIDE DEF L, G, Is
  <1>7. Percentile(G, p) = v
    BY <1>4, <1>5, <1>6
  <1> QED BY <1>7 DEF G

\* A record says of the attempts of a group what D says of them.
Says(r, G, D) ==
  /\ r.attempts = Cardinality(G)
  /\ r.successes = Cardinality({a \in G : D[a].outcome = "succeeded"})
  /\ r.p50 = Percentile(G, 50) /\ r.p95 = Percentile(G, 95)

\* The record of a group is the truth about its attempts.
LEMMA RecordTruth ==
  ASSUME NEW S \in SUBSET Samples, IsFiniteSet(S), S # {}, NEW D,
         \A x \in S : D[x.attempt].at = x.at /\ D[x.attempt].outcome = x.outcome
  PROVE  Says(RecordOf(S), {x.attempt : x \in S}, D)
  <1> DEFINE G == {x.attempt : x \in S}
             Won == {x \in S : x.outcome = "succeeded"}
             r == RecordOf(S)
  <1>1. \A x, y \in S : x.attempt = y.attempt => x = y
    BY DEF Samples
  <1>2. {a \in G : D[a].outcome = "succeeded"} = {x.attempt : x \in Won}
    OBVIOUS
  <1>3. Won \in SUBSET S
    OBVIOUS
  <1>4. /\ r.attempts = Cardinality(S) /\ r.successes = Cardinality(Won)
        /\ r.p50 = NearestRank(Latencies(S), 50) /\ r.p95 = NearestRank(Latencies(S), 95)
    BY DEF RecordOf
  <1>5. /\ NearestRank(Latencies(S), 50) = Percentile(G, 50)
        /\ NearestRank(Latencies(S), 95) = Percentile(G, 95)
    BY <1>1, NearestRankIsPercentile, PercentileOfAttempts
  <1>6. Cardinality(G) = Cardinality(S) /\ Cardinality({x.attempt : x \in Won}) = Cardinality(Won)
    BY <1>1, <1>3, AttemptsCount
  <1> HIDE DEF G, Won, r
  <1>7. Says(r, G, D)
    BY <1>2, <1>4, <1>5, <1>6, Zenon DEF Says
  <1> QED BY <1>7 DEF G, r

-----------------------------------------------------------------------------
(* The store.                                                              *)

\* A sample says when and how its attempt really ended.
Truthful(x) == done[x.attempt].at = x.at /\ done[x.attempt].outcome = x.outcome

\* An attempt that ended is in the store, or at or before one of the two
\* boundaries, or before the store was created, or the clock was set back while
\* it was recorded.
Accounted(a) ==
  \/ \E i \in 1..Len(samples) : samples[i].attempt = a
  \/ done[a].at <= evicted
  \/ done[a].at <= incomplete
  \/ done[a].at < CoverageStart
  \/ ~monotonic /\ done[a].behind

\* The store's inductive invariant.
StoreInv ==
  /\ TypeOK
  /\ \A i \in 1..Len(samples) : CoverageStart <= samples[i].at /\ Truthful(samples[i])
  /\ \A a \in Attempts : done[a].at # NoTime => Accounted(a)

LEMMA TimesAreIntegers ==
  ASSUME TypeOK
  PROVE  /\ now \in Int /\ latest \in Int /\ evicted \in Int /\ incomplete \in Int
         /\ \A a \in Attempts : done[a].at \in Int
         /\ \A i \in 1..Len(samples) : samples[i] \in Samples /\ samples[i].at \in 0..MaxTime
         /\ MaxTime \in Nat /\ NoTime = -1 /\ CoverageStart = 1
  <1>1. MaxTime \in Nat /\ NoTime = -1 /\ CoverageStart = 1
    BY SamplesAssumption DEF NoTime, CoverageStart
  <1>2. \A t \in CoverageStart..MaxTime \cup {NoTime} : t \in Int
    BY <1>1
  <1>3. \A t \in 0..MaxTime \cup {NoTime} : t \in Int
    BY <1>1
  <1>4. now \in Int /\ latest \in Int /\ evicted \in Int /\ incomplete \in Int
    BY <1>1, <1>2 DEF TypeOK
  <1>5. \A a \in Attempts : done[a].at \in Int
    BY <1>3, Zenon DEF TypeOK
  <1>6. \A i \in 1..Len(samples) : samples[i] \in Samples
    BY DEF TypeOK
  <1> QED BY <1>1, <1>4, <1>5, <1>6 DEF Samples

\* Appending a sample at the capacity drops the oldest and keeps the rest.
LEMMA Grown ==
  ASSUME NEW S, NEW s \in Seq(S), NEW x \in S, NEW m \in Nat \ {0}, Len(s) <= m
  PROVE  LET g == Append(s, x)
             k == IF Len(g) > m THEN Tail(g) ELSE g
         IN  /\ k \in Seq(S) /\ Len(k) <= m
             /\ Head(g) \in S
             /\ \A i \in 1..Len(k) : k[i] = x \/ \E j \in 1..Len(s) : k[i] = s[j]
             /\ \E i \in 1..Len(k) : k[i] = x
             /\ \A j \in 1..Len(s) :
                  \/ \E i \in 1..Len(k) : k[i] = s[j]
                  \/ Len(g) > m /\ s[j] = Head(g)
  <1> DEFINE g == Append(s, x)
             n == Len(s)
  <1>1. /\ n \in Nat /\ g \in Seq(S) /\ Len(g) = n + 1 /\ g[n + 1] = x
        /\ \A j \in 1..n : g[j] = s[j]
    OBVIOUS
  <1>2. Head(g) = g[1] /\ g[1] \in S
    BY <1>1
  <1>3. /\ Tail(g) \in Seq(S) /\ Len(Tail(g)) = n
        /\ \A i \in 1..n : Tail(g)[i] = g[i + 1]
    BY <1>1
  <1> HIDE DEF g, n
  <1>4. CASE Len(g) > m
    <2>1. n = m /\ n >= 1
      BY <1>1, <1>4 DEF n
    <2> DEFINE k == Tail(g)
    <2>2. k \in Seq(S) /\ Len(k) = n /\ \A i \in 1..n : k[i] = g[i + 1]
      BY <1>3
    <2> HIDE DEF k
    <2>3. \A i \in 1..n : k[i] = x \/ \E j \in 1..n : k[i] = s[j]
      <3> TAKE i \in 1..n
      <3>1. CASE i = n
        BY <1>1, <2>2, <3>1
      <3>2. CASE i # n
        <4>1. i + 1 \in 1..n
          BY <1>1, <3>2
        <4> QED BY <1>1, <2>2, <4>1
      <3> QED BY <3>1, <3>2
    <2>4. k[n] = x /\ n \in 1..n
      BY <1>1, <2>1, <2>2
    <2>5. \A j \in 1..n : (\E i \in 1..n : k[i] = s[j]) \/ s[j] = Head(g)
      <3> TAKE j \in 1..n
      <3>1. CASE j = 1
        BY <1>1, <1>2, <2>1, <3>1
      <3>2. CASE j # 1
        <4>1. j - 1 \in 1..n /\ (j - 1) + 1 = j
          BY <1>1, <3>2
        <4>2. k[j - 1] = s[j]
          BY <1>1, <2>2, <4>1
        <4> QED BY <4>1, <4>2
      <3> QED BY <3>1, <3>2
    <2> QED BY <1>1, <1>2, <1>4, <2>1, <2>2, <2>3, <2>4, <2>5, Zenon DEF g, n, k
  <1>5. CASE ~(Len(g) > m)
    <2>1. \A i \in 1..(n + 1) : i = n + 1 \/ i \in 1..n
      BY <1>1
    <2>2. n + 1 \in 1..(n + 1) /\ (\A j \in 1..n : j \in 1..(n + 1)) /\ n + 1 <= m
      BY <1>1, <1>5
    <2>3. \A i \in 1..(n + 1) : g[i] = x \/ \E j \in 1..n : g[i] = s[j]
      BY <1>1, <2>1
    <2> QED BY <1>1, <1>2, <1>5, <2>2, <2>3 DEF g, n
  <1> QED BY <1>4, <1>5, Zenon

\* What a clock shows after it showed t is in range, and not before t for one
\* that only advances.
LEMMA LaterReadings ==
  ASSUME NEW t \in 0..MaxTime, NEW u \in Later(t)
  PROVE  u \in 0..MaxTime /\ (monotonic => t <= u)
  BY SamplesAssumption DEF Later

\* An attempt that ends leaves the store in its invariant: recorded, it is
\* there and what it pushed out is behind the eviction boundary; refused or not
\* representable, it is behind the other one, unless that was refused too
\* because the clock was set back.
LEMMA FinishKeepsStore ==
  ASSUME StoreInv, NEW a \in Attempts, NEW outcome \in Endings[a], Finish(a, outcome)
  PROVE  StoreInv'
  <1> DEFINE x == [attempt |-> a, at |-> now, outcome |-> outcome]
             g == Append(samples, x)
  <1>1. TypeOK /\ done[a].at = NoTime /\ outcome \in Outcomes
    BY SamplesAssumption DEF StoreInv, Finish
  <1>2. /\ now \in Int /\ latest \in Int /\ evicted \in Int /\ incomplete \in Int
        /\ \A b \in Attempts : done[b].at \in Int
        /\ \A i \in 1..Len(samples) : samples[i] \in Samples /\ samples[i].at \in 0..MaxTime
        /\ MaxTime \in Nat /\ NoTime = -1 /\ CoverageStart = 1
    BY <1>1, TimesAreIntegers
  <1> DEFINE Readings(t, u) ==
               /\ IF outcome \in SampleOutcomes /\ Recordable(now, t)
                  THEN u = t /\ Record(x)
                  ELSE incomplete' = Invalidated(now, u) /\ UNCHANGED <<samples, latest, evicted>>
               /\ now' = u
               /\ done' = [done EXCEPT ![a] = [at |-> now, outcome |-> outcome, behind |-> u < now]]
  <1>p. PICK t \in Later(now) : \E u \in Later(t) : Readings(t, u)
    BY Zenon DEF Finish
  <1>0. PICK u \in Later(t) : Readings(t, u)
    BY <1>p, Zenon
  <1>r. /\ t \in 0..MaxTime /\ u \in 0..MaxTime
        /\ monotonic => now <= t /\ t <= u
    BY <1>p, <1>0, <1>1, LaterReadings DEF TypeOK
  <1> DEFINE d == [at |-> now, outcome |-> outcome, behind |-> u < now]
  <1>d. d.at = now /\ d.outcome = outcome /\ d.behind = (u < now)
    OBVIOUS
  <1>t. d \in [at : 0..MaxTime \cup {NoTime}, outcome : Outcomes, behind : BOOLEAN]
    BY <1>1 DEF TypeOK
  <1> HIDE DEF d
  <1>3. /\ done' = [done EXCEPT ![a] = d] /\ done'[a] = d
        /\ done'[a].at = now /\ done'[a].outcome = outcome
        /\ \A b \in Attempts : b # a => done'[b] = done[b]
        /\ now' = u /\ monotonic' = monotonic
    <2>1. done' = [done EXCEPT ![a] = d] /\ now' = u /\ monotonic' = monotonic
      BY <1>0 DEF Finish, d
    <2> QED BY <1>1, <1>d, <2>1 DEF TypeOK
  <1>4. /\ now' \in 0..MaxTime
        /\ done' \in [Attempts -> [at : 0..MaxTime \cup {NoTime}, outcome : Outcomes, behind : BOOLEAN]]
    BY <1>1, <1>r, <1>3, <1>t DEF TypeOK
  <1>5. \A i \in 1..Len(samples) : samples[i].attempt \in Attempts /\ samples[i].attempt # a
    <2> TAKE i \in 1..Len(samples)
    <2>1. samples[i] \in Samples /\ samples[i].at \in 0..MaxTime /\ Truthful(samples[i])
      BY <1>2 DEF StoreInv
    <2> QED BY <1>1, <1>2, <2>1 DEF Samples, Truthful
  <1>6. \A i \in 1..Len(samples) :
          /\ done'[samples[i].attempt].at = samples[i].at
          /\ done'[samples[i].attempt].outcome = samples[i].outcome
    BY <1>3, <1>5 DEF StoreInv, Truthful
  <1>7. CASE outcome \in SampleOutcomes /\ Recordable(now, t)
    <2>1. /\ samples' = (IF Len(g) > MaxSamples THEN Tail(g) ELSE g)
          /\ latest' = now /\ incomplete' = incomplete
          /\ evicted' = IF Len(g) > MaxSamples /\ Head(g).at > evicted THEN Head(g).at ELSE evicted
      <3>1. Record(x) /\ x.at = now
        BY <1>0, <1>7
      <3> QED BY <3>1 DEF Record, EvictedThrough
    <2>2. x \in Samples /\ samples \in Seq(Samples) /\ Len(samples) <= MaxSamples
      BY <1>1, <1>7 DEF TypeOK, Samples
    <2>3. /\ samples' \in Seq(Samples) /\ Len(samples') <= MaxSamples
          /\ Head(g) \in Samples
          /\ \A i \in 1..Len(samples') : samples'[i] = x \/ \E j \in 1..Len(samples) : samples'[i] = samples[j]
          /\ \E i \in 1..Len(samples') : samples'[i] = x
          /\ \A j \in 1..Len(samples) :
               \/ \E i \in 1..Len(samples') : samples'[i] = samples[j]
               \/ Len(g) > MaxSamples /\ samples[j] = Head(g)
      <3> DEFINE k == IF Len(g) > MaxSamples THEN Tail(g) ELSE g
      <3> HIDE DEF x
      <3>1. /\ k \in Seq(Samples) /\ Len(k) <= MaxSamples
            /\ Head(g) \in Samples
            /\ \A i \in 1..Len(k) : k[i] = x \/ \E j \in 1..Len(samples) : k[i] = samples[j]
            /\ \E i \in 1..Len(k) : k[i] = x
            /\ \A j \in 1..Len(samples) :
                 \/ \E i \in 1..Len(k) : k[i] = samples[j]
                 \/ Len(g) > MaxSamples /\ samples[j] = Head(g)
        <4>1. MaxSamples \in Nat \ {0}
          BY SamplesAssumption
        <4> QED BY <2>2, <4>1, Grown, Zenon
      <3>2. samples' = k
        BY <2>1
      <3> HIDE DEF g, k
      <3> QED BY <3>1, <3>2
    <2>4. x.attempt = a /\ x.at = now /\ x.outcome = outcome
      OBVIOUS
    <2> HIDE DEF x, g
    <2>5. \A i \in 1..Len(samples') : CoverageStart <= samples'[i].at /\ Truthful(samples[i])'
      <3> TAKE i \in 1..Len(samples')
      <3>1. CASE samples'[i] = x
        BY <1>3, <1>7, <2>4, <3>1 DEF Truthful, Recordable
      <3>2. CASE \E j \in 1..Len(samples) : samples'[i] = samples[j]
        BY <1>6, <3>2 DEF Truthful, StoreInv
      <3> QED BY <2>3, <3>1, <3>2
    <2>6. evicted' \in Int /\ evicted <= evicted' /\ (Len(g) > MaxSamples => Head(g).at <= evicted')
      BY <1>2, <2>1, <2>3 DEF Samples
    <2>7. TypeOK'
      <3>1. CoverageStart <= now /\ now \in CoverageStart..MaxTime
        BY <1>1, <1>2, <1>7 DEF Recordable, TypeOK
      <3>2. Len(g) > MaxSamples /\ Head(g).at > evicted => Head(g).at \in CoverageStart..MaxTime \cup {NoTime}
        <4> HAVE Len(g) > MaxSamples /\ Head(g).at > evicted
        <4>1. Head(g) \in Samples /\ Head(g).at \in 0..MaxTime
          BY <2>3 DEF Samples
        <4>2. Head(g).at # 0
          <5>1. CASE samples = <<>>
            <6>1. Head(g) = x
              BY <2>2, <5>1 DEF g
            <6> QED BY <1>2, <2>4, <3>1, <6>1
          <5>2. CASE samples # <<>>
            <6>1. Head(g) = samples[1] /\ 1 \in 1..Len(samples)
              BY <2>2, <5>2 DEF g
            <6> QED BY <1>2, <6>1 DEF StoreInv
          <5> QED BY <5>1, <5>2
        <4> QED BY <1>2, <4>1, <4>2
      <3> QED BY <1>1, <1>3, <1>4, <2>1, <2>3, <3>1, <3>2 DEF TypeOK
    <2>8. ASSUME NEW b \in Attempts, done'[b].at # NoTime PROVE Accounted(b)'
      <3>1. CASE b = a
        BY <2>3, <2>4, <3>1 DEF Accounted
      <3>2. CASE b # a
        <4>1. done'[b] = done[b] /\ Accounted(b)
          BY <1>3, <2>8, <3>2 DEF StoreInv
        <4>2. CASE \E j \in 1..Len(samples) : samples[j].attempt = b
          <5>1. PICK j \in 1..Len(samples) : samples[j].attempt = b
            BY <4>2
          <5>2. CASE \E i \in 1..Len(samples') : samples'[i] = samples[j]
            BY <5>1, <5>2 DEF Accounted
          <5>3. CASE Len(g) > MaxSamples /\ samples[j] = Head(g)
            <6>1. done[b].at = samples[j].at
              BY <5>1 DEF StoreInv, Truthful
            <6> QED BY <2>6, <4>1, <5>3, <6>1 DEF Accounted
          <5> QED BY <2>3, <5>2, <5>3
        <4>3. CASE ~\E j \in 1..Len(samples) : samples[j].attempt = b
          BY <1>2, <1>3, <2>1, <2>6, <4>1, <4>3 DEF Accounted
        <4> QED BY <4>2, <4>3
      <3> QED BY <3>1, <3>2
    <2> QED BY <2>5, <2>7, <2>8 DEF StoreInv, CoverageStart
  <1>8. CASE ~(outcome \in SampleOutcomes /\ Recordable(now, t))
    <2>1. /\ samples' = samples /\ latest' = latest /\ evicted' = evicted
          /\ incomplete' = IF CoverageStart <= now /\ now <= u /\ now > incomplete THEN now ELSE incomplete
      BY <1>0, <1>8 DEF Invalidated
    <2>2. /\ incomplete' \in Int /\ incomplete <= incomplete'
          /\ now <= incomplete' \/ now < CoverageStart \/ (~monotonic /\ u < now)
      BY <1>2, <1>r, <2>1
    <2>3. TypeOK'
      <3>1. incomplete' \in CoverageStart..MaxTime \cup {NoTime}
        BY <1>1, <1>2, <2>1 DEF TypeOK
      <3> QED BY <1>1, <1>3, <1>4, <2>1, <3>1 DEF TypeOK
    <2>4. \A i \in 1..Len(samples') : CoverageStart <= samples'[i].at /\ Truthful(samples[i])'
      BY <1>6, <2>1 DEF Truthful, StoreInv
    <2>5. ASSUME NEW b \in Attempts, done'[b].at # NoTime PROVE Accounted(b)'
      <3>1. CASE b = a
        BY <1>3, <1>d, <2>2, <3>1, Zenon DEF Accounted, CoverageStart
      <3>2. CASE b # a
        <4>1. done'[b] = done[b] /\ Accounted(b)
          BY <1>3, <2>5, <3>2 DEF StoreInv
        <4> QED BY <1>2, <1>3, <2>1, <2>2, <4>1 DEF Accounted
      <3> QED BY <3>1, <3>2
    <2> QED BY <2>3, <2>4, <2>5 DEF StoreInv, CoverageStart
  <1> QED BY <1>7, <1>8

\* A step of the gateway or of the handoff keeps the store's invariant, makes
\* no ended attempt forgotten, and ends one attempt at most, now.
LEMMA StoreStep ==
  ASSUME StoreInv, [HandoffNext]_handoffVars
  PROVE  /\ StoreInv' /\ monotonic' = monotonic
         /\ monotonic => now <= now'
         /\ \A a \in Attempts : done[a].at # NoTime => done'[a] = done[a]
         /\ \A a \in Attempts : done'[a] = done[a] \/ done'[a].at = now
  <1> DEFINE Store == <<monotonic, samples, latest, evicted, incomplete, done>>
  <1>0. now \in Int /\ now \in 0..MaxTime
    BY TimesAreIntegers DEF StoreInv, TypeOK
  <1>1. ASSUME UNCHANGED Store, now' \in 0..MaxTime
        PROVE  StoreInv' /\ monotonic' = monotonic /\ done' = done
    BY <1>1 DEF StoreInv, TypeOK, Truthful, Accounted
  <1>2. CASE UNCHANGED Store /\ now' = now
    BY <1>0, <1>1, <1>2
  <1>r. CASE UNCHANGED Store /\ now' \in Later(now)
    BY <1>0, <1>1, <1>r, LaterReadings
  <1>3. ASSUME NEW a \in Attempts, NEW outcome \in Endings[a], Finish(a, outcome)
        PROVE  /\ StoreInv' /\ monotonic' = monotonic /\ (monotonic => now <= now')
               /\ \E b : done' = [done EXCEPT ![a] = [at |-> now, outcome |-> outcome, behind |-> b]]
               /\ done[a].at = NoTime
    <2>p. PICK t \in Later(now) : \E u \in Later(t) :
            /\ now' = u
            /\ done' = [done EXCEPT ![a] = [at |-> now, outcome |-> outcome, behind |-> u < now]]
      BY <1>3, Zenon DEF Finish
    <2>1. PICK u \in Later(t) :
            /\ now' = u
            /\ done' = [done EXCEPT ![a] = [at |-> now, outcome |-> outcome, behind |-> u < now]]
      BY <2>p, Zenon
    <2>2. /\ t \in 0..MaxTime /\ u \in 0..MaxTime /\ MaxTime \in Nat
          /\ monotonic => now <= t /\ t <= u
      BY <1>0, <2>p, <2>1, LaterReadings, SamplesAssumption
    <2>3. monotonic => now <= now'
      BY <1>0, <2>1, <2>2
    <2>4. StoreInv' /\ monotonic' = monotonic /\ done[a].at = NoTime
      BY <1>3, FinishKeepsStore, Zenon DEF Finish
    <2> QED BY <2>1, <2>3, <2>4, Zenon
  <1>4. CASE \E a \in Attempts : \E outcome \in Endings[a] : Finish(a, outcome)
    <2>0. PICK a \in Attempts : \E outcome \in Endings[a] : Finish(a, outcome)
      BY <1>4
    <2>1. PICK outcome \in Endings[a] : Finish(a, outcome)
      BY <2>0
    <2>2. done \in [Attempts -> [at : 0..MaxTime \cup {NoTime}, outcome : Outcomes, behind : BOOLEAN]]
      BY DEF StoreInv, TypeOK
    <2>3. PICK b : done' = [done EXCEPT ![a] = [at |-> now, outcome |-> outcome, behind |-> b]]
      BY <1>3, <2>1
    <2>4. done'[a].at = now /\ \A c \in Attempts : c # a => done'[c] = done[c]
      BY <2>2, <2>3
    <2> QED BY <1>3, <2>1, <2>4
  <1>5. CASE Tick
    <2>1. now' \in 0..MaxTime
      BY <1>0, <1>5, SamplesAssumption DEF Tick, StoreInv, TypeOK
    <2>2. StoreInv'
      BY <1>5, <2>1 DEF Tick, StoreInv, TypeOK, Truthful, Accounted
    <2> QED BY <1>0, <1>5, <2>2 DEF Tick
  <1>6. CASE SetBack
    <2>1. now' \in 0..MaxTime
      BY <1>0, <1>6, SamplesAssumption DEF SetBack, StoreInv, TypeOK
    <2>2. StoreInv'
      BY <1>6, <2>1 DEF SetBack, StoreInv, TypeOK, Truthful, Accounted
    <2> QED BY <1>0, <1>6, <2>2 DEF SetBack
  <1>7. CASE \E s, e \in 0..MaxTime : Materialize(s, e)
    BY <1>r, <1>7, Zenon DEF Materialize
  <1>8. CASE Handoff
    <2>1. CASE \E s, e \in 0..MaxTime : Export(s, e)
      BY <1>r, <2>1, Zenon DEF Export
    <2> QED BY <1>2, <1>8, <2>1, Zenon DEF Handoff, Publish, Damage, LoadBatch, LoadSnapshot, MaterializeBatch, vars
  <1>9. CASE UNCHANGED handoffVars
    BY <1>2, <1>9 DEF handoffVars, vars
  <1> QED BY <1>4, <1>5, <1>6, <1>7, <1>8, <1>9 DEF HandoffNext, Next

\* The attempts of the samples a readable window holds ended in it, and it lacks
\* only attempts during whose recording the clock was set back.
LEMMA ReadableWindow ==
  ASSUME StoreInv, NEW s \in 0..MaxTime, NEW e \in 0..MaxTime, Readable(s, e)
  PROVE  /\ \A x \in ReadWindow(s, e) : x \in Samples /\ Truthful(x) /\ InWindow(x.at, s, e)
         /\ Read(s, e) \subseteq Ended(s, e)
         /\ \A a \in Ended(s, e) \ Read(s, e) : ~monotonic /\ done[a].behind
  <1>1. /\ now \in Int /\ latest \in Int /\ evicted \in Int /\ incomplete \in Int
        /\ \A a \in Attempts : done[a].at \in Int
        /\ \A i \in 1..Len(samples) : samples[i] \in Samples /\ samples[i].at \in 0..MaxTime
        /\ MaxTime \in Nat /\ NoTime = -1 /\ CoverageStart = 1
    BY TimesAreIntegers DEF StoreInv
  <1>2. DOMAIN samples = 1..Len(samples)
    BY DEF StoreInv, TypeOK
  <1>3. s \in Int /\ e \in Int
    BY <1>1
  <1>4. ReadWindow(s, e) = {x \in {samples[i] : i \in 1..Len(samples)} : InWindow(x.at, s, e)}
    BY <1>2 DEF ReadWindow, Range
  <1>5. \A x \in ReadWindow(s, e) : x \in Samples /\ Truthful(x) /\ InWindow(x.at, s, e)
    BY <1>1, <1>4 DEF StoreInv
  <1>6. \A x \in ReadWindow(s, e) : x.attempt \in Ended(s, e)
    <2> TAKE x \in ReadWindow(s, e)
    <2>1. x.attempt \in Attempts /\ x.at \in 0..MaxTime /\ done[x.attempt].at = x.at
      BY <1>5 DEF Samples, Truthful
    <2>2. x.at # NoTime /\ s <= x.at /\ x.at < e
      BY <1>1, <1>5, <2>1 DEF InWindow
    <2> QED BY <2>1, <2>2 DEF Ended
  <1>7. ASSUME NEW a \in Ended(s, e), ~(~monotonic /\ done[a].behind)
        PROVE  \E x \in ReadWindow(s, e) : x.attempt = a
    <2>1. a \in Attempts /\ done[a].at # NoTime /\ s <= done[a].at /\ done[a].at < e
      BY DEF Ended
    <2>2. evicted < s /\ incomplete < s /\ CoverageStart <= s
      BY DEF Readable
    <2>3. Accounted(a)
      BY <2>1 DEF StoreInv
    <2>4. PICK i \in 1..Len(samples) : samples[i].attempt = a
      BY <1>1, <1>3, <1>7, <2>1, <2>2, <2>3 DEF Accounted
    <2>5. samples[i].at = done[a].at
      BY <2>4 DEF StoreInv, Truthful
    <2> QED BY <1>4, <2>1, <2>4, <2>5 DEF InWindow
  <1> QED BY <1>5, <1>6, <1>7, Zenon DEF Read

\* Read windows are finite.
LEMMA ReadWindowFinite ==
  ASSUME TypeOK, NEW s, NEW e PROVE IsFiniteSet(ReadWindow(s, e))
  <1>1. DOMAIN samples = 1..Len(samples) /\ Len(samples) \in Nat
    BY DEF TypeOK
  <1>2. IsFiniteSet(1..Len(samples))
    BY <1>1, FS_Interval
  <1>3. IsFiniteSet({samples[i] : i \in 1..Len(samples)})
    BY <1>2, ImageCount, Zenon
  <1>4. ReadWindow(s, e) \in SUBSET {samples[i] : i \in 1..Len(samples)}
    BY <1>1 DEF ReadWindow, Range
  <1> QED BY <1>3, <1>4, FS_Subset

-----------------------------------------------------------------------------
(* Evidence.                                                               *)

\* The attempts that ended in a window all have a sample in W.
Covered(W, s, e) == \A a \in Ended(s, e) : \E x \in W : x.attempt = a

\* W holds the truth about the window from s to e: nothing untrue, and while the
\* clock only advances nothing missing.
TrueWindow(W, s, e) ==
  /\ W \in SUBSET Samples /\ IsFiniteSet(W)
  /\ \A x \in W : Truthful(x) /\ InWindow(x.at, s, e)
  /\ monotonic => e <= now /\ Covered(W, s, e)

TrueBatch(b) ==
  /\ b.from \in 0..MaxTime /\ b.to \in 0..MaxTime
  /\ TrueWindow(b.samples, b.from, b.to)

TrueSnapshot(x) ==
  \E W \in SUBSET Samples : \E s, e, c \in 0..MaxTime :
    /\ W # {} /\ TrueWindow(W, s, e)
    /\ x = [from |-> s, to |-> e, captured |-> c, records |-> AggregateRecords(W)]

\* A file's identity is that of a true artifact, whatever became of its content.
TrueFile ==
  /\ file = [kind |-> file.kind, wellFormed |-> file.wellFormed, content |-> file.content, id |-> file.id]
  /\ \/ file.kind = "batch" /\ TrueBatch(file.id)
     \/ file.kind = "snapshot" /\ TrueSnapshot(file.id)

\* A file whose identity is that of a true artifact is a true file.
LEMMA IdentifiedFile ==
  ASSUME NEW k, NEW w, NEW c, NEW i,
         file' = [kind |-> k, wellFormed |-> w, content |-> c, id |-> i],
         \/ k = "batch" /\ TrueBatch(i)'
         \/ k = "snapshot" /\ TrueSnapshot(i)'
  PROVE  TrueFile'
  <1>1. file'.kind = k /\ file'.wellFormed = w /\ file'.content = c /\ file'.id = i
    OBVIOUS
  <1>2. TrueBatch(i)' => TrueBatch(file.id)'
    BY <1>1, Zenon DEF TrueBatch
  <1>3. TrueSnapshot(i)' => TrueSnapshot(file.id)'
    BY <1>1, Zenon DEF TrueSnapshot
  <1> QED BY <1>1, <1>2, <1>3, Zenon DEF TrueFile

\* The inductive invariant of the handoff.
HandoffInv ==
  /\ StoreInv
  /\ evidence = NoEvidence \/ TrueSnapshot(evidence)
  /\ file = NoFile \/ TrueFile
  /\ batch = NoBatch \/ TrueBatch(batch)

\* What is true of a window stays true of it.
LEMMA TrueWindowsStay ==
  ASSUME StoreInv, [HandoffNext]_handoffVars,
         NEW W, NEW s \in 0..MaxTime, NEW e \in 0..MaxTime, TrueWindow(W, s, e)
  PROVE  TrueWindow(W, s, e)'
  <1>1. /\ StoreInv' /\ monotonic' = monotonic
        /\ monotonic => now <= now'
        /\ \A a \in Attempts : done[a].at # NoTime => done'[a] = done[a]
        /\ \A a \in Attempts : done'[a] = done[a] \/ done'[a].at = now
    BY StoreStep
  <1>2. MaxTime \in Nat /\ NoTime = -1 /\ now \in Int /\ s \in Int /\ e \in Int
    BY TimesAreIntegers DEF StoreInv
  <1>3. now' \in Int /\ \A a \in Attempts : done'[a].at \in Int
    <2>1. \A t \in 0..MaxTime \cup {NoTime} : t \in Int
      BY <1>2
    <2>2. TypeOK'
      BY <1>1 DEF StoreInv
    <2> QED BY <2>1, <2>2, Zenon DEF TypeOK
  <1>4. \A x \in W : x.attempt \in Attempts /\ done[x.attempt].at # NoTime
    <2> TAKE x \in W
    <2>1. x \in Samples /\ done[x.attempt].at = x.at
      BY DEF TrueWindow, Truthful
    <2>2. x.attempt \in Attempts /\ x.at \in 0..MaxTime
      BY <2>1 DEF Samples
    <2> QED BY <1>2, <2>1, <2>2
  <1>5. \A x \in W : Truthful(x)'
    BY <1>1, <1>4 DEF TrueWindow, Truthful
  <1>6. ASSUME monotonic
        PROVE  e <= now' /\ Covered(W, s, e)'
    <2>1. e <= now /\ Covered(W, s, e)
      BY <1>6 DEF TrueWindow
    <2>2. \A a \in Ended(s, e)' : a \in Ended(s, e)
      <3> TAKE a \in Ended(s, e)'
      <3>1. a \in Attempts /\ done'[a].at # NoTime /\ s <= done'[a].at /\ done'[a].at < e
        BY DEF Ended
      <3>2. done'[a] = done[a]
        BY <1>1, <1>2, <1>3, <2>1, <3>1
      <3> QED BY <3>1, <3>2 DEF Ended
    <2>3. Covered(W, s, e)'
      BY <2>1, <2>2 DEF Covered
    <2> QED BY <1>1, <1>2, <1>3, <1>6, <2>1, <2>3
  <1> QED BY <1>1, <1>5, <1>6 DEF TrueWindow, InWindow

\* Batches and snapshots stay true.
LEMMA TrueArtifactsStay ==
  ASSUME StoreInv, [HandoffNext]_handoffVars
  PROVE  /\ \A b : TrueBatch(b) => TrueBatch(b)'
         /\ \A x : TrueSnapshot(x) => TrueSnapshot(x)'
  <1>1. ASSUME NEW b, TrueBatch(b) PROVE TrueBatch(b)'
    <2>1. b.from \in 0..MaxTime /\ b.to \in 0..MaxTime /\ TrueWindow(b.samples, b.from, b.to)
      BY <1>1 DEF TrueBatch
    <2>2. TrueWindow(b.samples, b.from, b.to)'
      BY <2>1, TrueWindowsStay
    <2> QED BY <2>1, <2>2 DEF TrueBatch
  <1>2. ASSUME NEW x, TrueSnapshot(x) PROVE TrueSnapshot(x)'
    <2>1. PICK W \in SUBSET Samples : \E s, e, c \in 0..MaxTime :
            /\ W # {} /\ TrueWindow(W, s, e)
            /\ x = [from |-> s, to |-> e, captured |-> c, records |-> AggregateRecords(W)]
      BY <1>2 DEF TrueSnapshot
    <2>2. PICK s \in 0..MaxTime, e \in 0..MaxTime, c \in 0..MaxTime :
            /\ W # {} /\ TrueWindow(W, s, e)
            /\ x = [from |-> s, to |-> e, captured |-> c, records |-> AggregateRecords(W)]
      BY <2>1
    <2>3. TrueWindow(W, s, e)'
      BY <2>2, TrueWindowsStay
    <2> QED BY <2>2, <2>3 DEF TrueSnapshot
  <1> QED BY <1>1, <1>2

\* The samples of a target.
OfTarget(W, t) == {x \in W : Target[x.attempt] = t}

LEMMA Aggregated ==
  ASSUME NEW W \in SUBSET Samples, IsFiniteSet(W), W # {}
  PROVE  LET R == AggregateRecords(W)
         IN  /\ DOMAIN R = {Target[x.attempt] : x \in W} /\ DOMAIN R # {}
             /\ DOMAIN R \in SUBSET Range(Target)
             /\ \A t \in DOMAIN R :
                  /\ OfTarget(W, t) \in SUBSET Samples /\ IsFiniteSet(OfTarget(W, t))
                  /\ OfTarget(W, t) # {} /\ R[t] = RecordOf(OfTarget(W, t))
                  /\ R[t] \in Records /\ ValidRecord(R[t])
             /\ R \in [DOMAIN R -> Records]
  <1> DEFINE T == {Target[x.attempt] : x \in W}
             R == AggregateRecords(W)
  <1>1. R = [t \in T |-> RecordOf(OfTarget(W, t))]
    BY DEF AggregateRecords, OfTarget
  <1>2. \A t \in T : /\ OfTarget(W, t) \in SUBSET Samples /\ IsFiniteSet(OfTarget(W, t))
                     /\ OfTarget(W, t) # {}
    BY FS_Subset DEF OfTarget
  <1>3. \A t \in T : RecordOf(OfTarget(W, t)) \in Records /\ ValidRecord(RecordOf(OfTarget(W, t)))
    BY <1>2, RecordsAreValid
  <1>4. T # {} /\ T \in SUBSET Range(Target)
    BY SamplesAssumption DEF Range, Samples
  <1> HIDE DEF T, R
  <1> QED BY <1>1, <1>2, <1>3, <1>4 DEF T, R

\* A window that is not empty is never refused by the contract of snapshots.
LEMMA SnapshotsAreMade ==
  ASSUME NEW W \in SUBSET Samples, IsFiniteSet(W), W # {},
         NEW s \in 0..MaxTime, NEW e \in 0..MaxTime, NEW c \in 0..MaxTime, s < e, e <= c
  PROVE  CreateSnapshot(W, s, e, c) =
           [from |-> s, to |-> e, captured |-> c, records |-> AggregateRecords(W)]
  <1> DEFINE R == AggregateRecords(W)
             x == [from |-> s, to |-> e, captured |-> c, records |-> R]
  <1>1. DOMAIN R # {} /\ \A t \in DOMAIN R : ValidRecord(R[t])
    BY Aggregated, Zenon
  <1> HIDE DEF R
  <1>2. x.from = s /\ x.to = e /\ x.captured = c /\ x.records = R
    OBVIOUS
  <1> HIDE DEF x
  <1>3. ValidSnapshot(x)
    BY <1>1, <1>2 DEF ValidSnapshot
  <1> QED BY <1>3 DEF CreateSnapshot, SnapshotContent, x, R

LEMMA MaterializedIsTrue ==
  ASSUME NEW W, NEW s \in 0..MaxTime, NEW e \in 0..MaxTime, NEW c \in 0..MaxTime, s < e,
         Materialized(W, s, e, c), TrueWindow(W, s, e)'
  PROVE  TrueSnapshot(evidence)'
  <1>1. W # {} /\ e <= c /\ evidence' = CreateSnapshot(W, s, e, c)
    BY DEF Materialized
  <1>2. W \in SUBSET Samples /\ IsFiniteSet(W)
    BY DEF TrueWindow
  <1>3. evidence' = [from |-> s, to |-> e, captured |-> c, records |-> AggregateRecords(W)]
    BY <1>1, <1>2, SnapshotsAreMade
  <1> QED BY <1>1, <1>2, <1>3 DEF TrueSnapshot

\* A readable window is true.
LEMMA ReadWindowsAreTrue ==
  ASSUME StoreInv, NEW s \in 0..MaxTime, NEW e \in 0..MaxTime, Readable(s, e)
  PROVE  TrueWindow(ReadWindow(s, e), s, e)
  <1>1. /\ \A x \in ReadWindow(s, e) : x \in Samples /\ Truthful(x) /\ InWindow(x.at, s, e)
        /\ \A a \in Ended(s, e) \ Read(s, e) : ~monotonic /\ done[a].behind
    BY ReadableWindow
  <1>2. IsFiniteSet(ReadWindow(s, e))
    BY ReadWindowFinite DEF StoreInv
  <1>3. monotonic => Covered(ReadWindow(s, e), s, e)
    BY <1>1, Zenon DEF Covered, Read
  <1>4. e <= now
    BY DEF Readable
  <1> QED BY <1>1, <1>2, <1>3, <1>4 DEF TrueWindow

\* The part of a true window that lies in a window it covers is true.
LEMMA PartsAreTrue ==
  ASSUME StoreInv, NEW W, NEW f \in 0..MaxTime, NEW t \in 0..MaxTime, TrueWindow(W, f, t),
         NEW s \in 0..MaxTime, NEW e \in 0..MaxTime, f <= s, e <= t
  PROVE  TrueWindow({x \in W : InWindow(x.at, s, e)}, s, e)
  <1> DEFINE P == {x \in W : InWindow(x.at, s, e)}
  <1>1. now \in Int /\ MaxTime \in Nat /\ \A a \in Attempts : done[a].at \in Int
    BY TimesAreIntegers DEF StoreInv
  <1>2. P \in SUBSET Samples /\ IsFiniteSet(P) /\ \A x \in P : Truthful(x) /\ InWindow(x.at, s, e)
    BY FS_Subset DEF TrueWindow
  <1>3. ASSUME monotonic PROVE e <= now /\ Covered(P, s, e)
    <2>1. t <= now /\ Covered(W, f, t)
      BY <1>3 DEF TrueWindow
    <2>2. \A a \in Ended(s, e) : \E x \in P : x.attempt = a
      <3> TAKE a \in Ended(s, e)
      <3>1. a \in Attempts /\ done[a].at # NoTime /\ s <= done[a].at /\ done[a].at < e
        BY DEF Ended
      <3>2. a \in Ended(f, t)
        BY <1>1, <3>1 DEF Ended
      <3>3. PICK x \in W : x.attempt = a
        BY <2>1, <3>2 DEF Covered
      <3>4. x.at = done[a].at
        BY <3>3 DEF TrueWindow, Truthful
      <3> QED BY <3>1, <3>3, <3>4 DEF InWindow
    <2> QED BY <1>1, <2>1, <2>2 DEF Covered
  <1> QED BY <1>2, <1>3 DEF TrueWindow

LEMMA InitHandoff ==
  HandoffInit => HandoffInv
  <1> SUFFICES ASSUME HandoffInit PROVE HandoffInv
    OBVIOUS
  <1>1. TypeOK
    <2>1. <<>> \in Seq(Samples) /\ Len(<<>>) <= MaxSamples
      BY SamplesAssumption
    <2>2. CoverageStart \in 0..MaxTime
      BY SamplesAssumption DEF CoverageStart
    <2>3. [at |-> NoTime, outcome |-> "other", behind |-> FALSE]
            \in [at : 0..MaxTime \cup {NoTime}, outcome : Outcomes, behind : BOOLEAN]
      BY DEF Outcomes, SampleOutcomes
    <2> QED BY <2>1, <2>2, <2>3 DEF HandoffInit, Init, TypeOK
  <1>2. StoreInv
    BY <1>1 DEF StoreInv, HandoffInit, Init
  <1> QED BY <1>2 DEF HandoffInv, HandoffInit, Init

LEMMA NextHandoff ==
  ASSUME HandoffInv, [HandoffNext]_handoffVars
  PROVE  HandoffInv'
  <1>1. StoreInv /\ StoreInv'
    BY StoreStep DEF HandoffInv
  <1>2. /\ \A b : TrueBatch(b) => TrueBatch(b)'
        /\ \A x : TrueSnapshot(x) => TrueSnapshot(x)'
    BY <1>1, TrueArtifactsStay
  <1>3. evidence' = evidence => (evidence' = NoEvidence \/ TrueSnapshot(evidence)')
    BY <1>2 DEF HandoffInv, TrueSnapshot
  <1>4. file' = file => (file' = NoFile \/ TrueFile')
    <2> HAVE file' = file
    <2>1. CASE file = NoFile
      BY <2>1
    <2>2. CASE TrueFile
      <3> PICK i : i = file.id /\ i = file'.id
        OBVIOUS
      <3>1. \/ file.kind = "batch" /\ TrueBatch(i)'
            \/ file.kind = "snapshot" /\ TrueSnapshot(i)'
        BY <1>2, <2>2 DEF TrueFile
      <3>2. file' = [kind |-> file.kind, wellFormed |-> file.wellFormed, content |-> file.content, id |-> i]
        BY <2>2, Zenon DEF TrueFile
      <3> QED BY <3>1, <3>2, IdentifiedFile, Zenon
    <2> QED BY <2>1, <2>2, Zenon DEF HandoffInv
  <1>5. batch' = batch => (batch' = NoBatch \/ TrueBatch(batch)')
    BY <1>2 DEF HandoffInv, TrueBatch
  <1>6. CASE UNCHANGED <<evidence, file, batch>>
    BY <1>1, <1>3, <1>4, <1>5, <1>6 DEF HandoffInv
  <1>7. ASSUME NEW s \in 0..MaxTime, NEW e \in 0..MaxTime, Materialize(s, e), UNCHANGED <<file, batch>>
        PROVE  HandoffInv'
    <2>1. TrueWindow(ReadWindow(s, e), s, e) /\ s < e
      BY <1>1, <1>7, ReadWindowsAreTrue DEF Materialize, Readable
    <2> PICK W : W = ReadWindow(s, e)
      OBVIOUS
    <2>2. TrueWindow(W, s, e)'
      BY <1>1, <2>1, TrueWindowsStay
    <2>3. PICK c \in Later(now) : Materialized(W, s, e, c)
      BY <1>7, Zenon DEF Materialize
    <2>4. c \in 0..MaxTime
      BY <1>1, <2>3, LaterReadings DEF StoreInv, TypeOK
    <2>5. TrueSnapshot(evidence)'
      BY <2>1, <2>2, <2>3, <2>4, MaterializedIsTrue
    <2> QED BY <1>1, <1>4, <1>5, <1>7, <2>5, Zenon DEF HandoffInv
  <1>8. ASSUME NEW s \in 0..MaxTime, NEW e \in 0..MaxTime, MaterializeBatch(s, e)
        PROVE  HandoffInv'
    <2>1. batch # NoBatch /\ s < e /\ batch.from <= s /\ e <= batch.to /\ now \in 0..MaxTime
      BY <1>1, <1>8 DEF MaterializeBatch, Covers, StoreInv, TypeOK
    <2> PICK W : W = {x \in batch.samples : InWindow(x.at, s, e)}
      BY Zenon
    <2>2. TrueWindow(W, s, e)
      BY <1>1, <2>1, PartsAreTrue DEF HandoffInv, TrueBatch
    <2>3. TrueWindow(W, s, e)'
      BY <1>1, <2>2, TrueWindowsStay
    <2>4. Materialized(W, s, e, now)
      BY <1>8 DEF MaterializeBatch
    <2>5. TrueSnapshot(evidence)'
      BY <2>1, <2>3, <2>4, MaterializedIsTrue
    <2> QED BY <1>1, <1>4, <1>5, <1>8, <2>5, Zenon DEF HandoffInv, MaterializeBatch
  <1>9. ASSUME NEW s \in 0..MaxTime, NEW e \in 0..MaxTime, Export(s, e)
        PROVE  HandoffInv'
    <2>0. PICK t \in Later(now) : file' = Written("batch", BatchContent(ReadWindow(s, e), s, e, t))
      BY <1>9, Zenon DEF Export
    <2> DEFINE b == BatchContent(ReadWindow(s, e), s, e, t)
    <2>1. Readable(s, e) /\ file' = Written("batch", b) /\ UNCHANGED <<evidence, batch>>
      BY <1>9, <2>0 DEF Export
    <2>2. TrueWindow(ReadWindow(s, e), s, e)
      BY <1>1, <2>1, ReadWindowsAreTrue
    <2>3. b.from = s /\ b.to = e /\ b.samples = ReadWindow(s, e)
      BY DEF BatchContent
    <2>4. TrueBatch(b)
      BY <2>2, <2>3 DEF TrueBatch
    <2> PICK c : c = b
      OBVIOUS
    <2>5. TrueBatch(c)'
      BY <1>2, <2>4
    <2> HIDE DEF b
    <2>6. file' = [kind |-> "batch", wellFormed |-> TRUE, content |-> c, id |-> c]
      BY <2>1 DEF Written, Sha256
    <2>7. TrueFile'
      BY <2>5, <2>6, IdentifiedFile, Zenon
    <2> QED BY <1>1, <1>3, <1>5, <2>1, <2>7, Zenon DEF HandoffInv
  <1>10. CASE Publish
    <2>1. /\ evidence # NoEvidence /\ file' = Written("snapshot", evidence)
          /\ UNCHANGED <<vars, batch>>
      BY <1>10 DEF Publish
    <2> PICK c : c = evidence
      OBVIOUS
    <2>2. TrueSnapshot(c)'
      BY <1>2, <2>1 DEF HandoffInv
    <2>3. file' = [kind |-> "snapshot", wellFormed |-> TRUE, content |-> c, id |-> c]
      BY <2>1 DEF Written, Sha256
    <2>4. TrueFile'
      BY <2>2, <2>3, IdentifiedFile, Zenon
    <2> QED BY <1>1, <1>3, <1>5, <2>1, <2>4, Zenon DEF HandoffInv, vars
  <1>11. CASE Damage
    <2>1. file # NoFile /\ TrueFile /\ UNCHANGED <<vars, batch>>
      BY <1>11 DEF Damage, HandoffInv
    <2> PICK k, w, c, i : k = file.kind /\ w = file.wellFormed /\ c = file.content /\ i = file.id
      OBVIOUS
    <2>2. file = [kind |-> k, wellFormed |-> w, content |-> c, id |-> i]
      BY <2>1 DEF TrueFile
    <2>3. \E w1, c1 : file' = [kind |-> k, wellFormed |-> w1, content |-> c1, id |-> i]
      BY <1>11, <2>2 DEF Damage
    <2>4. \/ k = "batch" /\ TrueBatch(i)'
          \/ k = "snapshot" /\ TrueSnapshot(i)'
      BY <1>2, <2>1 DEF TrueFile
    <2>5. TrueFile'
      BY <2>3, <2>4, IdentifiedFile, Zenon
    <2> QED BY <1>1, <1>3, <1>5, <2>1, <2>5, Zenon DEF HandoffInv, vars
  <1>12. CASE LoadBatch
    <2>1. /\ file # NoFile /\ file.kind = "batch" /\ file.content = file.id
          /\ batch' = file.content /\ UNCHANGED <<vars, file>>
      BY <1>12 DEF LoadBatch, BuildBatch, Sha256
    <2> PICK c : c = file.content
      OBVIOUS
    <2>2. TrueBatch(c)
      BY <2>1 DEF HandoffInv, TrueFile
    <2>3. TrueBatch(c)'
      BY <1>2, <2>2
    <2>4. TrueBatch(batch)'
      BY <2>1, <2>3 DEF TrueBatch
    <2> QED BY <1>1, <1>3, <1>4, <2>1, <2>4, Zenon DEF HandoffInv, vars
  <1>13. CASE LoadSnapshot
    <2>1. /\ file # NoFile /\ file.kind = "snapshot" /\ file.content = file.id
          /\ evidence' = file.content /\ UNCHANGED <<file, batch>>
      BY <1>13 DEF LoadSnapshot, BuildSnapshot, Sha256
    <2> PICK c : c = file.content
      OBVIOUS
    <2>2. TrueSnapshot(c)
      BY <2>1 DEF HandoffInv, TrueFile
    <2>3. TrueSnapshot(c)'
      BY <1>2, <2>2
    <2>4. TrueSnapshot(evidence)'
      BY <2>1, <2>3 DEF TrueSnapshot
    <2> QED BY <1>1, <1>4, <1>5, <2>1, <2>4, Zenon DEF HandoffInv
  <1>14. CASE Next /\ UNCHANGED <<file, batch>>
    <2>1. CASE \E s, e \in 0..MaxTime : Materialize(s, e)
      BY <1>7, <1>14, <2>1
    <2>2. CASE UNCHANGED evidence
      BY <1>6, <1>14, <2>2
    <2> QED BY <1>14, <2>1, <2>2, Zenon DEF Next, Finish, Tick, SetBack
  <1>15. CASE Handoff
    BY <1>8, <1>9, <1>10, <1>11, <1>12, <1>13, <1>15 DEF Handoff
  <1>16. CASE UNCHANGED handoffVars
    BY <1>6, <1>16 DEF handoffVars, vars
  <1> QED BY <1>14, <1>15, <1>16 DEF HandoffNext

\* Everything the model does keeps the invariant of the handoff.
THEOREM HandoffIsTrue == HandoffSpec => []HandoffInv
  <1>1. HandoffInv /\ [HandoffNext]_handoffVars => HandoffInv'
    BY NextHandoff
  <1> QED BY <1>1, InitHandoff, PTL DEF HandoffSpec

\* A window the sample store agrees to read (read_window) holds only attempts
\* that ended in it, and all of them but those during whose recording the UTC
\* clock was set back behind their stamp, for any capacity and any attempts,
\* whatever was evicted, cancelled or refused.  With a clock that only advances
\* it holds exactly the attempts that ended in it.
THEOREM WindowsAreComplete == HandoffSpec => []WindowIsComplete
  <1>1. HandoffInv => WindowIsComplete
    <2> SUFFICES ASSUME HandoffInv PROVE WindowIsComplete
      OBVIOUS
    <2>1. StoreInv
      BY DEF HandoffInv
    <2>2. \A s, e \in 0..MaxTime :
            Readable(s, e) => /\ Read(s, e) \subseteq Ended(s, e)
                              /\ \A a \in Ended(s, e) \ Read(s, e) : ~monotonic /\ done[a].behind
      BY <2>1, ReadableWindow
    <2> QED BY <2>1, <2>2 DEF WindowIsComplete, StoreInv
  <1> QED BY <1>1, HandoffIsTrue, PTL

\* The records of a snapshot say what the attempts that ended in its window
\* did.
SnapshotSays(x) ==
  /\ DOMAIN x.records = {Target[a] : a \in Ended(x.from, x.to)}
  /\ \A t \in DOMAIN x.records :
       Says(x.records[t], {a \in Ended(x.from, x.to) : Target[a] = t}, done)

\* A true snapshot is one its contract accepts, and while the clock only
\* advances it says what happened.
LEMMA TrueSnapshotsTell ==
  ASSUME NEW x, TrueSnapshot(x)
  PROVE  /\ x # Rejected
         /\ monotonic => SnapshotSays(x)
  <1>1. PICK W \in SUBSET Samples : \E s, e, c \in 0..MaxTime :
          /\ W # {} /\ TrueWindow(W, s, e)
          /\ x = [from |-> s, to |-> e, captured |-> c, records |-> AggregateRecords(W)]
    BY DEF TrueSnapshot
  <1>2. PICK s \in 0..MaxTime, e \in 0..MaxTime, c \in 0..MaxTime :
          /\ W # {} /\ TrueWindow(W, s, e)
          /\ x = [from |-> s, to |-> e, captured |-> c, records |-> AggregateRecords(W)]
    BY <1>1
  <1> DEFINE R == AggregateRecords(W)
  <1>3. /\ DOMAIN R = {Target[y.attempt] : y \in W} /\ DOMAIN R \in SUBSET Range(Target)
        /\ \A t \in DOMAIN R :
             /\ OfTarget(W, t) \in SUBSET Samples /\ IsFiniteSet(OfTarget(W, t))
             /\ OfTarget(W, t) # {} /\ R[t] = RecordOf(OfTarget(W, t))
        /\ R \in [DOMAIN R -> Records]
    BY <1>2, Aggregated, Zenon DEF TrueWindow
  <1> HIDE DEF R
  <1>4. x = [from |-> s, to |-> e, captured |-> c, records |-> R]
    BY <1>2 DEF R
  <1>5. x \in Snapshots
    BY <1>3, <1>4, Zenon DEF Snapshots
  <1>6. ASSUME monotonic PROVE Ended(s, e) = {y.attempt : y \in W}
    <2>1. \A a \in Ended(s, e) : \E y \in W : y.attempt = a
      BY <1>2, <1>6 DEF TrueWindow, Covered
    <2>2. \A y \in W : y.attempt \in Ended(s, e)
      <3> TAKE y \in W
      <3>1. /\ y.attempt \in Attempts /\ y.at \in 0..MaxTime
            /\ done[y.attempt].at = y.at /\ s <= y.at /\ y.at < e
        BY <1>2 DEF TrueWindow, Truthful, InWindow, Samples
      <3>2. y.at # NoTime
        BY <3>1, SamplesAssumption DEF NoTime
      <3> QED BY <3>1, <3>2 DEF Ended
    <2> QED BY <2>1, <2>2
  <1>7. ASSUME monotonic, NEW t \in DOMAIN R
        PROVE  Says(R[t], {a \in Ended(s, e) : Target[a] = t}, done)
    <2> DEFINE S == OfTarget(W, t)
               G == {a \in Ended(s, e) : Target[a] = t}
    <2>1. G = {y.attempt : y \in S}
      BY <1>6, <1>7 DEF OfTarget
    <2>2. \A y \in S : done[y.attempt].at = y.at /\ done[y.attempt].outcome = y.outcome
      BY <1>2 DEF OfTarget, TrueWindow, Truthful
    <2>3. S \in SUBSET Samples /\ IsFiniteSet(S) /\ S # {} /\ R[t] = RecordOf(S)
      BY <1>3
    <2> HIDE DEF S, G
    <2> PICK D : D = done
      OBVIOUS
    <2>4. Says(R[t], {y.attempt : y \in S}, D)
      BY <2>2, <2>3, RecordTruth
    <2> QED BY <2>1, <2>4, Zenon DEF G
  <1>8. x # Rejected
    BY <1>5, SamplesAssumption
  <1>9. x.from = s /\ x.to = e /\ x.records = R
    BY <1>4
  <1>10. ASSUME monotonic PROVE DOMAIN R = {Target[a] : a \in Ended(s, e)}
    BY <1>3, <1>6, <1>10
  <1> QED BY <1>7, <1>8, <1>9, <1>10, Zenon DEF SnapshotSays

\* Evidence that was materialized, from the store, from a batch file or from a
\* snapshot file, is never refused by _validate_record, and while the clock
\* only advances its counts and percentiles are and stay those of the attempts
\* that ended in its window: for any attempts, targets, latencies and capacity,
\* and whatever happened to the file in between.
THEOREM EvidenceTellsTruth == HandoffSpec => []EvidenceStaysTrue
  <1>1. HandoffInv => EvidenceStaysTrue
    <2> SUFFICES ASSUME HandoffInv PROVE EvidenceStaysTrue
      OBVIOUS
    <2>1. CASE evidence = NoEvidence
      BY <2>1, SamplesAssumption DEF EvidenceStaysTrue
    <2>2. CASE TrueSnapshot(evidence)
      <3> PICK x : x = evidence
        OBVIOUS
      <3>1. x # Rejected /\ (monotonic => SnapshotSays(x))
        BY <2>2, TrueSnapshotsTell
      <3>2. monotonic => SnapshotSays(evidence)
        BY <3>1
      <3> QED BY <3>1, <3>2, Zenon DEF EvidenceStaysTrue, SnapshotSays, Says
    <2> QED BY <2>1, <2>2 DEF HandoffInv
  <1> QED BY <1>1, HandoffIsTrue, PTL
=============================================================================
