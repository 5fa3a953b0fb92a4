----------------------- MODULE TimesliceManagerProofs -----------------------
(***************************************************************************)
(* Proofs about TimesliceManager, for any pools, GPUs, services, requests, *)
(* priorities, intervals and limits: the types, that the slots of a GPU    *)
(* tile the interval and are fair, and that records and slots agree.       *)
(***************************************************************************)
EXTENDS TimesliceManager, FiniteSetTheorems, FunctionTheorems, SequenceTheorems,
        WellFoundedInduction, TLAPS

-----------------------------------------------------------------------------
(* Numbers. *)

\* A set of natural numbers has a least one.
LEMMA Least ==
  ASSUME NEW T \in SUBSET Nat, T # {}
  PROVE  \E m \in T : \A y \in T : m <= y
<1> DEFINE R == OpToRel(<, Nat)
<1>1. IsWellFoundedOn(R, Nat)
  BY NatLessThanWellFounded
<1>2. \E x \in T : \A y \in T : ~ (<<y, x>> \in R)
  <2> HIDE DEF R
  <2> QED BY <1>1, WFMin
<1>3. PICK x \in T : \A y \in T : ~ (<<y, x>> \in R)
  BY <1>2
<1>4. \A y \in T : ~ (y < x)
  BY <1>3 DEF OpToRel
<1> QED BY <1>4

\* The larger one of two numbers.
LEMMA MaxOfTwo ==
  ASSUME NEW a \in Int, NEW b \in Int
  PROVE  Max({a, b}) = IF a <= b THEN b ELSE a
<1>1. \E x \in {a, b} : \A y \in {a, b} : x >= y
  BY a <= b \/ b <= a
<1> QED BY <1>1 DEF Max

\* Whole quotients.
LEMMA Quotient ==
  ASSUME NEW a \in Nat, NEW b \in Nat, b # 0
  PROVE  /\ a \div b \in Nat
         /\ (a \div b) * b <= a /\ a < (a \div b + 1) * b
OBVIOUS

\* A wrapped number is one of its type, and a number of the type stays what it is.
LEMMA WrapFacts ==
  ASSUME NEW x \in Int, NEW h \in Nat \ {0}
  PROVE  /\ Wrap(x, h) \in Int /\ Wrap(x, h) \in (-h)..(h - 1)
         /\ x \in (-h)..(h - 1) => Wrap(x, h) = x
<1> DEFINE b == 2 * h
           y == x + h
           r == y % b
<1>1. b \in Nat \ {0} /\ y \in Int
  OBVIOUS
<1>2. Wrap(x, h) = r - h
  BY DEF Wrap
<1>3. r \in 0..(b - 1)
  <2> HIDE DEF b, y
  <2> QED BY <1>1
<1>4. ASSUME x \in (-h)..(h - 1) PROVE r = y
  <2>1. y \in 0..(b - 1)
    BY <1>4
  <2> HIDE DEF b, y
  <2> QED BY <1>1, <2>1
<1> HIDE DEF r
<1> QED BY <1>2, <1>3, <1>4

\* The same of the two types.
LEMMA IntFacts ==
  ASSUME NEW x \in Int
  PROVE  /\ Int32(x) \in Int /\ Int32(x) \in (-Half32)..(Half32 - 1)
         /\ x \in (-Half32)..(Half32 - 1) => Int32(x) = x
         /\ Int64(x) \in Int /\ Int64(x) \in Durations
         /\ x \in Durations => Int64(x) = x
BY WrapFacts, TimesliceAssumption DEF Int32, Int64, Durations

\* The function that SumTo computes exists.
LEMMA SumExists ==
  ASSUME NEW f, NEW n \in Nat
  PROVE  \E g : g = [k \in 0..n |-> IF k = 0 THEN 0 ELSE g[k - 1] + f[k]]
<1> DEFINE Eq(g, m) == g = [k \in 0..m |-> IF k = 0 THEN 0 ELSE g[k - 1] + f[k]]
           T == {m \in Nat : ~ \E g : Eq(g, m)}
<1>1. SUFFICES ASSUME T # {} PROVE FALSE
  OBVIOUS
<1>2. PICK m \in T : \A y \in T : m <= y
  <2>1. T \in SUBSET Nat
    OBVIOUS
  <2> HIDE DEF T
  <2> QED BY <1>1, <2>1, Least
<1>3. m \in Nat /\ (m # 0 => m - 1 \in Nat /\ m - 1 \notin T)
  <2>1. T \subseteq Nat
    OBVIOUS
  <2> HIDE DEF T
  <2> QED BY <1>2, <2>1
<1>4. CASE m = 0
  <2>1. Eq([k \in 0..0 |-> 0], 0)
    OBVIOUS
  <2> HIDE DEF Eq
  <2> QED BY <1>2, <1>4, <2>1
<1>5. CASE m # 0
  <2>1. PICK g : Eq(g, m - 1)
    <3> HIDE DEF Eq
    <3> QED BY <1>3, <1>5
  <2> DEFINE h == [k \in 0..m |-> IF k = m THEN g[m - 1] + f[m] ELSE g[k]]
  <2>2. ASSUME NEW k \in 0..m
        PROVE  h[k] = IF k = 0 THEN 0 ELSE h[k - 1] + f[k]
    <3>1. CASE k = m
      BY <1>3, <1>5, <3>1
    <3>2. CASE k # m
      <4>1. k \in 0..(m - 1) /\ (k # 0 => k - 1 \in 0..m /\ k - 1 # m)
        BY <1>3, <3>2
      <4>2. g[k] = IF k = 0 THEN 0 ELSE g[k - 1] + f[k]
        BY <2>1, <4>1
      <4> QED BY <3>2, <4>1, <4>2
    <3> QED BY <3>1, <3>2
  <2>3. Eq(h, m)
    BY <2>2
  <2> HIDE DEF Eq, h
  <2> QED BY <1>2, <2>3
<1> QED BY <1>4, <1>5

\* The first sums are those of one function.
LEMMA SumSteps ==
  ASSUME NEW f, NEW n \in Nat, DOMAIN f = 1..n, \A k \in 1..n : f[k] \in Int
  PROVE  /\ SumTo(f, 0) = 0
         /\ \A k \in 1..n : SumTo(f, k) = SumTo(f, k - 1) + f[k]
         /\ \A k \in 0..n : SumTo(f, k) \in Int
<1> DEFINE Eq(g) == g = [k \in 0..n |-> IF k = 0 THEN 0 ELSE g[k - 1] + f[k]]
           sum == CHOOSE g : Eq(g)
<1>1. {0} \cup DOMAIN f = 0..n
  OBVIOUS
<1>2. \A k : SumTo(f, k) = sum[k]
  BY <1>1 DEF SumTo
<1>3. Eq(sum)
  <2>1. \E g : Eq(g)
    BY SumExists
  <2> HIDE DEF Eq
  <2> QED BY <2>1
<1> HIDE DEF sum
<1>4. sum[0] = 0 /\ \A k \in 1..n : sum[k] = sum[k - 1] + f[k]
  <2>1. \A k \in 0..n : sum[k] = IF k = 0 THEN 0 ELSE sum[k - 1] + f[k]
    BY <1>3
  <2> QED BY <2>1
<1> HIDE DEF Eq
<1>5. \A k \in 0..n : sum[k] \in Int
  <2> DEFINE T == {k \in 0..n : sum[k] \notin Int}
  <2>1. SUFFICES ASSUME T # {} PROVE FALSE
    OBVIOUS
  <2>2. T \in SUBSET Nat
    OBVIOUS
  <2>3. PICK m \in T : \A y \in T : m <= y
    <3> HIDE DEF T
    <3> QED BY <2>1, <2>2, Least
  <2>4. m # 0 /\ m \in 1..n /\ m - 1 \in 0..n /\ m - 1 \notin T
    <3>1. m # 0 /\ m \in 0..n
      BY <1>4
    <3> HIDE DEF T
    <3> QED BY <2>3, <3>1
  <2> QED BY <1>4, <2>3, <2>4
<1> QED BY <1>2, <1>4, <1>5

\* Sums of natural numbers grow.
LEMMA SumFacts ==
  ASSUME NEW f, NEW n \in Nat, DOMAIN f = 1..n, \A k \in 1..n : f[k] \in Nat
  PROVE  /\ SumTo(f, 0) = 0
         /\ \A k \in 1..n : SumTo(f, k) = SumTo(f, k - 1) + f[k]
         /\ \A k \in 0..n : SumTo(f, k) \in Nat /\ SumTo(f, k) <= SumTo(f, n)
<1> DEFINE sum(k) == SumTo(f, k)
<1>0. \A k \in 1..n : f[k] \in Int
  OBVIOUS
<1>1. /\ sum(0) = 0 /\ \A k \in 1..n : sum(k) = sum(k - 1) + f[k]
      /\ \A k \in 0..n : sum(k) \in Int
  BY <1>0, SumSteps
<1> HIDE DEF sum
<1>2. \A k \in 0..n : sum(k) \in Nat
  <2> DEFINE T == {k \in 0..n : sum(k) \notin Nat}
  <2>1. SUFFICES ASSUME T # {} PROVE FALSE
    OBVIOUS
  <2>2. T \in SUBSET Nat
    OBVIOUS
  <2>3. PICK m \in T : \A y \in T : m <= y
    <3> HIDE DEF T
    <3> QED BY <2>1, <2>2, Least
  <2>4. m # 0 /\ m \in 1..n /\ m - 1 \in 0..n /\ m - 1 \notin T
    <3>1. m # 0 /\ m \in 0..n
      BY <1>1
    <3> HIDE DEF T
    <3> QED BY <2>3, <3>1
  <2> QED BY <1>1, <2>3, <2>4
<1>3. \A k \in 0..n : sum(k) <= sum(n)
  <2> DEFINE T == {d \in 0..n : ~ (sum(n - d) <= sum(n))}
  <2>1. SUFFICES ASSUME T # {} PROVE FALSE
    <3>1. \A k \in 0..n : n - k \in 0..n /\ n - (n - k) = k
      OBVIOUS
    <3> QED BY <2>1, <3>1
  <2>2. T \in SUBSET Nat
    OBVIOUS
  <2>3. PICK m \in T : \A y \in T : m <= y
    <3> HIDE DEF T
    <3> QED BY <2>1, <2>2, Least
  <2>4. m \in 0..n /\ m # 0
    BY <1>1
  <2>5. m - 1 \in 0..n /\ m - 1 \notin T /\ n - (m - 1) \in 1..n /\ (n - (m - 1)) - 1 = n - m
    <3> HIDE DEF T
    <3> QED BY <2>3, <2>4
  <2>6. sum(n - (m - 1)) = sum(n - m) + f[n - (m - 1)] /\ f[n - (m - 1)] \in Nat
    BY <1>1, <2>5
  <2>7. sum(n - m) \in Int /\ sum(n) \in Int /\ sum(n - (m - 1)) <= sum(n)
    BY <1>1, <2>4, <2>5
  <2> QED BY <2>3, <2>6, <2>7
<1> QED BY <1>1, <1>2, <1>3 DEF sum

\* The sum of equal numbers.
LEMMA SumOfEqual ==
  ASSUME NEW f, NEW n \in Nat, DOMAIN f = 1..n, NEW c \in Int, \A k \in 1..n : f[k] = c
  PROVE  \A k \in 0..n : SumTo(f, k) = k * c
<1> DEFINE T == {k \in 0..n : SumTo(f, k) # k * c}
<1>1. SUFFICES ASSUME T # {} PROVE FALSE
  OBVIOUS
<1>2. /\ SumTo(f, 0) = 0 /\ \A k \in 1..n : SumTo(f, k) = SumTo(f, k - 1) + f[k]
  BY SumSteps
<1>3. PICK m \in T : \A y \in T : m <= y
  <2>1. T \in SUBSET Nat
    OBVIOUS
  <2> HIDE DEF T
  <2> QED BY <1>1, <2>1, Least
<1>4. m # 0 /\ m \in 1..n /\ m - 1 \in 0..n /\ m - 1 \notin T
  <2>1. m # 0 /\ m \in 0..n
    BY <1>2
  <2> HIDE DEF T
  <2> QED BY <1>3, <2>1
<1>5. SumTo(f, m - 1) = (m - 1) * c /\ SumTo(f, m) = SumTo(f, m - 1) + c
  BY <1>2, <1>4
<1>6. (m - 1) * c + c = m * c
  BY <1>4
<1> QED BY <1>3, <1>5, <1>6


-----------------------------------------------------------------------------
(* Sorting. *)

\* A slot's priority is a number.
LEMMA SlotFacts ==
  ASSUME NEW slots \in Seq(TimeSlot)
  PROVE  /\ Len(slots) \in Nat /\ DOMAIN slots = 1..Len(slots) /\ IsFiniteSet(DOMAIN slots)
         /\ \A i \in DOMAIN slots : slots[i] \in TimeSlot /\ slots[i].Priority \in Int
<1>1. Len(slots) \in Nat /\ DOMAIN slots = 1..Len(slots)
  BY LenProperties
<1>2. IsFiniteSet(1..Len(slots))
  BY <1>1, FS_Interval
<1>3. \A i \in DOMAIN slots : slots[i] \in TimeSlot
  BY <1>1, ElementOfSeq
<1>4. \A x \in TimeSlot : x.Priority \in Int
  <2>1. \A x \in TimeSlot : x.Priority \in Priorities
    BY DEF TimeSlot
  <2>2. Priorities \subseteq Int
    BY TimesliceAssumption
  <2> QED BY <2>1, <2>2
<1> QED BY <1>1, <1>2, <1>3, <1>4

\* The ranks of the slots at the positions K are the numbers up to their count.
LEMMA RankFacts ==
  ASSUME NEW slots \in Seq(TimeSlot), NEW K \in SUBSET DOMAIN slots
  PROVE  /\ IsFiniteSet(K) /\ Cardinality(K) \in Nat
         /\ [i \in K |-> Rank(slots, K, i)] \in Bijection(K, 1..Cardinality(K))
<1> DEFINE C == Cardinality(K)
           Upto(i) == {j \in K : \/ slots[j].Priority > slots[i].Priority
                                 \/ slots[j].Priority = slots[i].Priority /\ j <= i}
           rank == [i \in K |-> Rank(slots, K, i)]
<1>1. /\ \A i \in K : i \in Nat /\ slots[i].Priority \in Int
      /\ IsFiniteSet(K) /\ C \in Nat
  <2>1. IsFiniteSet(DOMAIN slots) /\ \A i \in K : i \in Nat /\ slots[i].Priority \in Int
    BY SlotFacts
  <2>2. IsFiniteSet(K)
    BY <2>1, FS_Subset
  <2> QED BY <2>1, <2>2, FS_CardinalityType
<1>2. \A i \in K : rank[i] = Cardinality(Upto(i))
  BY DEF Rank
<1>3. ASSUME NEW i \in K
      PROVE  /\ i \in Upto(i) /\ Upto(i) \in SUBSET K /\ IsFiniteSet(Upto(i))
             /\ Cardinality(Upto(i)) \in 1..C
  <2>1. i \in Upto(i) /\ Upto(i) \in SUBSET K
    BY <1>1
  <2> HIDE DEF Upto
  <2>2. IsFiniteSet(Upto(i)) /\ Cardinality(Upto(i)) <= C
    BY <1>1, <2>1, FS_Subset
  <2>3. Cardinality(Upto(i)) \in Nat
    BY <2>2, FS_CardinalityType
  <2>4. Cardinality(Upto(i)) # 0
    BY <2>1, <2>2, FS_EmptySet
  <2> QED BY <1>1, <2>1, <2>2, <2>3, <2>4
<1>4. ASSUME NEW i \in K, NEW j \in K, i # j PROVE rank[i] # rank[j]
  <2>1. ASSUME NEW a \in K, NEW b \in K, Upto(a) \subseteq Upto(b), b \notin Upto(a)
        PROVE  Cardinality(Upto(a)) # Cardinality(Upto(b))
    <3>1. Upto(a) # Upto(b) /\ IsFiniteSet(Upto(b)) /\ Upto(a) \in SUBSET Upto(b)
      BY <1>3, <2>1
    <3> HIDE DEF Upto
    <3> QED BY <3>1, FS_Subset
  <2>2. \/ Upto(i) \subseteq Upto(j) /\ j \notin Upto(i)
        \/ Upto(j) \subseteq Upto(i) /\ i \notin Upto(j)
    BY <1>1, <1>4
  <2> HIDE DEF Upto
  <2>3. CASE Upto(i) \subseteq Upto(j) /\ j \notin Upto(i)
    BY <1>2, <2>1, <2>3
  <2>4. CASE Upto(j) \subseteq Upto(i) /\ i \notin Upto(j)
    BY <1>2, <2>1, <2>4
  <2> QED BY <2>2, <2>3, <2>4
<1>5. rank \in Injection(K, 1..C)
  <2>1. rank \in [K -> 1..C]
    <3>1. \A i \in K : rank[i] \in 1..C
      BY <1>2, <1>3
    <3> QED BY <3>1
  <2> HIDE DEF rank
  <2> QED BY <1>4, <2>1 DEF Injection, IsInjective
<1>6. rank \in Surjection(K, 1..C)
  <2> HIDE DEF rank, C
  <2>1. IsFiniteSet(1..C) /\ Cardinality(1..C) = C
    <3>1. 1 \in Int /\ C \in Int
      BY <1>1
    <3>2. IsFiniteSet(1..C) /\ Cardinality(1..C) = IF 1 > C THEN 0 ELSE C - 1 + 1
      BY <3>1, FS_Interval
    <3> QED BY <1>1, <3>2
  <2>2. Cardinality(K) = Cardinality(1..C)
    BY <2>1 DEF C
  <2> QED BY <1>5, <2>1, <2>2, FS_Injection
<1> QED BY <1>1, <1>5, <1>6 DEF Bijection

\* Sorting puts each of the slots at the positions K at one place.
LEMMA SortFacts ==
  ASSUME NEW slots \in Seq(TimeSlot), NEW K \in SUBSET DOMAIN slots
  PROVE  /\ IsFiniteSet(K) /\ Cardinality(K) \in Nat /\ Cardinality(K) <= Len(slots)
         /\ ByPriority(slots, K) \in Seq(TimeSlot) /\ Len(ByPriority(slots, K)) = Cardinality(K)
         /\ \E pos \in Bijection(1..Cardinality(K), K) :
              \A n \in 1..Cardinality(K) : ByPriority(slots, K)[n] = slots[pos[n]]
<1> DEFINE C == Cardinality(K)
           rank == [i \in K |-> Rank(slots, K, i)]
           pos == [n \in 1..C |-> CHOOSE i \in K : Rank(slots, K, i) = n]
<1>1. IsFiniteSet(K) /\ C \in Nat /\ rank \in Bijection(K, 1..C)
  BY RankFacts
<1>2. C <= Len(slots)
  <2>1. Len(slots) \in Nat /\ IsFiniteSet(DOMAIN slots) /\ Cardinality(DOMAIN slots) = Len(slots)
    BY SlotFacts, FS_Interval
  <2> QED BY <2>1, FS_Subset
<1>3. /\ \A i \in K : rank[i] \in 1..C
      /\ \A i, j \in K : rank[i] = rank[j] => i = j
      /\ \A n \in 1..C : \E i \in K : rank[i] = n
  <2> HIDE DEF rank, C
  <2> QED BY <1>1 DEF Bijection, Injection, Surjection, IsInjective
<1>4. \A n \in 1..C : pos[n] \in K /\ rank[pos[n]] = n
  BY <1>3
<1>5. pos \in Bijection(1..C, K)
  <2>1. pos \in [1..C -> K]
    BY <1>4
  <2> HIDE DEF pos
  <2>2. \A a, b \in 1..C : pos[a] = pos[b] => a = b
    BY <1>4
  <2>3. ASSUME NEW i \in K PROVE \E n \in 1..C : pos[n] = i
    <3>1. rank[i] \in 1..C /\ pos[rank[i]] \in K /\ rank[pos[rank[i]]] = rank[i]
      BY <1>3, <1>4
    <3> HIDE DEF rank
    <3>2. pos[rank[i]] = i
      BY <1>3, <3>1
    <3> QED BY <3>1, <3>2
  <2> HIDE DEF C
  <2> QED BY <2>1, <2>2, <2>3 DEF Bijection, Injection, Surjection, IsInjective
<1>6. DOMAIN ByPriority(slots, K) = 1..C /\ \A n \in 1..C : ByPriority(slots, K)[n] = slots[pos[n]]
  BY DEF ByPriority
<1>7. ByPriority(slots, K) \in [1..C -> TimeSlot]
  <2>1. \A i \in K : slots[i] \in TimeSlot
    BY SlotFacts
  <2>2. \A n \in 1..C : slots[pos[n]] \in TimeSlot
    BY <1>4, <2>1
  <2> HIDE DEF pos
  <2>3. ByPriority(slots, K) = [n \in 1..C |-> slots[pos[n]]]
    BY <1>6 DEF ByPriority, pos
  <2> HIDE DEF C
  <2> QED BY <2>2, <2>3
<1>8. ByPriority(slots, K) \in Seq(TimeSlot) /\ Len(ByPriority(slots, K)) = C
  <2> DEFINE b == ByPriority(slots, K)
  <2>1. b \in [1..C -> TimeSlot]
    BY <1>7
  <2> HIDE DEF b, C
  <2>2. b \in Seq(TimeSlot)
    BY <1>1, <2>1, SeqDef
  <2>3. Len(b) = C
    BY <1>1, <2>1, <2>2, LenProperties
  <2> QED BY <2>2, <2>3 DEF b
<1> HIDE DEF pos
<1> QED BY <1>1, <1>2, <1>5, <1>6, <1>8


-----------------------------------------------------------------------------
(* Shares. *)

\* The total weight.
TotalPriority(slots) == Int32(SumTo(Weights(slots), Len(slots)))

\* The weights of slots and their sum.
LEMMA WeightFacts ==
  ASSUME NEW slots \in Seq(TimeSlot)
  PROVE  /\ Len(slots) \in Nat /\ DOMAIN Weights(slots) = 1..Len(slots)
         /\ \A i \in 1..Len(slots) : /\ Weights(slots)[i] = Int32(slots[i].Priority + 1)
                                     /\ Weights(slots)[i] \in Int
         /\ TotalPriority(slots) \in Int
<1> DEFINE n == Len(slots)
           w == Weights(slots)
<1>1. n \in Nat /\ DOMAIN slots = 1..n /\ \A i \in 1..n : slots[i].Priority + 1 \in Int
  BY SlotFacts
<1>2. /\ DOMAIN w = 1..n
      /\ \A i \in 1..n : w[i] = Int32(slots[i].Priority + 1) /\ w[i] \in Int
  BY <1>1, IntFacts DEF Weights
<1> HIDE DEF w, n
<1>3. SumTo(w, n) \in Int
  BY <1>1, <1>2, SumSteps
<1> QED BY <1>1, <1>2, <1>3, IntFacts DEF w, n, TotalPriority

\* A weighted share is a Duration.
LEMMA ShareRange ==
  ASSUME NEW weight \in Int, NEW total \in Int, NEW interval \in Nat
  PROVE  Share(weight, total, interval) \in Int /\ Share(weight, total, interval) \in Durations
<1> DEFINE a == interval * Abs(weight)
           b == Abs(total)
           q == a \div b
<1>1. a \in Nat /\ b \in Nat /\ (total # 0 => b # 0)
  <2>1. Abs(weight) \in Nat /\ b \in Nat /\ (total # 0 => b # 0)
    BY DEF Abs
  <2> HIDE DEF b
  <2> QED BY <2>1
<1> HIDE DEF a, b
<1>2. total # 0 => q \in Nat
  BY <1>1, Quotient
<1>3. Half64 \in Nat \ {0} /\ Beyond \in Int /\ Beyond \in Durations /\ 0 \in Durations
  BY TimesliceAssumption DEF Durations
<1>4. Share(weight, total, interval) =
        CASE total = 0 -> IF weight > 0 THEN Beyond ELSE 0
          [] (weight < 0) # (total < 0) -> 0
          [] OTHER -> IF q < Half64 THEN q ELSE Beyond
  BY DEF Share, q, a, b
<1> HIDE DEF q
<1>5. CASE total = 0
  <2>1. Share(weight, total, interval) = IF weight > 0 THEN Beyond ELSE 0
    BY <1>4, <1>5
  <2> QED BY <1>3, <2>1
<1>6. CASE total # 0
  <2>1. Share(weight, total, interval) \in {0, IF q < Half64 THEN q ELSE Beyond}
    BY <1>4, <1>6
  <2>2. q < Half64 => q \in Durations
    BY <1>2, <1>3, <1>6 DEF Durations
  <2> QED BY <1>2, <1>3, <1>6, <2>1, <2>2
<1> QED BY <1>5, <1>6

\* What a slot gets.
LEMMA ShareFacts ==
  ASSUME NEW slots \in Seq(TimeSlot), NEW interval \in Nat
  PROVE  /\ DOMAIN Shares(slots, interval) = 1..Len(slots)
         /\ \A i \in 1..Len(slots) :
              LET q == Share(Weights(slots)[i], TotalPriority(slots), interval)
              IN  /\ Shares(slots, interval)[i] = IF MinDuration <= q THEN q ELSE MinDuration
                  /\ Shares(slots, interval)[i] \in Nat
                  /\ Shares(slots, interval)[i] >= MinDuration
<1> DEFINE n == Len(slots)
           total == TotalPriority(slots)
           w == Weights(slots)
           Q(i) == Share(w[i], total, interval)
<1>1. n \in Nat /\ DOMAIN slots = 1..n /\ MinDuration \in Nat
  BY SlotFacts, TimesliceAssumption
<1>2. Shares(slots, interval) = [i \in 1..n |-> Max({MinDuration, Q(i)})]
  BY <1>1 DEF Shares, TotalPriority
<1>3. total \in Int /\ \A i \in 1..n : w[i] \in Int
  BY WeightFacts
<1> HIDE DEF total, w, n
<1>4. \A i \in 1..n : Q(i) \in Int
  BY <1>3, ShareRange
<1> HIDE DEF Q
<1>5. \A i \in 1..n : Max({MinDuration, Q(i)}) = IF MinDuration <= Q(i) THEN Q(i) ELSE MinDuration
  BY <1>1, <1>4, MaxOfTwo
<1>6. ASSUME NEW i \in 1..n
      PROVE  LET q == Share(w[i], total, interval)
             IN  /\ Shares(slots, interval)[i] = IF MinDuration <= q THEN q ELSE MinDuration
                 /\ Shares(slots, interval)[i] \in Nat
                 /\ Shares(slots, interval)[i] >= MinDuration
  <2> DEFINE q == Share(w[i], total, interval)
  <2>1. q \in Int /\ Shares(slots, interval)[i] = IF MinDuration <= q THEN q ELSE MinDuration
    BY <1>2, <1>4, <1>5 DEF Q
  <2> HIDE DEF q
  <2>2. Shares(slots, interval)[i] \in Nat /\ Shares(slots, interval)[i] >= MinDuration
    BY <1>1, <2>1
  <2> QED BY <2>1, <2>2 DEF q
<1>7. DOMAIN Shares(slots, interval) = 1..n
  BY <1>2
<1> QED BY <1>6, <1>7 DEF n, total, w

\* What is left of the interval behind the last slot.
Left(slots, interval) ==
  LET offset == Int64(SumTo(Shares(slots, interval), Len(slots)))
  IN  IF offset < interval THEN interval - offset ELSE 0

\* Where rebalanceSlots puts sorted slots, and for how long.
LEMMA PlacedFacts ==
  ASSUME NEW slots \in Seq(TimeSlot), NEW interval \in Nat
  PROVE  LET P == Placed(slots, interval)
             shares == Shares(slots, interval)
         IN  /\ P \in Seq(TimeSlot) /\ Len(P) = Len(slots) /\ DOMAIN P = DOMAIN slots
             /\ \A i \in 1..Len(slots) :
                  /\ P[i].svc = slots[i].svc /\ P[i].n = slots[i].n
                  /\ P[i].Priority = slots[i].Priority
                  /\ P[i].StartOffset = Int64(SumTo(shares, i - 1))
                  /\ P[i].Duration =
                       Int64(shares[i] + IF i = Len(slots) THEN Left(slots, interval) ELSE 0)
             /\ Left(slots, interval) \in Nat
<1> DEFINE P == Placed(slots, interval)
           shares == Shares(slots, interval)
           n == Len(slots)
           left == Left(slots, interval)
<1>1. n \in Nat /\ DOMAIN slots = 1..n /\ \A i \in 1..n : slots[i] \in TimeSlot
  BY SlotFacts
<1>2. DOMAIN shares = 1..n /\ \A i \in 1..n : shares[i] \in Nat
  BY ShareFacts
<1>3. P = [i \in 1..n |-> [slots[i] EXCEPT !.StartOffset = Int64(SumTo(shares, i - 1)),
                                         !.Duration = Int64(shares[i] + IF i = n THEN left ELSE 0)]]
  BY <1>1 DEF Placed, Left
<1> HIDE DEF shares, P
<1>4. \A k \in 0..n : SumTo(shares, k) \in Nat
  BY <1>1, <1>2, SumFacts
<1>5. left \in Nat
  <2> DEFINE offset == Int64(SumTo(shares, n))
  <2>1. SumTo(shares, n) \in Int
    BY <1>1, <1>4
  <2>2. offset \in Int
    BY <2>1, IntFacts
  <2>3. left = IF offset < interval THEN interval - offset ELSE 0
    BY DEF Left, shares
  <2> HIDE DEF offset
  <2> QED BY <2>2, <2>3
<1> HIDE DEF left, n
<1>6. ASSUME NEW i \in 1..n
      PROVE  /\ P[i] \in TimeSlot /\ P[i].svc = slots[i].svc /\ P[i].n = slots[i].n
             /\ P[i].Priority = slots[i].Priority
             /\ P[i].StartOffset = Int64(SumTo(shares, i - 1))
             /\ P[i].Duration = Int64(shares[i] + IF i = n THEN left ELSE 0)
  <2> DEFINE o == Int64(SumTo(shares, i - 1))
             d == Int64(shares[i] + IF i = n THEN left ELSE 0)
  <2>1. o \in Durations /\ d \in Durations
    <3>1. SumTo(shares, i - 1) \in Int /\ shares[i] + (IF i = n THEN left ELSE 0) \in Int
      BY <1>1, <1>2, <1>4, <1>5
    <3> QED BY <3>1, IntFacts
  <2> HIDE DEF o, d
  <2>2. P[i] = [slots[i] EXCEPT !.StartOffset = o, !.Duration = d]
    BY <1>3 DEF o, d
  <2>3. slots[i] \in TimeSlot
    BY <1>1
  <2>4. /\ P[i] \in TimeSlot /\ P[i].svc = slots[i].svc /\ P[i].n = slots[i].n
        /\ P[i].Priority = slots[i].Priority /\ P[i].StartOffset = o /\ P[i].Duration = d
    BY <2>1, <2>2, <2>3 DEF TimeSlot
  <2> QED BY <2>4 DEF o, d
<1>7. P \in [1..n -> TimeSlot]
  <2>1. DOMAIN P = 1..n /\ P = [i \in 1..n |-> P[i]]
    BY <1>3
  <2> QED BY <1>6, <2>1
<1>8. P \in Seq(TimeSlot) /\ Len(P) = n /\ DOMAIN P = DOMAIN slots
  <2>1. P \in Seq(TimeSlot)
    BY <1>1, <1>7, SeqDef
  <2> QED BY <1>1, <1>7, <2>1, LenProperties
<1> QED BY <1>5, <1>6, <1>8 DEF P, shares, left, n

\* Slots that are in place stay there: shares depend on the priorities only.
LEMMA PlacedAgain ==
  ASSUME NEW slots \in Seq(TimeSlot), NEW interval \in Nat
  PROVE  Placed(Placed(slots, interval), interval) = Placed(slots, interval)
<1> DEFINE P == Placed(slots, interval)
           n == Len(slots)
<1>1. /\ n \in Nat /\ DOMAIN slots = 1..n /\ DOMAIN P = 1..n /\ P \in Seq(TimeSlot) /\ Len(P) = n
      /\ \A i \in 1..n : P[i].Priority = slots[i].Priority
  BY SlotFacts, PlacedFacts
<1> HIDE DEF P
<1>2. Weights(P) = Weights(slots)
  BY <1>1 DEF Weights
<1>3. Shares(P, interval) = Shares(slots, interval)
  <2> DEFINE w == Weights(slots)
             total == TotalPriority(slots)
  <2>1. /\ Shares(P, interval) =
             [i \in 1..n |-> Max({MinDuration, Share(w[i], total, interval)})]
        /\ Shares(slots, interval) =
             [i \in 1..n |-> Max({MinDuration, Share(w[i], total, interval)})]
    BY <1>1, <1>2 DEF Shares, TotalPriority
  <2> HIDE DEF total, w, n
  <2> QED BY <2>1
<1>4. Left(P, interval) = Left(slots, interval)
  BY <1>1, <1>3 DEF Left
<1> DEFINE Q == Placed(P, interval)
<1>5. /\ Q \in Seq(TimeSlot) /\ Len(Q) = n
      /\ \A i \in 1..n :
           /\ Q[i].svc = P[i].svc /\ Q[i].n = P[i].n /\ Q[i].Priority = P[i].Priority
           /\ Q[i].StartOffset = Int64(SumTo(Shares(slots, interval), i - 1))
           /\ Q[i].Duration = Int64(Shares(slots, interval)[i] +
                                      IF i = n THEN Left(slots, interval) ELSE 0)
  <2>1. /\ Q \in Seq(TimeSlot) /\ Len(Q) = Len(P)
        /\ \A i \in 1..Len(P) :
             /\ Q[i].svc = P[i].svc /\ Q[i].n = P[i].n /\ Q[i].Priority = P[i].Priority
             /\ Q[i].StartOffset = Int64(SumTo(Shares(P, interval), i - 1))
             /\ Q[i].Duration = Int64(Shares(P, interval)[i] +
                                        IF i = Len(P) THEN Left(P, interval) ELSE 0)
    BY <1>1, PlacedFacts
  <2> HIDE DEF Q
  <2> QED BY <1>1, <1>3, <1>4, <2>1
<1>6. \A i \in 1..n :
        /\ P[i].StartOffset = Int64(SumTo(Shares(slots, interval), i - 1))
        /\ P[i].Duration = Int64(Shares(slots, interval)[i] +
                                   IF i = n THEN Left(slots, interval) ELSE 0)
  BY PlacedFacts DEF P
<1> HIDE DEF Q, n
<1>7. ASSUME NEW i \in 1..n PROVE Q[i] = P[i]
  <2>1. Q[i] \in TimeSlot /\ P[i] \in TimeSlot
    BY <1>1, <1>5, ElementOfSeq
  <2>2. \A x, y \in TimeSlot :
          /\ x.svc = y.svc /\ x.n = y.n /\ x.Priority = y.Priority
          /\ x.StartOffset = y.StartOffset /\ x.Duration = y.Duration
          => x = y
    BY DEF TimeSlot
  <2> QED BY <1>5, <1>6, <2>1, <2>2
<1>8. Q = P
  BY <1>1, <1>5, <1>7, SeqEqual
<1> QED BY <1>8 DEF Q, P


\* Slots that are as rebalanceSlots leaves them.
Settled(slots, interval) == Placed(slots, interval) = slots

\* Where they are if a Duration holds the sum of their shares.
LEMMA SettledExact ==
  ASSUME NEW slots \in Seq(TimeSlot), NEW interval \in 1..(Half64 - 1), Settled(slots, interval),
         SumTo(Shares(slots, interval), Len(slots)) < Half64
  PROVE  LET n == Len(slots)
             f == Shares(slots, interval)
             left == Left(slots, interval)
         IN  /\ \A k \in 1..n : /\ slots[k].StartOffset = SumTo(f, k - 1)
                                /\ slots[k].Duration = f[k] + IF k = n THEN left ELSE 0
             /\ left = IF SumTo(f, n) < interval THEN interval - SumTo(f, n) ELSE 0
             /\ left \in Nat
<1> DEFINE n == Len(slots)
           f == Shares(slots, interval)
           left == Left(slots, interval)
           sum(k) == SumTo(f, k)
<1>1. n \in Nat /\ interval \in Nat /\ Half64 \in Nat /\ interval < Half64
  BY SlotFacts, TimesliceAssumption
<1>2. DOMAIN f = 1..n /\ \A k \in 1..n : f[k] \in Nat
  BY <1>1, ShareFacts
<1>3. \A k \in 1..n : /\ slots[k].StartOffset = Int64(sum(k - 1))
                       /\ slots[k].Duration = Int64(f[k] + IF k = n THEN left ELSE 0)
  BY <1>1, PlacedFacts DEF Settled
<1>4. left = IF Int64(sum(n)) < interval THEN interval - Int64(sum(n)) ELSE 0
  BY DEF Left
<1>5. sum(n) < Half64
  OBVIOUS
<1> HIDE DEF f, left, n
<1>6. /\ \A k \in 1..n : sum(k) = sum(k - 1) + f[k]
      /\ \A k \in 0..n : sum(k) \in Nat /\ sum(k) <= sum(n)
  BY <1>1, <1>2, SumFacts
<1> HIDE DEF sum
<1>7. \A x \in Nat : x < Half64 => Int64(x) = x
  <2>1. \A x \in Nat : x < Half64 => x \in Durations
    BY <1>1 DEF Durations
  <2> QED BY <2>1, IntFacts
<1>8. \A k \in 0..n : Int64(sum(k)) = sum(k)
  <2> SUFFICES ASSUME NEW k \in 0..n PROVE Int64(sum(k)) = sum(k)
    OBVIOUS
  <2>1. sum(k) \in Nat /\ sum(k) < Half64
    BY <1>1, <1>5, <1>6
  <2> QED BY <1>7, <2>1
<1>9. left = IF sum(n) < interval THEN interval - sum(n) ELSE 0
  BY <1>1, <1>4, <1>8
<1>10. left \in Nat
  BY <1>1, <1>6, <1>9
<1>11. ASSUME NEW k \in 1..n
       PROVE  /\ slots[k].StartOffset = sum(k - 1)
              /\ slots[k].Duration = f[k] + IF k = n THEN left ELSE 0
  <2>1. k \in 0..n /\ k - 1 \in 0..n
    BY <1>1
  <2>2. f[k] \in Nat /\ f[k] <= sum(n)
    <3>1. /\ sum(k - 1) \in Nat /\ sum(k) <= sum(n) /\ sum(n) \in Nat
          /\ sum(k) = sum(k - 1) + f[k] /\ f[k] \in Nat
      BY <1>1, <1>2, <1>6, <2>1
    <3> QED BY <3>1
  <2>3. n \in 0..n /\ sum(n) \in Nat
    BY <1>1, <1>6
  <2>4. f[k] + (IF k = n THEN left ELSE 0) \in Nat /\ f[k] + (IF k = n THEN left ELSE 0) < Half64
    BY <1>1, <1>5, <1>9, <1>10, <2>2, <2>3
  <2> QED BY <1>3, <1>7, <1>8, <2>1, <2>4
<1> QED BY <1>9, <1>10, <1>11 DEF n, f, left, sum

\* They lie one behind the other, to the end of the interval or beyond.
LEMMA SettledTile ==
  ASSUME NEW slots \in Seq(TimeSlot), NEW interval \in 1..(Half64 - 1), Settled(slots, interval),
         SumTo(Shares(slots, interval), Len(slots)) < Half64, NEW i \in DOMAIN slots
  PROVE  /\ slots[i].Duration >= MinDuration
         /\ slots[i].StartOffset = IF i = 1 THEN 0 ELSE EndOf(slots[i - 1])
         /\ i = Len(slots) => EndOf(slots[i]) >= interval
<1> DEFINE n == Len(slots)
           f == Shares(slots, interval)
           left == Left(slots, interval)
<1>1. n \in Nat /\ DOMAIN slots = 1..n /\ MinDuration \in Nat /\ interval \in Nat
  BY SlotFacts, TimesliceAssumption
<1>2. DOMAIN f = 1..n /\ \A k \in 1..n : f[k] \in Nat /\ f[k] >= MinDuration
  BY <1>1, ShareFacts
<1>3. /\ \A k \in 1..n : /\ slots[k].StartOffset = SumTo(f, k - 1)
                         /\ slots[k].Duration = f[k] + IF k = n THEN left ELSE 0
      /\ left \in Nat
  BY SettledExact
<1>4. left = IF SumTo(f, n) < interval THEN interval - SumTo(f, n) ELSE 0
  BY SettledExact
<1> HIDE DEF f, left, n
<1>5. /\ SumTo(f, 0) = 0 /\ \A k \in 1..n : SumTo(f, k) = SumTo(f, k - 1) + f[k]
      /\ \A k \in 0..n : SumTo(f, k) \in Nat
  BY <1>1, <1>2, SumFacts
<1>6. slots[i].Duration >= MinDuration
  BY <1>1, <1>2, <1>3
<1>7. ASSUME i = 1 PROVE slots[i].StartOffset = 0
  <2>1. i - 1 = 0
    BY <1>7
  <2> QED BY <1>1, <1>3, <1>5, <2>1
<1>8. ASSUME i # 1 PROVE slots[i].StartOffset = EndOf(slots[i - 1])
  <2>1. i - 1 \in 1..n /\ i - 1 # n
    BY <1>1, <1>8
  <2>2. slots[i - 1].StartOffset = SumTo(f, (i - 1) - 1) /\ slots[i - 1].Duration = f[i - 1]
    BY <1>2, <1>3, <2>1
  <2>3. SumTo(f, i - 1) = SumTo(f, (i - 1) - 1) + f[i - 1]
    BY <1>5, <2>1
  <2> QED BY <1>1, <1>3, <1>8, <2>2, <2>3 DEF EndOf
<1>9. ASSUME i = n PROVE EndOf(slots[i]) >= interval
  <2>1. n \in 1..n /\ n - 1 \in 0..n
    BY <1>1, <1>9
  <2>2. EndOf(slots[i]) = SumTo(f, n - 1) + (f[n] + left)
    BY <1>3, <1>9, <2>1 DEF EndOf
  <2>3. SumTo(f, n) = SumTo(f, n - 1) + f[n] /\ SumTo(f, n) \in Nat /\ SumTo(f, n - 1) \in Nat
    BY <1>1, <1>5, <2>1
  <2> QED BY <1>1, <1>2, <1>3, <1>4, <2>1, <2>2, <2>3
<1> QED BY <1>6, <1>7, <1>8, <1>9 DEF n

\* Equal shares of an interval.
LEMMA EqualQuotient ==
  ASSUME NEW interval \in Nat, NEW c \in Nat, c # 0, NEW n \in Nat, n # 0,
         n * MinDuration <= interval
  PROVE  LET q == (interval * c) \div (n * c)
         IN  q \in Nat /\ q * n <= interval /\ interval < q * n + n /\ MinDuration <= q
<1> DEFINE a == interval * c
           b == n * c
           q == a \div b
<1>1. a \in Nat /\ b \in Nat /\ b # 0 /\ MinDuration \in Nat
  BY TimesliceAssumption
<1>2. q \in Nat /\ q * b <= a /\ a < (q + 1) * b
  <2> HIDE DEF a, b
  <2> QED BY <1>1, Quotient
<1> HIDE DEF q
<1>3. q * n <= interval
  <2>1. (q * n) * c <= interval * c
    BY <1>2
  <2>2. q * n \in Nat
    BY <1>2
  <2> QED BY <2>1, <2>2
<1>4. interval < (q + 1) * n
  <2>1. interval * c < ((q + 1) * n) * c
    BY <1>2
  <2>2. (q + 1) * n \in Nat
    BY <1>2
  <2> QED BY <2>1, <2>2
<1>5. (q + 1) * n = q * n + n
  BY <1>2
<1>6. MinDuration <= q
  <2>1. SUFFICES ASSUME q + 1 <= MinDuration PROVE FALSE
    BY <1>1, <1>2
  <2>2. (q + 1) * n <= MinDuration * n
    BY <1>1, <1>2, <2>1
  <2>3. MinDuration * n = n * MinDuration /\ MinDuration * n \in Nat /\ (q + 1) * n \in Nat
    BY <1>1, <1>2
  <2> QED BY <1>4, <2>2, <2>3
<1> QED BY <1>2, <1>3, <1>4, <1>5, <1>6 DEF q

\* The share of one of n slots with one weight, if the total weight is an int32.
LEMMA EqualShare ==
  ASSUME NEW interval \in 1..(Half64 - 1), NEW c \in Int, c # 0, NEW n \in Nat, n # 0,
         n * MinDuration <= interval
  PROVE  LET q == Share(c, n * c, interval)
         IN  q \in Nat /\ q * n <= interval /\ interval < q * n + n /\ MinDuration <= q
<1> DEFINE a == Abs(c)
           q == (interval * a) \div (n * a)
<1>1. a \in Nat /\ a # 0 /\ interval \in Nat /\ interval < Half64 /\ Half64 \in Nat
  BY TimesliceAssumption DEF Abs
<1>2. n * c \in Int /\ n * c # 0 /\ ((c < 0) <=> (n * c < 0)) /\ Abs(n * c) = n * a
  <2>1. CASE c > 0
    <3>1. n * c > 0 /\ n * c \in Int
      BY <2>1
    <3> QED BY <2>1, <3>1 DEF Abs
  <2>2. CASE c < 0
    <3>1. n * c < 0 /\ n * c \in Int /\ -(n * c) = n * (-c)
      BY <2>2
    <3> QED BY <2>2, <3>1 DEF Abs
  <2> QED BY <2>1, <2>2
<1>3. q \in Nat /\ q * n <= interval /\ interval < q * n + n /\ MinDuration <= q
  <2> HIDE DEF a
  <2> QED BY <1>1, EqualQuotient
<1>4. q < Half64
  <2> HIDE DEF q
  <2>1. q <= q * n
    BY <1>3
  <2>2. q * n \in Nat
    BY <1>3
  <2> QED BY <1>1, <1>3, <2>1, <2>2
<1>5. Share(c, n * c, interval) = IF q < Half64 THEN q ELSE Beyond
  <2> DEFINE t == n * c
  <2>1. t # 0 /\ ~ ((c < 0) # (t < 0)) /\ q = (interval * Abs(c)) \div Abs(t)
    BY <1>2
  <2> HIDE DEF t, q, a
  <2>2. Share(c, t, interval) = IF q < Half64 THEN q ELSE Beyond
    BY <2>1 DEF Share
  <2> QED BY <2>2 DEF t
<1>6. Share(c, n * c, interval) = q
  BY <1>4, <1>5
<1> QED BY <1>3, <1>6

\* With one priority, a total weight that is an int32 and room for the minimum of
\* each, they fill the interval with no more than rounding between them.
LEMMA SettledFair ==
  ASSUME NEW slots \in Seq(TimeSlot), NEW interval \in 1..(Half64 - 1), Settled(slots, interval),
         slots # <<>>, \A i \in DOMAIN slots : slots[i].Priority = slots[1].Priority,
         slots[1].Priority + 1 # 0,
         Len(slots) * (slots[1].Priority + 1) \in (-Half32)..(Half32 - 1),
         Len(slots) * MinDuration <= interval
  PROVE  /\ EndOf(slots[Len(slots)]) = interval
         /\ \A i, j \in DOMAIN slots : slots[i].Duration - slots[j].Duration < Len(slots)
<1> DEFINE n == Len(slots)
           c == slots[1].Priority + 1
           f == Shares(slots, interval)
           left == Left(slots, interval)
           q == Share(c, n * c, interval)
<1>1. n \in Nat /\ DOMAIN slots = 1..n /\ n # 0 /\ MinDuration \in Nat /\ interval \in Nat
  BY SlotFacts, TimesliceAssumption, EmptySeq
<1>2. c \in Int /\ c # 0 /\ n * c \in (-Half32)..(Half32 - 1) /\ n * MinDuration <= interval
  <2>1. slots[1].Priority \in Int
    BY <1>1, SlotFacts
  <2> QED BY <2>1
<1>3. Int32(c) = c /\ Int32(n * c) = n * c
  <2> HIDE DEF n, c
  <2>1. n * c \in Int /\ Half32 \in Nat
    BY <1>1, <1>2, TimesliceAssumption
  <2>2. c \in (-Half32)..(Half32 - 1)
    <3>1. CASE c > 0
      <4>1. c <= n * c
        BY <1>1, <1>2, <3>1
      <4> QED BY <1>2, <2>1, <3>1, <4>1
    <3>2. CASE c < 0
      <4>1. n * c <= c
        BY <1>1, <1>2, <3>2
      <4> QED BY <1>2, <2>1, <3>2, <4>1
    <3> QED BY <1>2, <3>1, <3>2
  <2> QED BY <1>2, <2>1, <2>2, IntFacts
<1>4. q \in Nat /\ q * n <= interval /\ interval < q * n + n /\ MinDuration <= q
  <2> HIDE DEF c, n
  <2> QED BY <1>1, <1>2, EqualShare
<1>5. DOMAIN f = 1..n /\ \A i \in 1..n : f[i] = q
  <2>1. DOMAIN Weights(slots) = 1..n /\ \A i \in 1..n : Weights(slots)[i] = c
    <3>1. \A i \in 1..n : Weights(slots)[i] = Int32(slots[i].Priority + 1)
      BY WeightFacts
    <3>2. \A i \in 1..n : slots[i].Priority + 1 = c
      BY <1>1
    <3> HIDE DEF c
    <3> QED BY <1>3, <3>1, <3>2, WeightFacts
  <2>2. TotalPriority(slots) = n * c
    <3> HIDE DEF c
    <3>1. \A k \in 0..n : SumTo(Weights(slots), k) = k * c
      BY <1>1, <1>2, <2>1, SumOfEqual
    <3>2. SumTo(Weights(slots), n) = n * c
      BY <1>1, <3>1
    <3> QED BY <1>3, <3>2 DEF TotalPriority
  <2>3. /\ DOMAIN f = 1..n
        /\ \A i \in 1..n : LET x == Share(Weights(slots)[i], TotalPriority(slots), interval)
                           IN  f[i] = IF MinDuration <= x THEN x ELSE MinDuration
    BY <1>1, ShareFacts
  <2> HIDE DEF c, n, f
  <2> QED BY <1>4, <2>1, <2>2, <2>3
<1>6. SumTo(f, n) < Half64
  <2> HIDE DEF f, n, q
  <2>1. SumTo(f, n) = n * q
    BY <1>1, <1>4, <1>5, SumOfEqual
  <2>2. n * q = q * n /\ q * n \in Nat
    BY <1>1, <1>4
  <2>3. interval < Half64 /\ Half64 \in Nat
    BY TimesliceAssumption
  <2> QED BY <1>1, <1>4, <2>1, <2>2, <2>3
<1>7. /\ \A k \in 1..n : /\ slots[k].StartOffset = SumTo(f, k - 1)
                         /\ slots[k].Duration = f[k] + IF k = n THEN left ELSE 0
      /\ left \in Nat
      /\ left = IF SumTo(f, n) < interval THEN interval - SumTo(f, n) ELSE 0
  BY <1>6, SettledExact
<1> HIDE DEF f, left, n, q
<1>8. \A k \in 0..n : SumTo(f, k) = k * q
  <2>1. q \in Int
    BY <1>4
  <2> QED BY <1>1, <1>5, <2>1, SumOfEqual
<1>9. SumTo(f, n) = n * q /\ SumTo(f, n - 1) = (n - 1) * q
  BY <1>1, <1>8
<1>10. n * q \in Nat /\ n * q <= interval /\ interval < n * q + n /\ (n - 1) * q + q = n * q
  BY <1>1, <1>4
<1>11. left = interval - n * q /\ left < n
  <2> DEFINE m == n * q
  <2>1. m \in Nat /\ m <= interval /\ interval < m + n
    BY <1>10
  <2>2. left = IF m < interval THEN interval - m ELSE 0
    BY <1>7, <1>9
  <2> HIDE DEF m
  <2>3. left = interval - m /\ left < n
    BY <1>1, <2>1, <2>2
  <2> QED BY <2>3 DEF m
<1>12. EndOf(slots[n]) = interval
  <2> DEFINE m == n * q
             o == (n - 1) * q
  <2>1. EndOf(slots[n]) = o + (q + left)
    BY <1>1, <1>5, <1>7, <1>9 DEF EndOf
  <2>2. m \in Nat /\ o \in Nat /\ o + q = m /\ left = interval - m
    BY <1>1, <1>4, <1>10, <1>11
  <2> HIDE DEF m, o
  <2> QED BY <1>4, <2>1, <2>2
<1>13. ASSUME NEW i \in 1..n, NEW j \in 1..n PROVE slots[i].Duration - slots[j].Duration < n
  <2>1. /\ slots[i].Duration = q + IF i = n THEN left ELSE 0
        /\ slots[j].Duration = q + IF j = n THEN left ELSE 0
    BY <1>5, <1>7
  <2>2. left \in Nat /\ left < n
    BY <1>7, <1>11
  <2> QED BY <1>1, <1>4, <2>1, <2>2
<1> QED BY <1>1, <1>12, <1>13 DEF n


\* What rebalanceSlots makes of the slots at the positions K.
LEMMA RebalanceFacts ==
  ASSUME NEW slots \in Seq(TimeSlot), NEW K \in SUBSET DOMAIN slots, NEW interval \in Nat
  PROVE  LET R == rebalanceSlots(slots, K, interval)
         IN  /\ R \in Seq(TimeSlot) /\ Settled(R, interval)
             /\ Len(R) = Cardinality(K) /\ Len(R) <= Len(slots)
             /\ \A s : ExistsBijection(SlotsOf(slots, s) \cap K, SlotsOf(R, s))
<1> DEFINE S == ByPriority(slots, K)
           R == rebalanceSlots(slots, K, interval)
           C == Cardinality(K)
<1>1. C \in Nat /\ C <= Len(slots) /\ S \in Seq(TimeSlot) /\ Len(S) = C
  BY SortFacts
<1>2. PICK pos \in Bijection(1..C, K) : \A n \in 1..C : S[n] = slots[pos[n]]
  BY SortFacts
<1>3. R = Placed(S, interval)
  BY DEF rebalanceSlots
<1> HIDE DEF R, S, C
<1>4. R \in Seq(TimeSlot) /\ Len(R) = C /\ \A n \in 1..C : R[n].svc = S[n].svc
  BY <1>1, <1>3, PlacedFacts
<1>5. Settled(R, interval)
  BY <1>1, <1>3, PlacedAgain DEF Settled
<1>6. ASSUME NEW s PROVE ExistsBijection(SlotsOf(slots, s) \cap K, SlotsOf(R, s))
  <2> DEFINE A == SlotsOf(R, s)
             B == SlotsOf(slots, s) \cap K
             f == [n \in A |-> pos[n]]
  <2>1. DOMAIN R = 1..C
    BY <1>4, LenProperties
  <2>2. /\ A = {n \in 1..C : slots[pos[n]].svc = s}
        /\ B = {i \in K : slots[i].svc = s}
    BY <1>2, <1>4, <2>1 DEF SlotsOf
  <2>3. /\ pos \in [1..C -> K] /\ \A a, b \in 1..C : pos[a] = pos[b] => a = b
        /\ \A i \in K : \E n \in 1..C : pos[n] = i
    BY <1>2 DEF Bijection, Injection, Surjection, IsInjective
  <2> HIDE DEF A, B
  <2>4. f \in [A -> B]
    BY <2>2, <2>3
  <2>5. \A a, b \in A : f[a] = f[b] => a = b
    BY <2>2, <2>3
  <2>6. \A i \in B : \E n \in A : f[n] = i
    BY <2>2, <2>3
  <2> HIDE DEF f
  <2>7. f \in Bijection(A, B)
    BY <2>4, <2>5, <2>6 DEF Bijection, Injection, Surjection, IsInjective
  <2>8. ExistsBijection(A, B)
    BY <2>7 DEF ExistsBijection
  <2>9. ExistsBijection(B, A)
    BY <2>8, Fun_ExistsBijSymmetric
  <2> QED BY <2>9 DEF A, B
<1> QED BY <1>1, <1>4, <1>5, <1>6 DEF R, C

-----------------------------------------------------------------------------
(* The inductive invariant: the types, and that the slots of every GPU are   *)
(* as rebalanceSlots leaves them.                                            *)
GPUOK(gpu, interval) ==
  gpu \in TimesliceGPU /\ Len(gpu.Slots) <= MaxSlots /\ Settled(gpu.Slots, interval)

GPUMaps(p) == UNION {[D -> TimesliceGPU] : D \in SUBSET GPUsOf[p]}
PoolConfig(p) == [SlotInterval : 1..(Half64 - 1), GPUs : GPUMaps(p)]

ConfigOK(p, c) ==
  /\ p \in Pools /\ c \in PoolConfig(p)
  /\ \A g \in DOMAIN c.GPUs : GPUOK(c.GPUs[g], c.SlotInterval)

PoolsOK(ps) == \A p \in DOMAIN ps : ConfigOK(p, ps[p])

CallOK(c, ps) ==
  c # NoCall => /\ c \in [pool : DOMAIN ps, svc : Services, n : Counts, i : Nat]
                /\ c.i <= c.n

TInv ==
  /\ PoolsOK(pools)
  /\ allocations \in [Services -> [GPUs -> Nat]]
  /\ CallOK(call, pools)
  /\ dropped \subseteq Services

\* What the invariant says of a configured pool.
LEMMA ConfigFacts ==
  ASSUME NEW p, NEW c, ConfigOK(p, c)
  PROVE  /\ p \in Pools /\ c.SlotInterval \in 1..(Half64 - 1) /\ c.SlotInterval \in Nat
         /\ c.GPUs = [g \in DOMAIN c.GPUs |-> c.GPUs[g]]
         /\ DOMAIN c.GPUs \subseteq GPUsOf[p] /\ DOMAIN c.GPUs \subseteq GPUs
         /\ \A g \in DOMAIN c.GPUs :
              /\ GPUOK(c.GPUs[g], c.SlotInterval)
              /\ c.GPUs[g] \in TimesliceGPU /\ c.GPUs[g].Slots \in Seq(TimeSlot)
              /\ c.GPUs[g].CurrentSlotIdx \in 0..(MaxSlots - 1)
<1>1. p \in Pools /\ c.SlotInterval \in 1..(Half64 - 1) /\ c.GPUs \in GPUMaps(p)
  BY DEF ConfigOK, PoolConfig
<1>2. PICK D \in SUBSET GPUsOf[p] : c.GPUs \in [D -> TimesliceGPU]
  BY <1>1 DEF GPUMaps
<1>3. GPUsOf[p] \subseteq GPUs
  BY <1>1, TimesliceAssumption
<1>4. \A g \in DOMAIN c.GPUs : GPUOK(c.GPUs[g], c.SlotInterval)
  BY DEF ConfigOK
<1>5. \A x \in TimesliceGPU : x.Slots \in Seq(TimeSlot) /\ x.CurrentSlotIdx \in 0..(MaxSlots - 1)
  BY DEF TimesliceGPU
<1> QED BY <1>1, <1>2, <1>3, <1>4, <1>5

\* A pool with other GPUs.
LEMMA ConfigMade ==
  ASSUME NEW p \in Pools, NEW interval \in 1..(Half64 - 1), NEW D \in SUBSET GPUsOf[p],
         NEW m, m = [g \in D |-> m[g]], \A g \in D : GPUOK(m[g], interval)
  PROVE  ConfigOK(p, [SlotInterval |-> interval, GPUs |-> m])
<1>1. DOMAIN m = D
  OBVIOUS
<1>2. \A g \in D : m[g] \in TimesliceGPU
  BY DEF GPUOK
<1>3. m \in [D -> TimesliceGPU]
  BY <1>2
<1>4. m \in GPUMaps(p)
  BY <1>3 DEF GPUMaps
<1> QED BY <1>1, <1>4 DEF ConfigOK, PoolConfig

\* The same of a configuration of which only the GPUs change.
LEMMA ConfigExcept ==
  ASSUME NEW p, NEW c, ConfigOK(p, c), NEW D \in SUBSET GPUsOf[p],
         NEW m, m = [g \in D |-> m[g]], \A g \in D : GPUOK(m[g], c.SlotInterval)
  PROVE  LET d == [c EXCEPT !.GPUs = m]
         IN  ConfigOK(p, d) /\ d.SlotInterval = c.SlotInterval /\ d.GPUs = m
<1>1. c \in PoolConfig(p) /\ p \in Pools /\ c.SlotInterval \in 1..(Half64 - 1)
  BY DEF ConfigOK, PoolConfig
<1>2. [c EXCEPT !.GPUs = m] = [SlotInterval |-> c.SlotInterval, GPUs |-> m]
  BY <1>1 DEF PoolConfig
<1>3. ConfigOK(p, [SlotInterval |-> c.SlotInterval, GPUs |-> m])
  BY <1>1, ConfigMade
<1> QED BY <1>2, <1>3

\* The invariant has the types, the tiling and the fairness in it.
LEMMA TInvImplies ==
  TInv => TypeOK /\ SlotsTile /\ EqualSharesFit
<1> SUFFICES ASSUME TInv PROVE TypeOK /\ SlotsTile /\ EqualSharesFit
  OBVIOUS
<1>1. TypeOK
  <2>1. ASSUME NEW p \in DOMAIN pools
        PROVE  /\ p \in Pools /\ pools[p].SlotInterval \in 1..(Half64 - 1)
               /\ DOMAIN pools[p].GPUs \subseteq GPUsOf[p]
               /\ pools[p].GPUs \in [DOMAIN pools[p].GPUs -> TimesliceGPU]
    <3>1. ConfigOK(p, pools[p])
      BY DEF TInv, PoolsOK
    <3> QED BY <3>1, ConfigFacts
  <2> QED BY <2>1 DEF TInv, CallOK, TypeOK
<1>2. ASSUME NEW c \in Configured
      PROVE  /\ SlotsOn(c) \in Seq(TimeSlot) /\ pools[c[1]].SlotInterval \in 1..(Half64 - 1)
             /\ Settled(SlotsOn(c), pools[c[1]].SlotInterval)
  <2>1. c[1] \in DOMAIN pools /\ c[2] \in DOMAIN pools[c[1]].GPUs
    BY DEF Configured
  <2>2. ConfigOK(c[1], pools[c[1]])
    BY <2>1 DEF TInv, PoolsOK
  <2> QED BY <2>1, <2>2, ConfigFacts DEF SlotsOn, GPUOK
<1>3. SlotsTile
  BY <1>2, SettledTile DEF SlotsTile
<1>4. EqualSharesFit
  BY <1>2, SettledFair DEF EqualSharesFit
<1> QED BY <1>1, <1>3, <1>4


\* The positions of a service's slots, GPU by GPU, in the configurations ps.
Positions(ps, s) ==
  [c \in Pools \X GPUs |-> IF c[1] \in DOMAIN ps /\ c[2] \in DOMAIN ps[c[1]].GPUs
                           THEN SlotsOf(ps[c[1]].GPUs[c[2]].Slots, s) ELSE {}]

\* A GPU with other slots.
LEMMA GPUWithSlots ==
  ASSUME NEW gpu \in TimesliceGPU, NEW slots \in Seq(TimeSlot), NEW interval,
         Len(slots) <= MaxSlots, Settled(slots, interval)
  PROVE  LET x == [gpu EXCEPT !.Slots = slots] IN GPUOK(x, interval) /\ x.Slots = slots
BY DEF GPUOK, TimesliceGPU

\* The configurations with one GPU of a pool replaced, or added to it.
Replaced(ps, p, g, x) == [ps EXCEPT ![p] = [ps[p] EXCEPT !.GPUs = Put(ps[p].GPUs, g, x)]]

\* They are well formed, and the slots of the other GPUs are where they were.
LEMMA OneReplaced ==
  ASSUME PoolsOK(pools), NEW p \in DOMAIN pools, NEW g \in GPUsOf[p], NEW x,
         GPUOK(x, pools[p].SlotInterval)
  PROVE  LET qs == Replaced(pools, p, g, x)
         IN  /\ PoolsOK(qs) /\ DOMAIN qs = DOMAIN pools
             /\ \A s : \A c \in Pools \X GPUs :
                  Positions(qs, s)[c] = IF c = <<p, g>> THEN SlotsOf(x.Slots, s)
                                        ELSE Positions(pools, s)[c]
<1> DEFINE qs == Replaced(pools, p, g, x)
           m == Put(pools[p].GPUs, g, x)
           D == DOMAIN pools[p].GPUs \cup {g}
           d == [pools[p] EXCEPT !.GPUs = m]
<1>1. ConfigOK(p, pools[p])
  BY DEF PoolsOK
<1>2. D \in SUBSET GPUsOf[p] /\ p \in Pools
  BY <1>1, ConfigFacts
<1>3. m = [h \in D |-> m[h]] /\ DOMAIN m = D /\ m[g] = x
      /\ \A h \in D : h # g => m[h] = pools[p].GPUs[h]
  BY DEF Put
<1>4. \A h \in D : GPUOK(m[h], pools[p].SlotInterval)
  <2>1. \A h \in DOMAIN pools[p].GPUs : GPUOK(pools[p].GPUs[h], pools[p].SlotInterval)
    BY <1>1, ConfigFacts
  <2> HIDE DEF m
  <2> QED BY <1>3, <2>1
<1> HIDE DEF m, D
<1>5. ConfigOK(p, d) /\ d.GPUs = m
  BY <1>1, <1>2, <1>3, <1>4, ConfigExcept
<1> HIDE DEF d
<1>6. DOMAIN qs = DOMAIN pools /\ qs[p] = d /\ \A q \in DOMAIN pools : q # p => qs[q] = pools[q]
  BY DEF d, m, Replaced
<1> HIDE DEF qs
<1>7. PoolsOK(qs)
  BY <1>5, <1>6 DEF PoolsOK
<1>8. ASSUME NEW s, NEW c \in Pools \X GPUs
      PROVE  Positions(qs, s)[c] = IF c = <<p, g>> THEN SlotsOf(x.Slots, s)
                                   ELSE Positions(pools, s)[c]
  <2>1. c = <<c[1], c[2]>>
    OBVIOUS
  <2>2. CASE c = <<p, g>>
    <3>1. c[1] = p /\ c[2] = g
      BY <2>2
    <3>2. /\ c[1] \in DOMAIN qs /\ c[2] \in DOMAIN qs[c[1]].GPUs
          /\ qs[c[1]].GPUs[c[2]] = x
      BY <1>3, <1>5, <1>6, <3>1 DEF D
    <3>3. Positions(qs, s)[c] = SlotsOf(x.Slots, s)
      BY <3>2 DEF Positions
    <3> QED BY <2>2, <3>3
  <2>3. CASE c[1] = p /\ c[2] # g
    <3>1. c[2] \in DOMAIN qs[c[1]].GPUs <=> c[2] \in DOMAIN pools[c[1]].GPUs
      BY <1>3, <1>5, <1>6, <2>3 DEF D
    <3>2. c[2] \in DOMAIN pools[c[1]].GPUs => qs[c[1]].GPUs[c[2]] = pools[c[1]].GPUs[c[2]]
      BY <1>3, <1>5, <1>6, <2>3 DEF D
    <3>3. c # <<p, g>>
      BY <2>3
    <3> QED BY <1>6, <3>1, <3>2, <3>3 DEF Positions
  <2>4. CASE c[1] # p
    BY <1>6, <2>4 DEF Positions
  <2> QED BY <2>1, <2>2, <2>3, <2>4
<1> QED BY <1>6, <1>7, <1>8 DEF qs

\* The configurations qs are ps with other slots on the same GPUs.
SameGPUs(ps, qs) ==
  /\ DOMAIN qs = DOMAIN ps
  /\ \A p \in DOMAIN ps :
       /\ qs[p] = [ps[p] EXCEPT !.GPUs = qs[p].GPUs]
       /\ qs[p].GPUs = [g \in DOMAIN ps[p].GPUs |-> qs[p].GPUs[g]]
       /\ \A g \in DOMAIN ps[p].GPUs : GPUOK(qs[p].GPUs[g], ps[p].SlotInterval)

\* They are well formed, too.
LEMMA AllReplaced ==
  ASSUME PoolsOK(pools), NEW qs, SameGPUs(pools, qs)
  PROVE  /\ PoolsOK(qs)
         /\ \A s : \A c \in Pools \X GPUs :
              Positions(qs, s)[c] = IF c[1] \in DOMAIN pools /\ c[2] \in DOMAIN pools[c[1]].GPUs
                                    THEN SlotsOf(qs[c[1]].GPUs[c[2]].Slots, s) ELSE {}
<1>1. ASSUME NEW p \in DOMAIN pools PROVE ConfigOK(p, qs[p])
  <2> DEFINE m == qs[p].GPUs
             D == DOMAIN pools[p].GPUs
  <2>1. ConfigOK(p, pools[p])
    BY DEF PoolsOK
  <2>2. D \in SUBSET GPUsOf[p]
    BY <2>1, ConfigFacts
  <2>3. m = [g \in D |-> m[g]] /\ \A g \in D : GPUOK(m[g], pools[p].SlotInterval)
    BY DEF SameGPUs
  <2>4. qs[p] = [pools[p] EXCEPT !.GPUs = m]
    BY DEF SameGPUs
  <2> HIDE DEF m, D
  <2>5. ConfigOK(p, [pools[p] EXCEPT !.GPUs = m])
    BY <2>1, <2>2, <2>3, ConfigExcept
  <2> QED BY <2>4, <2>5
<1>2. \A p \in DOMAIN pools : DOMAIN qs[p].GPUs = DOMAIN pools[p].GPUs
  BY DEF SameGPUs
<1>3. DOMAIN qs = DOMAIN pools
  BY DEF SameGPUs
<1> QED BY <1>1, <1>2, <1>3 DEF PoolsOK, Positions


-----------------------------------------------------------------------------
(* What each operation does to the slots. *)

\* A fresh configuration has no slots.
LEMMA ConfigureSlots ==
  ASSUME TInv, NEW p \in Pools, NEW interval \in Intervals, ConfigurePool(p, interval)
  PROVE  /\ PoolsOK(pools')
         /\ \A s : \A c \in Pools \X GPUs :
              Positions(pools', s)[c] = IF c[1] = p THEN {} ELSE Positions(pools, s)[c]
<1> DEFINE i == IF interval = 0 THEN DefaultInterval ELSE interval
           new == [SlotInterval |-> i, GPUs |-> <<>>]
<1>1. pools' = Put(pools, p, new)
  BY DEF ConfigurePool
<1>2. i \in 1..(Half64 - 1)
  BY TimesliceAssumption
<1>3. ConfigOK(p, new) /\ DOMAIN new.GPUs = {}
  <2>1. <<>> \in [{} -> TimesliceGPU] /\ {} \in SUBSET GPUsOf[p]
    OBVIOUS
  <2>2. <<>> \in GPUMaps(p)
    BY <2>1 DEF GPUMaps
  <2>3. new \in PoolConfig(p) /\ DOMAIN new.GPUs = {}
    BY <1>2, <2>2 DEF PoolConfig
  <2> QED BY <2>3 DEF ConfigOK
<1> HIDE DEF new
<1>4. /\ DOMAIN pools' = DOMAIN pools \cup {p} /\ pools'[p] = new
      /\ \A q \in DOMAIN pools : q # p => pools'[q] = pools[q]
  BY <1>1 DEF Put
<1>5. PoolsOK(pools')
  BY <1>3, <1>4 DEF TInv, PoolsOK
<1>6. ASSUME NEW s, NEW c \in Pools \X GPUs
      PROVE  Positions(pools', s)[c] = IF c[1] = p THEN {} ELSE Positions(pools, s)[c]
  <2>1. CASE c[1] = p
    BY <1>3, <1>4, <2>1 DEF Positions
  <2>2. CASE c[1] # p
    BY <1>4, <2>2 DEF Positions
  <2> QED BY <2>1, <2>2
<1> QED BY <1>5, <1>6

\* CleanupPool takes away a pool without slots.
LEMMA CleanupSlots ==
  ASSUME TInv, NEW p \in Pools, CleanupPool(p)
  PROVE  /\ PoolsOK(pools')
         /\ \A s : \A c \in Pools \X GPUs : Positions(pools', s)[c] = Positions(pools, s)[c]
<1>1. /\ DOMAIN pools' = DOMAIN pools \ {p} /\ \A q \in DOMAIN pools' : pools'[q] = pools[q]
      /\ p \in DOMAIN pools /\ \A g \in DOMAIN pools[p].GPUs : pools[p].GPUs[g].Slots = <<>>
  BY DEF CleanupPool, HasSlots
<1>2. PoolsOK(pools')
  BY <1>1 DEF TInv, PoolsOK
<1>3. ASSUME NEW s, NEW c \in Pools \X GPUs PROVE Positions(pools', s)[c] = Positions(pools, s)[c]
  <2>1. CASE c[1] = p
    <3>1. SlotsOf(<<>>, s) = {}
      BY DEF SlotsOf
    <3> QED BY <1>1, <2>1, <3>1 DEF Positions
  <2>2. CASE c[1] # p
    BY <1>1, <2>2 DEF Positions
  <2> QED BY <2>1, <2>2
<1> QED BY <1>2, <1>3

\* The GPU that Allocate gives a slot of.
LEMMA WithSlotFacts ==
  ASSUME TInv, call # NoCall, NEW gpu \in TimesliceGPU, Len(gpu.Slots) < MaxSlots,
         NEW interval \in 1..(Half64 - 1)
  PROVE  LET x == WithSlot(gpu, interval)
             n == Len(gpu.Slots) + 1
         IN  /\ GPUOK(x, interval) /\ n \in Nat
             /\ \A s : /\ n \notin SlotsOf(gpu.Slots, s)
                       /\ s # call.svc =>
                            ExistsBijection(SlotsOf(gpu.Slots, s), SlotsOf(x.Slots, s))
                       /\ s = call.svc =>
                            ExistsBijection(SlotsOf(gpu.Slots, s) \cup {n}, SlotsOf(x.Slots, s))
<1> DEFINE old == gpu.Slots
           n == Len(old) + 1
           slot == [svc |-> call.svc, n |-> Len(old), Priority |-> 0,
                    StartOffset |-> 0, Duration |-> interval \div (Len(old) + 1)]
           slots == Append(old, slot)
           R == rebalanceSlots(slots, DOMAIN slots, interval)
           x == [gpu EXCEPT !.Slots = R]
<1>1. old \in Seq(TimeSlot) /\ Len(old) \in Nat /\ DOMAIN old = 1..Len(old) /\ MaxSlots \in Nat
  <2>1. old \in Seq(TimeSlot)
    BY DEF TimesliceGPU
  <2> QED BY <2>1, SlotFacts, TimesliceAssumption
<1>2. WithSlot(gpu, interval) = x
  BY DEF WithSlot
<1>3. slot \in TimeSlot /\ slot.svc = call.svc
  <2>1. call.svc \in Services
    BY DEF TInv, CallOK
  <2>2. interval \div (Len(old) + 1) \in Durations
    <3> DEFINE l == Len(old) + 1
               q == interval \div l
    <3>1. l \in Nat /\ l # 0 /\ interval \in Nat /\ interval < Half64 /\ Half64 \in Nat
      BY <1>1, TimesliceAssumption
    <3> HIDE DEF l
    <3>2. q \in Nat /\ q * l <= interval
      BY <3>1, Quotient
    <3> HIDE DEF q
    <3>3. q <= q * l /\ q * l \in Nat
      BY <3>1, <3>2
    <3>4. q \in Durations
      BY <3>1, <3>2, <3>3 DEF Durations
    <3> QED BY <3>4 DEF l, q
  <2>3. 0 \in Priorities
    BY TimesliceAssumption
  <2>4. Len(old) \in 0..(MaxSlots - 1)
    BY <1>1
  <2>5. 0 \in Durations
    BY TimesliceAssumption DEF Durations
  <2> QED BY <2>1, <2>2, <2>3, <2>4, <2>5 DEF TimeSlot
<1> HIDE DEF slot, old
<1>4. /\ slots \in Seq(TimeSlot) /\ Len(slots) = n /\ slots[n] = slot
      /\ \A i \in 1..Len(old) : slots[i] = old[i]
  BY <1>1, <1>3, AppendProperties
<1> HIDE DEF slots
<1>5. n \in Nat /\ n <= MaxSlots /\ n \notin DOMAIN old /\ DOMAIN slots = DOMAIN old \cup {n}
  <2>1. DOMAIN slots = 1..n
    BY <1>4, LenProperties
  <2> QED BY <1>1, <2>1 DEF old
<1>6. /\ R \in Seq(TimeSlot) /\ Settled(R, interval) /\ Len(R) <= Len(slots)
      /\ \A s : ExistsBijection(SlotsOf(slots, s) \cap DOMAIN slots, SlotsOf(R, s))
  <2>1. interval \in Nat
    BY TimesliceAssumption
  <2> QED BY <1>4, <2>1, RebalanceFacts
<1> HIDE DEF R
<1>7. Len(R) <= MaxSlots
  <2>1. Len(R) \in Nat
    BY <1>6, LenProperties
  <2> QED BY <1>1, <1>4, <1>5, <1>6, <2>1
<1>8. GPUOK(x, interval) /\ x.Slots = R
  BY <1>6, <1>7, GPUWithSlots
<1>9. ASSUME NEW s
      PROVE  /\ n \notin SlotsOf(old, s)
             /\ s # call.svc => ExistsBijection(SlotsOf(old, s), SlotsOf(R, s))
             /\ s = call.svc => ExistsBijection(SlotsOf(old, s) \cup {n}, SlotsOf(R, s))
  <2>1. n \notin SlotsOf(old, s)
    BY <1>5 DEF SlotsOf
  <2>2. SlotsOf(slots, s) \cap DOMAIN slots = SlotsOf(slots, s)
    BY DEF SlotsOf
  <2>3. SlotsOf(slots, s) = IF s = call.svc THEN SlotsOf(old, s) \cup {n} ELSE SlotsOf(old, s)
    BY <1>1, <1>3, <1>4, <1>5 DEF SlotsOf
  <2> QED BY <1>6, <2>1, <2>2, <2>3
<1> QED BY <1>2, <1>5, <1>8, <1>9 DEF old

\* One more slot for the service whose request it is, and the same slots for
\* the others.
LEMMA AllocateSlots ==
  ASSUME TInv, NEW g \in GPUs, AllocateOne(g)
  PROVE  /\ PoolsOK(pools') /\ DOMAIN pools' = DOMAIN pools
         /\ \A s : s # call.svc => \A c \in Pools \X GPUs :
              ExistsBijection(Positions(pools, s)[c], Positions(pools', s)[c])
         /\ \E d \in Pools \X {g}, n \in Nat :
              /\ n \notin Positions(pools, call.svc)[d]
              /\ \A c \in Pools \X GPUs :
                   ExistsBijection(IF c = d THEN Positions(pools, call.svc)[c] \cup {n}
                                   ELSE Positions(pools, call.svc)[c],
                                   Positions(pools', call.svc)[c])
<1> DEFINE p == call.pool
           interval == pools[p].SlotInterval
           gpu == IF g \in DOMAIN pools[p].GPUs THEN pools[p].GPUs[g]
                  ELSE [Slots |-> <<>>, CurrentSlotIdx |-> 0]
           x == WithSlot(gpu, interval)
           n == Len(gpu.Slots) + 1
           d == <<p, g>>
<1>1. /\ call # NoCall /\ g \in IF WithRoom(p) # {} THEN WithRoom(p) ELSE Unconfigured(p)
      /\ pools' = [pools EXCEPT ![p] = [pools[p] EXCEPT !.GPUs = Put(pools[p].GPUs, g, x)]]
  BY DEF AllocateOne
<1>2. p \in DOMAIN pools /\ PoolsOK(pools)
  BY <1>1 DEF TInv, CallOK
<1>3. ConfigOK(p, pools[p])
  BY <1>2 DEF PoolsOK
<1>4. p \in Pools /\ interval \in 1..(Half64 - 1) /\ g \in GPUsOf[p] /\ MaxSlots \in Nat \ {0}
  BY <1>1, <1>3, ConfigFacts, TimesliceAssumption DEF WithRoom, Unconfigured
<1>5. gpu \in TimesliceGPU /\ Len(gpu.Slots) < MaxSlots
  <2>1. CASE g \in DOMAIN pools[p].GPUs
    <3>1. g \in WithRoom(p)
      BY <1>1, <2>1 DEF Unconfigured
    <3> QED BY <1>3, <2>1, <3>1, ConfigFacts DEF WithRoom
  <2>2. CASE g \notin DOMAIN pools[p].GPUs
    <3>1. <<>> \in Seq(TimeSlot) /\ Len(<<>>) = 0
      BY EmptySeq
    <3> QED BY <1>4, <2>2, <3>1 DEF TimesliceGPU
  <2> QED BY <2>1, <2>2
<1>6. \A s : Positions(pools, s)[d] = SlotsOf(gpu.Slots, s)
  <2>1. d \in Pools \X GPUs /\ d[1] = p /\ d[2] = g
    BY <1>4
  <2>2. CASE g \in DOMAIN pools[p].GPUs
    BY <1>2, <2>1, <2>2 DEF Positions
  <2>3. CASE g \notin DOMAIN pools[p].GPUs
    <3>1. gpu.Slots = <<>>
      BY <2>3
    <3>2. \A s : SlotsOf(<<>>, s) = {}
      BY DEF SlotsOf
    <3> HIDE DEF gpu, d
    <3> QED BY <2>1, <2>3, <3>1, <3>2 DEF Positions
  <2> QED BY <2>2, <2>3
<1> HIDE DEF gpu
<1>7. /\ GPUOK(x, interval) /\ n \in Nat
      /\ \A s : /\ n \notin SlotsOf(gpu.Slots, s)
                /\ s # call.svc => ExistsBijection(SlotsOf(gpu.Slots, s), SlotsOf(x.Slots, s))
                /\ s = call.svc =>
                     ExistsBijection(SlotsOf(gpu.Slots, s) \cup {n}, SlotsOf(x.Slots, s))
  BY <1>1, <1>4, <1>5, WithSlotFacts
<1> HIDE DEF x, n
<1>8. /\ PoolsOK(pools') /\ DOMAIN pools' = DOMAIN pools
      /\ \A s : \A c \in Pools \X GPUs :
           Positions(pools', s)[c] = IF c = d THEN SlotsOf(x.Slots, s) ELSE Positions(pools, s)[c]
  <2>1. pools' = Replaced(pools, p, g, x)
    BY <1>1 DEF Replaced
  <2> QED BY <1>2, <1>4, <1>7, <2>1, OneReplaced
<1>9. d \in Pools \X {g}
  BY <1>4
<1> HIDE DEF d
<1>10. ASSUME NEW s, s # call.svc, NEW c \in Pools \X GPUs
       PROVE  ExistsBijection(Positions(pools, s)[c], Positions(pools', s)[c])
  BY <1>6, <1>7, <1>8, <1>10, Fun_ExistsBijReflexive
<1>11. ASSUME NEW c \in Pools \X GPUs
       PROVE  ExistsBijection(IF c = d THEN Positions(pools, call.svc)[c] \cup {n}
                              ELSE Positions(pools, call.svc)[c],
                              Positions(pools', call.svc)[c])
  BY <1>6, <1>7, <1>8, Fun_ExistsBijReflexive
<1>12. n \notin Positions(pools, call.svc)[d]
  BY <1>6, <1>7
<1> QED BY <1>7, <1>8, <1>9, <1>10, <1>11, <1>12


\* A service that releases its slots has none, and the others have theirs.
LEMMA ReleaseSlots ==
  ASSUME TInv, NEW t, releaseSlots(t)
  PROVE  /\ PoolsOK(pools') /\ DOMAIN pools' = DOMAIN pools
         /\ \A c \in Pools \X GPUs : Positions(pools', t)[c] = {}
         /\ \A s : s # t => \A c \in Pools \X GPUs :
              ExistsBijection(Positions(pools, s)[c], Positions(pools', s)[c])
<1> DEFINE Rest(p, g) == rebalanceSlots(pools[p].GPUs[g].Slots,
                            DOMAIN pools[p].GPUs[g].Slots \ SlotsOf(pools[p].GPUs[g].Slots, t),
                            pools[p].SlotInterval)
           New(p, g) == IF SlotsOf(pools[p].GPUs[g].Slots, t) = {} THEN pools[p].GPUs[g]
                        ELSE [pools[p].GPUs[g] EXCEPT !.Slots = Rest(p, g)]
<1>1. pools' = [p \in DOMAIN pools |-> [pools[p] EXCEPT !.GPUs =
                  [g \in DOMAIN pools[p].GPUs |-> New(p, g)]]]
  BY DEF releaseSlots, WithoutSlots
<1>2. ASSUME NEW p \in DOMAIN pools, NEW g \in DOMAIN pools[p].GPUs
      PROVE  /\ GPUOK(New(p, g), pools[p].SlotInterval)
             /\ SlotsOf(New(p, g).Slots, t) = {}
             /\ \A s : s # t => ExistsBijection(SlotsOf(pools[p].GPUs[g].Slots, s),
                                                SlotsOf(New(p, g).Slots, s))
  <2> DEFINE gpu == pools[p].GPUs[g]
             slots == gpu.Slots
             interval == pools[p].SlotInterval
             K == DOMAIN slots \ SlotsOf(slots, t)
             R == rebalanceSlots(slots, K, interval)
  <2>1. ConfigOK(p, pools[p])
    BY DEF TInv, PoolsOK
  <2>2. /\ gpu \in TimesliceGPU /\ slots \in Seq(TimeSlot) /\ interval \in Nat
        /\ GPUOK(gpu, interval) /\ MaxSlots \in Nat
    BY <2>1, ConfigFacts, TimesliceAssumption
  <2>3. CASE SlotsOf(slots, t) = {}
    <3>1. New(p, g) = gpu
      BY <2>3
    <3> QED BY <2>2, <2>3, <3>1, Fun_ExistsBijReflexive
  <2>4. CASE SlotsOf(slots, t) # {}
    <3>1. New(p, g) = [gpu EXCEPT !.Slots = R]
      BY <2>4
    <3>2. K \in SUBSET DOMAIN slots
      OBVIOUS
    <3> HIDE DEF New, gpu, slots, interval, K
    <3>3. /\ R \in Seq(TimeSlot) /\ Settled(R, interval) /\ Len(R) <= Len(slots)
          /\ \A s : ExistsBijection(SlotsOf(slots, s) \cap K, SlotsOf(R, s))
      BY <2>2, <3>2, RebalanceFacts
    <3> HIDE DEF R
    <3>4. Len(R) <= MaxSlots
      <4>1. Len(R) \in Nat /\ Len(slots) \in Nat /\ Len(slots) <= MaxSlots
        BY <2>2, <3>3, LenProperties DEF GPUOK, slots
      <4> QED BY <2>2, <3>3, <4>1
    <3>5. GPUOK(New(p, g), interval) /\ New(p, g).Slots = R
      BY <2>2, <3>1, <3>3, <3>4, GPUWithSlots
    <3>6. SlotsOf(R, t) = {}
      <4>1. SlotsOf(slots, t) \cap K = {}
        BY DEF K
      <4>2. ExistsBijection({}, SlotsOf(R, t))
        BY <3>3, <4>1
      <4>3. PICK f \in Bijection({}, SlotsOf(R, t)) : TRUE
        BY <4>2 DEF ExistsBijection
      <4>4. \A x \in SlotsOf(R, t) : \E y \in {} : f[y] = x
        BY <4>3 DEF Bijection, Surjection
      <4> QED BY <4>4
    <3>7. ASSUME NEW s, s # t PROVE ExistsBijection(SlotsOf(slots, s), SlotsOf(R, s))
      <4>1. SlotsOf(slots, s) \cap K = SlotsOf(slots, s)
        BY <3>7 DEF K, SlotsOf
      <4>2. ExistsBijection(SlotsOf(slots, s) \cap K, SlotsOf(R, s))
        BY <3>3
      <4> QED BY <4>1, <4>2
    <3> QED BY <3>5, <3>6, <3>7 DEF interval, slots, gpu
  <2> QED BY <2>3, <2>4
<1> HIDE DEF New
<1>3. /\ DOMAIN pools' = DOMAIN pools
      /\ \A p \in DOMAIN pools :
           /\ pools'[p].GPUs = [g \in DOMAIN pools[p].GPUs |-> New(p, g)]
           /\ pools'[p] = [pools[p] EXCEPT !.GPUs = pools'[p].GPUs]
  <2>1. \A p \in DOMAIN pools : pools[p] \in PoolConfig(p)
    BY DEF TInv, PoolsOK, ConfigOK
  <2> QED BY <1>1, <2>1 DEF PoolConfig
<1>4. /\ \A p \in DOMAIN pools : \A g \in DOMAIN pools[p].GPUs : pools'[p].GPUs[g] = New(p, g)
      /\ \A p \in DOMAIN pools :
           pools'[p].GPUs = [g \in DOMAIN pools[p].GPUs |-> pools'[p].GPUs[g]]
  BY <1>3
<1>5. /\ PoolsOK(pools')
      /\ \A s : \A c \in Pools \X GPUs :
           Positions(pools', s)[c] = IF c[1] \in DOMAIN pools /\ c[2] \in DOMAIN pools[c[1]].GPUs
                                     THEN SlotsOf(New(c[1], c[2]).Slots, s) ELSE {}
  <2>1. PoolsOK(pools)
    BY DEF TInv
  <2>2. \A p \in DOMAIN pools : \A g \in DOMAIN pools[p].GPUs :
          GPUOK(pools'[p].GPUs[g], pools[p].SlotInterval)
    BY <1>2, <1>4
  <2>3. /\ PoolsOK(pools')
        /\ \A s : \A c \in Pools \X GPUs :
             Positions(pools', s)[c] = IF c[1] \in DOMAIN pools /\ c[2] \in DOMAIN pools[c[1]].GPUs
                                       THEN SlotsOf(pools'[c[1]].GPUs[c[2]].Slots, s) ELSE {}
    <3>1. SameGPUs(pools, pools')
      BY <1>3, <1>4, <2>2 DEF SameGPUs
    <3> QED BY <2>1, <3>1, AllReplaced
  <2> QED BY <1>4, <2>3
<1>6. ASSUME NEW s, s # t, NEW c \in Pools \X GPUs
      PROVE  ExistsBijection(Positions(pools, s)[c], Positions(pools', s)[c])
  <2>1. CASE c[1] \in DOMAIN pools /\ c[2] \in DOMAIN pools[c[1]].GPUs
    <3>1. /\ Positions(pools, s)[c] = SlotsOf(pools[c[1]].GPUs[c[2]].Slots, s)
          /\ Positions(pools', s)[c] = SlotsOf(New(c[1], c[2]).Slots, s)
      BY <1>5, <2>1 DEF Positions
    <3> QED BY <1>2, <1>6, <2>1, <3>1
  <2>2. CASE ~ (c[1] \in DOMAIN pools /\ c[2] \in DOMAIN pools[c[1]].GPUs)
    <3>1. Positions(pools, s)[c] = {} /\ Positions(pools', s)[c] = {}
      BY <1>5, <2>2 DEF Positions
    <3> QED BY <3>1, Fun_ExistsBijReflexive
  <2> QED BY <2>1, <2>2
<1>7. \A c \in Pools \X GPUs : Positions(pools', t)[c] = {}
  BY <1>2, <1>5
<1> QED BY <1>3, <1>5, <1>6, <1>7

\* A slot with another priority changes places with others.
LEMMA PrioritySlots ==
  ASSUME TInv, NEW c \in Configured, NEW i \in DOMAIN SlotsOn(c), NEW priority \in Priorities,
         SetSlotPriority(c, i, priority)
  PROVE  /\ PoolsOK(pools')
         /\ \A s : \A d \in Pools \X GPUs :
              ExistsBijection(Positions(pools, s)[d], Positions(pools', s)[d])
<1> DEFINE p == c[1]
           g == c[2]
           gpu == pools[p].GPUs[g]
           slots == gpu.Slots
           interval == pools[p].SlotInterval
           changed == [slots EXCEPT ![i].Priority = priority]
           R == rebalanceSlots(changed, DOMAIN slots, interval)
           x == [gpu EXCEPT !.Slots = R]
<1>1. /\ p \in DOMAIN pools /\ g \in DOMAIN pools[p].GPUs /\ c \in Pools \X GPUs /\ c = <<p, g>>
      /\ i \in DOMAIN slots
  BY DEF Configured, SlotsOn
<1>2. pools' = [pools EXCEPT ![p] = [pools[p] EXCEPT !.GPUs = [pools[p].GPUs EXCEPT ![g] = x]]]
  BY DEF SetSlotPriority, SlotsOn
<1>3. PoolsOK(pools) /\ ConfigOK(p, pools[p])
  BY <1>1 DEF TInv, PoolsOK
<1>4. /\ gpu \in TimesliceGPU /\ slots \in Seq(TimeSlot) /\ interval \in Nat
      /\ GPUOK(gpu, interval) /\ MaxSlots \in Nat /\ g \in GPUsOf[p]
      /\ pools[p].GPUs = [h \in DOMAIN pools[p].GPUs |-> pools[p].GPUs[h]]
  BY <1>1, <1>3, ConfigFacts, TimesliceAssumption
<1>5. [pools[p].GPUs EXCEPT ![g] = x] = Put(pools[p].GPUs, g, x)
  BY <1>1 DEF Put
<1>6. pools' = Replaced(pools, p, g, x)
  BY <1>2, <1>5 DEF Replaced
<1> HIDE DEF gpu, slots, interval
<1>7. /\ changed \in Seq(TimeSlot) /\ DOMAIN changed = DOMAIN slots /\ Len(changed) = Len(slots)
      /\ \A j \in DOMAIN slots : changed[j].svc = slots[j].svc
  <2> DEFINE y == [slots[i] EXCEPT !.Priority = priority]
  <2>1. slots[i] \in TimeSlot
    BY <1>1, <1>4, SlotFacts
  <2>2. y \in TimeSlot /\ y.svc = slots[i].svc
    BY <2>1 DEF TimeSlot
  <2>3. changed = [slots EXCEPT ![i] = y]
    OBVIOUS
  <2> HIDE DEF y, changed
  <2>4. changed \in Seq(TimeSlot) /\ Len(changed) = Len(slots)
    BY <1>1, <1>4, <2>2, <2>3, ExceptSeq
  <2>5. \A j \in DOMAIN slots : changed[j] = IF j = i THEN y ELSE slots[j]
    BY <2>3
  <2> QED BY <2>2, <2>3, <2>4, <2>5
<1> HIDE DEF changed
<1>8. /\ R \in Seq(TimeSlot) /\ Settled(R, interval) /\ Len(R) <= Len(changed)
      /\ \A s : ExistsBijection(SlotsOf(changed, s) \cap DOMAIN slots, SlotsOf(R, s))
  <2>1. DOMAIN slots \in SUBSET DOMAIN changed
    BY <1>7
  <2> QED BY <1>4, <1>7, <2>1, RebalanceFacts
<1> HIDE DEF R
<1>9. \A s : SlotsOf(changed, s) \cap DOMAIN slots = SlotsOf(slots, s)
  BY <1>7 DEF SlotsOf
<1>10. Len(R) <= MaxSlots
  <2>1. Len(R) \in Nat /\ Len(slots) \in Nat /\ Len(slots) <= MaxSlots
    BY <1>4, <1>8, LenProperties DEF GPUOK, slots
  <2> QED BY <1>4, <1>7, <1>8, <2>1
<1>11. GPUOK(x, interval) /\ x.Slots = R
  BY <1>4, <1>8, <1>10, GPUWithSlots
<1> HIDE DEF x, p, g
<1>12. /\ PoolsOK(pools')
       /\ \A s : \A d \in Pools \X GPUs :
            Positions(pools', s)[d] = IF d = c THEN SlotsOf(R, s) ELSE Positions(pools, s)[d]
  <2>1. GPUOK(x, pools[p].SlotInterval)
    BY <1>11 DEF interval
  <2> QED BY <1>1, <1>3, <1>4, <1>6, <1>11, <2>1, OneReplaced
<1>13. \A s : Positions(pools, s)[c] = SlotsOf(slots, s)
  BY <1>1 DEF Positions, slots, gpu, p, g
<1>14. ASSUME NEW s, NEW d \in Pools \X GPUs
       PROVE  ExistsBijection(Positions(pools, s)[d], Positions(pools', s)[d])
  <2>1. CASE d = c
    <3>1. ExistsBijection(SlotsOf(slots, s), SlotsOf(R, s))
      <4>1. ExistsBijection(SlotsOf(changed, s) \cap DOMAIN slots, SlotsOf(R, s))
        BY <1>8
      <4> QED BY <1>9, <4>1
    <3> QED BY <1>12, <1>13, <2>1, <3>1
  <2>2. CASE d # c
    BY <1>12, <2>2, Fun_ExistsBijReflexive
  <2> QED BY <2>1, <2>2
<1> QED BY <1>12, <1>14

\* The scheduler leaves the slots where they are.
LEMMA ScheduleSlots ==
  ASSUME TInv, NEW elapsed \in SUBSET Configured, scheduleSlots(elapsed)
  PROVE  /\ PoolsOK(pools')
         /\ \A s : \A c \in Pools \X GPUs : Positions(pools', s)[c] = Positions(pools, s)[c]
<1> DEFINE New(p, g) == IF <<p, g>> \in elapsed
                        THEN [pools[p].GPUs[g] EXCEPT !.CurrentSlotIdx = NextSlot(pools[p].GPUs[g])]
                        ELSE pools[p].GPUs[g]
<1>1. pools' = [p \in DOMAIN pools |-> [pools[p] EXCEPT !.GPUs =
                  [g \in DOMAIN pools[p].GPUs |-> New(p, g)]]]
  BY DEF scheduleSlots
<1>2. ASSUME NEW p \in DOMAIN pools, NEW g \in DOMAIN pools[p].GPUs
      PROVE  /\ GPUOK(New(p, g), pools[p].SlotInterval)
             /\ New(p, g).Slots = pools[p].GPUs[g].Slots
  <2> DEFINE gpu == pools[p].GPUs[g]
             i == NextSlot(gpu)
  <2>1. ConfigOK(p, pools[p])
    BY DEF TInv, PoolsOK
  <2>2. /\ gpu \in TimesliceGPU /\ gpu.Slots \in Seq(TimeSlot)
        /\ GPUOK(gpu, pools[p].SlotInterval) /\ MaxSlots \in Nat
        /\ gpu.CurrentSlotIdx \in 0..(MaxSlots - 1)
    BY <2>1, ConfigFacts, TimesliceAssumption
  <2>3. CASE <<p, g>> \in elapsed
    <3>1. gpu.Slots # <<>>
      BY <2>3 DEF scheduleSlots, SlotsOn
    <3>2. Len(gpu.Slots) \in Nat /\ Len(gpu.Slots) # 0 /\ Len(gpu.Slots) <= MaxSlots
      BY <2>2, <3>1, EmptySeq, LenProperties DEF GPUOK
    <3>3. i \in 0..(MaxSlots - 1)
      <4> DEFINE l == Len(gpu.Slots)
                 k == gpu.CurrentSlotIdx
      <4>1. i = (k + 1) % l
        BY DEF NextSlot
      <4>2. k \in Nat /\ l \in Nat /\ l # 0 /\ l <= MaxSlots
        BY <2>2, <3>2
      <4> HIDE DEF k, l, i
      <4>3. (k + 1) % l \in 0..(l - 1)
        BY <4>2
      <4> QED BY <2>2, <4>1, <4>2, <4>3
    <3>4. New(p, g) = [gpu EXCEPT !.CurrentSlotIdx = i]
      BY <2>3
    <3> HIDE DEF New, gpu, i
    <3>5. New(p, g) \in TimesliceGPU /\ New(p, g).Slots = gpu.Slots
      BY <2>2, <3>3, <3>4 DEF TimesliceGPU
    <3> QED BY <2>2, <3>5 DEF GPUOK, gpu
  <2>4. CASE <<p, g>> \notin elapsed
    BY <2>2, <2>4
  <2> QED BY <2>3, <2>4
<1> HIDE DEF New
<1>3. /\ DOMAIN pools' = DOMAIN pools
      /\ \A p \in DOMAIN pools :
           /\ pools'[p].GPUs = [g \in DOMAIN pools[p].GPUs |-> New(p, g)]
           /\ pools'[p] = [pools[p] EXCEPT !.GPUs = pools'[p].GPUs]
  <2>1. \A p \in DOMAIN pools : pools[p] \in PoolConfig(p)
    BY DEF TInv, PoolsOK, ConfigOK
  <2> QED BY <1>1, <2>1 DEF PoolConfig
<1>4. /\ \A p \in DOMAIN pools : \A g \in DOMAIN pools[p].GPUs : pools'[p].GPUs[g] = New(p, g)
      /\ \A p \in DOMAIN pools :
           pools'[p].GPUs = [g \in DOMAIN pools[p].GPUs |-> pools'[p].GPUs[g]]
  BY <1>3
<1>5. \A p \in DOMAIN pools : \A g \in DOMAIN pools[p].GPUs :
        GPUOK(pools'[p].GPUs[g], pools[p].SlotInterval)
  BY <1>2, <1>4
<1>6. /\ PoolsOK(pools')
      /\ \A s : \A c \in Pools \X GPUs :
           Positions(pools', s)[c] = IF c[1] \in DOMAIN pools /\ c[2] \in DOMAIN pools[c[1]].GPUs
                                     THEN SlotsOf(pools'[c[1]].GPUs[c[2]].Slots, s) ELSE {}
  <2>1. PoolsOK(pools)
    BY DEF TInv
  <2>2. SameGPUs(pools, pools')
    BY <1>3, <1>4, <1>5 DEF SameGPUs
  <2> QED BY <2>1, <2>2, AllReplaced
<1> QED BY <1>2, <1>4, <1>6 DEF Positions


-----------------------------------------------------------------------------
(* The types, the tiling and the fairness. *)

\* The managers start with nothing.
LEMMA TInvInit == Init => TInv
<1> SUFFICES ASSUME Init PROVE TInv
  OBVIOUS
<1>1. DOMAIN pools = {}
  BY DEF Init
<1> QED BY <1>1 DEF Init, TInv, PoolsOK, CallOK

\* No step breaks the invariant.
LEMMA TInvStep == TInv /\ [Next]_vars => TInv'
<1> SUFFICES ASSUME TInv, [Next]_vars PROVE TInv'
  OBVIOUS
<1>1. /\ PoolsOK(pools) /\ allocations \in [Services -> [GPUs -> Nat]]
      /\ CallOK(call, pools) /\ dropped \subseteq Services
  BY DEF TInv
<1>2. ASSUME NEW elapsed \in SUBSET Configured, scheduleSlots(elapsed) PROVE TInv'
  <2>1. call' = NoCall /\ UNCHANGED <<allocations, dropped>>
    BY <1>2 DEF scheduleSlots
  <2> QED BY <1>1, <1>2, <2>1, ScheduleSlots DEF TInv, CallOK
<1>3. ASSUME NEW g \in GPUs, AllocateOne(g) PROVE TInv'
  <2>1. /\ call # NoCall /\ call.i < call.n /\ UNCHANGED dropped
        /\ allocations' = [allocations EXCEPT ![call.svc][g] = allocations[call.svc][g] + 1]
        /\ call' = [call EXCEPT !.i = call.i + 1]
    BY <1>3 DEF AllocateOne
  <2>2. PoolsOK(pools') /\ DOMAIN pools' = DOMAIN pools
    BY <1>3, AllocateSlots
  <2>3. /\ call \in [pool : DOMAIN pools, svc : Services, n : Counts, i : Nat]
        /\ call.n \in Nat
    BY <1>1, <2>1, TimesliceAssumption DEF CallOK
  <2>4. CallOK(call', pools')
    BY <2>1, <2>2, <2>3 DEF CallOK
  <2>5. allocations' \in [Services -> [GPUs -> Nat]]
    BY <1>1, <2>1, <2>3
  <2> QED BY <1>1, <2>1, <2>2, <2>4, <2>5 DEF TInv
<1>4. CASE AllocateDone
  <2>1. call' = NoCall /\ UNCHANGED <<pools, allocations, dropped>>
    BY <1>4 DEF AllocateDone
  <2> QED BY <1>1, <2>1 DEF TInv, CallOK
<1>5. ASSUME NEW t, releaseSlots(t), call' = NoCall PROVE TInv'
  <2>1. /\ allocations' = [allocations EXCEPT ![t] = [g \in GPUs |-> 0]]
        /\ dropped' = dropped \ {t}
    BY <1>5 DEF releaseSlots
  <2>2. PoolsOK(pools')
    BY <1>5, ReleaseSlots
  <2>3. allocations' \in [Services -> [GPUs -> Nat]]
    BY <1>1, <2>1
  <2> QED BY <1>1, <1>5, <2>1, <2>2, <2>3 DEF TInv, CallOK
<1>6. CASE AllocateError
  BY <1>5, <1>6 DEF AllocateError
<1>7. ASSUME NEW s \in Services, Release(s) PROVE TInv'
  BY <1>5, <1>7 DEF Release
<1>8. ASSUME NEW p \in Pools, NEW s \in Services, NEW n \in Counts, Allocate(p, s, n) PROVE TInv'
  <2>1. /\ p \in DOMAIN pools /\ call' = [pool |-> p, svc |-> s, n |-> n, i |-> 0]
        /\ UNCHANGED <<pools, allocations, dropped>>
    BY <1>8 DEF Allocate
  <2>2. n \in Nat
    BY TimesliceAssumption
  <2>3. CallOK(call', pools')
    BY <2>1, <2>2 DEF CallOK
  <2> QED BY <1>1, <2>1, <2>3 DEF TInv
<1>9. ASSUME NEW p \in Pools, CleanupPool(p) PROVE TInv'
  <2>1. call' = NoCall /\ UNCHANGED <<allocations, dropped>>
    BY <1>9 DEF CleanupPool
  <2> QED BY <1>1, <1>9, <2>1, CleanupSlots DEF TInv, CallOK
<1>10. ASSUME NEW p \in Pools, NEW interval \in Intervals, ConfigurePool(p, interval) PROVE TInv'
  <2>1. call' = NoCall /\ UNCHANGED allocations /\ dropped' \subseteq Services
    BY <1>1, <1>10 DEF ConfigurePool
  <2> QED BY <1>1, <1>10, <2>1, ConfigureSlots DEF TInv, CallOK
<1>11. ASSUME NEW c \in Configured, NEW priority \in Priorities, NEW i \in DOMAIN SlotsOn(c),
              SetSlotPriority(c, i, priority)
       PROVE  TInv'
  <2>1. call' = NoCall /\ UNCHANGED <<allocations, dropped>>
    BY <1>11 DEF SetSlotPriority
  <2> QED BY <1>1, <1>11, <2>1, PrioritySlots DEF TInv, CallOK
<1>12. CASE UNCHANGED vars
  BY <1>1, <1>12 DEF vars, TInv
<1> QED BY <1>2, <1>3, <1>4, <1>6, <1>7, <1>8, <1>9, <1>10, <1>11, <1>12
        DEF Next, Tick, Allocating

\* The state of the manager is well typed, in the middle of a request too.
THEOREM TypeOKTheorem == Spec => []TypeOK
BY TInvInit, TInvStep, TInvImplies, PTL DEF Spec

\* For every interval, minimum and mix of int32 priorities, on amd64 and arm64,
\* and whatever was allocated and released before, the slots of a GPU lie one
\* behind the other from the start of the interval to its end or beyond, as long
\* as the sum of their shares does not overflow an int64 (timeslice.go,
\* rebalanceSlots and its callers).
THEOREM SlotsTileTheorem == Spec => []SlotsTile
BY TInvInit, TInvStep, TInvImplies, PTL DEF Spec

\* Slots of one priority, negative ones but -1 included, whose total weight does
\* not overflow an int32 and that have room for the minimum fill the interval
\* exactly, and differ by rounding only (timeslice.go, "rebalances time slots to
\* ensure fair distribution").  SetSlotPriority checks neither condition.
THEOREM EqualSharesFitTheorem == Spec => []EqualSharesFit
BY TInvInit, TInvStep, TInvImplies, PTL DEF Spec

-----------------------------------------------------------------------------
(* Records and slots. *)

\* The slots at the positions P on the GPUs of G.
Pairs(P, G) == {h \in (Pools \X G) \X Nat : h[2] \in P[h[1]]}

\* Positions are numbers.
LEMMA PositionsType ==
  ASSUME NEW ps, PoolsOK(ps), NEW s, NEW c \in Pools \X GPUs
  PROVE  Positions(ps, s)[c] \in SUBSET Nat
<1>1. CASE c[1] \in DOMAIN ps /\ c[2] \in DOMAIN ps[c[1]].GPUs
  <2> DEFINE slots == ps[c[1]].GPUs[c[2]].Slots
  <2>1. ConfigOK(c[1], ps[c[1]])
    BY <1>1 DEF PoolsOK
  <2>2. slots \in Seq(TimeSlot)
    BY <1>1, <2>1, ConfigFacts
  <2>3. Positions(ps, s)[c] = SlotsOf(slots, s)
    BY <1>1 DEF Positions
  <2> HIDE DEF slots
  <2>4. DOMAIN slots \subseteq Nat
    BY <2>2, SlotFacts
  <2> QED BY <2>3, <2>4 DEF SlotsOf
<1>2. CASE ~ (c[1] \in DOMAIN ps /\ c[2] \in DOMAIN ps[c[1]].GPUs)
  BY <1>2 DEF Positions
<1> QED BY <1>1, <1>2

\* What a service holds, in terms of positions.
LEMMA HeldPairs ==
  ASSUME PoolsOK(pools), NEW s
  PROVE  /\ Held(s) = Pairs(Positions(pools, s), GPUs)
         /\ \A g \in GPUs : {h \in Held(s) : h[1][2] = g} = Pairs(Positions(pools, s), {g})
<1> DEFINE P == Positions(pools, s)
<1>1. \A c \in Pools \X GPUs :
        P[c] = IF c \in Configured THEN SlotsOf(SlotsOn(c), s) ELSE {}
  BY DEF Positions, Configured, SlotsOn
<1>2. \A c \in Pools \X GPUs : P[c] \in SUBSET Nat
  BY PositionsType
<1>3. Configured \subseteq Pools \X GPUs
  BY DEF Configured
<1> HIDE DEF P
<1>4. \A h : h \in Held(s) <=> \E c \in Configured : h \in {c} \X SlotsOf(SlotsOn(c), s)
  BY DEF Held
<1>5. \A h : h \in Held(s) <=> h \in Pairs(P, GPUs)
  <2>1. ASSUME NEW h \in Held(s) PROVE h \in Pairs(P, GPUs)
    <3>1. PICK c \in Configured : h \in {c} \X SlotsOf(SlotsOn(c), s)
      BY <1>4
    <3>2. h = <<h[1], h[2]>> /\ h[1] = c /\ h[2] \in P[c]
      BY <1>1, <1>3, <3>1
    <3> QED BY <1>2, <1>3, <3>1, <3>2 DEF Pairs
  <2>2. ASSUME NEW h \in Pairs(P, GPUs) PROVE h \in Held(s)
    <3>1. h = <<h[1], h[2]>> /\ h[1] \in Pools \X GPUs /\ h[2] \in P[h[1]]
      BY DEF Pairs
    <3>2. h[1] \in Configured /\ h[2] \in SlotsOf(SlotsOn(h[1]), s)
      BY <1>1, <3>1
    <3> QED BY <1>4, <3>1, <3>2
  <2> QED BY <2>1, <2>2
<1>6. Held(s) = Pairs(P, GPUs)
  BY <1>5
<1>7. ASSUME NEW g \in GPUs PROVE {h \in Held(s) : h[1][2] = g} = Pairs(P, {g})
  BY <1>6 DEF Pairs
<1> QED BY <1>6, <1>7 DEF P

\* The same after a step.
LEMMA HeldPairsNext ==
  PoolsOK(pools') => \A s : Held(s)' = Pairs(Positions(pools', s), GPUs)
<1>1. PoolsOK(pools) => \A s : Held(s) = Pairs(Positions(pools, s), GPUs)
  BY HeldPairs
<1>2. (PoolsOK(pools) => \A s : Held(s) = Pairs(Positions(pools, s), GPUs))'
  BY <1>1, PTL
<1> QED BY <1>2

\* Slots that change places on their GPUs correspond to each other.
LEMMA PairsMatch ==
  ASSUME NEW P, NEW Q, NEW G \in SUBSET GPUs,
         \A c \in Pools \X GPUs : /\ P[c] \in SUBSET Nat /\ Q[c] \in SUBSET Nat
                                  /\ ExistsBijection(P[c], Q[c])
  PROVE  ExistsBijection(Pairs(P, G), Pairs(Q, G))
<1> DEFINE F(c) == CHOOSE f : f \in Bijection(P[c], Q[c])
           b == [h \in Pairs(P, G) |-> <<h[1], F(h[1])[h[2]]>>]
<1>1. \A c \in Pools \X GPUs : F(c) \in Bijection(P[c], Q[c])
  BY DEF ExistsBijection
<1> HIDE DEF F
<1>2. ASSUME NEW c \in Pools \X GPUs
      PROVE  /\ \A i \in P[c] : F(c)[i] \in Q[c]
             /\ \A i, j \in P[c] : F(c)[i] = F(c)[j] => i = j
             /\ \A k \in Q[c] : \E i \in P[c] : F(c)[i] = k
  BY <1>1 DEF Bijection, Injection, Surjection, IsInjective
<1>3. \A h \in Pairs(P, G) : /\ h = <<h[1], h[2]>> /\ h[1] \in Pools \X GPUs /\ h[1] \in Pools \X G
                             /\ h[2] \in P[h[1]]
  BY DEF Pairs
<1>4. \A h \in Pairs(P, G) : b[h] \in Pairs(Q, G)
  BY <1>2, <1>3 DEF Pairs
<1>5. \A h, k \in Pairs(P, G) : b[h] = b[k] => h = k
  BY <1>2, <1>3
<1>6. ASSUME NEW k \in Pairs(Q, G) PROVE \E h \in Pairs(P, G) : b[h] = k
  <2>1. k = <<k[1], k[2]>> /\ k[1] \in Pools \X GPUs /\ k[1] \in Pools \X G /\ k[2] \in Q[k[1]]
    BY DEF Pairs
  <2>2. PICK i \in P[k[1]] : F(k[1])[i] = k[2]
    BY <1>2, <2>1
  <2>3. <<k[1], i>> \in Pairs(P, G)
    BY <2>1, <2>2 DEF Pairs
  <2>4. b[<<k[1], i>>] = k
    BY <2>1, <2>2, <2>3
  <2> QED BY <2>3, <2>4
<1>7. b \in [Pairs(P, G) -> Pairs(Q, G)]
  BY <1>4
<1>8. b \in Bijection(Pairs(P, G), Pairs(Q, G))
  <2> HIDE DEF b
  <2> QED BY <1>5, <1>6, <1>7 DEF Bijection, Injection, Surjection, IsInjective
<1> QED BY <1>8 DEF ExistsBijection

\* A service has finitely many slots.
Finite(P) == IsFiniteSet(Pairs(P, GPUs))

\* So it has on some of the GPUs.
LEMMA FinitePart ==
  ASSUME NEW P, Finite(P), NEW G \in SUBSET GPUs
  PROVE  IsFiniteSet(Pairs(P, G)) /\ Cardinality(Pairs(P, G)) \in Nat
<1>1. Pairs(P, G) \in SUBSET Pairs(P, GPUs)
  BY DEF Pairs
<1> QED BY <1>1, FS_Subset, FS_CardinalityType DEF Finite

\* Slots that change places on their GPUs are as many as before.
LEMMA SameCount ==
  ASSUME NEW P, NEW Q, Finite(P),
         \A c \in Pools \X GPUs : /\ P[c] \in SUBSET Nat /\ Q[c] \in SUBSET Nat
                                  /\ ExistsBijection(P[c], Q[c])
  PROVE  /\ Finite(Q)
         /\ \A G \in SUBSET GPUs : Cardinality(Pairs(Q, G)) = Cardinality(Pairs(P, G))
<1>1. \A G \in SUBSET GPUs : ExistsBijection(Pairs(P, G), Pairs(Q, G))
  BY PairsMatch
<1>2. Finite(Q)
  BY <1>1, FS_Bijection DEF Finite
<1>3. ASSUME NEW G \in SUBSET GPUs PROVE Cardinality(Pairs(Q, G)) = Cardinality(Pairs(P, G))
  BY <1>1, FinitePart, FS_Bijection
<1> QED BY <1>2, <1>3

\* A slot more on one GPU.
LEMMA OneMore ==
  ASSUME NEW P, NEW Q, Finite(P), NEW g \in GPUs, NEW d \in Pools \X {g}, NEW n \in Nat,
         n \notin P[d],
         \A c \in Pools \X GPUs : /\ P[c] \in SUBSET Nat /\ Q[c] \in SUBSET Nat
                                  /\ ExistsBijection(IF c = d THEN P[c] \cup {n} ELSE P[c], Q[c])
  PROVE  /\ Finite(Q)
         /\ \A G \in SUBSET GPUs :
              Cardinality(Pairs(Q, G)) = Cardinality(Pairs(P, G)) + IF g \in G THEN 1 ELSE 0
<1> DEFINE M == [c \in Pools \X GPUs |-> IF c = d THEN P[c] \cup {n} ELSE P[c]]
<1>1. d \in Pools \X GPUs /\ d = <<d[1], g>> /\ d[1] \in Pools
  OBVIOUS
<1>2. \A c \in Pools \X GPUs : /\ M[c] \in SUBSET Nat /\ Q[c] \in SUBSET Nat
                               /\ ExistsBijection(M[c], Q[c])
  OBVIOUS
<1>3. \A c \in Pools \X GPUs : M[c] = IF c = d THEN P[c] \cup {n} ELSE P[c]
  OBVIOUS
<1> HIDE DEF M
<1>4. ASSUME NEW G \in SUBSET GPUs, g \in G
      PROVE  Pairs(M, G) = Pairs(P, G) \cup {<<d, n>>} /\ <<d, n>> \notin Pairs(P, G)
  <2>1. d \in Pools \X G
    BY <1>1, <1>4
  <2>2. <<d, n>> \notin Pairs(P, G) /\ <<d, n>> \in Pairs(M, G)
    BY <1>1, <1>3, <2>1 DEF Pairs
  <2>3. \A h \in Pairs(P, G) : h \in Pairs(M, G)
    BY <1>3 DEF Pairs
  <2>4. ASSUME NEW h \in Pairs(M, G) PROVE h = <<d, n>> \/ h \in Pairs(P, G)
    <3>1. /\ h = <<h[1], h[2]>> /\ h[1] \in Pools \X G /\ h[1] \in Pools \X GPUs
          /\ h[2] \in Nat /\ h[2] \in M[h[1]]
      BY DEF Pairs
    <3>2. h[2] \in P[h[1]] \/ (h[1] = d /\ h[2] = n)
      BY <1>3, <3>1
    <3> QED BY <3>1, <3>2 DEF Pairs
  <2> QED BY <2>2, <2>3, <2>4
<1>5. ASSUME NEW G \in SUBSET GPUs, g \notin G PROVE Pairs(M, G) = Pairs(P, G)
  <2>1. \A c \in Pools \X G : M[c] = P[c]
    BY <1>1, <1>3, <1>5
  <2> QED BY <2>1 DEF Pairs
<1>6. Finite(M)
  BY <1>4, FS_AddElement DEF Finite
<1>7. ASSUME NEW G \in SUBSET GPUs
      PROVE  Cardinality(Pairs(M, G)) = Cardinality(Pairs(P, G)) + IF g \in G THEN 1 ELSE 0
  <2>1. IsFiniteSet(Pairs(P, G)) /\ Cardinality(Pairs(P, G)) \in Nat
    BY FinitePart
  <2>2. CASE g \in G
    BY <1>4, <2>1, <2>2, FS_AddElement
  <2>3. CASE g \notin G
    BY <1>5, <2>1, <2>3
  <2> QED BY <2>2, <2>3
<1>8. /\ Finite(Q)
      /\ \A G \in SUBSET GPUs : Cardinality(Pairs(Q, G)) = Cardinality(Pairs(M, G))
  BY <1>2, <1>6, SameCount
<1> QED BY <1>7, <1>8

\* The invariant of the records: a service has as many for a GPU as it has
\* slots there.
Counted ==
  \A s \in Services :
    /\ Finite(Positions(pools, s))
    /\ s \notin dropped => \A g \in GPUs :
         allocations[s][g] = Cardinality(Pairs(Positions(pools, s), {g}))

\* It says what the records have to.
LEMMA CountedImplies == TInv /\ Counted => AllocationsMatch
<1> SUFFICES ASSUME TInv, Counted, NEW s \in Services \ dropped, NEW g \in GPUs
             PROVE  allocations[s][g] = Cardinality({h \in Held(s) : h[1][2] = g})
  BY DEF AllocationsMatch
<1>1. {h \in Held(s) : h[1][2] = g} = Pairs(Positions(pools, s), {g})
  BY HeldPairs DEF TInv
<1> QED BY <1>1 DEF Counted

\* A service whose slots only change places.
SameSlots(s) == \A c \in Pools \X GPUs :
                  ExistsBijection(Positions(pools, s)[c], Positions(pools', s)[c])

\* It has as many as before.
LEMMA SameSlotsCount ==
  ASSUME TInv, Counted, PoolsOK(pools'), NEW s \in Services, SameSlots(s)
  PROVE  /\ Finite(Positions(pools', s))
         /\ \A G \in SUBSET GPUs : Cardinality(Pairs(Positions(pools', s), G))
                                     = Cardinality(Pairs(Positions(pools, s), G))
<1> DEFINE P == Positions(pools, s)
           Q == Positions(pools', s)
<1>1. \A c \in Pools \X GPUs : /\ P[c] \in SUBSET Nat /\ Q[c] \in SUBSET Nat
                               /\ ExistsBijection(P[c], Q[c])
  BY PositionsType DEF TInv, SameSlots
<1>2. Finite(P)
  BY DEF Counted
<1> HIDE DEF P, Q
<1>3. Finite(Q) /\ \A G \in SUBSET GPUs : Cardinality(Pairs(Q, G)) = Cardinality(Pairs(P, G))
  BY <1>1, <1>2, SameCount
<1> QED BY <1>3 DEF P, Q

\* What a request does to the counts of the service it is for.
LEMMA AllocateCount ==
  ASSUME TInv, Counted, NEW g \in GPUs, AllocateOne(g)
  PROVE  LET P == Positions(pools, call.svc)
             Q == Positions(pools', call.svc)
         IN  /\ Finite(Q)
             /\ \A G \in SUBSET GPUs :
                  Cardinality(Pairs(Q, G)) = Cardinality(Pairs(P, G)) + IF g \in G THEN 1 ELSE 0
<1> DEFINE P == Positions(pools, call.svc)
           Q == Positions(pools', call.svc)
<1>1. call.svc \in Services
  BY DEF AllocateOne, TInv, CallOK
<1>2. PoolsOK(pools) /\ PoolsOK(pools')
  BY AllocateSlots DEF TInv
<1>3. \A c \in Pools \X GPUs : P[c] \in SUBSET Nat /\ Q[c] \in SUBSET Nat
  BY <1>2, PositionsType
<1>4. PICK d \in Pools \X {g}, n \in Nat :
        /\ n \notin P[d]
        /\ \A c \in Pools \X GPUs :
             ExistsBijection(IF c = d THEN P[c] \cup {n} ELSE P[c], Q[c])
  BY AllocateSlots
<1>5. Finite(P)
  BY <1>1 DEF Counted
<1> HIDE DEF P, Q
<1>6. /\ Finite(Q)
      /\ \A G \in SUBSET GPUs :
           Cardinality(Pairs(Q, G)) = Cardinality(Pairs(P, G)) + IF g \in G THEN 1 ELSE 0
  BY <1>3, <1>4, <1>5, OneMore
<1> QED BY <1>6 DEF P, Q

\* A service without slots.
LEMMA NoPairs ==
  ASSUME NEW P, \A c \in Pools \X GPUs : P[c] = {}
  PROVE  Finite(P) /\ \A G \in SUBSET GPUs : Pairs(P, G) = {} /\ Cardinality(Pairs(P, G)) = 0
<1>1. ASSUME NEW G \in SUBSET GPUs PROVE Pairs(P, G) = {}
  BY DEF Pairs
<1> QED BY <1>1, FS_EmptySet DEF Finite

\* Slots of some GPUs that are gone.
LEMMA FewerPairs ==
  ASSUME NEW P, NEW Q, Finite(P), \A c \in Pools \X GPUs : Q[c] \subseteq P[c]
  PROVE  Finite(Q)
<1>1. Pairs(Q, GPUs) \in SUBSET Pairs(P, GPUs)
  BY DEF Pairs
<1> QED BY <1>1, FS_Subset DEF Finite

\* A service that holds nothing of a pool keeps its slots when the pool is
\* configured again.
LEMMA ConfigureKeeps ==
  ASSUME TInv, NEW p \in Pools, NEW interval \in Intervals, ConfigurePool(p, interval),
         NEW s \in Services, s \notin dropped'
  PROVE  s \notin dropped /\ SameSlots(s)
<1>1. s \notin dropped /\ ~ \E h \in Held(s) : h[1][1] = p
  BY DEF ConfigurePool
<1>2. ASSUME NEW c \in Pools \X GPUs
      PROVE  ExistsBijection(Positions(pools, s)[c], Positions(pools', s)[c])
  <2>1. Positions(pools', s)[c] = IF c[1] = p THEN {} ELSE Positions(pools, s)[c]
    BY ConfigureSlots
  <2>2. c[1] = p => Positions(pools, s)[c] = {}
    <3> SUFFICES ASSUME c[1] = p, NEW i \in Positions(pools, s)[c] PROVE FALSE
      OBVIOUS
    <3>1. i \in Nat
      BY PositionsType DEF TInv
    <3>2. <<c, i>> \in Pairs(Positions(pools, s), GPUs)
      BY <3>1 DEF Pairs
    <3>3. <<c, i>> \in Held(s)
      BY <3>2, HeldPairs DEF TInv
    <3> QED BY <1>1, <3>3
  <2>3. Positions(pools', s)[c] = Positions(pools, s)[c]
    BY <2>1, <2>2
  <2> QED BY <2>3, Fun_ExistsBijReflexive
<1> QED BY <1>1, <1>2 DEF SameSlots

\* Counts and records that stay.
LEMMA CountedKept ==
  ASSUME TInv, Counted, PoolsOK(pools'), NEW s \in Services, SameSlots(s),
         s \notin dropped' => s \notin dropped, allocations'[s] = allocations[s]
  PROVE  /\ Finite(Positions(pools', s))
         /\ s \notin dropped' => \A g \in GPUs :
              allocations'[s][g] = Cardinality(Pairs(Positions(pools', s), {g}))
<1>1. /\ Finite(Positions(pools', s))
      /\ \A g \in GPUs : Cardinality(Pairs(Positions(pools', s), {g}))
                           = Cardinality(Pairs(Positions(pools, s), {g}))
  BY SameSlotsCount
<1> QED BY <1>1 DEF Counted

\* Nobody has a slot at the start.
LEMMA CountedInit == Init => Counted
<1> SUFFICES ASSUME Init PROVE Counted
  OBVIOUS
<1>1. DOMAIN pools = {}
  BY DEF Init
<1>2. ASSUME NEW s \in Services
      PROVE  /\ Finite(Positions(pools, s))
             /\ \A g \in GPUs : Cardinality(Pairs(Positions(pools, s), {g})) = 0
  <2>1. \A c \in Pools \X GPUs : Positions(pools, s)[c] = {}
    BY <1>1 DEF Positions
  <2> QED BY <2>1, NoPairs
<1>3. \A s \in Services, g \in GPUs : allocations[s][g] = 0
  BY DEF Init
<1> QED BY <1>2, <1>3 DEF Counted

\* A service whose positions are the same.
LEMMA SameReflexive ==
  ASSUME NEW s, \A c \in Pools \X GPUs : Positions(pools', s)[c] = Positions(pools, s)[c]
  PROVE  SameSlots(s)
BY Fun_ExistsBijReflexive DEF SameSlots

\* A service that a step gives nothing and takes nothing from, and one whose
\* slots it takes because the service itself releases them or fails to get more.
Untouched(s) ==
  SameSlots(s) /\ allocations'[s] = allocations[s] /\ (s \notin dropped' => s \notin dropped)
OwnRelease(s) ==
  releaseSlots(s) /\ (Release(s) \/ (call # NoCall /\ call.svc = s /\ AllocateError))

\* What a step may be for a service.
LEMMA SameSlotsStep ==
  ASSUME TInv, [Next]_vars, NEW s \in Services
  PROVE  \/ Untouched(s)
         \/ \E p \in Pools, interval \in Intervals : ConfigurePool(p, interval)
         \/ (\E g \in GPUs : AllocateOne(g)) /\ s = call.svc
         \/ OwnRelease(s)
<1>1. ASSUME UNCHANGED <<pools, allocations, dropped>> PROVE Untouched(s)
  BY <1>1, SameReflexive DEF Untouched
<1>2. ASSUME NEW elapsed \in SUBSET Configured, scheduleSlots(elapsed) PROVE Untouched(s)
  BY <1>2, ScheduleSlots, SameReflexive DEF scheduleSlots, Untouched
<1>3. ASSUME NEW p \in Pools, CleanupPool(p) PROVE Untouched(s)
  BY <1>3, CleanupSlots, SameReflexive DEF CleanupPool, Untouched
<1>4. ASSUME NEW c \in Configured, NEW priority \in Priorities, NEW i \in DOMAIN SlotsOn(c),
             SetSlotPriority(c, i, priority)
      PROVE  Untouched(s)
  BY <1>4, PrioritySlots DEF SetSlotPriority, SameSlots, Untouched
<1>5. ASSUME NEW g \in GPUs, AllocateOne(g), s # call.svc PROVE Untouched(s)
  <2>1. SameSlots(s)
    BY <1>5, AllocateSlots DEF SameSlots
  <2>2. /\ allocations' = [allocations EXCEPT ![call.svc][g] = allocations[call.svc][g] + 1]
        /\ UNCHANGED dropped
    BY <1>5 DEF AllocateOne
  <2>3. allocations'[s] = allocations[s]
    BY <1>5, <2>2 DEF TInv
  <2> QED BY <2>1, <2>2, <2>3 DEF Untouched
<1>6. ASSUME NEW t, releaseSlots(t), s # t PROVE Untouched(s)
  <2>1. SameSlots(s)
    BY <1>6, ReleaseSlots DEF SameSlots
  <2>2. /\ allocations' = [allocations EXCEPT ![t] = [g \in GPUs |-> 0]]
        /\ dropped' = dropped \ {t}
    BY <1>6 DEF releaseSlots
  <2>3. allocations'[s] = allocations[s]
    BY <1>6, <2>2 DEF TInv
  <2> QED BY <1>6, <2>1, <2>2, <2>3 DEF Untouched
<1>7. ASSUME AllocateError PROVE Untouched(s) \/ OwnRelease(s)
  <2>1. call # NoCall /\ releaseSlots(call.svc)
    BY <1>7 DEF AllocateError
  <2>2. CASE s # call.svc
    BY <1>6, <2>1, <2>2
  <2>3. CASE s = call.svc
    <3>1. releaseSlots(s)
      BY <2>1, <2>3 DEF releaseSlots
    <3> QED BY <1>7, <2>1, <2>3, <3>1 DEF OwnRelease
  <2> QED BY <2>2, <2>3
<1>8. ASSUME NEW t \in Services, Release(t) PROVE Untouched(s) \/ OwnRelease(s)
  <2>1. releaseSlots(t)
    BY <1>8 DEF Release
  <2>2. CASE s # t
    BY <1>6, <2>1, <2>2
  <2>3. CASE s = t
    <3>1. Release(s) /\ releaseSlots(s)
      BY <1>8, <2>3 DEF Release, releaseSlots
    <3> QED BY <3>1 DEF OwnRelease
  <2> QED BY <2>2, <2>3
<1>9. ASSUME \/ AllocateDone
             \/ \E p \in Pools, t \in Services, n \in Counts : Allocate(p, t, n)
             \/ UNCHANGED vars
      PROVE  Untouched(s)
  BY <1>1, <1>9 DEF AllocateDone, Allocate, vars
<1> QED BY <1>2, <1>3, <1>4, <1>5, <1>7, <1>8, <1>9 DEF Next, Tick, Allocating

\* No step breaks the invariant of the records.
LEMMA CountedStep == TInv /\ Counted /\ [Next]_vars => Counted'
<1> SUFFICES ASSUME TInv, Counted, [Next]_vars, NEW s \in Services
             PROVE  /\ Finite(Positions(pools', s))
                    /\ s \notin dropped' => \A g \in GPUs :
                         allocations'[s][g] = Cardinality(Pairs(Positions(pools', s), {g}))
  BY DEF Counted
<1>1. PoolsOK(pools')
  BY TInvStep DEF TInv
<1>2. CASE Untouched(s)
  BY <1>1, <1>2, CountedKept DEF Untouched
<1>3. ASSUME NEW p \in Pools, NEW interval \in Intervals, ConfigurePool(p, interval)
      PROVE  /\ Finite(Positions(pools', s))
             /\ s \notin dropped' => \A g \in GPUs :
                  allocations'[s][g] = Cardinality(Pairs(Positions(pools', s), {g}))
  <2>1. CASE s \in dropped'
    <3>1. \A c \in Pools \X GPUs : Positions(pools', s)[c] \subseteq Positions(pools, s)[c]
      BY <1>3, ConfigureSlots
    <3>2. Finite(Positions(pools', s))
      BY <3>1, FewerPairs DEF Counted
    <3> QED BY <2>1, <3>2
  <2>2. CASE s \notin dropped'
    <3>1. s \notin dropped /\ SameSlots(s)
      BY <1>3, <2>2, ConfigureKeeps
    <3>2. allocations'[s] = allocations[s]
      BY <1>3 DEF ConfigurePool
    <3> QED BY <1>1, <3>1, <3>2, CountedKept
  <2> QED BY <2>1, <2>2
<1>4. ASSUME NEW h \in GPUs, AllocateOne(h), s = call.svc
      PROVE  /\ Finite(Positions(pools', s))
             /\ s \notin dropped' => \A g \in GPUs :
                  allocations'[s][g] = Cardinality(Pairs(Positions(pools', s), {g}))
  <2>1. /\ Finite(Positions(pools', s))
        /\ \A g \in GPUs : Cardinality(Pairs(Positions(pools', s), {g}))
                             = Cardinality(Pairs(Positions(pools, s), {g})) + IF h = g THEN 1 ELSE 0
    <3>1. \A G \in SUBSET GPUs :
            Cardinality(Pairs(Positions(pools', s), G))
              = Cardinality(Pairs(Positions(pools, s), G)) + IF h \in G THEN 1 ELSE 0
      BY <1>4, AllocateCount
    <3>2. Finite(Positions(pools', s))
      BY <1>4, AllocateCount
    <3> QED BY <3>1, <3>2
  <2>2. /\ allocations' = [allocations EXCEPT ![s][h] = allocations[s][h] + 1]
        /\ UNCHANGED dropped
    BY <1>4 DEF AllocateOne
  <2>3. \A g \in GPUs : allocations'[s][g] = allocations[s][g] + IF h = g THEN 1 ELSE 0
    BY <2>2 DEF TInv
  <2> QED BY <2>1, <2>2, <2>3 DEF Counted
<1>5. CASE releaseSlots(s)
  <2>1. \A c \in Pools \X GPUs : Positions(pools', s)[c] = {}
    BY <1>5, ReleaseSlots
  <2>2. /\ Finite(Positions(pools', s))
        /\ \A g \in GPUs : Cardinality(Pairs(Positions(pools', s), {g})) = 0
    BY <2>1, NoPairs
  <2>3. allocations' = [allocations EXCEPT ![s] = [g \in GPUs |-> 0]]
    BY <1>5 DEF releaseSlots
  <2>4. \A g \in GPUs : allocations'[s][g] = 0
    BY <2>3 DEF TInv
  <2> QED BY <2>2, <2>4
<1> QED BY <1>2, <1>3, <1>4, <1>5, SameSlotsStep DEF OwnRelease

\* Requests, rollbacks and releases leave a service a record for each of its
\* slots and for no other, unless a reconfiguration took slots from it
\* (timeslice.go, Allocate and releaseSlots).
THEOREM AllocationsMatchTheorem == Spec => []AllocationsMatch
<1>1. Init => TInv /\ Counted
  BY TInvInit, CountedInit
<1>2. TInv /\ Counted /\ [Next]_vars => (TInv /\ Counted)'
  BY TInvStep, CountedStep
<1> QED BY <1>1, <1>2, CountedImplies, PTL DEF Spec

\* How many slots a service has, before and after a step.
LEMMA HeldCount ==
  ASSUME TInv, PoolsOK(pools'), NEW s
  PROVE  /\ Cardinality(Held(s)) = Cardinality(Pairs(Positions(pools, s), GPUs))
         /\ Cardinality(Held(s))' = Cardinality(Pairs(Positions(pools', s), GPUs))
<1>1. Held(s) = Pairs(Positions(pools, s), GPUs)
  BY HeldPairs DEF TInv
<1>2. Held(s)' = Pairs(Positions(pools', s), GPUs)
  BY HeldPairsNext
<1> QED BY <1>1, <1>2

\* A service only loses slots by its own calls or a reconfiguration.
LEMMA SlotsKeptStep ==
  TInv /\ Counted /\ [Next]_vars =>
    [\A s \in Services : Cardinality(Held(s))' < Cardinality(Held(s)) =>
       \/ Release(s)
       \/ call # NoCall /\ call.svc = s /\ AllocateError
       \/ \E p \in Pools, interval \in Intervals : ConfigurePool(p, interval)]_vars
<1> SUFFICES ASSUME TInv, Counted, [Next]_vars, NEW s \in Services,
                    Cardinality(Held(s))' < Cardinality(Held(s)),
                    ~ Release(s), ~ (call # NoCall /\ call.svc = s /\ AllocateError),
                    ~ \E p \in Pools, interval \in Intervals : ConfigurePool(p, interval)
             PROVE  FALSE
  OBVIOUS
<1>1. PoolsOK(pools')
  BY TInvStep DEF TInv
<1>2. Cardinality(Pairs(Positions(pools', s), GPUs)) < Cardinality(Pairs(Positions(pools, s), GPUs))
  BY <1>1, HeldCount
<1>3. Cardinality(Pairs(Positions(pools, s), GPUs)) \in Nat
  BY FinitePart DEF Counted
<1>4. CASE SameSlots(s)
  <2>1. Cardinality(Pairs(Positions(pools', s), GPUs))
          = Cardinality(Pairs(Positions(pools, s), GPUs))
    BY <1>1, <1>4, SameSlotsCount
  <2> QED BY <1>2, <1>3, <2>1
<1>5. ASSUME NEW g \in GPUs, AllocateOne(g), s = call.svc PROVE FALSE
  <2>1. Cardinality(Pairs(Positions(pools', s), GPUs))
          = Cardinality(Pairs(Positions(pools, s), GPUs)) + 1
    BY <1>5, AllocateCount
  <2> QED BY <1>2, <1>3, <2>1
<1> QED BY <1>4, <1>5, SameSlotsStep DEF Untouched, OwnRelease

\* Neither another service's calls, nor a change of priority, the scheduler or
\* the cleanup of a pool take a slot from a service (timeslice.go, releaseSlots
\* and CleanupPool).
THEOREM SlotsKeptTheorem == Spec => SlotsKept
<1>1. Init => TInv /\ Counted
  BY TInvInit, CountedInit
<1>2. TInv /\ Counted /\ [Next]_vars => (TInv /\ Counted)'
  BY TInvStep, CountedStep
<1> QED BY <1>1, <1>2, SlotsKeptStep, PTL DEF Spec, SlotsKept
=============================================================================
