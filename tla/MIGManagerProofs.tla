-------------------------- MODULE MIGManagerProofs --------------------------
(***************************************************************************)
(* Proofs about MIGManager, for any pools, services, profiles and counts.  *)
(* The inductive invariant says nothing about the numbers in the instance  *)
(* IDs: what is proved holds however badly they collide.                   *)
(***************************************************************************)
EXTENDS MIGAllocation, SequenceTheorems, FiniteSetTheorems, WellFoundedInduction, TLAPS

\* The part of TypeOK that does not speak of IDs: the heap is a sequence, and
\* the maps and the history point into it.
RefsOK ==
  /\ heap \in Seq({heap[o] : o \in DOMAIN heap})
  /\ \A p \in DOMAIN pools : Objects(pools[p]) \subseteq DOMAIN heap
  /\ Objects(instances) \subseteq DOMAIN heap
  /\ held \in [Services -> SUBSET DOMAIN heap]

IInv == RefsOK /\ HeldIsMarked /\ IndexedMarksAreHeld

\* The positions of the heap are 1 to its length.
LEMMA HeapDomain ==
  ASSUME RefsOK
  PROVE  Len(heap) \in Nat /\ DOMAIN heap = 1..Len(heap)
BY LenProperties DEF RefsOK

\* Every function on 1..n is a sequence of its own values.
LEMMA SequenceOfItsValues ==
  ASSUME NEW n \in Nat, NEW f, f = [i \in 1..n |-> f[i]]
  PROVE  /\ f \in Seq({f[i] : i \in DOMAIN f})
         /\ Len(f) = n
         /\ DOMAIN f = 1..n
<1> DEFINE S == {f[i] : i \in DOMAIN f}
<1>1. DOMAIN f = 1..n
  OBVIOUS
<1>2. f \in [1..n -> S]
  BY <1>1
<1>3. f \in Seq(S)
  BY <1>2, SeqDef
<1>4. Len(f) = n
  BY <1>1, <1>3, LenProperties
<1>. QED
  BY <1>1, <1>3, <1>4

\* Putting the entries of one map into another adds no other object.
LEMMA PutObjects ==
  ASSUME NEW m, NEW new
  PROVE  Objects(Put(m, new)) \subseteq Objects(m) \cup Objects(new)
BY DEF Objects, Put

\* Dropping entries adds no object.
LEMMA DropObjects ==
  ASSUME NEW m, NEW K
  PROVE  Objects(Drop(m, K)) \subseteq Objects(m)
BY DEF Objects, Drop

\* The manager starts with the inductive invariant.
LEMMA InitIInv == Init => IInv
<1>. SUFFICES ASSUME Init PROVE IInv
  OBVIOUS
<1>. USE DEF Init, NewMIGManager
<1>1. heap \in Seq({heap[o] : o \in DOMAIN heap}) /\ DOMAIN heap = {}
  BY EmptySeq
<1>2. RefsOK
  BY <1>1 DEF RefsOK, Objects
<1>3. HeldIsMarked /\ IndexedMarksAreHeld
  BY DEF HeldIsMarked, IndexedMarksAreHeld, Objects
<1>. QED
  BY <1>2, <1>3 DEF IInv


-----------------------------------------------------------------------------
\* Facts about an Allocate step: how many objects it adds, and that the ones
\* it grants were either new or not in use.
LEMMA FoundIsFree ==
  ASSUME RefsOK, NEW p \in DOMAIN pools, NEW profile, NEW n \in Counts,
         NEW found \in findAvailableInstances(p, profile, n)
  PROVE  /\ found \subseteq DOMAIN heap
         /\ \A o \in found : ~ heap[o].InUse
         /\ n - Cardinality(found) \in Nat
<1> DEFINE free == {o \in Objects(pools[p]) : heap[o].id[1] = profile /\ ~ heap[o].InUse}
<1>1. found \subseteq free /\ (Cardinality(found) = n \/ Cardinality(found) < n)
  BY DEF findAvailableInstances
<1>2. free \subseteq DOMAIN heap
  BY DEF RefsOK
<1>3. DOMAIN heap = 1..Len(heap) /\ Len(heap) \in Nat
  BY HeapDomain
<1>4. IsFiniteSet(1..Len(heap))
  BY <1>3, FS_Interval
<1>5. Cardinality(found) \in Nat
  BY <1>1, <1>2, <1>3, <1>4, FS_Subset, FS_CardinalityType
<1>6. n \in Nat
  BY MIGAssumption
<1>7. n - Cardinality(found) \in Nat
  BY <1>1, <1>5, <1>6
<1>. QED
  BY <1>1, <1>2, <1>7

\* Allocate keeps the inductive invariant: what it hands out was free or is new.
LEMMA AllocateIInv ==
  ASSUME IInv, NEW p, NEW s \in Services, NEW profile, NEW n \in Counts, NEW found,
         Allocate(p, s, profile, n, found)
  PROVE  IInv'
<1> DEFINE missing == n - Cardinality(found)
           ids     == NewInstanceIDs(p, profile, missing)
           new     == {Len(heap) + i : i \in 1..missing}
           refOf   == [id \in {ids[i] : i \in 1..missing} |->
                         Len(heap) + (CHOOSE i \in 1..missing : ids[i] = id)]
           granted == found \cup new
           size    == Len(heap) + missing
<1>1. /\ p \in DOMAIN pools
      /\ found \in findAvailableInstances(p, profile, n)
      /\ heap' = [o \in 1..size |->
                    [id |-> IF o \in new THEN ids[o - Len(heap)] ELSE heap[o].id,
                     InUse |-> IF o \in granted THEN TRUE ELSE heap[o].InUse,
                     AllocatedTo |-> IF o \in granted THEN s ELSE heap[o].AllocatedTo]]
      /\ pools' = [pools EXCEPT ![p] = Put(pools[p], refOf)]
      /\ instances' = Put(instances, refOf)
      /\ held' = [held EXCEPT ![s] = held[s] \cup granted]
  BY DEF Allocate
<1>2. /\ found \subseteq DOMAIN heap
      /\ \A o \in found : ~ heap[o].InUse
      /\ missing \in Nat
  BY <1>1, FoundIsFree DEF IInv
<1>3. Len(heap) \in Nat /\ DOMAIN heap = 1..Len(heap)
  BY HeapDomain DEF IInv
<1> HIDE DEF missing, ids
<1>4. /\ size \in Nat
      /\ new \subseteq 1..size
      /\ new \cap DOMAIN heap = {}
      /\ DOMAIN heap \subseteq 1..size
      /\ 1..size \subseteq DOMAIN heap \cup new
  <2>1. size \in Nat /\ new \subseteq 1..size /\ new \cap DOMAIN heap = {}
    BY <1>2, <1>3
  <2>2. DOMAIN heap \subseteq 1..size
    BY <1>2, <1>3
  <2>3. ASSUME NEW o \in 1..size, o \notin DOMAIN heap PROVE o \in new
    <3>1. o - Len(heap) \in 1..missing
      BY <2>3, <1>2, <1>3
    <3>2. o = Len(heap) + (o - Len(heap))
      BY <1>3
    <3>. QED  BY <3>1, <3>2
  <2>. QED  BY <2>1, <2>2, <2>3
<1>5. Objects(refOf) \subseteq new
  <2>1. ASSUME NEW id \in {ids[i] : i \in 1..missing} PROVE refOf[id] \in new
    <3>1. \E i \in 1..missing : ids[i] = id
      OBVIOUS
    <3>2. (CHOOSE i \in 1..missing : ids[i] = id) \in 1..missing
      BY <3>1
    <3>. QED  BY <3>2
  <2>. QED  BY <2>1 DEF Objects
<1> HIDE DEF refOf, new, size
<1>6. heap' \in Seq({heap'[o] : o \in DOMAIN heap'}) /\ DOMAIN heap' = 1..size
  <2>1. heap' = [o \in 1..size |-> heap'[o]]
    BY <1>1
  <2>. QED  BY <2>1, <1>4, SequenceOfItsValues
<1>7. \A o \in 1..size :
        /\ heap'[o].InUse = IF o \in granted THEN TRUE ELSE heap[o].InUse
        /\ heap'[o].AllocatedTo = IF o \in granted THEN s ELSE heap[o].AllocatedTo
  BY <1>1
<1>8. RefsOK'
  <2>1. Objects(instances') \subseteq DOMAIN heap'
    BY <1>1, <1>4, <1>5, <1>6, PutObjects DEF IInv, RefsOK
  <2>2. ASSUME NEW q \in DOMAIN pools' PROVE Objects(pools'[q]) \subseteq DOMAIN heap'
    <3>1. CASE q = p
      <4>1. pools'[q] = Put(pools[p], refOf)
        BY <3>1, <1>1
      <4>. QED  BY <4>1, <1>1, <1>4, <1>5, <1>6, PutObjects DEF IInv, RefsOK
    <3>2. CASE q # p
      <4>1. q \in DOMAIN pools /\ pools'[q] = pools[q]
        BY <3>2, <2>2, <1>1
      <4>. QED  BY <4>1, <1>4, <1>6 DEF IInv, RefsOK
    <3>. QED  BY <3>1, <3>2
  <2>3. held' \in [Services -> SUBSET DOMAIN heap']
    BY <1>1, <1>2, <1>4, <1>6 DEF IInv, RefsOK
  <2>. QED  BY <2>1, <2>2, <2>3, <1>6 DEF RefsOK
<1>9. HeldIsMarked'
  <2>1. ASSUME NEW t \in Services, NEW o \in held'[t]
        PROVE  heap'[o].InUse /\ heap'[o].AllocatedTo = t
    <3>1. o \in 1..size
      BY <2>1, <1>6, <1>8 DEF RefsOK
    <3>2. CASE o \in held[t]
      <4>1. heap[o].InUse /\ heap[o].AllocatedTo = t
        BY <3>2 DEF IInv, HeldIsMarked
      <4>2. o \notin granted
        BY <4>1, <3>2, <1>2, <1>4 DEF IInv, RefsOK
      <4>. QED  BY <4>1, <4>2, <3>1, <1>7
    <3>3. CASE o \notin held[t]
      <4>1. t = s /\ o \in granted
        BY <3>3, <2>1, <1>1 DEF IInv, RefsOK
      <4>. QED  BY <4>1, <3>1, <1>7
    <3>. QED  BY <3>2, <3>3
  <2>. QED  BY <2>1 DEF HeldIsMarked
<1>10. IndexedMarksAreHeld'
  <2>1. ASSUME NEW o \in Objects(instances')
        PROVE  /\ heap'[o].InUse <=> heap'[o].AllocatedTo # NoService
               /\ heap'[o].InUse => o \in held'[heap'[o].AllocatedTo]
    <3>1. o \in 1..size
      BY <2>1, <1>6, <1>8 DEF RefsOK
    <3>2. CASE o \in granted
      <4>1. heap'[o].InUse /\ heap'[o].AllocatedTo = s
        BY <3>1, <3>2, <1>7
      <4>2. o \in held'[s]
        BY <3>2, <1>1 DEF IInv, RefsOK
      <4>. QED  BY <4>1, <4>2, MIGAssumption
    <3>3. CASE o \notin granted
      <4>1. o \in Objects(instances)
        BY <3>3, <2>1, <1>1, <1>5, PutObjects
      <4>2. heap'[o].InUse = heap[o].InUse /\ heap'[o].AllocatedTo = heap[o].AllocatedTo
        BY <3>1, <3>3, <1>7
      <4>3. /\ heap[o].InUse <=> heap[o].AllocatedTo # NoService
            /\ heap[o].InUse => o \in held[heap[o].AllocatedTo]
        BY <4>1 DEF IInv, IndexedMarksAreHeld
      <4>4. \A t : o \in held[t] => o \in held'[t]
        BY <1>1 DEF IInv, RefsOK
      <4>. QED  BY <4>2, <4>3, <4>4
    <3>. QED  BY <3>2, <3>3
  <2>. QED  BY <2>1 DEF IndexedMarksAreHeld
<1>. QED
  BY <1>8, <1>9, <1>10 DEF IInv


\* Release keeps the inductive invariant: it resets the service's objects only.
LEMMA ReleaseIInv ==
  ASSUME IInv, NEW s \in Services, Release(s)
  PROVE  IInv'
<1>1. Len(heap) \in Nat /\ DOMAIN heap = 1..Len(heap)
  BY HeapDomain DEF IInv
<1>2. DOMAIN heap' = DOMAIN heap /\ heap' = [o \in 1..Len(heap) |-> heap'[o]]
  BY <1>1 DEF Release
<1>3. heap' \in Seq({heap'[o] : o \in DOMAIN heap'})
  BY <1>1, <1>2, SequenceOfItsValues
<1>4. RefsOK'
  BY <1>2, <1>3 DEF IInv, RefsOK, Release
<1>5. \A o \in DOMAIN heap : heap[o].AllocatedTo # s => heap'[o] = heap[o]
  BY DEF Release
<1>6. HeldIsMarked'
  <2>1. ASSUME NEW t \in Services, NEW o \in held'[t]
        PROVE  heap'[o].InUse /\ heap'[o].AllocatedTo = t
    <3>1. t # s /\ o \in held[t] /\ o \in DOMAIN heap
      BY <2>1 DEF Release, IInv, RefsOK
    <3>2. heap[o].InUse /\ heap[o].AllocatedTo = t
      BY <3>1 DEF IInv, HeldIsMarked
    <3>. QED  BY <3>1, <3>2, <1>5
  <2>. QED  BY <2>1 DEF HeldIsMarked
<1>7. IndexedMarksAreHeld'
  <2>1. ASSUME NEW o \in Objects(instances')
        PROVE  /\ heap'[o].InUse <=> heap'[o].AllocatedTo # NoService
               /\ heap'[o].InUse => o \in held'[heap'[o].AllocatedTo]
    <3>1. o \in Objects(instances) /\ o \in DOMAIN heap
      BY <2>1 DEF Release, IInv, RefsOK
    <3>2. CASE heap[o].AllocatedTo = s
      <4>1. heap'[o] = [id |-> heap[o].id, InUse |-> FALSE, AllocatedTo |-> NoService]
        BY <3>1, <3>2 DEF Release
      <4>. QED  BY <4>1
    <3>3. CASE heap[o].AllocatedTo # s
      <4>1. heap'[o] = heap[o]
        BY <3>1, <3>3, <1>5
      <4>2. /\ heap[o].InUse <=> heap[o].AllocatedTo # NoService
            /\ heap[o].InUse => o \in held[heap[o].AllocatedTo]
        BY <3>1 DEF IInv, IndexedMarksAreHeld
      <4>3. \A t : t # s /\ o \in held[t] => o \in held'[t]
        BY DEF Release, IInv, RefsOK
      <4>. QED  BY <4>1, <4>2, <4>3, <3>3
    <3>. QED  BY <3>2, <3>3
  <2>. QED  BY <2>1 DEF IndexedMarksAreHeld
<1>. QED
  BY <1>4, <1>6, <1>7 DEF IInv

\* The operations that only change the maps.
LEMMA MapsOnlyIInv ==
  ASSUME IInv, UNCHANGED <<heap, held>>,
         Objects(instances') \subseteq Objects(instances),
         \A p \in DOMAIN pools' : Objects(pools'[p]) \subseteq DOMAIN heap
  PROVE  IInv'
<1>1. RefsOK'
  BY DEF IInv, RefsOK
<1>2. HeldIsMarked'
  BY DEF IInv, HeldIsMarked
<1>3. IndexedMarksAreHeld'
  BY DEF IInv, IndexedMarksAreHeld
<1>. QED  BY <1>1, <1>2, <1>3 DEF IInv

\* Every step keeps the inductive invariant.
LEMMA NextIInv == IInv /\ [Next]_migVars => IInv'
<1>. SUFFICES ASSUME IInv, [Next]_migVars PROVE IInv'
  OBVIOUS
<1>0. \A p \in DOMAIN pools : Objects(pools[p]) \subseteq DOMAIN heap
  BY DEF IInv, RefsOK
<1>1. CASE UNCHANGED migVars
  BY <1>0, <1>1, MapsOnlyIInv DEF migVars
<1>2. ASSUME NEW p \in Pools, NEW profiles, ConfigurePool(p, profiles) PROVE IInv'
  <2>1. pools' = Put(pools, [q \in {p} |-> <<>>]) /\ instances' = instances
    BY <1>2 DEF ConfigurePool
  <2>2. Objects(<<>>) = {}
    BY DEF Objects
  <2>3. \A q \in DOMAIN pools' : pools'[q] = <<>> \/ (q \in DOMAIN pools /\ pools'[q] = pools[q])
    BY <2>1 DEF Put
  <2>. QED  BY <1>2, <1>0, <2>1, <2>2, <2>3, MapsOnlyIInv DEF ConfigurePool
<1>3. ASSUME NEW p \in Pools, CleanupPool(p) PROVE IInv'
  <2>1. \A q \in DOMAIN pools' : q \in DOMAIN pools /\ pools'[q] = pools[q]
    BY <1>3 DEF CleanupPool, Drop
  <2>. QED  BY <1>3, <1>0, <2>1, DropObjects, MapsOnlyIInv DEF CleanupPool
<1>4. ASSUME NEW id, DestroyInstance(id) PROVE IInv'
  <2>1. \A q \in DOMAIN pools' : q \in DOMAIN pools /\ pools'[q] = Drop(pools[q], {id})
    BY <1>4 DEF DestroyInstance
  <2>2. \A q \in DOMAIN pools' : Objects(pools'[q]) \subseteq DOMAIN heap
    BY <2>1, <1>0, DropObjects
  <2>. QED  BY <1>4, <2>2, DropObjects, MapsOnlyIInv DEF DestroyInstance
<1>. QED
  BY <1>1, <1>2, <1>3, <1>4, AllocateIInv, ReleaseIInv
     DEF Next, ConfigurePoolError, CleanupPoolError, CleanupPoolAbsent, AllocateError,
         DestroyInstanceError

\* No sequence of calls of the MIG manager hands one instance object to two
\* services or takes it from the service that holds it.
THEOREM HeldIsMarkedTheorem == Spec => []HeldIsMarked
<1>1. IInv => HeldIsMarked
  BY DEF IInv
<1>. QED
  BY InitIInv, NextIInv, <1>1, PTL DEF Spec

\* No sequence of calls leaves an indexed instance in use without a service
\* that holds it.
THEOREM IndexedMarksAreHeldTheorem == Spec => []IndexedMarksAreHeld
<1>1. IInv => IndexedMarksAreHeld
  BY DEF IInv
<1>. QED
  BY InitIInv, NextIInv, <1>1, PTL DEF Spec


-----------------------------------------------------------------------------
\* What an Allocate step hands out is free in the abstract allocator: no
\* service holds it, the one that asks included.
LEMMA AllocateGrants ==
  ASSUME IInv, NEW p, NEW s \in Services, NEW profile, NEW n \in Counts, NEW found,
         Allocate(p, s, profile, n, found)
  PROVE  \E R \in SUBSET allocator!Free : allocator!Grant(s, R)
<1> DEFINE missing == n - Cardinality(found)
           new     == {Len(heap) + i : i \in 1..missing}
           R       == found \cup new
<1>1. /\ p \in DOMAIN pools
      /\ found \in findAvailableInstances(p, profile, n)
      /\ Len(heap) + missing <= MaxObjects
      /\ held' = [held EXCEPT ![s] = held[s] \cup R]
  BY DEF Allocate
<1>2. /\ found \subseteq DOMAIN heap
      /\ \A o \in found : ~ heap[o].InUse
      /\ missing \in Nat
  BY <1>1, FoundIsFree DEF IInv
<1>3. Len(heap) \in Nat /\ DOMAIN heap = 1..Len(heap) /\ MaxObjects \in Nat
  BY HeapDomain, MIGAssumption DEF IInv
<1> HIDE DEF missing
<1>4. new \subseteq Refs /\ found \subseteq Refs /\ new \cap DOMAIN heap = {}
  BY <1>1, <1>2, <1>3 DEF Refs
<1>5. ASSUME NEW t \in Services, NEW o \in held[t] PROVE o \notin R
  <2>1. o \in DOMAIN heap /\ heap[o].InUse
    BY <1>5 DEF IInv, RefsOK, HeldIsMarked
  <2>. QED  BY <2>1, <1>2, <1>4
<1>6. R \subseteq allocator!Free
  BY <1>4, <1>5 DEF allocator!Free
<1>. QED
  BY <1>1, <1>6 DEF allocator!Grant

\* Every step of the MIG manager is a step of the abstract allocator, or none.
LEMMA StepRefines ==
  ASSUME IInv, [Next]_migVars
  PROVE  [allocator!Next]_held
<1>1. CASE UNCHANGED held
  BY <1>1
<1>2. ASSUME NEW p, NEW s \in Services, NEW profile, NEW n \in Counts, NEW found,
             Allocate(p, s, profile, n, found)
      PROVE  allocator!Next
  BY <1>2, AllocateGrants DEF allocator!Next
<1>3. ASSUME NEW s \in Services, Release(s) PROVE allocator!Next
  BY <1>3 DEF Release, allocator!Next, allocator!Revoke
<1>4. CASE UNCHANGED migVars
  BY <1>1, <1>4 DEF migVars
<1>. QED
  BY <1>1, <1>2, <1>3, <1>4
     DEF Next, ConfigurePool, ConfigurePoolError, CleanupPool, CleanupPoolError,
         CleanupPoolAbsent, AllocateError, DestroyInstance, DestroyInstanceError, migVars

\* For any pools, services, profiles and request sizes, the MIG manager
\* implements the exclusive allocator (mig.go, Allocate and Release).
THEOREM ImplementsAllocatorTheorem == Spec => ImplementsAllocator
<1>1. Init => allocator!Init
  BY DEF Init, NewMIGManager, allocator!Init
<1>2. IInv /\ [Next]_migVars => [allocator!Next]_held
  BY StepRefines
<1>. QED
  BY InitIInv, NextIInv, <1>1, <1>2, PTL DEF Spec, ImplementsAllocator, allocator!Spec


-----------------------------------------------------------------------------
(* Types, IDs included.  A pool's map is finite, so that its length, which   *)
(* createInstances numbers new instances with, is a number.                  *)
PoolsFinite == \A p \in DOMAIN pools : IsFiniteSet(DOMAIN pools[p])

TInv == TypeOK /\ PoolsFinite

\* One more key than K.
WithNewID(K, profile, i) == K \cup {<<profile, Cardinality(K) + i - 1>>}

\* f has the keys of a map that starts with K and gets n new instances.
IsGrowth(f, K, profile, n) ==
  f = [i \in 0..n |-> IF i = 0 THEN K ELSE WithNewID(f[i-1], profile, i)]

\* There is such a growth.  (If there were a least n without one, the growth
\* of n - 1 instances would have no next step.)
LEMMA GrowthExists ==
  ASSUME NEW K, NEW profile, NEW n \in Nat
  PROVE  \E f : IsGrowth(f, K, profile, n)
<1> DEFINE T == {m \in Nat : ~ \E f : IsGrowth(f, K, profile, m)}
           R == OpToRel(<, Nat)
<1>1. SUFFICES ASSUME T # {} PROVE FALSE
  OBVIOUS
<1>2. T \subseteq Nat
  OBVIOUS
<1>3. \E m \in T : \A y \in T : ~ (<<y, m>> \in R)
  <2>1. IsWellFoundedOn(R, Nat)
    BY NatLessThanWellFounded
  <2> HIDE DEF T, R
  <2> QED BY <1>1, <1>2, <2>1, WFMin
<1>4. PICK m \in T : \A y \in T : ~ (<<y, m>> \in R)
  BY <1>3
<1>5. m \in Nat /\ (m # 0 => m - 1 \in Nat /\ m - 1 \notin T)
  <2> HIDE DEF T
  <2>1. m \in Nat /\ \A y \in T : ~ (y < m)
    BY <1>2, <1>4 DEF OpToRel
  <2> QED BY <2>1
<1>6. CASE m = 0
  <2>1. IsGrowth([i \in 0..0 |-> K], K, profile, 0)
    BY DEF IsGrowth
  <2> QED BY <2>1, <1>4, <1>6
<1>7. CASE m # 0
  <2>1. PICK f : IsGrowth(f, K, profile, m - 1)
    BY <1>5, <1>7
  <2> DEFINE g == [i \in 0..m |-> IF i = m THEN WithNewID(f[m-1], profile, m) ELSE f[i]]
  <2>2. ASSUME NEW i \in 0..m
        PROVE  g[i] = IF i = 0 THEN K ELSE WithNewID(g[i-1], profile, i)
    <3>1. CASE i = m
      BY <1>5, <1>7, <3>1
    <3>2. CASE i # m
      <4>1. i \in 0..(m-1) /\ (i # 0 => i - 1 \in 0..m /\ i - 1 # m)
        BY <1>5, <3>2
      <4>2. f[i] = IF i = 0 THEN K ELSE WithNewID(f[i-1], profile, i)
        BY <2>1, <4>1 DEF IsGrowth
      <4> QED BY <3>2, <4>1, <4>2
    <3> QED BY <3>1, <3>2
  <2>3. IsGrowth(g, K, profile, m)
    BY <2>2 DEF IsGrowth
  <2> HIDE DEF g
  <2> QED BY <1>4, <2>3
<1> QED BY <1>6, <1>7

\* The keys stay finite.
LEMMA GrowthFinite ==
  ASSUME NEW K, IsFiniteSet(K), NEW profile, NEW n \in Nat, NEW f, IsGrowth(f, K, profile, n)
  PROVE  \A i \in 0..n : IsFiniteSet(f[i])
<1> DEFINE T == {m \in 0..n : ~ IsFiniteSet(f[m])}
           R == OpToRel(<, Nat)
<1>1. SUFFICES ASSUME T # {} PROVE FALSE
  OBVIOUS
<1>2. T \subseteq Nat
  OBVIOUS
<1>3. \E m \in T : \A y \in T : ~ (<<y, m>> \in R)
  <2>1. IsWellFoundedOn(R, Nat)
    BY NatLessThanWellFounded
  <2> HIDE DEF T, R
  <2> QED BY <1>1, <1>2, <2>1, WFMin
<1>4. PICK m \in T : \A y \in T : ~ (<<y, m>> \in R)
  BY <1>3
<1>5. m \in 0..n /\ ~ IsFiniteSet(f[m])
  BY <1>4
<1>6. f[m] = IF m = 0 THEN K ELSE WithNewID(f[m-1], profile, m)
  BY <1>5 DEF IsGrowth
<1>7. m # 0
  BY <1>5, <1>6
<1>8. m - 1 \in 0..n /\ m - 1 \notin T
  <2> HIDE DEF T
  <2>1. \A y \in T : ~ (y < m)
    BY <1>2, <1>4 DEF OpToRel
  <2> QED BY <1>5, <1>7, <2>1
<1>9. IsFiniteSet(f[m-1])
  BY <1>8
<1>10. IsFiniteSet(WithNewID(f[m-1], profile, m))
  BY <1>9, FS_AddElement DEF WithNewID
<1> QED BY <1>5, <1>6, <1>7, <1>10

\* createInstances makes IDs of the profile with a number.
LEMMA NewIDsType ==
  ASSUME NEW p, IsFiniteSet(DOMAIN pools[p]), NEW profile \in Profiles, NEW n \in Nat
  PROVE  NewInstanceIDs(p, profile, n) \in [1..n -> InstanceIDs]
<1> DEFINE K == DOMAIN pools[p]
           f == CHOOSE g : IsGrowth(g, K, profile, n)
<1>1. NewInstanceIDs(p, profile, n) = [i \in 1..n |-> <<profile, Cardinality(f[i-1]) + i - 1>>]
  BY DEF NewInstanceIDs, IsGrowth, WithNewID
<1>2. IsGrowth(f, K, profile, n)
  BY GrowthExists
<1> HIDE DEF f
<1>3. \A i \in 0..n : IsFiniteSet(f[i])
  BY <1>2, GrowthFinite
<1>4. ASSUME NEW i \in 1..n PROVE <<profile, Cardinality(f[i-1]) + i - 1>> \in InstanceIDs
  <2>1. i - 1 \in 0..n /\ i - 1 \in Nat
    OBVIOUS
  <2>2. Cardinality(f[i-1]) \in Nat
    BY <1>3, <2>1, FS_CardinalityType
  <2>3. Cardinality(f[i-1]) + i - 1 \in Nat
    BY <2>1, <2>2
  <2> QED BY <2>3 DEF InstanceIDs
<1> QED BY <1>1, <1>4


\* The maps of a well-typed manager point into its heap.
LEMMA TypedRefs == TypeOK => RefsOK
<1> SUFFICES ASSUME TypeOK PROVE RefsOK
  OBVIOUS
<1>1. heap \in Seq(MIGInstanceInfo) /\ Len(heap) \in Nat /\ DOMAIN heap = 1..Len(heap)
  BY LenProperties DEF TypeOK
<1>2. heap = [o \in 1..Len(heap) |-> heap[o]]
  BY <1>1, LenProperties
<1>3. heap \in Seq({heap[o] : o \in DOMAIN heap})
  BY <1>1, <1>2, SequenceOfItsValues
<1>4. \A p \in DOMAIN pools : Objects(pools[p]) \subseteq DOMAIN heap
  BY DEF TypeOK, IsMap, Objects
<1>5. Objects(instances) \subseteq DOMAIN heap
  BY DEF TypeOK, IsMap, Objects
<1> QED BY <1>3, <1>4, <1>5 DEF TypeOK, RefsOK

\* A map of references stays one, with more entries and when the heap grows.
LEMMA PutMap ==
  ASSUME NEW m, NEW new, NEW K, NEW V, NEW W, V \subseteq W, IsMap(m, K, V), IsMap(new, K, W)
  PROVE  IsMap(Put(m, new), K, W)
BY DEF IsMap, Put

\* It stays one with fewer entries.
LEMMA DropMap ==
  ASSUME NEW m, NEW D, NEW K, NEW V, IsMap(m, K, V)
  PROVE  IsMap(Drop(m, D), K, V)
BY DEF IsMap, Drop

\* Allocate keeps the types.
LEMMA AllocateTInv ==
  ASSUME TInv, NEW p, NEW s \in Services, NEW profile, NEW n \in Counts, NEW found,
         Allocate(p, s, profile, n, found)
  PROVE  TInv'
<1> DEFINE missing == n - Cardinality(found)
           ids     == NewInstanceIDs(p, profile, missing)
           new     == {Len(heap) + i : i \in 1..missing}
           refOf   == [id \in {ids[i] : i \in 1..missing} |->
                         Len(heap) + (CHOOSE i \in 1..missing : ids[i] = id)]
           granted == found \cup new
           size    == Len(heap) + missing
<1>1. /\ p \in DOMAIN pools /\ profile \in Profiles
      /\ found \in findAvailableInstances(p, profile, n)
      /\ size <= MaxObjects
      /\ heap' = [o \in 1..size |->
                    [id |-> IF o \in new THEN ids[o - Len(heap)] ELSE heap[o].id,
                     InUse |-> IF o \in granted THEN TRUE ELSE heap[o].InUse,
                     AllocatedTo |-> IF o \in granted THEN s ELSE heap[o].AllocatedTo]]
      /\ pools' = [pools EXCEPT ![p] = Put(pools[p], refOf)]
      /\ instances' = Put(instances, refOf)
      /\ held' = [held EXCEPT ![s] = held[s] \cup granted]
  BY DEF Allocate
<1>2. found \subseteq DOMAIN heap /\ missing \in Nat
  BY <1>1, TypedRefs, FoundIsFree DEF TInv
<1>3. /\ heap \in Seq(MIGInstanceInfo) /\ Len(heap) \in Nat /\ DOMAIN heap = 1..Len(heap)
      /\ \A o \in DOMAIN heap : heap[o] \in MIGInstanceInfo
  BY LenProperties, ElementOfSeq DEF TInv, TypeOK
<1>4. ids \in [1..missing -> InstanceIDs]
  BY <1>1, <1>2, NewIDsType DEF TInv, PoolsFinite
<1> HIDE DEF missing, ids
<1>5. size \in Nat /\ new \subseteq 1..size /\ DOMAIN heap \subseteq 1..size
  BY <1>2, <1>3
<1>6. IsMap(refOf, InstanceIDs, 1..size) /\ IsFiniteSet(DOMAIN refOf)
  <2>1. ASSUME NEW id \in {ids[i] : i \in 1..missing} PROVE refOf[id] \in 1..size
    <3>1. \E i \in 1..missing : ids[i] = id
      OBVIOUS
    <3>2. (CHOOSE i \in 1..missing : ids[i] = id) \in 1..missing
      BY <3>1
    <3>. QED  BY <3>2, <1>2, <1>3
  <2>2. {ids[i] : i \in 1..missing} \subseteq InstanceIDs
    BY <1>4
  <2>3. IsFiniteSet(1..missing)
    BY <1>2, FS_Interval
  <2>4. IsFiniteSet({ids[i] : i \in 1..missing})
    <3> DEFINE T == {ids[i] : i \in 1..missing}
    <3>1. ids \in Surjection(1..missing, T)
      BY <1>4 DEF Surjection
    <3> HIDE DEF T
    <3>2. IsFiniteSet(T)
      BY <2>3, <3>1, FS_Surjection
    <3> QED BY <3>2 DEF T
  <2> QED BY <2>1, <2>2, <2>4 DEF IsMap
<1> HIDE DEF refOf
<1>7. ASSUME NEW o \in 1..size
      PROVE  heap'[o] \in MIGInstanceInfo
  <2>1. o \in new \/ o \in DOMAIN heap
    <3>1. CASE o \in DOMAIN heap
      BY <3>1
    <3>2. CASE o \notin DOMAIN heap
      <4>1. o - Len(heap) \in 1..missing /\ o = Len(heap) + (o - Len(heap))
        BY <3>2, <1>2, <1>3
      <4> QED BY <4>1
    <3> QED BY <3>1, <3>2
  <2>2. o \in new => ids[o - Len(heap)] \in InstanceIDs
    <3>1. o \in new => o - Len(heap) \in 1..missing
      BY <1>2, <1>3
    <3> QED BY <3>1, <1>4
  <2> HIDE DEF new
  <2>3. o \in DOMAIN heap => /\ heap[o].id \in InstanceIDs /\ heap[o].InUse \in BOOLEAN
                             /\ heap[o].AllocatedTo \in Services \cup {NoService}
    BY <1>3 DEF MIGInstanceInfo
  <2>4. (IF o \in new THEN ids[o - Len(heap)] ELSE heap[o].id) \in InstanceIDs
    BY <2>1, <2>2, <2>3
  <2>5. (IF o \in granted THEN TRUE ELSE heap[o].InUse) \in BOOLEAN
    BY <2>1, <2>3
  <2>6. (IF o \in granted THEN s ELSE heap[o].AllocatedTo) \in Services \cup {NoService}
    BY <2>1, <2>3
  <2> QED BY <1>1, <2>4, <2>5, <2>6 DEF MIGInstanceInfo
<1> HIDE DEF new, size
<1>8. heap' \in Seq(MIGInstanceInfo) /\ Len(heap') = size /\ DOMAIN heap' = 1..size
  <2>1. heap' \in [1..size -> MIGInstanceInfo]
    BY <1>1, <1>7
  <2>2. heap' \in Seq(MIGInstanceInfo)
    BY <1>5, <2>1, SeqDef
  <2> QED BY <1>5, <2>1, <2>2, LenProperties
<1>9. IsMap(instances', InstanceIDs, DOMAIN heap')
  BY <1>1, <1>5, <1>6, <1>8, PutMap DEF TInv, TypeOK
<1>10. ASSUME NEW q \in DOMAIN pools'
       PROVE  IsMap(pools'[q], InstanceIDs, DOMAIN heap') /\ IsFiniteSet(DOMAIN pools'[q])
  <2>1. q \in DOMAIN pools /\ IsMap(pools[q], InstanceIDs, DOMAIN heap)
        /\ IsFiniteSet(DOMAIN pools[q])
    BY <1>1 DEF TInv, TypeOK, PoolsFinite
  <2>2. CASE q = p
    <3>1. pools'[q] = Put(pools[q], refOf)
      BY <1>1, <2>2
    <3>2. IsMap(pools'[q], InstanceIDs, DOMAIN heap')
      BY <1>5, <1>6, <1>8, <2>1, <3>1, PutMap
    <3>3. DOMAIN Put(pools[q], refOf) = DOMAIN pools[q] \cup DOMAIN refOf
      BY DEF Put
    <3> QED BY <1>6, <2>1, <3>1, <3>2, <3>3, FS_Union
  <2>3. CASE q # p
    <3>1. pools'[q] = pools[q]
      BY <1>1, <2>1, <2>3
    <3> QED BY <1>5, <1>8, <2>1, <3>1 DEF IsMap
  <2> QED BY <2>2, <2>3
<1>11. held' \in [Services -> SUBSET DOMAIN heap']
  BY <1>1, <1>2, <1>5, <1>8 DEF TInv, TypeOK
<1>12. DOMAIN pools' \subseteq Pools
  BY <1>1 DEF TInv, TypeOK
<1> QED BY <1>1, <1>8, <1>9, <1>10, <1>11, <1>12 DEF TInv, TypeOK, PoolsFinite


\* Release keeps the types.
LEMMA ReleaseTInv ==
  ASSUME TInv, NEW s \in Services, Release(s)
  PROVE  TInv'
<1>1. /\ heap \in Seq(MIGInstanceInfo) /\ Len(heap) \in Nat /\ DOMAIN heap = 1..Len(heap)
      /\ \A o \in DOMAIN heap : heap[o] \in MIGInstanceInfo
  BY LenProperties, ElementOfSeq DEF TInv, TypeOK
<1>2. ASSUME NEW o \in DOMAIN heap PROVE heap'[o] \in MIGInstanceInfo
  <2>1. heap[o] \in MIGInstanceInfo
    BY <1>1
  <2>2. heap'[o] = heap[o]
        \/ heap'[o] = [id |-> heap[o].id, InUse |-> FALSE, AllocatedTo |-> NoService]
    BY DEF Release
  <2>3. heap[o].id \in InstanceIDs
    BY <2>1 DEF MIGInstanceInfo
  <2>4. [id |-> heap[o].id, InUse |-> FALSE, AllocatedTo |-> NoService] \in MIGInstanceInfo
    BY <2>3 DEF MIGInstanceInfo
  <2> QED BY <2>1, <2>2, <2>4
<1>3. heap' \in [1..Len(heap) -> MIGInstanceInfo]
  BY <1>1, <1>2 DEF Release
<1>4. heap' \in Seq(MIGInstanceInfo)
  BY <1>1, <1>3, SeqDef
<1>5. Len(heap') = Len(heap) /\ DOMAIN heap' = DOMAIN heap
  BY <1>1, <1>3, <1>4, LenProperties
<1>6. pools' = pools /\ instances' = instances /\ held' = [held EXCEPT ![s] = {}]
  BY DEF Release
<1> QED BY <1>4, <1>5, <1>6 DEF TInv, TypeOK, PoolsFinite

\* The operations that only change the maps keep the types.
LEMMA MapsOnlyTInv ==
  ASSUME TInv, UNCHANGED <<heap, held>>, DOMAIN pools' \subseteq Pools,
         IsMap(instances', InstanceIDs, DOMAIN heap),
         \A p \in DOMAIN pools' :
           IsMap(pools'[p], InstanceIDs, DOMAIN heap) /\ IsFiniteSet(DOMAIN pools'[p])
  PROVE  TInv'
BY DEF TInv, TypeOK, PoolsFinite

\* ConfigurePool keeps the types: the new configuration has no instances.
LEMMA ConfigureTInv ==
  ASSUME TInv, NEW p \in Pools, NEW profiles, ConfigurePool(p, profiles)
  PROVE  TInv'
<1>1. /\ pools' = Put(pools, [q \in {p} |-> <<>>]) /\ instances' = instances
      /\ UNCHANGED <<heap, held>>
  BY DEF ConfigurePool
<1>2. \A q \in DOMAIN pools' : pools'[q] = <<>> \/ (q \in DOMAIN pools /\ pools'[q] = pools[q])
  BY <1>1 DEF Put
<1>3. IsMap(<<>>, InstanceIDs, DOMAIN heap) /\ IsFiniteSet(DOMAIN <<>>)
  <2>1. DOMAIN <<>> = {}
    OBVIOUS
  <2>2. <<>> \in [{} -> DOMAIN heap]
    OBVIOUS
  <2> QED BY <2>1, <2>2, FS_EmptySet DEF IsMap
<1>4. DOMAIN pools' \subseteq Pools
  BY <1>1 DEF Put, TInv, TypeOK
<1> QED BY <1>1, <1>2, <1>3, <1>4, MapsOnlyTInv DEF TInv, TypeOK, PoolsFinite

\* CleanupPool keeps the types.
LEMMA CleanupTInv ==
  ASSUME TInv, NEW p, CleanupPool(p)
  PROVE  TInv'
<1>1. /\ pools' = Drop(pools, {p}) /\ instances' = Drop(instances, DOMAIN pools[p])
      /\ UNCHANGED <<heap, held>>
  BY DEF CleanupPool
<1>2. \A q \in DOMAIN pools' : q \in DOMAIN pools /\ pools'[q] = pools[q]
  BY <1>1 DEF Drop
<1>3. IsMap(instances', InstanceIDs, DOMAIN heap)
  BY <1>1, DropMap DEF TInv, TypeOK
<1> QED BY <1>1, <1>2, <1>3, MapsOnlyTInv DEF TInv, TypeOK, PoolsFinite

\* DestroyInstance keeps the types.
LEMMA DestroyTInv ==
  ASSUME TInv, NEW id, DestroyInstance(id)
  PROVE  TInv'
<1>1. /\ pools' = [p \in DOMAIN pools |-> Drop(pools[p], {id})] /\ UNCHANGED <<heap, held>>
      /\ instances' = Drop(instances, {id})
  BY DEF DestroyInstance
<1>2. ASSUME NEW q \in DOMAIN pools'
      PROVE  /\ q \in DOMAIN pools
             /\ IsMap(pools'[q], InstanceIDs, DOMAIN heap) /\ IsFiniteSet(DOMAIN pools'[q])
  <2>1. q \in DOMAIN pools /\ pools'[q] = Drop(pools[q], {id})
    BY <1>1
  <2>2. IsMap(pools[q], InstanceIDs, DOMAIN heap) /\ IsFiniteSet(DOMAIN pools[q])
    BY <2>1 DEF TInv, TypeOK, PoolsFinite
  <2>3. IsMap(pools'[q], InstanceIDs, DOMAIN heap)
    BY <2>1, <2>2, DropMap
  <2>4. DOMAIN pools'[q] \subseteq DOMAIN pools[q]
    BY <2>1 DEF Drop
  <2> QED BY <2>1, <2>2, <2>3, <2>4, FS_Subset
<1>3. IsMap(instances', InstanceIDs, DOMAIN heap)
  BY <1>1, DropMap DEF TInv, TypeOK
<1>4. DOMAIN pools' \subseteq Pools
  BY <1>1 DEF TInv, TypeOK
<1> QED BY <1>1, <1>2, <1>3, <1>4, MapsOnlyTInv

\* The manager starts well typed.
LEMMA InitTInv == NewMIGManager => TInv
<1> SUFFICES ASSUME NewMIGManager PROVE TInv
  OBVIOUS
<1>1. heap = <<>> /\ pools = <<>> /\ instances = <<>> /\ held = [s \in Services |-> {}]
  BY DEF NewMIGManager
<1>2. heap \in Seq(MIGInstanceInfo) /\ Len(heap) <= MaxObjects
  BY <1>1, EmptySeq, MIGAssumption
<1>3. DOMAIN pools = {} /\ DOMAIN instances = {} /\ instances \in [{} -> DOMAIN heap]
  BY <1>1
<1>4. held \in [Services -> SUBSET DOMAIN heap]
  BY <1>1
<1> QED BY <1>2, <1>3, <1>4 DEF TInv, TypeOK, PoolsFinite, IsMap

\* Every step keeps the types.
LEMMA NextTInv == TInv /\ [Next]_migVars => TInv'
<1>. SUFFICES ASSUME TInv, [Next]_migVars PROVE TInv'
  OBVIOUS
<1>1. CASE UNCHANGED migVars
  BY <1>1 DEF migVars, TInv, TypeOK, PoolsFinite
<1>. QED
  BY <1>1, ConfigureTInv, CleanupTInv, AllocateTInv, ReleaseTInv, DestroyTInv
     DEF Next, ConfigurePoolError, CleanupPoolError, CleanupPoolAbsent, AllocateError,
         DestroyInstanceError

\* The manager is well typed whatever is called: every InstanceID is a profile
\* with a number, and no map points to an object that was never created.
THEOREM TypeOKTheorem == Spec => []TypeOK
<1>1. TInv => TypeOK
  BY DEF TInv
<1>2. Init => TInv
  BY InitTInv DEF Init
<1>. QED
  BY <1>1, <1>2, NextTInv, PTL DEF Spec
=============================================================================
