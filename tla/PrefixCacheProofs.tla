-------------------------- MODULE PrefixCacheProofs --------------------------
(***************************************************************************)
(* Proofs about the prefix cache (prefix.go).                              *)
(*                                                                         *)
(* PrefixCache, for every number of goroutines, every set of keys and      *)
(* sizes and every limit, with and without swap: the types, that the flags *)
(* of a resident block agree with the map it is in, that the entry counter *)
(* does not exceed what is there, and that the index of the tree has       *)
(* hashes of resident blocks only.                                         *)
(*                                                                         *)
(* PrefixTree, for any tokens, block size, limits and number of concurrent *)
(* insertions: what was inserted matches at least its first block.         *)
(***************************************************************************)
EXTENDS PrefixCache, PrefixTree, FiniteSetTheorems, SequenceTheorems, WellFoundedInduction, TLAPS

\* A Get that is past its lookup has a block in its hands.
ThreadsHold == \A t \in Threads : thread[t].pc # "idle" => thread[t].block \in DOMAIN heap

TInv == TypeOK /\ ThreadsHold

\* The facts about the heap that the steps need, apart from sequences.
LEMMA HeapFacts ==
  ASSUME heap \in Seq(Block)
  PROVE  /\ Len(heap) \in Nat
         /\ DOMAIN heap = 1..Len(heap)
         /\ \A b \in DOMAIN heap : heap[b] \in Block
OBVIOUS

\* Setting a block's flags changes nothing else of the heap.
LEMMA FlagsStep ==
  ASSUME heap \in Seq(Block), NEW b \in DOMAIN heap, NEW g \in BOOLEAN, NEW w \in BOOLEAN,
         SetFlags(b, g, w)
  PROVE  /\ heap' \in Seq(Block) /\ Len(heap') = Len(heap) /\ DOMAIN heap' = DOMAIN heap
         /\ heap'[b].InGPU = g /\ heap'[b].InSwap = w /\ heap'[b].key = heap[b].key
         /\ \A o \in DOMAIN heap : o # b => heap'[o] = heap[o]
<1> DEFINE r == [[heap[b] EXCEPT !.InGPU = g] EXCEPT !.InSwap = w]
<1>1. heap[b] \in Block
  BY HeapFacts
<1>2. r \in Block /\ r.InGPU = g /\ r.InSwap = w /\ r.key = heap[b].key
  BY <1>1 DEF Block
<1>3. heap' = [heap EXCEPT ![b] = r]
  BY HeapFacts DEF SetFlags
<1> HIDE DEF r
<1> QED BY <1>2, <1>3, HeapFacts

\* A block that expires keeps its key and its flags.
LEMMA ExpireStep ==
  ASSUME heap \in Seq(Block), NEW b \in DOMAIN heap, Expire(b)
  PROVE  /\ heap' \in Seq(Block) /\ Len(heap') = Len(heap) /\ DOMAIN heap' = DOMAIN heap
         /\ \A o \in DOMAIN heap : /\ heap'[o].key = heap[o].key
                                   /\ heap'[o].InGPU = heap[o].InGPU
                                   /\ heap'[o].InSwap = heap[o].InSwap
<1> DEFINE r == [heap[b] EXCEPT !.expired = TRUE]
<1>1. heap[b] \in Block
  BY HeapFacts
<1>2. r \in Block /\ r.InGPU = heap[b].InGPU /\ r.InSwap = heap[b].InSwap /\ r.key = heap[b].key
  BY <1>1 DEF Block
<1>3. heap' = [heap EXCEPT ![b] = r]
  BY DEF Expire
<1> HIDE DEF r
<1> QED BY <1>2, <1>3, HeapFacts

\* A map stays one of blocks when an entry goes and when one comes.
LEMMA MapSteps ==
  ASSUME NEW m, IsBlockMap(m), NEW k \in Keys, NEW b \in DOMAIN heap
  PROVE  IsBlockMap(Drop(m, k)) /\ IsBlockMap(Put(m, k, b))
BY DEF IsBlockMap, Drop, Put

StoreOK(c) ==
  /\ IsBlockMap(c.gpuBlocks) /\ IsBlockMap(c.swapBlocks) /\ IsBlockMap(c.treeBlocks)
  /\ c.usedSize \in Int /\ c.swapUsed \in Int /\ c.entries \in Int

\* A block has a key and an integer size.
LEMMA BlockFields ==
  ASSUME NEW r \in Block PROVE r.key \in Keys /\ r.size \in Int
<1>1. Sizes \subseteq Int
  BY PrefixCacheAssumption
<1>2. r.key \in Keys /\ r.size \in Sizes
  BY DEF Block
<1> QED BY <1>1, <1>2

\* removeBlock keeps the types.
LEMMA RemoveType ==
  ASSUME heap \in Seq(Block), NEW c, StoreOK(c), NEW b \in DOMAIN heap
  PROVE  StoreOK(removeBlock(c, b))
<1>1. heap[b].key \in Keys /\ heap[b].size \in Int
  BY HeapFacts, BlockFields
<1> QED BY <1>1, MapSteps DEF StoreOK, removeBlock

\* What is looked up is a block.
LEMMA LookupType ==
  ASSUME StoreOK(store), NEW k, NEW b \in Lookup(k)
  PROVE  b \in DOMAIN heap
BY DEF StoreOK, IsBlockMap, Lookup

\* The types that depend on the heap's size survive its growth.
LEMMA TypesGrow ==
  ASSUME TypeOK, ThreadsHold, heap' \in Seq(Block), Len(heap) <= Len(heap'),
         Len(heap') <= MaxBlocks, UNCHANGED <<mu, thread>>, todo' \subseteq DOMAIN heap
  PROVE  /\ \A m : IsBlockMap(m) =>
                DOMAIN m \subseteq Keys /\ m \in [DOMAIN m -> DOMAIN heap']
         /\ todo' \subseteq DOMAIN heap'
         /\ thread' \in [Threads -> [pc : {"idle", "found", "purge", "hit", "return"},
                                     block : 0..Len(heap')]]
         /\ ThreadsHold'
<1>1. DOMAIN heap \subseteq DOMAIN heap' /\ Len(heap) \in Nat /\ Len(heap') \in Nat
  BY DEF TypeOK
<1>2. \A m : IsBlockMap(m) => DOMAIN m \subseteq Keys /\ m \in [DOMAIN m -> DOMAIN heap']
  BY <1>1 DEF IsBlockMap
<1>3. 0..Len(heap) \subseteq 0..Len(heap')
  BY <1>1
<1>4. thread' \in [Threads -> [pc : {"idle", "found", "purge", "hit", "return"},
                               block : 0..Len(heap')]]
  BY <1>3 DEF TypeOK
<1> QED BY <1>1, <1>2, <1>4 DEF ThreadsHold

\* The types and what Gets hold are kept by every step.
LEMMA TInvStep == TInv /\ [Next]_vars => TInv'
<1> SUFFICES ASSUME TypeOK, ThreadsHold, [Next]_vars
             PROVE  TypeOK' /\ ThreadsHold'
  BY DEF TInv
<1> DEFINE ThreadType(n) == [pc : {"idle", "found", "purge", "hit", "return"}, block : 0..n]
<1>h. /\ heap \in Seq(Block) /\ Len(heap) \in Nat /\ Len(heap) <= MaxBlocks
      /\ DOMAIN heap = 1..Len(heap) /\ \A b \in DOMAIN heap : heap[b] \in Block
  BY HeapFacts DEF TypeOK
<1>s. StoreOK(store) /\ todo \subseteq DOMAIN heap
      /\ thread \in [Threads -> ThreadType(Len(heap))]
  BY DEF StoreOK, TypeOK
<1>g. GPUObjects \subseteq DOMAIN heap
  BY <1>s DEF StoreOK, IsBlockMap, GPUObjects
\* A step that leaves the heap and the goroutines alone.
<1>a. ASSUME UNCHANGED <<heap, thread>>, StoreOK(store'),
             mu' \in {"free", "expire", "evict", "stuck"}, todo' \subseteq DOMAIN heap
      PROVE  TypeOK' /\ ThreadsHold'
  BY <1>a, <1>h, <1>s DEF TypeOK, ThreadsHold, StoreOK, IsBlockMap
\* A step of one goroutine that leaves the heap alone.
<1>b. ASSUME NEW t \in Threads, NEW r \in ThreadType(Len(heap)),
             r.pc # "idle" => r.block \in DOMAIN heap,
             thread' = [thread EXCEPT ![t] = r],
             UNCHANGED <<heap, mu, todo>>, StoreOK(store')
      PROVE  TypeOK' /\ ThreadsHold'
  <2>1. thread' \in [Threads -> ThreadType(Len(heap'))] /\ ThreadsHold'
    BY <1>b, <1>s DEF ThreadsHold
  <2> QED BY <1>b, <1>h, <2>1 DEF TypeOK, StoreOK, IsBlockMap
\* A step that leaves the goroutines alone and keeps the heap's length.
<1>f. ASSUME heap' \in Seq(Block), Len(heap') = Len(heap), UNCHANGED <<thread, mu>>,
             todo' \subseteq DOMAIN heap, StoreOK(store')
      PROVE  TypeOK' /\ ThreadsHold'
  <2>1. DOMAIN heap' = DOMAIN heap
    BY <1>f, <1>h
  <2> QED BY <1>f, <1>h, <1>s, <2>1 DEF TypeOK, ThreadsHold, StoreOK, IsBlockMap
<1>i. Idle \in ThreadType(Len(heap)) /\ Idle.pc = "idle"
  BY <1>h DEF Idle
<1>1. ASSUME NEW t \in Threads, NEW k \in Keys, GetLookup(t, k) PROVE TypeOK' /\ ThreadsHold'
  <2>1. PICK b \in Lookup(k) : thread' = [thread EXCEPT ![t] = [pc |-> "found", block |-> b]]
    BY <1>1 DEF GetLookup
  <2> DEFINE r == [pc |-> "found", block |-> b]
  <2>2. b \in DOMAIN heap
    BY <1>s, LookupType
  <2>3. r \in ThreadType(Len(heap)) /\ r.block \in DOMAIN heap
    BY <1>h, <2>2
  <2>4. thread' = [thread EXCEPT ![t] = r]
    BY <2>1
  <2> HIDE DEF r
  <2> QED BY <1>1, <1>b, <1>s, <2>3, <2>4 DEF GetLookup
<1>0. ASSUME NEW t \in Threads, GetRef(t) PROVE TypeOK' /\ ThreadsHold'
  <2> DEFINE r == [thread[t] EXCEPT !.pc =
                     IF heap[thread[t].block].expired THEN "purge" ELSE "hit"]
  <2>1. r \in ThreadType(Len(heap)) /\ r.block \in DOMAIN heap
    BY <1>0, <1>s DEF GetRef, ThreadsHold
  <2>2. thread' = [thread EXCEPT ![t] = r]
    BY <1>0 DEF GetRef
  <2> HIDE DEF r
  <2> QED BY <1>0, <1>b, <1>s, <2>1, <2>2 DEF GetRef
<1>2. ASSUME NEW t \in Threads, GetPurge(t) PROVE TypeOK' /\ ThreadsHold'
  <2>1. thread[t].block \in DOMAIN heap
    BY <1>2 DEF GetPurge, ThreadsHold
  <2>2. StoreOK(store')
    BY <1>2, <1>h, <1>s, <2>1, RemoveType DEF GetPurge
  <2> QED BY <1>2, <1>b, <1>i, <2>2 DEF GetPurge
<1>3. ASSUME NEW t \in Threads, GetTouch(t) PROVE TypeOK' /\ ThreadsHold'
  <2> DEFINE b == thread[t].block
             r == [thread[t] EXCEPT !.pc = "return"]
  <2>1. b \in DOMAIN heap /\ heap[b].key \in Keys /\ heap[b].size \in Int
    BY <1>3, <1>h, BlockFields DEF GetTouch, ThreadsHold
  <2>2. r \in ThreadType(Len(heap)) /\ r.block \in DOMAIN heap
    BY <1>s, <2>1
  <2>3. thread' = [thread EXCEPT ![t] = r]
    BY <1>3 DEF GetTouch
  <2>4. CASE ~ heap[b].InSwap
    <3>1. UNCHANGED <<heap, store, mu, todo>>
      BY <1>3, <2>4 DEF GetTouch
    <3> HIDE DEF r
    <3> QED BY <1>b, <1>s, <2>2, <2>3, <3>1
  <2>5. CASE heap[b].InSwap
    <3>1. SetFlags(b, TRUE, FALSE) /\ UNCHANGED <<mu, todo>>
      BY <1>3, <2>5 DEF GetTouch, moveToGPU
    <3>2. heap' \in Seq(Block) /\ Len(heap') = Len(heap) /\ DOMAIN heap' = DOMAIN heap
      BY <1>h, <2>1, <3>1, FlagsStep
    <3>3. StoreOK(store')
      BY <1>3, <1>s, <2>1, <2>5, MapSteps DEF GetTouch, moveToGPU, StoreOK
    <3>4. thread' \in [Threads -> ThreadType(Len(heap'))] /\ ThreadsHold'
      <4> HIDE DEF r
      <4> QED BY <1>s, <2>2, <2>3, <3>2 DEF ThreadsHold
    <3> QED BY <1>h, <1>s, <3>1, <3>2, <3>3, <3>4 DEF TypeOK, StoreOK, IsBlockMap
  <2> QED BY <2>4, <2>5
<1>4. ASSUME NEW t \in Threads, GetTouchBlocks(t) PROVE TypeOK' /\ ThreadsHold'
  BY <1>4, <1>a, <1>s DEF GetTouchBlocks
<1>5. ASSUME NEW t \in Threads, GetReturn(t) PROVE TypeOK' /\ ThreadsHold'
  BY <1>5, <1>b, <1>i, <1>s DEF GetReturn
<1>6. ASSUME NEW k \in Keys, NEW n \in Sizes, Set(k, n) PROVE TypeOK' /\ ThreadsHold'
  <2> DEFINE c == IF Lookup(k) = {} THEN store
                  ELSE removeBlock(store, CHOOSE b \in Lookup(k) : TRUE)
             new == [key |-> k, size |-> n, InGPU |-> TRUE, InSwap |-> FALSE, expired |-> FALSE]
  <2>1. StoreOK(c)
    <3>1. Lookup(k) # {} => (CHOOSE b \in Lookup(k) : TRUE) \in Lookup(k)
      OBVIOUS
    <3> QED BY <1>h, <1>s, <3>1, LookupType, RemoveType
  <2>2. new \in Block
    BY DEF Block
  <2>3. heap' = Append(heap, new) /\ Len(heap) < MaxBlocks
    BY <1>6 DEF Set
  <2>4. /\ heap' \in Seq(Block) /\ Len(heap') = Len(heap) + 1
        /\ DOMAIN heap' = 1..(Len(heap) + 1)
    <3> HIDE DEF new
    <3> QED BY <1>h, <2>2, <2>3
  <2>5. MaxBlocks \in Nat /\ n \in Int
    BY PrefixCacheAssumption
  <2>6. /\ store'.gpuBlocks = Put(c.gpuBlocks, k, Len(heap) + 1)
        /\ store'.treeBlocks = Put(c.treeBlocks, k, Len(heap) + 1)
        /\ store'.swapBlocks = c.swapBlocks
        /\ store'.usedSize = c.usedSize + n /\ store'.swapUsed = c.swapUsed
        /\ store'.entries = c.entries + 1
        /\ UNCHANGED <<mu, todo, thread>>
    BY <1>6 DEF Set
  <2> HIDE DEF c, new
  <2>7. StoreOK(store)'
    BY <1>h, <2>1, <2>4, <2>5, <2>6 DEF StoreOK, IsBlockMap, Put
  <2>8. /\ todo' \subseteq DOMAIN heap' /\ ThreadsHold'
        /\ thread' \in [Threads -> ThreadType(Len(heap'))]
    BY <1>h, <1>s, <2>3, <2>4, <2>5, <2>6, TypesGrow
  <2>9. Len(heap') <= MaxBlocks /\ mu' \in {"free", "expire", "evict", "stuck"}
    BY <1>h, <2>3, <2>4, <2>5, <2>6 DEF TypeOK
  <2> QED BY <2>4, <2>7, <2>8, <2>9 DEF TypeOK, StoreOK
<1>7. ASSUME NEW k \in Keys, Delete(k) PROVE TypeOK' /\ ThreadsHold'
  <2>1. StoreOK(store')
    BY <1>7, <1>h, <1>s, LookupType, RemoveType DEF Delete
  <2> QED BY <1>7, <1>a, <1>s, <2>1 DEF Delete, TypeOK
<1>8. ASSUME Clear PROVE TypeOK' /\ ThreadsHold'
  <2>1. StoreOK(store')
    BY <1>8 DEF Clear, StoreOK, IsBlockMap
  <2> QED BY <1>8, <1>a, <1>s, <2>1 DEF Clear, TypeOK
<1>9. ASSUME NEW b \in DOMAIN heap, Expire(b) PROVE TypeOK' /\ ThreadsHold'
  <2>1. heap' \in Seq(Block) /\ Len(heap') = Len(heap)
    BY <1>9, <1>h, ExpireStep
  <2> QED BY <1>9, <1>f, <1>s, <2>1 DEF Expire
<1>10. ASSUME EvictExpired \/ EvictExpiredDone \/ EvictLRU \/ EvictLRUDone
       PROVE  TypeOK' /\ ThreadsHold'
  <2>1. todo' \subseteq DOMAIN heap /\ UNCHANGED <<heap, thread, store>>
    BY <1>10, <1>s, <1>g DEF EvictExpired, EvictExpiredDone, EvictLRU, EvictLRUDone
  <2>2. mu' \in {"free", "expire", "evict", "stuck"}
    BY <1>10 DEF EvictExpired, EvictExpiredDone, EvictLRU, EvictLRUDone
  <2> QED BY <1>a, <1>s, <2>1, <2>2
<1>11. ASSUME NEW b \in DOMAIN heap, EvictExpiredOne(b) PROVE TypeOK' /\ ThreadsHold'
  <2>1. StoreOK(store')
    BY <1>11, <1>h, <1>s, RemoveType DEF EvictExpiredOne
  <2> QED BY <1>11, <1>a, <1>s, <2>1 DEF EvictExpiredOne, TypeOK
<1>12. ASSUME NEW b \in DOMAIN heap, EvictLRUOne(b) PROVE TypeOK' /\ ThreadsHold'
  <2>1. CASE moveToSwap(b)
    <3>1. heap' \in Seq(Block) /\ Len(heap') = Len(heap)
      BY <1>h, <2>1, FlagsStep DEF moveToSwap
    <3>2. heap[b].key \in Keys /\ heap[b].size \in Int
      BY <1>h, BlockFields
    <3>3. StoreOK(store')
      BY <1>s, <2>1, <3>2, MapSteps DEF moveToSwap, StoreOK
    <3> QED BY <1>12, <1>f, <1>s, <3>1, <3>3 DEF EvictLRUOne
  <2>2. CASE store' = removeBlock(store, b) /\ UNCHANGED heap
    <3>1. StoreOK(store')
      BY <1>h, <1>s, <2>2, RemoveType
    <3> QED BY <1>12, <1>a, <1>s, <2>2, <3>1 DEF EvictLRUOne, TypeOK
  <2> QED BY <1>12, <2>1, <2>2 DEF EvictLRUOne
<1>13. ASSUME UNCHANGED vars PROVE TypeOK' /\ ThreadsHold'
  BY <1>13, <1>a, <1>s DEF vars, TypeOK
<1> QED BY <1>0, <1>1, <1>2, <1>3, <1>4, <1>5, <1>6, <1>7, <1>8, <1>9, <1>10, <1>11, <1>12, <1>13
        DEF Next, Get, Sweep

\* The cache starts well typed.
LEMMA TInvInit == Init => TInv
<1> SUFFICES ASSUME Init PROVE TypeOK /\ ThreadsHold
  BY DEF TInv
<1>1. heap \in Seq(Block) /\ Len(heap) = 0 /\ DOMAIN heap = {}
  BY DEF Init
<1>2. StoreOK(store)
  BY DEF Init, StoreOK, IsBlockMap
<1>3. /\ thread \in [Threads -> [pc : {"idle", "found", "purge", "hit", "return"},
                                 block : 0..Len(heap)]]
      /\ ThreadsHold
  BY <1>1 DEF Init, Idle, ThreadsHold
<1>4. Len(heap) <= MaxBlocks
  BY <1>1, PrefixCacheAssumption
<1> QED BY <1>1, <1>2, <1>3, <1>4 DEF Init, TypeOK, StoreOK

-----------------------------------------------------------------------------
(* Residency. *)

\* What ResidencyAgrees says of maps g and w in a heap h.
Agree(h, g, w) ==
  /\ \A k \in DOMAIN g : /\ h[g[k]].key = k /\ h[g[k]].InGPU /\ ~ h[g[k]].InSwap
                         /\ k \notin DOMAIN w
  /\ \A k \in DOMAIN w : h[w[k]].key = k /\ h[w[k]].InSwap /\ ~ h[w[k]].InGPU

\* Taking entries out of the maps does no harm.
LEMMA DropAgrees ==
  ASSUME NEW h, NEW g, NEW w, Agree(h, g, w), NEW k
  PROVE  /\ Agree(h, Drop(g, k), w) /\ Agree(h, g, Drop(w, k))
         /\ Agree(h, Drop(g, k), Drop(w, k))
BY DEF Agree, Drop

\* removeBlock does no harm, whatever block it is given.
LEMMA RemoveAgrees ==
  ASSUME NEW c, NEW b, Agree(heap, c.gpuBlocks, c.swapBlocks)
  PROVE  Agree(heap, removeBlock(c, b).gpuBlocks, removeBlock(c, b).swapBlocks)
BY DropAgrees DEF removeBlock

\* A block of another key is another block.
LEMMA OtherKeys ==
  ASSUME Agree(heap, store.gpuBlocks, store.swapBlocks), NEW b
  PROVE  /\ \A k \in DOMAIN store.gpuBlocks : k # heap[b].key => store.gpuBlocks[k] # b
         /\ \A k \in DOMAIN store.swapBlocks : k # heap[b].key => store.swapBlocks[k] # b
BY DEF Agree

\* Every step keeps the flags and the maps in agreement.
LEMMA ResidencyStep == TInv /\ ResidencyAgrees /\ [Next]_vars => ResidencyAgrees'
<1> SUFFICES ASSUME TypeOK, ThreadsHold, Agree(heap, store.gpuBlocks, store.swapBlocks), [Next]_vars
             PROVE  Agree(heap', store'.gpuBlocks, store'.swapBlocks)
  BY DEF TInv, ResidencyAgrees, Agree
<1> DEFINE Goal == Agree(heap', store'.gpuBlocks, store'.swapBlocks)
<1>h. /\ heap \in Seq(Block) /\ Len(heap) \in Nat
      /\ DOMAIN heap = 1..Len(heap) /\ \A b \in DOMAIN heap : heap[b] \in Block
  BY HeapFacts DEF TypeOK
<1>s. StoreOK(store)
  BY DEF StoreOK, TypeOK
<1>r. ASSUME NEW b, UNCHANGED heap, store' = removeBlock(store, b) PROVE Goal
  BY <1>r, RemoveAgrees
<1>u. ASSUME UNCHANGED <<heap, store>> PROVE Goal
  BY <1>u
<1>1. ASSUME NEW t \in Threads, GetTouch(t) PROVE Goal
  <2> DEFINE b == thread[t].block
  <2>1. b \in DOMAIN heap
    BY <1>1 DEF GetTouch, ThreadsHold
  <2>2. CASE ~ heap[b].InSwap
    BY <1>1, <1>u, <2>2 DEF GetTouch
  <2>3. CASE heap[b].InSwap
    <3>1. moveToGPU(b)
      BY <1>1, <2>3 DEF GetTouch
    <3>2. /\ heap'[b].InGPU /\ ~ heap'[b].InSwap /\ heap'[b].key = heap[b].key
          /\ \A o \in DOMAIN heap : o # b => heap'[o] = heap[o]
      BY <1>h, <2>1, <3>1, FlagsStep DEF moveToGPU
    <3>3. /\ store'.gpuBlocks = Put(store.gpuBlocks, heap[b].key, b)
          /\ store'.swapBlocks = Drop(store.swapBlocks, heap[b].key)
      BY <3>1 DEF moveToGPU
    <3> HIDE DEF b
    <3> QED BY <1>s, <2>1, <3>2, <3>3, OtherKeys DEF Agree, Put, Drop, StoreOK, IsBlockMap
  <2> QED BY <2>2, <2>3
<1>2. ASSUME NEW k \in Keys, NEW n \in Sizes, Set(k, n) PROVE Goal
  <2> DEFINE c == IF Lookup(k) = {} THEN store
                  ELSE removeBlock(store, CHOOSE b \in Lookup(k) : TRUE)
             new == [key |-> k, size |-> n, InGPU |-> TRUE, InSwap |-> FALSE, expired |-> FALSE]
  <2>1. Agree(heap, c.gpuBlocks, c.swapBlocks)
    BY RemoveAgrees
  <2>2. StoreOK(c) /\ k \notin DOMAIN c.swapBlocks
    <3>1. CASE k \in DOMAIN store.gpuBlocks
      <4>1. Lookup(k) # {} /\ (CHOOSE b \in Lookup(k) : TRUE) = store.gpuBlocks[k]
        BY <3>1 DEF Lookup
      <4>2. c = removeBlock(store, store.gpuBlocks[k]) /\ k \notin DOMAIN store.swapBlocks
        BY <3>1, <4>1 DEF Agree
      <4>3. store.gpuBlocks[k] \in DOMAIN heap
        BY <1>s, <3>1 DEF StoreOK, IsBlockMap
      <4> HIDE DEF c
      <4>4. DOMAIN c.swapBlocks \subseteq DOMAIN store.swapBlocks
        BY <4>2 DEF removeBlock, Drop
      <4> QED BY <1>h, <1>s, <4>2, <4>3, <4>4, RemoveType
    <3>2. CASE k \notin DOMAIN store.gpuBlocks /\ k \in DOMAIN store.swapBlocks
      <4>1. Lookup(k) # {} /\ (CHOOSE b \in Lookup(k) : TRUE) = store.swapBlocks[k]
        BY <3>2 DEF Lookup
      <4>2. /\ c = removeBlock(store, store.swapBlocks[k])
            /\ heap[store.swapBlocks[k]].InSwap /\ heap[store.swapBlocks[k]].key = k
        BY <3>2, <4>1 DEF Agree
      <4>3. store.swapBlocks[k] \in DOMAIN heap
        BY <1>s, <3>2 DEF StoreOK, IsBlockMap
      <4> HIDE DEF c
      <4>4. c.swapBlocks = Drop(store.swapBlocks, k)
        BY <4>2 DEF removeBlock
      <4> QED BY <1>h, <1>s, <4>2, <4>3, <4>4, RemoveType DEF Drop
    <3>3. CASE k \notin DOMAIN store.gpuBlocks /\ k \notin DOMAIN store.swapBlocks
      BY <1>s, <3>3 DEF Lookup
    <3> QED BY <3>1, <3>2, <3>3
  <2>3. /\ store'.gpuBlocks = Put(c.gpuBlocks, k, Len(heap) + 1)
        /\ store'.swapBlocks = c.swapBlocks
        /\ heap' = Append(heap, new)
    BY <1>2 DEF Set
  <2>4. new.key = k /\ new.InGPU /\ ~ new.InSwap /\ new \in Block
    BY DEF Block
  <2> HIDE DEF c, new
  <2>5. /\ heap'[Len(heap) + 1] = new
        /\ \A o \in DOMAIN heap : heap'[o] = heap[o]
    BY <1>h, <2>3, <2>4
  <2> QED BY <2>1, <2>2, <2>3, <2>4, <2>5 DEF Agree, Put, StoreOK, IsBlockMap
<1>3. ASSUME NEW b \in DOMAIN heap, Expire(b) PROVE Goal
  <2>1. \A o \in DOMAIN heap : /\ heap'[o].key = heap[o].key
                               /\ heap'[o].InGPU = heap[o].InGPU
                               /\ heap'[o].InSwap = heap[o].InSwap
    BY <1>3, <1>h, ExpireStep
  <2>2. store' = store
    BY <1>3 DEF Expire
  <2> QED BY <1>s, <2>1, <2>2 DEF Agree, StoreOK, IsBlockMap
<1>4. ASSUME NEW b \in DOMAIN heap, EvictLRUOne(b) PROVE Goal
  <2>1. CASE moveToSwap(b)
    <3>1. /\ ~ heap'[b].InGPU /\ heap'[b].InSwap /\ heap'[b].key = heap[b].key
          /\ \A o \in DOMAIN heap : o # b => heap'[o] = heap[o]
      BY <1>h, <2>1, FlagsStep DEF moveToSwap
    <3>2. /\ store'.gpuBlocks = Drop(store.gpuBlocks, heap[b].key)
          /\ store'.swapBlocks = Put(store.swapBlocks, heap[b].key, b)
      BY <2>1 DEF moveToSwap
    <3> QED BY <1>s, <3>1, <3>2, OtherKeys DEF Agree, Put, Drop, StoreOK, IsBlockMap
  <2> QED BY <1>4, <1>r, <2>1 DEF EvictLRUOne
<1>5. ASSUME Clear PROVE Goal
  BY <1>5 DEF Clear, Agree
<1>6. ASSUME NEW t \in Threads, GetPurge(t) PROVE Goal
  BY <1>6, <1>r DEF GetPurge
<1>7. ASSUME NEW k \in Keys, Delete(k) PROVE Goal
  BY <1>7, <1>r DEF Delete
<1>8. ASSUME NEW b \in DOMAIN heap, EvictExpiredOne(b) PROVE Goal
  BY <1>8, <1>r, <1>u DEF EvictExpiredOne
<1> QED BY <1>1, <1>2, <1>3, <1>4, <1>5, <1>6, <1>7, <1>8, <1>u
        DEF Next, Get, Sweep, GetLookup, GetRef, GetTouchBlocks, GetReturn, EvictExpired,
            EvictExpiredDone, EvictLRU, EvictLRUDone, vars

\* The maps hold blocks of the heap, and so do the goroutines and the sweep,
\* through every interleaving of Gets, Sets, deletions and evictions
\* (prefix.go, PrefixCache).
THEOREM TypeOKTheorem == Spec => []TypeOK
<1>1. TInv => TypeOK
  BY DEF TInv
<1> QED BY <1>1, TInvInit, TInvStep, PTL DEF Spec

\* Wherever a block is its flags say so, and no key is both in the GPU and in
\* swap, whatever stale blocks Gets come back with (prefix.go, removeBlock,
\* moveToSwap, moveToGPU and Set).
THEOREM ResidencyTheorem == Spec => []ResidencyAgrees
<1>1. Init => ResidencyAgrees
  BY DEF Init, ResidencyAgrees
<1> QED BY <1>1, TInvInit, TInvStep, ResidencyStep, PTL DEF Spec

-----------------------------------------------------------------------------
(* The entries counter. *)

Resident(c) == DOMAIN c.gpuBlocks \cup DOMAIN c.swapBlocks

\* The counter of c is at most the number of keys it has.
Counted(c) == IsFiniteSet(Resident(c)) /\ c.entries <= Cardinality(Resident(c))

\* A set loses at most one element with one.
LEMMA RemoveOne ==
  ASSUME NEW S, IsFiniteSet(S), NEW x
  PROVE  Cardinality(S) - 1 <= Cardinality(S \ {x})
<1> DEFINE n == Cardinality(S)
           m == Cardinality(S \ {x})
<1>1. n \in Nat /\ (m = n - 1 \/ m = n)
  BY FS_RemoveElement, FS_CardinalityType, Zenon
<1> HIDE DEF n, m
<1>2. n - 1 <= m
  BY <1>1
<1> QED BY <1>2 DEF n, m

\* removeBlock takes one off the counter, and out of the maps at most the key of
\* its block.
LEMMA RemoveCounts ==
  ASSUME heap \in Seq(Block), NEW c, StoreOK(c), Counted(c), NEW b \in DOMAIN heap
  PROVE  Counted(removeBlock(c, b))
<1> DEFINE k == heap[b].key
           d == removeBlock(c, b)
<1>1. Resident(d) \subseteq Resident(c) /\ Resident(c) \ {k} \subseteq Resident(d)
  BY DEF Resident, removeBlock, Drop
<1>2. d.entries = c.entries - 1 /\ c.entries \in Int
  BY DEF removeBlock, StoreOK
<1> HIDE DEF d, k
<1>3. IsFiniteSet(Resident(d)) /\ IsFiniteSet(Resident(c) \ {k})
  BY <1>1, FS_Subset, FS_RemoveElement DEF Counted
<1>4. /\ Cardinality(Resident(c) \ {k}) \in Nat /\ Cardinality(Resident(c)) \in Nat
      /\ Cardinality(Resident(d)) \in Nat
  BY <1>3, FS_CardinalityType DEF Counted
<1>5. Cardinality(Resident(c)) - 1 <= Cardinality(Resident(c) \ {k})
  BY RemoveOne DEF Counted
<1>6. Cardinality(Resident(c) \ {k}) <= Cardinality(Resident(d))
  BY <1>1, <1>3, FS_Subset
<1>7. d.entries <= Cardinality(Resident(d))
  BY <1>2, <1>4, <1>5, <1>6 DEF Counted
<1> QED BY <1>3, <1>7 DEF Counted, d

\* A block that changes its map leaves the number of keys at least as it was.
LEMMA MoveCounts ==
  ASSUME NEW c, StoreOK(c), Counted(c), NEW d, NEW k,
         Resident(d) = Resident(c) \cup {k}, d.entries = c.entries
  PROVE  Counted(d)
<1>1. IsFiniteSet(Resident(d)) /\ Resident(c) \subseteq Resident(d)
  BY FS_AddElement DEF Counted
<1>2. Cardinality(Resident(c)) <= Cardinality(Resident(d))
  BY <1>1, FS_Subset
<1>3. Cardinality(Resident(c)) \in Nat /\ Cardinality(Resident(d)) \in Nat /\ c.entries \in Int
  BY <1>1, FS_CardinalityType DEF Counted, StoreOK
<1> QED BY <1>1, <1>2, <1>3 DEF Counted

\* What Set starts from: the maps without the key, and the counter with them.
LEMMA SetCounts ==
  ASSUME TypeOK, ResidencyAgrees, Counted(store), NEW k \in Keys, NEW n \in Sizes, Set(k, n)
  PROVE  Counted(store')
<1> DEFINE c == IF Lookup(k) = {} THEN store ELSE removeBlock(store, CHOOSE b \in Lookup(k) : TRUE)
<1>h. heap \in Seq(Block) /\ StoreOK(store)
  BY DEF TypeOK, StoreOK
<1>1. StoreOK(c) /\ Counted(c) /\ k \notin Resident(c)
  <2>1. CASE k \in DOMAIN store.gpuBlocks
    <3> DEFINE o == store.gpuBlocks[k]
    <3>1. /\ c = removeBlock(store, o) /\ o \in DOMAIN heap
          /\ heap[o].key = k /\ heap[o].InGPU /\ k \notin DOMAIN store.swapBlocks
      BY <1>h, <2>1 DEF Lookup, StoreOK, IsBlockMap, ResidencyAgrees
    <3> HIDE DEF c, o
    <3>2. k \notin Resident(c)
      BY <3>1 DEF Resident, removeBlock, Drop
    <3> QED BY <1>h, <3>1, <3>2, RemoveType, RemoveCounts
  <2>2. CASE k \notin DOMAIN store.gpuBlocks /\ k \in DOMAIN store.swapBlocks
    <3> DEFINE o == store.swapBlocks[k]
    <3>1. /\ c = removeBlock(store, o) /\ o \in DOMAIN heap
          /\ heap[o].key = k /\ heap[o].InSwap
      BY <1>h, <2>2 DEF Lookup, StoreOK, IsBlockMap, ResidencyAgrees
    <3> HIDE DEF c, o
    <3>2. k \notin Resident(c)
      BY <2>2, <3>1 DEF Resident, removeBlock, Drop
    <3> QED BY <1>h, <3>1, <3>2, RemoveType, RemoveCounts
  <2>3. CASE k \notin Resident(store)
    BY <1>h, <2>3 DEF Lookup, Resident
  <2> QED BY <2>1, <2>2, <2>3 DEF Resident
<1>2. /\ store'.gpuBlocks = Put(c.gpuBlocks, k, Len(heap) + 1)
      /\ store'.swapBlocks = c.swapBlocks /\ store'.entries = c.entries + 1
  BY DEF Set
<1> HIDE DEF c
<1>3. Resident(store') = Resident(c) \cup {k}
  BY <1>2 DEF Resident, Put
<1>4. /\ IsFiniteSet(Resident(store')) /\ Cardinality(Resident(c)) \in Nat
      /\ Cardinality(Resident(store')) = Cardinality(Resident(c)) + 1
  BY <1>1, <1>3, FS_AddElement, FS_CardinalityType DEF Counted
<1> QED BY <1>1, <1>2, <1>4 DEF Counted, StoreOK

\* Every step keeps the counter at most the number of keys.
LEMMA CountedStep == TInv /\ ResidencyAgrees /\ Counted(store) /\ [Next]_vars => Counted(store')
<1> SUFFICES ASSUME TypeOK, ThreadsHold, ResidencyAgrees, Counted(store), [Next]_vars
             PROVE  Counted(store')
  BY DEF TInv
<1>h. heap \in Seq(Block) /\ StoreOK(store)
  BY DEF TypeOK, StoreOK
<1>r. ASSUME NEW b \in DOMAIN heap, store' = removeBlock(store, b) PROVE Counted(store')
  BY <1>h, <1>r, RemoveCounts
<1>u. ASSUME UNCHANGED store PROVE Counted(store')
  BY <1>u
<1>1. ASSUME NEW t \in Threads, GetTouch(t) PROVE Counted(store')
  <2> DEFINE b == thread[t].block
  <2>1. CASE ~ heap[b].InSwap
    BY <1>1, <1>u, <2>1 DEF GetTouch
  <2>2. CASE heap[b].InSwap
    <3>1. /\ Resident(store') = Resident(store) \cup {heap[b].key}
          /\ store'.entries = store.entries
      BY <1>1, <2>2 DEF GetTouch, moveToGPU, Resident, Put, Drop
    <3> QED BY <1>h, <3>1, MoveCounts
  <2> QED BY <2>1, <2>2
<1>2. ASSUME NEW k \in Keys, NEW n \in Sizes, Set(k, n) PROVE Counted(store')
  BY <1>2, SetCounts
<1>3. ASSUME NEW b \in DOMAIN heap, EvictLRUOne(b) PROVE Counted(store')
  <2>1. CASE moveToSwap(b)
    <3>1. /\ Resident(store') = Resident(store) \cup {heap[b].key}
          /\ store'.entries = store.entries
      BY <2>1 DEF moveToSwap, Resident, Put, Drop
    <3> QED BY <1>h, <3>1, MoveCounts
  <2> QED BY <1>3, <1>r, <2>1 DEF EvictLRUOne
<1>4. ASSUME Clear PROVE Counted(store')
  <2>1. Resident(store') = {} /\ store'.entries = 0
    BY <1>4 DEF Clear, Resident
  <2> QED BY <2>1, FS_EmptySet DEF Counted
<1>5. ASSUME NEW t \in Threads, GetPurge(t) PROVE Counted(store')
  BY <1>5, <1>r DEF GetPurge, ThreadsHold
<1>6. ASSUME NEW k \in Keys, Delete(k) PROVE Counted(store')
  BY <1>6, <1>h, <1>r, LookupType DEF Delete
<1>7. ASSUME NEW b \in DOMAIN heap, EvictExpiredOne(b) PROVE Counted(store')
  BY <1>7, <1>r, <1>u DEF EvictExpiredOne
<1> QED BY <1>1, <1>2, <1>3, <1>4, <1>5, <1>6, <1>7, <1>u
        DEF Next, Get, Sweep, GetLookup, GetRef, GetTouchBlocks, GetReturn, Expire, EvictExpired,
            EvictExpiredDone, EvictLRU, EvictLRUDone, vars

\* The entries counter never claims more entries than the maps have, although
\* several Gets may remove the same block, each taking one off (prefix.go,
\* removeBlock and Set).
THEOREM EntriesNotOverstatedTheorem == Spec => []EntriesNotOverstated
<1>1. Init => ResidencyAgrees
  BY DEF Init, ResidencyAgrees
<1>2. Init => Counted(store)
  <2> SUFFICES ASSUME Init PROVE Counted(store)
    OBVIOUS
  <2>1. Resident(store) = {} /\ store.entries = 0
    BY DEF Init, Resident
  <2> QED BY <2>1, FS_EmptySet DEF Counted
<1>3. Counted(store) => EntriesNotOverstated
  BY DEF Counted, Resident, EntriesNotOverstated
<1>4. Counted(store') <=> Counted(store)'
  BY DEF Counted, Resident
<1> QED BY <1>1, <1>2, <1>3, <1>4, TInvInit, TInvStep, ResidencyStep, CountedStep, PTL DEF Spec

-----------------------------------------------------------------------------
(* The index of the tree. *)

TreeIn(c) == DOMAIN c.treeBlocks \subseteq Resident(c)

\* removeBlock takes a hash out of the index, and no other out of the maps.
LEMMA RemoveTree ==
  ASSUME NEW c, NEW b, TreeIn(c)
  PROVE  TreeIn(removeBlock(c, b))
<1> DEFINE k == heap[b].key
           r == removeBlock(c, b)
<1>1. DOMAIN r.treeBlocks = DOMAIN c.treeBlocks \ {k}
  BY DEF removeBlock, Drop
<1>2. DOMAIN c.gpuBlocks \ {k} \subseteq DOMAIN r.gpuBlocks
  BY DEF removeBlock, Drop
<1>3. DOMAIN c.swapBlocks \ {k} \subseteq DOMAIN r.swapBlocks
  BY DEF removeBlock, Drop
<1> HIDE DEF r, k
<1> QED BY <1>1, <1>2, <1>3 DEF TreeIn, Resident, r

\* Every step keeps the index within the maps.
LEMMA TreeInStep == TreeIn(store) /\ [Next]_vars => TreeIn(store')
<1> SUFFICES ASSUME TreeIn(store), [Next]_vars PROVE TreeIn(store')
  OBVIOUS
<1>r. ASSUME NEW b, store' = removeBlock(store, b) PROVE TreeIn(store')
  BY <1>r, RemoveTree
<1>u. ASSUME UNCHANGED store PROVE TreeIn(store')
  BY <1>u
<1>1. ASSUME NEW t \in Threads, GetTouch(t) PROVE TreeIn(store')
  <2> DEFINE b == thread[t].block
  <2>1. CASE ~ heap[b].InSwap
    BY <1>1, <1>u, <2>1 DEF GetTouch
  <2>2. CASE heap[b].InSwap
    <3>1. /\ Resident(store') = Resident(store) \cup {heap[b].key}
          /\ store'.treeBlocks = store.treeBlocks
      BY <1>1, <2>2 DEF GetTouch, moveToGPU, Resident, Put, Drop
    <3> QED BY <3>1 DEF TreeIn
  <2> QED BY <2>1, <2>2
<1>2. ASSUME NEW k \in Keys, NEW n \in Sizes, Set(k, n) PROVE TreeIn(store')
  <2> DEFINE c == IF Lookup(k) = {} THEN store
                  ELSE removeBlock(store, CHOOSE b \in Lookup(k) : TRUE)
  <2>1. TreeIn(c)
    BY RemoveTree
  <2>2. /\ store'.gpuBlocks = Put(c.gpuBlocks, k, Len(heap) + 1)
        /\ store'.treeBlocks = Put(c.treeBlocks, k, Len(heap) + 1)
        /\ store'.swapBlocks = c.swapBlocks
    BY <1>2 DEF Set
  <2> HIDE DEF c
  <2> QED BY <2>1, <2>2 DEF TreeIn, Resident, Put
<1>3. ASSUME NEW b \in DOMAIN heap, EvictLRUOne(b) PROVE TreeIn(store')
  <2>1. CASE moveToSwap(b)
    <3>1. /\ Resident(store') = Resident(store) \cup {heap[b].key}
          /\ store'.treeBlocks = store.treeBlocks
      BY <2>1 DEF moveToSwap, Resident, Put, Drop
    <3> QED BY <3>1 DEF TreeIn
  <2> QED BY <1>3, <1>r, <2>1 DEF EvictLRUOne
<1>4. ASSUME Clear PROVE TreeIn(store')
  BY <1>4 DEF Clear, TreeIn
<1>5. ASSUME NEW t \in Threads, GetPurge(t) PROVE TreeIn(store')
  BY <1>5, <1>r DEF GetPurge
<1>6. ASSUME NEW k \in Keys, Delete(k) PROVE TreeIn(store')
  BY <1>6, <1>r DEF Delete
<1>7. ASSUME NEW b \in DOMAIN heap, EvictExpiredOne(b) PROVE TreeIn(store')
  BY <1>7, <1>r, <1>u DEF EvictExpiredOne
<1> QED BY <1>1, <1>2, <1>3, <1>4, <1>5, <1>6, <1>7, <1>u
        DEF Next, Get, Sweep, GetLookup, GetRef, GetTouchBlocks, GetReturn, Expire, EvictExpired,
            EvictExpiredDone, EvictLRU, EvictLRUDone, vars

\* With and without swap, tree.blocks has no hash that has left the cache
\* (prefix.go, Set, removeBlock and Clear).
THEOREM TreeIndexResidentTheorem == Spec => []TreeIndexResident
<1>1. Init => TreeIn(store)
  BY DEF Init, TreeIn
<1>2. TreeIn(store) <=> TreeIndexResident
  BY DEF TreeIn, Resident, TreeIndexResident
<1>3. TreeIn(store') <=> TreeIn(store)'
  BY DEF TreeIn, Resident
<1> QED BY <1>1, <1>2, <1>3, TreeInStep, PTL DEF Spec

-----------------------------------------------------------------------------
(* The prefix tree: minimum, maximum and parts of sequences. *)

\* The smaller one of two numbers.
LEMMA MinOfTwo ==
  ASSUME NEW a \in Nat, NEW b \in Nat
  PROVE  /\ Min({a, b}) \in {a, b} /\ Min({a, b}) <= a /\ Min({a, b}) <= b
<1>1. \E x \in {a, b} : \A y \in {a, b} : x <= y
  BY a <= b \/ b <= a
<1> QED BY <1>1 DEF Min

\* The largest one of a set of numbers up to m.
LEMMA MaxOfBounded ==
  ASSUME NEW m \in Nat, NEW S \in SUBSET (0..m), S # {}
  PROVE  Max(S) \in S /\ \A y \in S : Max(S) >= y
<1> DEFINE T == {m - x : x \in S}
           R == OpToRel(<, Nat)
<1>1. T \subseteq Nat /\ T # {}
  OBVIOUS
<1>2. \E x \in T : \A y \in T : ~ (<<y, x>> \in R)
  <2>1. IsWellFoundedOn(R, Nat)
    BY NatLessThanWellFounded
  <2> HIDE DEF T, R
  <2> QED BY <1>1, <2>1, WFMin
<1>3. PICK x \in T : \A y \in T : ~ (<<y, x>> \in R)
  BY <1>2
<1>4. \A y \in T : ~ (y < x)
  BY <1>1, <1>3 DEF OpToRel
<1>5. PICK z \in S : x = m - z
  OBVIOUS
<1>6. ASSUME NEW y \in S PROVE z >= y
  <2>1. ~ (m - y < m - z)
    BY <1>4, <1>5
  <2> QED BY <2>1
<1>7. \E s \in S : \A y \in S : s >= y
  BY <1>6
<1> QED BY <1>7 DEF Max

\* A part of a sequence of tokens, from token a + 1 to token e.
LEMMA PartFacts ==
  ASSUME NEW t \in Seq(Tokens), NEW a \in Nat, NEW e \in Nat, a <= e, e <= Len(t)
  PROVE  LET s == SubSeq(t, a + 1, e)
         IN  s \in Seq(Tokens) /\ Len(s) = e - a /\ \A i \in 1..(e - a) : s[i] = t[a + i]
<1>1. Len(t) \in Nat /\ \A i \in (a + 1)..e : t[i] \in Tokens
  BY LenProperties, ElementOfSeq
<1>2. a + 1 \in Int /\ e \in Int
  OBVIOUS
<1>3. /\ SubSeq(t, a + 1, e) \in Seq(Tokens)
      /\ Len(SubSeq(t, a + 1, e)) = IF a + 1 <= e THEN e - (a + 1) + 1 ELSE 0
      /\ \A i \in 1..(e - (a + 1) + 1) : SubSeq(t, a + 1, e)[i] = t[a + 1 + i - 1]
  BY <1>1, <1>2, SubSeqProperties
<1> QED BY <1>3

\* The first n tokens.
LEMMA PrefixFacts ==
  ASSUME NEW t \in Seq(Tokens), NEW n \in Nat, n <= Len(t)
  PROVE  /\ Prefix(t, n) \in Seq(Tokens) /\ Len(Prefix(t, n)) = n
         /\ \A i \in 1..n : Prefix(t, n)[i] = t[i]
<1>1. /\ SubSeq(t, 0 + 1, n) \in Seq(Tokens) /\ Len(SubSeq(t, 0 + 1, n)) = n - 0
      /\ \A i \in 1..(n - 0) : SubSeq(t, 0 + 1, n)[i] = t[0 + i]
  BY PartFacts, 0 \in Nat
<1> QED BY <1>1 DEF Prefix

\* A prefix of a prefix.
LEMMA PrefixOfPrefix ==
  ASSUME NEW t \in Seq(Tokens), NEW e \in Nat, e <= Len(t), NEW n \in Nat, n <= e
  PROVE  Prefix(Prefix(t, e), n) = Prefix(t, n)
<1> DEFINE u == Prefix(t, e)
           a == Prefix(u, n)
           b == Prefix(t, n)
<1>1. u \in Seq(Tokens) /\ Len(u) = e /\ \A i \in 1..e : u[i] = t[i]
  BY PrefixFacts
<1>2. n <= Len(t) /\ n <= Len(u)
  BY <1>1, LenProperties
<1> HIDE DEF u
<1>3. a \in Seq(Tokens) /\ Len(a) = n /\ \A i \in 1..n : a[i] = u[i]
  BY <1>1, <1>2, PrefixFacts
<1>4. b \in Seq(Tokens) /\ Len(b) = n /\ \A i \in 1..n : b[i] = t[i]
  BY <1>2, PrefixFacts
<1> HIDE DEF a, b
<1>5. Len(a) = Len(b) /\ \A i \in 1..Len(a) : a[i] = b[i]
  BY <1>1, <1>3, <1>4
<1>6. a = b
  BY <1>3, <1>4, <1>5, SeqEqual
<1> QED BY <1>6 DEF a, b, u

-----------------------------------------------------------------------------
(* The inductive invariant.  A goroutine in InsertPrefix has part of its     *)
(* tokens to go, and once it is past the first block, and unless a Clear     *)
(* came, the nodes of its first block are in the tree, where they stay.      *)
WriterType == [pc : {"idle", "set", "link"}, tokens : Seq(Tokens), start : Nat, whole : BOOLEAN]

WritersOK ==
  /\ writer \in [Writers -> WriterType]
  /\ \A w \in Writers : writer[w].pc # "idle" =>
       writer[w].start < Len(writer[w].tokens) /\ Len(writer[w].tokens) <= MaxPrefixLen

\* The nodes of the first block of t are among D.
FirstPath(D, t) == \A n \in 1..Min({BlockSize, Len(t)}) : Prefix(t, n) \in D

FirstPaths ==
  /\ \A t \in inserted : t \in Seq(Tokens) /\ Len(t) <= MaxPrefixLen /\ FirstPath(DOMAIN nodes, t)
  /\ \A w \in Writers : writer[w].pc # "idle" /\ writer[w].whole /\ writer[w].start > 0 =>
       FirstPath(DOMAIN nodes, writer[w].tokens)

TreeInv == WritersOK /\ FirstPaths

\* Where the block of an insertion ends.
LEMMA BlockEndFacts ==
  ASSUME WritersOK, NEW w \in Writers, writer[w].pc # "idle"
  PROVE  LET e == BlockEnd(w)
             t == writer[w].tokens
             a == writer[w].start
         IN  /\ t \in Seq(Tokens) /\ a \in Nat /\ e \in Nat /\ Len(t) \in Nat
             /\ a < e /\ e <= Len(t)
             /\ a = 0 => e = Min({BlockSize, Len(t)})
             /\ Len(t) <= MaxPrefixLen
<1> DEFINE e == BlockEnd(w)
           t == writer[w].tokens
           a == writer[w].start
<1>1. t \in Seq(Tokens) /\ a \in Nat /\ a < Len(t) /\ Len(t) <= MaxPrefixLen
  BY DEF WritersOK, WriterType
<1>2. Len(t) \in Nat /\ BlockSize \in Nat \ {0}
  BY <1>1, LenProperties, PrefixTreeAssumption
<1>3. e = Min({a + BlockSize, Len(t)})
  BY DEF BlockEnd
<1>4. e \in {a + BlockSize, Len(t)} /\ e <= Len(t)
  <2>1. a + BlockSize \in Nat
    BY <1>1, <1>2
  <2> QED BY <1>2, <1>3, <2>1, MinOfTwo
<1>5. e \in Nat /\ a < e
  BY <1>1, <1>2, <1>4
<1>6. a = 0 => e = Min({BlockSize, Len(t)})
  BY <1>2, <1>3
<1> QED BY <1>1, <1>2, <1>4, <1>5, <1>6

\* How far the walk of MatchPrefix gets.
LEMMA MatchedFacts ==
  ASSUME NEW t \in Seq(Tokens), Len(t) <= MaxPrefixLen, FirstPath(DOMAIN nodes, t)
  PROVE  MatchedLen(t) >= Min({BlockSize, Len(t)})
<1> DEFINE m == Min({Len(t), MaxPrefixLen})
           b == Min({BlockSize, Len(t)})
           S == {n \in 0..m : \A i \in 1..n : Prefix(t, i) \in DOMAIN nodes}
<1>1. Len(t) \in Nat /\ BlockSize \in Nat \ {0} /\ MaxPrefixLen \in Nat \ {0}
  BY LenProperties, PrefixTreeAssumption
<1>2. m \in {Len(t), MaxPrefixLen} /\ m <= Len(t)
  <2>1. MaxPrefixLen \in Nat
    BY <1>1
  <2> QED BY <1>1, <2>1, MinOfTwo
<1>3. b \in {BlockSize, Len(t)} /\ b <= Len(t)
  <2>1. BlockSize \in Nat
    BY <1>1
  <2> QED BY <1>1, <2>1, MinOfTwo
<1> HIDE DEF m, b
<1>4. m = Len(t) /\ m \in Nat /\ b \in 0..m
  BY <1>1, <1>2, <1>3
<1>5. b \in S
  BY <1>4 DEF FirstPath, b
<1>6. S \in SUBSET (0..m) /\ S # {}
  BY <1>5
<1> HIDE DEF S
<1>7. \A y \in S : Max(S) >= y
  BY <1>4, <1>6, MaxOfBounded
<1>8. MatchedLen(t) = Max(S)
  BY DEF MatchedLen, S, m
<1> QED BY <1>5, <1>7, <1>8 DEF b

\* A walk from the root finds the first block of what was inserted.
LEMMA TreeInvMatches ==
  TreeInv => FirstBlockMatches
BY MatchedFacts DEF TreeInv, FirstPaths, FirstBlockMatches

-----------------------------------------------------------------------------
(* The steps. *)

\* InsertPrefix starts with a prefix of the prompt that is not too long.
LEMMA InsertPrefixStep ==
  ASSUME TreeInv, NEW w \in Writers, NEW tokens \in Prompts, InsertPrefix(w, tokens)
  PROVE  TreeInv'
<1> DEFINE m == Min({Len(tokens), MaxPrefixLen})
           new == [pc |-> "set", tokens |-> Prefix(tokens, m), start |-> 0, whole |-> TRUE]
<1>1. /\ Len(tokens) >= MinPrefixLen /\ writer' = [writer EXCEPT ![w] = new]
      /\ nodes' = nodes /\ inserted' = inserted
  BY DEF InsertPrefix
<1>2. tokens \in Seq(Tokens) /\ Len(tokens) \in Nat
  <2>1. PICK n \in 1..MaxLen : tokens \in [1..n -> Tokens]
    BY DEF Prompts
  <2>2. n \in Nat
    BY PrefixTreeAssumption
  <2> QED BY <2>1, <2>2, SeqDef, LenProperties
<1>3. MinPrefixLen \in Nat \ {0} /\ MaxPrefixLen \in Nat \ {0}
  BY PrefixTreeAssumption
<1>4. m \in {Len(tokens), MaxPrefixLen} /\ m <= Len(tokens) /\ m <= MaxPrefixLen
  <2>1. MaxPrefixLen \in Nat
    BY <1>3
  <2> QED BY <1>2, <2>1, MinOfTwo
<1> HIDE DEF m
<1>5. m \in Nat /\ 0 < m
  BY <1>1, <1>2, <1>3, <1>4
<1>6. Prefix(tokens, m) \in Seq(Tokens) /\ Len(Prefix(tokens, m)) = m
  BY <1>2, <1>4, <1>5, PrefixFacts
<1>7. new \in WriterType /\ new.start = 0 /\ new.tokens = Prefix(tokens, m)
  BY <1>6 DEF WriterType
<1> HIDE DEF new
<1>8. writer'[w] = new /\ \A v \in Writers : v # w => writer'[v] = writer[v]
  BY <1>1 DEF TreeInv, WritersOK
<1>9. WritersOK'
  <2>1. writer' \in [Writers -> WriterType]
    BY <1>1, <1>7 DEF TreeInv, WritersOK
  <2>2. \A v \in Writers : writer'[v].pc # "idle" =>
          writer'[v].start < Len(writer'[v].tokens) /\ Len(writer'[v].tokens) <= MaxPrefixLen
    BY <1>4, <1>5, <1>6, <1>7, <1>8 DEF TreeInv, WritersOK
  <2> QED BY <2>1, <2>2 DEF WritersOK
<1>10. FirstPaths'
  <2>1. \A v \in Writers : writer'[v].start > 0 => writer'[v] = writer[v]
    BY <1>7, <1>8
  <2> QED BY <1>1, <2>1 DEF TreeInv, FirstPaths
<1> QED BY <1>9, <1>10 DEF TreeInv

\* Set stores the block.
LEMMA SetBlockStep ==
  ASSUME TreeInv, NEW w \in Writers, SetBlock(w)
  PROVE  TreeInv'
<1> DEFINE new == [writer[w] EXCEPT !.pc = "link"]
<1>1. /\ writer[w].pc = "set" /\ writer' = [writer EXCEPT ![w] = new]
      /\ nodes' = nodes /\ inserted' = inserted
  BY DEF SetBlock
<1>2. writer \in [Writers -> WriterType] /\ writer[w] \in WriterType
  BY DEF TreeInv, WritersOK
<1>3. /\ new \in WriterType /\ new.tokens = writer[w].tokens /\ new.start = writer[w].start
      /\ new.whole = writer[w].whole
  BY <1>2 DEF WriterType
<1> HIDE DEF new
<1>4. writer'[w] = new /\ \A v \in Writers : v # w => writer'[v] = writer[v]
  BY <1>1, <1>2
<1>5. \A v \in Writers :
        /\ writer'[v].tokens = writer[v].tokens /\ writer'[v].start = writer[v].start
        /\ writer'[v].whole = writer[v].whole
        /\ writer'[v].pc # "idle" => writer[v].pc # "idle"
  BY <1>1, <1>3, <1>4
<1>6. WritersOK'
  BY <1>1, <1>2, <1>3, <1>5 DEF TreeInv, WritersOK
<1>7. FirstPaths'
  BY <1>1, <1>5 DEF TreeInv, FirstPaths
<1> QED BY <1>6, <1>7 DEF TreeInv


\* insertIntoTree makes the nodes on the way to the block and links it there.
LEMMA InsertIntoTreeStep ==
  ASSUME TreeInv, NEW w \in Writers, insertIntoTree(w)
  PROVE  TreeInv'
<1> DEFINE t == writer[w].tokens
           a == writer[w].start
           e == BlockEnd(w)
           path == BlockTokens(w)
           hash == Prefix(t, e)
           new == [writer[w] EXCEPT !.pc = "set", !.start = e]
<1>1. /\ writer[w].pc = "link"
      /\ nodes' = [p \in DOMAIN nodes \cup PathsTo(path) |->
                     IF p = path /\ hash \in blocks THEN hash
                     ELSE IF p \in DOMAIN nodes THEN nodes[p] ELSE NoBlock]
      /\ IF e = Len(t)
         THEN /\ writer' = [writer EXCEPT ![w] = IdleWriter]
              /\ inserted' = IF writer[w].whole THEN inserted \cup {t} ELSE inserted
         ELSE writer' = [writer EXCEPT ![w] = new] /\ inserted' = inserted
  BY DEF insertIntoTree
<1>2. /\ WritersOK /\ FirstPaths /\ writer[w].pc # "idle"
      /\ writer \in [Writers -> WriterType] /\ writer[w] \in WriterType
  BY <1>1 DEF TreeInv, WritersOK
<1>3. /\ t \in Seq(Tokens) /\ a \in Nat /\ e \in Nat /\ Len(t) \in Nat /\ a < e /\ e <= Len(t)
      /\ (a = 0 => e = Min({BlockSize, Len(t)})) /\ Len(t) <= MaxPrefixLen
  BY <1>2, BlockEndFacts
<1>4. path = SubSeq(t, a + 1, e)
  BY DEF BlockTokens
<1>5. /\ new \in WriterType /\ new.tokens = t /\ new.start = e /\ new.whole = writer[w].whole
      /\ IdleWriter \in WriterType /\ IdleWriter.pc = "idle"
  <2>1. <<>> \in Seq(Tokens)
    BY EmptySeq
  <2> QED BY <1>2, <1>3, <2>1 DEF WriterType, IdleWriter
<1> HIDE DEF t, a, e, path, hash, new
<1>6. DOMAIN nodes' = DOMAIN nodes \cup PathsTo(path)
  BY <1>1
<1>8. ASSUME writer[w].whole PROVE FirstPath(DOMAIN nodes', t)
  <2>1. CASE a = 0
    <3>1. path = Prefix(t, e) /\ Len(path) = e
      <4>1. a + 1 = 1
        BY <2>1
      <4>2. path = Prefix(t, e)
        BY <1>4, <4>1 DEF Prefix
      <4> QED BY <1>3, <4>2, PrefixFacts
    <3>2. ASSUME NEW n \in 1..e PROVE Prefix(t, n) \in DOMAIN nodes'
      <4>1. n \in Nat /\ n <= e
        BY <1>3
      <4>2. Prefix(path, n) = Prefix(t, n)
        BY <1>3, <3>1, <4>1, PrefixOfPrefix
      <4>3. Prefix(path, n) \in PathsTo(path)
        BY <3>1 DEF PathsTo
      <4> QED BY <1>6, <4>2, <4>3
    <3> QED BY <1>3, <2>1, <3>2 DEF FirstPath
  <2>2. CASE a # 0
    <3>1. FirstPath(DOMAIN nodes, t)
      BY <1>2, <1>3, <1>8, <2>2 DEF FirstPaths, t, a
    <3> QED BY <1>6, <3>1 DEF FirstPath
  <2> QED BY <2>1, <2>2
<1>9. ASSUME NEW u, FirstPath(DOMAIN nodes, u) PROVE FirstPath(DOMAIN nodes', u)
  BY <1>6, <1>9 DEF FirstPath
<1>10. CASE e = Len(t)
  <2>1. /\ writer'[w] = IdleWriter /\ writer' \in [Writers -> WriterType]
        /\ \A v \in Writers : v # w => writer'[v] = writer[v]
    BY <1>1, <1>2, <1>5, <1>10
  <2>2. WritersOK'
    BY <1>2, <1>5, <2>1 DEF WritersOK
  <2>3. inserted' = IF writer[w].whole THEN inserted \cup {t} ELSE inserted
    BY <1>1, <1>10
  <2>4. \A u \in inserted' :
          u \in Seq(Tokens) /\ Len(u) <= MaxPrefixLen /\ FirstPath(DOMAIN nodes', u)
    BY <1>2, <1>3, <1>8, <1>9, <2>3 DEF FirstPaths
  <2>5. FirstPaths'
    BY <1>2, <1>5, <1>9, <2>1, <2>4 DEF FirstPaths
  <2> QED BY <2>2, <2>5 DEF TreeInv
<1>11. CASE e # Len(t)
  <2>1. /\ writer'[w] = new /\ writer' \in [Writers -> WriterType] /\ inserted' = inserted
        /\ \A v \in Writers : v # w => writer'[v] = writer[v]
    BY <1>1, <1>2, <1>5, <1>11
  <2>2. e < Len(t)
    BY <1>3, <1>11
  <2>3. WritersOK'
    BY <1>2, <1>3, <1>5, <2>1, <2>2 DEF WritersOK
  <2>4. FirstPaths'
    BY <1>2, <1>5, <1>8, <1>9, <2>1 DEF FirstPaths
  <2> QED BY <2>3, <2>4 DEF TreeInv
<1> QED BY <1>10, <1>11

\* Clear empties the tree; insertions that go on do not count as whole.
LEMMA TreeClearStep ==
  ASSUME TreeInv, ClearTree
  PROVE  TreeInv'
<1>1. /\ nodes' = <<>> /\ inserted' = {}
      /\ writer' = [w \in Writers |-> [writer[w] EXCEPT !.whole = FALSE]]
  BY DEF ClearTree
<1>2. ASSUME NEW w \in Writers
      PROVE  /\ writer'[w] \in WriterType /\ writer'[w].pc = writer[w].pc
             /\ writer'[w].tokens = writer[w].tokens /\ writer'[w].start = writer[w].start
             /\ writer'[w].whole = FALSE
  <2>1. writer[w] \in WriterType
    BY DEF TreeInv, WritersOK
  <2> QED BY <1>1, <2>1 DEF WriterType
<1>3. WritersOK'
  BY <1>1, <1>2 DEF TreeInv, WritersOK
<1>4. FirstPaths'
  BY <1>1, <1>2 DEF FirstPaths
<1> QED BY <1>3, <1>4 DEF TreeInv

\* The tree starts empty.
LEMMA InitTreeInv ==
  TreeInit => TreeInv
<1> SUFFICES ASSUME TreeInit PROVE TreeInv
  OBVIOUS
<1>1. nodes = <<>> /\ inserted = {} /\ writer = [w \in Writers |-> IdleWriter] /\ DOMAIN nodes = {}
  BY DEF TreeInit
<1>2. IdleWriter \in WriterType /\ IdleWriter.pc = "idle"
  <2>1. <<>> \in Seq(Tokens)
    BY EmptySeq
  <2> QED BY <2>1 DEF WriterType, IdleWriter
<1> QED BY <1>1, <1>2 DEF TreeInv, WritersOK, FirstPaths

\* Every step keeps the invariant of the tree.
LEMMA NextTreeInv ==
  TreeInv /\ [TreeNext]_treeVars => TreeInv'
<1> SUFFICES ASSUME TreeInv, [TreeNext]_treeVars PROVE TreeInv'
  OBVIOUS
<1>1. ASSUME NEW w \in Writers, NEW tokens \in Prompts, InsertPrefix(w, tokens) PROVE TreeInv'
  BY <1>1, InsertPrefixStep
<1>2. ASSUME NEW w \in Writers, SetBlock(w) PROVE TreeInv'
  BY <1>2, SetBlockStep
<1>3. ASSUME NEW w \in Writers, insertIntoTree(w) PROVE TreeInv'
  BY <1>3, InsertIntoTreeStep
<1>4. ASSUME NEW b, removeFromTree(b) PROVE TreeInv'
  <2>1. nodes' = nodes /\ writer' = writer /\ inserted' = inserted
    BY <1>4 DEF removeFromTree
  <2> QED BY <2>1 DEF TreeInv, WritersOK, FirstPaths
<1>5. CASE ClearTree
  BY <1>5, TreeClearStep
<1>6. CASE UNCHANGED treeVars
  <2>1. nodes' = nodes /\ writer' = writer /\ inserted' = inserted
    BY <1>6 DEF treeVars
  <2> QED BY <2>1 DEF TreeInv, WritersOK, FirstPaths
<1> QED BY <1>1, <1>2, <1>3, <1>4, <1>5, <1>6 DEF TreeNext

\* A prompt that InsertPrefix has inserted, and that no Clear has taken away,
\* matches at least its first block in MatchPrefix, for every block size and
\* whatever insertions and evictions came in between.
THEOREM FirstBlockMatchesTheorem == TreeSpec => []FirstBlockMatches
BY InitTreeInv, NextTreeInv, TreeInvMatches, PTL DEF TreeSpec
=============================================================================
