----------------------------- MODULE PrefixCache -----------------------------
(***************************************************************************)
(* internal/cache/prefix.go: the GPU prefix tier with its swap space, used *)
(* by many goroutines (the prefix tree is not part of this module).        *)
(*                                                                         *)
(* mu protects the maps and counters.  A Get looks its block up under the  *)
(* read lock, lets go, and comes back for the write lock with the pointer  *)
(* it found, so blocks are objects of `heap', a sequence that only grows,  *)
(* and the maps hold positions of it.  RefCount is changed outside mu.     *)
(*                                                                         *)
(* AccessedAt only orders the candidates of evictLRU, which the model lets *)
(* come in any order.  Keys are long enough for the log lines that print   *)
(* hash[:16].                                                              *)
(***************************************************************************)
EXTENDS Integers, Sequences, FiniteSets

CONSTANTS Threads,     \* goroutines calling Get
          Keys,
          Sizes,       \* sizes of the values stored
          MaxSize,     \* maxSize.Value()
          EnableSwap,
          SwapSize,
          MaxBlocks,   \* bound: blocks ever created
          MaxCounter   \* bound: how far below 0 the counters may go

ASSUME PrefixCacheAssumption ==
  /\ Sizes \subseteq Nat
  /\ MaxSize \in Nat
  /\ EnableSwap \in BOOLEAN
  /\ SwapSize \in Nat
  /\ MaxBlocks \in Nat
  /\ MaxCounter \in Nat

VARIABLES heap,    \* every PrefixCacheBlock created
          store,   \* the maps and the counters
          mu,      \* who keeps the write lock across steps
          todo,    \* the blocks the sweep in progress has yet to look at
          thread   \* the Get each goroutine is in

vars == <<heap, store, mu, todo, thread>>

Target == (MaxSize * 80) \div 100

Block == [key : Keys, size : Sizes, InGPU : BOOLEAN, InSwap : BOOLEAN, expired : BOOLEAN]

Drop(m, k) == [j \in DOMAIN m \ {k} |-> m[j]]
Put(m, k, b) == [j \in DOMAIN m \cup {k} |-> IF j = k THEN b ELSE m[j]]

Idle == [pc |-> "idle", block |-> 0]

Init ==
  /\ heap = <<>>
  /\ store = [gpuBlocks |-> <<>>, swapBlocks |-> <<>>, treeBlocks |-> <<>>,
              usedSize |-> 0, swapUsed |-> 0, entries |-> 0]
  /\ mu = "free"
  /\ todo = {}
  /\ thread = [t \in Threads |-> Idle]

\* The Gets that have a reference to block b (RefCount.Add, and the deferred
\* RefCount.Add(-1)).
RefCount(b) == Cardinality({t \in Threads : thread[t].pc \in {"hit", "return"} /\ thread[t].block = b})

-----------------------------------------------------------------------------
\* Mutants of removeBlock: tree.blocks keeps the block; only blocks of the GPU
\* are counted.
removeBlockFromMaps(c, b) ==
  [c EXCEPT !.gpuBlocks = Drop(@, heap[b].key), !.swapBlocks = Drop(@, heap[b].key),
            !.usedSize = @ - heap[b].size, !.entries = @ - 1]
removeBlockCountingGPU(c, b) ==
  [c EXCEPT !.gpuBlocks = Drop(@, heap[b].key), !.swapBlocks = Drop(@, heap[b].key),
            !.treeBlocks = Drop(@, heap[b].key),
            !.entries = IF heap[b].InGPU THEN @ - 1 ELSE @]

\* removeBlock(hash, block) on the maps and counters c: what the block's flags
\* say is undone, whether or not the maps still hold this block.  The flags
\* themselves stay.
removeBlock(c, b) ==
  LET k == heap[b].key
      n == heap[b].size
  IN  [gpuBlocks  |-> IF heap[b].InGPU THEN Drop(c.gpuBlocks, k) ELSE c.gpuBlocks,
       usedSize   |-> IF heap[b].InGPU THEN c.usedSize - n ELSE c.usedSize,
       swapBlocks |-> IF heap[b].InSwap THEN Drop(c.swapBlocks, k) ELSE c.swapBlocks,
       swapUsed   |-> IF heap[b].InSwap THEN c.swapUsed - n ELSE c.swapUsed,
       treeBlocks |-> Drop(c.treeBlocks, k),
       entries    |-> c.entries - 1]

\* The block's two flags are set.
SetFlags(b, gpu, swap) == heap' = [heap EXCEPT ![b].InGPU = gpu, ![b].InSwap = swap]

\* Mutant of moveToSwap: the GPU's map keeps the block.
moveToSwapCopying(b) ==
  /\ SetFlags(b, FALSE, TRUE)
  /\ store' = [store EXCEPT !.swapBlocks = Put(@, heap[b].key, b),
                            !.usedSize = @ - heap[b].size, !.swapUsed = @ + heap[b].size]

moveToSwap(b) ==
  /\ SetFlags(b, FALSE, TRUE)
  /\ store' = [gpuBlocks  |-> Drop(store.gpuBlocks, heap[b].key),
               swapBlocks |-> Put(store.swapBlocks, heap[b].key, b),
               usedSize   |-> store.usedSize - heap[b].size,
               swapUsed   |-> store.swapUsed + heap[b].size,
               treeBlocks |-> store.treeBlocks,
               entries    |-> store.entries]

\* moveToGPU calls evictLRU when space is short, and evictLRU locks mu.
moveToGPUBlocks(b) == store.usedSize + heap[b].size > MaxSize

moveToGPU(b) ==
  /\ SetFlags(b, TRUE, FALSE)
  /\ store' = [swapBlocks |-> Drop(store.swapBlocks, heap[b].key),
               gpuBlocks  |-> Put(store.gpuBlocks, heap[b].key, b),
               swapUsed   |-> store.swapUsed - heap[b].size,
               usedSize   |-> store.usedSize + heap[b].size,
               treeBlocks |-> store.treeBlocks,
               entries    |-> store.entries]

\* The block a key is looked up to, in the GPU's map first.
Lookup(k) ==
  IF k \in DOMAIN store.gpuBlocks THEN {store.gpuBlocks[k]}
  ELSE IF k \in DOMAIN store.swapBlocks THEN {store.swapBlocks[k]} ELSE {}

-----------------------------------------------------------------------------
\* Get, under the read lock ...
GetLookup(t, k) ==
  /\ thread[t].pc = "idle"
  /\ mu = "free"
  /\ \E b \in Lookup(k) : thread' = [thread EXCEPT ![t] = [pc |-> "found", block |-> b]]
  /\ UNCHANGED <<heap, store, mu, todo>>

\* ... and after it, while others may have the lock: a block that is not
\* expired is referenced from now on.
GetRef(t) ==
  /\ thread[t].pc = "found"
  /\ thread' = [thread EXCEPT ![t].pc = IF heap[thread[t].block].expired THEN "purge" ELSE "hit"]
  /\ UNCHANGED <<heap, store, mu, todo>>

\* Get comes back to remove the expired block.
GetPurge(t) ==
  /\ thread[t].pc = "purge"
  /\ mu = "free"
  /\ store' = removeBlock(store, thread[t].block)
  /\ - MaxCounter <= store'.entries
  /\ thread' = [thread EXCEPT ![t] = Idle]
  /\ UNCHANGED <<heap, mu, todo>>

\* Get comes back to touch the block, and to move it to the GPU if its flag
\* says that it is in swap.
GetTouch(t) ==
  /\ thread[t].pc = "hit"
  /\ mu = "free"
  /\ LET b == thread[t].block
     IN  \/ /\ ~ heap[b].InSwap
            /\ UNCHANGED <<heap, store>>
         \/ /\ heap[b].InSwap
            /\ ~ moveToGPUBlocks(b)
            /\ moveToGPU(b)
            /\ - MaxCounter <= store'.swapUsed
  /\ thread' = [thread EXCEPT ![t].pc = "return"]
  /\ UNCHANGED <<mu, todo>>

\* The same, when moveToGPU waits for the lock its own goroutine holds.
GetTouchBlocks(t) ==
  /\ thread[t].pc = "hit"
  /\ mu = "free"
  /\ heap[thread[t].block].InSwap
  /\ moveToGPUBlocks(thread[t].block)
  /\ mu' = "stuck"
  /\ UNCHANGED <<heap, store, todo, thread>>

GetReturn(t) ==
  /\ thread[t].pc = "return"
  /\ thread' = [thread EXCEPT ![t] = Idle]
  /\ UNCHANGED <<heap, store, mu, todo>>

-----------------------------------------------------------------------------
\* Set is one critical section.  The evictLRU it may start in a goroutine is
\* EvictLRU, which is always possible.
Set(k, n) ==
  LET c == IF Lookup(k) = {} THEN store ELSE removeBlock(store, CHOOSE b \in Lookup(k) : TRUE)
      b == Len(heap) + 1
  IN  /\ mu = "free"
      /\ Len(heap) < MaxBlocks
      /\ heap' = Append(heap, [key |-> k, size |-> n, InGPU |-> TRUE, InSwap |-> FALSE,
                               expired |-> FALSE])
      /\ store' = [gpuBlocks  |-> Put(c.gpuBlocks, k, b),
                   treeBlocks |-> Put(c.treeBlocks, k, b),
                   usedSize   |-> c.usedSize + n,
                   entries    |-> c.entries + 1,
                   swapBlocks |-> c.swapBlocks,
                   swapUsed   |-> c.swapUsed]
      /\ UNCHANGED <<mu, todo, thread>>

Delete(k) ==
  /\ mu = "free"
  /\ \E b \in Lookup(k) : store' = removeBlock(store, b)
  /\ - MaxCounter <= store'.entries
  /\ UNCHANGED <<heap, mu, todo, thread>>

Clear ==
  /\ mu = "free"
  /\ store' = [gpuBlocks |-> <<>>, swapBlocks |-> <<>>, treeBlocks |-> <<>>,
               usedSize |-> 0, swapUsed |-> 0, entries |-> 0]
  /\ UNCHANGED <<heap, mu, todo, thread>>

\* Time passes.  (evictExpired reads the clock once, before its loop.)
Expire(b) ==
  /\ mu # "expire"
  /\ ~ heap[b].expired
  /\ heap' = [heap EXCEPT ![b].expired = TRUE]
  /\ UNCHANGED <<store, mu, todo, thread>>

-----------------------------------------------------------------------------
GPUObjects == {store.gpuBlocks[k] : k \in DOMAIN store.gpuBlocks}

\* evictExpired takes the lock and looks at the blocks in the GPU, one by one.
EvictExpired ==
  /\ mu = "free"
  /\ mu' = "expire"
  /\ todo' = GPUObjects
  /\ UNCHANGED <<heap, store, thread>>

EvictExpiredOne(b) ==
  /\ mu = "expire"
  /\ b \in todo
  /\ todo' = todo \ {b}
  /\ store' = IF heap[b].expired /\ RefCount(b) = 0 THEN removeBlock(store, b) ELSE store
  /\ UNCHANGED <<heap, mu, thread>>

EvictExpiredDone ==
  /\ mu = "expire"
  /\ todo = {}
  /\ mu' = "free"
  /\ UNCHANGED <<heap, store, todo, thread>>

\* evictLRU takes the lock and, over the target, collects the blocks in the GPU
\* that nobody references ...
EvictLRU ==
  /\ mu = "free"
  /\ store.usedSize > Target
  /\ mu' = "evict"
  /\ todo' = {b \in GPUObjects : RefCount(b) = 0}
  /\ UNCHANGED <<heap, store, thread>>

\* ... and swaps or removes them, until it is under the target.
EvictLRUOne(b) ==
  /\ mu = "evict"
  /\ b \in todo
  /\ store.usedSize > Target
  /\ todo' = todo \ {b}
  /\ IF EnableSwap /\ store.swapUsed < SwapSize
     THEN moveToSwap(b)
     ELSE store' = removeBlock(store, b) /\ UNCHANGED heap
  /\ UNCHANGED <<mu, thread>>

EvictLRUDone ==
  /\ mu = "evict"
  /\ todo = {} \/ store.usedSize <= Target
  /\ mu' = "free"
  /\ todo' = {}
  /\ UNCHANGED <<heap, store, thread>>

-----------------------------------------------------------------------------
Sweep ==
  \/ EvictExpired \/ EvictExpiredDone \/ EvictLRU \/ EvictLRUDone
  \/ \E b \in DOMAIN heap : EvictExpiredOne(b) \/ EvictLRUOne(b)

Get(t) ==
  \/ \E k \in Keys : GetLookup(t, k)
  \/ GetRef(t) \/ GetPurge(t) \/ GetTouch(t) \/ GetTouchBlocks(t) \/ GetReturn(t)

Next ==
  \/ \E t \in Threads : Get(t)
  \/ \E k \in Keys : Delete(k) \/ \E n \in Sizes : Set(k, n)
  \/ Clear
  \/ \E b \in DOMAIN heap : Expire(b)
  \/ Sweep

Spec == Init /\ [][Next]_vars

\* Goroutines that can run do run, a sweep that has the lock goes on, and the
\* mutex is handed to a waiter that has starved (Go's starvation mode).
FairSpec ==
  /\ Spec
  /\ WF_vars(EvictExpiredDone \/ EvictLRUDone
             \/ \E b \in DOMAIN heap : EvictExpiredOne(b) \/ EvictLRUOne(b))
  /\ \A t \in Threads : /\ SF_vars(GetPurge(t) \/ GetTouch(t) \/ GetTouchBlocks(t))
                        /\ WF_vars(GetRef(t) \/ GetReturn(t))

-----------------------------------------------------------------------------
IsBlockMap(m) == DOMAIN m \subseteq Keys /\ m \in [DOMAIN m -> DOMAIN heap]

TypeOK ==
  /\ heap \in Seq(Block)
  /\ Len(heap) <= MaxBlocks
  /\ IsBlockMap(store.gpuBlocks) /\ IsBlockMap(store.swapBlocks) /\ IsBlockMap(store.treeBlocks)
  /\ store.usedSize \in Int /\ store.swapUsed \in Int /\ store.entries \in Int
  /\ mu \in {"free", "expire", "evict", "stuck"}
  /\ todo \subseteq DOMAIN heap
  /\ thread \in [Threads -> [pc : {"idle", "found", "purge", "hit", "return"}, block : 0..Len(heap)]]

\* Wherever a block is, its flags say so, and no key is both in the GPU and in
\* swap: removeBlock and Get trust the flags of a block they may have looked up
\* long ago (prefix.go, removeBlock, moveToSwap and moveToGPU).
ResidencyAgrees ==
  /\ \A k \in DOMAIN store.gpuBlocks :
       LET b == heap[store.gpuBlocks[k]]
       IN  b.key = k /\ b.InGPU /\ ~ b.InSwap /\ k \notin DOMAIN store.swapBlocks
  /\ \A k \in DOMAIN store.swapBlocks :
       LET b == heap[store.swapBlocks[k]]
       IN  b.key = k /\ b.InSwap /\ ~ b.InGPU

\* The entries counter never claims more entries than the two maps have,
\* although Gets remove blocks that are gone already (prefix.go, removeBlock).
EntriesNotOverstated ==
  store.entries <= Cardinality(DOMAIN store.gpuBlocks \cup DOMAIN store.swapBlocks)

\* The hashes that tree.blocks knows are hashes of blocks in the GPU or in swap,
\* whatever stale blocks Gets remove or move: no hash that insertIntoTree finds
\* there has left the cache (prefix.go, Set, removeBlock and Clear).  This is
\* about hashes: after a stale moveToGPU the cache may have an older block of the
\* hash than tree.blocks, and the blocks that nodes of the tree were linked to
\* earlier are not covered.
TreeIndexResident ==
  DOMAIN store.treeBlocks \subseteq DOMAIN store.gpuBlocks \cup DOMAIN store.swapBlocks

\* A Get that has found a block comes back with it (prefix.go: "Get retrieves
\* prefix blocks for a token sequence", "Move from swap to GPU if needed").
\* Not so: see GetTouchBlocks.
GetCompletes == \A t \in Threads : thread[t].pc # "idle" ~> thread[t].pc = "idle"
=============================================================================
