# Verification of inference-operator

TLA+ models of the parts of the operator that keep state, checked with TLC on
small instances and, where marked, proved with TLAPS for every instance.
`PROJECT.json` lists the runs, the properties, the mutants that show that the
properties can fail, and for every definition the source lines it stands for.

## 1. The system

The operator is one process with three reconcilers (controller-runtime, one
worker each), a GPU manager and a cache manager, which live in its memory.

| Component | State | Operations | Interacts with |
|---|---|---|---|
| GPUPool reconciler | none of its own; the GPUPool objects | Reconcile, handleDeletion | API server, GPU manager |
| InferenceService reconciler | none of its own; InferenceService, Deployment, Service objects | Reconcile, handleDeletion | API server, GPU manager, cache manager, backends |
| TokenCache reconciler | none of its own; TokenCache, StatefulSet, Service, PVC objects | Reconcile, handleDeletion | API server, cache manager |
| GPU manager | pools, GPUs, under one mutex | RegisterPool, UnregisterPool, Allocate, Release, GetPoolStatus | the three managers below |
| MIG manager | pools and a global index of instances | ConfigurePool, CleanupPool, Allocate, Release, DestroyInstance | called with the GPU manager's lock held |
| MPS manager | pools and a global index of daemons with their clients | ConfigurePool, CleanupPool, Allocate, Release, RestartDaemon | as above |
| Time-slice manager | pools, slots, a scheduler goroutine | ConfigurePool, Allocate, Release, SetSlotPriority, PauseSlot, ResumeSlot | as above |
| Cache manager | caches, each with an ordered list of tiers | ConfigureCache, CleanupCache, Get, Set, Delete, Invalidate | the tiers |
| Local tier | index, files, counters, two loops | Get, Set, Delete, Clear, evict, cleanupExpired | file system |
| Prefix tier | GPU and swap maps, counters, an eviction loop | Get, Set, Delete, Clear, evictExpired, evictLRU | - |
| Prefix tree | nodes and an index of blocks | InsertPrefix, MatchPrefix | the prefix tier's Set and removeBlock |
| Redis tier | counters, health flag, a health loop | Get, Set, Delete, Clear, GetMulti, SetMulti | Redis |
| Backends | none | Validate and the construction of pod specifications | - |

What is hard about it, and what makes each part correct:

- *Reconcilers.* Each Reconcile is a sequence of calls, and users, the other
  reconciler, refused writes and a crash of the process come in between.
  Correct means: GPUs are released before a service goes, nothing is left
  behind, deletions complete, and what was lost in a crash is rebuilt.
- *MIG and MPS managers.* Operations are atomic, and the difficulty is the two
  maps that hold pointers to the same objects, under sequences of calls in
  which pools are configured again and again. Correct means: nothing is
  granted twice, and Release finds everything that was granted.
- *Local tier.* Files are accessed without the lock, Get locks twice, and
  evictions are requested through a channel with one slot. Correct means: no
  request is lost, counters and index agree, Get returns what was stored.
- *Prefix tier.* Get locks twice with a block in its hands that may be removed,
  replaced or swapped in between. Correct means: flags and maps agree, no index
  knows what has left, every call returns.
- *Prefix tree.* Two critical sections per block. Correct means: a match is a
  prefix of the prompt, as long as possible, and of blocks in the cache.
- *Time-slice manager.* Shares are recomputed on every change, and the scheduler
  walks over slots that are sorted anew under it. Correct means: slots tile the
  interval, everyone gets a turn, records agree with slots.
- *Cache manager, Redis tier.* A call goes through the tiers without a lock, any
  tier may fail, hits are promoted by goroutines of their own, and every reconcile
  puts new tiers in the place of the old ones while calls still use these. Correct
  means: what was deleted or overwritten does not come back.
- *TokenCache reconciler.* As the other reconcilers; besides, the cache manager
  keeps its table by bare names, which namespaces share. Correct means: nothing
  outlives its TokenCache, and a wanted cache is configured and reported as it is.

The hazards, at their lines, are in `PROJECT.json`.

## 2. Modules

| Module | Models | Uses |
|---|---|---|
| `MIGManager` | `internal/gpu/mig.go` | - |
| `GPUManager` | `internal/gpu/manager.go` | instance of `MIGManager` |
| `Operator` | `internal/controller/gpupool_controller.go`, `inferenceservice_controller.go`, the API server, users, crashes | extends `GPUManager` |
| `MPSManager` | `internal/gpu/mps.go` | - |
| `TimesliceManager` | `internal/gpu/timeslice.go` | - |
| `LocalCache` | `internal/cache/local.go` | - |
| `PrefixCache` | `internal/cache/prefix.go`, the tier | - |
| `PrefixTree` | `internal/cache/prefix.go`, the tree | - |
| `RedisCache` | `internal/cache/redis.go`, and the server as the code uses it | - |
| `CacheManager` | `internal/cache/manager.go`: the calls on one cache | extends `RedisCache` |
| `TokenCache` | `internal/controller/tokencache_controller.go`, the table of the cache manager, the health of the Redis and local tiers, the API server, users, crashes | - |
| `Allocator` | what an allocator of exclusive resources promises (abstract) | - |
| `MIGAllocation` | the MIG manager as an `Allocator` | extends `MIGManager`, instance of `Allocator` |
| `MC...` | instances for TLC | the module of that name |
| `...Proofs` | theorems | the module of that name, TLAPS; `PrefixCacheProofs` extends `PrefixTree` too |

**MIGManager.** `heap` has every `MIGInstanceInfo` ever created, `pools` and
`instances` are the two Go maps and hold positions of `heap`, so that an object
that one of the maps has lost can still be spoken of. `held` is a history
variable: what Allocate returned to a service and it has not asked to release.
Every exported method holds the mutex throughout and is one action, with an
action of its own for each way to fail. Go's map order is a choice.

**GPUManager.** The manager over the MIG manager. Discovery is a stub in the
code, so no pool ever has a GPU; that is modelled as it is, with the
consequence that only MIG requests succeed, that `AllocatedGPUs` is always 0 and
that `Release` does nothing.

**Operator.** `poolWorker` and `svcWorker` are the two workers with the step
their Reconcile is at and the copy of the object they read (`fresh`: the copy is
still the stored one; otherwise a write is refused). `PoolFetch` and `SvcFetch`
read an object and decide which path Reconcile takes; each later action is one
call of the API server or the GPU manager, with its failure. Deployments have
one of five states, by how many of its replicas are available (none reported, none,
some, all), from which updateStatus makes the phases Pending, Initializing, Scaling
and Running; Error is the condition of that name. `owed` is a history
variable: services with an Allocate since the last Release. Reads from the
informer cache are taken to be current, and the deletion of owned objects to be
immediate.

**MPSManager.** As MIGManager; Allocate is one step per client, because each may
go to any daemon with room, and `call` keeps other operations out meanwhile.
`granted` is a history variable: what a service was granted since it last asked
to release, or since one of its own requests was rolled back. `forgotten` is
another: the daemons a pool had when it was configured again; they keep running,
and no method of the manager reaches all of them any more, so the properties
`GPUCapacity`, `IndexMatches` and `ReleaseComplete` are stated for the other daemons. Through the GPU manager this code is never reached
with a GPU (see above), so the module checks the manager by itself, with `GPUsOf`
as the pools' GPUs.

**TimesliceManager.** As MPSManager, with no index besides the pools' maps; the
records of `m.allocations` are counted per service and GPU. `rebalanceSlots` is an
operator on the sequence of slots and the positions of those that stay: they are
sorted by priority (stable, as Go's insertion sort of so few elements; a slot's
place is the number of slots that do not come after it), get shares by weight with a
minimum, and are placed at the sums of the shares before them, the last one extended.
Priorities are any int32, as SetSlotPriority stores them; `Priority + 1` and the
total weight wrap around in 32 bits (`Int32`), offsets and durations in 64 (`Int64`).
A share by a total of 0 is infinite or not a number; Go leaves it to the processor
what an infinite float64 becomes as an int64, so that is the constant `Beyond`: the
least int64 on amd64 (then the 10 ms minimum applies), the greatest on arm64, and the
Makefile builds for both. Time is abstracted to the choice of the GPUs whose
turn is over. `dropped` is a history variable: services that lost slots to a
reconfiguration. What Pause and Resume set is read by a getter only.

**LocalCache.** A step is a critical section of `mu`, or an access to a file, to
`usedSize` or to `evictCh` outside it. `evict` and `cleanupExpired` hold the lock
over one step per entry, because Sets look at the counters without it. A file
holds a value or a torn write; `os.WriteFile` is atomic unless it fails. The
entry evict takes is any, which covers least-recently-used. Nothing calls `Stop`
or `SaveIndex`, so the cache always starts empty.

**PrefixCache.** A Get is five steps: the lookup under the read lock, the
reference outside of it, the purge or the touch under the write lock, the
return. Blocks live in `heap`, so a Get can come back with one that has left the
maps. A goroutine that waits for its own lock is `mu = "stuck"`. Keys have at
least the 16 bytes the log lines print.

**PrefixTree.** Nodes are named by their paths, blocks by the tokens they hash.
`inserted` is a history variable. A data race on `tree.blocks` (read under
`tree.mu`, written under `c.mu`) would end the process and is not modelled.

**RedisCache.** The server's hash of each key, reduced to the field `value`, and
the updates of `accessed_at` that Gets have started and that are still to arrive. A
call is an operator with its result as an argument: a call that fails may have
been carried out or not. A tier that is marked unhealthy answers every call with
an error, which is the second of the two; the marking itself is in `TokenCache`.

**CacheManager.** One cache. `mem` has, for every configuration ever made, the
contents of its prefix and local tiers, which may lose an entry at any time; the
last tier is Redis and belongs to all configurations. `call` is what each goroutine
does: the configuration it found, the tiers it has still to visit, the value it
carries. Every call of a tier is a step. A Set in a local tier may show in the
same tier of another configuration, because both use one directory. `may` is a
history variable, the values a key may still have: a Set adds its value when it
begins, and a call that settles a key (a Set under write-through, a Delete, an
Invalidate, a CleanupCache) replaces what may be there when it ends, provided that
no other call was about the key meanwhile and that no tier failed (`clean`).

**TokenCache.** As `Operator`, with one worker. `caches` is the table of the cache
manager by bare names, with the TokenCache each entry was configured for and the
flag that its last ping set; `up` says whether Redis answers. A local tier is healthy
while its directory exists (`dirs`); the directory is made by every ConfigureCache and
Clear if the file system can be written (`writable`), and a failure is only logged.
`config/manager/manager.yaml` gives the manager a read-only root file system and no
manifest mounts `/cache`, so `writable` may be false from the start. GetStatus reads
the health of a tier twice; the phase is Ready if one of the two says healthy, which is what
one atomic read at that moment gives. Specs are reduced to what is decided on:
whether validateSpec accepts them, whether createTier knows the tier types, which
kind of Redis tier, which kind of local tier (on disk it needs a claim).

**Allocator** and **MIGAllocation.** The abstract specification has one variable:
what each service was granted. Free resources are granted, and only the service's own
release takes them back. The refinement maps `granted` to `held`, with
instance objects as the resources. It holds for objects and not for the IDs that
the code shows to the outside, which are given out twice (section 4).

## 3. Runs that pass

| Run | Shows | Bounds |
|---|---|---|
| `MIG_pools` | `HeldIsMarked`, `IndexedMarksAreHeld`, and the refinement `ImplementsAllocator` | 2 pools that share IDs, 2 services, 2 profiles, requests for 1 and 2, 3 instances ever |
| `Operator_all` | types, `ReleasedBeforeGone`, `NoOrphans`, `ServiceDeletionCompletes`, `PoolDeletionCompletes`, `PoolGetsConfigured` | 1 pool, 1 service, 4 pool specs, 3 service specs, 1 instance, 1 fault |
| `LocalCache_all` | `NoLostEviction`, `EntriesNotOverstated`, `EvictionCompletes` | 2 goroutines, 2 keys, values of size 2 in a cache of 4, counters between -4 and 4 |
| `Prefix_swap` | `ResidencyAgrees`, `EntriesNotOverstated`, `TreeIndexResident` | 2 Gets, 2 keys, 2 sizes, 3 blocks ever |
| `Tree_blocks` | `FirstBlockMatches` | 2 writers, 2 tokens, prompts of 2 blocks |
| `MPS_pools` | types, `GrantedIsConnected`, `GPUCapacity`, `IndexMatches`, `ReleaseComplete` | 2 pools without a common GPU, 3 GPUs, 2 services, requests for 1 and 2, 2 clients per daemon, 3 daemons ever |
| `Timeslice_pool` | types, `SlotsTile`, `EqualSharesFit`, `AllocationsMatch`, `SlotsKept`, `TurnsCome` | 1 pool, 2 GPUs, 2 services, 2 slots per GPU, requests for 1 and 2, 3 records per service, 3 priorities, int32 between -4 and 3, int64 between -32 and 31 |
| `Cache_tiers` | types, `CopiesAllowed` | 2 callers, 1 promotion or warmup at a time, 1 key, 2 values, 2 tiers, 3 policies, 2 configurations, 1 late update of `accessed_at` |
| `TokenCache_all` | `ConfiguredIsStored`, `NoOrphans`, `CacheDeletionCompletes`, `CacheGetsConfigured`, `StatusFollowsTiers`, `OwnedGetCreated` | 2 TokenCaches of one name, 4 specs, 1 fault |

The type invariants of LocalCache, PrefixCache and TokenCache are proved (section 5)
and no run repeats them; those of Operator, CacheManager, MPSManager and
TimesliceManager are proved and checked; that of MIGManager is proved, and checked as
part of the one of Operator.

The bounds admit the interesting cases: an instance that is reused and one that
is created in the same request, a pool that is configured again while in use, a
write refused because of a user's edit and one that fails by itself, a crash
between any two steps, an ID that two pools use, two Gets with the same stale entry, a Set in the middle
of an eviction, a block that is swapped, brought back and removed, a request
that is rolled back after its first client or slot, a promotion that outlives a
Delete, a call that uses a configuration that has been replaced, two TokenCaches
that take the same entry of the table from each other. Calls on different keys meet
only in Invalidate and CleanupCache, which treat every key alike, so one key is
enough for `Cache_tiers`. One fault (a failing call, an
edit or a crash; creations and deletions are not counted) reaches every recovery
path, because each path starts from the fetch and carries nothing over from an
earlier one but the stored objects. In `Timeslice_pool` the interval given is the
default one, or 0 for it: a configuration's interval has nothing to do with that
of an earlier one; it has room for two minimal slots. The priorities give the weights
-1, 1 and, by overflow, the least int32, so two of them cancel out, two wrap to a total
of 0, and a share can be infinite (`Beyond` as on arm64) or negative; the proofs are for
both values of `Beyond`. `MaxCounter` stops counters that drift
without limit (section 4) and `MaxObjects`, `MaxBlocks` and `MaxDaemons` stop the
creation of objects. The proofs of section 5 have no such limits on goroutines,
keys and services.

Symmetry is used in `Prefix_swap` (goroutines and keys), `Tree_blocks`
(writers and tokens) and `Cache_tiers` (callers), which check no liveness and whose
properties do not tell them apart. `Prefix_swap` does not check deadlock, because the
code has one (section 4, `Prefix_stuck`).

### Fairness

- *Operator*: the workers keep working (weak fairness), and an object in a work
  queue is picked sooner or later (strong fairness of the fetch): controller-
  runtime's queue is first in, first out, and every path of Reconcile ends with
  a requeue or an error, which requeues. Users and the cluster owe nothing.
- *TokenCache*: the same as Operator, with the requeue after 30 s. Neither Redis, the
  file system nor the health loop owes anything: every pass makes new tiers, which ping
  and make their directory.
- *LocalCache*: goroutines that can run do (weak), and `evict` gets the mutex
  although others keep taking it (strong): Go's mutex hands itself to a waiter
  that has waited for a millisecond.
- *PrefixCache*: the same for the Gets that wait for the write lock.
- *TimesliceManager*: each turn is over sooner or later (weak): the scheduler looks
  every 10 ms. Calls owe nothing; `TurnsCome` speaks of the time when no call is under
  way any more and only the scheduler acts.

## 4. Where the code disagrees with what is said of it

Each of these runs checks one property and TLC finds it violated; the quotation
and the explanation are under `findings` in `PROJECT.json`.

| Run | What happens |
|---|---|
| `Operator_isolation` | two services report the same MIG instance: the periodic reconcile of a pool makes the numbering start again |
| `LocalCache_get` | Get returns bytes of a file that belongs to a Set in progress or failed |
| `Prefix_stuck` | a Get of a swapped block waits for its own lock when the GPU has no room for it, because `moveToGPU` calls `evictLRU` with the lock held; nobody gets the lock after that. Swap is on by default. One Get, two keys and two blocks are enough, under the fairness of section 3 |

Further behaviour the models have, and that none of the runs above is about.
These limit what the passing runs may claim:

- MIG: after requests of different sizes two instances of one pool may get the
  same ID, since `len(config.Instances)+i` skips numbers; with the same ID in two
  pools the index has one of the two instances only, and Release, which looks at the
  index, leaves the other one marked. `MIG_pools` has both cases, and its properties
  are those that hold in spite of them: nothing is claimed of the index being complete
  or of Release reaching everything.
- GPU manager: a deleted service keeps its MIG instance, because Release reaches no
  sub-manager.
- Operator: a pool in use is deleted, because `AllocatedGPUs` does not count MIG;
  the Error condition outlives the error.
- Local tier: two Gets may delete one entry twice, after which `usedSize` is too
  small; `evict` loops forever with the lock held if the entry of the key `""` is
  the only one left (`EvictionCompletes` is for keys that are not empty).
- Prefix tier with swap: a Get may put a deleted block back, or an older block in the
  place of the one that the tree's index has, so that `TreeIndexResident` is about
  hashes only; `usedSize` drifts as in the local tier; swap may exceed its size, which
  is compared before a block is added.
- Prefix tree: a prompt of several blocks is matched in its first block only, later
  blocks are linked at the path of their own tokens from the root, so that a prompt
  that begins with these is answered with a block of another prompt, and nodes keep
  blocks that were removed: `MatchPrefix` returns the block of the node, and
  `removeBlock` only takes it out of the index.
- Cache manager: calls on one key that overlap may leave any of their values in any
  tier, a Get in flight may promote what was deleted, and a Delete that a tier fails
  is undone by the next promotion; a failed Set of a local tier may leave a torn file
  that Get returns (`LocalCache_get`; here the tier then keeps what it had); Clear of
  the Redis tier reports success also when a DEL failed; `CopiesAllowed` is about calls that are not
  overlapped and do not fail. Under write-back nothing ever reaches the other tiers
  ("propagate lazily", `manager.go`), so an eviction loses the value; under
  write-around an upper tier that a warmup filled goes on returning the old value.
  Invalidate ignores its pattern.
- Redis tier: the late update of `accessed_at` makes a hash with no value and no TTL
  of a key that is gone; Get returns it as a hit with an empty value, and it is
  promoted (`Blank`). The counters drift: every Set adds, also over an old value.
  The tier connects to `localhost:6379` or the external endpoint, never to the
  StatefulSet the reconciler creates.
- TokenCache: with the manifests as they are a cache with a local tier stays Degraded
  (see above); every pass, and so every 30 s, throws away the contents of the
  prefix and local tiers and leaves a Redis client and its health loop behind, and
  pings Redis for up to 5 s with the manager's lock held; TokenCaches of one name
  in two namespaces take turns, and the deletion of one clears the Redis keys of the
  other; a headless Service that could not be created is never created later; a
  StatefulSet is never updated; an edit to an unsupported tier type keeps the old
  configuration in force; the Error condition outlives the error.
- MPS: the rollback of a request also takes away what the service was granted by
  earlier ones; after a reconfiguration a second daemon may run on a GPU, which then
  may have more clients than MPS supports, and the clients of the forgotten one are not
  released; nothing keeps two pools from listing one GPU, whose daemon the index then
  knows for one of them only.
- Time-slicing: the total weight can be 0 in spite of the comment "+1 to ensure
  non-zero" (all priorities -1, two at the greatest int32, or weights that cancel out):
  then on amd64 all slots but the last one get the minimum, and on arm64 a slot of
  positive weight gets an infinite share and the last one a negative duration; slots of
  different priority may exceed the interval because of the minimum; two slots of a service may get the same ID (the number of slots on the
  GPU), and SetSlotPriority finds only one of them; a request that fails takes all
  slots of the service away; the scheduler gives every slot an equal turn,
  whatever its duration, and paused slots too; records keep the duration of the
  moment they were made.

## 5. Proofs

All theorems are for arbitrary constants under the `ASSUME` of their module.

- `MIGManagerProofs`: `HeldIsMarkedTheorem` and `IndexedMarksAreHeldTheorem`.
  The inductive invariant has the types, that what is held is marked, that no
  object is held by two services, and that a mark on an object of the index
  comes from its holder; the last needs the first two, because Release of one
  service must not free what another one holds.
  `ImplementsAllocatorTheorem` is the refinement, for any number of pools: the
  initial states agree, and every step is a Grant of objects that nobody holds (new
  ones, or ones that the index does not mark, which by the invariant are not held), a
  Revoke, or a stutter. `TypeOKTheorem` needs that the numbers in the IDs are numbers:
  the maps stay finite, and the recursive function that numbers new instances exists.
- `TokenCacheProofs`: `TypeOKTheorem`, `ConfiguredIsStoredTheorem` and
  `NoOrphansTheorem`, for any TokenCaches, names, specs and faults. The inductive
  invariant adds, as in OperatorProofs, what the worker knows: between the check of
  the finalizer and the end of the reconcile its object is stored with the finalizer,
  past ConfigureCache its name is in the table, past CleanupCache it is not. The last
  is why removing the finalizer leaves no configuration without an object even if
  several TokenCaches share a name: every entry's owner has the entry's name.
- `OperatorProofs`: `ReleasedBeforeGoneTheorem` and `NoOrphansTheorem`. The
  inductive invariant adds what the worker knows (`WorkerKnows`): from the fetch
  on, at the steps that allocate or create, the object it works on is stored
  with its finalizer, even if its copy is stale, because only the worker itself
  removes the finalizer. `TypeOKTheorem` covers the stored objects, both workers, the GPU
  manager and the MIG manager inside it. Its invariant adds that no PoolInfo ever has a
  GPU, that a worker that is not idle has the key and the spec of an object, and that a
  pool whose status is written next is registered. The facts about the MIG manager are
  proved again here under the names of its instance, because the prover cannot cite a
  lemma through `INSTANCE`.
- `LocalCacheProofs`: `TypeOKTheorem`, `NoLostEvictionTheorem` and
  `EntriesNotOverstatedTheorem`, for any number of goroutines and keys. The
  invariant of the second is that whoever raised `usedSize` over the limit has
  yet to look; of the third, finite-set cardinality.
- `PrefixCacheProofs`, the tier: `TypeOKTheorem` and `ResidencyTheorem`, with and
  without swap. Residency is inductive together with the fact that Gets hold blocks of
  the heap; it does not depend on reference counts.
  `EntriesNotOverstatedTheorem` builds on it: the maps of GPU and swap have no key in
  common, so removing a block, even one that is gone, takes at least as much off the
  counter as off the maps. `TreeIndexResidentTheorem` too: a stale block takes a hash out
  of a map only together with its entry in the tree's index, or moves it to the other
  map.
- `PrefixCacheProofs`, the tree: `FirstBlockMatchesTheorem`, for any tokens, block size and number of concurrent insertions. The invariant says that a
  goroutine that is past its first block, with no Clear since it began, has its first
  block's nodes in the tree.
- `MPSManagerProofs`: `TypeOKTheorem` and `GrantedIsConnectedTheorem` for any pools;
  the latter with what the request in progress has connected so far, because a
  rollback gives that back and nothing of anybody else's. `DaemonCapacityTheorem`, for
  any pools too: no daemon, forgotten ones included, has more clients than MPS supports.
  `IndexMatchesTheorem`, `ReleaseCompleteTheorem` and `GPUCapacityTheorem` leave
  forgotten daemons out and are for pools without a common GPU (`DisjointPools`, which
  the code does not enforce), as the run: the index is keyed by the GPU, and a second pool on it
  would overwrite the first one's entry. The invariant ties the three places a daemon
  can be in: one of a configuration runs, on its GPU, and is in the index under it; one
  that runs, and one of the index, is in a configuration or forgotten.
- `TimesliceManagerProofs`: `TypeOKTheorem`, `SlotsTileTheorem`,
  `EqualSharesFitTheorem`, `AllocationsMatchTheorem` and `SlotsKeptTheorem`, for any
  number of slots, any int32 priorities, widths of the integer types, intervals and
  minimum, and both values of `Beyond`. `SlotsTile` has the premise that the sum of the
  shares is an int64, `EqualSharesFit` that the total weight is an int32 other than 0;
  section 4 says what happens otherwise. The first three rest on one
  inductive invariant: the slots of every GPU are what `Placed` makes of them
  (`Settled`), which every operation restores because a sorted sequence that is placed
  again does not change. Tiling then follows from the sums of the shares, and fairness
  from the bounds of integer division. The last two count: a sort is a bijection of
  the positions that stay, GPU by GPU, hence of everything a service holds, so the
  number of its slots changes only by the one that Allocate adds and by those that its
  own release takes. `SlotsKept` is proved as an action property from the same
  invariant.
- `CacheManagerProofs`: `TypeOKTheorem` and `CopiesAllowedTheorem`, for any number of
  callers, keys, values, tiers and configurations. The invariant adds `Settling`: a
  call that is still clean is the only one about its keys, and no tier it has passed,
  nor one of a configuration that has replaced its own, has anything but its value;
  this is why the values a key may have can be replaced by that one when it ends.

Facts that need induction over data (what the sums of `SumTo` are, that a bounded set
has a largest number) are proved from a minimal counterexample (`WFMin` of the library)
in place of an induction rule; that every place of a sort is taken is the pigeonhole
theorem.

Only model-checked: all liveness properties (fairness and ENABLED are outside
the prover's reach). Every invariant and action property of a passing run has a theorem.

## 6. Not modelled

- Discovery of GPUs, metrics, events, log lines: stubs or output only.
- Backends: pure functions from a service's spec to a pod specification, without
  state of their own; their `Validate` is the field `Valid` of a service's spec.
- `reconcileCacheConfiguration` of the InferenceService reconciler: it asks whether
  the cache is configured, and the answer is only logged.
- Redis tier: `GetMulti`, `SetMulti` and `Info`, which nothing calls, and counters.
  Cache manager: metrics, and an eviction loop with an empty body. A data race of
  `warmupCache` on the table (read without the lock) would end the process.
- `SetActiveThreadPercentage` of the MPS manager: a label.
- `cmd/operator/main.go`: wiring. (It calls `SetupSignalHandler` three times,
  which controller-runtime allows once.)
- Generated deep copies.

## 7. Plan

1. The tiers of CacheManager are maps that lose entries; LocalCache and PrefixCache
   shown to be such maps, by refinement, as far as section 4 lets them.
