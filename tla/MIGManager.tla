----------------------------- MODULE MIGManager -----------------------------
(***************************************************************************)
(* internal/gpu/mig.go: the manager of NVIDIA MIG partitions.  Every       *)
(* exported operation holds m.mu from its first to its last line, so each  *)
(* operation is one action.                                                *)
(*                                                                         *)
(* The two Go maps (a pool's Instances and the manager's global index)     *)
(* hold pointers to shared MIGInstanceInfo objects.  The model keeps the   *)
(* objects in `heap', a sequence that only grows, and the maps hold        *)
(* positions of it, so that two objects carrying the same InstanceID, or   *)
(* one object known to one map only, can be told apart.                    *)
(***************************************************************************)
EXTENDS Naturals, Sequences, FiniteSets

CONSTANTS Pools,          \* names of GPUPools in MIG mode
          Services,       \* namespace/name of inference services
          Profiles,       \* names in the migProfiles table
          UnknownProfile, \* a profile name that is not in the table
          NoService,      \* the empty AllocatedTo/Namespace strings
          Counts,         \* the GPU counts services ask for
          MaxObjects      \* bound: instances ever created

ASSUME MIGAssumption ==
  /\ UnknownProfile \notin Profiles
  /\ NoService \notin Services
  /\ Counts \subseteq Nat \ {0}
  /\ MaxObjects \in Nat

VARIABLES heap,      \* every MIGInstanceInfo created
          pools,     \* m.pools: configured pool -> (instance ID -> object)
          instances, \* m.instances: instance ID -> object
          held       \* history: the objects an Allocate returned to a service
                     \* and that it has not asked to release since

migVars == <<heap, pools, instances, held>>

Refs == 1..MaxObjects

\* fmt.Sprintf("mig-%s-%d", profileName, n)
InstanceIDs == Profiles \X Nat

MIGInstanceInfo ==
  [id : InstanceIDs, InUse : BOOLEAN, AllocatedTo : Services \cup {NoService}]

\* m is a Go map with keys in K and values in V.
IsMap(m, K, V) == DOMAIN m \subseteq K /\ m \in [DOMAIN m -> V]

\* m[k] = v for every entry k -> v of new.
Put(m, new) ==
  [k \in DOMAIN m \cup DOMAIN new |-> IF k \in DOMAIN new THEN new[k] ELSE m[k]]

\* delete(m, k) for every k in K.
Drop(m, K) == [k \in DOMAIN m \ K |-> m[k]]

\* The objects of a map.
Objects(m) == {m[k] : k \in DOMAIN m}

NewMIGManager ==
  /\ heap = <<>>
  /\ pools = <<>>
  /\ instances = <<>>
  /\ held = [s \in Services |-> {}]

-----------------------------------------------------------------------------
\* ConfigurePool stores a fresh configuration, with no instances, over the one
\* the pool may already have; the global index keeps what it had.
ConfigurePool(p, profiles) ==
  /\ profiles \subseteq Profiles
  /\ pools' = Put(pools, [q \in {p} |-> <<>>])
  /\ UNCHANGED <<heap, instances, held>>

\* An unknown profile is reported before anything is stored.
ConfigurePoolError(p, profiles) ==
  /\ ~ (profiles \subseteq Profiles)
  /\ UNCHANGED migVars

PoolInUse(p) == \E o \in Objects(pools[p]) : heap[o].InUse

CleanupPool(p) ==
  /\ p \in DOMAIN pools
  /\ ~ PoolInUse(p)
  /\ instances' = Drop(instances, DOMAIN pools[p])
  /\ pools' = Drop(pools, {p})
  /\ UNCHANGED <<heap, held>>

\* Refused while an instance of the configuration is in use.
CleanupPoolError(p) ==
  /\ p \in DOMAIN pools
  /\ PoolInUse(p)
  /\ UNCHANGED migVars

\* Nothing to clean up.
CleanupPoolAbsent(p) ==
  /\ p \notin DOMAIN pools
  /\ UNCHANGED migVars

-----------------------------------------------------------------------------
\* Mutant of findAvailableInstances: the test of InUse is missing.
findInstancesInUseOrNot(p, profile, n) ==
  LET match == {o \in Objects(pools[p]) : heap[o].id[1] = profile}
  IN  {S \in SUBSET match : Cardinality(S) = n \/ (S = match /\ Cardinality(S) < n)}

\* findAvailableInstances walks the pool's map in Go's unspecified order and
\* stops after n matches: any n free instances, or all of them if fewer.
findAvailableInstances(p, profile, n) ==
  LET free == {o \in Objects(pools[p]) : heap[o].id[1] = profile /\ ~ heap[o].InUse}
  IN  {S \in SUBSET free : Cardinality(S) = n \/ (S = free /\ Cardinality(S) < n)}

\* The IDs createInstances gives to n new instances.  The i-th (from 0) is
\* numbered len(config.Instances) + i, and the map has grown in between.
NewInstanceIDs(p, profile, n) ==
  LET known[i \in 0..n] ==  \* the map's keys before the i-th creation
        IF i = 0 THEN DOMAIN pools[p]
        ELSE known[i-1] \cup {<<profile, Cardinality(known[i-1]) + i - 1>>}
  IN  [i \in 1..n |-> <<profile, Cardinality(known[i-1]) + i - 1>>]

\* Allocate reuses the free instances `found' and creates the rest; both maps
\* learn the new ones (an ID they already have is overwritten), and all of
\* them are then marked for the service.  Creation is simulated by the code
\* and cannot fail.
Allocate(p, s, profile, n, found) ==
  LET missing == n - Cardinality(found)
      ids     == NewInstanceIDs(p, profile, missing)
      new     == {Len(heap) + i : i \in 1..missing}
      refOf   == [id \in {ids[i] : i \in 1..missing} |->
                    Len(heap) + (CHOOSE i \in 1..missing : ids[i] = id)]
      granted == found \cup new
  IN  /\ p \in DOMAIN pools
      /\ profile \in Profiles
      /\ found \in findAvailableInstances(p, profile, n)
      /\ Len(heap) + missing <= MaxObjects
      /\ heap' = [o \in 1..(Len(heap) + missing) |->
                    [id |-> IF o \in new THEN ids[o - Len(heap)] ELSE heap[o].id,
                     InUse |-> IF o \in granted THEN TRUE ELSE heap[o].InUse,
                     AllocatedTo |-> IF o \in granted THEN s ELSE heap[o].AllocatedTo]]
      /\ pools' = [pools EXCEPT ![p] = Put(pools[p], refOf)]
      /\ instances' = Put(instances, refOf)
      /\ held' = [held EXCEPT ![s] = held[s] \cup granted]

\* "MIG pool not found" and "unknown MIG profile".
AllocateError(p, s, profile) ==
  /\ p \notin DOMAIN pools \/ profile \notin Profiles
  /\ UNCHANGED migVars

\* Mutant of Release: AllocatedTo is not reset.
ReleaseKeepingOwner(s) ==
  /\ heap' = [o \in DOMAIN heap |->
                IF o \in Objects(instances) /\ heap[o].AllocatedTo = s
                THEN [heap[o] EXCEPT !.InUse = FALSE] ELSE heap[o]]
  /\ held' = [held EXCEPT ![s] = {}]
  /\ UNCHANGED <<pools, instances>>

\* Release frees what the global index knows as the service's.
Release(s) ==
  /\ heap' = [o \in DOMAIN heap |->
                IF o \in Objects(instances) /\ heap[o].AllocatedTo = s
                THEN [id |-> heap[o].id, InUse |-> FALSE, AllocatedTo |-> NoService]
                ELSE heap[o]]
  /\ held' = [held EXCEPT ![s] = {}]
  /\ UNCHANGED <<pools, instances>>

\* DestroyInstance looks at the global object, and drops the ID everywhere.
DestroyInstance(id) ==
  /\ id \in DOMAIN instances
  /\ ~ heap[instances[id]].InUse
  /\ pools' = [p \in DOMAIN pools |-> Drop(pools[p], {id})]
  /\ instances' = Drop(instances, {id})
  /\ UNCHANGED <<heap, held>>

DestroyInstanceError(id) ==
  /\ id \in DOMAIN instances => heap[instances[id]].InUse
  /\ UNCHANGED migVars

-----------------------------------------------------------------------------
\* Instance IDs some call may name: every ID the bound allows.
NamedIDs == Profiles \X (0..(2 * MaxObjects))

ProfileLists == {{}, Profiles, Profiles \cup {UnknownProfile}}

Init == NewMIGManager

Next ==
  \/ \E p \in Pools, profiles \in ProfileLists :
        ConfigurePool(p, profiles) \/ ConfigurePoolError(p, profiles)
  \/ \E p \in Pools : CleanupPool(p) \/ CleanupPoolError(p) \/ CleanupPoolAbsent(p)
  \/ \E p \in Pools, s \in Services, profile \in Profiles, n \in Counts,
        found \in SUBSET DOMAIN heap : Allocate(p, s, profile, n, found)
  \/ \E p \in Pools, s \in Services, profile \in Profiles \cup {UnknownProfile} :
        AllocateError(p, s, profile)
  \/ \E s \in Services : Release(s)
  \/ \E id \in NamedIDs : DestroyInstance(id) \/ DestroyInstanceError(id)

Spec == Init /\ [][Next]_migVars

-----------------------------------------------------------------------------
TypeOK ==
  /\ heap \in Seq(MIGInstanceInfo)
  /\ Len(heap) <= MaxObjects
  /\ DOMAIN pools \subseteq Pools
  /\ \A p \in DOMAIN pools : IsMap(pools[p], InstanceIDs, DOMAIN heap)
  /\ IsMap(instances, InstanceIDs, DOMAIN heap)
  /\ held \in [Services -> SUBSET DOMAIN heap]

\* What an Allocate handed to a service stays marked as that service's until
\* it releases it, whatever reconfigurations, cleanups, destructions and calls
\* of other services come in between (mig.go, Allocate and Release): no
\* MIGInstanceInfo is handed to two services.
HeldIsMarked ==
  \A s \in Services : \A o \in held[s] :
    heap[o].InUse /\ heap[o].AllocatedTo = s

\* Nothing the global index knows is marked for a service that is not holding
\* it: Release forgets no object it can see (mig.go, Release).  It does not see
\* an object whose ID was given again, by another pool or after a
\* reconfiguration; the property says nothing about those.
IndexedMarksAreHeld ==
  \A o \in Objects(instances) :
    /\ heap[o].InUse <=> heap[o].AllocatedTo # NoService
    /\ heap[o].InUse => o \in held[heap[o].AllocatedTo]
=============================================================================
