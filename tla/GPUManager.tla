----------------------------- MODULE GPUManager -----------------------------
(***************************************************************************)
(* internal/gpu/manager.go: the GPU manager, over the MIG manager it owns. *)
(* Every operation holds m.mu throughout and calls the MIG manager inside, *)
(* so each is one action.                                                  *)
(*                                                                         *)
(* Discovery (discoverGPUs, both in the manager and in the pool's          *)
(* controller) is a stub: nothing adds a GPU to m.gpus or to a PoolInfo or *)
(* counts one, so GPUs is empty and AvailableGPUs is 0 in every PoolInfo,  *)
(* for good.  The exclusive, MPS and time-slicing branches of Allocate     *)
(* need a GPU of the pool and therefore always fail; what MPS and          *)
(* time-slicing keep about a pool is not part of this module.              *)
(***************************************************************************)
EXTENDS Naturals, Sequences, FiniteSets

CONSTANTS Pools, Services, Profiles, UnknownProfile, NoService, Counts, MaxObjects,
          NoPool  \* the empty PoolName: the service names no pool

\* The rest is what MIGManager assumes of its constants.
ASSUME GPUManagerAssumption ==
  /\ NoPool \notin Pools
  /\ UnknownProfile \notin Profiles
  /\ NoService \notin Services
  /\ Counts \subseteq Nat \ {0}
  /\ MaxObjects \in Nat

VARIABLES heap, pools, instances, held,  \* the MIG manager's
          poolInfos                      \* m.pools

mig == INSTANCE MIGManager

migVars == <<heap, pools, instances, held>>
managerVars == <<heap, pools, instances, held, poolInfos>>

SharingModes == {"exclusive", "mig", "mps", "timeslice"}

\* GPUPool.Spec, as far as the manager reads it.
PoolSpec == [Mode : SharingModes, Profiles : SUBSET (Profiles \cup {UnknownProfile})]

\* AllocationRequest without the service's name.
Request == [PoolName : Pools \cup {NoPool}, Mode : SharingModes,
            MIGProfile : Profiles \cup {UnknownProfile}, GPUCount : Counts]

NewManager ==
  /\ mig!NewMIGManager
  /\ poolInfos = <<>>

-----------------------------------------------------------------------------
\* The PoolInfo is replaced before the sharing mode is configured ...
StorePoolInfo(p, spec) ==
  poolInfos' = mig!Put(poolInfos,
                 [q \in {p} |-> [SharingMode |-> spec.Mode, GPUs |-> {}, AvailableGPUs |-> 0]])

RegisterPool(p, spec) ==
  /\ StorePoolInfo(p, spec)
  /\ \/ spec.Mode = "mig" /\ mig!ConfigurePool(p, spec.Profiles)
     \/ spec.Mode # "mig" /\ UNCHANGED migVars

\* ... and stays when that fails.
RegisterPoolError(p, spec) ==
  /\ StorePoolInfo(p, spec)
  /\ spec.Mode = "mig"
  /\ mig!ConfigurePoolError(p, spec.Profiles)

\* A failing cleanup is only logged: the pool goes anyway.
UnregisterPool(p) ==
  /\ poolInfos' = mig!Drop(poolInfos, {p})
  /\ IF p \in DOMAIN poolInfos /\ poolInfos[p].SharingMode = "mig"
     THEN mig!CleanupPool(p) \/ mig!CleanupPoolError(p) \/ mig!CleanupPoolAbsent(p)
     ELSE UNCHANGED migVars

-----------------------------------------------------------------------------
findSuitablePool(req) ==
  {p \in DOMAIN poolInfos : /\ poolInfos[p].SharingMode = req.Mode
                            /\ poolInfos[p].AvailableGPUs >= req.GPUCount}

\* The pool Allocate works on: the named one, or a suitable one.
TargetPools(req) ==
  IF req.PoolName \in DOMAIN poolInfos THEN {req.PoolName} ELSE findSuitablePool(req)

\* The request's mode decides, not the pool's.
Allocate(s, req, found) ==
  /\ req.Mode = "mig"
  /\ \E p \in TargetPools(req) : mig!Allocate(p, s, req.MIGProfile, req.GPUCount, found)
  /\ UNCHANGED poolInfos

\* No pool, an error of the MIG manager, or too few GPUs for the other modes.
AllocateError(s, req) ==
  /\ \/ TargetPools(req) = {} /\ UNCHANGED migVars
     \/ /\ req.Mode = "mig"
        /\ \E p \in TargetPools(req) : mig!AllocateError(p, s, req.MIGProfile)
     \/ /\ req.Mode # "mig"
        /\ \E p \in TargetPools(req) : Cardinality(poolInfos[p].GPUs) < req.GPUCount
        /\ UNCHANGED migVars
  /\ UNCHANGED poolInfos

\* Release filters the Allocations of the GPUs in m.gpus.  There are none, and
\* no sub-manager's Release is called.
Release(s) == UNCHANGED managerVars

\* GetPoolStatus: TotalGPUs - AvailableGPUs, both never assigned.
AllocatedGPUs(p) == Cardinality(poolInfos[p].GPUs) - poolInfos[p].AvailableGPUs
=============================================================================
