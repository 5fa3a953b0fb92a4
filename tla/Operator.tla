------------------------------ MODULE Operator ------------------------------
(***************************************************************************)
(* internal/controller: the GPUPool and the InferenceService reconcilers,  *)
(* composed with the GPU manager they share.                               *)
(*                                                                         *)
(* controller-runtime gives each reconciler one worker, so a reconciler    *)
(* handles one object at a time, but the two workers, the users, the       *)
(* cluster and a crash of the operator interleave between any two calls    *)
(* of the API server.  A Reconcile is therefore a sequence of actions, one *)
(* per call that reads or writes something shared.                         *)
(*                                                                         *)
(* The API server is external.  A write made from a copy that is no longer *)
(* the stored one is refused (resourceVersion conflict): `fresh' says      *)
(* whether the worker's copy is still current.  An object with a           *)
(* deletionTimestamp goes when its last finalizer goes, and what it owns   *)
(* goes with it.  Crashes, failing calls and edits take from a budget of   *)
(* faults.                                                                 *)
(***************************************************************************)
EXTENDS GPUManager, Integers

CONSTANTS PoolSpecs,   \* the specs users give to pools
          SvcSpecs,    \* and to inference services
          MaxFaults,   \* bound: crashes, failing calls and edits
          NoSpec       \* the spec in the copy of an idle worker

ASSUME OperatorAssumption ==
  /\ PoolSpecs \subseteq PoolSpec
  /\ SvcSpecs \subseteq [Valid : BOOLEAN, Req : Request]
  /\ MaxFaults \in Nat

VARIABLES poolObj,    \* the GPUPool stored under each name
          svcObj,     \* the InferenceService stored under each name
          deployment, \* state of the Deployment of each service
          k8sService, \* whether the service's Service exists
          poolWorker, \* the GPUPool reconciler
          svcWorker,  \* the InferenceService reconciler
          faults,     \* faults so far
          owed        \* history: services with an Allocate that succeeded since
                      \* the last Release (or the last start of the operator)

apiVars == <<poolObj, svcObj, deployment, k8sService>>
vars == <<managerVars, apiVars, poolWorker, svcWorker, faults, owed>>

PoolPhases == {"", "Ready", "Failed"}
SvcPhases == {"", "Pending", "Initializing", "Running", "Scaling", "Failed", "Terminating"}
\* How many of a Deployment's replicas are available: none yet reported, none,
\* some, all.
DeploymentStates == {"none", "created", "unavailable", "partial", "available"}

GPUPool == [Spec : PoolSpecs, Finalizer : BOOLEAN, Deleting : BOOLEAN,
            Phase : PoolPhases, Error : BOOLEAN, AllocatedGPUs : Int]

InferenceService == [Spec : SvcSpecs, Finalizer : BOOLEAN, Deleting : BOOLEAN,
                     Phase : SvcPhases, Error : BOOLEAN,
                     GPUAllocations : SUBSET mig!InstanceIDs]

\* The worker's copy of the object, and what it is going to write.
IdlePoolWorker == [pc |-> "idle", key |-> NoPool, spec |-> NoSpec, fresh |-> FALSE]
IdleSvcWorker == [pc |-> "idle", key |-> NoService, spec |-> NoSpec, fresh |-> FALSE,
                  granted |-> {}, found |-> "none"]

Fault == faults < MaxFaults /\ faults' = faults + 1

Init ==
  /\ NewManager
  /\ poolObj = <<>>
  /\ svcObj = <<>>
  /\ deployment = [s \in Services |-> "none"]
  /\ k8sService = [s \in Services |-> FALSE]
  /\ poolWorker = IdlePoolWorker
  /\ svcWorker = IdleSvcWorker
  /\ faults = 0
  /\ owed = {}

-----------------------------------------------------------------------------
\* Users.  A change under a worker's hands makes the worker's copy stale.
StalePool(p) ==
  poolWorker' = IF poolWorker.key = p THEN [poolWorker EXCEPT !.fresh = FALSE] ELSE poolWorker

StaleSvc(s) ==
  svcWorker' = IF svcWorker.key = s THEN [svcWorker EXCEPT !.fresh = FALSE] ELSE svcWorker

CreatePool(p, spec) ==
  /\ p \notin DOMAIN poolObj
  /\ poolObj' = mig!Put(poolObj, [q \in {p} |->
       [Spec |-> spec, Finalizer |-> FALSE, Deleting |-> FALSE, Phase |-> "",
        Error |-> FALSE, AllocatedGPUs |-> 0]])
  /\ UNCHANGED <<managerVars, svcObj, deployment, k8sService, poolWorker, svcWorker, faults, owed>>

EditPool(p, spec) ==
  /\ p \in DOMAIN poolObj
  /\ ~ poolObj[p].Deleting
  /\ poolObj[p].Spec # spec
  /\ Fault
  /\ poolObj' = [poolObj EXCEPT ![p].Spec = spec]
  /\ StalePool(p)
  /\ UNCHANGED <<managerVars, svcObj, deployment, k8sService, svcWorker, owed>>

DeletePool(p) ==
  /\ p \in DOMAIN poolObj
  /\ ~ poolObj[p].Deleting
  /\ poolObj' = IF poolObj[p].Finalizer THEN [poolObj EXCEPT ![p].Deleting = TRUE]
                ELSE mig!Drop(poolObj, {p})
  /\ StalePool(p)
  /\ UNCHANGED <<managerVars, svcObj, deployment, k8sService, svcWorker, faults, owed>>

CreateService(s, spec) ==
  /\ s \notin DOMAIN svcObj
  /\ svcObj' = mig!Put(svcObj, [t \in {s} |->
       [Spec |-> spec, Finalizer |-> FALSE, Deleting |-> FALSE, Phase |-> "",
        Error |-> FALSE, GPUAllocations |-> {}]])
  /\ UNCHANGED <<managerVars, poolObj, deployment, k8sService, poolWorker, svcWorker, faults, owed>>

EditService(s, spec) ==
  /\ s \in DOMAIN svcObj
  /\ ~ svcObj[s].Deleting
  /\ svcObj[s].Spec # spec
  /\ Fault
  /\ svcObj' = [svcObj EXCEPT ![s].Spec = spec]
  /\ StaleSvc(s)
  /\ UNCHANGED <<managerVars, poolObj, deployment, k8sService, poolWorker, owed>>

\* The object of s goes, and what it owns with it.
RemoveService(s) ==
  /\ svcObj' = mig!Drop(svcObj, {s})
  /\ deployment' = [deployment EXCEPT ![s] = "none"]
  /\ k8sService' = [k8sService EXCEPT ![s] = FALSE]

DeleteService(s) ==
  /\ s \in DOMAIN svcObj
  /\ ~ svcObj[s].Deleting
  /\ IF svcObj[s].Finalizer
     THEN /\ svcObj' = [svcObj EXCEPT ![s].Deleting = TRUE]
          /\ UNCHANGED <<deployment, k8sService>>
     ELSE RemoveService(s)
  /\ StaleSvc(s)
  /\ UNCHANGED <<managerVars, poolObj, poolWorker, faults, owed>>

\* The cluster: some or all pods of a deployment become available, or stop being so.
DeploymentProgress(s) ==
  /\ deployment[s] # "none"
  /\ \E d \in {"unavailable", "partial", "available"} \ {deployment[s]} :
       deployment' = [deployment EXCEPT ![s] = d]
  /\ UNCHANGED <<managerVars, poolObj, svcObj, k8sService, poolWorker, svcWorker, faults, owed>>

\* The operator dies and starts again: the GPU manager lives in its memory.
Restart ==
  /\ Fault
  /\ heap' = <<>> /\ pools' = <<>> /\ instances' = <<>>
  /\ held' = [s \in Services |-> {}]
  /\ poolInfos' = <<>>
  /\ poolWorker' = IdlePoolWorker
  /\ svcWorker' = IdleSvcWorker
  /\ owed' = {}
  /\ UNCHANGED apiVars

-----------------------------------------------------------------------------
\* Mutants of PoolStepAfter: a pool without allocations blocks its deletion; a
\* pool that is Ready is not registered again.
PoolStepAfterBlocking(obj) ==
  CASE obj.Deleting                         -> IF obj.AllocatedGPUs >= 0 THEN "idle" ELSE "unregister"
    [] ~ obj.Deleting /\ ~ obj.Finalizer    -> "addFinalizer"
    [] OTHER                                -> "register"
PoolStepAfterOnce(obj) ==
  CASE obj.Deleting                         -> "unregister"
    [] ~ obj.Deleting /\ ~ obj.Finalizer    -> "addFinalizer"
    [] ~ obj.Deleting /\ obj.Phase = "Ready" /\ obj.Finalizer -> "idle"
    [] OTHER                                -> "register"

\* GPUPoolReconciler.Reconcile, up to the first call that is not a read.
\* (validateSpec's ranges for MPS and time-slicing are in the CRD's schema too,
\* so no stored object violates them.)
PoolStepAfter(obj) ==
  CASE obj.Deleting /\ obj.AllocatedGPUs > 0            -> "idle"  \* DeletionBlocked
    [] obj.Deleting /\ obj.AllocatedGPUs <= 0           -> "unregister"
    [] ~ obj.Deleting /\ ~ obj.Finalizer                -> "addFinalizer"
    [] ~ obj.Deleting /\ obj.Finalizer /\ obj.Spec.Mode = "mig" /\ obj.Spec.Profiles = {}
                                                        -> "fail"
    [] OTHER                                            -> "register"

PoolFetch(p) ==
  /\ poolWorker.pc = "idle"
  /\ p \in DOMAIN poolObj
  /\ PoolStepAfter(poolObj[p]) # "idle"
  /\ poolWorker' = [pc |-> PoolStepAfter(poolObj[p]), key |-> p,
                    spec |-> poolObj[p].Spec, fresh |-> TRUE]
  /\ UNCHANGED <<managerVars, apiVars, svcWorker, faults, owed>>

\* A write of the pool's object, from the worker's copy, then end of Reconcile.
WritePool(after) ==
  /\ poolWorker.fresh
  /\ poolObj' = after
  /\ poolWorker' = IdlePoolWorker
  /\ UNCHANGED <<managerVars, svcObj, deployment, k8sService, svcWorker, faults, owed>>

\* The write is refused: the copy is stale, or the call fails.  Reconcile ends
\* (the error is returned, or logged by updateStatusWithError) and the object
\* is queued again.
PoolWriteRefused ==
  /\ poolWorker.pc \in {"addFinalizer", "status", "fail", "dropFinalizer"}
  /\ \/ ~ poolWorker.fresh /\ UNCHANGED faults
     \/ poolWorker.fresh /\ Fault
  /\ poolWorker' = IdlePoolWorker
  /\ UNCHANGED <<managerVars, apiVars, svcWorker, owed>>

PoolAddFinalizer ==
  /\ poolWorker.pc = "addFinalizer"
  /\ WritePool([poolObj EXCEPT ![poolWorker.key].Finalizer = TRUE])

\* Every Reconcile registers the pool again.
PoolRegister ==
  /\ poolWorker.pc = "register"
  /\ \/ /\ RegisterPool(poolWorker.key, poolWorker.spec)
        /\ poolWorker' = [poolWorker EXCEPT !.pc = "status"]
     \/ /\ RegisterPoolError(poolWorker.key, poolWorker.spec)
        /\ poolWorker' = [poolWorker EXCEPT !.pc = "fail"]
  /\ UNCHANGED <<apiVars, svcWorker, faults, owed>>

PoolUpdateStatus ==
  /\ poolWorker.pc = "status"
  /\ WritePool([poolObj EXCEPT ![poolWorker.key].Phase = "Ready",
                  ![poolWorker.key].AllocatedGPUs = AllocatedGPUs(poolWorker.key)])

\* updateStatusWithError: nothing ever removes the Error condition.
PoolUpdateStatusWithError ==
  /\ poolWorker.pc = "fail"
  /\ WritePool([poolObj EXCEPT ![poolWorker.key].Phase = "Failed",
                               ![poolWorker.key].Error = TRUE])

PoolUnregister ==
  /\ poolWorker.pc = "unregister"
  /\ UnregisterPool(poolWorker.key)
  /\ poolWorker' = [poolWorker EXCEPT !.pc = "dropFinalizer"]
  /\ UNCHANGED <<apiVars, svcWorker, faults, owed>>

PoolDropFinalizer ==
  /\ poolWorker.pc = "dropFinalizer"
  /\ WritePool(mig!Drop(poolObj, {poolWorker.key}))

PoolController ==
  \/ \E p \in Pools : PoolFetch(p)
  \/ PoolAddFinalizer \/ PoolRegister \/ PoolUpdateStatus \/ PoolUpdateStatusWithError
  \/ PoolUnregister \/ PoolDropFinalizer \/ PoolWriteRefused

-----------------------------------------------------------------------------
\* Mutant of SvcStepAfter: GPUs are allocated before there is a finalizer.
SvcStepAfterNoFinalizer(obj) ==
  CASE obj.Deleting                        -> "terminating"
    [] ~ obj.Deleting /\ ~ obj.Spec.Valid  -> "fail"
    [] OTHER                               -> "allocate"

\* InferenceServiceReconciler.Reconcile, up to the first call that is not a
\* read: validateSpec and the backend's Validate decide Valid.
SvcStepAfter(obj) ==
  CASE obj.Deleting                                         -> "terminating"
    [] ~ obj.Deleting /\ ~ obj.Finalizer                    -> "addFinalizer"
    [] ~ obj.Deleting /\ obj.Finalizer /\ ~ obj.Spec.Valid  -> "fail"
    [] OTHER                                                -> "allocate"

\* Bound: a Reconcile that may create instances starts only if they fit.
Room(obj) == Len(heap) + obj.Spec.Req.GPUCount <= MaxObjects

SvcFetch(s) ==
  /\ svcWorker.pc = "idle"
  /\ s \in DOMAIN svcObj
  /\ SvcStepAfter(svcObj[s]) = "allocate" => Room(svcObj[s])
  /\ svcWorker' = [IdleSvcWorker EXCEPT !.pc = SvcStepAfter(svcObj[s]), !.key = s,
                                        !.spec = svcObj[s].Spec, !.fresh = TRUE]
  /\ UNCHANGED <<managerVars, apiVars, poolWorker, faults, owed>>

WriteSvc(new, next) ==
  /\ svcWorker.fresh
  /\ svcObj' = [svcObj EXCEPT ![svcWorker.key] = new]
  /\ svcWorker' = next
  /\ UNCHANGED <<managerVars, poolObj, deployment, k8sService, poolWorker, faults, owed>>

SvcWriteRefused ==
  /\ svcWorker.pc \in {"addFinalizer", "terminating", "status", "fail", "dropFinalizer"}
  /\ \/ ~ svcWorker.fresh /\ UNCHANGED faults
     \/ svcWorker.fresh /\ Fault
  /\ svcWorker' = IF svcWorker.pc = "terminating"  \* only logged
                  THEN [svcWorker EXCEPT !.pc = "release"] ELSE IdleSvcWorker
  /\ UNCHANGED <<managerVars, apiVars, poolWorker, owed>>

SvcAddFinalizer ==
  /\ svcWorker.pc = "addFinalizer"
  /\ WriteSvc([svcObj[svcWorker.key] EXCEPT !.Finalizer = TRUE], IdleSvcWorker)

\* reconcileGPUAllocation: every Reconcile asks for the GPUs again, whatever
\* the status says the service already has.
SvcAllocate ==
  /\ svcWorker.pc = "allocate"
  /\ LET s == svcWorker.key
         req == svcWorker.spec.Req
     IN  \/ /\ \E found \in SUBSET DOMAIN heap : Allocate(s, req, found)
            /\ svcWorker' = [svcWorker EXCEPT !.pc = "deploy",
                               !.granted = {heap'[o].id : o \in {q \in held'[s] :
                                              q \notin held[s]}}]
            /\ owed' = owed \cup {s}
         \/ /\ AllocateError(s, req)
            /\ svcWorker' = [svcWorker EXCEPT !.pc = "fail"]
            /\ UNCHANGED owed
  /\ UNCHANGED <<apiVars, poolWorker, faults>>

\* reconcileDeployment returns the Deployment it created or found.
SvcReconcileDeployment ==
  /\ svcWorker.pc = "deploy"
  /\ \/ LET s == svcWorker.key
            d == IF deployment[s] = "none" THEN "created" ELSE deployment[s]
        IN  /\ deployment' = [deployment EXCEPT ![s] = d]
            /\ svcWorker' = [svcWorker EXCEPT !.pc = "service", !.found = d]
            /\ UNCHANGED faults
     \/ /\ Fault
        /\ svcWorker' = [svcWorker EXCEPT !.pc = "fail"]
        /\ UNCHANGED deployment
  /\ UNCHANGED <<managerVars, poolObj, svcObj, k8sService, poolWorker, owed>>

SvcReconcileService ==
  /\ svcWorker.pc = "service"
  /\ \/ /\ k8sService' = [k8sService EXCEPT ![svcWorker.key] = TRUE]
        /\ svcWorker' = [svcWorker EXCEPT !.pc = "status"]
        /\ UNCHANGED faults
     \/ /\ Fault
        /\ svcWorker' = [svcWorker EXCEPT !.pc = "fail"]
        /\ UNCHANGED k8sService
  /\ UNCHANGED <<managerVars, poolObj, svcObj, deployment, poolWorker, owed>>

\* Mutant of PhaseOf: a phase the API does not have.
PhaseOfUnknown(d) ==
  CASE d = "available" -> "Running" [] d = "partial" -> "Degraded"
    [] d = "unavailable" -> "Initializing" [] OTHER -> "Pending"

\* updateStatus: the phase follows the Deployment that was created or found.
PhaseOf(d) ==
  CASE d = "available" -> "Running" [] d = "partial" -> "Scaling"
    [] d = "unavailable" -> "Initializing" [] OTHER -> "Pending"

SvcUpdateStatus ==
  /\ svcWorker.pc = "status"
  /\ WriteSvc([svcObj[svcWorker.key] EXCEPT !.Phase = PhaseOf(svcWorker.found),
                                            !.GPUAllocations = svcWorker.granted],
              IdleSvcWorker)

\* updateStatusWithError: with the allocations if Allocate had succeeded, and
\* an Error condition that nothing ever removes.
SvcUpdateStatusWithError ==
  /\ svcWorker.pc = "fail"
  /\ WriteSvc([svcObj[svcWorker.key] EXCEPT
                 !.Phase = "Failed", !.Error = TRUE,
                 !.GPUAllocations = IF svcWorker.granted = {} THEN @ ELSE svcWorker.granted],
              IdleSvcWorker)

\* Mutant of SvcMarkTerminating: Reconcile ends with the status update.
SvcMarkTerminatingOnly ==
  /\ svcWorker.pc = "terminating"
  /\ WriteSvc([svcObj[svcWorker.key] EXCEPT !.Phase = "Terminating"], IdleSvcWorker)

\* handleDeletion.
SvcMarkTerminating ==
  /\ svcWorker.pc = "terminating"
  /\ WriteSvc([svcObj[svcWorker.key] EXCEPT !.Phase = "Terminating"],
              [svcWorker EXCEPT !.pc = "release"])

SvcRelease ==
  /\ svcWorker.pc = "release"
  /\ Release(svcWorker.key)
  /\ owed' = owed \ {svcWorker.key}
  /\ svcWorker' = [svcWorker EXCEPT !.pc = "dropFinalizer"]
  /\ UNCHANGED <<apiVars, poolWorker, faults>>

SvcDropFinalizer ==
  /\ svcWorker.pc = "dropFinalizer"
  /\ svcWorker.fresh
  /\ RemoveService(svcWorker.key)
  /\ svcWorker' = IdleSvcWorker
  /\ UNCHANGED <<managerVars, poolObj, poolWorker, faults, owed>>

SvcController ==
  \/ \E s \in Services : SvcFetch(s)
  \/ SvcAddFinalizer \/ SvcAllocate \/ SvcReconcileDeployment \/ SvcReconcileService
  \/ SvcUpdateStatus \/ SvcUpdateStatusWithError
  \/ SvcMarkTerminating \/ SvcRelease \/ SvcDropFinalizer \/ SvcWriteRefused

-----------------------------------------------------------------------------
Users ==
  \/ \E p \in Pools : DeletePool(p) \/ \E spec \in PoolSpecs : CreatePool(p, spec) \/ EditPool(p, spec)
  \/ \E s \in Services :
       DeleteService(s) \/ \E spec \in SvcSpecs : CreateService(s, spec) \/ EditService(s, spec)

Next ==
  \/ PoolController
  \/ SvcController
  \/ Users
  \/ \E s \in Services : DeploymentProgress(s)
  \/ Restart

\* The workers keep working, and a work queue is first in, first out: an
\* object that is queued again and again is picked again and again.
Fairness ==
  /\ WF_vars(PoolController)
  /\ WF_vars(SvcController)
  /\ \A p \in Pools : SF_vars(PoolFetch(p))
  /\ \A s \in Services : SF_vars(SvcFetch(s))

Spec == Init /\ [][Next]_vars

FairSpec == Spec /\ Fairness

-----------------------------------------------------------------------------
PoolWorkerType ==
  [pc : {"idle", "addFinalizer", "register", "status", "fail", "unregister", "dropFinalizer"},
   key : Pools \cup {NoPool}, spec : PoolSpecs \cup {NoSpec}, fresh : BOOLEAN]

SvcWorkerType ==
  [pc : {"idle", "addFinalizer", "allocate", "deploy", "service", "status", "fail",
         "terminating", "release", "dropFinalizer"},
   key : Services \cup {NoService}, spec : SvcSpecs \cup {NoSpec}, fresh : BOOLEAN,
   granted : SUBSET mig!InstanceIDs, found : DeploymentStates]

TypeOK ==
  /\ mig!TypeOK
  /\ mig!IsMap(poolObj, Pools, GPUPool)
  /\ mig!IsMap(svcObj, Services, InferenceService)
  /\ deployment \in [Services -> DeploymentStates]
  /\ k8sService \in [Services -> BOOLEAN]
  /\ poolWorker \in PoolWorkerType
  /\ svcWorker \in SvcWorkerType
  /\ faults \in 0..MaxFaults
  /\ owed \subseteq Services

\* The finalizer does its job: as long as GPUs granted to a service have not
\* been given back with GPUManager.Release, its InferenceService is stored and
\* carries the finalizer, whatever users, failing writes and the order of the
\* reconciler's steps do (inferenceservice_controller.go, Reconcile and
\* handleDeletion).
ReleasedBeforeGone ==
  \A s \in owed : s \in DOMAIN svcObj /\ svcObj[s].Finalizer

\* Nothing is left behind in the cluster under the name of a service that is
\* gone: no Deployment or Service is created for it by a reconcile that had
\* read the object before (inferenceservice_controller.go, reconcileDeployment
\* and reconcileService).
NoOrphans ==
  \A s \in Services : s \notin DOMAIN svcObj => deployment[s] = "none" /\ ~ k8sService[s]

\* The deletion of a service is completed, even though writes fail and the
\* operator restarts in between (inferenceservice_controller.go,
\* handleDeletion).
ServiceDeletionCompletes ==
  \A s \in Services :
    (s \in DOMAIN svcObj /\ svcObj[s].Deleting) ~> (s \notin DOMAIN svcObj)

\* So is the deletion of a pool (gpupool_controller.go, handleDeletion).
PoolDeletionCompletes ==
  \A p \in Pools :
    (p \in DOMAIN poolObj /\ poolObj[p].Deleting) ~> (p \notin DOMAIN poolObj)

ValidMIGPool(p) ==
  /\ p \in DOMAIN poolObj
  /\ ~ poolObj[p].Deleting
  /\ poolObj[p].Spec.Mode = "mig"
  /\ poolObj[p].Spec.Profiles # {}
  /\ poolObj[p].Spec.Profiles \subseteq Profiles

\* A valid MIG pool is known to the GPU manager sooner or later, and again
\* after a restart has emptied the manager (gpupool_controller.go, Reconcile:
\* RegisterPool is called on every pass).
PoolGetsConfigured ==
  \A p \in Pools :
    ValidMIGPool(p) ~> (p \in DOMAIN poolInfos /\ p \in DOMAIN pools) \/ ~ ValidMIGPool(p)

\* No two services report the same MIG instance (README: MIG gives "Guaranteed
\* isolation").
ReportedInstancesExclusive ==
  \A s, t \in Services : s # t /\ s \in DOMAIN svcObj /\ t \in DOMAIN svcObj =>
    svcObj[s].GPUAllocations \cap svcObj[t].GPUAllocations = {}
=============================================================================
