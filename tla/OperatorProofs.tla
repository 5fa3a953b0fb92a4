--------------------------- MODULE OperatorProofs ---------------------------
(***************************************************************************)
(* Proofs about Operator, for any number of services, pools, specs and     *)
(* faults: the finalizer protocol of the InferenceService reconciler, and  *)
(* the types of the two reconcilers and of the managers they share.        *)
(***************************************************************************)
EXTENDS Operator, SequenceTheorems, FiniteSetTheorems, WellFoundedInduction, TLAPS

svcVars == <<svcObj, deployment, k8sService, svcWorker, owed>>

\* obj is a record with the fields of an InferenceService.
IsService(obj) ==
  obj = [Spec |-> obj.Spec, Finalizer |-> obj.Finalizer, Deleting |-> obj.Deleting,
         Phase |-> obj.Phase, Error |-> obj.Error, GPUAllocations |-> obj.GPUAllocations]

IsSvcWorker(w) ==
  w = [pc |-> w.pc, key |-> w.key, spec |-> w.spec, fresh |-> w.fresh,
       granted |-> w.granted, found |-> w.found]

SvcTypes ==
  /\ DOMAIN svcObj \subseteq Services
  /\ svcObj = [s \in DOMAIN svcObj |-> svcObj[s]]
  /\ \A s \in DOMAIN svcObj : IsService(svcObj[s])
  /\ DOMAIN deployment = Services /\ deployment = [s \in Services |-> deployment[s]]
  /\ DOMAIN k8sService = Services /\ k8sService = [s \in Services |-> k8sService[s]]
  /\ IsSvcWorker(svcWorker)
  /\ owed \subseteq Services

Protected(s) == s \in DOMAIN svcObj /\ svcObj[s].Finalizer

\* What the worker's position says about the object it works on: its copy is
\* current only while the object is stored; past the finalizer check the
\* object carries the finalizer; past Release nothing is owed.
WorkerKnows ==
  /\ svcWorker.pc # "idle" => svcWorker.key \in Services
  /\ svcWorker.pc # "idle" /\ svcWorker.fresh => svcWorker.key \in DOMAIN svcObj
  /\ svcWorker.pc \in {"allocate", "deploy", "service"} => Protected(svcWorker.key)
  /\ svcWorker.pc = "dropFinalizer" => svcWorker.key \notin owed

OInv == SvcTypes /\ WorkerKnows /\ ReleasedBeforeGone /\ NoOrphans

\* The operator starts with no object, no allocation and an idle worker.
LEMMA InitOInv == Init => OInv
BY DEF Init, OInv, SvcTypes, WorkerKnows, ReleasedBeforeGone, NoOrphans, IdleSvcWorker,
       IsSvcWorker, Protected

\* Steps of the pool's side do not touch what the invariant speaks of.
LEMMA PoolSideIsSilent ==
  ASSUME PoolController \/ \E p \in Pools : DeletePool(p)
            \/ \E spec \in PoolSpecs : CreatePool(p, spec) \/ EditPool(p, spec)
  PROVE  UNCHANGED svcVars
BY DEF PoolController, PoolFetch, PoolAddFinalizer, PoolRegister, PoolUpdateStatus,
       PoolUpdateStatusWithError, PoolUnregister, PoolDropFinalizer, PoolWriteRefused,
       WritePool, CreatePool, EditPool, DeletePool, svcVars, apiVars

\* A step that changes nothing of the service side keeps the invariant.
LEMMA SilentOInv ==
  ASSUME OInv, UNCHANGED svcVars
  PROVE  OInv'
BY DEF OInv, SvcTypes, WorkerKnows, ReleasedBeforeGone, NoOrphans, Protected, svcVars

\* A write of the worker that keeps the finalizer of the object.
LEMMA WriteKeepsOInv ==
  ASSUME OInv, NEW new, NEW next, svcWorker.pc # "idle",
         WriteSvc(new, next),
         IsService(new), svcObj[svcWorker.key].Finalizer => new.Finalizer,
         IsSvcWorker(next), next.pc \in {"idle", "release"}, next.key = svcWorker.key \/ next.pc = "idle"
  PROVE  OInv'
<1> DEFINE s == svcWorker.key
<1>1. s \in DOMAIN svcObj /\ svcObj' = [svcObj EXCEPT ![s] = new] /\ svcWorker' = next
      /\ UNCHANGED <<deployment, k8sService, owed>>
  BY DEF WriteSvc, OInv, WorkerKnows
<1>2. DOMAIN svcObj' = DOMAIN svcObj /\ svcObj'[s] = new
      /\ \A t \in DOMAIN svcObj : t # s => svcObj'[t] = svcObj[t]
  BY <1>1
<1>3. SvcTypes'
  BY <1>1, <1>2 DEF SvcTypes, OInv
<1>4. WorkerKnows'
  BY <1>1, <1>2 DEF WorkerKnows, OInv, SvcTypes
<1>5. ReleasedBeforeGone'
  BY <1>1, <1>2 DEF ReleasedBeforeGone, OInv
<1>6. NoOrphans'
  BY <1>1, <1>2 DEF NoOrphans, OInv
<1>. QED  BY <1>3, <1>4, <1>5, <1>6 DEF OInv

\* Marking a service for deletion keeps its finalizer.
LEMMA DeletingField ==
  ASSUME NEW obj, IsService(obj), NEW v
  PROVE  LET new == [obj EXCEPT !.Deleting = v]
         IN  IsService(new) /\ new.Finalizer = obj.Finalizer
BY DEF IsService

\* The same for a user who changes the object, or makes it go while it has no
\* finalizer, which leaves the worker with a stale copy.
LEMMA UserOInv ==
  ASSUME OInv, NEW s \in Services,
         DeleteService(s) \/ \E spec \in SvcSpecs : CreateService(s, spec) \/ EditService(s, spec)
  PROVE  OInv'
<1>0. IsSvcWorker(svcWorker)
  BY DEF OInv, SvcTypes
<1>1. ASSUME NEW spec \in SvcSpecs, CreateService(s, spec) PROVE OInv'
  <2> DEFINE obj == [Spec |-> spec, Finalizer |-> FALSE, Deleting |-> FALSE, Phase |-> "",
                     Error |-> FALSE, GPUAllocations |-> {}]
  <2>1. svcObj' = mig!Put(svcObj, [t \in {s} |-> obj]) /\ s \notin DOMAIN svcObj
        /\ UNCHANGED <<deployment, k8sService, svcWorker, owed>>
    BY <1>1 DEF CreateService
  <2>2. /\ DOMAIN svcObj' = DOMAIN svcObj \cup {s} /\ svcObj'[s] = obj
        /\ \A t \in DOMAIN svcObj : svcObj'[t] = svcObj[t]
        /\ svcObj' = [t \in DOMAIN svcObj' |-> svcObj'[t]]
    BY <2>1 DEF mig!Put
  <2>3. IsService(obj)
    BY DEF IsService
  <2>. HIDE DEF obj
  <2>4. SvcTypes'
    BY <2>1, <2>2, <2>3 DEF SvcTypes, OInv
  <2>5. WorkerKnows'
    BY <2>1, <2>2 DEF WorkerKnows, OInv, Protected
  <2>6. ReleasedBeforeGone' /\ NoOrphans'
    BY <2>1, <2>2 DEF ReleasedBeforeGone, NoOrphans, OInv
  <2>. QED  BY <2>4, <2>5, <2>6 DEF OInv
<1>2. ASSUME NEW new, s \in DOMAIN svcObj, svcObj' = [svcObj EXCEPT ![s] = new],
             IsService(new), new.Finalizer = svcObj[s].Finalizer, StaleSvc(s),
             UNCHANGED <<deployment, k8sService, owed>>
      PROVE  OInv'
  <2>1. /\ DOMAIN svcObj' = DOMAIN svcObj /\ svcObj'[s] = new
        /\ \A t \in DOMAIN svcObj : t # s => svcObj'[t] = svcObj[t]
    BY <1>2
  <2>2. /\ svcWorker'.pc = svcWorker.pc /\ svcWorker'.key = svcWorker.key /\ IsSvcWorker(svcWorker')
        /\ svcWorker.key # s => svcWorker' = svcWorker
    BY <1>0, <1>2 DEF StaleSvc, IsSvcWorker
  <2>3. SvcTypes'
    BY <1>2, <2>1, <2>2 DEF SvcTypes, OInv
  <2>4. WorkerKnows'
    BY <1>2, <2>1, <2>2 DEF WorkerKnows, OInv, Protected
  <2>5. ReleasedBeforeGone' /\ NoOrphans'
    BY <1>2, <2>1 DEF ReleasedBeforeGone, NoOrphans, OInv
  <2>. QED  BY <2>3, <2>4, <2>5 DEF OInv
<1>3. ASSUME NEW spec \in SvcSpecs, EditService(s, spec) PROVE OInv'
  <2> DEFINE new == [svcObj[s] EXCEPT !.Spec = spec]
  <2>1. s \in DOMAIN svcObj /\ svcObj' = [svcObj EXCEPT ![s] = new] /\ StaleSvc(s)
        /\ UNCHANGED <<deployment, k8sService, owed>>
    BY <1>3 DEF EditService
  <2>2. IsService(new) /\ new.Finalizer = svcObj[s].Finalizer
    BY <2>1 DEF IsService, OInv, SvcTypes
  <2>. QED  BY <2>1, <2>2, <1>2
<1>4. ASSUME DeleteService(s), svcObj[s].Finalizer PROVE OInv'
  <2> DEFINE new == [svcObj[s] EXCEPT !.Deleting = TRUE]
  <2>1. s \in DOMAIN svcObj /\ svcObj' = [svcObj EXCEPT ![s] = new] /\ StaleSvc(s)
        /\ UNCHANGED <<deployment, k8sService, owed>>
    BY <1>4 DEF DeleteService
  <2>2. IsService(svcObj[s])
    BY <2>1 DEF OInv, SvcTypes
  <2>4. IsService(new) /\ new.Finalizer = svcObj[s].Finalizer
    BY <2>2, DeletingField
  <2>. QED  BY <2>1, <2>4, <1>2
<1>5. ASSUME DeleteService(s), ~ svcObj[s].Finalizer PROVE OInv'
  <2>1. /\ s \in DOMAIN svcObj /\ svcObj' = mig!Drop(svcObj, {s}) /\ StaleSvc(s)
        /\ deployment' = [deployment EXCEPT ![s] = "none"]
        /\ k8sService' = [k8sService EXCEPT ![s] = FALSE]
        /\ owed' = owed
    BY <1>5 DEF DeleteService, RemoveService
  <2>2. /\ DOMAIN svcObj' = DOMAIN svcObj \ {s}
        /\ \A t \in DOMAIN svcObj' : svcObj'[t] = svcObj[t]
        /\ svcObj' = [t \in DOMAIN svcObj' |-> svcObj'[t]]
    BY <2>1 DEF mig!Drop
  <2>3. /\ svcWorker'.pc = svcWorker.pc /\ svcWorker'.key = svcWorker.key /\ IsSvcWorker(svcWorker')
        /\ svcWorker.key # s => svcWorker' = svcWorker
        /\ svcWorker.key = s => ~ svcWorker'.fresh
    BY <1>0, <2>1 DEF StaleSvc, IsSvcWorker
  <2>4. SvcTypes'
    <3>1. DOMAIN deployment' = Services /\ deployment' = [t \in Services |-> deployment'[t]]
      BY <2>1 DEF SvcTypes, OInv
    <3>2. DOMAIN k8sService' = Services /\ k8sService' = [t \in Services |-> k8sService'[t]]
      BY <2>1 DEF SvcTypes, OInv
    <3>. QED  BY <2>1, <2>2, <2>3, <3>1, <3>2 DEF SvcTypes, OInv
  <2>5. WorkerKnows'
    BY <1>5, <2>1, <2>2, <2>3 DEF WorkerKnows, OInv, Protected
  <2>6. ReleasedBeforeGone'
    BY <1>5, <2>1, <2>2 DEF ReleasedBeforeGone, OInv
  <2>7. NoOrphans'
    BY <2>1, <2>2 DEF NoOrphans, OInv, SvcTypes
  <2>. QED  BY <2>4, <2>5, <2>6, <2>7 DEF OInv
<1>. QED  BY <1>1, <1>3, <1>4, <1>5

\* Writing status fields keeps the finalizer.
LEMMA PhaseField ==
  ASSUME NEW obj, IsService(obj), NEW v
  PROVE  LET new == [obj EXCEPT !.Phase = v]
         IN  IsService(new) /\ new.Finalizer = obj.Finalizer
BY DEF IsService

\* Recording a failed reconcile in the status keeps the finalizer.
LEMMA ErrorField ==
  ASSUME NEW obj, IsService(obj), NEW v
  PROVE  LET new == [obj EXCEPT !.Error = v]
         IN  IsService(new) /\ new.Finalizer = obj.Finalizer
BY DEF IsService

\* Recording the granted GPUs in the status keeps the finalizer.
LEMMA GPUAllocationsField ==
  ASSUME NEW obj, IsService(obj), NEW v
  PROVE  LET new == [obj EXCEPT !.GPUAllocations = v]
         IN  IsService(new) /\ new.Finalizer = obj.Finalizer
BY DEF IsService

\* Adding or removing the finalizer leaves a well-formed object.
LEMMA FinalizerField ==
  ASSUME NEW obj, IsService(obj), NEW v
  PROVE  LET new == [obj EXCEPT !.Finalizer = v]
         IN  IsService(new) /\ new.Finalizer = v
BY DEF IsService

\* A worker between two reconciles is well formed.
LEMMA IdleIsSvcWorker == IsSvcWorker(IdleSvcWorker) /\ IdleSvcWorker.pc = "idle"
BY DEF IsSvcWorker, IdleSvcWorker

\* Steps that move the worker and leave the objects alone.
LEMMA MoveOInv ==
  ASSUME OInv, UNCHANGED <<svcObj, deployment, k8sService>>, IsSvcWorker(svcWorker'),
         svcWorker'.pc # "idle" => /\ svcWorker'.key = svcWorker.key
                                   /\ svcWorker'.fresh = svcWorker.fresh
                                   /\ svcWorker.pc # "idle",
         owed' \subseteq owed,
         svcWorker'.pc \in {"idle", "fail", "status", "release", "dropFinalizer"},
         svcWorker'.pc = "dropFinalizer" => svcWorker.key \notin owed'
  PROVE  OInv'
<1>1. SvcTypes'
  BY DEF SvcTypes, OInv
<1>2. WorkerKnows'
  BY DEF WorkerKnows, OInv
<1>3. ReleasedBeforeGone' /\ NoOrphans'
  BY DEF ReleasedBeforeGone, NoOrphans, OInv
<1>. QED  BY <1>1, <1>2, <1>3 DEF OInv

\* Every step of the InferenceService reconciler keeps the invariant: one case per
\* step of Reconcile and handleDeletion.
LEMMA SvcControllerOInv ==
  ASSUME OInv, SvcController
  PROVE  OInv'
<1> DEFINE w == svcWorker
           obj == svcObj[svcWorker.key]
<1>0. IsSvcWorker(w) /\ (w.pc # "idle" /\ w.fresh => IsService(obj))
  BY DEF OInv, SvcTypes, WorkerKnows
<1>1. ASSUME NEW s \in Services, SvcFetch(s) PROVE OInv'
  <2>1. /\ svcWorker'.pc = SvcStepAfter(svcObj[s]) /\ svcWorker'.key = s /\ IsSvcWorker(svcWorker')
        /\ s \in DOMAIN svcObj
        /\ UNCHANGED <<svcObj, deployment, k8sService, owed>>
    BY <1>1, IdleIsSvcWorker DEF SvcFetch, IsSvcWorker, IdleSvcWorker, apiVars
  <2>2. svcWorker'.pc \in {"terminating", "addFinalizer", "fail", "allocate"}
    BY <2>1 DEF SvcStepAfter
  <2>3. svcWorker'.pc = "allocate" => svcObj[s].Finalizer
    BY <2>1 DEF SvcStepAfter
  <2>4. SvcTypes'
    BY <2>1 DEF SvcTypes, OInv
  <2>5. WorkerKnows'
    BY <2>1, <2>2, <2>3 DEF WorkerKnows, Protected
  <2>6. ReleasedBeforeGone' /\ NoOrphans'
    BY <2>1 DEF ReleasedBeforeGone, NoOrphans, OInv
  <2>. QED  BY <2>4, <2>5, <2>6 DEF OInv
<1>2. CASE SvcAddFinalizer
  <2>1. w.pc # "idle" /\ w.fresh /\ WriteSvc([obj EXCEPT !.Finalizer = TRUE], IdleSvcWorker)
    BY <1>2 DEF SvcAddFinalizer, WriteSvc
  <2>2. LET new == [obj EXCEPT !.Finalizer = TRUE] IN IsService(new) /\ new.Finalizer
    BY <2>1, <1>0, FinalizerField
  <2>. QED  BY <2>1, <2>2, IdleIsSvcWorker, WriteKeepsOInv
<1>3. CASE SvcUpdateStatus
  <2> DEFINE new == [obj EXCEPT !.Phase = PhaseOf(w.found), !.GPUAllocations = w.granted]
  <2>1. w.pc # "idle" /\ w.fresh /\ WriteSvc(new, IdleSvcWorker)
    BY <1>3 DEF SvcUpdateStatus, WriteSvc
  <2>2. IsService(new) /\ new.Finalizer = obj.Finalizer
    <3> DEFINE n1 == [obj EXCEPT !.Phase = PhaseOf(w.found)]
    <3>1. IsService(n1) /\ n1.Finalizer = obj.Finalizer
      BY <2>1, <1>0, PhaseField
    <3>2. new = [n1 EXCEPT !.GPUAllocations = w.granted]
      OBVIOUS
    <3>. HIDE DEF n1, new
    <3>. QED  BY <3>1, <3>2, GPUAllocationsField
  <2>. QED  BY <2>1, <2>2, IdleIsSvcWorker, WriteKeepsOInv
<1>4. CASE SvcUpdateStatusWithError
  <2> DEFINE allocs == IF w.granted = {} THEN obj.GPUAllocations ELSE w.granted
             new == [obj EXCEPT !.Phase = "Failed", !.Error = TRUE, !.GPUAllocations = allocs]
  <2>1. w.pc # "idle" /\ w.fresh /\ WriteSvc(new, IdleSvcWorker)
    BY <1>4 DEF SvcUpdateStatusWithError, WriteSvc
  <2>. HIDE DEF allocs
  <2>2. IsService(new) /\ new.Finalizer = obj.Finalizer
    <3> DEFINE n1 == [obj EXCEPT !.Phase = "Failed"]
               n2 == [n1 EXCEPT !.Error = TRUE]
    <3>1. IsService(n1) /\ n1.Finalizer = obj.Finalizer
      BY <2>1, <1>0, PhaseField
    <3>2. new = [n2 EXCEPT !.GPUAllocations = allocs]
      OBVIOUS
    <3>. HIDE DEF n1, new
    <3>3. IsService(n2) /\ n2.Finalizer = obj.Finalizer
      BY <3>1, ErrorField
    <3>. HIDE DEF n2
    <3>. QED  BY <3>2, <3>3, GPUAllocationsField
  <2>. QED  BY <2>1, <2>2, IdleIsSvcWorker, WriteKeepsOInv
<1>5. CASE SvcMarkTerminating
  <2> DEFINE new == [obj EXCEPT !.Phase = "Terminating"]
             next == [w EXCEPT !.pc = "release"]
  <2>1. w.pc # "idle" /\ w.fresh /\ WriteSvc(new, next)
    BY <1>5 DEF SvcMarkTerminating, WriteSvc
  <2>2. IsService(new) /\ new.Finalizer = obj.Finalizer
    BY <2>1, <1>0, PhaseField
  <2>3. IsSvcWorker(next) /\ next.pc = "release" /\ next.key = w.key
    BY <1>0 DEF IsSvcWorker
  <2>. QED  BY <2>1, <2>2, <2>3, WriteKeepsOInv
<1>6. CASE SvcAllocate
  <2> DEFINE s == w.key
  <2>1. w.pc = "allocate" /\ s \in Services /\ Protected(s)
    BY <1>6 DEF SvcAllocate, OInv, WorkerKnows
  <2>2. UNCHANGED <<svcObj, deployment, k8sService>>
    BY <1>6 DEF SvcAllocate, apiVars
  <2>3. CASE /\ svcWorker' = [w EXCEPT !.pc = "deploy", !.granted = svcWorker'.granted]
             /\ owed' = owed \cup {s}
    <3>1. IsSvcWorker(svcWorker') /\ svcWorker'.pc = "deploy" /\ svcWorker'.key = s
          /\ svcWorker'.fresh = w.fresh
      BY <2>3, <1>0 DEF IsSvcWorker
    <3>2. SvcTypes'
      BY <2>1, <2>2, <2>3, <3>1 DEF SvcTypes, OInv
    <3>3. WorkerKnows'
      BY <2>1, <2>2, <3>1 DEF WorkerKnows, OInv, Protected
    <3>4. ReleasedBeforeGone' /\ NoOrphans'
      BY <2>1, <2>2, <2>3 DEF ReleasedBeforeGone, NoOrphans, OInv, Protected
    <3>. QED  BY <3>2, <3>3, <3>4 DEF OInv
  <2>4. CASE svcWorker' = [w EXCEPT !.pc = "fail"] /\ owed' = owed
    <3>1. IsSvcWorker(svcWorker') /\ svcWorker'.pc = "fail" /\ svcWorker'.key = s
          /\ svcWorker'.fresh = w.fresh
      BY <2>4, <1>0 DEF IsSvcWorker
    <3>. QED  BY <2>1, <2>2, <2>4, <3>1, MoveOInv
  <2>5. \/ /\ \E g : svcWorker' = [w EXCEPT !.pc = "deploy", !.granted = g]
           /\ owed' = owed \cup {s}
        \/ svcWorker' = [w EXCEPT !.pc = "fail"] /\ owed' = owed
    BY <1>6 DEF SvcAllocate
  <2>6. ASSUME NEW g, svcWorker' = [w EXCEPT !.pc = "deploy", !.granted = g]
        PROVE  svcWorker' = [w EXCEPT !.pc = "deploy", !.granted = svcWorker'.granted]
    BY <2>6, <1>0 DEF IsSvcWorker
  <2>. QED  BY <2>3, <2>4, <2>5, <2>6
<1>7. CASE SvcReconcileDeployment
  <2> DEFINE s == w.key
  <2>1. w.pc = "deploy" /\ s \in Services /\ Protected(s)
    BY <1>7 DEF SvcReconcileDeployment, OInv, WorkerKnows
  <2>2. UNCHANGED <<svcObj, k8sService, owed>>
    BY <1>7 DEF SvcReconcileDeployment
  <2>3. ASSUME NEW d, deployment' = [deployment EXCEPT ![s] = d],
               svcWorker' = [w EXCEPT !.pc = "service", !.found = d]
        PROVE  OInv'
    <3>1. IsSvcWorker(svcWorker') /\ svcWorker'.pc = "service" /\ svcWorker'.key = s
          /\ svcWorker'.fresh = w.fresh
      BY <2>3, <1>0 DEF IsSvcWorker
    <3>2. SvcTypes'
      BY <2>1, <2>2, <2>3, <3>1 DEF SvcTypes, OInv
    <3>3. WorkerKnows'
      BY <2>1, <2>2, <3>1 DEF WorkerKnows, OInv, Protected
    <3>4. ReleasedBeforeGone'
      BY <2>2 DEF ReleasedBeforeGone, OInv
    <3>5. NoOrphans'
      BY <2>1, <2>2, <2>3 DEF NoOrphans, OInv, Protected, SvcTypes
    <3>. QED  BY <3>2, <3>3, <3>4, <3>5 DEF OInv
  <2>4. ASSUME svcWorker' = [w EXCEPT !.pc = "fail"], deployment' = deployment PROVE OInv'
    <3>1. IsSvcWorker(svcWorker') /\ svcWorker'.pc = "fail" /\ svcWorker'.key = s
          /\ svcWorker'.fresh = w.fresh
      BY <2>4, <1>0 DEF IsSvcWorker
    <3>. QED  BY <2>1, <2>2, <2>4, <3>1, MoveOInv
  <2>. QED  BY <1>7, <2>3, <2>4 DEF SvcReconcileDeployment
<1>8. CASE SvcReconcileService
  <2> DEFINE s == w.key
  <2>1. w.pc = "service" /\ s \in Services /\ Protected(s)
    BY <1>8 DEF SvcReconcileService, OInv, WorkerKnows
  <2>2. UNCHANGED <<svcObj, deployment, owed>>
    BY <1>8 DEF SvcReconcileService
  <2>3. ASSUME k8sService' = [k8sService EXCEPT ![s] = TRUE],
               svcWorker' = [w EXCEPT !.pc = "status"]
        PROVE  OInv'
    <3>1. IsSvcWorker(svcWorker') /\ svcWorker'.pc = "status" /\ svcWorker'.key = s
          /\ svcWorker'.fresh = w.fresh
      BY <2>3, <1>0 DEF IsSvcWorker
    <3>2. SvcTypes'
      <4>1. DOMAIN k8sService' = Services /\ k8sService' = [t \in Services |-> k8sService'[t]]
        BY <2>3 DEF SvcTypes, OInv
      <4>. QED  BY <2>1, <2>2, <3>1, <4>1 DEF SvcTypes, OInv
    <3>3. WorkerKnows'
      BY <2>1, <2>2, <3>1 DEF WorkerKnows, OInv, Protected
    <3>4. ReleasedBeforeGone'
      BY <2>2 DEF ReleasedBeforeGone, OInv
    <3>5. NoOrphans'
      <4>1. \A t \in Services : t # s => k8sService'[t] = k8sService[t]
        BY <2>3 DEF SvcTypes, OInv
      <4>. QED  BY <2>1, <2>2, <4>1 DEF NoOrphans, OInv, Protected
    <3>. QED  BY <3>2, <3>3, <3>4, <3>5 DEF OInv
  <2>4. ASSUME svcWorker' = [w EXCEPT !.pc = "fail"], k8sService' = k8sService PROVE OInv'
    <3>1. IsSvcWorker(svcWorker') /\ svcWorker'.pc = "fail" /\ svcWorker'.key = s
          /\ svcWorker'.fresh = w.fresh
      BY <2>4, <1>0 DEF IsSvcWorker
    <3>. QED  BY <2>1, <2>2, <2>4, <3>1, MoveOInv
  <2>. QED  BY <1>8, <2>3, <2>4 DEF SvcReconcileService
<1>9. CASE SvcRelease
  <2>1. /\ w.pc = "release" /\ svcWorker' = [w EXCEPT !.pc = "dropFinalizer"]
        /\ owed' = owed \ {w.key} /\ UNCHANGED <<svcObj, deployment, k8sService>>
    BY <1>9 DEF SvcRelease, apiVars
  <2>2. IsSvcWorker(svcWorker') /\ svcWorker'.pc = "dropFinalizer" /\ svcWorker'.key = w.key
        /\ svcWorker'.fresh = w.fresh
    BY <2>1, <1>0 DEF IsSvcWorker
  <2>. QED  BY <2>1, <2>2, MoveOInv
<1>10. CASE SvcDropFinalizer
  <2> DEFINE s == w.key
  <2>1. /\ w.pc = "dropFinalizer" /\ s \notin owed /\ s \in Services
        /\ svcObj' = mig!Drop(svcObj, {s})
        /\ deployment' = [deployment EXCEPT ![s] = "none"]
        /\ k8sService' = [k8sService EXCEPT ![s] = FALSE]
        /\ svcWorker' = IdleSvcWorker /\ owed' = owed
    BY <1>10 DEF SvcDropFinalizer, RemoveService, OInv, WorkerKnows
  <2>2. /\ DOMAIN svcObj' = DOMAIN svcObj \ {s}
        /\ \A t \in DOMAIN svcObj' : svcObj'[t] = svcObj[t]
        /\ svcObj' = [t \in DOMAIN svcObj' |-> svcObj'[t]]
    BY <2>1 DEF mig!Drop
  <2>3. SvcTypes'
    <3>1. DOMAIN deployment' = Services /\ deployment' = [t \in Services |-> deployment'[t]]
      BY <2>1 DEF SvcTypes, OInv
    <3>2. DOMAIN k8sService' = Services /\ k8sService' = [t \in Services |-> k8sService'[t]]
      BY <2>1 DEF SvcTypes, OInv
    <3>. QED  BY <2>1, <2>2, <3>1, <3>2, IdleIsSvcWorker DEF SvcTypes, OInv
  <2>4. WorkerKnows'
    BY <2>1, IdleIsSvcWorker DEF WorkerKnows
  <2>5. ReleasedBeforeGone'
    BY <2>1, <2>2 DEF ReleasedBeforeGone, OInv
  <2>6. NoOrphans'
    BY <2>1, <2>2 DEF NoOrphans, OInv, SvcTypes
  <2>. QED  BY <2>3, <2>4, <2>5, <2>6 DEF OInv
<1>11. CASE SvcWriteRefused
  <2>1. /\ UNCHANGED <<svcObj, deployment, k8sService, owed>>
        /\ w.pc # "idle"
        /\ svcWorker' = IF w.pc = "terminating" THEN [w EXCEPT !.pc = "release"] ELSE IdleSvcWorker
    BY <1>11 DEF SvcWriteRefused, apiVars
  <2>2. CASE w.pc = "terminating"
    <3>1. IsSvcWorker(svcWorker') /\ svcWorker'.pc = "release" /\ svcWorker'.key = w.key
          /\ svcWorker'.fresh = w.fresh
      BY <2>1, <2>2, <1>0 DEF IsSvcWorker
    <3>. QED  BY <2>1, <3>1, MoveOInv
  <2>3. CASE w.pc # "terminating"
    BY <2>1, <2>3, IdleIsSvcWorker, MoveOInv
  <2>. QED  BY <2>2, <2>3
<1>. QED
  BY <1>1, <1>2, <1>3, <1>4, <1>5, <1>6, <1>7, <1>8, <1>9, <1>10, <1>11 DEF SvcController

\* Every step of the operator keeps the invariant.
LEMMA NextOInv == OInv /\ [Next]_vars => OInv'
<1>. SUFFICES ASSUME OInv, [Next]_vars PROVE OInv'
  OBVIOUS
<1>1. CASE UNCHANGED vars
  BY <1>1, SilentOInv DEF vars, apiVars, svcVars
<1>2. CASE PoolController
  BY <1>2, PoolSideIsSilent, SilentOInv
<1>3. CASE SvcController
  BY <1>3, SvcControllerOInv
<1>4. CASE Users
  BY <1>4, UserOInv, PoolSideIsSilent, SilentOInv DEF Users
<1>5. ASSUME NEW s \in Services, DeploymentProgress(s) PROVE OInv'
  <2>1. PICK d : deployment' = [deployment EXCEPT ![s] = d]
    BY <1>5 DEF DeploymentProgress
  <2>2. deployment[s] # "none" /\ UNCHANGED <<svcObj, k8sService, svcWorker, owed>>
    BY <1>5 DEF DeploymentProgress
  <2>3. SvcTypes'
    BY <2>1, <2>2 DEF SvcTypes, OInv
  <2>4. WorkerKnows' /\ ReleasedBeforeGone'
    BY <2>2 DEF WorkerKnows, ReleasedBeforeGone, OInv, Protected
  <2>5. NoOrphans'
    BY <2>1, <2>2 DEF NoOrphans, OInv, SvcTypes
  <2>. QED  BY <2>3, <2>4, <2>5 DEF OInv
<1>6. CASE Restart
  <2>1. UNCHANGED <<svcObj, deployment, k8sService>> /\ svcWorker' = IdleSvcWorker /\ owed' = {}
    BY <1>6 DEF Restart, apiVars
  <2>. QED  BY <2>1, IdleIsSvcWorker, MoveOInv
<1>. QED
  BY <1>1, <1>2, <1>3, <1>4, <1>5, <1>6 DEF Next

\* In every run of the operator, GPUs granted to a service keep its object and
\* its finalizer in place until they are given back: no interleaving of users,
\* workers, refused writes and restarts loses the call of Release.
THEOREM ReleasedBeforeGoneTheorem == Spec => []ReleasedBeforeGone
<1>1. OInv => ReleasedBeforeGone
  BY DEF OInv
<1>. QED
  BY InitOInv, NextOInv, <1>1, PTL DEF Spec

\* In every run of the operator, no Deployment and no Service appears under
\* the name of a service that is gone.
THEOREM NoOrphansTheorem == Spec => []NoOrphans
<1>1. OInv => NoOrphans
  BY DEF OInv
<1>. QED
  BY InitOInv, NextOInv, <1>1, PTL DEF Spec


-----------------------------------------------------------------------------
(* Types.  Those of the MIG manager first: the GPU manager calls its         *)
(* NewMIGManager, ConfigurePool, CleanupPool and Allocate.  A pool's map is  *)
(* finite, so that its length, which createInstances numbers new instances   *)
(* with, is a number.                                                        *)
PoolsFinite == \A p \in DOMAIN pools : IsFiniteSet(DOMAIN pools[p])

MIGTypes == mig!TypeOK /\ PoolsFinite

\* The Cardinality of the MIG manager's module is the standard one.
LEMMA MIGCardinality == ASSUME NEW S PROVE mig!Cardinality(S) = Cardinality(S)
BY DEF mig!Cardinality, Cardinality

\* One more key than K.
WithNewID(K, profile, i) == K \cup {<<profile, mig!Cardinality(K) + i - 1>>}

\* f has the keys of a map that starts with K and gets n new instances.
IsGrowth(f, K, profile, n) ==
  f = [i \in 0..n |-> IF i = 0 THEN K ELSE WithNewID(f[i-1], profile, i)]

\* There is such a growth.  (If there were a least n without one, the growth
\* of n - 1 instances would have no next step.)
LEMMA GrowthExists ==
  ASSUME NEW K, NEW profile, NEW n \in Nat
  PROVE  \E f : IsGrowth(f, K, profile, n)
<1> DEFINE T == {m \in Nat : ~ \E f : IsGrowth(f, K, profile, m)}
           R == OpToRel(<, Nat)
<1>1. SUFFICES ASSUME T # {} PROVE FALSE
  OBVIOUS
<1>2. T \subseteq Nat
  OBVIOUS
<1>3. \E m \in T : \A y \in T : ~ (<<y, m>> \in R)
  <2>1. IsWellFoundedOn(R, Nat)
    BY NatLessThanWellFounded
  <2> HIDE DEF T, R
  <2> QED BY <1>1, <1>2, <2>1, WFMin
<1>4. PICK m \in T : \A y \in T : ~ (<<y, m>> \in R)
  BY <1>3
<1>5. m \in Nat /\ (m # 0 => m - 1 \in Nat /\ m - 1 \notin T)
  <2> HIDE DEF T
  <2>1. m \in Nat /\ \A y \in T : ~ (y < m)
    BY <1>2, <1>4 DEF OpToRel
  <2> QED BY <2>1
<1>6. CASE m = 0
  <2>1. IsGrowth([i \in 0..0 |-> K], K, profile, 0)
    BY DEF IsGrowth
  <2> QED BY <2>1, <1>4, <1>6
<1>7. CASE m # 0
  <2>1. PICK f : IsGrowth(f, K, profile, m - 1)
    BY <1>5, <1>7
  <2> DEFINE g == [i \in 0..m |-> IF i = m THEN WithNewID(f[m-1], profile, m) ELSE f[i]]
  <2>2. ASSUME NEW i \in 0..m
        PROVE  g[i] = IF i = 0 THEN K ELSE WithNewID(g[i-1], profile, i)
    <3>1. CASE i = m
      BY <1>5, <1>7, <3>1
    <3>2. CASE i # m
      <4>1. i \in 0..(m-1) /\ (i # 0 => i - 1 \in 0..m /\ i - 1 # m)
        BY <1>5, <3>2
      <4>2. f[i] = IF i = 0 THEN K ELSE WithNewID(f[i-1], profile, i)
        BY <2>1, <4>1 DEF IsGrowth
      <4> QED BY <3>2, <4>1, <4>2
    <3> QED BY <3>1, <3>2
  <2>3. IsGrowth(g, K, profile, m)
    BY <2>2 DEF IsGrowth
  <2> HIDE DEF g
  <2> QED BY <1>4, <2>3
<1> QED BY <1>6, <1>7

\* The keys stay finite.
LEMMA GrowthFinite ==
  ASSUME NEW K, IsFiniteSet(K), NEW profile, NEW n \in Nat, NEW f, IsGrowth(f, K, profile, n)
  PROVE  \A i \in 0..n : IsFiniteSet(f[i])
<1> DEFINE T == {m \in 0..n : ~ IsFiniteSet(f[m])}
           R == OpToRel(<, Nat)
<1>1. SUFFICES ASSUME T # {} PROVE FALSE
  OBVIOUS
<1>2. T \subseteq Nat
  OBVIOUS
<1>3. \E m \in T : \A y \in T : ~ (<<y, m>> \in R)
  <2>1. IsWellFoundedOn(R, Nat)
    BY NatLessThanWellFounded
  <2> HIDE DEF T, R
  <2> QED BY <1>1, <1>2, <2>1, WFMin
<1>4. PICK m \in T : \A y \in T : ~ (<<y, m>> \in R)
  BY <1>3
<1>5. m \in 0..n /\ ~ IsFiniteSet(f[m])
  BY <1>4
<1>6. f[m] = IF m = 0 THEN K ELSE WithNewID(f[m-1], profile, m)
  BY <1>5 DEF IsGrowth
<1>7. m # 0
  BY <1>5, <1>6
<1>8. m - 1 \in 0..n /\ m - 1 \notin T
  <2> HIDE DEF T
  <2>1. \A y \in T : ~ (y < m)
    BY <1>2, <1>4 DEF OpToRel
  <2> QED BY <1>5, <1>7, <2>1
<1>9. IsFiniteSet(f[m-1])
  BY <1>8
<1>10. IsFiniteSet(WithNewID(f[m-1], profile, m))
  BY <1>9, FS_AddElement DEF WithNewID
<1> QED BY <1>5, <1>6, <1>7, <1>10

\* createInstances makes IDs of the profile with a number.
LEMMA NewIDsType ==
  ASSUME NEW p, IsFiniteSet(DOMAIN pools[p]), NEW profile \in Profiles, NEW n \in Nat
  PROVE  mig!NewInstanceIDs(p, profile, n) \in [1..n -> mig!InstanceIDs]
<1> DEFINE K == DOMAIN pools[p]
           f == CHOOSE g : IsGrowth(g, K, profile, n)
<1>1. mig!NewInstanceIDs(p, profile, n) =
        [i \in 1..n |-> <<profile, mig!Cardinality(f[i-1]) + i - 1>>]
  BY DEF mig!NewInstanceIDs, IsGrowth, WithNewID
<1>2. IsGrowth(f, K, profile, n)
  BY GrowthExists
<1> HIDE DEF f
<1>3. \A i \in 0..n : IsFiniteSet(f[i])
  BY <1>2, GrowthFinite
<1>4. ASSUME NEW i \in 1..n PROVE <<profile, mig!Cardinality(f[i-1]) + i - 1>> \in mig!InstanceIDs
  <2>1. i - 1 \in 0..n /\ i - 1 \in Nat
    OBVIOUS
  <2>2. mig!Cardinality(f[i-1]) \in Nat
    BY <1>3, <2>1, FS_CardinalityType, MIGCardinality
  <2>3. mig!Cardinality(f[i-1]) + i - 1 \in Nat
    BY <2>1, <2>2
  <2> QED BY <2>3 DEF mig!InstanceIDs
<1> QED BY <1>1, <1>4

\* What findAvailableInstances finds are at most n objects of the heap.
LEMMA FoundTyped ==
  ASSUME mig!TypeOK, NEW p \in DOMAIN pools, NEW profile, NEW n \in Counts,
         NEW found \in mig!findAvailableInstances(p, profile, n)
  PROVE  found \subseteq DOMAIN heap /\ n - mig!Cardinality(found) \in Nat
<1>1. /\ found \subseteq mig!Objects(pools[p])
      /\ mig!Cardinality(found) = n \/ mig!Cardinality(found) < n
  BY DEF mig!findAvailableInstances
<1>2. mig!Objects(pools[p]) \subseteq DOMAIN heap
  BY DEF mig!TypeOK, mig!IsMap, mig!Objects
<1>3. DOMAIN heap = 1..Len(heap) /\ Len(heap) \in Nat
  BY LenProperties DEF mig!TypeOK
<1>4. IsFiniteSet(1..Len(heap))
  BY <1>3, FS_Interval
<1>5. mig!Cardinality(found) \in Nat
  BY <1>1, <1>2, <1>3, <1>4, FS_Subset, FS_CardinalityType, MIGCardinality
<1>6. n \in Nat
  BY GPUManagerAssumption
<1> QED BY <1>1, <1>2, <1>5, <1>6

\* A map of references stays one, with more entries and when the heap grows.
LEMMA PutMap ==
  ASSUME NEW m, NEW new, NEW K, NEW V, NEW W, V \subseteq W,
         mig!IsMap(m, K, V), mig!IsMap(new, K, W)
  PROVE  mig!IsMap(mig!Put(m, new), K, W)
BY DEF mig!IsMap, mig!Put

\* It stays one with fewer entries.
LEMMA DropMap ==
  ASSUME NEW m, NEW D, NEW K, NEW V, mig!IsMap(m, K, V)
  PROVE  mig!IsMap(mig!Drop(m, D), K, V)
BY DEF mig!IsMap, mig!Drop

\* Allocate keeps the types.
LEMMA AllocateTInv ==
  ASSUME MIGTypes, NEW p, NEW s \in Services, NEW profile, NEW n \in Counts, NEW found,
         mig!Allocate(p, s, profile, n, found)
  PROVE  MIGTypes'
<1> DEFINE missing == n - mig!Cardinality(found)
           ids     == mig!NewInstanceIDs(p, profile, missing)
           new     == {Len(heap) + i : i \in 1..missing}
           refOf   == [id \in {ids[i] : i \in 1..missing} |->
                         Len(heap) + (CHOOSE i \in 1..missing : ids[i] = id)]
           granted == found \cup new
           size    == Len(heap) + missing
<1>1. /\ p \in DOMAIN pools /\ profile \in Profiles
      /\ found \in mig!findAvailableInstances(p, profile, n)
      /\ size <= MaxObjects
      /\ heap' = [o \in 1..size |->
                    [id |-> IF o \in new THEN ids[o - Len(heap)] ELSE heap[o].id,
                     InUse |-> IF o \in granted THEN TRUE ELSE heap[o].InUse,
                     AllocatedTo |-> IF o \in granted THEN s ELSE heap[o].AllocatedTo]]
      /\ pools' = [pools EXCEPT ![p] = mig!Put(pools[p], refOf)]
      /\ instances' = mig!Put(instances, refOf)
      /\ held' = [held EXCEPT ![s] = held[s] \cup granted]
  BY DEF mig!Allocate
<1>2. found \subseteq DOMAIN heap /\ missing \in Nat
  BY <1>1, FoundTyped DEF MIGTypes
<1>3. /\ heap \in Seq(mig!MIGInstanceInfo) /\ Len(heap) \in Nat /\ DOMAIN heap = 1..Len(heap)
      /\ \A o \in DOMAIN heap : heap[o] \in mig!MIGInstanceInfo
  BY LenProperties, ElementOfSeq DEF MIGTypes, mig!TypeOK
<1>4. ids \in [1..missing -> mig!InstanceIDs]
  BY <1>1, <1>2, NewIDsType DEF MIGTypes, PoolsFinite
<1> HIDE DEF missing, ids
<1>5. size \in Nat /\ new \subseteq 1..size /\ DOMAIN heap \subseteq 1..size
  BY <1>2, <1>3
<1>6. mig!IsMap(refOf, mig!InstanceIDs, 1..size) /\ IsFiniteSet(DOMAIN refOf)
  <2>1. ASSUME NEW id \in {ids[i] : i \in 1..missing} PROVE refOf[id] \in 1..size
    <3>1. \E i \in 1..missing : ids[i] = id
      OBVIOUS
    <3>2. (CHOOSE i \in 1..missing : ids[i] = id) \in 1..missing
      BY <3>1
    <3>. QED  BY <3>2, <1>2, <1>3
  <2>2. {ids[i] : i \in 1..missing} \subseteq mig!InstanceIDs
    BY <1>4
  <2>3. IsFiniteSet(1..missing)
    BY <1>2, FS_Interval
  <2>4. IsFiniteSet({ids[i] : i \in 1..missing})
    <3> DEFINE T == {ids[i] : i \in 1..missing}
    <3>1. ids \in Surjection(1..missing, T)
      BY <1>4 DEF Surjection
    <3> HIDE DEF T
    <3>2. IsFiniteSet(T)
      BY <2>3, <3>1, FS_Surjection
    <3> QED BY <3>2 DEF T
  <2> QED BY <2>1, <2>2, <2>4 DEF mig!IsMap
<1> HIDE DEF refOf
<1>7. ASSUME NEW o \in 1..size
      PROVE  heap'[o] \in mig!MIGInstanceInfo
  <2>1. o \in new \/ o \in DOMAIN heap
    <3>1. CASE o \in DOMAIN heap
      BY <3>1
    <3>2. CASE o \notin DOMAIN heap
      <4>1. o - Len(heap) \in 1..missing /\ o = Len(heap) + (o - Len(heap))
        BY <3>2, <1>2, <1>3
      <4> QED BY <4>1
    <3> QED BY <3>1, <3>2
  <2>2. o \in new => ids[o - Len(heap)] \in mig!InstanceIDs
    <3>1. o \in new => o - Len(heap) \in 1..missing
      BY <1>2, <1>3
    <3> QED BY <3>1, <1>4
  <2> HIDE DEF new
  <2>3. o \in DOMAIN heap => /\ heap[o].id \in mig!InstanceIDs /\ heap[o].InUse \in BOOLEAN
                             /\ heap[o].AllocatedTo \in Services \cup {NoService}
    BY <1>3 DEF mig!MIGInstanceInfo
  <2>4. (IF o \in new THEN ids[o - Len(heap)] ELSE heap[o].id) \in mig!InstanceIDs
    BY <2>1, <2>2, <2>3
  <2>5. (IF o \in granted THEN TRUE ELSE heap[o].InUse) \in BOOLEAN
    BY <2>1, <2>3
  <2>6. (IF o \in granted THEN s ELSE heap[o].AllocatedTo) \in Services \cup {NoService}
    BY <2>1, <2>3
  <2> QED BY <1>1, <2>4, <2>5, <2>6 DEF mig!MIGInstanceInfo
<1> HIDE DEF new, size
<1>8. heap' \in Seq(mig!MIGInstanceInfo) /\ Len(heap') = size /\ DOMAIN heap' = 1..size
  <2>1. heap' \in [1..size -> mig!MIGInstanceInfo]
    BY <1>1, <1>7
  <2>2. heap' \in Seq(mig!MIGInstanceInfo)
    BY <1>5, <2>1, SeqDef
  <2> QED BY <1>5, <2>1, <2>2, LenProperties
<1>9. mig!IsMap(instances', mig!InstanceIDs, DOMAIN heap')
  BY <1>1, <1>5, <1>6, <1>8, PutMap DEF MIGTypes, mig!TypeOK
<1>10. ASSUME NEW q \in DOMAIN pools'
       PROVE  mig!IsMap(pools'[q], mig!InstanceIDs, DOMAIN heap') /\ IsFiniteSet(DOMAIN pools'[q])
  <2>1. q \in DOMAIN pools /\ mig!IsMap(pools[q], mig!InstanceIDs, DOMAIN heap)
        /\ IsFiniteSet(DOMAIN pools[q])
    BY <1>1 DEF MIGTypes, mig!TypeOK, PoolsFinite
  <2>2. CASE q = p
    <3>1. pools'[q] = mig!Put(pools[q], refOf)
      BY <1>1, <2>2
    <3>2. mig!IsMap(pools'[q], mig!InstanceIDs, DOMAIN heap')
      BY <1>5, <1>6, <1>8, <2>1, <3>1, PutMap
    <3>3. DOMAIN mig!Put(pools[q], refOf) = DOMAIN pools[q] \cup DOMAIN refOf
      BY DEF mig!Put
    <3> QED BY <1>6, <2>1, <3>1, <3>2, <3>3, FS_Union
  <2>3. CASE q # p
    <3>1. pools'[q] = pools[q]
      BY <1>1, <2>1, <2>3
    <3> QED BY <1>5, <1>8, <2>1, <3>1 DEF mig!IsMap
  <2> QED BY <2>2, <2>3
<1>11. held' \in [Services -> SUBSET DOMAIN heap']
  BY <1>1, <1>2, <1>5, <1>8 DEF MIGTypes, mig!TypeOK
<1>12. DOMAIN pools' \subseteq Pools
  BY <1>1 DEF MIGTypes, mig!TypeOK
<1> QED BY <1>1, <1>8, <1>9, <1>10, <1>11, <1>12 DEF MIGTypes, mig!TypeOK, PoolsFinite

\* The operations that only change the maps keep the types.
LEMMA MapsOnlyTInv ==
  ASSUME MIGTypes, UNCHANGED <<heap, held>>, DOMAIN pools' \subseteq Pools,
         mig!IsMap(instances', mig!InstanceIDs, DOMAIN heap),
         \A p \in DOMAIN pools' :
           mig!IsMap(pools'[p], mig!InstanceIDs, DOMAIN heap) /\ IsFiniteSet(DOMAIN pools'[p])
  PROVE  MIGTypes'
BY DEF MIGTypes, mig!TypeOK, PoolsFinite

\* ConfigurePool keeps the types: the new configuration has no instances.
LEMMA ConfigureTInv ==
  ASSUME MIGTypes, NEW p \in Pools, NEW profiles, mig!ConfigurePool(p, profiles)
  PROVE  MIGTypes'
<1>1. /\ pools' = mig!Put(pools, [q \in {p} |-> <<>>]) /\ instances' = instances
      /\ UNCHANGED <<heap, held>>
  BY DEF mig!ConfigurePool
<1>2. \A q \in DOMAIN pools' : pools'[q] = <<>> \/ (q \in DOMAIN pools /\ pools'[q] = pools[q])
  BY <1>1 DEF mig!Put
<1>3. mig!IsMap(<<>>, mig!InstanceIDs, DOMAIN heap) /\ IsFiniteSet(DOMAIN <<>>)
  <2>1. DOMAIN <<>> = {}
    OBVIOUS
  <2>2. <<>> \in [{} -> DOMAIN heap]
    OBVIOUS
  <2> QED BY <2>1, <2>2, FS_EmptySet DEF mig!IsMap
<1>4. DOMAIN pools' \subseteq Pools
  BY <1>1 DEF mig!Put, MIGTypes, mig!TypeOK
<1> QED BY <1>1, <1>2, <1>3, <1>4, MapsOnlyTInv DEF MIGTypes, mig!TypeOK, PoolsFinite

\* CleanupPool keeps the types.
LEMMA CleanupTInv ==
  ASSUME MIGTypes, NEW p, mig!CleanupPool(p)
  PROVE  MIGTypes'
<1>1. /\ pools' = mig!Drop(pools, {p}) /\ instances' = mig!Drop(instances, DOMAIN pools[p])
      /\ UNCHANGED <<heap, held>>
  BY DEF mig!CleanupPool
<1>2. \A q \in DOMAIN pools' : q \in DOMAIN pools /\ pools'[q] = pools[q]
  BY <1>1 DEF mig!Drop
<1>3. mig!IsMap(instances', mig!InstanceIDs, DOMAIN heap)
  BY <1>1, DropMap DEF MIGTypes, mig!TypeOK
<1> QED BY <1>1, <1>2, <1>3, MapsOnlyTInv DEF MIGTypes, mig!TypeOK, PoolsFinite

\* The manager starts well typed.
LEMMA InitTInv == mig!NewMIGManager => MIGTypes
<1> SUFFICES ASSUME mig!NewMIGManager PROVE MIGTypes
  OBVIOUS
<1>1. heap = <<>> /\ pools = <<>> /\ instances = <<>> /\ held = [s \in Services |-> {}]
  BY DEF mig!NewMIGManager
<1>2. heap \in Seq(mig!MIGInstanceInfo) /\ Len(heap) <= MaxObjects
  BY <1>1, EmptySeq, GPUManagerAssumption
<1>3. DOMAIN pools = {} /\ DOMAIN instances = {} /\ instances \in [{} -> DOMAIN heap]
  BY <1>1
<1>4. held \in [Services -> SUBSET DOMAIN heap]
  BY <1>1
<1> QED BY <1>2, <1>3, <1>4 DEF MIGTypes, mig!TypeOK, PoolsFinite, mig!IsMap


-----------------------------------------------------------------------------
(* The inductive invariant behind TypeOK, in the parts that belong to the    *)
(* GPU manager, to the pool's and to the service's reconciler.  No PoolInfo  *)
(* ever has a GPU; a worker that is not idle has the key and the spec of an  *)
(* object; a pool whose status is written next was registered.               *)
ManagerTypes ==
  /\ MIGTypes
  /\ \A p \in DOMAIN poolInfos : poolInfos[p].GPUs = {} /\ poolInfos[p].AvailableGPUs = 0

PoolTypes ==
  /\ mig!IsMap(poolObj, Pools, GPUPool)
  /\ poolWorker \in PoolWorkerType
  /\ poolWorker.pc # "idle" => poolWorker.key \in Pools /\ poolWorker.spec \in PoolSpecs
  /\ poolWorker.pc = "status" => poolWorker.key \in DOMAIN poolInfos

ServiceTypes ==
  /\ mig!IsMap(svcObj, Services, InferenceService)
  /\ deployment \in [Services -> DeploymentStates]
  /\ k8sService \in [Services -> BOOLEAN]
  /\ svcWorker \in SvcWorkerType
  /\ svcWorker.pc # "idle" => svcWorker.key \in Services /\ svcWorker.spec \in SvcSpecs
  /\ owed \subseteq Services

\* An entry of a map is replaced by a value of the same kind.
LEMMA UpdateMap ==
  ASSUME NEW m, NEW K, NEW V, mig!IsMap(m, K, V), NEW k, NEW v, k \in DOMAIN m => v \in V
  PROVE  mig!IsMap([m EXCEPT ![k] = v], K, V)
BY DEF mig!IsMap

\* The spec of a service has a request for a positive number of GPUs.
LEMMA SpecRequest ==
  ASSUME NEW spec \in SvcSpecs
  PROVE  spec.Req \in Request /\ spec.Req.GPUCount \in Counts
BY OperatorAssumption DEF Request

\* The manager's part is kept by every call of the GPU manager.
LEMMA RegisterTypes ==
  ASSUME ManagerTypes, NEW p \in Pools, NEW spec,
         RegisterPool(p, spec) \/ RegisterPoolError(p, spec)
  PROVE  ManagerTypes' /\ p \in DOMAIN poolInfos'
<1>1. poolInfos' = mig!Put(poolInfos,
        [q \in {p} |-> [SharingMode |-> spec.Mode, GPUs |-> {}, AvailableGPUs |-> 0]])
  BY DEF RegisterPool, RegisterPoolError, StorePoolInfo
<1>2. /\ \A q \in DOMAIN poolInfos' : poolInfos'[q].GPUs = {} /\ poolInfos'[q].AvailableGPUs = 0
      /\ p \in DOMAIN poolInfos'
  BY <1>1 DEF mig!Put, ManagerTypes
<1>3. mig!ConfigurePool(p, spec.Profiles) \/ UNCHANGED migVars
  BY DEF RegisterPool, RegisterPoolError, mig!ConfigurePoolError, mig!migVars, migVars
<1>4. CASE mig!ConfigurePool(p, spec.Profiles)
  BY <1>2, <1>4, ConfigureTInv DEF ManagerTypes
<1>5. CASE UNCHANGED migVars
  <2>1. MIGTypes'
    BY <1>5 DEF migVars, ManagerTypes, MIGTypes, PoolsFinite, mig!TypeOK
  <2> QED BY <1>2, <2>1 DEF ManagerTypes
<1> QED BY <1>3, <1>4, <1>5

\* UnregisterPool keeps it.
LEMMA UnregisterTypes ==
  ASSUME ManagerTypes, NEW p \in Pools, UnregisterPool(p)
  PROVE  ManagerTypes'
<1>1. \A q \in DOMAIN poolInfos' : poolInfos'[q].GPUs = {} /\ poolInfos'[q].AvailableGPUs = 0
  BY DEF UnregisterPool, mig!Drop, ManagerTypes
<1>2. mig!CleanupPool(p) \/ UNCHANGED migVars
  BY DEF UnregisterPool, mig!CleanupPoolError, mig!CleanupPoolAbsent, mig!migVars, migVars
<1>3. CASE mig!CleanupPool(p)
  BY <1>1, <1>3, CleanupTInv DEF ManagerTypes
<1>4. CASE UNCHANGED migVars
  <2>1. MIGTypes'
    BY <1>4 DEF migVars, ManagerTypes, MIGTypes, PoolsFinite, mig!TypeOK
  <2> QED BY <1>1, <2>1 DEF ManagerTypes
<1> QED BY <1>2, <1>3, <1>4

\* Nothing of the manager changes.
LEMMA SameManager ==
  ASSUME ManagerTypes, UNCHANGED managerVars
  PROVE  ManagerTypes'
BY DEF managerVars, ManagerTypes, MIGTypes, PoolsFinite, mig!TypeOK

\* Allocate keeps it, whether it succeeds or not.
LEMMA AllocateTypes ==
  ASSUME ManagerTypes, NEW s \in Services, NEW req, req.GPUCount \in Counts,
         (\E found \in SUBSET DOMAIN heap : Allocate(s, req, found)) \/ AllocateError(s, req)
  PROVE  ManagerTypes'
<1>1. CASE \E found \in SUBSET DOMAIN heap : Allocate(s, req, found)
  <2>1. PICK found : Allocate(s, req, found)
    BY <1>1
  <2>2. PICK p : mig!Allocate(p, s, req.MIGProfile, req.GPUCount, found)
    BY <2>1 DEF Allocate
  <2>3. MIGTypes'
    BY <2>2, AllocateTInv DEF ManagerTypes
  <2>4. poolInfos' = poolInfos
    BY <2>1 DEF Allocate
  <2> QED BY <2>3, <2>4 DEF ManagerTypes
<1>2. CASE AllocateError(s, req)
  <2>1. UNCHANGED managerVars
    BY <1>2 DEF AllocateError, mig!AllocateError, mig!migVars, migVars, managerVars
  <2> QED BY <2>1, SameManager
<1> QED BY <1>1, <1>2

\* A start of the operator begins with a new manager.
LEMMA NewManagerTypes ==
  NewManager => ManagerTypes
<1> SUFFICES ASSUME NewManager PROVE ManagerTypes
  OBVIOUS
<1>1. MIGTypes
  BY InitTInv DEF NewManager
<1>2. DOMAIN poolInfos = {}
  BY DEF NewManager
<1> QED BY <1>1, <1>2 DEF ManagerTypes

\* The same of the state after a restart.
LEMMA RestartManagerTypes ==
  ASSUME Restart
  PROVE  ManagerTypes'
<1>1. NewManager' => ManagerTypes'
  BY NewManagerTypes, PTL
<1>2. NewManager'
  BY DEF Restart, NewManager, mig!NewMIGManager
<1> QED BY <1>1, <1>2


-----------------------------------------------------------------------------
(* The pool's reconciler. *)

\* Writing fields of a pool's object keeps its type.
LEMMA PoolFields ==
  ASSUME NEW obj \in GPUPool
  PROVE  /\ \A b \in BOOLEAN : [obj EXCEPT !.Finalizer = b] \in GPUPool
         /\ \A b \in BOOLEAN : [obj EXCEPT !.Deleting = b] \in GPUPool
         /\ \A b \in BOOLEAN : [obj EXCEPT !.Error = b] \in GPUPool
         /\ \A ph \in PoolPhases : [obj EXCEPT !.Phase = ph] \in GPUPool
         /\ \A n \in Int : [obj EXCEPT !.AllocatedGPUs = n] \in GPUPool
         /\ \A spec \in PoolSpecs : [obj EXCEPT !.Spec = spec] \in GPUPool
BY DEF GPUPool

\* Moving the pool's worker keeps its type.
LEMMA PoolWorkerMoves ==
  ASSUME NEW w \in PoolWorkerType, NEW pc \in {"status", "fail", "dropFinalizer"},
         NEW v, v = [w EXCEPT !.pc = pc]
  PROVE  v \in PoolWorkerType /\ v.pc = pc /\ v.key = w.key /\ v.spec = w.spec
BY DEF PoolWorkerType

\* So does making its copy stale.
LEMMA PoolWorkerStale ==
  ASSUME NEW w \in PoolWorkerType, NEW v, v = [w EXCEPT !.fresh = FALSE]
  PROVE  v \in PoolWorkerType /\ v.pc = w.pc /\ v.key = w.key /\ v.spec = w.spec
BY DEF PoolWorkerType

\* So does ending a Reconcile.
LEMMA IdlePoolWorkerType == IdlePoolWorker \in PoolWorkerType /\ IdlePoolWorker.pc = "idle"
BY DEF IdlePoolWorker, PoolWorkerType

\* The worker does not move, but its copy may become stale.
LEMMA StalePoolTypes ==
  ASSUME PoolTypes, NEW p, StalePool(p) \/ UNCHANGED poolWorker, UNCHANGED poolInfos,
         mig!IsMap(poolObj', Pools, GPUPool)
  PROVE  PoolTypes'
<1>1. poolWorker' = poolWorker \/ poolWorker' = [poolWorker EXCEPT !.fresh = FALSE]
  BY DEF StalePool
<1>2. poolWorker \in PoolWorkerType
  BY DEF PoolTypes
<1>3. /\ poolWorker' \in PoolWorkerType /\ poolWorker'.pc = poolWorker.pc
      /\ poolWorker'.key = poolWorker.key /\ poolWorker'.spec = poolWorker.spec
  BY <1>1, <1>2, PoolWorkerStale
<1> QED BY <1>3 DEF PoolTypes

\* A Reconcile ends.
LEMMA IdlePoolTypes ==
  ASSUME poolWorker' = IdlePoolWorker, mig!IsMap(poolObj', Pools, GPUPool)
  PROVE  PoolTypes'
BY IdlePoolWorkerType DEF PoolTypes

\* What users do to pools keeps the types.
LEMMA PoolUserTypes ==
  ASSUME PoolTypes, NEW p \in Pools,
         DeletePool(p) \/ \E spec \in PoolSpecs : CreatePool(p, spec) \/ EditPool(p, spec)
  PROVE  PoolTypes'
<1>m. mig!IsMap(poolObj, Pools, GPUPool) /\ \A q \in DOMAIN poolObj : poolObj[q] \in GPUPool
  BY DEF PoolTypes, mig!IsMap
<1>1. ASSUME NEW spec \in PoolSpecs, CreatePool(p, spec) PROVE PoolTypes'
  <2> DEFINE obj == [Spec |-> spec, Finalizer |-> FALSE, Deleting |-> FALSE, Phase |-> "",
                     Error |-> FALSE, AllocatedGPUs |-> 0]
  <2>1. /\ poolObj' = mig!Put(poolObj, [q \in {p} |-> obj])
        /\ UNCHANGED poolWorker /\ UNCHANGED poolInfos
    BY <1>1 DEF CreatePool, managerVars
  <2>2. obj \in GPUPool
    BY DEF GPUPool, PoolPhases
  <2> HIDE DEF obj
  <2>3. mig!IsMap(poolObj', Pools, GPUPool)
    BY <1>m, <2>1, <2>2 DEF mig!Put, mig!IsMap
  <2> QED BY <2>1, <2>3, StalePoolTypes
<1>2. ASSUME NEW spec \in PoolSpecs, EditPool(p, spec) PROVE PoolTypes'
  <2> DEFINE obj == [poolObj[p] EXCEPT !.Spec = spec]
  <2>1. /\ p \in DOMAIN poolObj /\ poolObj' = [poolObj EXCEPT ![p] = obj]
        /\ StalePool(p) /\ UNCHANGED poolInfos
    BY <1>2 DEF EditPool, managerVars
  <2>2. obj \in GPUPool
    BY <1>m, <2>1, PoolFields
  <2> HIDE DEF obj
  <2>3. mig!IsMap(poolObj', Pools, GPUPool)
    BY <1>m, <2>1, <2>2, UpdateMap
  <2> QED BY <2>1, <2>3, StalePoolTypes
<1>3. ASSUME DeletePool(p) PROVE PoolTypes'
  <2> DEFINE obj == [poolObj[p] EXCEPT !.Deleting = TRUE]
  <2>1. /\ p \in DOMAIN poolObj /\ StalePool(p) /\ UNCHANGED poolInfos
        /\ \/ poolObj' = [poolObj EXCEPT ![p] = obj]
           \/ poolObj' = mig!Drop(poolObj, {p})
    BY <1>3 DEF DeletePool, managerVars
  <2>2. obj \in GPUPool
    BY <1>m, <2>1, PoolFields
  <2> HIDE DEF obj
  <2>3. mig!IsMap(poolObj', Pools, GPUPool)
    BY <1>m, <2>1, <2>2, UpdateMap, DropMap
  <2> QED BY <2>1, <2>3, StalePoolTypes
<1> QED BY <1>1, <1>2, <1>3

\* The steps of GPUPoolReconciler keep the types of the pool's part.
LEMMA PoolControllerTypes ==
  ASSUME ManagerTypes, PoolTypes, PoolController
  PROVE  PoolTypes'
<1> DEFINE w == poolWorker
           k == poolWorker.key
<1>m. /\ mig!IsMap(poolObj, Pools, GPUPool) /\ (\A q \in DOMAIN poolObj : poolObj[q] \in GPUPool)
      /\ w \in PoolWorkerType
  BY DEF PoolTypes, mig!IsMap
<1>w. ASSUME NEW new, k \in DOMAIN poolObj => new \in GPUPool,
             WritePool([poolObj EXCEPT ![k] = new])
      PROVE  PoolTypes'
  <2>1. mig!IsMap([poolObj EXCEPT ![k] = new], Pools, GPUPool)
    BY <1>m, <1>w, UpdateMap
  <2> QED BY <1>w, <2>1, IdlePoolTypes DEF WritePool
<1>1. ASSUME NEW p \in Pools, PoolFetch(p) PROVE PoolTypes'
  <2>1. /\ p \in DOMAIN poolObj /\ poolObj' = poolObj
        /\ poolWorker' = [pc |-> PoolStepAfter(poolObj[p]), key |-> p,
                          spec |-> poolObj[p].Spec, fresh |-> TRUE]
    BY <1>1 DEF PoolFetch, apiVars
  <2>2. PoolStepAfter(poolObj[p]) \in {"idle", "unregister", "addFinalizer", "fail", "register"}
    BY DEF PoolStepAfter
  <2>3. poolObj[p].Spec \in PoolSpecs
    BY <1>m, <2>1 DEF GPUPool
  <2>4. /\ poolWorker' \in PoolWorkerType /\ poolWorker'.key = p
        /\ poolWorker'.spec \in PoolSpecs /\ poolWorker'.pc # "status"
    BY <2>1, <2>2, <2>3 DEF PoolWorkerType
  <2> QED BY <1>m, <2>1, <2>4 DEF PoolTypes
<1>2. CASE PoolAddFinalizer
  <2>1. WritePool([poolObj EXCEPT ![k] = [poolObj[k] EXCEPT !.Finalizer = TRUE]])
    BY <1>2 DEF PoolAddFinalizer
  <2>2. k \in DOMAIN poolObj => [poolObj[k] EXCEPT !.Finalizer = TRUE] \in GPUPool
    BY <1>m, PoolFields
  <2> QED BY <1>w, <2>1, <2>2
<1>3. CASE PoolRegister
  <2>1. /\ w.pc = "register" /\ poolObj' = poolObj
        /\ \/ RegisterPool(k, w.spec) /\ poolWorker' = [w EXCEPT !.pc = "status"]
           \/ RegisterPoolError(k, w.spec) /\ poolWorker' = [w EXCEPT !.pc = "fail"]
    BY <1>3 DEF PoolRegister, apiVars
  <2>2. k \in Pools /\ w.spec \in PoolSpecs
    BY <2>1 DEF PoolTypes
  <2>3. k \in DOMAIN poolInfos'
    BY <2>1, <2>2, RegisterTypes
  <2>4. /\ poolWorker' \in PoolWorkerType /\ poolWorker'.key = k /\ poolWorker'.spec = w.spec
        /\ poolWorker'.pc \in {"status", "fail"}
    BY <1>m, <2>1, PoolWorkerMoves
  <2> QED BY <1>m, <2>1, <2>2, <2>3, <2>4 DEF PoolTypes
<1>4. CASE PoolUpdateStatus
  <2> DEFINE n1 == [poolObj[k] EXCEPT !.Phase = "Ready"]
             n2 == [n1 EXCEPT !.AllocatedGPUs = AllocatedGPUs(k)]
  <2>1. /\ w.pc = "status" /\ w.fresh /\ poolWorker' = IdlePoolWorker
        /\ poolObj' = [poolObj EXCEPT ![k].Phase = "Ready", ![k].AllocatedGPUs = AllocatedGPUs(k)]
    BY <1>4 DEF PoolUpdateStatus, WritePool
  <2>2. AllocatedGPUs(k) \in Int
    <3>1. k \in DOMAIN poolInfos
      BY <2>1 DEF PoolTypes
    <3>2. poolInfos[k].GPUs = {} /\ poolInfos[k].AvailableGPUs = 0
      BY <3>1 DEF ManagerTypes
    <3>3. Cardinality({}) = 0
      BY FS_EmptySet
    <3> QED BY <3>2, <3>3 DEF AllocatedGPUs
  <2>3. k \in DOMAIN poolObj => n2 \in GPUPool
    <3>1. k \in DOMAIN poolObj => n1 \in GPUPool
      BY <1>m, PoolFields DEF PoolPhases
    <3> HIDE DEF n1
    <3> QED BY <2>2, <3>1, PoolFields
  <2>4. poolObj' = [poolObj EXCEPT ![k] = n2]
    BY <2>1
  <2> HIDE DEF n2
  <2>5. mig!IsMap(poolObj', Pools, GPUPool)
    BY <1>m, <2>3, <2>4, UpdateMap
  <2> QED BY <2>1, <2>5, IdlePoolTypes
<1>5. CASE PoolUpdateStatusWithError
  <2> DEFINE n1 == [poolObj[k] EXCEPT !.Phase = "Failed"]
             n2 == [n1 EXCEPT !.Error = TRUE]
  <2>1. /\ poolWorker' = IdlePoolWorker
        /\ poolObj' = [poolObj EXCEPT ![k].Phase = "Failed", ![k].Error = TRUE]
    BY <1>5 DEF PoolUpdateStatusWithError, WritePool
  <2>2. k \in DOMAIN poolObj => n2 \in GPUPool
    <3>1. k \in DOMAIN poolObj => n1 \in GPUPool
      BY <1>m, PoolFields DEF PoolPhases
    <3> HIDE DEF n1
    <3> QED BY <3>1, PoolFields
  <2>3. poolObj' = [poolObj EXCEPT ![k] = n2]
    BY <2>1
  <2> HIDE DEF n2
  <2>4. mig!IsMap(poolObj', Pools, GPUPool)
    BY <1>m, <2>2, <2>3, UpdateMap
  <2> QED BY <2>1, <2>4, IdlePoolTypes
<1>6. CASE PoolUnregister
  <2>1. w.pc = "unregister" /\ poolObj' = poolObj /\ poolWorker' = [w EXCEPT !.pc = "dropFinalizer"]
    BY <1>6 DEF PoolUnregister, apiVars
  <2>2. k \in Pools /\ w.spec \in PoolSpecs
    BY <2>1 DEF PoolTypes
  <2>3. /\ poolWorker' \in PoolWorkerType /\ poolWorker'.key = k /\ poolWorker'.spec = w.spec
        /\ poolWorker'.pc = "dropFinalizer"
    BY <1>m, <2>1, PoolWorkerMoves
  <2> QED BY <1>m, <2>1, <2>2, <2>3 DEF PoolTypes
<1>7. CASE PoolDropFinalizer
  BY <1>7, <1>m, DropMap, IdlePoolTypes DEF PoolDropFinalizer, WritePool
<1>8. CASE PoolWriteRefused
  BY <1>8, <1>m, IdlePoolTypes DEF PoolWriteRefused, apiVars
<1> QED
  BY <1>1, <1>2, <1>3, <1>4, <1>5, <1>6, <1>7, <1>8 DEF PoolController

\* They keep the manager's part.
LEMMA PoolControllerManager ==
  ASSUME ManagerTypes, PoolTypes, PoolController
  PROVE  ManagerTypes'
<1>1. CASE PoolRegister
  <2>1. poolWorker.key \in Pools
    BY <1>1 DEF PoolRegister, PoolTypes
  <2> QED BY <1>1, <2>1, RegisterTypes DEF PoolRegister
<1>2. CASE PoolUnregister
  <2>1. poolWorker.key \in Pools
    BY <1>2 DEF PoolUnregister, PoolTypes
  <2> QED BY <1>2, <2>1, UnregisterTypes DEF PoolUnregister
<1>3. CASE UNCHANGED managerVars
  BY <1>3, SameManager
<1> QED
  BY <1>1, <1>2, <1>3 DEF PoolController, PoolFetch, PoolAddFinalizer, PoolUpdateStatus,
     PoolUpdateStatusWithError, PoolDropFinalizer, PoolWriteRefused, WritePool


-----------------------------------------------------------------------------
(* The service's reconciler. *)

\* Writing fields of a service's object keeps its type.
LEMMA ServiceFields ==
  ASSUME NEW obj \in InferenceService
  PROVE  /\ \A b \in BOOLEAN : [obj EXCEPT !.Finalizer = b] \in InferenceService
         /\ \A b \in BOOLEAN : [obj EXCEPT !.Deleting = b] \in InferenceService
         /\ \A b \in BOOLEAN : [obj EXCEPT !.Error = b] \in InferenceService
         /\ \A ph \in SvcPhases : [obj EXCEPT !.Phase = ph] \in InferenceService
         /\ \A ids \in SUBSET mig!InstanceIDs :
              [obj EXCEPT !.GPUAllocations = ids] \in InferenceService
         /\ \A spec \in SvcSpecs : [obj EXCEPT !.Spec = spec] \in InferenceService
BY DEF InferenceService

\* Moving the service's worker keeps its type.
LEMMA SvcWorkerMoves ==
  ASSUME NEW w \in SvcWorkerType,
         NEW pc \in {"service", "status", "fail", "release", "dropFinalizer"},
         NEW v, v = [w EXCEPT !.pc = pc]
  PROVE  v \in SvcWorkerType /\ v.key = w.key /\ v.spec = w.spec
BY DEF SvcWorkerType

\* So does making its copy stale.
LEMMA SvcWorkerStale ==
  ASSUME NEW w \in SvcWorkerType, NEW v, v = [w EXCEPT !.fresh = FALSE]
  PROVE  v \in SvcWorkerType /\ v.pc = w.pc /\ v.key = w.key /\ v.spec = w.spec
BY DEF SvcWorkerType

\* So does ending a Reconcile.
LEMMA IdleSvcWorkerType == IdleSvcWorker \in SvcWorkerType /\ IdleSvcWorker.pc = "idle"
BY DEF IdleSvcWorker, SvcWorkerType, DeploymentStates

\* A step after which the worker works on the same object, or is idle.
LEMMA WorkerTypes ==
  ASSUME ServiceTypes, svcWorker' \in SvcWorkerType,
         \/ svcWorker'.pc = "idle"
         \/ svcWorker'.key = svcWorker.key /\ svcWorker'.spec = svcWorker.spec
            /\ svcWorker.pc # "idle",
         mig!IsMap(svcObj', Services, InferenceService),
         deployment' \in [Services -> DeploymentStates], k8sService' \in [Services -> BOOLEAN],
         owed' \subseteq Services
  PROVE  ServiceTypes'
BY DEF ServiceTypes

\* A step that leaves the worker where it is, but may make its copy stale.
LEMMA StaleSvcTypes ==
  ASSUME ServiceTypes, NEW s, StaleSvc(s) \/ UNCHANGED svcWorker, UNCHANGED owed,
         mig!IsMap(svcObj', Services, InferenceService),
         deployment' \in [Services -> DeploymentStates], k8sService' \in [Services -> BOOLEAN]
  PROVE  ServiceTypes'
<1>1. svcWorker' = svcWorker \/ svcWorker' = [svcWorker EXCEPT !.fresh = FALSE]
  BY DEF StaleSvc
<1>2. svcWorker \in SvcWorkerType
  BY DEF ServiceTypes
<1>3. /\ svcWorker' \in SvcWorkerType /\ svcWorker'.pc = svcWorker.pc
      /\ svcWorker'.key = svcWorker.key /\ svcWorker'.spec = svcWorker.spec
  BY <1>1, <1>2, SvcWorkerStale
<1> QED BY <1>3 DEF ServiceTypes

\* What users do to services keeps the types.
LEMMA ServiceUserTypes ==
  ASSUME ServiceTypes, NEW s \in Services,
         DeleteService(s) \/ \E spec \in SvcSpecs : CreateService(s, spec) \/ EditService(s, spec)
  PROVE  ServiceTypes'
<1>m. /\ mig!IsMap(svcObj, Services, InferenceService)
      /\ \A t \in DOMAIN svcObj : svcObj[t] \in InferenceService
      /\ deployment \in [Services -> DeploymentStates] /\ k8sService \in [Services -> BOOLEAN]
  BY DEF ServiceTypes, mig!IsMap
<1>1. ASSUME NEW spec \in SvcSpecs, CreateService(s, spec) PROVE ServiceTypes'
  <2> DEFINE obj == [Spec |-> spec, Finalizer |-> FALSE, Deleting |-> FALSE, Phase |-> "",
                     Error |-> FALSE, GPUAllocations |-> {}]
  <2>1. /\ svcObj' = mig!Put(svcObj, [t \in {s} |-> obj])
        /\ UNCHANGED svcWorker /\ UNCHANGED owed
        /\ deployment' = deployment /\ k8sService' = k8sService
    BY <1>1 DEF CreateService
  <2>2. obj \in InferenceService
    BY DEF InferenceService, SvcPhases
  <2> HIDE DEF obj
  <2>3. mig!IsMap(svcObj', Services, InferenceService)
    BY <1>m, <2>1, <2>2 DEF mig!Put, mig!IsMap
  <2> QED BY <1>m, <2>1, <2>3, StaleSvcTypes
<1>2. ASSUME NEW spec \in SvcSpecs, EditService(s, spec) PROVE ServiceTypes'
  <2> DEFINE obj == [svcObj[s] EXCEPT !.Spec = spec]
  <2>1. /\ s \in DOMAIN svcObj /\ svcObj' = [svcObj EXCEPT ![s] = obj]
        /\ StaleSvc(s) /\ UNCHANGED owed
        /\ deployment' = deployment /\ k8sService' = k8sService
    BY <1>2 DEF EditService
  <2>2. obj \in InferenceService
    BY <1>m, <2>1, ServiceFields
  <2> HIDE DEF obj
  <2>3. mig!IsMap(svcObj', Services, InferenceService)
    BY <1>m, <2>1, <2>2, UpdateMap
  <2> QED BY <1>m, <2>1, <2>3, StaleSvcTypes
<1>3. ASSUME DeleteService(s), svcObj[s].Finalizer PROVE ServiceTypes'
  <2> DEFINE obj == [svcObj[s] EXCEPT !.Deleting = TRUE]
  <2>1. /\ s \in DOMAIN svcObj /\ StaleSvc(s) /\ UNCHANGED owed
        /\ svcObj' = [svcObj EXCEPT ![s] = obj]
        /\ deployment' = deployment /\ k8sService' = k8sService
    BY <1>3 DEF DeleteService
  <2>2. obj \in InferenceService
    BY <1>m, <2>1, ServiceFields
  <2> HIDE DEF obj
  <2>3. mig!IsMap(svcObj', Services, InferenceService)
    BY <1>m, <2>1, <2>2, UpdateMap
  <2> QED BY <1>m, <2>1, <2>3, StaleSvcTypes
<1>4. ASSUME DeleteService(s), ~ svcObj[s].Finalizer PROVE ServiceTypes'
  <2>1. /\ s \in DOMAIN svcObj /\ StaleSvc(s) /\ UNCHANGED owed /\ RemoveService(s)
    BY <1>4 DEF DeleteService
  <2>2. mig!IsMap(svcObj', Services, InferenceService)
    BY <1>m, <2>1, DropMap DEF RemoveService
  <2>3. deployment' \in [Services -> DeploymentStates] /\ k8sService' \in [Services -> BOOLEAN]
    BY <1>m, <2>1 DEF RemoveService, DeploymentStates
  <2> QED BY <2>1, <2>2, <2>3, StaleSvcTypes
<1> QED BY <1>1, <1>2, <1>3, <1>4

\* The steps of InferenceServiceReconciler keep the manager's part.
LEMMA SvcControllerManager ==
  ASSUME ManagerTypes, ServiceTypes, SvcController
  PROVE  ManagerTypes'
<1>1. CASE SvcAllocate
  <2>1. svcWorker.key \in Services /\ svcWorker.spec \in SvcSpecs
    BY <1>1 DEF SvcAllocate, ServiceTypes
  <2>2. svcWorker.spec.Req.GPUCount \in Counts
    BY <2>1, SpecRequest
  <2>3. \/ \E found \in SUBSET DOMAIN heap : Allocate(svcWorker.key, svcWorker.spec.Req, found)
        \/ AllocateError(svcWorker.key, svcWorker.spec.Req)
    BY <1>1 DEF SvcAllocate
  <2> QED BY <2>1, <2>2, <2>3, AllocateTypes
<1>2. CASE UNCHANGED managerVars
  BY <1>2, SameManager
<1> QED
  BY <1>1, <1>2 DEF SvcController, SvcFetch, SvcAddFinalizer, SvcReconcileDeployment,
     SvcReconcileService, SvcUpdateStatus, SvcUpdateStatusWithError, SvcMarkTerminating,
     SvcRelease, Release, SvcDropFinalizer, SvcWriteRefused, WriteSvc

\* They keep the types of the service's part.
LEMMA SvcControllerTypes ==
  ASSUME ManagerTypes, ServiceTypes, SvcController
  PROVE  ServiceTypes'
<1> DEFINE w == svcWorker
           k == svcWorker.key
           obj == svcObj[k]
<1>m. /\ mig!IsMap(svcObj, Services, InferenceService)
      /\ \A t \in DOMAIN svcObj : svcObj[t] \in InferenceService
      /\ deployment \in [Services -> DeploymentStates] /\ k8sService \in [Services -> BOOLEAN]
      /\ w \in SvcWorkerType /\ owed \subseteq Services
  BY DEF ServiceTypes, mig!IsMap
<1>k. w.pc # "idle" => k \in Services /\ w.spec \in SvcSpecs
  BY DEF ServiceTypes
<1>i. IdleSvcWorker \in SvcWorkerType /\ IdleSvcWorker.pc = "idle"
  BY IdleSvcWorkerType
<1>w. ASSUME NEW new, NEW next, k \in DOMAIN svcObj => new \in InferenceService,
             WriteSvc(new, next), next \in SvcWorkerType,
             next.pc = "idle" \/ (next.key = k /\ next.spec = w.spec /\ w.pc # "idle")
      PROVE  ServiceTypes'
  <2>1. /\ svcObj' = [svcObj EXCEPT ![k] = new] /\ svcWorker' = next
        /\ deployment' = deployment /\ k8sService' = k8sService /\ owed' = owed
    BY <1>w DEF WriteSvc
  <2>2. mig!IsMap(svcObj', Services, InferenceService)
    BY <1>m, <1>w, <2>1, UpdateMap
  <2> QED BY <1>m, <1>w, <2>1, <2>2, WorkerTypes
<1>v. ASSUME NEW pc \in {"service", "status", "fail", "release", "dropFinalizer"},
             w.pc # "idle", svcWorker' = [w EXCEPT !.pc = pc], UNCHANGED svcObj,
             deployment' \in [Services -> DeploymentStates],
             k8sService' \in [Services -> BOOLEAN], owed' \subseteq owed
      PROVE  ServiceTypes'
  <2>1. svcWorker' \in SvcWorkerType /\ svcWorker'.key = k /\ svcWorker'.spec = w.spec
    BY <1>m, <1>v, SvcWorkerMoves
  <2>2. mig!IsMap(svcObj', Services, InferenceService)
    BY <1>m, <1>v
  <2>3. owed' \subseteq Services
    BY <1>m, <1>v
  <2> QED BY <1>v, <2>1, <2>2, <2>3, WorkerTypes
<1>1. ASSUME NEW s \in Services, SvcFetch(s) PROVE ServiceTypes'
  <2>1. /\ s \in DOMAIN svcObj /\ UNCHANGED <<svcObj, deployment, k8sService, owed>>
        /\ svcWorker' = [IdleSvcWorker EXCEPT !.pc = SvcStepAfter(svcObj[s]), !.key = s,
                                              !.spec = svcObj[s].Spec, !.fresh = TRUE]
    BY <1>1 DEF SvcFetch, apiVars
  <2>2. SvcStepAfter(svcObj[s]) \in {"terminating", "addFinalizer", "fail", "allocate"}
    BY DEF SvcStepAfter
  <2>3. svcObj[s].Spec \in SvcSpecs
    BY <1>m, <2>1 DEF InferenceService
  <2>4. svcWorker' \in SvcWorkerType /\ svcWorker'.key = s /\ svcWorker'.spec \in SvcSpecs
    BY <2>1, <2>2, <2>3 DEF SvcWorkerType, IdleSvcWorker, DeploymentStates
  <2> QED BY <1>m, <2>1, <2>4 DEF ServiceTypes
<1>2. CASE SvcAddFinalizer
  <2>1. WriteSvc([obj EXCEPT !.Finalizer = TRUE], IdleSvcWorker)
    BY <1>2 DEF SvcAddFinalizer
  <2>2. k \in DOMAIN svcObj => [obj EXCEPT !.Finalizer = TRUE] \in InferenceService
    BY <1>m, ServiceFields
  <2> QED BY <1>i, <1>w, <2>1, <2>2
<1>3. CASE SvcUpdateStatus
  <2> DEFINE n1 == [obj EXCEPT !.Phase = PhaseOf(w.found)]
             n2 == [n1 EXCEPT !.GPUAllocations = w.granted]
  <2>1. WriteSvc(n2, IdleSvcWorker)
    BY <1>3 DEF SvcUpdateStatus
  <2>2. PhaseOf(w.found) \in SvcPhases /\ w.granted \in SUBSET mig!InstanceIDs
    BY <1>m DEF PhaseOf, SvcPhases, SvcWorkerType
  <2>3. k \in DOMAIN svcObj => n1 \in InferenceService
    BY <1>m, <2>2, ServiceFields
  <2> HIDE DEF n1
  <2>4. k \in DOMAIN svcObj => n2 \in InferenceService
    BY <2>2, <2>3, ServiceFields
  <2> HIDE DEF n2
  <2> QED BY <1>i, <1>w, <2>1, <2>4
<1>4. CASE SvcUpdateStatusWithError
  <2> DEFINE ids == IF w.granted = {} THEN obj.GPUAllocations ELSE w.granted
             n1 == [obj EXCEPT !.Phase = "Failed"]
             n2 == [n1 EXCEPT !.Error = TRUE]
             n3 == [n2 EXCEPT !.GPUAllocations = ids]
  <2>1. WriteSvc(n3, IdleSvcWorker)
    BY <1>4 DEF SvcUpdateStatusWithError
  <2>2. k \in DOMAIN svcObj => ids \in SUBSET mig!InstanceIDs
    BY <1>m DEF InferenceService, SvcWorkerType
  <2> HIDE DEF ids
  <2>3. k \in DOMAIN svcObj => n1 \in InferenceService
    BY <1>m, ServiceFields DEF SvcPhases
  <2> HIDE DEF n1
  <2>4. k \in DOMAIN svcObj => n2 \in InferenceService
    BY <2>3, ServiceFields
  <2> HIDE DEF n2
  <2>5. k \in DOMAIN svcObj => n3 \in InferenceService
    BY <2>2, <2>4, ServiceFields
  <2> HIDE DEF n3
  <2> QED BY <1>i, <1>w, <2>1, <2>5
<1>5. CASE SvcMarkTerminating
  <2> DEFINE new == [obj EXCEPT !.Phase = "Terminating"]
             next == [w EXCEPT !.pc = "release"]
  <2>1. WriteSvc(new, next) /\ w.pc # "idle"
    BY <1>5 DEF SvcMarkTerminating
  <2>2. k \in DOMAIN svcObj => new \in InferenceService
    BY <1>m, ServiceFields DEF SvcPhases
  <2>3. next \in SvcWorkerType /\ next.key = k /\ next.spec = w.spec
    BY <1>m, SvcWorkerMoves
  <2> HIDE DEF new, next
  <2> QED BY <1>w, <2>1, <2>2, <2>3
<1>6. CASE SvcAllocate
  <2>1. w.pc = "allocate" /\ UNCHANGED <<svcObj, deployment, k8sService>>
    BY <1>6 DEF SvcAllocate, apiVars
  <2>2. CASE svcWorker' = [w EXCEPT !.pc = "fail"] /\ owed' = owed
    BY <1>m, <1>v, <2>1, <2>2
  <2>3. ASSUME NEW ids, ids = {heap'[o].id : o \in {q \in held'[k] : q \notin held[k]}},
               svcWorker' = [w EXCEPT !.pc = "deploy", !.granted = ids], owed' = owed \cup {k}
        PROVE  ServiceTypes'
    <3>1. ManagerTypes'
      BY SvcControllerManager
    <3>2. /\ held'[k] \subseteq DOMAIN heap'
          /\ \A o \in DOMAIN heap' : heap'[o] \in mig!MIGInstanceInfo
      <4>1. heap' \in Seq(mig!MIGInstanceInfo) /\ held' \in [Services -> SUBSET DOMAIN heap']
        BY <3>1 DEF ManagerTypes, MIGTypes, mig!TypeOK
      <4>2. \A o \in DOMAIN heap' : heap'[o] \in mig!MIGInstanceInfo
        BY <4>1
      <4> QED BY <1>k, <2>1, <4>1, <4>2
    <3>3. ids \in SUBSET mig!InstanceIDs
      BY <2>3, <3>2 DEF mig!MIGInstanceInfo
    <3>4. svcWorker' \in SvcWorkerType /\ svcWorker'.key = k /\ svcWorker'.spec = w.spec
      BY <1>m, <2>3, <3>3 DEF SvcWorkerType
    <3>5. owed' \subseteq Services
      BY <1>k, <1>m, <2>1, <2>3
    <3> QED BY <1>m, <2>1, <3>4, <3>5, WorkerTypes
  <2> QED BY <1>6, <2>2, <2>3 DEF SvcAllocate
<1>7. CASE SvcReconcileDeployment
  <2> DEFINE d == IF deployment[k] = "none" THEN "created" ELSE deployment[k]
  <2>1. w.pc = "deploy" /\ UNCHANGED <<svcObj, k8sService, owed>>
    BY <1>7 DEF SvcReconcileDeployment
  <2>2. d \in DeploymentStates
    BY <1>k, <1>m, <2>1 DEF DeploymentStates
  <2>3. \/ /\ deployment' = [deployment EXCEPT ![k] = d]
           /\ svcWorker' = [w EXCEPT !.pc = "service", !.found = d]
        \/ svcWorker' = [w EXCEPT !.pc = "fail"] /\ deployment' = deployment
    BY <1>7 DEF SvcReconcileDeployment
  <2> HIDE DEF d
  <2>4. CASE /\ deployment' = [deployment EXCEPT ![k] = d]
             /\ svcWorker' = [w EXCEPT !.pc = "service", !.found = d]
    <3>1. svcWorker' \in SvcWorkerType /\ svcWorker'.key = k /\ svcWorker'.spec = w.spec
      BY <1>m, <2>2, <2>4 DEF SvcWorkerType
    <3>2. deployment' \in [Services -> DeploymentStates]
      BY <1>m, <2>2, <2>4
    <3> QED BY <1>m, <2>1, <3>1, <3>2, WorkerTypes
  <2>5. CASE svcWorker' = [w EXCEPT !.pc = "fail"] /\ deployment' = deployment
    BY <1>m, <1>v, <2>1, <2>5
  <2> QED BY <2>3, <2>4, <2>5
<1>8. CASE SvcReconcileService
  <2>1. /\ w.pc = "service" /\ UNCHANGED <<svcObj, deployment, owed>>
        /\ \/ /\ svcWorker' = [w EXCEPT !.pc = "status"]
              /\ k8sService' = [k8sService EXCEPT ![k] = TRUE]
           \/ svcWorker' = [w EXCEPT !.pc = "fail"] /\ k8sService' = k8sService
    BY <1>8 DEF SvcReconcileService
  <2>2. k8sService' \in [Services -> BOOLEAN]
    BY <1>m, <2>1
  <2> QED BY <1>m, <1>v, <2>1, <2>2
<1>9. CASE SvcRelease
  <2>1. /\ w.pc = "release" /\ svcWorker' = [w EXCEPT !.pc = "dropFinalizer"]
        /\ owed' = owed \ {k} /\ UNCHANGED <<svcObj, deployment, k8sService>>
    BY <1>9 DEF SvcRelease, apiVars
  <2>2. owed' \subseteq owed
    BY <2>1
  <2> QED BY <1>m, <1>v, <2>1, <2>2
<1>10. CASE SvcDropFinalizer
  <2>1. RemoveService(k) /\ svcWorker' = IdleSvcWorker /\ owed' = owed
    BY <1>10 DEF SvcDropFinalizer
  <2>2. mig!IsMap(svcObj', Services, InferenceService)
    BY <1>m, <2>1, DropMap DEF RemoveService
  <2>3. deployment' \in [Services -> DeploymentStates] /\ k8sService' \in [Services -> BOOLEAN]
    BY <1>m, <2>1 DEF RemoveService, DeploymentStates
  <2> QED BY <1>i, <1>m, <2>1, <2>2, <2>3, WorkerTypes
<1>11. CASE SvcWriteRefused
  <2>1. /\ w.pc # "idle" /\ UNCHANGED <<svcObj, deployment, k8sService, owed>>
        /\ svcWorker' = [w EXCEPT !.pc = "release"] \/ svcWorker' = IdleSvcWorker
    BY <1>11 DEF SvcWriteRefused, apiVars
  <2>2. CASE svcWorker' = [w EXCEPT !.pc = "release"]
    BY <1>m, <1>v, <2>1, <2>2
  <2>3. CASE svcWorker' = IdleSvcWorker
    BY <1>i, <1>m, <2>1, <2>3, WorkerTypes
  <2> QED BY <2>1, <2>2, <2>3
<1> QED
  BY <1>1, <1>2, <1>3, <1>4, <1>5, <1>6, <1>7, <1>8, <1>9, <1>10, <1>11 DEF SvcController


-----------------------------------------------------------------------------
TypesInv == ManagerTypes /\ PoolTypes /\ ServiceTypes /\ faults \in 0..MaxFaults

\* The parts make up TypeOK.
LEMMA TypesInvTypes == TypesInv => TypeOK
BY DEF TypesInv, ManagerTypes, MIGTypes, PoolTypes, ServiceTypes, TypeOK

\* The operator starts well typed.
LEMMA InitTypes == Init => TypesInv
<1> SUFFICES ASSUME Init PROVE TypesInv
  OBVIOUS
<1>1. ManagerTypes
  BY NewManagerTypes DEF Init
<1>2. poolObj = <<>> /\ svcObj = <<>> /\ DOMAIN poolObj = {} /\ DOMAIN svcObj = {}
  BY DEF Init
<1>3. mig!IsMap(poolObj, Pools, GPUPool) /\ mig!IsMap(svcObj, Services, InferenceService)
  BY <1>2 DEF mig!IsMap
<1>4. PoolTypes
  BY <1>3, IdlePoolWorkerType DEF Init, PoolTypes
<1>5. ServiceTypes
  BY <1>3, IdleSvcWorkerType DEF Init, ServiceTypes, DeploymentStates
<1>6. faults \in 0..MaxFaults
  BY OperatorAssumption DEF Init
<1> QED BY <1>1, <1>4, <1>5, <1>6 DEF TypesInv

\* The budget of faults is never exceeded.
LEMMA FaultsStep ==
  ASSUME faults \in 0..MaxFaults, [Next]_vars
  PROVE  faults' \in 0..MaxFaults
<1>1. faults' = faults \/ Fault
  BY DEF Next, PoolController, PoolFetch, PoolAddFinalizer, PoolRegister, PoolUpdateStatus,
     PoolUpdateStatusWithError, PoolUnregister, PoolDropFinalizer, PoolWriteRefused, WritePool,
     SvcController, SvcFetch, SvcAddFinalizer, SvcAllocate, SvcReconcileDeployment,
     SvcReconcileService, SvcUpdateStatus, SvcUpdateStatusWithError, SvcMarkTerminating,
     SvcRelease, SvcDropFinalizer, SvcWriteRefused, WriteSvc, Users, CreatePool, EditPool,
     DeletePool, CreateService, EditService, DeleteService, DeploymentProgress, Restart, vars
<1>2. faults \in Nat /\ MaxFaults \in Nat /\ faults <= MaxFaults
  BY OperatorAssumption
<1> QED BY <1>1, <1>2 DEF Fault

\* Steps of the one side leave the other side alone.
LEMMA PoolSideServices ==
  ASSUME ServiceTypes, UNCHANGED svcVars
  PROVE  ServiceTypes'
BY DEF svcVars, ServiceTypes

\* Steps of the service's side leave the pools, and what is known of them, alone.
LEMMA SvcSidePools ==
  ASSUME PoolTypes, UNCHANGED <<poolObj, poolWorker, poolInfos>>
  PROVE  PoolTypes'
BY DEF PoolTypes

\* Every step keeps the types.
LEMMA NextTypes == TypesInv /\ [Next]_vars => TypesInv'
<1> SUFFICES ASSUME TypesInv, [Next]_vars PROVE TypesInv'
  OBVIOUS
<1>f. faults' \in 0..MaxFaults
  BY FaultsStep DEF TypesInv
<1>t. ManagerTypes /\ PoolTypes /\ ServiceTypes
  BY DEF TypesInv
<1>1. CASE PoolController
  <2>1. ManagerTypes' /\ PoolTypes'
    BY <1>1, <1>t, PoolControllerManager, PoolControllerTypes
  <2>2. ServiceTypes'
    BY <1>1, <1>t, PoolSideIsSilent, PoolSideServices
  <2> QED BY <1>f, <2>1, <2>2 DEF TypesInv
<1>2. CASE SvcController
  <2>1. ManagerTypes' /\ ServiceTypes'
    BY <1>2, <1>t, SvcControllerManager, SvcControllerTypes
  <2>2. UNCHANGED <<poolObj, poolWorker, poolInfos>>
    BY <1>2 DEF SvcController, SvcFetch, SvcAddFinalizer, SvcAllocate, SvcReconcileDeployment,
       SvcReconcileService, SvcUpdateStatus, SvcUpdateStatusWithError, SvcMarkTerminating,
       SvcRelease, Release, SvcDropFinalizer, SvcWriteRefused, WriteSvc, Allocate,
       AllocateError, managerVars, apiVars
  <2>3. PoolTypes'
    BY <1>t, <2>2, SvcSidePools
  <2> QED BY <1>f, <2>1, <2>3 DEF TypesInv
<1>3. ASSUME NEW p \in Pools,
             DeletePool(p) \/ \E spec \in PoolSpecs : CreatePool(p, spec) \/ EditPool(p, spec)
      PROVE  TypesInv'
  <2>1. UNCHANGED managerVars
    BY <1>3 DEF DeletePool, CreatePool, EditPool
  <2>2. ManagerTypes' /\ PoolTypes'
    BY <1>3, <1>t, <2>1, SameManager, PoolUserTypes
  <2>3. ServiceTypes'
    BY <1>3, <1>t, PoolSideIsSilent, PoolSideServices
  <2> QED BY <1>f, <2>2, <2>3 DEF TypesInv
<1>4. ASSUME NEW s \in Services,
             \/ DeleteService(s)
             \/ \E spec \in SvcSpecs : CreateService(s, spec) \/ EditService(s, spec)
      PROVE  TypesInv'
  <2>1. UNCHANGED managerVars /\ UNCHANGED <<poolObj, poolWorker, poolInfos>>
    BY <1>4 DEF DeleteService, CreateService, EditService, managerVars
  <2>2. ManagerTypes' /\ ServiceTypes'
    BY <1>4, <1>t, <2>1, SameManager, ServiceUserTypes
  <2>3. PoolTypes'
    BY <1>t, <2>1, SvcSidePools
  <2> QED BY <1>f, <2>2, <2>3 DEF TypesInv
<1>5. ASSUME NEW s \in Services, DeploymentProgress(s) PROVE TypesInv'
  <2>1. /\ UNCHANGED managerVars /\ UNCHANGED <<poolObj, poolWorker, poolInfos>>
        /\ UNCHANGED <<svcObj, k8sService, svcWorker, owed>>
    BY <1>5 DEF DeploymentProgress, managerVars
  <2>2. PICK d \in {"unavailable", "partial", "available"} :
            deployment' = [deployment EXCEPT ![s] = d]
    BY <1>5 DEF DeploymentProgress
  <2>3. deployment' \in [Services -> DeploymentStates]
    BY <1>t, <2>2 DEF ServiceTypes, DeploymentStates
  <2>4. ServiceTypes'
    BY <1>t, <2>1, <2>3 DEF ServiceTypes
  <2> QED BY <1>f, <1>t, <2>1, <2>4, SameManager, SvcSidePools DEF TypesInv
<1>6. CASE Restart
  <2>1. ManagerTypes'
    BY <1>6, RestartManagerTypes
  <2>2. /\ UNCHANGED <<poolObj, svcObj, deployment, k8sService>> /\ owed' = {}
        /\ poolWorker' = IdlePoolWorker /\ svcWorker' = IdleSvcWorker
    BY <1>6 DEF Restart, apiVars
  <2>3. PoolTypes'
    BY <1>t, <2>2, IdlePoolTypes DEF PoolTypes
  <2>4. ServiceTypes'
    BY <1>t, <2>2, IdleSvcWorkerType DEF ServiceTypes
  <2> QED BY <1>f, <2>1, <2>3, <2>4 DEF TypesInv
<1>7. CASE UNCHANGED vars
  <2>1. /\ UNCHANGED managerVars /\ UNCHANGED svcVars
        /\ UNCHANGED <<poolObj, poolWorker, poolInfos>>
    BY <1>7 DEF vars, apiVars, managerVars, svcVars
  <2> QED BY <1>f, <1>t, <2>1, SameManager, PoolSideServices, SvcSidePools DEF TypesInv
<1> QED
  BY <1>1, <1>2, <1>3, <1>4, <1>5, <1>6, <1>7 DEF Next, Users

\* The operator is well typed in every run, for any pools, services, specs and
\* number of faults: whatever users, workers, refused writes and restarts do,
\* the stored objects, the GPU manager and the copies in the workers' hands are
\* of the kinds the code declares, and every reported GPU is one of a profile.
THEOREM TypeOKTheorem == Spec => []TypeOK
BY InitTypes, NextTypes, TypesInvTypes, PTL DEF Spec
=============================================================================
