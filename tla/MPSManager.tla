----------------------------- MODULE MPSManager -----------------------------
(***************************************************************************)
(* internal/gpu/mps.go: the manager of CUDA MPS daemons and their clients. *)
(*                                                                         *)
(* Every exported operation holds m.mu throughout.  Allocate connects its  *)
(* clients one after the other, each to any daemon with room, so it is a   *)
(* step per client, with `call' keeping everyone else out.                 *)
(*                                                                         *)
(* As in MIGManager, the pool's map and the global index hold pointers to  *)
(* shared objects: `heap' has every MPSDaemon ever started.  Thread        *)
(* percentages and memory limits are labels that nothing decides on.       *)
(***************************************************************************)
EXTENDS Integers, Sequences, FiniteSets, FiniteSetsExt

CONSTANTS Pools,
          GPUs,        \* nodeName/deviceID
          GPUsOf,      \* pool -> PoolInfo.GPUs
          Services,
          Counts,      \* GPU counts asked for
          MaxClients,  \* 48
          MaxDaemons,  \* bound: daemons ever started
          NoCall       \* no Allocate in progress

ASSUME MPSAssumption ==
  /\ GPUsOf \in [Pools -> SUBSET GPUs]
  /\ Counts \subseteq Nat \ {0}
  /\ MaxClients \in Nat \ {0}
  /\ MaxDaemons \in Nat

VARIABLES heap,     \* every MPSDaemon started
          pools,    \* m.pools: configured pool -> Daemons (GPU -> daemon)
          daemons,  \* m.daemons: GPU -> daemon
          call,     \* the Allocate in progress
          granted,  \* history: the clients each service was granted, with their
                    \* daemons, since it last asked to release or had a request
                    \* rolled back
          forgotten \* history: the daemons their pool had when it was configured
                    \* again

history == <<granted, forgotten>>
vars == <<heap, pools, daemons, call, granted, forgotten>>

\* A client is "namespace/service-i".
Clients == Services \X Nat
MPSDaemon == [gpu : GPUs, Clients : SUBSET Clients, Status : {"Running", "Stopped"}]

Put(m, k, v) == [j \in DOMAIN m \cup {k} |-> IF j = k THEN v ELSE m[j]]
Drop(m, K) == [j \in DOMAIN m \ K |-> m[j]]
Objects(m) == {m[k] : k \in DOMAIN m}

Init ==
  /\ heap = <<>>
  /\ pools = <<>>
  /\ daemons = <<>>
  /\ call = NoCall
  /\ granted = [s \in Services |-> {}]
  /\ forgotten = {}

-----------------------------------------------------------------------------
\* A fresh configuration without daemons replaces the one the pool had.
ConfigurePool(p) ==
  /\ call = NoCall
  /\ pools' = Put(pools, p, <<>>)
  /\ forgotten' = forgotten \cup IF p \in DOMAIN pools THEN Objects(pools[p]) ELSE {}
  /\ UNCHANGED <<heap, daemons, call, granted>>

\* Mutant of HasClients: active clients are not looked for.
HasClientsNever(p) == FALSE

HasClients(p) == \E d \in Objects(pools[p]) : heap[d].Clients # {}

\* Mutant of CleanupPool: the global index keeps the daemons.
CleanupPoolKeepingIndex(p) ==
  /\ call = NoCall
  /\ p \in DOMAIN pools
  /\ ~ HasClients(p)
  /\ heap' = [d \in DOMAIN heap |-> IF d \in Objects(pools[p])
                                    THEN [heap[d] EXCEPT !.Status = "Stopped"] ELSE heap[d]]
  /\ pools' = Drop(pools, {p})
  /\ UNCHANGED <<daemons, call, history>>

\* Refused while a daemon of the configuration has clients.
CleanupPool(p) ==
  /\ call = NoCall
  /\ p \in DOMAIN pools
  /\ ~ HasClients(p)
  /\ heap' = [d \in DOMAIN heap |-> IF d \in Objects(pools[p])
                                    THEN [heap[d] EXCEPT !.Status = "Stopped"] ELSE heap[d]]
  /\ daemons' = Drop(daemons, DOMAIN pools[p])
  /\ pools' = Drop(pools, {p})
  /\ UNCHANGED <<call, history>>

\* Mutant of NewDaemon: the status is never set to Running.
NewDaemonStarting(g, clients) == [gpu |-> g, Clients |-> clients, Status |-> "Starting"]

\* startDaemon: a new daemon goes into the pool's map and the global index.
NewDaemon(g, clients) == [gpu |-> g, Clients |-> clients, Status |-> "Running"]

-----------------------------------------------------------------------------
\* Allocate, while "MPS pool not found" is not the case.  (The bound leaves
\* room for a daemon per client.)
Allocate(p, s, n) ==
  /\ call = NoCall
  /\ p \in DOMAIN pools
  /\ Len(heap) + n <= MaxDaemons
  /\ call' = [pool |-> p, svc |-> s, n |-> n, i |-> 0, got |-> {}]
  /\ UNCHANGED <<heap, pools, daemons, history>>

\* Mutant of WithCapacity: a full daemon takes one more.
WithCapacityOneMore(p) ==
  {d \in Objects(pools[p]) : heap[d].Status = "Running" /\ Cardinality(heap[d].Clients) <= MaxClients}

\* findOrCreateDaemon, its first choice: a running daemon with room.
WithCapacity(p) ==
  {d \in Objects(pools[p]) : heap[d].Status = "Running" /\ Cardinality(heap[d].Clients) < MaxClients}

\* Its second choice: a GPU of the pool without a daemon.
Unstarted(p) == GPUsOf[p] \ DOMAIN pools[p]

Connected(d) ==
  call' = [call EXCEPT !.i = call.i + 1, !.got = call.got \cup {<<d, call.i>>}]

AllocateOne(d) ==
  /\ call # NoCall
  /\ call.i < call.n
  /\ d \in WithCapacity(call.pool)
  /\ heap' = [heap EXCEPT ![d].Clients = heap[d].Clients \cup {<<call.svc, call.i>>}]
  /\ Connected(d)
  /\ UNCHANGED <<pools, daemons, history>>

AllocateOneStarting(g) ==
  LET d == Len(heap) + 1
  IN  /\ call # NoCall
      /\ call.i < call.n
      /\ WithCapacity(call.pool) = {}
      /\ g \in Unstarted(call.pool)
      /\ heap' = Append(heap, NewDaemon(g, {<<call.svc, call.i>>}))
      /\ pools' = [pools EXCEPT ![call.pool] = Put(pools[call.pool], g, d)]
      /\ daemons' = Put(daemons, g, d)
      /\ Connected(d)
      /\ UNCHANGED history

AllocateDone ==
  /\ call # NoCall
  /\ call.i = call.n
  /\ granted' = [granted EXCEPT ![call.svc] = granted[call.svc] \cup call.got]
  /\ call' = NoCall
  /\ UNCHANGED <<heap, pools, daemons, forgotten>>

\* Mutant of releaseClient: only the service's first client goes.
releaseFirstClient(s) ==
  [d \in DOMAIN heap |-> IF d \in Objects(daemons)
                         THEN [heap[d] EXCEPT !.Clients = heap[d].Clients \ {<<s, 0>>}] ELSE heap[d]]

\* The heap after releaseClient, which looks at the global index only.
releaseClient(s) ==
  [d \in DOMAIN heap |-> IF d \in Objects(daemons)
                         THEN [heap[d] EXCEPT !.Clients = {c \in heap[d].Clients : c[1] # s}]
                         ELSE heap[d]]

\* "no available GPUs": if the call has connected clients, releaseClient is
\* called as often as it has.  That takes away all the service was granted.
AllocateError ==
  /\ call # NoCall
  /\ call.i < call.n
  /\ WithCapacity(call.pool) = {}
  /\ Unstarted(call.pool) = {}
  /\ IF call.i > 0
     THEN heap' = releaseClient(call.svc) /\ granted' = [granted EXCEPT ![call.svc] = {}]
     ELSE UNCHANGED <<heap, granted>>
  /\ call' = NoCall
  /\ UNCHANGED <<pools, daemons, forgotten>>

Release(s) ==
  /\ call = NoCall
  /\ heap' = releaseClient(s)
  /\ granted' = [granted EXCEPT ![s] = {}]
  /\ UNCHANGED <<pools, daemons, call, forgotten>>

\* Refused if the daemon has clients or no pool's configuration has the GPU.
RestartDaemon(g, p) ==
  LET d == Len(heap) + 1
  IN  /\ call = NoCall
      /\ g \in DOMAIN daemons
      /\ heap[daemons[g]].Clients = {}
      /\ p \in DOMAIN pools
      /\ g \in DOMAIN pools[p]
      /\ d <= MaxDaemons
      /\ heap' = Append([heap EXCEPT ![daemons[g]].Status = "Stopped"], NewDaemon(g, {}))
      /\ pools' = [pools EXCEPT ![p] = Put(pools[p], g, d)]
      /\ daemons' = Put(daemons, g, d)
      /\ UNCHANGED <<call, history>>

-----------------------------------------------------------------------------
Allocation ==
  \/ \E p \in Pools, s \in Services, n \in Counts : Allocate(p, s, n)
  \/ \E d \in DOMAIN heap : AllocateOne(d)
  \/ \E g \in GPUs : AllocateOneStarting(g)
  \/ AllocateDone
  \/ AllocateError

Next ==
  \/ Allocation
  \/ \E p \in Pools : ConfigurePool(p) \/ CleanupPool(p)
  \/ \E s \in Services : Release(s)
  \/ \E g \in GPUs, p \in Pools : RestartDaemon(g, p)

Spec == Init /\ [][Next]_vars

-----------------------------------------------------------------------------
TypeOK ==
  /\ heap \in Seq(MPSDaemon)
  /\ DOMAIN pools \subseteq Pools
  /\ \A p \in DOMAIN pools :
       DOMAIN pools[p] \subseteq GPUsOf[p] /\ pools[p] \in [DOMAIN pools[p] -> DOMAIN heap]
  /\ DOMAIN daemons \subseteq GPUs /\ daemons \in [DOMAIN daemons -> DOMAIN heap]
  /\ granted \in [Services -> SUBSET ((DOMAIN heap) \X Nat)]
  /\ forgotten \subseteq DOMAIN heap

\* What Allocate granted to a service stays connected, on a daemon that runs,
\* until the service asks to release it or one of its own requests is rolled
\* back: no cleanup, restart, reconfiguration or call of another service takes
\* it away (mps.go, CleanupPool, RestartDaemon and releaseClient).
GrantedIsConnected ==
  \A s \in Services : \A c \in granted[s] :
    heap[c[1]].Status = "Running" /\ <<s, c[2]>> \in heap[c[1]].Clients

\* The daemons that run.
Running == {d \in DOMAIN heap : heap[d].Status = "Running"}

\* On no GPU are more clients connected than MPS supports, all daemons that run
\* on it and that a reconfiguration has not made their pool forget taken
\* together (mps.go, findOrCreateDaemon and RestartDaemon: "MPS can support up
\* to 48 clients per GPU").  The forgotten ones are left out because they break
\* it: each reconfiguration lets the pool start one more daemon on the GPU.  So
\* would pools that share a GPU, which the code does not rule out.
GPUCapacity ==
  \A g \in GPUs :
    MapThenSumSet(LAMBDA d : Cardinality(heap[d].Clients),
                  {d \in Running \ forgotten : heap[d].gpu = g}) <= MaxClients

\* The daemons that run and were not forgotten by a reconfiguration are those of
\* the pools, and the global index has them all: nothing else makes the manager
\* lose one, if no two pools share a GPU (mps.go, startDaemon, CleanupPool and
\* RestartDaemon).
IndexMatches ==
  /\ UNION {Objects(pools[p]) : p \in DOMAIN pools} = Running \ forgotten
  /\ Objects(daemons) \ forgotten = Running \ forgotten

\* After Release no daemon that the manager has not forgotten has a client of
\* the service (mps.go: "Release releases all MPS resources allocated to a
\* service").
ReleaseComplete ==
  [][\A s \in Services : Release(s) =>
       \A d \in Running' \ forgotten' : \A c \in heap'[d].Clients : c[1] # s]_vars
=============================================================================
