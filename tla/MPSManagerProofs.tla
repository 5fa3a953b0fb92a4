-------------------------- MODULE MPSManagerProofs --------------------------
(***************************************************************************)
(* Proofs about MPSManager, for any pools, services, counts and limit of   *)
(* clients: the types, that granted clients stay connected, that no daemon *)
(* has too many clients and, of the daemons that no reconfiguration made   *)
(* their pool forget, for pools that share no GPU: that the index, the     *)
(* pools and the daemons that run agree, that Release is complete and that *)
(* no GPU has too many clients.  Nothing in the code keeps two pools from  *)
(* selecting one GPU, and a reconfiguration forgets all daemons of a pool. *)
(***************************************************************************)
EXTENDS MPSManager, SequenceTheorems, FiniteSetTheorems, TLAPS

-----------------------------------------------------------------------------
(* The heap. *)

\* The positions of the heap are 1 to its length, and it has daemons in them.
LEMMA HeapFacts ==
  ASSUME NEW h \in Seq(MPSDaemon)
  PROVE  /\ Len(h) \in Nat /\ DOMAIN h = 1..Len(h)
         /\ \A d \in DOMAIN h : h[d] \in MPSDaemon
         /\ Len(h) + 1 \notin DOMAIN h
BY LenProperties, ElementOfSeq

\* Replacing daemons where they are gives a heap of the same length.
LEMMA HeapMap ==
  ASSUME heap \in Seq(MPSDaemon), NEW h, h = [d \in DOMAIN heap |-> h[d]],
         \A d \in DOMAIN heap : h[d] \in MPSDaemon
  PROVE  h \in Seq(MPSDaemon) /\ DOMAIN h = DOMAIN heap /\ Len(h) = Len(heap)
<1>1. Len(heap) \in Nat /\ DOMAIN heap = 1..Len(heap) /\ DOMAIN h = 1..Len(heap)
  BY HeapFacts
<1>2. h \in [1..Len(heap) -> MPSDaemon]
  BY <1>1
<1>3. h \in Seq(MPSDaemon)
  BY <1>1, <1>2, SeqDef
<1> QED BY <1>1, <1>3, LenProperties

\* What a daemon is made of.
LEMMA DaemonFields ==
  ASSUME NEW r \in MPSDaemon
  PROVE  /\ r.gpu \in GPUs /\ r.Clients \subseteq Clients
         /\ \A C \in SUBSET Clients : LET q == [r EXCEPT !.Clients = C]
            IN  q \in MPSDaemon /\ q.gpu = r.gpu /\ q.Status = r.Status /\ q.Clients = C
         /\ LET q == [r EXCEPT !.Status = "Stopped"]
            IN  q \in MPSDaemon /\ q.gpu = r.gpu /\ q.Clients = r.Clients /\ q.Status = "Stopped"
BY DEF MPSDaemon

\* CleanupPool stops the daemons of the pool.
LEMMA StopSome ==
  ASSUME heap \in Seq(MPSDaemon), NEW D,
         heap' = [d \in DOMAIN heap |-> IF d \in D THEN [heap[d] EXCEPT !.Status = "Stopped"]
                                    ELSE heap[d]]
  PROVE  /\ heap' \in Seq(MPSDaemon) /\ DOMAIN heap' = DOMAIN heap /\ Len(heap') = Len(heap)
         /\ \A d \in DOMAIN heap :
              /\ heap'[d].gpu = heap[d].gpu /\ heap'[d].Clients = heap[d].Clients
              /\ heap'[d].Status = IF d \in D THEN "Stopped" ELSE heap[d].Status
<1>1. \A d \in DOMAIN heap : heap[d] \in MPSDaemon
  BY HeapFacts
<1>2. \A d \in DOMAIN heap :
         /\ heap'[d] \in MPSDaemon /\ heap'[d].gpu = heap[d].gpu
        /\ heap'[d].Clients = heap[d].Clients
        /\ heap'[d].Status = IF d \in D THEN "Stopped" ELSE heap[d].Status
  <2> TAKE d \in DOMAIN heap
  <2>1. CASE d \in D
    BY <1>1, <2>1, DaemonFields
  <2>2. CASE d \notin D
    BY <1>1, <2>2
  <2> QED BY <2>1, <2>2
<1>3. heap' = [d \in DOMAIN heap |-> heap'[d]]
  OBVIOUS
<1> QED BY <1>2, <1>3, HeapMap

\* releaseClient takes the service's clients from the daemons in the index.
LEMMA ReleaseHeap ==
  ASSUME heap \in Seq(MPSDaemon), NEW s, heap' = releaseClient(s)
  PROVE  /\ heap' \in Seq(MPSDaemon) /\ DOMAIN heap' = DOMAIN heap /\ Len(heap') = Len(heap)
         /\ \A d \in DOMAIN heap :
              /\ heap'[d].gpu = heap[d].gpu /\ heap'[d].Status = heap[d].Status
              /\ heap'[d].Clients = IF d \in Objects(daemons)
                                THEN {c \in heap[d].Clients : c[1] # s} ELSE heap[d].Clients
<1>1. \A d \in DOMAIN heap : heap[d] \in MPSDaemon
  BY HeapFacts
<1>2. \A d \in DOMAIN heap :
        /\ heap'[d] \in MPSDaemon /\ heap'[d].gpu = heap[d].gpu /\ heap'[d].Status = heap[d].Status
        /\ heap'[d].Clients = IF d \in Objects(daemons)
                          THEN {c \in heap[d].Clients : c[1] # s} ELSE heap[d].Clients
  <2> TAKE d \in DOMAIN heap
  <2> DEFINE C == {c \in heap[d].Clients : c[1] # s}
  <2>1. CASE d \in Objects(daemons)
    <3>1. C \in SUBSET Clients
      BY <1>1, DaemonFields
    <3> DEFINE r == [heap[d] EXCEPT !.Clients = C]
    <3>2. heap'[d] = r
      BY <2>1 DEF releaseClient
    <3>3. r \in MPSDaemon /\ r.gpu = heap[d].gpu /\ r.Status = heap[d].Status /\ r.Clients = C
      <4> HIDE DEF C
      <4> QED BY <1>1, <3>1, DaemonFields
    <3> HIDE DEF r
    <3> QED BY <2>1, <3>2, <3>3
  <2>2. CASE d \notin Objects(daemons)
    BY <1>1, <2>2 DEF releaseClient
  <2> QED BY <2>1, <2>2
<1>3. heap' = [d \in DOMAIN heap |-> heap'[d]]
  BY DEF releaseClient
<1> QED BY <1>2, <1>3, HeapMap

\* A client is connected to one daemon.
LEMMA ConnectHeap ==
  ASSUME heap \in Seq(MPSDaemon), NEW d \in DOMAIN heap, NEW c \in Clients,
         heap' = [heap EXCEPT ![d].Clients = heap[d].Clients \cup {c}]
  PROVE  /\ heap' \in Seq(MPSDaemon) /\ DOMAIN heap' = DOMAIN heap /\ Len(heap') = Len(heap)
         /\ heap'[d].gpu = heap[d].gpu /\ heap'[d].Status = heap[d].Status
         /\ heap'[d].Clients = heap[d].Clients \cup {c}
         /\ \A o \in DOMAIN heap : o # d => heap'[o] = heap[o]
<1> DEFINE C == heap[d].Clients \cup {c}
           r == [heap[d] EXCEPT !.Clients = C]
<1>1. heap[d] \in MPSDaemon
  BY HeapFacts
<1>2. C \in SUBSET Clients
  BY <1>1, DaemonFields
<1>3. heap' = [heap EXCEPT ![d] = r]
  OBVIOUS
<1>4. r \in MPSDaemon /\ r.gpu = heap[d].gpu /\ r.Status = heap[d].Status /\ r.Clients = C
  <2> HIDE DEF C
  <2> QED BY <1>1, <1>2, DaemonFields
<1> HIDE DEF r
<1>5. heap'[d] = r /\ \A o \in DOMAIN heap : o # d => heap'[o] = heap[o]
  BY <1>3
<1>6. \A o \in DOMAIN heap : heap'[o] \in MPSDaemon
  BY <1>4, <1>5, HeapFacts
<1>7. heap' = [o \in DOMAIN heap |-> heap'[o]]
  BY <1>3
<1> QED BY <1>4, <1>5, <1>6, <1>7, HeapMap

\* One daemon is stopped.
LEMMA StopOne ==
  ASSUME heap \in Seq(MPSDaemon), NEW d \in DOMAIN heap, NEW h,
         h = [heap EXCEPT ![d].Status = "Stopped"]
  PROVE  /\ h \in Seq(MPSDaemon) /\ DOMAIN h = DOMAIN heap /\ Len(h) = Len(heap)
         /\ h[d].gpu = heap[d].gpu /\ h[d].Status = "Stopped" /\ h[d].Clients = heap[d].Clients
         /\ \A o \in DOMAIN heap : o # d => h[o] = heap[o]
<1> DEFINE r == [heap[d] EXCEPT !.Status = "Stopped"]
<1>1. heap[d] \in MPSDaemon
  BY HeapFacts
<1>2. r \in MPSDaemon /\ r.gpu = heap[d].gpu /\ r.Clients = heap[d].Clients /\ r.Status = "Stopped"
  BY <1>1, DaemonFields
<1>3. h = [heap EXCEPT ![d] = r]
  OBVIOUS
<1> HIDE DEF r
<1>4. h[d] = r /\ \A o \in DOMAIN heap : o # d => h[o] = heap[o]
  BY <1>3
<1>5. \A o \in DOMAIN heap : h[o] \in MPSDaemon
  BY <1>2, <1>4, HeapFacts
<1>6. h = [o \in DOMAIN heap |-> h[o]]
  BY <1>3
<1> QED BY <1>2, <1>4, <1>5, <1>6, HeapMap

\* startDaemon adds a daemon at the end.
LEMMA StartHeap ==
  ASSUME NEW h \in Seq(MPSDaemon), NEW r \in MPSDaemon
  PROVE  /\ Append(h, r) \in Seq(MPSDaemon)
         /\ DOMAIN Append(h, r) = DOMAIN h \cup {Len(h) + 1}
         /\ Append(h, r)[Len(h) + 1] = r
         /\ \A o \in DOMAIN h : Append(h, r)[o] = h[o]
<1>1. /\ Append(h, r) \in Seq(MPSDaemon) /\ Len(Append(h, r)) = Len(h) + 1
      /\ Append(h, r)[Len(h) + 1] = r /\ \A i \in 1..Len(h) : Append(h, r)[i] = h[i]
  BY AppendProperties
<1>2. Len(h) \in Nat /\ DOMAIN h = 1..Len(h) /\ DOMAIN Append(h, r) = 1..(Len(h) + 1)
  BY <1>1, HeapFacts
<1> QED BY <1>1, <1>2

\* A new daemon runs, with the clients it was started for.
LEMMA NewDaemonType ==
  ASSUME NEW g \in GPUs, NEW C \in SUBSET Clients
  PROVE  /\ NewDaemon(g, C) \in MPSDaemon
         /\ NewDaemon(g, C).gpu = g /\ NewDaemon(g, C).Clients = C
         /\ NewDaemon(g, C).Status = "Running"
BY DEF NewDaemon, MPSDaemon

-----------------------------------------------------------------------------
(* Types. *)

\* The parts of TypeOK, for a heap with the positions D, and the type of an
\* Allocate in progress.
PoolsIn(ps, D) ==
  /\ DOMAIN ps \subseteq Pools
  /\ \A p \in DOMAIN ps : DOMAIN ps[p] \subseteq GPUsOf[p] /\ ps[p] \in [DOMAIN ps[p] -> D]
DaemonsIn(ds, D) == DOMAIN ds \subseteq GPUs /\ ds \in [DOMAIN ds -> D]
GrantedIn(gr, D) == gr \in [Services -> SUBSET (D \X Nat)]
CallIn(c, ps, D) ==
  c # NoCall => c \in [pool : DOMAIN ps, svc : Services, n : Counts, i : Nat,
                       got : SUBSET (D \X Nat)]

CallOK == CallIn(call, pools, DOMAIN heap)

TInv == TypeOK /\ CallOK

\* The parts are the whole.
LEMMA TypeParts ==
  TInv <=> /\ heap \in Seq(MPSDaemon)
           /\ PoolsIn(pools, DOMAIN heap) /\ DaemonsIn(daemons, DOMAIN heap)
           /\ GrantedIn(granted, DOMAIN heap) /\ forgotten \subseteq DOMAIN heap
           /\ CallIn(call, pools, DOMAIN heap)
BY DEF TInv, TypeOK, CallOK, PoolsIn, DaemonsIn, GrantedIn, CallIn

\* The same of the state after a step.
LEMMA TypePartsNext ==
  TInv' <=> /\ heap' \in Seq(MPSDaemon)
            /\ PoolsIn(pools', DOMAIN heap') /\ DaemonsIn(daemons', DOMAIN heap')
            /\ GrantedIn(granted', DOMAIN heap') /\ forgotten' \subseteq DOMAIN heap'
            /\ CallIn(call', pools', DOMAIN heap')
BY DEF TInv, TypeOK, CallOK, PoolsIn, DaemonsIn, GrantedIn, CallIn

\* A heap that grows disturbs nobody who points into it.
LEMMA PartsGrow ==
  ASSUME NEW D, NEW E, D \subseteq E
  PROVE  /\ \A ps : PoolsIn(ps, D) => PoolsIn(ps, E)
         /\ \A ds : DaemonsIn(ds, D) => DaemonsIn(ds, E)
         /\ \A gr : GrantedIn(gr, D) => GrantedIn(gr, E)
         /\ \A c, ps : CallIn(c, ps, D) => CallIn(c, ps, E)
<1>1. \A ps : PoolsIn(ps, D) => PoolsIn(ps, E)
  BY DEF PoolsIn
<1>2. \A ds : DaemonsIn(ds, D) => DaemonsIn(ds, E)
  BY DEF DaemonsIn
<1>3. SUBSET (D \X Nat) \subseteq SUBSET (E \X Nat)
  OBVIOUS
<1>4. \A gr : GrantedIn(gr, D) => GrantedIn(gr, E)
  BY <1>3 DEF GrantedIn
<1>5. \A c, ps : CallIn(c, ps, D) => CallIn(c, ps, E)
  BY <1>3 DEF CallIn
<1> QED BY <1>1, <1>2, <1>4, <1>5

\* A daemon is put into a pool's map, or into the index.
LEMMA PutPool ==
  ASSUME NEW ps, NEW D, PoolsIn(ps, D), NEW p \in DOMAIN ps, NEW g \in GPUsOf[p], NEW d \in D
  PROVE  /\ PoolsIn([ps EXCEPT ![p] = Put(ps[p], g, d)], D)
         /\ DOMAIN [ps EXCEPT ![p] = Put(ps[p], g, d)] = DOMAIN ps
<1> DEFINE m == Put(ps[p], g, d)
           qs == [ps EXCEPT ![p] = m]
<1>1. DOMAIN m \subseteq GPUsOf[p] /\ m \in [DOMAIN m -> D]
  BY DEF PoolsIn, Put
<1> HIDE DEF m
<1>2. DOMAIN qs = DOMAIN ps /\ qs[p] = m /\ \A q \in DOMAIN ps : q # p => qs[q] = ps[q]
  BY DEF PoolsIn
<1> HIDE DEF qs
<1>3. PoolsIn(qs, D)
  BY <1>1, <1>2 DEF PoolsIn
<1> QED BY <1>2, <1>3 DEF qs, m

\* The index stays one of daemons when an entry comes.
LEMMA PutDaemon ==
  ASSUME NEW ds, NEW D, DaemonsIn(ds, D), NEW g \in GPUs, NEW d \in D
  PROVE  DaemonsIn(Put(ds, g, d), D)
BY DEF DaemonsIn, Put

\* The GPUs of a pool are GPUs.
LEMMA PoolGPUs == ASSUME NEW p \in Pools PROVE GPUsOf[p] \subseteq GPUs
BY MPSAssumption

\* What a connected client changes of the call.
LEMMA ConnectedCall ==
  ASSUME NEW D, CallIn(call, pools, D), call # NoCall, NEW d \in D, Connected(d)
  PROVE  /\ CallIn(call', pools, D)
         /\ call'.pool = call.pool /\ call'.svc = call.svc
         /\ call'.got = call.got \cup {<<d, call.i>>}
<1> DEFINE G == call.got \cup {<<d, call.i>>}
           i == call.i + 1
<1>1. call \in [pool : DOMAIN pools, svc : Services, n : Counts, i : Nat, got : SUBSET (D \X Nat)]
  BY DEF CallIn
<1>2. call.i \in Nat /\ call.got \in SUBSET (D \X Nat)
  BY <1>1
<1>3. i \in Nat /\ G \in SUBSET (D \X Nat)
  BY <1>2
<1>4. call' = [call EXCEPT !.i = i, !.got = G]
  BY DEF Connected
<1> HIDE DEF G, i
<1>5. /\ call' \in [pool : DOMAIN pools, svc : Services, n : Counts, i : Nat,
                    got : SUBSET (D \X Nat)]
      /\ call'.pool = call.pool /\ call'.svc = call.svc /\ call'.got = G
  BY <1>1, <1>3, <1>4
<1> QED BY <1>5 DEF CallIn, G

\* The call in progress is of a configured pool and of a service.
LEMMA CallFields ==
  ASSUME TInv, call # NoCall
  PROVE  /\ call.pool \in DOMAIN pools /\ call.pool \in Pools /\ call.svc \in Services
         /\ call.i \in Nat /\ <<call.svc, call.i>> \in Clients
         /\ call.got \in SUBSET ((DOMAIN heap) \X Nat)
BY TypeParts DEF CallIn, PoolsIn, Clients

\* An Allocate starts a daemon and connects its next client to it.
LEMMA StartingHeap ==
  ASSUME TInv, NEW g \in GPUs, AllocateOneStarting(g)
  PROVE  /\ heap' \in Seq(MPSDaemon) /\ DOMAIN heap' = DOMAIN heap \cup {Len(heap) + 1}
         /\ Len(heap) + 1 \notin DOMAIN heap
         /\ heap'[Len(heap) + 1].gpu = g /\ heap'[Len(heap) + 1].Clients = {<<call.svc, call.i>>}
         /\ heap'[Len(heap) + 1].Status = "Running"
         /\ \A o \in DOMAIN heap : heap'[o] = heap[o]
<1> DEFINE d == Len(heap) + 1
           C == {<<call.svc, call.i>>}
<1>1. heap \in Seq(MPSDaemon)
  BY TypeParts
<1> DEFINE r == NewDaemon(g, C)
<1>2. C \in SUBSET Clients /\ heap' = Append(heap, r)
  BY CallFields DEF AllocateOneStarting
<1> HIDE DEF C
<1>n. r \in MPSDaemon /\ r.gpu = g /\ r.Clients = C /\ r.Status = "Running"
  BY <1>2, NewDaemonType
<1> HIDE DEF r
<1>3. /\ heap' \in Seq(MPSDaemon) /\ DOMAIN heap' = DOMAIN heap \cup {d}
      /\ heap'[d].gpu = g /\ heap'[d].Clients = C /\ heap'[d].Status = "Running"
      /\ \A o \in DOMAIN heap : heap'[o] = heap[o]
  BY <1>1, <1>2, <1>n, StartHeap
<1>4. d \notin DOMAIN heap
  BY <1>1, HeapFacts
<1> QED BY <1>3, <1>4 DEF C

\* RestartDaemon stops the daemon the index has, which has no clients, and
\* starts another one.
LEMMA RestartHeap ==
  ASSUME TInv, NEW g \in GPUs, NEW p, RestartDaemon(g, p)
  PROVE  /\ heap' \in Seq(MPSDaemon) /\ DOMAIN heap' = DOMAIN heap \cup {Len(heap) + 1}
         /\ Len(heap) + 1 \notin DOMAIN heap
         /\ heap'[Len(heap) + 1].gpu = g /\ heap'[Len(heap) + 1].Clients = {}
         /\ heap'[Len(heap) + 1].Status = "Running"
         /\ daemons[g] \in DOMAIN heap /\ heap[daemons[g]].Clients = {}
         /\ heap'[daemons[g]].gpu = heap[daemons[g]].gpu
         /\ heap'[daemons[g]].Clients = {} /\ heap'[daemons[g]].Status = "Stopped"
         /\ \A x \in DOMAIN heap : x # daemons[g] => heap'[x] = heap[x]
<1> DEFINE o == daemons[g]
           d == Len(heap) + 1
           h == [heap EXCEPT ![o].Status = "Stopped"]
           C == {}
<1>1. heap \in Seq(MPSDaemon) /\ o \in DOMAIN heap /\ heap[o].Clients = {}
  BY TypeParts DEF RestartDaemon, DaemonsIn
<1> DEFINE r == NewDaemon(g, C)
<1>2. heap' = Append(h, r) /\ C \in SUBSET Clients
  BY DEF RestartDaemon
<1>3. /\ h \in Seq(MPSDaemon) /\ DOMAIN h = DOMAIN heap /\ Len(h) = Len(heap)
      /\ h[o].gpu = heap[o].gpu /\ h[o].Status = "Stopped" /\ h[o].Clients = heap[o].Clients
      /\ \A x \in DOMAIN heap : x # o => h[x] = heap[x]
  BY <1>1, StopOne
<1> HIDE DEF h, C, d
<1>n. r \in MPSDaemon /\ r.gpu = g /\ r.Clients = C /\ r.Status = "Running"
  BY <1>2, NewDaemonType
<1> HIDE DEF r
<1>4. /\ heap' \in Seq(MPSDaemon) /\ DOMAIN heap' = DOMAIN h \cup {d}
      /\ heap'[d].gpu = g /\ heap'[d].Clients = C /\ heap'[d].Status = "Running"
      /\ \A x \in DOMAIN h : heap'[x] = h[x]
  BY <1>2, <1>3, <1>n, StartHeap DEF d
<1>5. d \notin DOMAIN heap
  BY <1>1, HeapFacts DEF d
<1> QED BY <1>1, <1>3, <1>4, <1>5 DEF C, d

\* Every step keeps the types.
LEMMA TInvStep == TInv /\ [Next]_vars => TInv'
<1> SUFFICES ASSUME TInv, [Next]_vars PROVE TInv'
  OBVIOUS
<1> USE DEF history
<1>t. /\ heap \in Seq(MPSDaemon)
      /\ PoolsIn(pools, DOMAIN heap) /\ DaemonsIn(daemons, DOMAIN heap)
      /\ GrantedIn(granted, DOMAIN heap) /\ forgotten \subseteq DOMAIN heap
      /\ CallIn(call, pools, DOMAIN heap)
  BY TypeParts
<1>h. Len(heap) \in Nat /\ DOMAIN heap = 1..Len(heap)
  BY <1>t, HeapFacts
<1>1. ASSUME NEW p \in Pools, NEW s \in Services, NEW n \in Counts, Allocate(p, s, n) PROVE TInv'
  <2>1. CallIn(call', pools, DOMAIN heap)
    BY <1>1 DEF Allocate, CallIn
  <2> QED BY <1>1, <1>t, <2>1, TypePartsNext DEF Allocate
<1>2. ASSUME NEW d \in DOMAIN heap, AllocateOne(d) PROVE TInv'
  <2>1. call # NoCall /\ Connected(d) /\ UNCHANGED <<pools, daemons, granted, forgotten>>
    BY <1>2 DEF AllocateOne
  <2>2. heap' \in Seq(MPSDaemon) /\ DOMAIN heap' = DOMAIN heap
    BY <1>2, <1>t, <2>1, CallFields, ConnectHeap DEF AllocateOne
  <2> QED BY <1>t, <2>1, <2>2, ConnectedCall, TypePartsNext
<1>3. ASSUME NEW g \in GPUs, AllocateOneStarting(g) PROVE TInv'
  <2> DEFINE d == Len(heap) + 1
             p == call.pool
  <2>1. /\ call # NoCall /\ Connected(d) /\ UNCHANGED <<granted, forgotten>>
        /\ heap' = Append(heap, NewDaemon(g, {<<call.svc, call.i>>}))
        /\ pools' = [pools EXCEPT ![p] = Put(pools[p], g, d)] /\ daemons' = Put(daemons, g, d)
        /\ g \in GPUsOf[p]
    BY <1>3 DEF AllocateOneStarting, Unstarted
  <2>2. heap' \in Seq(MPSDaemon) /\ DOMAIN heap' = DOMAIN heap \cup {d}
    BY <1>3, StartingHeap
  <2>3. /\ PoolsIn(pools, DOMAIN heap') /\ DaemonsIn(daemons, DOMAIN heap')
        /\ GrantedIn(granted, DOMAIN heap') /\ CallIn(call, pools, DOMAIN heap')
    BY <1>t, <2>2, PartsGrow
  <2>4. p \in DOMAIN pools /\ d \in DOMAIN heap'
    BY <2>1, <2>2, CallFields
  <2> HIDE DEF d, p
  <2>5. PoolsIn(pools', DOMAIN heap') /\ DOMAIN pools' = DOMAIN pools
    BY <2>1, <2>3, <2>4, PutPool
  <2>6. DaemonsIn(daemons', DOMAIN heap')
    BY <2>1, <2>3, <2>4, PutDaemon
  <2>7. CallIn(call', pools', DOMAIN heap')
    BY <2>1, <2>3, <2>4, <2>5, ConnectedCall DEF CallIn
  <2> QED BY <1>t, <2>1, <2>2, <2>3, <2>5, <2>6, <2>7, TypePartsNext
<1>4. ASSUME AllocateDone PROVE TInv'
  <2>1. GrantedIn(granted', DOMAIN heap)
    BY <1>4, <1>t, CallFields DEF AllocateDone, GrantedIn
  <2> QED BY <1>4, <1>t, <2>1, TypePartsNext DEF AllocateDone, CallIn
<1>r. ASSUME NEW s \in Services, heap' = releaseClient(s), granted' = [granted EXCEPT ![s] = {}],
             UNCHANGED <<pools, daemons, forgotten>>, call' = NoCall
      PROVE  TInv'
  <2>1. heap' \in Seq(MPSDaemon) /\ DOMAIN heap' = DOMAIN heap
    BY <1>r, <1>t, ReleaseHeap
  <2>2. GrantedIn(granted', DOMAIN heap)
    BY <1>r, <1>t DEF GrantedIn
  <2> QED BY <1>r, <1>t, <2>1, <2>2, TypePartsNext DEF CallIn
<1>5. ASSUME AllocateError PROVE TInv'
  <2>1. CASE call.i > 0
    BY <1>5, <1>r, <2>1, CallFields DEF AllocateError
  <2>2. CASE ~ (call.i > 0)
    BY <1>5, <1>t, <2>2, TypePartsNext DEF AllocateError, CallIn
  <2> QED BY <2>1, <2>2
<1>6. ASSUME NEW p \in Pools, ConfigurePool(p) PROVE TInv'
  <2>1. UNCHANGED <<heap, daemons, granted>> /\ call' = NoCall /\ pools' = Put(pools, p, <<>>)
    BY <1>6 DEF ConfigurePool
  <2>2. PoolsIn(pools', DOMAIN heap)
    BY <1>t, <2>1 DEF PoolsIn, Put
  <2>3. forgotten' \subseteq DOMAIN heap
    BY <1>6, <1>t DEF ConfigurePool, PoolsIn, Objects
  <2> QED BY <1>t, <2>1, <2>2, <2>3, TypePartsNext DEF CallIn
<1>7. ASSUME NEW p \in Pools, CleanupPool(p) PROVE TInv'
  <2>1. /\ pools' = Drop(pools, {p}) /\ daemons' = Drop(daemons, DOMAIN pools[p])
        /\ call' = NoCall /\ UNCHANGED <<granted, forgotten>>
    BY <1>7 DEF CleanupPool
  <2>2. heap' \in Seq(MPSDaemon) /\ DOMAIN heap' = DOMAIN heap
    BY <1>7, <1>t, StopSome DEF CleanupPool
  <2>3. PoolsIn(pools', DOMAIN heap) /\ DaemonsIn(daemons', DOMAIN heap)
    BY <1>t, <2>1 DEF PoolsIn, DaemonsIn, Drop
  <2> QED BY <1>t, <2>1, <2>2, <2>3, TypePartsNext DEF CallIn
<1>8. ASSUME NEW s \in Services, Release(s) PROVE TInv'
  BY <1>8, <1>r DEF Release
<1>9. ASSUME NEW g \in GPUs, NEW p \in Pools, RestartDaemon(g, p) PROVE TInv'
  <2> DEFINE d == Len(heap) + 1
  <2>1. /\ g \in DOMAIN daemons /\ p \in DOMAIN pools /\ g \in DOMAIN pools[p]
        /\ pools' = [pools EXCEPT ![p] = Put(pools[p], g, d)] /\ daemons' = Put(daemons, g, d)
        /\ call' = NoCall /\ UNCHANGED <<granted, forgotten>>
    BY <1>9 DEF RestartDaemon
  <2>2. g \in GPUsOf[p]
    BY <1>t, <2>1 DEF PoolsIn
  <2>4. heap' \in Seq(MPSDaemon) /\ DOMAIN heap' = DOMAIN heap \cup {d}
    BY <1>9, RestartHeap
  <2>5. /\ PoolsIn(pools, DOMAIN heap') /\ DaemonsIn(daemons, DOMAIN heap')
        /\ GrantedIn(granted, DOMAIN heap')
    BY <1>t, <2>4, PartsGrow
  <2>6. PoolsIn(pools', DOMAIN heap') /\ DaemonsIn(daemons', DOMAIN heap')
    BY <2>1, <2>2, <2>4, <2>5, PutPool, PutDaemon
  <2> QED BY <1>t, <2>1, <2>4, <2>5, <2>6, TypePartsNext DEF CallIn
<1>10. ASSUME UNCHANGED vars PROVE TInv'
  BY <1>10, <1>t, TypePartsNext DEF vars
<1> QED BY <1>1, <1>2, <1>3, <1>4, <1>5, <1>6, <1>7, <1>8, <1>9, <1>10 DEF Next, Allocation

\* The manager starts without daemons, pools or clients.
LEMMA TInvInit == Init => TInv
<1> SUFFICES ASSUME Init PROVE TInv
  OBVIOUS
<1>1. heap \in Seq(MPSDaemon) /\ CallIn(call, pools, DOMAIN heap) /\ forgotten \subseteq DOMAIN heap
  BY DEF Init, CallIn
<1>2. /\ PoolsIn(pools, DOMAIN heap) /\ DaemonsIn(daemons, DOMAIN heap)
      /\ GrantedIn(granted, DOMAIN heap)
  BY DEF Init, PoolsIn, DaemonsIn, GrantedIn
<1> QED BY <1>1, <1>2, TypeParts

\* The maps, the index and what was granted always point to daemons that were
\* started, and a pool only has daemons on its own GPUs (mps.go, startDaemon).
THEOREM TypeOKTheorem == Spec => []TypeOK
<1>1. TInv => TypeOK
  BY DEF TInv
<1> QED BY <1>1, TInvInit, TInvStep, PTL DEF Spec

-----------------------------------------------------------------------------
(* Granted clients stay connected. *)

HasClient(h, d, c) == h[d].Status = "Running" /\ c \in h[d].Clients

\* The clients the Allocate in progress has connected so far.
GotIsConnected ==
  call # NoCall => \A c \in call.got : HasClient(heap, c[1], <<call.svc, c[2]>>)

ConnInv == GrantedIsConnected /\ GotIsConnected

\* A step that takes no client from a running daemon, and that grants and
\* collects nothing new.
LEMMA KeepsConnected ==
  ASSUME TInv, ConnInv,
         \A d \in DOMAIN heap : \A c \in Clients : HasClient(heap, d, c) => HasClient(heap', d, c)
  PROVE  /\ UNCHANGED granted => GrantedIsConnected'
         /\ \A c \in call.got : call # NoCall => HasClient(heap', c[1], <<call.svc, c[2]>>)
<1>1. \A s \in Services : \A c \in granted[s] :
        c[1] \in DOMAIN heap /\ <<s, c[2]>> \in Clients /\ HasClient(heap, c[1], <<s, c[2]>>)
  <2> TAKE s \in Services
  <2> TAKE c \in granted[s]
  <2>1. c \in (DOMAIN heap) \X Nat
    BY TypeParts DEF GrantedIn
  <2>2. HasClient(heap, c[1], <<s, c[2]>>)
    BY DEF ConnInv, GrantedIsConnected, HasClient
  <2> QED BY <2>1, <2>2 DEF Clients
<1>2. call # NoCall => \A c \in call.got :
        c[1] \in DOMAIN heap /\ <<call.svc, c[2]>> \in Clients
        /\ HasClient(heap, c[1], <<call.svc, c[2]>>)
  BY CallFields DEF ConnInv, GotIsConnected, Clients
<1>3. UNCHANGED granted => GrantedIsConnected'
  BY <1>1 DEF GrantedIsConnected, HasClient
<1> QED BY <1>2, <1>3

\* Taking a service's clients away leaves the other services connected.
LEMMA ReleaseKeeps ==
  ASSUME TInv, ConnInv, NEW s \in Services, heap' = releaseClient(s),
         granted' = [granted EXCEPT ![s] = {}]
  PROVE  GrantedIsConnected'
<1> SUFFICES ASSUME NEW r \in Services, NEW c \in granted'[r]
             PROVE  HasClient(heap', c[1], <<r, c[2]>>)
  BY DEF GrantedIsConnected, HasClient
<1>1. granted \in [Services -> SUBSET ((DOMAIN heap) \X Nat)] /\ heap \in Seq(MPSDaemon)
  BY TypeParts DEF GrantedIn
<1>2. r # s /\ c \in granted[r] /\ c[1] \in DOMAIN heap
  BY <1>1
<1>3. HasClient(heap, c[1], <<r, c[2]>>) /\ <<r, c[2]>>[1] # s
  BY <1>2 DEF ConnInv, GrantedIsConnected, HasClient
<1> DEFINE d == c[1]
<1>4. d \in DOMAIN heap
  BY <1>2
<1> HIDE DEF d
<1>5. /\ heap'[d].Status = heap[d].Status
      /\ heap'[d].Clients = IF d \in Objects(daemons)
                            THEN {x \in heap[d].Clients : x[1] # s} ELSE heap[d].Clients
  BY <1>1, <1>4, ReleaseHeap
<1> QED BY <1>3, <1>5 DEF HasClient, d

\* Every step keeps what was granted connected.
LEMMA ConnInvStep == TInv /\ ConnInv /\ [Next]_vars => ConnInv'
<1> SUFFICES ASSUME TInv, ConnInv, [Next]_vars PROVE ConnInv'
  OBVIOUS
<1> USE DEF history
<1>t. /\ heap \in Seq(MPSDaemon) /\ PoolsIn(pools, DOMAIN heap)
      /\ GrantedIn(granted, DOMAIN heap)
  BY TypeParts
<1>u. ASSUME UNCHANGED <<heap, granted>>, call' = NoCall \/ UNCHANGED call PROVE ConnInv'
  BY <1>u DEF ConnInv, GrantedIsConnected, GotIsConnected, HasClient
<1>1. ASSUME NEW p \in Pools, NEW s \in Services, NEW n \in Counts, Allocate(p, s, n) PROVE ConnInv'
  <2>1. call'.got = {} /\ UNCHANGED <<heap, granted>>
    BY <1>1 DEF Allocate
  <2> QED BY <2>1 DEF ConnInv, GrantedIsConnected, GotIsConnected, HasClient
<1>2. ASSUME NEW d \in DOMAIN heap, AllocateOne(d) PROVE ConnInv'
  <2> DEFINE c == <<call.svc, call.i>>
  <2>1. /\ call # NoCall /\ Connected(d) /\ UNCHANGED granted /\ heap[d].Status = "Running"
        /\ heap' = [heap EXCEPT ![d].Clients = heap[d].Clients \cup {c}]
    BY <1>2 DEF AllocateOne, WithCapacity
  <2>2. c \in Clients
    BY <2>1, CallFields
  <2>3. /\ heap'[d].Status = heap[d].Status /\ heap'[d].Clients = heap[d].Clients \cup {c}
        /\ \A o \in DOMAIN heap : o # d => heap'[o] = heap[o]
    BY <1>t, <2>1, <2>2, ConnectHeap
  <2>4. \A o \in DOMAIN heap : \A x \in Clients : HasClient(heap, o, x) => HasClient(heap', o, x)
    BY <2>3 DEF HasClient
  <2>5. HasClient(heap', d, c)
    BY <2>1, <2>3 DEF HasClient
  <2>6. call'.svc = call.svc /\ call'.got = call.got \cup {<<d, call.i>>}
    BY <2>1, ConnectedCall, TypeParts
  <2>7. \A x \in call'.got : HasClient(heap', x[1], <<call'.svc, x[2]>>)
    <3> TAKE x \in call'.got
    <3>1. CASE x \in call.got
      BY <2>1, <2>4, <2>6, <3>1, KeepsConnected
    <3>2. CASE x = <<d, call.i>>
      BY <2>5, <2>6, <3>2
    <3> QED BY <2>6, <3>1, <3>2
  <2> QED BY <2>1, <2>4, <2>7, KeepsConnected DEF ConnInv, GotIsConnected, HasClient
<1>3. ASSUME NEW g \in GPUs, AllocateOneStarting(g) PROVE ConnInv'
  <2> DEFINE d == Len(heap) + 1
             c == <<call.svc, call.i>>
  <2>1. call # NoCall /\ Connected(d) /\ UNCHANGED granted
    BY <1>3 DEF AllocateOneStarting
  <2>2. /\ HasClient(heap', d, c) /\ DOMAIN heap \subseteq DOMAIN heap' /\ d \in DOMAIN heap'
        /\ \A o \in DOMAIN heap : heap'[o] = heap[o]
    BY <1>3, StartingHeap DEF HasClient
  <2>3. \A o \in DOMAIN heap : \A x \in Clients : HasClient(heap, o, x) => HasClient(heap', o, x)
    BY <2>2 DEF HasClient
  <2>4. call'.svc = call.svc /\ call'.got = call.got \cup {<<d, call.i>>}
    <3>1. CallIn(call, pools, DOMAIN heap')
      BY <2>2, PartsGrow, TypeParts
    <3> HIDE DEF d
    <3> QED BY <2>1, <2>2, <3>1, ConnectedCall
  <2> HIDE DEF d
  <2>5. \A x \in call'.got : HasClient(heap', x[1], <<call'.svc, x[2]>>)
    BY <2>1, <2>2, <2>3, <2>4, KeepsConnected
  <2> QED BY <2>1, <2>3, <2>5, KeepsConnected DEF ConnInv, GotIsConnected, HasClient
<1>4. ASSUME AllocateDone PROVE ConnInv'
  <2>1. /\ call # NoCall /\ call' = NoCall /\ heap' = heap
        /\ granted' = [granted EXCEPT ![call.svc] = granted[call.svc] \cup call.got]
    BY <1>4 DEF AllocateDone
  <2>2. call.svc \in Services /\ DOMAIN granted = Services
    BY <1>t, <2>1, CallFields DEF GrantedIn
  <2>3. GrantedIsConnected'
    BY <2>1, <2>2 DEF ConnInv, GrantedIsConnected, GotIsConnected, HasClient
  <2> QED BY <2>1, <2>3 DEF ConnInv, GotIsConnected
<1>5. ASSUME AllocateError PROVE ConnInv'
  <2>1. CASE call.i > 0
    BY <1>5, <2>1, CallFields, ReleaseKeeps DEF AllocateError, ConnInv, GotIsConnected
  <2>2. CASE ~ (call.i > 0)
    BY <1>5, <1>u, <2>2 DEF AllocateError
  <2> QED BY <2>1, <2>2
<1>6. ASSUME NEW p \in Pools, ConfigurePool(p) PROVE ConnInv'
  BY <1>6, <1>u DEF ConfigurePool
<1>7. ASSUME NEW p \in Pools, CleanupPool(p) PROVE ConnInv'
  <2>1. /\ \A d \in Objects(pools[p]) : heap[d].Clients = {}
        /\ call = NoCall /\ call' = NoCall /\ UNCHANGED granted
    BY <1>7 DEF CleanupPool, HasClients
  <2>2. \A d \in DOMAIN heap :
          /\ heap'[d].Clients = heap[d].Clients
          /\ heap'[d].Status = IF d \in Objects(pools[p]) THEN "Stopped" ELSE heap[d].Status
    BY <1>7, <1>t, StopSome DEF CleanupPool
  <2>3. \A d \in DOMAIN heap : \A c \in Clients : HasClient(heap, d, c) => HasClient(heap', d, c)
    BY <2>1, <2>2 DEF HasClient
  <2> QED BY <2>1, <2>3, KeepsConnected DEF ConnInv, GotIsConnected
<1>8. ASSUME NEW s \in Services, Release(s) PROVE ConnInv'
  BY <1>8, ReleaseKeeps DEF Release, ConnInv, GotIsConnected
<1>9. ASSUME NEW g \in GPUs, NEW p \in Pools, RestartDaemon(g, p) PROVE ConnInv'
  <2>1. /\ heap[daemons[g]].Clients = {}
        /\ \A o \in DOMAIN heap : o # daemons[g] => heap'[o] = heap[o]
    BY <1>9, RestartHeap
  <2>2. \A d \in DOMAIN heap : \A c \in Clients : HasClient(heap, d, c) => HasClient(heap', d, c)
    BY <2>1 DEF HasClient
  <2> QED BY <1>9, <2>2, KeepsConnected DEF RestartDaemon, ConnInv, GotIsConnected
<1> QED BY <1>1, <1>2, <1>3, <1>4, <1>5, <1>6, <1>7, <1>8, <1>9, <1>u DEF Next, Allocation, vars

\* A client that Allocate granted stays connected to a running daemon until its
\* service releases it or has a request of its own rolled back, whatever pools
\* are configured, cleaned up and restarted meanwhile (mps.go, CleanupPool,
\* RestartDaemon and releaseClient).
THEOREM GrantedIsConnectedTheorem == Spec => []GrantedIsConnected
<1>1. Init => ConnInv
  BY DEF Init, ConnInv, GrantedIsConnected, GotIsConnected
<1>2. ConnInv => GrantedIsConnected
  BY DEF ConnInv
<1> QED BY <1>1, <1>2, TInvInit, TInvStep, ConnInvStep, PTL DEF Spec

-----------------------------------------------------------------------------
(* The pools, the index and the daemons that run, for pools that share no   *)
(* GPU.                                                                     *)

DisjointPools == \A p, q \in Pools : p # q => GPUsOf[p] \cap GPUsOf[q] = {}

\* In the configurations ps, the one of pool p has daemon d for GPU g.
At(ps, p, g, d) == p \in DOMAIN ps /\ g \in DOMAIN ps[p] /\ ps[p][g] = d

\* The daemons of a configuration run, on their GPU, and are in the index.
PoolsIndexed ==
  \A p \in Pools, g \in GPUs, d \in DOMAIN heap : At(pools, p, g, d) =>
    /\ g \in DOMAIN daemons /\ daemons[g] = d
    /\ heap[d].gpu = g /\ heap[d].Status = "Running" /\ d \notin forgotten

\* A daemon that runs is forgotten or in a configuration.
RunningInPools ==
  \A d \in DOMAIN heap : heap[d].Status = "Running" /\ d \notin forgotten =>
    \E p \in Pools : At(pools, p, heap[d].gpu, d)

\* So is a daemon of the index, which has it under its GPU.
IndexInPools ==
  \A g \in DOMAIN daemons :
    /\ heap[daemons[g]].gpu = g
    /\ daemons[g] \in forgotten \/ \E p \in Pools : At(pools, p, g, daemons[g])

IndexInv == PoolsIndexed /\ RunningInPools /\ IndexInPools

\* What a configuration has is a daemon on a GPU of its pool, and of no other.
LEMMA AtFacts ==
  ASSUME DisjointPools, TInv, NEW p, NEW g, NEW d, At(pools, p, g, d)
  PROVE  /\ p \in Pools /\ g \in GPUs /\ g \in GPUsOf[p] /\ d \in DOMAIN heap
         /\ \A q \in Pools : \A e : At(pools, q, g, e) => q = p
<1>1. p \in Pools /\ g \in GPUsOf[p] /\ d \in DOMAIN heap
  BY TypeParts DEF At, PoolsIn
<1>2. g \in GPUs
  BY <1>1, PoolGPUs
<1>3. \A q \in Pools : \A e : At(pools, q, g, e) => g \in GPUsOf[q]
  BY TypeParts DEF At, PoolsIn
<1> QED BY <1>1, <1>2, <1>3 DEF DisjointPools

\* A step that only changes clients.
LEMMA KeepsIndex ==
  ASSUME TInv, IndexInv, DOMAIN heap' = DOMAIN heap, UNCHANGED <<pools, daemons, forgotten>>,
         \A d \in DOMAIN heap : heap'[d].gpu = heap[d].gpu /\ heap'[d].Status = heap[d].Status
  PROVE  IndexInv'
<1>1. \A p, g, d : At(pools', p, g, d) <=> At(pools, p, g, d)
  BY DEF At
<1>2. PoolsIndexed'
  BY <1>1 DEF IndexInv, PoolsIndexed
<1>3. RunningInPools'
  BY <1>1 DEF IndexInv, RunningInPools
<1>4. \A g \in DOMAIN daemons : daemons[g] \in DOMAIN heap
  BY TypeParts DEF DaemonsIn
<1>5. IndexInPools'
  BY <1>1, <1>4 DEF IndexInv, IndexInPools
<1> QED BY <1>2, <1>3, <1>5 DEF IndexInv

\* The daemon at position d, new, is put into p's configuration and the index
\* under g.  The one that was there, if any, has stopped.
LEMMA PutIndexed ==
  ASSUME DisjointPools, TInv, IndexInv, NEW p \in DOMAIN pools, NEW g \in GPUsOf[p], NEW d,
         d \notin DOMAIN heap, DOMAIN heap' = DOMAIN heap \cup {d},
         pools' = [pools EXCEPT ![p] = Put(pools[p], g, d)], daemons' = Put(daemons, g, d),
         UNCHANGED forgotten, heap'[d].gpu = g, heap'[d].Status = "Running",
         \A o \in DOMAIN heap : ~ At(pools, p, g, o) => heap'[o] = heap[o],
         \A o \in DOMAIN heap : At(pools, p, g, o) => heap'[o].Status = "Stopped"
  PROVE  IndexInv'
<1>t. /\ forgotten \subseteq DOMAIN heap /\ p \in Pools /\ g \in GPUs
      /\ \A x \in DOMAIN daemons : daemons[x] \in DOMAIN heap
  BY PoolGPUs, TypeParts DEF DaemonsIn, PoolsIn
<1>1. \A q, x, e : At(pools', q, x, e) <=> IF q = p /\ x = g THEN e = d ELSE At(pools, q, x, e)
  BY DEF At, Put
<1>2. /\ DOMAIN daemons' = DOMAIN daemons \cup {g} /\ daemons'[g] = d
      /\ \A x \in DOMAIN daemons : x # g => daemons'[x] = daemons[x]
  BY DEF Put
<1>3. PoolsIndexed'
  <2> SUFFICES ASSUME NEW q \in Pools, NEW x \in GPUs, NEW e \in DOMAIN heap', At(pools', q, x, e)
               PROVE  /\ x \in DOMAIN daemons' /\ daemons'[x] = e /\ heap'[e].gpu = x
                      /\ heap'[e].Status = "Running" /\ e \notin forgotten'
    BY DEF PoolsIndexed
  <2>1. CASE q = p /\ x = g
    BY <1>1, <1>2, <1>t, <2>1
  <2>2. CASE ~ (q = p /\ x = g)
    <3>1. At(pools, q, x, e)
      BY <1>1, <2>2
    <3>2. e \in DOMAIN heap /\ x \in GPUsOf[q]
      BY <3>1, AtFacts
    <3>3. x # g
      BY <1>t, <2>2, <3>2 DEF DisjointPools
    <3>4. /\ x \in DOMAIN daemons /\ daemons[x] = e /\ heap[e].gpu = x
          /\ heap[e].Status = "Running" /\ e \notin forgotten
      BY <3>1, <3>2 DEF IndexInv, PoolsIndexed
    <3>5. ~ At(pools, p, g, e)
      BY <1>t, <3>2, <3>3, <3>4 DEF IndexInv, PoolsIndexed
    <3> QED BY <1>2, <3>2, <3>3, <3>4, <3>5
  <2> QED BY <2>1, <2>2
<1>4. RunningInPools'
  <2> SUFFICES ASSUME NEW e \in DOMAIN heap', heap'[e].Status = "Running", e \notin forgotten
               PROVE  \E q \in Pools : At(pools', q, heap'[e].gpu, e)
    BY DEF RunningInPools
  <2>1. CASE e = d
    BY <1>1, <1>t, <2>1
  <2>2. CASE e \in DOMAIN heap
    <3>1. ~ At(pools, p, g, e) /\ heap'[e] = heap[e]
      BY <2>2
    <3>2. PICK q \in Pools : At(pools, q, heap[e].gpu, e)
      BY <2>2, <3>1 DEF IndexInv, RunningInPools
    <3> QED BY <1>1, <3>1, <3>2
  <2> QED BY <2>1, <2>2
<1>5. IndexInPools'
  <2> SUFFICES ASSUME NEW x \in DOMAIN daemons'
               PROVE  /\ heap'[daemons'[x]].gpu = x
                      /\ daemons'[x] \in forgotten \/ \E q \in Pools : At(pools', q, x, daemons'[x])
    BY DEF IndexInPools
  <2>1. CASE x = g
    BY <1>1, <1>2, <1>t, <2>1
  <2>2. CASE x # g
    <3>1. /\ x \in DOMAIN daemons /\ daemons'[x] = daemons[x] /\ daemons[x] \in DOMAIN heap
          /\ heap[daemons[x]].gpu = x
          /\ daemons[x] \in forgotten \/ \E q \in Pools : At(pools, q, x, daemons[x])
      BY <1>2, <1>t, <2>2 DEF IndexInv, IndexInPools
    <3>2. ~ At(pools, p, g, daemons[x])
      BY <1>t, <2>2, <3>1 DEF IndexInv, PoolsIndexed
    <3> QED BY <1>1, <2>2, <3>1, <3>2
  <2> QED BY <2>1, <2>2
<1> QED BY <1>3, <1>4, <1>5 DEF IndexInv

\* A pool that is configured again forgets its own daemons and no others.
LEMMA ConfigureIndexed ==
  ASSUME DisjointPools, TInv, IndexInv, NEW p \in Pools, ConfigurePool(p)
  PROVE  IndexInv'
<1>t. \A g \in DOMAIN daemons : g \in GPUs /\ daemons[g] \in DOMAIN heap
  BY TypeParts DEF DaemonsIn
<1>1. UNCHANGED <<heap, daemons>> /\ pools' = Put(pools, p, <<>>)
  BY DEF ConfigurePool
<1>2. \A q, g, d : At(pools', q, g, d) <=> q # p /\ At(pools, q, g, d)
  BY <1>1 DEF At, Put
<1>3. \A d : d \in forgotten' <=> d \in forgotten \/ \E g : At(pools, p, g, d)
  BY DEF ConfigurePool, At, Objects
<1>4. PoolsIndexed'
  <2> SUFFICES ASSUME NEW q \in Pools, NEW g \in GPUs, NEW d \in DOMAIN heap, At(pools', q, g, d)
               PROVE  /\ g \in DOMAIN daemons /\ daemons[g] = d /\ heap[d].gpu = g
                      /\ heap[d].Status = "Running" /\ d \notin forgotten'
    BY <1>1 DEF PoolsIndexed
  <2>1. q # p /\ At(pools, q, g, d)
    BY <1>2
  <2>2. /\ g \in DOMAIN daemons /\ daemons[g] = d /\ heap[d].gpu = g
        /\ heap[d].Status = "Running" /\ d \notin forgotten
    BY <2>1 DEF IndexInv, PoolsIndexed
  <2>3. ASSUME NEW x, At(pools, p, x, d) PROVE FALSE
    <3>1. x \in GPUs
      BY <2>3, AtFacts
    <3>2. x = g
      BY <2>2, <2>3, <3>1 DEF IndexInv, PoolsIndexed
    <3> QED BY <2>1, <2>3, <3>2, AtFacts
  <2> QED BY <1>3, <2>2, <2>3
<1>5. RunningInPools'
  <2> SUFFICES ASSUME NEW d \in DOMAIN heap, heap[d].Status = "Running", d \notin forgotten'
               PROVE  \E q \in Pools : At(pools', q, heap[d].gpu, d)
    BY <1>1 DEF RunningInPools
  <2>1. PICK q \in Pools : At(pools, q, heap[d].gpu, d)
    BY <1>3 DEF IndexInv, RunningInPools
  <2> QED BY <1>2, <1>3, <2>1
<1>6. IndexInPools'
  <2> SUFFICES ASSUME NEW g \in DOMAIN daemons
               PROVE  /\ heap[daemons[g]].gpu = g
                      /\ daemons[g] \in forgotten' \/ \E q \in Pools : At(pools', q, g, daemons[g])
    BY <1>1 DEF IndexInPools
  <2>1. /\ heap[daemons[g]].gpu = g
        /\ daemons[g] \in forgotten \/ \E q \in Pools : At(pools, q, g, daemons[g])
    BY DEF IndexInv, IndexInPools
  <2> QED BY <1>2, <1>3, <2>1
<1> QED BY <1>4, <1>5, <1>6 DEF IndexInv

\* A pool that is cleaned up takes its own daemons along and no others.
LEMMA CleanupIndexed ==
  ASSUME DisjointPools, TInv, IndexInv, NEW p \in Pools, CleanupPool(p)
  PROVE  IndexInv'
<1>t. /\ heap \in Seq(MPSDaemon)
      /\ \A g \in DOMAIN daemons : g \in GPUs /\ daemons[g] \in DOMAIN heap
  BY TypeParts DEF DaemonsIn
<1>1. /\ p \in DOMAIN pools /\ forgotten' = forgotten
      /\ pools' = Drop(pools, {p}) /\ daemons' = Drop(daemons, DOMAIN pools[p])
  BY DEF CleanupPool, history
<1>2. \A q, g, d : At(pools', q, g, d) <=> q # p /\ At(pools, q, g, d)
  BY <1>1 DEF At, Drop
<1>3. /\ DOMAIN heap' = DOMAIN heap
      /\ \A d \in DOMAIN heap :
           /\ heap'[d].gpu = heap[d].gpu
           /\ heap'[d].Status = IF d \in Objects(pools[p]) THEN "Stopped" ELSE heap[d].Status
  BY <1>t, StopSome DEF CleanupPool
<1>4. \A d : d \in Objects(pools[p]) <=> \E g : At(pools, p, g, d)
  BY <1>1 DEF At, Objects
<1>5. /\ DOMAIN daemons' = {g \in DOMAIN daemons : g \notin DOMAIN pools[p]}
      /\ \A g \in DOMAIN daemons' : daemons'[g] = daemons[g]
  BY <1>1 DEF Drop
<1>6. PoolsIndexed'
  <2> SUFFICES ASSUME NEW q \in Pools, NEW g \in GPUs, NEW d \in DOMAIN heap, At(pools', q, g, d)
               PROVE  /\ g \in DOMAIN daemons' /\ daemons'[g] = d /\ heap'[d].gpu = g
                      /\ heap'[d].Status = "Running" /\ d \notin forgotten
    BY <1>1, <1>3 DEF PoolsIndexed
  <2>1. q # p /\ At(pools, q, g, d)
    BY <1>2
  <2>2. /\ g \in DOMAIN daemons /\ daemons[g] = d /\ heap[d].gpu = g
        /\ heap[d].Status = "Running" /\ d \notin forgotten
    BY <2>1 DEF IndexInv, PoolsIndexed
  <2>3. g \notin DOMAIN pools[p]
    <3>1. g \in DOMAIN pools[p] => At(pools, p, g, pools[p][g])
      BY <1>1 DEF At
    <3> QED BY <2>1, <3>1, AtFacts
  <2>4. d \notin Objects(pools[p])
    <3> SUFFICES ASSUME NEW x, At(pools, p, x, d) PROVE FALSE
      BY <1>4
    <3>1. x \in GPUs
      BY AtFacts
    <3>2. x = g
      BY <2>2, <3>1 DEF IndexInv, PoolsIndexed
    <3> QED BY <2>1, <3>2, AtFacts
  <2> QED BY <1>3, <1>5, <2>2, <2>3, <2>4
<1>7. RunningInPools'
  <2> SUFFICES ASSUME NEW d \in DOMAIN heap, heap'[d].Status = "Running", d \notin forgotten
               PROVE  \E q \in Pools : At(pools', q, heap'[d].gpu, d)
    BY <1>1, <1>3 DEF RunningInPools
  <2>1. d \notin Objects(pools[p]) /\ heap[d].Status = "Running" /\ heap'[d].gpu = heap[d].gpu
    BY <1>3
  <2>2. PICK q \in Pools : At(pools, q, heap[d].gpu, d)
    BY <2>1 DEF IndexInv, RunningInPools
  <2> QED BY <1>2, <1>4, <2>1, <2>2
<1>8. IndexInPools'
  <2> SUFFICES ASSUME NEW g \in DOMAIN daemons'
               PROVE  /\ heap'[daemons'[g]].gpu = g
                      /\ daemons'[g] \in forgotten \/ \E q \in Pools : At(pools', q, g, daemons'[g])
    BY <1>1 DEF IndexInPools
  <2>1. /\ g \in DOMAIN daemons /\ g \notin DOMAIN pools[p] /\ daemons'[g] = daemons[g]
        /\ heap'[daemons[g]].gpu = heap[daemons[g]].gpu
    BY <1>3, <1>5, <1>t
  <2>2. /\ heap[daemons[g]].gpu = g
        /\ daemons[g] \in forgotten \/ \E q \in Pools : At(pools, q, g, daemons[g])
    BY <2>1 DEF IndexInv, IndexInPools
  <2>3. ~ At(pools, p, g, daemons[g])
    BY <2>1 DEF At
  <2> QED BY <1>2, <2>1, <2>2, <2>3
<1> QED BY <1>6, <1>7, <1>8 DEF IndexInv

\* Every step keeps the pools, the index and the daemons in agreement.
LEMMA IndexInvStep ==
  ASSUME DisjointPools
  PROVE  TInv /\ IndexInv /\ [Next]_vars => IndexInv'
<1> SUFFICES ASSUME TInv, IndexInv, [Next]_vars PROVE IndexInv'
  OBVIOUS
<1> USE DEF history
<1>t. heap \in Seq(MPSDaemon)
  BY TypeParts
<1>u. ASSUME UNCHANGED <<heap, pools, daemons, forgotten>> PROVE IndexInv'
  BY <1>u, KeepsIndex
<1>r. ASSUME NEW s \in Services, heap' = releaseClient(s), UNCHANGED <<pools, daemons, forgotten>>
      PROVE  IndexInv'
  BY <1>r, <1>t, ReleaseHeap, KeepsIndex
<1>1. ASSUME NEW d \in DOMAIN heap, AllocateOne(d) PROVE IndexInv'
  <2> DEFINE c == <<call.svc, call.i>>
  <2>1. /\ call # NoCall /\ UNCHANGED <<pools, daemons, forgotten>>
        /\ heap' = [heap EXCEPT ![d].Clients = heap[d].Clients \cup {c}]
    BY <1>1 DEF AllocateOne
  <2>2. c \in Clients
    BY <2>1, CallFields
  <2>3. /\ DOMAIN heap' = DOMAIN heap
        /\ heap'[d].gpu = heap[d].gpu /\ heap'[d].Status = heap[d].Status
        /\ \A o \in DOMAIN heap : o # d => heap'[o] = heap[o]
    BY <1>t, <2>1, <2>2, ConnectHeap
  <2>4. \A o \in DOMAIN heap : heap'[o].gpu = heap[o].gpu /\ heap'[o].Status = heap[o].Status
    BY <2>3
  <2> QED BY <2>1, <2>3, <2>4, KeepsIndex
<1>2. ASSUME NEW g \in GPUs, AllocateOneStarting(g) PROVE IndexInv'
  <2> DEFINE d == Len(heap) + 1
             p == call.pool
  <2>1. /\ call # NoCall /\ UNCHANGED forgotten /\ g \in GPUsOf[p] /\ g \notin DOMAIN pools[p]
        /\ pools' = [pools EXCEPT ![p] = Put(pools[p], g, d)] /\ daemons' = Put(daemons, g, d)
    BY <1>2 DEF AllocateOneStarting, Unstarted
  <2>2. /\ DOMAIN heap' = DOMAIN heap \cup {d} /\ d \notin DOMAIN heap
        /\ heap'[d].gpu = g /\ heap'[d].Status = "Running"
        /\ \A o \in DOMAIN heap : heap'[o] = heap[o]
    BY <1>2, StartingHeap
  <2>3. p \in DOMAIN pools /\ \A o : ~ At(pools, p, g, o)
    BY <2>1, CallFields DEF At
  <2> HIDE DEF d, p
  <2> QED BY <2>1, <2>2, <2>3, PutIndexed
<1>3. ASSUME AllocateError PROVE IndexInv'
  <2>1. CASE call.i > 0
    BY <1>3, <1>r, <2>1, CallFields DEF AllocateError
  <2>2. CASE ~ (call.i > 0)
    BY <1>3, <1>u, <2>2 DEF AllocateError
  <2> QED BY <2>1, <2>2
<1>4. ASSUME NEW g \in GPUs, NEW p \in Pools, RestartDaemon(g, p) PROVE IndexInv'
  <2> DEFINE d == Len(heap) + 1
  <2>1. /\ g \in DOMAIN daemons /\ p \in DOMAIN pools /\ g \in DOMAIN pools[p]
        /\ UNCHANGED forgotten
        /\ pools' = [pools EXCEPT ![p] = Put(pools[p], g, d)] /\ daemons' = Put(daemons, g, d)
    BY <1>4 DEF RestartDaemon
  <2>2. /\ DOMAIN heap' = DOMAIN heap \cup {d} /\ d \notin DOMAIN heap
        /\ heap'[d].gpu = g /\ heap'[d].Status = "Running"
        /\ heap'[daemons[g]].Status = "Stopped"
        /\ \A o \in DOMAIN heap : o # daemons[g] => heap'[o] = heap[o]
    BY <1>4, RestartHeap
  <2>3. At(pools, p, g, pools[p][g])
    BY <2>1 DEF At
  <2>4. pools[p][g] \in DOMAIN heap /\ g \in GPUsOf[p]
    BY <2>3, AtFacts
  <2>5. daemons[g] = pools[p][g]
    BY <2>3, <2>4 DEF IndexInv, PoolsIndexed
  <2>6. \A o : At(pools, p, g, o) <=> o = daemons[g]
    BY <2>1, <2>5 DEF At
  <2> HIDE DEF d
  <2> QED BY <2>1, <2>2, <2>4, <2>6, PutIndexed
<1>5. ASSUME NEW s \in Services, Release(s) PROVE IndexInv'
  BY <1>5, <1>r DEF Release
<1>6. ASSUME NEW p \in Pools, ConfigurePool(p) \/ CleanupPool(p) PROVE IndexInv'
  BY <1>6, ConfigureIndexed, CleanupIndexed
<1> QED BY <1>1, <1>2, <1>3, <1>4, <1>5, <1>6, <1>u
        DEF Next, Allocation, Allocate, AllocateDone, vars

\* The manager starts with nothing to agree on.
LEMMA IndexInvInit == Init => IndexInv
BY DEF Init, IndexInv, PoolsIndexed, RunningInPools, IndexInPools, At

\* The agreement in terms of sets.
LEMMA IndexInvSets ==
  ASSUME DisjointPools, TInv, IndexInv
  PROVE  /\ \A d : (\E p \in DOMAIN pools : d \in Objects(pools[p])) <=> d \in Running \ forgotten
         /\ \A d : d \in Objects(daemons) \ forgotten <=> d \in Running \ forgotten
<1>1. ASSUME NEW p \in DOMAIN pools, NEW d \in Objects(pools[p]) PROVE d \in Running \ forgotten
  <2>1. PICK g : At(pools, p, g, d)
    BY DEF Objects, At
  <2>2. p \in Pools /\ g \in GPUs /\ d \in DOMAIN heap
    BY <2>1, AtFacts
  <2> QED BY <2>1, <2>2 DEF IndexInv, PoolsIndexed, Running
<1>2. ASSUME NEW d \in Running \ forgotten
      PROVE  (\E p \in DOMAIN pools : d \in Objects(pools[p])) /\ d \in Objects(daemons)
  <2>1. PICK p \in Pools : At(pools, p, heap[d].gpu, d)
    BY DEF IndexInv, RunningInPools, Running
  <2>2. heap[d].gpu \in GPUs /\ d \in DOMAIN heap
    BY <2>1, AtFacts
  <2>3. heap[d].gpu \in DOMAIN daemons /\ daemons[heap[d].gpu] = d
    BY <2>1, <2>2 DEF IndexInv, PoolsIndexed
  <2> QED BY <2>1, <2>3 DEF At, Objects
<1>3. ASSUME NEW d \in Objects(daemons), d \notin forgotten PROVE d \in Running
  <2>1. PICK g \in DOMAIN daemons : d = daemons[g]
    BY DEF Objects
  <2>2. PICK p \in Pools : At(pools, p, g, d)
    BY <1>3, <2>1 DEF IndexInv, IndexInPools
  <2>3. p \in DOMAIN pools /\ d \in Objects(pools[p])
    BY <2>2 DEF At, Objects
  <2> QED BY <1>1, <2>3
<1> QED BY <1>1, <1>2, <1>3

\* Of pools that share no GPU, which the code does not enforce, no daemon is lost
\* but by a reconfiguration: of the daemons that no ConfigurePool made their pool
\* forget, the ones that run are those of the configurations, and the index has
\* them all.  Of a forgotten daemon it says nothing: it runs on with its clients,
\* and only the index may still lead to it (mps.go, startDaemon, CleanupPool and
\* RestartDaemon).
THEOREM IndexMatchesTheorem ==
  ASSUME DisjointPools
  PROVE  Spec => []IndexMatches
<1>1. TInv /\ IndexInv => IndexMatches
  <2> SUFFICES ASSUME TInv, IndexInv PROVE IndexMatches
    OBVIOUS
  <2> QED BY IndexInvSets DEF IndexMatches
<1> QED BY <1>1, TInvInit, TInvStep, IndexInvInit, IndexInvStep, PTL DEF Spec

\* Of pools that share no GPU, no daemon that its pool has not forgotten has a
\* client of a service after Release of it (mps.go, Release and releaseClient).
THEOREM ReleaseCompleteTheorem ==
  ASSUME DisjointPools
  PROVE  Spec => ReleaseComplete
<1>1. TInv /\ IndexInv =>
        [\A s \in Services : Release(s) =>
           \A d \in Running' \ forgotten' : \A c \in heap'[d].Clients : c[1] # s]_vars
  <2> SUFFICES ASSUME TInv, IndexInv, NEW s \in Services, Release(s),
                      NEW d \in Running' \ forgotten', NEW c \in heap'[d].Clients
               PROVE  c[1] # s
    OBVIOUS
  <2>1. heap \in Seq(MPSDaemon) /\ heap' = releaseClient(s) /\ forgotten' = forgotten
    BY TypeParts DEF Release
  <2>2. /\ DOMAIN heap' = DOMAIN heap
        /\ \A o \in DOMAIN heap :
             /\ heap'[o].Status = heap[o].Status
             /\ heap'[o].Clients = IF o \in Objects(daemons)
                                   THEN {x \in heap[o].Clients : x[1] # s} ELSE heap[o].Clients
    BY <2>1, ReleaseHeap
  <2>3. d \in DOMAIN heap /\ d \in Running \ forgotten
    BY <2>1, <2>2 DEF Running
  <2>4. d \in Objects(daemons)
    BY <2>3, IndexInvSets
  <2> QED BY <2>2, <2>3, <2>4
<1> QED BY <1>1, TInvInit, TInvStep, IndexInvInit, IndexInvStep, PTL DEF Spec, ReleaseComplete

-----------------------------------------------------------------------------
(* No GPU has too many clients. *)

\* The sum over the daemons of a GPU, when it has none ...
LEMMA SumOfNone == MapThenSumSet(LAMBDA d : Cardinality(heap[d].Clients), {}) = 0
<1> DEFINE Eq(g) == g = [s \in SUBSET {} |->
                           IF s = {} THEN 0
                           ELSE Cardinality(heap[CHOOSE x \in s : TRUE].Clients)
                                + g[s \ {CHOOSE x \in s : TRUE}]]
           f == [s \in SUBSET {} |-> 0]
<1>1. Eq(f)
  OBVIOUS
<1>2. Eq(CHOOSE g : Eq(g))
  BY <1>1, Zenon
<1>3. MapThenSumSet(LAMBDA d : Cardinality(heap[d].Clients), {}) = (CHOOSE g : Eq(g))[{}]
  BY DEF MapThenSumSet, MapThenFoldSet
<1> DEFINE iter == CHOOSE g : Eq(g)
<1>4. iter[{}] = 0
  <2> HIDE DEF iter
  <2>1. Eq(iter)
    BY <1>2 DEF iter
  <2> QED BY <2>1
<1> QED BY <1>3, <1>4

\* ... and when it has one.
LEMMA SumOfOne ==
  ASSUME NEW o, Cardinality(heap[o].Clients) \in Nat
  PROVE  MapThenSumSet(LAMBDA d : Cardinality(heap[d].Clients), {o}) = Cardinality(heap[o].Clients)
<1> DEFINE Eq(g) == g = [s \in SUBSET {o} |->
                           IF s = {} THEN 0
                           ELSE Cardinality(heap[CHOOSE x \in s : TRUE].Clients)
                                + g[s \ {CHOOSE x \in s : TRUE}]]
           n == Cardinality(heap[o].Clients)
           f == [s \in SUBSET {o} |-> IF s = {} THEN 0 ELSE n]
<1>c. /\ \A s \in SUBSET {o} : s # {} => s = {o} /\ (CHOOSE x \in s : TRUE) = o /\ s \ {o} = {}
      /\ {} \in SUBSET {o} /\ {o} \in SUBSET {o} /\ {o} # {}
  OBVIOUS
<1>1. Eq(f)
  <2>1. \A s \in SUBSET {o} :
          f[s] = IF s = {} THEN 0 ELSE Cardinality(heap[CHOOSE x \in s : TRUE].Clients)
                                       + f[s \ {CHOOSE x \in s : TRUE}]
    <3> TAKE s \in SUBSET {o}
    <3>1. CASE s = {}
      BY <3>1
    <3>2. CASE s # {}
      <4>1. (CHOOSE x \in s : TRUE) = o /\ s \ {o} = {}
        BY <1>c, <3>2
      <4>2. f[s] = n /\ f[{}] = 0
        BY <3>2, <1>c
      <4> QED BY <3>2, <4>1, <4>2
    <3> QED BY <3>1, <3>2
  <2> QED BY <2>1
<1>2. Eq(CHOOSE g : Eq(g))
  BY <1>1, Zenon
<1>3. MapThenSumSet(LAMBDA d : Cardinality(heap[d].Clients), {o}) = (CHOOSE g : Eq(g))[{o}]
  BY DEF MapThenSumSet, MapThenFoldSet
<1> DEFINE iter == CHOOSE g : Eq(g)
<1>4. iter[{o}] = n
  <2> HIDE DEF iter
  <2>1. Eq(iter)
    BY <1>2 DEF iter
  <2>2. iter[{}] = 0 /\ iter[{o}] = n + iter[{}]
    BY <2>1, <1>c
  <2> QED BY <2>2
<1> QED BY <1>3, <1>4

\* A set of clients that one daemon may have.
Fits(C) == IsFiniteSet(C) /\ Cardinality(C) <= MaxClients

\* Every daemon ever started has a set of clients that fits.
CapInv == \A d \in DOMAIN heap : Fits(heap[d].Clients)

\* What fits goes on to fit when clients leave, when one comes where there is
\* room, and when a daemon starts with none or one.
LEMMA FitsFacts ==
  /\ \A C, D : Fits(C) /\ D \subseteq C => Fits(D)
  /\ \A C, c : Fits(C) /\ Cardinality(C) < MaxClients => Fits(C \cup {c})
  /\ Fits({}) /\ \A c : Fits({c})
<1>m. MaxClients \in Nat \ {0}
  BY MPSAssumption
<1>1. ASSUME NEW C, NEW D, Fits(C), D \subseteq C PROVE Fits(D)
  <2>1. IsFiniteSet(C) /\ IsFiniteSet(D) /\ Cardinality(D) <= Cardinality(C)
    BY <1>1, FS_Subset DEF Fits
  <2>2. Cardinality(C) \in Nat /\ Cardinality(D) \in Nat
    BY <2>1, FS_CardinalityType
  <2> QED BY <1>1, <1>m, <2>1, <2>2 DEF Fits
<1>2. ASSUME NEW C, NEW c, Fits(C), Cardinality(C) < MaxClients PROVE Fits(C \cup {c})
  <2> DEFINE n == Cardinality(C)
             m == Cardinality(C \cup {c})
  <2>1. /\ IsFiniteSet(C) /\ IsFiniteSet(C \cup {c})
        /\ n \in Nat /\ (m = n \/ m = n + 1) /\ n < MaxClients
    BY <1>2, FS_AddElement, FS_CardinalityType, Zenon DEF Fits
  <2> HIDE DEF n, m
  <2>2. m <= MaxClients
    BY <1>m, <2>1
  <2> QED BY <2>1, <2>2 DEF Fits, m
<1>3. Fits({}) /\ \A c : Fits({c})
  <2>1. 0 <= MaxClients /\ 1 <= MaxClients
    BY <1>m
  <2>2. IsFiniteSet({}) /\ Cardinality({}) = 0
    BY FS_EmptySet, Zenon
  <2>3. \A c : IsFiniteSet({c}) /\ Cardinality({c}) = 1
    BY FS_Singleton, Zenon
  <2> QED BY <2>1, <2>2, <2>3, Zenon DEF Fits
<1> QED BY <1>1, <1>2, <1>3

\* No daemon ever has too many clients.
LEMMA CapInvStep == TInv /\ CapInv /\ [Next]_vars => CapInv'
<1> SUFFICES ASSUME TInv, CapInv, [Next]_vars PROVE CapInv'
  OBVIOUS
<1> USE DEF history
<1>t. heap \in Seq(MPSDaemon)
  BY TypeParts
<1>u. ASSUME UNCHANGED heap PROVE CapInv'
  BY <1>u DEF CapInv
<1>r. ASSUME NEW s \in Services, heap' = releaseClient(s) PROVE CapInv'
  <2>1. /\ DOMAIN heap' = DOMAIN heap
        /\ \A d \in DOMAIN heap : heap'[d].Clients \subseteq heap[d].Clients
    BY <1>r, <1>t, ReleaseHeap
  <2> QED BY <2>1, FitsFacts DEF CapInv
<1>1. ASSUME NEW d \in DOMAIN heap, AllocateOne(d) PROVE CapInv'
  <2> DEFINE c == <<call.svc, call.i>>
  <2>1. /\ call # NoCall /\ Cardinality(heap[d].Clients) < MaxClients
        /\ heap' = [heap EXCEPT ![d].Clients = heap[d].Clients \cup {c}]
    BY <1>1 DEF AllocateOne, WithCapacity
  <2>2. c \in Clients
    BY <2>1, CallFields
  <2>3. /\ DOMAIN heap' = DOMAIN heap /\ heap'[d].Clients = heap[d].Clients \cup {c}
        /\ \A o \in DOMAIN heap : o # d => heap'[o] = heap[o]
    BY <1>t, <2>1, <2>2, ConnectHeap
  <2> HIDE DEF c
  <2>4. Fits(heap'[d].Clients)
    <3>1. Fits(heap[d].Clients)
      BY DEF CapInv
    <3>2. Fits(heap[d].Clients \cup {c})
      BY <2>1, <3>1, FitsFacts, Zenon
    <3> QED BY <2>3, <3>2
  <2> QED BY <2>3, <2>4 DEF CapInv
<1>2. ASSUME NEW g \in GPUs, AllocateOneStarting(g) PROVE CapInv'
  <2> DEFINE d == Len(heap) + 1
  <2>1. /\ DOMAIN heap' = DOMAIN heap \cup {d} /\ heap'[d].Clients = {<<call.svc, call.i>>}
        /\ \A o \in DOMAIN heap : heap'[o] = heap[o]
    BY <1>2, StartingHeap
  <2> HIDE DEF d
  <2> QED BY <2>1, FitsFacts DEF CapInv
<1>3. ASSUME AllocateError PROVE CapInv'
  BY <1>3, <1>r, <1>u, CallFields DEF AllocateError
<1>4. ASSUME NEW p \in Pools, CleanupPool(p) PROVE CapInv'
  <2>1. DOMAIN heap' = DOMAIN heap /\ \A d \in DOMAIN heap : heap'[d].Clients = heap[d].Clients
    BY <1>4, <1>t, StopSome DEF CleanupPool
  <2> QED BY <2>1 DEF CapInv
<1>5. ASSUME NEW g \in GPUs, NEW p \in Pools, RestartDaemon(g, p) PROVE CapInv'
  <2> DEFINE d == Len(heap) + 1
  <2>1. /\ DOMAIN heap' = DOMAIN heap \cup {d} /\ heap'[d].Clients = {}
        /\ heap'[daemons[g]].Clients = {}
        /\ \A o \in DOMAIN heap : o # daemons[g] => heap'[o] = heap[o]
    BY <1>5, RestartHeap
  <2> HIDE DEF d
  <2> QED BY <2>1, FitsFacts DEF CapInv
<1>6. ASSUME NEW s \in Services, Release(s) PROVE CapInv'
  BY <1>6, <1>r DEF Release
<1> QED BY <1>1, <1>2, <1>3, <1>4, <1>5, <1>6, <1>u
        DEF Next, Allocation, Allocate, AllocateDone, ConfigurePool, vars

\* No daemon ever has more clients than MPS supports, whether its pool has
\* forgotten it or shares its GPU with another one (mps.go, findOrCreateDaemon,
\* RestartDaemon and releaseClient).
THEOREM DaemonCapacityTheorem == Spec => []CapInv
<1>1. Init => CapInv
  BY DEF Init, CapInv
<1> QED BY <1>1, TInvInit, TInvStep, CapInvStep, PTL DEF Spec

\* Of pools that share no GPU, which the code does not enforce, the daemons on a
\* GPU that no reconfiguration made their pool forget never have more clients
\* together than MPS supports: there is one of them at most.  The forgotten ones
\* are not counted, and with them a GPU can have more clients: after every
\* reconfiguration another daemon may be started on it (mps.go, ConfigurePool,
\* findOrCreateDaemon and RestartDaemon).
THEOREM GPUCapacityTheorem ==
  ASSUME DisjointPools
  PROVE  Spec => []GPUCapacity
<1>1. TInv /\ IndexInv /\ CapInv => GPUCapacity
  <2> SUFFICES ASSUME TInv, IndexInv, CapInv, NEW g \in GPUs
               PROVE  MapThenSumSet(LAMBDA d : Cardinality(heap[d].Clients),
                                    {d \in Running \ forgotten : heap[d].gpu = g}) <= MaxClients
    BY DEF GPUCapacity
  <2> DEFINE S == {d \in Running \ forgotten : heap[d].gpu = g}
  <2>1. \A d \in S : d = daemons[g]
    <3> TAKE d \in S
    <3>1. PICK p \in Pools : At(pools, p, g, d)
      BY DEF IndexInv, RunningInPools, Running
    <3>2. d \in DOMAIN heap
      BY DEF Running
    <3> QED BY <3>1, <3>2 DEF IndexInv, PoolsIndexed
  <2>2. \A d \in S : d \in DOMAIN heap
    BY DEF Running
  <2> HIDE DEF S
  <2>3. CASE S = {}
    <3>1. MapThenSumSet(LAMBDA d : Cardinality(heap[d].Clients), S) = 0
      BY <2>3, SumOfNone
    <3> QED BY <3>1, MPSAssumption DEF S
  <2>4. CASE S # {}
    <3>1. PICK o \in S : S = {o}
      BY <2>1, <2>4
    <3>2. IsFiniteSet(heap[o].Clients) /\ Cardinality(heap[o].Clients) <= MaxClients
      BY <2>2 DEF CapInv, Fits
    <3>3. Cardinality(heap[o].Clients) \in Nat
      BY <3>2, FS_CardinalityType
    <3>4. MapThenSumSet(LAMBDA d : Cardinality(heap[d].Clients), S) = Cardinality(heap[o].Clients)
      BY <3>1, <3>3, SumOfOne
    <3> QED BY <3>2, <3>4 DEF S
  <2> QED BY <2>3, <2>4
<1>2. Init => CapInv
  BY DEF Init, CapInv
<1> QED BY <1>1, <1>2, TInvInit, TInvStep, IndexInvInit, IndexInvStep, CapInvStep, PTL DEF Spec
=============================================================================
