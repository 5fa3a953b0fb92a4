-------------------------- MODULE TimesliceManager --------------------------
(***************************************************************************)
(* internal/gpu/timeslice.go: GPUs shared by slots of an interval.         *)
(*                                                                         *)
(* Every exported operation and scheduleSlots hold m.mu throughout.        *)
(* Allocate makes its slots one after the other, each on any GPU with      *)
(* room, so it is a step per slot, with `call' keeping everyone else out.  *)
(*                                                                         *)
(* Priorities and their sum are int32, durations int64 (whole numbers of   *)
(* one unit, a nanosecond), and both wrap around.  Weights are exact here; *)
(* in the code they are float64, so a share may come out one unit smaller  *)
(* before the last slot is extended.  A record of m.allocations is counted *)
(* for its GPU: the duration and fraction it keeps, TotalAllocated and     *)
(* Active are read by nothing but the getters.                             *)
(***************************************************************************)
EXTENDS Integers, Sequences, FiniteSets, FiniteSetsExt

CONSTANTS Pools,
          GPUs,             \* nodeName/deviceID
          GPUsOf,           \* pool -> PoolInfo.GPUs
          Services,
          Counts,           \* GPU counts asked for
          Priorities,       \* priorities given to slots: any int32, unchecked
          Half32, Half64,   \* 2^31 and 2^63: an int32 (int64) is in -Half..(Half - 1)
          Beyond,           \* what a float64 above all int64 becomes as an int64: the
                            \* least one on amd64, the greatest one on arm64
          Intervals,        \* Sharing.TimeSliceInterval, 0 if it is not set
          DefaultInterval,  \* 100 ms
          MinDuration,      \* 10 ms
          MaxSlots,         \* 10
          MaxRecords,       \* bound: records of a service in m.allocations
          NoCall            \* no Allocate in progress

ASSUME TimesliceAssumption ==
  /\ GPUsOf \in [Pools -> SUBSET GPUs]
  /\ Counts \subseteq Nat \ {0}
  /\ Half32 \in Nat \ {0} /\ Half64 \in Nat \ {0}
  /\ Priorities \subseteq (-Half32)..(Half32 - 1) /\ 0 \in Priorities
  /\ Beyond \in {-Half64, Half64 - 1}
  /\ Intervals \subseteq 0..(Half64 - 1)
  /\ DefaultInterval \in 1..(Half64 - 1)
  /\ MinDuration \in 0..(Half64 - 1)
  /\ MaxSlots \in Nat \ {0}
  /\ MaxRecords \in Nat

VARIABLES pools,       \* m.pools: configured pool -> its interval and GPUs
          allocations, \* m.allocations: how many records a service has for a GPU
          call,        \* the Allocate in progress
          dropped      \* history: the services that lost a slot when a pool was
                       \* configured again, until their slots are released

vars == <<pools, allocations, call, dropped>>

\* Addition in a signed integer type.
Wrap(x, half) == ((x + half) % (2 * half)) - half
Int32(x) == Wrap(x, Half32)
Int64(x) == Wrap(x, Half64)
Durations == (-Half64)..(Half64 - 1)

\* A slot's ID has its service and the number of slots it found on its GPU.
TimeSlot == [svc : Services, n : 0..(MaxSlots - 1), Priority : Priorities,
             StartOffset : Durations, Duration : Durations]
TimesliceGPU == [Slots : Seq(TimeSlot), CurrentSlotIdx : 0..(MaxSlots - 1)]

Put(m, k, v) == [j \in DOMAIN m \cup {k} |-> IF j = k THEN v ELSE m[j]]

\* The GPUs that pools have configured, and the slots on one of them.
Configured == {c \in Pools \X GPUs : c[1] \in DOMAIN pools /\ c[2] \in DOMAIN pools[c[1]].GPUs}
SlotsOn(c) == pools[c[1]].GPUs[c[2]].Slots

\* The positions of a service's slots, on a GPU and on all of them.
SlotsOf(slots, s) == {i \in DOMAIN slots : slots[i].svc = s}
Held(s) == UNION {{c} \X SlotsOf(SlotsOn(c), s) : c \in Configured}

Init ==
  /\ pools = <<>>
  /\ allocations = [s \in Services |-> [g \in GPUs |-> 0]]
  /\ call = NoCall
  /\ dropped = {}

-----------------------------------------------------------------------------
\* A fresh configuration without GPUs replaces the one the pool had.
ConfigurePool(p, interval) ==
  /\ call = NoCall
  /\ pools' = Put(pools, p, [SlotInterval |-> IF interval = 0 THEN DefaultInterval ELSE interval,
                             GPUs |-> <<>>])
  /\ dropped' = dropped \cup {s \in Services : \E h \in Held(s) : h[1][1] = p}
  /\ UNCHANGED <<allocations, call>>

\* Mutant of HasSlots: active slots are not looked for.
HasSlotsNever(p) == FALSE

HasSlots(p) == \E g \in DOMAIN pools[p].GPUs : pools[p].GPUs[g].Slots # <<>>

\* Refused while a GPU of the configuration has slots.
CleanupPool(p) ==
  /\ call = NoCall
  /\ p \in DOMAIN pools
  /\ ~ HasSlots(p)
  /\ pools' = [q \in DOMAIN pools \ {p} |-> pools[q]]
  /\ UNCHANGED <<allocations, call, dropped>>

-----------------------------------------------------------------------------
\* The slots at the positions K, by falling priority.  Go's sort.Slice is an
\* insertion sort for as few elements as a GPU may have slots, so slots of one
\* priority keep their order.
Rank(slots, K, i) ==
  Cardinality({j \in K : \/ slots[j].Priority > slots[i].Priority
                         \/ slots[j].Priority = slots[i].Priority /\ j <= i})
ByPriority(slots, K) ==
  [n \in 1..Cardinality(K) |-> slots[CHOOSE i \in K : Rank(slots, K, i) = n]]

\* The sum of the first n numbers of f.
SumTo(f, n) ==
  LET sum[k \in {0} \cup DOMAIN f] == IF k = 0 THEN 0 ELSE sum[k - 1] + f[k]
  IN  sum[n]

\* The weights, and time.Duration(float64(interval) * weight) for one of them.
\* A weight that is not 0 divided by a total of 0 is infinite; 0 stands for what
\* is negative or not a number, which the minimum replaces in any case.
Weights(slots) == [i \in DOMAIN slots |-> Int32(slots[i].Priority + 1)]
Abs(x) == IF x < 0 THEN -x ELSE x
Share(weight, total, interval) ==
  LET share == (interval * Abs(weight)) \div Abs(total)
  IN  CASE total = 0                   -> IF weight > 0 THEN Beyond ELSE 0
        [] (weight < 0) # (total < 0)  -> 0
        [] OTHER                       -> IF share < Half64 THEN share ELSE Beyond

\* What each of the sorted slots gets: its share by weight, or the minimum if
\* that is more.
Shares(slots, interval) ==
  LET totalPriority == Int32(SumTo(Weights(slots), Len(slots)))
  IN  [i \in DOMAIN slots |->
        Max({MinDuration, Share(Weights(slots)[i], totalPriority, interval)})]

\* Mutant of Placed: the last slot is not extended.
PlacedUnfilled(slots, interval) ==
  LET shares == Shares(slots, interval)
  IN  [i \in DOMAIN slots |-> [slots[i] EXCEPT !.StartOffset = Int64(SumTo(shares, i - 1)),
                                               !.Duration = shares[i]]]

\* The sorted slots one behind the other, the last one extended to the end of
\* the interval.
Placed(slots, interval) ==
  LET shares == Shares(slots, interval)
      n == Len(slots)
      offset == Int64(SumTo(shares, n))
      left == IF offset < interval THEN interval - offset ELSE 0
  IN  [i \in DOMAIN slots |->
        [slots[i] EXCEPT !.StartOffset = Int64(SumTo(shares, i - 1)),
                         !.Duration = Int64(shares[i] + IF i = n THEN left ELSE 0)]]

\* The slots at the positions K after rebalanceSlots.
rebalanceSlots(slots, K, interval) == Placed(ByPriority(slots, K), interval)

-----------------------------------------------------------------------------
\* The records of a service.
Records(s) == MapThenSumSet(LAMBDA g : allocations[s][g], GPUs)

\* Allocate, while "time-slice pool not found" is not the case.
Allocate(p, s, n) ==
  /\ call = NoCall
  /\ p \in DOMAIN pools
  /\ Records(s) + n <= MaxRecords
  /\ call' = [pool |-> p, svc |-> s, n |-> n, i |-> 0]
  /\ UNCHANGED <<pools, allocations, dropped>>

\* Mutant of WithRoom: a full GPU takes one more.
WithRoomOneMore(p) == {g \in DOMAIN pools[p].GPUs : Len(pools[p].GPUs[g].Slots) <= MaxSlots}

\* findOrCreateTimesliceGPU, its first choice: a GPU with room.
WithRoom(p) == {g \in DOMAIN pools[p].GPUs : Len(pools[p].GPUs[g].Slots) < MaxSlots}

\* Its second choice: a GPU of the pool that is not configured yet.
Unconfigured(p) == GPUsOf[p] \ DOMAIN pools[p].GPUs

\* The GPU that findOrCreateTimesliceGPU returns, with a slot appended.
WithSlot(gpu, interval) ==
  LET slot == [svc |-> call.svc, n |-> Len(gpu.Slots), Priority |-> 0,
               StartOffset |-> 0, Duration |-> interval \div (Len(gpu.Slots) + 1)]
      slots == Append(gpu.Slots, slot)
  IN  [gpu EXCEPT !.Slots = rebalanceSlots(slots, DOMAIN slots, interval)]

\* One iteration of Allocate's loop.
AllocateOne(g) ==
  /\ call # NoCall
  /\ call.i < call.n
  /\ LET p == call.pool
         interval == pools[p].SlotInterval
         gpu == IF g \in DOMAIN pools[p].GPUs THEN pools[p].GPUs[g]
                ELSE [Slots |-> <<>>, CurrentSlotIdx |-> 0]
     IN  /\ g \in IF WithRoom(p) # {} THEN WithRoom(p) ELSE Unconfigured(p)
         /\ pools' = [pools EXCEPT ![p].GPUs = Put(@, g, WithSlot(gpu, interval))]
  /\ allocations' = [allocations EXCEPT ![call.svc][g] = @ + 1]
  /\ call' = [call EXCEPT !.i = @ + 1]
  /\ UNCHANGED dropped

\* The send to schedulerCh only makes the scheduler look earlier.
AllocateDone ==
  /\ call # NoCall
  /\ call.i = call.n
  /\ call' = NoCall
  /\ UNCHANGED <<pools, allocations, dropped>>

\* The pools without the slots of a service, which a GPU that had one rebalances.
WithoutSlots(s) ==
  [p \in DOMAIN pools |-> [pools[p] EXCEPT !.GPUs =
    [g \in DOMAIN pools[p].GPUs |->
      LET gpu == pools[p].GPUs[g]
          slots == gpu.Slots
      IN  IF SlotsOf(slots, s) = {} THEN gpu
          ELSE [gpu EXCEPT !.Slots = rebalanceSlots(slots, DOMAIN slots \ SlotsOf(slots, s),
                                                    pools[p].SlotInterval)]]]]

\* Mutants of releaseSlots: the records stay; GPUs are not rebalanced.
releaseSlotsKeepingRecords(s) ==
  /\ pools' = WithoutSlots(s)
  /\ dropped' = dropped \ {s}
  /\ UNCHANGED allocations
releaseSlotsUnbalanced(s) ==
  /\ pools' = [p \in DOMAIN pools |-> [pools[p] EXCEPT !.GPUs =
       [g \in DOMAIN pools[p].GPUs |-> [pools[p].GPUs[g] EXCEPT !.Slots =
         SelectSeq(@, LAMBDA slot : slot.svc # s)]]]]
  /\ allocations' = [allocations EXCEPT ![s] = [g \in GPUs |-> 0]]
  /\ dropped' = dropped \ {s}

releaseSlots(s) ==
  /\ pools' = WithoutSlots(s)
  /\ allocations' = [allocations EXCEPT ![s] = [g \in GPUs |-> 0]]
  /\ dropped' = dropped \ {s}

\* "no available GPUs": all slots of the service go, also if this call has not
\* made any.
AllocateError ==
  /\ call # NoCall
  /\ call.i < call.n
  /\ WithRoom(call.pool) = {} /\ Unconfigured(call.pool) = {}
  /\ releaseSlots(call.svc)
  /\ call' = NoCall

Release(s) ==
  /\ call = NoCall
  /\ releaseSlots(s)
  /\ UNCHANGED call

\* The slot is the first one with its ID on one of the GPUs.
SetSlotPriority(c, i, priority) ==
  /\ call = NoCall
  /\ LET slots == SlotsOn(c)
         ID(j) == <<slots[j].svc, slots[j].n>>
     IN  /\ i \in DOMAIN slots
         /\ \A j \in 1..(i - 1) : ID(j) # ID(i)
         /\ pools' = [pools EXCEPT ![c[1]].GPUs[c[2]].Slots =
                        rebalanceSlots([slots EXCEPT ![i].Priority = priority], DOMAIN slots,
                                       pools[c[1]].SlotInterval)]
  /\ UNCHANGED <<allocations, call, dropped>>

\* Mutant of NextSlot: the index stays at the last slot.
NextSlotToLast(gpu) ==
  IF gpu.CurrentSlotIdx + 1 < Len(gpu.Slots) THEN gpu.CurrentSlotIdx + 1 ELSE Len(gpu.Slots) - 1

NextSlot(gpu) == (gpu.CurrentSlotIdx + 1) % Len(gpu.Slots)

\* scheduleSlots: the GPUs in `elapsed', those with slots whose current turn is
\* over, go to their next slot.
scheduleSlots(elapsed) ==
  /\ call = NoCall
  /\ elapsed # {}
  /\ \A c \in elapsed : SlotsOn(c) # <<>>
  /\ pools' = [p \in DOMAIN pools |-> [pools[p] EXCEPT !.GPUs =
       [g \in DOMAIN pools[p].GPUs |->
         IF <<p, g>> \in elapsed
         THEN [pools[p].GPUs[g] EXCEPT !.CurrentSlotIdx = NextSlot(pools[p].GPUs[g])]
         ELSE pools[p].GPUs[g]]]]
  /\ UNCHANGED <<allocations, call, dropped>>

-----------------------------------------------------------------------------
Tick == \E elapsed \in SUBSET Configured : scheduleSlots(elapsed)

Allocating == (\E g \in GPUs : AllocateOne(g)) \/ AllocateDone \/ AllocateError

Next ==
  \/ Tick
  \/ Allocating
  \/ \E p \in Pools, s \in Services, n \in Counts : Allocate(p, s, n)
  \/ \E p \in Pools : CleanupPool(p) \/ \E interval \in Intervals : ConfigurePool(p, interval)
  \/ \E s \in Services : Release(s)
  \/ \E c \in Configured, priority \in Priorities :
       \E i \in DOMAIN SlotsOn(c) : SetSlotPriority(c, i, priority)

Spec == Init /\ [][Next]_vars

\* The ticker of runScheduler finds every turn over sooner or later.
FairSpec ==
  /\ Spec
  /\ \A c \in Pools \X GPUs :
       WF_vars(\E elapsed \in SUBSET Configured : c \in elapsed /\ scheduleSlots(elapsed))

-----------------------------------------------------------------------------
TypeOK ==
  /\ DOMAIN pools \subseteq Pools
  /\ \A p \in DOMAIN pools :
       /\ pools[p].SlotInterval \in 1..(Half64 - 1)
       /\ DOMAIN pools[p].GPUs \subseteq GPUsOf[p]
       /\ pools[p].GPUs \in [DOMAIN pools[p].GPUs -> TimesliceGPU]
  /\ allocations \in [Services -> [GPUs -> Nat]]
  /\ \/ call = NoCall
     \/ /\ call \in [pool : DOMAIN pools, svc : Services, n : Counts, i : Nat]
        /\ call.i <= call.n
  /\ dropped \subseteq Services

EndOf(slot) == slot.StartOffset + slot.Duration

\* The slots of a GPU lie one behind the other from the start of the interval to
\* its end or beyond, none below the minimum, whatever was allocated, released
\* or given another priority in which order, as long as a Duration holds the sum
\* of their shares (timeslice.go, rebalanceSlots and its callers).  On arm64 one
\* does not if the weights cancel out (priorities 2 and -4): the first share is
\* infinite and the last slot gets a negative duration.
SlotsTile ==
  \A c \in Configured :
    LET slots == SlotsOn(c)
        interval == pools[c[1]].SlotInterval
    IN  SumTo(Shares(slots, interval), Len(slots)) < Half64 =>
          \A i \in DOMAIN slots :
            /\ slots[i].Duration >= MinDuration
            /\ slots[i].StartOffset = IF i = 1 THEN 0 ELSE EndOf(slots[i - 1])
            /\ i = Len(slots) => EndOf(slots[i]) >= interval

\* As long as the slots of a GPU have one priority and the interval has room for
\* the minimum of each, they fill it exactly and no service gets a slot that is
\* longer than another by more than rounding (timeslice.go: "rebalances time
\* slots to ensure fair distribution").  The priority may be negative, but not
\* -1, and the total weight must be an int32: SetSlotPriority takes any priority,
\* and with a total of 0 all slots but the last one get the minimum, in spite of
\* the comment "+1 to ensure non-zero".
EqualSharesFit ==
  \A c \in Configured :
    LET slots == SlotsOn(c)
        interval == pools[c[1]].SlotInterval
        weight == slots[1].Priority + 1
    IN  /\ slots # <<>>
        /\ \A i \in DOMAIN slots : slots[i].Priority = slots[1].Priority
        /\ weight # 0 /\ Len(slots) * weight \in (-Half32)..(Half32 - 1)
        /\ Len(slots) * MinDuration <= interval
        => /\ EndOf(slots[Len(slots)]) = interval
           /\ \A i, j \in DOMAIN slots : slots[i].Duration - slots[j].Duration < Len(slots)

\* A service has a record for each of its slots and for no other, unless it lost
\* slots to a reconfiguration: a rollback in the middle of a request leaves
\* neither slots nor records (timeslice.go, Allocate and releaseSlots).
AllocationsMatch ==
  \A s \in Services \ dropped, g \in GPUs :
    allocations[s][g] = Cardinality({h \in Held(s) : h[1][2] = g})

\* Slots are taken from a service by its own Release, by the rollback of its own
\* request or by a reconfiguration: neither another service's calls nor the
\* cleanup of a pool take one (timeslice.go, releaseSlots and CleanupPool).
SlotsKept ==
  [][\A s \in Services : Cardinality(Held(s))' < Cardinality(Held(s)) =>
       \/ Release(s)
       \/ call # NoCall /\ call.svc = s /\ AllocateError
       \/ \E p \in Pools, interval \in Intervals : ConfigurePool(p, interval)]_vars

\* Whoever has a slot gets its turn again and again once the calls are over and
\* only the scheduler acts, wherever releases and sorting have left the index of
\* the current slot (timeslice.go, scheduleSlots).
TurnsCome ==
  <>[](call = NoCall) /\ <>[][Tick]_vars =>
    \A c \in Pools \X GPUs, s \in Services :
      []<>(c \in Configured /\ SlotsOf(SlotsOn(c), s) # {} =>
             pools[c[1]].GPUs[c[2]].CurrentSlotIdx + 1 \in SlotsOf(SlotsOn(c), s))
=============================================================================
