----------------------------- MODULE LocalCache -----------------------------
(***************************************************************************)
(* internal/cache/local.go: the disk tier, used by many goroutines.        *)
(*                                                                         *)
(* mu protects the index and (in effect) the counters; the files are read  *)
(* and written outside of it.  A step is a critical section of mu, or what *)
(* happens between two of them that others can see: an access to the       *)
(* entry's file, a look at usedSize, a receive from evictCh.               *)
(*                                                                         *)
(* A LocalCacheEntry is never changed after it was created, except for     *)
(* AccessedAt, so a pointer to it is modelled by its contents.  AccessedAt *)
(* only decides which entry evict takes; the model lets it take any.       *)
(***************************************************************************)
EXTENDS Integers, FiniteSets

CONSTANTS Threads,    \* goroutines calling the cache
          Keys,
          EmptyKey,   \* the key "", which may or may not be in Keys
          Values,
          Size,       \* bytes a value takes on disk
          Compressed, \* the values that Set stores compressed (over 1 KB)
          MaxSize,    \* maxSize.Value()
          MaxCounter, \* bound: how far from 0 the counters may go
          NoEntry     \* no entry in a goroutine's hands

ASSUME LocalCacheAssumption ==
  /\ Size \in [Values -> Nat]
  /\ Compressed \subseteq Values
  /\ MaxSize \in Nat
  /\ MaxCounter \in Nat
  /\ NoEntry \notin [val : Values, expired : BOOLEAN]

VARIABLES index,     \* c.index: key -> entry
          files,     \* what is on disk: key -> a value, or Torn
          usedSize, entries,  \* the two counters
          evictCh,   \* whether the one slot of the channel is full
          evictor,   \* the goroutine of evictionLoop
          cleaning,  \* whether the goroutine of cleanupLoop is in cleanupExpired
          thread     \* the call each goroutine is in

counters == <<usedSize, entries>>
loops == <<evictCh, evictor, cleaning>>
vars == <<index, files, counters, loops, thread>>

High == (MaxSize * 90) \div 100    \* above it Set asks for an eviction
Target == (MaxSize * 80) \div 100  \* down to it evict removes entries

\* The file of a write that failed half way.
Torn == "torn"

Entry == [val : Values, expired : BOOLEAN]
EntrySize(e) == Size[e.val]

\* mu is held across steps only by evict and cleanupExpired.
LockFree == evictor # "evicting" /\ ~ cleaning

Without(m, K) == [k \in DOMAIN m \ K |-> m[k]]
With(m, k, v) == [j \in DOMAIN m \cup {k} |-> IF j = k THEN v ELSE m[j]]

Idle == [pc |-> "idle", key |-> EmptyKey, val |-> NoEntry, entry |-> NoEntry]

Goto(t, pc) == thread' = [thread EXCEPT ![t].pc = pc]
Return(t) == thread' = [thread EXCEPT ![t] = Idle]

Init ==
  /\ index = <<>>
  /\ files = <<>>
  /\ usedSize = 0
  /\ entries = 0
  /\ evictCh = FALSE
  /\ evictor = "idle"
  /\ cleaning = FALSE
  /\ thread = [t \in Threads |-> Idle]

-----------------------------------------------------------------------------
\* deleteEntry(key, entry): the entry given need not be the one in the index,
\* nor need the index have one.
deleteEntry(k, e) ==
  /\ files' = Without(files, {k})
  /\ usedSize' = usedSize - EntrySize(e)
  /\ entries' = entries - 1
  /\ index' = Without(index, {k})

\* Get, under the read lock, and the check of the expiry that follows.
GetLookup(t, k) ==
  /\ thread[t].pc = "idle"
  /\ LockFree
  /\ k \in DOMAIN index
  /\ thread' = [thread EXCEPT ![t] =
       [pc |-> IF index[k].expired THEN "purge" ELSE "read",
        key |-> k, val |-> NoEntry, entry |-> index[k]]]
  /\ UNCHANGED <<index, files, counters, loops>>

\* What Get makes of the file's contents f for an entry e: an error, the bytes
\* of a value, or bytes that are no value anyone stored (Torn).
Returned(e, f) ==
  CASE e.val \in Compressed /\ f \in Compressed    -> f
    [] e.val \in Compressed /\ f \notin Compressed -> "error"  \* does not decompress
    [] e.val \notin Compressed /\ f \in Compressed -> Torn     \* compressed bytes
    [] OTHER                                       -> f

\* Get reads the file.  One that cannot be read condemns the entry.
GetRead(t) ==
  /\ thread[t].pc = "read"
  /\ IF thread[t].key \in DOMAIN files THEN Return(t) ELSE Goto(t, "purge")
  /\ UNCHANGED <<index, files, counters, loops>>

\* Get locks again to delete the entry it looked up.
GetPurge(t) ==
  /\ thread[t].pc = "purge"
  /\ LockFree
  /\ deleteEntry(thread[t].key, thread[t].entry)
  /\ - MaxCounter <= usedSize' /\ - MaxCounter <= entries'
  /\ Return(t)
  /\ UNCHANGED loops

-----------------------------------------------------------------------------
\* Set writes the file first (os.WriteFile is taken to be atomic) ...
SetWrite(t, k, v) ==
  /\ thread[t].pc = "idle"
  /\ files' = With(files, k, v)
  /\ thread' = [thread EXCEPT ![t] = [pc |-> "index", key |-> k, val |-> v, entry |-> NoEntry]]
  /\ UNCHANGED <<index, counters, loops>>

\* ... and returns if that fails, leaving a truncated file behind.
SetWriteError(t, k) ==
  /\ thread[t].pc = "idle"
  /\ files' = With(files, k, Torn)
  /\ UNCHANGED <<index, counters, loops, thread>>

\* Mutant of SetIndex: a replaced entry is counted again.
SetIndexCountingTwice(t) ==
  /\ thread[t].pc = "index"
  /\ LockFree
  /\ usedSize' = usedSize + Size[thread[t].val]
  /\ usedSize' <= MaxCounter
  /\ entries' = entries + 1
  /\ index' = With(index, thread[t].key, [val |-> thread[t].val, expired |-> FALSE])
  /\ Goto(t, "check")
  /\ UNCHANGED <<files, loops>>

\* Set, under the lock.
SetIndex(t) ==
  /\ thread[t].pc = "index"
  /\ LockFree
  /\ LET k == thread[t].key
         v == thread[t].val
     IN  /\ usedSize' = usedSize + Size[v] - IF k \in DOMAIN index THEN EntrySize(index[k]) ELSE 0
         /\ entries' = IF k \in DOMAIN index THEN entries ELSE entries + 1
         /\ index' = With(index, k, [val |-> v, expired |-> FALSE])
         /\ usedSize' <= MaxCounter
  /\ Goto(t, "check")
  /\ UNCHANGED <<files, loops>>

\* Mutant of SetCheck: usedSize is compared with the whole size.
SetCheckWholeSize(t) ==
  /\ thread[t].pc = "check"
  /\ evictCh' = (evictCh \/ usedSize > MaxSize)
  /\ Return(t)
  /\ UNCHANGED <<index, files, counters, evictor, cleaning>>

\* Set, after the lock: the send to evictCh does not block.
SetCheck(t) ==
  /\ thread[t].pc = "check"
  /\ evictCh' = (evictCh \/ usedSize > High)
  /\ Return(t)
  /\ UNCHANGED <<index, files, counters, evictor, cleaning>>

-----------------------------------------------------------------------------
Delete(k) ==
  /\ LockFree
  /\ k \in DOMAIN index
  /\ deleteEntry(k, index[k])
  /\ UNCHANGED <<loops, thread>>

Clear ==
  /\ LockFree
  /\ files' = <<>>
  /\ index' = <<>>
  /\ usedSize' = 0
  /\ entries' = 0
  /\ UNCHANGED <<loops, thread>>

\* os.RemoveAll fails half way: the error is returned and the index stays.
ClearError ==
  /\ LockFree
  /\ \E K \in SUBSET DOMAIN files : files' = Without(files, K)
  /\ UNCHANGED <<index, counters, loops, thread>>

\* Time passes: an entry's ExpiresAt lies in the past from now on.
\* (cleanupExpired reads the clock once, before its loop.)
Expire(k) ==
  /\ ~ cleaning
  /\ k \in DOMAIN index
  /\ ~ index[k].expired
  /\ index' = [index EXCEPT ![k].expired = TRUE]
  /\ UNCHANGED <<files, counters, loops, thread>>

\* cleanupExpired, every five minutes: under the lock, one expired entry after
\* the other.
CleanupStart ==
  /\ LockFree
  /\ cleaning' = TRUE
  /\ UNCHANGED <<index, files, counters, evictCh, evictor, thread>>

CleanupOne(k) ==
  /\ cleaning
  /\ k \in DOMAIN index
  /\ index[k].expired
  /\ deleteEntry(k, index[k])
  /\ UNCHANGED <<loops, thread>>

CleanupDone ==
  /\ cleaning
  /\ \A k \in DOMAIN index : ~ index[k].expired
  /\ cleaning' = FALSE
  /\ UNCHANGED <<index, files, counters, evictCh, evictor, thread>>

-----------------------------------------------------------------------------
\* evictionLoop receives a request ...
EvictReceive ==
  /\ evictor = "idle"
  /\ evictCh
  /\ evictCh' = FALSE
  /\ evictor' = "locking"
  /\ UNCHANGED <<index, files, counters, cleaning, thread>>

\* ... and evict takes the lock ...
EvictLock ==
  /\ evictor = "locking"
  /\ ~ cleaning
  /\ evictor' = "evicting"
  /\ UNCHANGED <<index, files, counters, evictCh, cleaning, thread>>

\* ... and deletes one entry after the other.  The key "" stands for `nothing
\* found' in the search for the oldest entry: an iteration that ends with it
\* deletes nothing.
EvictOne(k) ==
  /\ evictor = "evicting"
  /\ usedSize > Target
  /\ k \in DOMAIN index
  /\ k # EmptyKey
  /\ deleteEntry(k, index[k])
  /\ UNCHANGED <<loops, thread>>

\* Mutant of EvictDone: the target is the whole size.
EvictDoneAtWholeSize ==
  /\ evictor = "evicting"
  /\ usedSize <= MaxSize \/ DOMAIN index = {}
  /\ evictor' = "idle"
  /\ UNCHANGED <<index, files, counters, evictCh, cleaning, thread>>

EvictDone ==
  /\ evictor = "evicting"
  /\ usedSize <= Target \/ DOMAIN index = {}
  /\ evictor' = "idle"
  /\ UNCHANGED <<index, files, counters, evictCh, cleaning, thread>>

-----------------------------------------------------------------------------
Evictor == EvictReceive \/ EvictLock \/ (\E k \in Keys : EvictOne(k)) \/ EvictDone

Cleaner == CleanupStart \/ (\E k \in Keys : CleanupOne(k)) \/ CleanupDone

Call(t) ==
  \/ \E k \in Keys : GetLookup(t, k) \/ SetWriteError(t, k) \/ \E v \in Values : SetWrite(t, k, v)
  \/ GetRead(t) \/ GetPurge(t) \/ SetIndex(t) \/ SetCheck(t)

Next ==
  \/ \E t \in Threads : Call(t)
  \/ \E k \in Keys : Delete(k) \/ Expire(k)
  \/ Clear \/ ClearError
  \/ Evictor
  \/ Cleaner

Spec == Init /\ [][Next]_vars

\* Goroutines that can run do run.  The mutex hands itself to a waiter that
\* has starved (Go's starvation mode), so the eviction loop gets it although
\* others keep taking it.
FairSpec ==
  /\ Spec
  /\ WF_vars(EvictReceive) /\ SF_vars(EvictLock) /\ WF_vars(\E k \in Keys : EvictOne(k))
  /\ WF_vars(EvictDone)
  /\ WF_vars((\E k \in Keys : CleanupOne(k)) \/ CleanupDone)
  /\ \A t \in Threads : WF_vars(SetCheck(t))

-----------------------------------------------------------------------------
TypeOK ==
  /\ DOMAIN index \subseteq Keys /\ index \in [DOMAIN index -> Entry]
  /\ DOMAIN files \subseteq Keys /\ files \in [DOMAIN files -> Values \cup {Torn}]
  /\ usedSize \in Int
  /\ entries \in Int
  /\ evictCh \in BOOLEAN
  /\ evictor \in {"idle", "locking", "evicting"}
  /\ cleaning \in BOOLEAN
  /\ thread \in [Threads -> [pc : {"idle", "read", "purge", "index", "check"},
                             key : Keys \cup {EmptyKey},
                             val : Values \cup {NoEntry},
                             entry : Entry \cup {NoEntry}]]

OverFull == usedSize > High /\ DOMAIN index # {}

\* An over-full cache has an eviction coming: the request is in the channel,
\* the loop has taken it and not finished, or the Set that went over the limit
\* has not looked yet.  Neither the send that gives up when the channel is full
\* nor the look at usedSize outside the lock loses one (local.go, Set and
\* evictionLoop).
NoLostEviction ==
  OverFull =>
    evictCh \/ evictor # "idle" \/ \E t \in Threads : thread[t].pc = "check"

\* The entries counter never claims more entries than the index has, although
\* concurrent Gets may delete one entry twice (local.go, deleteEntry and Set).
EntriesNotOverstated == entries <= Cardinality(DOMAIN index)

\* A cache that is over its limit does not stay so: it is brought down or
\* emptied (local.go: "evict removes entries to free space (LRU)").
EvictionCompletes == OverFull ~> ~ OverFull

\* What Get returns for a key was passed to Set (local.go: "Get retrieves a
\* value from local cache").
GetReturnsStored ==
  [][\A t \in Threads : GetRead(t) /\ thread[t].key \in DOMAIN files =>
       Returned(thread[t].entry, files[thread[t].key]) \in Values \cup {"error"}]_vars
=============================================================================
