---------------------------- MODULE BufferCache ----------------------------
(***************************************************************************)
(* The shared memory buffer cache of the VOD module                        *)
(* (ngx_media_vod/ngx_buffer_cache.c).                                     *)
(*                                                                         *)
(* Several nginx worker processes map one zone.  An array of entries grows *)
(* up from the bottom of the zone, a cyclic buffer area grows down from    *)
(* its top; both are changed under the zone's mutex.  A worker may be      *)
(* killed between any two of its steps: the master then unlocks the mutex  *)
(* by force and the flag reset tells the next store that the structures    *)
(* may be torn.  The bytes of a stored buffer are copied, and the bytes of *)
(* a fetched one are read, without the mutex: the only protection is a     *)
(* reference count that stops counting LockExpiration seconds after the    *)
(* last access.                                                            *)
(*                                                                         *)
(* An entry is named by its index in the array, a byte of the zone by its  *)
(* distance from entries_start.  Every worker reads the time nginx caches  *)
(* once per iteration of its event loop.                                   *)
(***************************************************************************)
EXTENDS Integers, FiniteSets, Sequences, Functions

CONSTANTS
  Workers,          \* worker processes
  Keys,             \* cache keys (the hash is a function of the key)
  Sizes,            \* values of buffer_size passed to a store
  BuffersEnd,       \* sh->buffers_end
  EntrySize,        \* sizeof(ngx_buffer_cache_entry_t)
  AllocMargin,      \* ENTRIES_ALLOC_MARGIN, in entries
  Alignment,        \* BUFFER_ALIGNMENT
  Expiration,       \* cache->expiration, 0 when entries do not expire
  EntryLockExp,     \* ENTRY_LOCK_EXPIRATION
  CacheLockExp,     \* CACHE_LOCK_EXPIRATION
  MaxEvictions,     \* MAX_EVICTIONS_PER_STORE
  MaxLag,           \* bound: seconds one event loop iteration may take
  MaxTime,          \* bound on the clock
  MaxKills,         \* bound on the number of killed workers
  MaxRef,           \* bound on the references of an entry, leaked ones included
  None              \* no worker, no entry

ASSUME ConstantsAssumption ==
  /\ IsFiniteSet(Workers)
  /\ None \notin Workers /\ None \notin Int /\ None \notin Keys
  /\ Sizes \subseteq Nat
  /\ EntrySize \in Nat \ {0} /\ Alignment \in Nat \ {0}
  /\ BuffersEnd \in Nat /\ AllocMargin \in Nat
  /\ Expiration \in Nat /\ EntryLockExp \in Nat /\ CacheLockExp \in Nat
  /\ MaxEvictions \in Nat /\ MaxLag \in Nat /\ MaxTime \in Nat
  /\ MaxKills \in Nat /\ MaxRef \in Nat

\* Indices of the entries array; at most one entry per byte fits.
Slot == 0 .. BuffersEnd

VARIABLES
  reset,         \* sh->reset: a store may have been killed half way
  cacheAccess,   \* sh->access_time
  tree,          \* entries linked in sh->rbtree
  usedQueue,     \* sh->used_queue, oldest entry first
  freeQueue,     \* sh->free_queue
  entriesEnd,    \* sh->entries_end, the number of entries in use
  buffersStart,  \* sh->buffers_start
  buffersRead,   \* sh->buffers_read
  buffersWrite,  \* sh->buffers_write
  entry,         \* the entries array
  mutex,         \* holder of shpool->mutex
  now,           \* the real time
  time,          \* the time each worker has cached, ngx_time()
  pc,            \* where each worker is
  op,            \* local variables of each worker's call
  kills          \* number of workers killed so far

flags == <<reset, cacheAccess>>
queues == <<tree, usedQueue, freeQueue>>
area == <<entriesEnd, buffersStart, buffersRead, buffersWrite>>
env == <<now, time, kills>>
shared == <<flags, queues, area, entry>>
vars == <<shared, mutex, pc, op, env>>

EntryStates == {"free", "allocated", "ready"}   \* CES_FREE, _ALLOCATED, _READY

BlankEntry == [state |-> "free", ref |-> 0, access |-> 0, write |-> 0,
               key |-> None, start |-> 0, size |-> 0]

\* e is the entry of the call, victim the one free_oldest_entry works on.
NoOp == [key |-> None, size |-> 0, e |-> None, victim |-> None, buf |-> 0,
         token |-> 0, left |-> 0, ret |-> "idle"]

\* Program points at which the worker holds the mutex.
LockedPCs == {"evict", "entry", "size", "buffer", "free_tree", "free_queue",
              "free_pointers", "init", "link_queue", "link_tree", "commit"}
FreeingPCs == {"free_tree", "free_queue", "free_pointers"}
PCs == LockedPCs \cup {"idle", "reading", "copy", "ready"}

Init ==
  /\ reset = FALSE
  /\ cacheAccess = 0
  /\ tree = {} /\ usedQueue = <<>> /\ freeQueue = <<>>
  /\ entriesEnd = 0
  /\ buffersStart = BuffersEnd
  /\ buffersRead = BuffersEnd
  /\ buffersWrite = BuffersEnd
  /\ entry = [a \in Slot |-> BlankEntry]
  /\ mutex = None
  /\ now = 0
  /\ time = [w \in Workers |-> 0]
  /\ pc = [w \in Workers |-> "idle"]
  /\ op = [w \in Workers |-> NoOp]
  /\ kills = 0

-----------------------------------------------------------------------------
(* Helpers                                                                 *)

\* ngx_buffer_cache_rbtree_lookup: the entries of the tree that have the key.
Lookup(k) == {e \in tree : entry[e].key = k}

\* (buffers_write - size) & ~(BUFFER_ALIGNMENT - 1)
AlignDown(a) == a - (a % Alignment)

\* entries_end + ENTRIES_ALLOC_MARGIN, the lowest address buffers may grow to
Margin == (entriesEnd + AllocMargin) * EntrySize

Goto(w, p) == pc' = [pc EXCEPT ![w] = p]

\* The worker is inside one event loop iteration, which takes at most MaxLag.
InIteration(w) == now - time[w] <= MaxLag

\* Slip: the reference count is not looked at.
CanFreeOldest_NoLock(w, expiration) ==
  /\ usedQueue # <<>>
  /\ expiration = 0 \/ time[w] >= entry[Head(usedQueue)].write + expiration

\* The checks of ngx_buffer_cache_free_oldest_entry.
CanFreeOldest(w, expiration) ==
  /\ usedQueue # <<>>
  /\ LET e == entry[Head(usedQueue)]
     IN /\ ~(e.ref > 0 /\ time[w] < e.access + EntryLockExp)
        /\ expiration = 0 \/ time[w] >= e.write + expiration

\* Slips: one half of the protection is forgotten.
Hold_NoRef(e, t) == [entry[e] EXCEPT !.access = t]
Hold_NoAccess(e, t) == [entry[e] EXCEPT !.ref = @ + 1]

\* A fetched entry: referenced, and protected from now on.
Hold(e, t) == [entry[e] EXCEPT !.access = t, !.ref = @ + 1]

\* Slip: any size is tried.
Fits_Always(size) == TRUE

\* The check at the top of ngx_buffer_cache_get_free_buffer, called with
\* buffer_size + 1.
Fits(size) == Margin + (size + 1) + Alignment <= BuffersEnd

\* Nobody has used the cache for so long that nobody can be using it now.
ResetAllowed_Always(w) == TRUE
ResetAllowed(w) == time[w] >= cacheAccess + CacheLockExp

\* ngx_buffer_cache_reset; the entries' memory is left as it is.
ResetStructures ==
  /\ entriesEnd' = 0
  /\ buffersStart' = BuffersEnd
  /\ buffersRead' = BuffersEnd
  /\ buffersWrite' = BuffersEnd
  /\ tree' = {}
  /\ usedQueue' = <<>>
  /\ freeQueue' = <<>>

-----------------------------------------------------------------------------
(* Time and processes                                                      *)

Tick ==
  /\ now < MaxTime
  /\ \A w \in Workers : pc[w] # "idle" => now - time[w] < MaxLag
  /\ now' = now + 1
  /\ UNCHANGED <<shared, mutex, time, pc, op, kills>>

\* A worker starts an iteration of its event loop and refreshes its time.
UpdateTime(w) ==
  /\ pc[w] = "idle"
  /\ time[w] # now
  /\ time' = [time EXCEPT ![w] = now]
  /\ UNCHANGED <<shared, mutex, now, pc, op, kills>>

\* A worker dies anywhere; the master unlocks its mutex and respawns it.
Kill(w) ==
  /\ pc[w] # "idle"
  /\ kills < MaxKills
  /\ kills' = kills + 1
  /\ mutex' = IF mutex = w THEN None ELSE mutex
  /\ pc' = [pc EXCEPT ![w] = "idle"]
  /\ op' = [op EXCEPT ![w] = NoOp]
  /\ time' = [time EXCEPT ![w] = now]
  /\ UNCHANGED <<shared, now>>

-----------------------------------------------------------------------------
(* Fetch and release                                                       *)

\* A hit of ngx_buffer_cache_fetch; a miss changes nothing but a counter.
Fetch(w, k) ==
  /\ pc[w] = "idle" /\ InIteration(w) /\ mutex = None
  /\ ~reset
  /\ \E e \in Lookup(k) :
       /\ entry[e].state = "ready"
       /\ entry[e].ref < MaxRef
       /\ Expiration = 0 \/ time[w] < entry[e].write + Expiration
       /\ cacheAccess' = time[w]
       /\ entry' = [entry EXCEPT ![e] = Hold(e, time[w])]
       /\ op' = [op EXCEPT ![w] = [NoOp EXCEPT !.key = k, !.e = e,
                   !.buf = entry[e].start, !.size = entry[e].size,
                   !.token = entry[e].write]]
  /\ Goto(w, "reading")
  /\ UNCHANGED <<reset, queues, area, mutex, env>>

\* ngx_buffer_cache_release: the entry is found again by key and token.
Release(w) ==
  /\ pc[w] = "reading" /\ mutex = None
  /\ LET match == {e \in Lookup(op[w].key) :
                     /\ ~reset
                     /\ entry[e].state = "ready"
                     /\ entry[e].write = op[w].token}
     IN entry' = [e \in Slot |->
                    IF e \in match THEN [entry[e] EXCEPT !.ref = @ - 1]
                                   ELSE entry[e]]
  /\ Goto(w, "idle")
  /\ op' = [op EXCEPT ![w] = NoOp]
  /\ UNCHANGED <<flags, queues, area, mutex, env>>

\* A caller that returns without a release (an unparsable DRM info, a
\* truncated multipart buffer, a failed allocation) leaks its reference.
Abandon(w) ==
  /\ pc[w] = "reading"
  /\ Goto(w, "idle")
  /\ op' = [op EXCEPT ![w] = NoOp]
  /\ UNCHANGED <<shared, mutex, env>>

-----------------------------------------------------------------------------
(* ngx_buffer_cache_store_gather, under the mutex                          *)

\* A previous store was killed: reset once nobody can be using the buffers.
\* The flag stays set, so the steps of the reset need not be told apart.
StoreReset(w, k, z) ==
  /\ pc[w] = "idle" /\ InIteration(w) /\ mutex = None
  /\ reset
  /\ ResetAllowed(w)
  /\ mutex' = w
  /\ ResetStructures
  /\ op' = [op EXCEPT ![w] = [NoOp EXCEPT !.key = k, !.size = z]]
  /\ Goto(w, "entry")
  /\ UNCHANGED <<flags, entry, env>>

StoreLock(w, k, z) ==
  /\ pc[w] = "idle" /\ InIteration(w) /\ mutex = None
  /\ ~reset
  /\ mutex' = w
  /\ op' = [op EXCEPT ![w] = [NoOp EXCEPT !.key = k, !.size = z,
                !.left = IF Expiration = 0 THEN 0 ELSE MaxEvictions]]
  /\ Goto(w, "evict")
  /\ UNCHANGED <<shared, env>>

\* First write of free_oldest_entry; the worker goes on at ret afterwards.
BeginFree(w, expiration, ret, left) ==
  /\ CanFreeOldest(w, expiration)
  /\ LET e == Head(usedQueue)
     IN /\ entry' = [entry EXCEPT ![e].state = "free"]
        /\ op' = [op EXCEPT ![w].victim = e, ![w].ret = ret, ![w].left = left]
  /\ Goto(w, "free_tree")
  /\ UNCHANGED <<flags, queues, area, mutex, env>>

FreeFromTree_Skipped(w) ==
  /\ pc[w] = "free_tree"
  /\ Goto(w, "free_queue")
  /\ UNCHANGED <<shared, mutex, env, op>>

FreeFromTree(w) ==
  /\ pc[w] = "free_tree"
  /\ tree' = tree \ {op[w].victim}
  /\ Goto(w, "free_queue")
  /\ UNCHANGED <<flags, usedQueue, freeQueue, area, entry, mutex, env, op>>

\* Slip: the freed entry joins the front.
FreeToQueue_Front(w) ==
  /\ pc[w] = "free_queue"
  /\ usedQueue' = Tail(usedQueue)
  /\ freeQueue' = <<op[w].victim>> \o freeQueue
  /\ Goto(w, "free_pointers")
  /\ UNCHANGED <<flags, tree, area, entry, mutex, env, op>>

\* The entry is the head of the used queue.
FreeToQueue(w) ==
  /\ pc[w] = "free_queue"
  /\ usedQueue' = Tail(usedQueue)
  /\ freeQueue' = Append(freeQueue, op[w].victim)
  /\ Goto(w, "free_pointers")
  /\ UNCHANGED <<flags, tree, area, entry, mutex, env, op>>

FreePointers(w) ==
  /\ pc[w] = "free_pointers"
  /\ IF usedQueue = <<>>
     THEN buffersRead' = BuffersEnd /\ buffersWrite' = BuffersEnd
     ELSE buffersRead' = entry[op[w].victim].start /\ UNCHANGED buffersWrite
  /\ Goto(w, op[w].ret)
  /\ op' = IF op[w].ret = "size" THEN [op EXCEPT ![w].e = op[w].victim] ELSE op
  /\ UNCHANGED <<flags, queues, entriesEnd, buffersStart, entry, mutex, env>>

\* Slip: the count of evictions is not looked at.
EvictExpired_Unbounded(w) ==
  /\ pc[w] = "evict"
  /\ BeginFree(w, Expiration, "evict", op[w].left - 1)

EvictExpired(w) ==
  /\ pc[w] = "evict"
  /\ op[w].left > 0
  /\ BeginFree(w, Expiration, "evict", op[w].left - 1)

\* "enable the reset flag before we start making any changes"
BeginChanges_NoFlag == reset' = reset
BeginChanges == reset' = TRUE

\* Evictions done: an existing key ends the call, else changes begin.
StoreLookup(w) ==
  /\ pc[w] = "evict"
  /\ op[w].left = 0 \/ ~CanFreeOldest(w, Expiration)
  /\ IF Lookup(op[w].key) # {}
     THEN /\ mutex' = None
          /\ Goto(w, "idle")
          /\ op' = [op EXCEPT ![w] = NoOp]
          /\ UNCHANGED reset
     ELSE /\ BeginChanges
          /\ Goto(w, "entry")
          /\ UNCHANGED <<mutex, op>>
  /\ UNCHANGED <<cacheAccess, queues, area, entry, env>>

\* The label error: the flag is cleared, nothing is stored.
StoreFail(w) ==
  /\ reset' = FALSE
  /\ mutex' = None
  /\ Goto(w, "idle")
  /\ op' = [op EXCEPT ![w] = NoOp]
  /\ UNCHANGED <<cacheAccess, queues, area, entry, env>>

\* ngx_buffer_cache_get_free_entry
TakeFreeEntry(w) ==
  /\ pc[w] = "entry"
  /\ freeQueue # <<>>
  /\ op' = [op EXCEPT ![w].e = Head(freeQueue)]
  /\ Goto(w, "size")
  /\ UNCHANGED <<shared, mutex, env>>

CanGrowEntries == (entriesEnd + 1) * EntrySize < buffersStart

GrowEntries(w) ==
  /\ pc[w] = "entry"
  /\ freeQueue = <<>>
  /\ CanGrowEntries
  /\ entriesEnd' = entriesEnd + 1
  /\ entry' = [entry EXCEPT ![entriesEnd].state = "free"]
  /\ freeQueue' = Append(freeQueue, entriesEnd)
  /\ op' = [op EXCEPT ![w].e = entriesEnd]
  /\ Goto(w, "size")
  /\ UNCHANGED <<flags, tree, usedQueue, buffersStart, buffersRead,
                 buffersWrite, mutex, env>>

EvictForEntry(w) ==
  /\ pc[w] = "entry"
  /\ freeQueue = <<>> /\ ~CanGrowEntries
  /\ BeginFree(w, 0, "size", op[w].left)

NoEntry(w) ==
  /\ pc[w] = "entry"
  /\ freeQueue = <<>> /\ ~CanGrowEntries /\ ~CanFreeOldest(w, 0)
  /\ StoreFail(w)

\* ngx_buffer_cache_get_free_buffer
TooBig(w) ==
  /\ pc[w] = "size"
  /\ ~Fits(op[w].size)
  /\ StoreFail(w)

BeginAlloc(w) ==
  /\ pc[w] = "size"
  /\ Fits(op[w].size)
  /\ op' = [op EXCEPT ![w].buf = AlignDown(buffersWrite - (op[w].size + 1))]
  /\ Goto(w, "buffer")
  /\ UNCHANGED <<shared, mutex, env>>

\* Slip: a full area is taken for an empty one.
RoomBelow_OrFull == buffersWrite <= buffersRead

\* Layout  S  W/////R  E : the free room is below the write position.
RoomBelow ==
  \/ buffersWrite < buffersRead
  \/ buffersWrite = buffersRead /\ usedQueue = <<>>

AllocBuffer(w) ==
  /\ pc[w] = "buffer"
  /\ IF RoomBelow
     THEN \/ op[w].buf >= buffersStart /\ UNCHANGED buffersStart
          \/ /\ op[w].buf < buffersStart
             /\ op[w].buf > Margin
             /\ buffersStart' = op[w].buf
     ELSE op[w].buf > buffersRead /\ UNCHANGED buffersStart
  /\ Goto(w, "init")
  /\ UNCHANGED <<flags, queues, entriesEnd, buffersRead, buffersWrite, entry,
                 mutex, env, op>>

WrapWrite(w) ==
  /\ pc[w] = "buffer"
  /\ RoomBelow /\ op[w].buf < buffersStart /\ op[w].buf <= Margin
  /\ buffersWrite' = BuffersEnd
  /\ op' = [op EXCEPT ![w].buf = AlignDown(BuffersEnd - (op[w].size + 1))]
  /\ UNCHANGED <<flags, queues, entriesEnd, buffersStart, buffersRead, entry,
                 mutex, env, pc>>

\* The freed entry joins the tail of the free queue: the store keeps its own.
EvictForBuffer(w) ==
  /\ pc[w] = "buffer"
  /\ ~RoomBelow /\ op[w].buf <= buffersRead
  /\ BeginFree(w, 0, "buffer", op[w].left)

NoBuffer(w) ==
  /\ pc[w] = "buffer"
  /\ ~RoomBelow /\ op[w].buf <= buffersRead /\ ~CanFreeOldest(w, 0)
  /\ StoreFail(w)

InitEntry(w) ==
  /\ pc[w] = "init"
  /\ entry' = [entry EXCEPT ![op[w].e] =
                 [@ EXCEPT !.state = "allocated", !.ref = 1, !.key = op[w].key,
                           !.start = op[w].buf, !.size = op[w].size]]
  /\ buffersWrite' = op[w].buf
  /\ Goto(w, "link_queue")
  /\ UNCHANGED <<flags, queues, entriesEnd, buffersStart, buffersRead, mutex,
                 env, op>>

\* ngx_queue_remove unlinks the entry wherever it is; StoreEntryFirst says
\* that it is the head of the free queue.
LinkQueue(w) ==
  /\ pc[w] = "link_queue"
  /\ freeQueue' = Tail(freeQueue)
  /\ usedQueue' = Append(usedQueue, op[w].e)
  /\ Goto(w, "link_tree")
  /\ UNCHANGED <<flags, tree, area, entry, mutex, env, op>>

LinkTree(w) ==
  /\ pc[w] = "link_tree"
  /\ tree' = tree \cup {op[w].e}
  /\ Goto(w, "commit")
  /\ UNCHANGED <<flags, usedQueue, freeQueue, area, entry, mutex, env, op>>

Commit(w) ==
  /\ pc[w] = "commit"
  /\ cacheAccess' = time[w]
  /\ entry' = [entry EXCEPT ![op[w].e].access = time[w],
                            ![op[w].e].write = time[w]]
  /\ reset' = FALSE
  /\ mutex' = None
  /\ Goto(w, "copy")
  /\ UNCHANGED <<queues, area, env, op>>

\* The copy runs without the mutex and so do the two atomic writes after it.
FinishCopy(w) ==
  /\ pc[w] = "copy"
  /\ entry' = [entry EXCEPT ![op[w].e].state = "ready"]
  /\ Goto(w, "ready")
  /\ UNCHANGED <<flags, queues, area, mutex, env, op>>

DropStoreRef(w) ==
  /\ pc[w] = "ready"
  /\ entry' = [entry EXCEPT ![op[w].e].ref = @ - 1]
  /\ Goto(w, "idle")
  /\ op' = [op EXCEPT ![w] = NoOp]
  /\ UNCHANGED <<flags, queues, area, mutex, env>>

-----------------------------------------------------------------------------
(* The specification                                                       *)

\* The steps of a worker that holds the mutex.
StoreStep(w) ==
  \/ FreeFromTree(w) \/ FreeToQueue(w) \/ FreePointers(w)
  \/ EvictExpired(w) \/ StoreLookup(w)
  \/ TakeFreeEntry(w) \/ GrowEntries(w) \/ EvictForEntry(w) \/ NoEntry(w)
  \/ TooBig(w) \/ BeginAlloc(w)
  \/ AllocBuffer(w) \/ WrapWrite(w) \/ EvictForBuffer(w) \/ NoBuffer(w)
  \/ InitEntry(w) \/ LinkQueue(w) \/ LinkTree(w) \/ Commit(w)

UnlockedStep(w) ==
  \/ UpdateTime(w) \/ Kill(w)
  \/ \E k \in Keys : Fetch(w, k)
  \/ Release(w) \/ Abandon(w)
  \/ \E k \in Keys, z \in Sizes : StoreReset(w, k, z) \/ StoreLock(w, k, z)
  \/ FinishCopy(w) \/ DropStoreRef(w)

Next == Tick \/ \E w \in Workers : StoreStep(w) \/ UnlockedStep(w)

Spec == Init /\ [][Next]_vars

\* A worker that holds the mutex runs straight line code.
FairSpec == Spec /\ \A w \in Workers : WF_vars(StoreStep(w))

-----------------------------------------------------------------------------
(* Properties                                                              *)

OpType == [key : Keys \cup {None}, size : Nat, e : Slot \cup {None},
           victim : Slot \cup {None}, buf : Int, token : Nat, left : Nat,
           ret : PCs]
EntryType == [state : EntryStates, ref : Int, access : Nat, write : Nat,
              key : Keys \cup {None}, start : Int, size : Nat]

QueuesType ==
  tree \subseteq Slot /\ usedQueue \in Seq(Slot) /\ freeQueue \in Seq(Slot)
AreaType ==
  /\ entriesEnd \in Nat
  /\ buffersStart \in Int /\ buffersStart <= BuffersEnd
  /\ buffersRead \in Int /\ buffersWrite \in Int
EntriesType == entry \in [Slot -> EntryType]
ControlType ==
  /\ reset \in BOOLEAN /\ cacheAccess \in Nat
  /\ mutex \in Workers \cup {None}
  /\ pc \in [Workers -> PCs]
  /\ now \in Nat /\ time \in [Workers -> Nat] /\ kills \in Nat
LocalType == op \in [Workers -> OpType]

\* The type of every variable of ngx_buffer_cache_sh_t and of the callers'
\* locals; the buffers never start above the end of the zone.
TypeOK == QueuesType /\ AreaType /\ EntriesType /\ ControlType /\ LocalType

\* The queues split the allocated entries between them: none is lost, none is
\* in both.
QueuesOK ==
  /\ IsInjective(usedQueue) /\ IsInjective(freeQueue)
  /\ Range(usedQueue) \cap Range(freeQueue) = {}
  /\ Range(usedQueue) \cup Range(freeQueue) = 0 .. entriesEnd - 1

KeysOK == \A e, f \in Range(usedQueue) : entry[e].key = entry[f].key => e = f

StructOK == QueuesOK /\ KeysOK /\ tree = Range(usedQueue)

\* The protocol of the flag reset: whenever another worker can take the mutex
\* and the flag is clear, the structures are whole, wherever a store was
\* killed.  Fetch, release and store all rely on it.
CrashConsistent == (mutex = None /\ ~reset) => StructOK

\* The bytes of an entry's buffer, with the terminating zero.
Bytes(start, size) == start .. start + size

\* Memory layout: the entries array never meets the buffers, and the buffers
\* of the used entries lie in the buffer area and are pairwise disjoint, for
\* every wrap around of the cyclic area.
NoOverlap ==
  (mutex = None /\ ~reset) =>
    /\ entriesEnd * EntrySize <= buffersStart
    /\ \A e \in Range(usedQueue) :
         /\ Bytes(entry[e].start, entry[e].size)
              \subseteq buffersStart .. BuffersEnd - 1
         /\ \A f \in Range(usedQueue) \ {e} :
              Bytes(entry[e].start, entry[e].size)
                \cap Bytes(entry[f].start, entry[f].size) = {}

\* The workers that use an entry's bytes, and the bytes they use.
Users == {w \in Workers : pc[w] \in {"reading", "copy", "ready"}}
BytesOf(w) == IF pc[w] = "reading"
              THEN Bytes(op[w].buf, op[w].size - 1)
              ELSE Bytes(op[w].buf, op[w].size)

\* The comments at the access times ("to prevent it from being freed while the
\* caller uses the buffer"): no buffer is written by a copy while another
\* worker reads or writes the same bytes.  Neither side holds the mutex.
NoDataRace ==
  \A w, v \in Users :
    (w # v /\ pc[w] = "copy") => BytesOf(w) \cap BytesOf(v) = {}

\* The entry a worker uses without the mutex stays the entry it took: same
\* key, same buffer, not freed and not reused for another store.
HeldEntryStable ==
  \A w \in Users :
    LET e == entry[op[w].e]
    IN /\ e.key = op[w].key /\ e.start = op[w].buf /\ e.size = op[w].size
       /\ e.state = IF pc[w] = "copy" THEN "allocated" ELSE "ready"

\* The reference count of an entry covers the workers that hold it, so it
\* never wraps around below zero; a leaked reference may leave it higher.
RefCoversHolders ==
  \A e \in Slot :
    entry[e].ref >= Cardinality({w \in Users : op[w].e = e})

\* The store's own entry stays the first of the free queue while its buffer
\* is being found, although that frees other entries.
HasEntry(w) ==
  \/ pc[w] \in {"size", "buffer", "init", "link_queue"}
  \/ pc[w] \in FreeingPCs /\ op[w].ret = "buffer"
StoreEntryFirst ==
  \A w \in Workers :
    HasEntry(w) => freeQueue # <<>> /\ Head(freeQueue) = op[w].e

\* The loop of get_free_buffer ends: a worker that takes the mutex lets it go.
MutexReleased == \A w \in Workers : mutex = w ~> mutex # w

=============================================================================
