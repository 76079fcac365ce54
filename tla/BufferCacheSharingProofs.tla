------------------------ MODULE BufferCacheSharingProofs ----------------------
(* The buffers that are used without the mutex: the reference counts and   *)
(* the access times keep an entry in place while a worker reads or writes  *)
(* its bytes, provided an iteration of the event loop takes less than half *)
(* of either lock time.                                                    *)
EXTENDS BufferCacheLayoutProofs, FiniteSetTheorems

USE DEF Slot, PCs, LockedPCs, FreeingPCs, EntryStates, flags, queues, area, env, shared,
        Goto

-----------------------------------------------------------------------------
(* The inductive invariant.                                                *)

Holders(e) == {w \in Users : op[w].e = e}

\* A call ends within MaxLag seconds of the time its worker has cached.
TimesOK ==
  \A w \in Workers : time[w] <= now /\ (pc[w] # "idle" => now <= time[w] + MaxLag)

\* The entry of w is linked and is the one that w took; both access times are
\* at most one iteration older than the call.
Held(w) ==
  /\ op[w].e \in Used
  /\ entry[op[w].e].key = op[w].key
  /\ entry[op[w].e].start = op[w].buf
  /\ entry[op[w].e].size = op[w].size
  /\ entry[op[w].e].state = IF pc[w] = "copy" THEN "allocated" ELSE "ready"
  /\ time[w] - MaxLag <= entry[op[w].e].access
  /\ time[w] - MaxLag <= cacheAccess

\* The worker that writes a buffer is the only user of its entry.
WriterAlone ==
  \A w, v \in Users : pc[w] = "copy" /\ op[v].e = op[w].e => v = w

RefsOK == \A e \in Slot : entry[e].ref >= Cardinality(Holders(e))

\* The entry that the holder of the mutex frees, and the one it fills, have
\* no user.
Storing(w) ==
  /\ pc[w] \in {"free_tree", "free_queue"} => Holders(op[w].victim) = {}
  /\ pc[w] \in {"link_queue", "link_tree", "commit"} =>
       /\ Holders(op[w].e) = {}
       /\ pc[w] # "link_queue" => op[w].e \in Used
       /\ entry[op[w].e].key = op[w].key
       /\ entry[op[w].e].start = op[w].buf
       /\ entry[op[w].e].size = op[w].size
       /\ entry[op[w].e].state = "allocated"
       /\ entry[op[w].e].ref >= 1

SharingInv ==
  /\ TimesOK
  /\ \A w \in Users : Held(w)
  /\ WriterAlone
  /\ RefsOK
  /\ \A w \in Workers : Storing(w)

-----------------------------------------------------------------------------
(* Counting the users of an entry.                                         *)

LEMMA HoldersFinite ==
  ASSUME NEW e
  PROVE  /\ IsFiniteSet(Holders(e)) /\ Cardinality(Holders(e)) \in Nat
         /\ Holders(e) = {} => Cardinality(Holders(e)) = 0
         /\ Holders(e) # {} => Cardinality(Holders(e)) >= 1
<1>1. Holders(e) \in SUBSET Workers /\ IsFiniteSet(Workers)
  BY ConstantsAssumption DEF Holders, Users
<1>2. IsFiniteSet(Holders(e))
  BY <1>1, FS_Subset
<1>3. Cardinality(Holders(e)) \in Nat
  BY <1>2, FS_CardinalityType
<1>4. Cardinality(Holders(e)) = 0 <=> Holders(e) = {}
  BY <1>2, FS_EmptySet
<1> QED
  BY <1>2, <1>3, <1>4

LEMMA HolderIn ==
  ASSUME NEW w \in Users PROVE w \in Holders(op[w].e)
BY DEF Holders

\* The reference count of an entry that is in use is positive.
LEMMA HeldRef ==
  ASSUME TypeInv, RefsOK, NEW w \in Users, op[w].e \in Slot
  PROVE  entry[op[w].e].ref \in Int /\ entry[op[w].e].ref >= 1
<1>1. Cardinality(Holders(op[w].e)) \in Nat /\ Cardinality(Holders(op[w].e)) >= 1
  BY HolderIn, HoldersFinite
<1>2. entry[op[w].e].ref \in Int
  BY DEF TypeInv, TypeOK, EntriesType, EntryType
<1>3. entry[op[w].e].ref >= Cardinality(Holders(op[w].e))
  BY DEF RefsOK
<1> QED
  BY <1>1, <1>2, <1>3

\* One user less: the count of its entry may be one less, and no other.
LEMMA UserLeaves ==
  ASSUME TypeInv, RefsOK, NEW w \in Users, Users' = Users \ {w},
         \A v \in Users' : op'[v] = op[v],
         \A e \in Slot : \/ entry'[e].ref = entry[e].ref
                         \/ e = op[w].e /\ entry'[e].ref = entry[e].ref - 1
  PROVE  RefsOK'
<1> SUFFICES ASSUME NEW e \in Slot PROVE entry'[e].ref >= Cardinality(Holders(e)')
  BY DEF RefsOK
<1>1. entry[e].ref \in Int /\ entry[e].ref >= Cardinality(Holders(e))
  BY DEF RefsOK, TypeInv, TypeOK, EntriesType, EntryType
<1>2. IsFiniteSet(Holders(e)) /\ Cardinality(Holders(e)) \in Nat
  BY HoldersFinite
<1>3. CASE e = op[w].e
  <2>1. Holders(e)' = Holders(e) \ {w} /\ w \in Holders(e)
    BY <1>3 DEF Holders
  <2>2. Cardinality(Holders(e)') = Cardinality(Holders(e)) - 1
    BY <1>2, <2>1, FS_RemoveElement
  <2> QED
    BY <1>1, <1>2, <2>2
<1>4. CASE e # op[w].e
  <2>1. Holders(e)' = Holders(e)
    BY <1>4 DEF Holders
  <2> QED
    BY <1>1, <1>4, <2>1
<1> QED
  BY <1>3, <1>4

\* One user more of an entry, counted already.
LEMMA UserJoins ==
  ASSUME TypeInv, RefsOK, NEW w, w \notin Users, NEW n \in Slot,
         Users' = Users \cup {w}, op'[w].e = n,
         \A v \in Users : op'[v] = op[v],
         \A e \in Slot \ {n} : entry'[e].ref = entry[e].ref,
         \/ entry'[n].ref = entry[n].ref + 1
         \/ Holders(n) = {} /\ entry'[n].ref = entry[n].ref /\ entry[n].ref >= 1
  PROVE  RefsOK'
<1> SUFFICES ASSUME NEW e \in Slot PROVE entry'[e].ref >= Cardinality(Holders(e)')
  BY DEF RefsOK
<1>1. entry[e].ref \in Int /\ entry[e].ref >= Cardinality(Holders(e))
  BY DEF RefsOK, TypeInv, TypeOK, EntriesType, EntryType
<1>2. IsFiniteSet(Holders(e)) /\ Cardinality(Holders(e)) \in Nat
      /\ (Holders(e) = {} => Cardinality(Holders(e)) = 0)
  BY HoldersFinite
<1>3. CASE e = n
  <2>1. Holders(e)' = Holders(e) \cup {w} /\ w \notin Holders(e)
    BY <1>3 DEF Holders
  <2>2. Cardinality(Holders(e)') = Cardinality(Holders(e)) + 1
    BY <1>2, <2>1, FS_AddElement
  <2> QED
    BY <1>1, <1>2, <1>3, <2>2
<1>4. CASE e # n
  <2>1. Holders(e)' = Holders(e)
    BY <1>4 DEF Holders
  <2> QED
    BY <1>1, <1>4, <2>1
<1> QED
  BY <1>3, <1>4

\* The same users of the same entries: a count changes only where nobody is.
LEMMA SameUsers ==
  ASSUME TypeInv, RefsOK, Users' = Users, \A v \in Users : op'[v].e = op[v].e,
         \A e \in Slot : \/ entry'[e].ref = entry[e].ref
                         \/ Holders(e) = {} /\ entry'[e].ref >= 0
  PROVE  RefsOK' /\ \A e : Holders(e)' = Holders(e)
<1>1. \A e : Holders(e)' = Holders(e)
  BY DEF Holders
<1>2. ASSUME NEW e \in Slot PROVE entry'[e].ref >= Cardinality(Holders(e)')
  <2>1. /\ entry[e].ref >= Cardinality(Holders(e))
        /\ Holders(e) = {} => Cardinality(Holders(e)) = 0
    BY HoldersFinite DEF RefsOK
  <2> QED
    BY <1>1, <2>1
<1> QED
  BY <1>1, <1>2 DEF RefsOK

-----------------------------------------------------------------------------
(* The steps of the holder of the mutex.                                   *)

\* A step of the holder before its entry is used: the entries in use stay.
LEMMA OwnerStep ==
  ASSUME TypeInv, SharingInv, NEW w \in Workers, mutex = w,
         UNCHANGED <<cacheAccess, now, time>>,
         pc' \in [Workers -> PCs], pc'[w] \notin {"reading", "copy", "ready"},
         \A v \in Workers \ {w} : pc'[v] = pc[v] /\ op'[v] = op[v],
         \A v \in Users : op[v].e \in Used' /\ entry'[op[v].e] = entry[op[v].e],
         \A e \in Slot : \/ entry'[e].ref = entry[e].ref
                         \/ Holders(e) = {} /\ entry'[e].ref >= 0,
         Storing(w)'
  PROVE  SharingInv'
<1>1. pc[w] \in LockedPCs /\ \A v \in Workers \ {w} : pc[v] \notin LockedPCs
  BY DEF TypeInv, MutexOK
<1>2. w \notin Users /\ Users' = Users
  BY <1>1 DEF Users
<1>3. TimesOK'
  BY <1>1 DEF SharingInv, TimesOK
<1>4. \A v \in Users : v # w /\ v \in Workers /\ pc'[v] = pc[v] /\ op'[v] = op[v]
  BY <1>2 DEF Users
<1>5. \A v \in Users' : Held(v)'
  BY <1>2, <1>4 DEF SharingInv, Held
<1>6. WriterAlone'
  BY <1>2, <1>4 DEF SharingInv, WriterAlone
<1>7. RefsOK'
  BY <1>2, <1>4, SameUsers DEF SharingInv
<1>8. ASSUME NEW v \in Workers PROVE Storing(v)'
  BY <1>1 DEF Storing
<1> QED
  BY <1>3, <1>5, <1>6, <1>7, <1>8 DEF SharingInv

\* Nobody holds the entry that free_oldest_entry accepts: its last access is
\* at most two iterations away from the caller's time.
LEMMA VictimUnused ==
  ASSUME TypeInv, SharingInv, 2 * MaxLag < EntryLockExp,
         NEW w \in Workers, pc[w] # "idle", NEW x, CanFreeOldest(w, x)
  PROVE  Holders(Head(usedQueue)) = {}
<1> DEFINE e == Head(usedQueue)
<1>1. e \in Slot
  BY HeadIn DEF CanFreeOldest, TypeInv, TypeOK, QueuesType
<1> SUFFICES ASSUME NEW v \in Users, op[v].e = e PROVE FALSE
  BY DEF Holders
<1>2. entry[e].ref \in Int /\ entry[e].ref >= 1
  BY <1>1, HeldRef DEF SharingInv
<1>3. v \in Workers /\ pc[v] # "idle" /\ time[v] - MaxLag <= entry[e].access
  BY DEF SharingInv, Held, Users
<1>4. time[w] >= entry[e].access + EntryLockExp
  <2>1. ~(entry[e].ref > 0 /\ time[w] < entry[e].access + EntryLockExp)
    BY DEF CanFreeOldest
  <2>2. time[w] \in Nat /\ entry[e].access \in Nat /\ EntryLockExp \in Nat
    BY <1>1, ConstantsAssumption
       DEF TypeInv, TypeOK, ControlType, EntriesType, EntryType
  <2> QED
    BY <1>2, <2>1, <2>2
<1>5. time[w] <= now /\ now <= time[v] + MaxLag
  BY <1>3 DEF SharingInv, TimesOK
<1>6. /\ time[w] \in Nat /\ time[v] \in Nat /\ now \in Nat /\ entry[e].access \in Nat
      /\ MaxLag \in Nat /\ EntryLockExp \in Nat
  BY <1>1, <1>3, ConstantsAssumption
     DEF TypeInv, TypeOK, ControlType, EntriesType, EntryType
<1> QED
  BY <1>3, <1>4, <1>5, <1>6

LEMMA BeginFreeSharing ==
  ASSUME TypeInv, SharingInv, 2 * MaxLag < EntryLockExp,
         NEW w \in Workers, mutex = w, NEW x, NEW r \in PCs, NEW n \in Nat,
         BeginFree(w, x, r, n)
  PROVE  SharingInv'
<1> DEFINE e == Head(usedQueue)
<1>1. /\ pc \in [Workers -> PCs] /\ op \in [Workers -> OpType]
      /\ entry \in [Slot -> EntryType] /\ pc[w] # "idle" /\ CanFreeOldest(w, x)
  BY DEF TypeInv, TypeOK, ControlType, LocalType, EntriesType, MutexOK, BeginFree
<1>2. Holders(e) = {}
  BY <1>1, VictimUnused
<1>3. e \in Slot
  BY <1>1, HeadIn DEF CanFreeOldest, TypeInv, TypeOK, QueuesType
<1>4. /\ UNCHANGED <<cacheAccess, usedQueue, now, time>>
      /\ pc' = [pc EXCEPT ![w] = "free_tree"] /\ op'[w].victim = e
      /\ \A v \in Workers \ {w} : op'[v] = op[v]
      /\ \A f \in Slot \ {e} : entry'[f] = entry[f]
      /\ \A f \in Slot : entry'[f].ref = entry[f].ref
  <2>1. op'[w].victim = e /\ \A v \in Workers \ {w} : op'[v] = op[v]
    BY <1>1 DEF BeginFree, OpType
  <2>2. \A f \in Slot \ {e} : entry'[f] = entry[f]
    BY <1>1 DEF BeginFree
  <2>3. \A f \in Slot : entry'[f].ref = entry[f].ref
    BY <1>1, <1>3 DEF BeginFree, EntryType
  <2> QED
    BY <1>1, <2>1, <2>2, <2>3 DEF BeginFree
<1>5. w \notin Users /\ Used' = Used /\ Used \subseteq Slot
  BY <1>4, UsedInSlot DEF Users, TypeInv, MutexOK, Used
<1>6. \A v \in Users : op[v].e \in Used' /\ entry'[op[v].e] = entry[op[v].e]
  BY <1>2, <1>4, <1>5 DEF SharingInv, Held, Holders
<1>7. Holders(e)' = {}
  BY <1>1, <1>2, <1>4 DEF Holders, Users
<1>8. Storing(w)'
  BY <1>1, <1>4, <1>7 DEF Storing
<1> QED
  BY <1>1, <1>4, <1>6, <1>8, OwnerStep

\* Steps of the holder that change nobody's entry.
LEMMA SameEntries ==
  ASSUME TypeInv, SharingInv, NEW w \in Workers, mutex = w,
         UNCHANGED <<cacheAccess, now, time, usedQueue>>,
         NEW p \in PCs \ {"reading", "copy", "ready"}, pc' = [pc EXCEPT ![w] = p],
         \A v \in Workers \ {w} : op'[v] = op[v],
         \A e \in Used : entry'[e] = entry[e],
         \A e \in Slot : entry'[e].ref = entry[e].ref,
         p \notin {"free_tree", "link_queue", "link_tree", "commit"},
         p = "free_queue" => pc[w] = "free_tree" /\ op' = op
  PROVE  SharingInv'
<1>1. /\ pc \in [Workers -> PCs] /\ pc' \in [Workers -> PCs] /\ pc'[w] = p
      /\ \A v \in Workers \ {w} : pc'[v] = pc[v]
      /\ w \notin Users /\ Used' = Used
  BY DEF TypeInv, TypeOK, ControlType, MutexOK, Users, Used
<1>2. \A v \in Users : op[v].e \in Used' /\ entry'[op[v].e] = entry[op[v].e]
  BY <1>1 DEF SharingInv, Held
<1>3. Storing(w)'
  <2>1. CASE p = "free_queue"
    <3>1. Holders(op[w].victim) = {} /\ Users' = Users /\ op' = op
      BY <1>1, <2>1 DEF SharingInv, Storing, Users
    <3>2. (Holders(op[w].victim) = {})'
      BY <3>1 DEF Holders
    <3> QED
      BY <1>1, <2>1, <3>2 DEF Storing
  <2>2. CASE p # "free_queue"
    BY <1>1, <2>2 DEF Storing
  <2> QED
    BY <2>1, <2>2
<1> QED
  BY <1>1, <1>2, <1>3, OwnerStep

\* The victim has no user when it leaves the used queue.
LEMMA FreeToQueueSharing ==
  ASSUME TypeInv, SharingInv, NEW w \in Workers, mutex = w, OwnerOK(w),
         FreeToQueue(w)
  PROVE  SharingInv'
<1>1. /\ usedQueue \in Seq(Slot) /\ usedQueue # <<>>
      /\ op[w].victim = Head(usedQueue) /\ pc \in [Workers -> PCs]
      /\ IsInjective(usedQueue) /\ pc[w] = "free_queue"
  BY DEF FreeToQueue, TypeInv, TypeOK, QueuesType, ControlType, PointersOK, LocalsOK,
         OwnerOK, QueuesOK
<1>2. /\ UNCHANGED <<cacheAccess, now, time, entry, op>>
      /\ usedQueue' = Tail(usedQueue)
      /\ pc' = [pc EXCEPT ![w] = "free_pointers"]
  BY DEF FreeToQueue
<1>3. Used' = Used \ {op[w].victim}
  BY <1>1, <1>2, RangeTail DEF Used
<1>4. Holders(op[w].victim) = {}
  BY <1>1 DEF SharingInv, Storing
<1>5. \A v \in Users : op[v].e \in Used' /\ entry'[op[v].e] = entry[op[v].e]
  BY <1>2, <1>3, <1>4 DEF SharingInv, Held, Holders
<1>6. Storing(w)'
  BY <1>1, <1>2 DEF Storing
<1> QED
  BY <1>1, <1>2, <1>5, <1>6, OwnerStep

\* The new entry comes from the free queue, so nobody uses it.
LEMMA InitEntrySharing ==
  ASSUME TypeInv, SharingInv, NEW w \in Workers, mutex = w, OwnerOK(w),
         InitEntry(w)
  PROVE  SharingInv'
<1> DEFINE n == op[w].e
<1>1. /\ pc \in [Workers -> PCs] /\ op \in [Workers -> OpType]
      /\ entry \in [Slot -> EntryType] /\ freeQueue \in Seq(Slot)
      /\ freeQueue # <<>> /\ n = Head(freeQueue) /\ pc[w] = "init"
  BY DEF InitEntry, TypeInv, TypeOK, ControlType, LocalType, EntriesType, QueuesType,
         PointersOK, LocalsOK, HasEntry
<1>2. n \in Slot /\ n \notin Used
  <2>1. n \in Free
    BY <1>1, RangeTail DEF OwnerOK, QueuesOK, Free
  <2> QED
    BY <2>1, UsedInSlot DEF OwnerOK, QueuesOK, Free, Used, TypeInv
<1>3. /\ UNCHANGED <<cacheAccess, now, time, usedQueue, op>>
      /\ pc' = [pc EXCEPT ![w] = "link_queue"]
      /\ \A e \in Slot \ {n} : entry'[e] = entry[e]
  BY <1>1 DEF InitEntry
<1>4. /\ entry'[n].state = "allocated" /\ entry'[n].ref = 1
      /\ entry'[n].key = op[w].key /\ entry'[n].start = op[w].buf
      /\ entry'[n].size = op[w].size
  BY <1>1, <1>2 DEF InitEntry, EntryType
<1>5. w \notin Users /\ Used' = Used /\ Used \subseteq Slot /\ Holders(n) = {}
  BY <1>1, <1>2, <1>3, UsedInSlot DEF Users, TypeInv, Used, SharingInv, Held, Holders
<1>6. \A v \in Users : op[v].e \in Used' /\ entry'[op[v].e] = entry[op[v].e]
  BY <1>2, <1>3, <1>5 DEF SharingInv, Held
<1>7. Holders(n)' = {}
  BY <1>1, <1>3, <1>5 DEF Holders, Users
<1>8. Storing(w)'
  BY <1>1, <1>3, <1>4, <1>7 DEF Storing
<1>9. \A e \in Slot : \/ entry'[e].ref = entry[e].ref
                      \/ Holders(e) = {} /\ entry'[e].ref >= 0
  BY <1>3, <1>4, <1>5
<1> QED
  BY <1>1, <1>3, <1>6, <1>8, <1>9, OwnerStep

LEMMA LinkSharing ==
  ASSUME TypeInv, SharingInv, NEW w \in Workers, mutex = w,
         LinkQueue(w) \/ LinkTree(w)
  PROVE  SharingInv'
<1> DEFINE n == op[w].e
<1>1. /\ pc \in [Workers -> PCs] /\ usedQueue \in Seq(Slot) /\ n \in Slot
      /\ pc[w] \in {"link_queue", "link_tree"}
  <2>1. LocalsOK(w) /\ freeQueue \in Seq(Slot)
    BY DEF TypeInv, PointersOK, TypeOK, QueuesType
  <2>2. CASE LinkQueue(w)
    BY <2>1, <2>2, HeadIn DEF LinkQueue, TypeInv, TypeOK, ControlType, QueuesType,
                              LocalsOK, HasEntry
  <2>3. CASE LinkTree(w)
    BY <2>1, <2>3 DEF LinkTree, TypeInv, TypeOK, ControlType, QueuesType, LocalsOK
  <2> QED
    BY <2>2, <2>3
<1>2. PICK p \in {"link_tree", "commit"} : pc' = [pc EXCEPT ![w] = p]
  BY DEF LinkQueue, LinkTree
<1>3. UNCHANGED <<cacheAccess, now, time, entry, op>>
  BY DEF LinkQueue, LinkTree
<1>4. Used' = Used \cup {n}
  <2> HIDE DEF n, Slot
  <2>1. CASE LinkQueue(w)
    <3>1. Range(Append(usedQueue, n)) = Range(usedQueue) \cup {n}
      BY <1>1, RangeAppend
    <3> QED
      BY <2>1, <3>1 DEF LinkQueue, Used, n
  <2>2. CASE LinkTree(w)
    BY <2>2 DEF LinkTree, Used, SharingInv, Storing, n
  <2> QED
    BY <2>1, <2>2
<1>5. \A v \in Users : op[v].e \in Used' /\ entry'[op[v].e] = entry[op[v].e]
  BY <1>3, <1>4 DEF SharingInv, Held
<1>6. Holders(n)' = {}
  BY <1>1, <1>2, <1>3 DEF SharingInv, Storing, Holders, Users
<1>7. Storing(w)'
  BY <1>1, <1>2, <1>3, <1>4, <1>6 DEF SharingInv, Storing
<1> QED
  BY <1>1, <1>2, <1>3, <1>5, <1>7, OwnerStep

\* The store ends: the worker is now the one user of the entry it linked.
LEMMA CommitSharing ==
  ASSUME TypeInv, SharingInv, NEW w \in Workers, mutex = w, Commit(w)
  PROVE  SharingInv'
<1> DEFINE n == op[w].e
<1>1. /\ pc \in [Workers -> PCs] /\ entry \in [Slot -> EntryType] /\ n \in Slot
      /\ pc[w] = "commit" /\ Used \subseteq Slot /\ None \notin Workers
      /\ \A v \in Workers \ {w} : pc[v] \notin LockedPCs
  BY UsedInSlot, ConstantsAssumption
     DEF Commit, TypeInv, TypeOK, ControlType, EntriesType, PointersOK, LocalsOK, MutexOK
<1>2. /\ UNCHANGED <<now, time, usedQueue, op>> /\ pc' = [pc EXCEPT ![w] = "copy"]
      /\ mutex' = None /\ cacheAccess' = time[w]
      /\ \A e \in Slot \ {n} : entry'[e] = entry[e]
  BY <1>1 DEF Commit
<1>3. /\ entry'[n].access = time[w]
      /\ entry'[n].key = entry[n].key /\ entry'[n].start = entry[n].start
      /\ entry'[n].size = entry[n].size /\ entry'[n].state = entry[n].state
      /\ entry'[n].ref = entry[n].ref
  BY <1>1 DEF Commit, EntryType
<1>4. /\ Holders(n) = {} /\ n \in Used
      /\ entry[n].key = op[w].key /\ entry[n].start = op[w].buf
      /\ entry[n].size = op[w].size /\ entry[n].state = "allocated"
      /\ entry[n].ref >= 1
  BY <1>1 DEF SharingInv, Storing
<1>5. w \notin Users /\ Users' = Users \cup {w} /\ Used' = Used
  BY <1>1, <1>2 DEF Users, Used
<1>6. /\ now \in Nat /\ MaxLag \in Nat /\ \A v \in Workers : time[v] \in Nat
      /\ now <= time[w] + MaxLag /\ \A v \in Workers : time[v] <= now
  BY <1>1, ConstantsAssumption DEF TypeInv, TypeOK, ControlType, SharingInv, TimesOK
<1>7. TimesOK'
  BY <1>1, <1>2 DEF SharingInv, TimesOK
<1>8. ASSUME NEW v \in Users' PROVE Held(v)'
  <2>1. CASE v = w
    BY <1>1, <1>2, <1>3, <1>4, <1>5, <1>6, <2>1 DEF Held
  <2>2. CASE v # w
    <3>1. v \in Users /\ Held(v) /\ pc'[v] = pc[v] /\ op'[v] = op[v] /\ v \in Workers
      BY <1>2, <1>5, <2>2 DEF SharingInv, Users
    <3>2. op[v].e # n
      BY <1>4, <3>1 DEF Holders
    <3>3. time[v] - MaxLag <= time[w]
      BY <1>6, <3>1
    <3> QED
      BY <1>1, <1>2, <1>5, <3>1, <3>2, <3>3 DEF Held
  <2> QED
    BY <2>1, <2>2
<1>9. WriterAlone'
  <2> SUFFICES ASSUME NEW u \in Users', NEW v \in Users', pc'[u] = "copy",
                      op'[v].e = op'[u].e
               PROVE  v = u
    BY DEF WriterAlone
  <2>1. \A x \in Users : op[x].e # n
    BY <1>4 DEF Holders
  <2>2. CASE u = w \/ v = w
    BY <1>2, <1>5, <2>1, <2>2
  <2>3. CASE u # w /\ v # w
    BY <1>2, <1>5, <2>3 DEF SharingInv, WriterAlone
  <2> QED
    BY <2>2, <2>3
<1>10. RefsOK'
  BY <1>1, <1>2, <1>3, <1>4, <1>5, UserJoins DEF SharingInv
<1>11. \A v \in Workers : Storing(v)'
  BY <1>1, <1>2 DEF Storing
<1> QED
  BY <1>7, <1>8, <1>9, <1>10, <1>11 DEF SharingInv

LEMMA StoreStepSharing ==
  ASSUME TypeInv, StructInv, SharingInv, 2 * MaxLag < EntryLockExp,
         NEW w \in Workers, StoreStep(w)
  PROVE  SharingInv'
<1>1. mutex = w /\ OwnerOK(w)
  <2>1. mutex = w
    BY DEF TypeInv, MutexOK, StoreStep, FreeFromTree, FreeToQueue, FreePointers,
           EvictExpired, StoreLookup, TakeFreeEntry, GrowEntries,
           EvictForEntry, NoEntry, TooBig, BeginAlloc, AllocBuffer, WrapWrite,
           EvictForBuffer, NoBuffer, InitEntry, LinkQueue, LinkTree, Commit
  <2> QED
    BY <2>1 DEF StructInv
<1>2. /\ pc \in [Workers -> PCs] /\ op \in [Workers -> OpType]
      /\ entry \in [Slot -> EntryType] /\ Used \subseteq Slot
  BY UsedInSlot DEF TypeInv, TypeOK, ControlType, LocalType, EntriesType
<1>3. CASE FreeFromTree(w)
  <2>1. UNCHANGED <<cacheAccess, now, time, usedQueue, entry, op>>
    BY <1>3 DEF FreeFromTree
  <2>2. pc[w] = "free_tree" /\ pc' = [pc EXCEPT ![w] = "free_queue"]
    BY <1>3 DEF FreeFromTree
  <2> QED
    BY <1>1, <2>1, <2>2, SameEntries
<1>4. CASE FreeToQueue(w)
  BY <1>1, <1>4, FreeToQueueSharing
<1>5. CASE FreePointers(w)
  <2>1. /\ UNCHANGED <<cacheAccess, now, time, usedQueue, entry>>
        /\ pc' = [pc EXCEPT ![w] = op[w].ret] /\ op[w].ret \in {"evict", "size", "buffer"}
    BY <1>5 DEF FreePointers, TypeInv, PointersOK, LocalsOK
  <2>2. \A v \in Workers \ {w} : op'[v] = op[v]
    BY <1>2, <1>5 DEF FreePointers
  <2> QED
    BY <1>1, <2>1, <2>2, SameEntries
<1>6. CASE EvictExpired(w) \/ EvictForEntry(w) \/ EvictForBuffer(w)
  <2>1. PICK x \in {0, Expiration}, r \in PCs, n \in {op[w].left, op[w].left - 1} :
          BeginFree(w, x, r, n) /\ (n = op[w].left \/ op[w].left > 0)
    BY <1>6 DEF EvictExpired, EvictForEntry, EvictForBuffer
  <2>2. n \in Nat
    BY <1>2, <2>1 DEF OpType
  <2> QED
    BY <1>1, <2>1, <2>2, BeginFreeSharing
<1>7. CASE StoreLookup(w)
  <2>1. PICK p \in {"idle", "entry"} :
          /\ UNCHANGED <<cacheAccess, now, time, usedQueue, entry>>
          /\ pc' = [pc EXCEPT ![w] = p]
          /\ \A v \in Workers \ {w} : op'[v] = op[v]
    BY <1>2, <1>7 DEF StoreLookup
  <2> QED
    BY <1>1, <2>1, SameEntries
<1>8. CASE NoEntry(w) \/ TooBig(w) \/ NoBuffer(w)
  <2>1. /\ UNCHANGED <<cacheAccess, now, time, usedQueue, entry>>
        /\ pc' = [pc EXCEPT ![w] = "idle"]
        /\ \A v \in Workers \ {w} : op'[v] = op[v]
    BY <1>2, <1>8 DEF NoEntry, TooBig, NoBuffer, StoreFail
  <2> QED
    BY <1>1, <2>1, SameEntries
<1>9. CASE TakeFreeEntry(w) \/ BeginAlloc(w) \/ AllocBuffer(w) \/ WrapWrite(w)
  <2>1. PICK p \in {"size", "buffer", "init"} :
          /\ UNCHANGED <<cacheAccess, now, time, usedQueue, entry>>
          /\ pc' = [pc EXCEPT ![w] = p]
          /\ \A v \in Workers \ {w} : op'[v] = op[v]
    <3>1. CASE TakeFreeEntry(w)
      BY <1>2, <3>1 DEF TakeFreeEntry
    <3>2. CASE BeginAlloc(w)
      BY <1>2, <3>2 DEF BeginAlloc
    <3>3. CASE AllocBuffer(w)
      BY <1>2, <3>3 DEF AllocBuffer
    <3>4. CASE WrapWrite(w)
      <4>1. pc' = [pc EXCEPT ![w] = "buffer"]
        BY <1>2, <3>4 DEF WrapWrite
      <4> QED
        BY <1>2, <3>4, <4>1 DEF WrapWrite
    <3> QED
      BY <1>9, <3>1, <3>2, <3>3, <3>4
  <2> QED
    BY <1>1, <2>1, SameEntries
<1>10. CASE GrowEntries(w)
  <2>1. /\ UNCHANGED <<cacheAccess, now, time, usedQueue>>
        /\ pc' = [pc EXCEPT ![w] = "size"]
        /\ \A v \in Workers \ {w} : op'[v] = op[v]
        /\ \A e \in Slot \ {entriesEnd} : entry'[e] = entry[e]
        /\ \A e \in Slot : entry'[e].ref = entry[e].ref
    BY <1>2, <1>10 DEF GrowEntries, EntryType
  <2>2. entriesEnd \notin Used
    BY <1>1 DEF OwnerOK, QueuesOK, Used, TypeInv, TypeOK, AreaType
  <2> QED
    BY <1>1, <1>2, <2>1, <2>2, SameEntries
<1>11. CASE InitEntry(w)
  BY <1>1, <1>11, InitEntrySharing
<1>12. CASE LinkQueue(w) \/ LinkTree(w)
  BY <1>1, <1>12, LinkSharing
<1>13. CASE Commit(w)
  BY <1>1, <1>13, CommitSharing
<1> QED
  BY <1>3, <1>4, <1>5, <1>6, <1>7, <1>8, <1>9, <1>10, <1>11, <1>12, <1>13
     DEF StoreStep

-----------------------------------------------------------------------------
(* The steps beside the mutex.                                             *)

\* The worker w is in no call after the step; it may have dropped its
\* reference.
LEMMA LeaveSharing ==
  ASSUME TypeInv, SharingInv, NEW w \in Workers,
         UNCHANGED <<cacheAccess, now, usedQueue>>,
         pc' = [pc EXCEPT ![w] = "idle"], time' \in [Workers -> Nat],
         time'[w] \in {time[w], now},
         \A v \in Workers \ {w} : op'[v] = op[v] /\ time'[v] = time[v],
         \A e \in Slot : \/ entry'[e] = entry[e]
                         \/ /\ w \in Users /\ e = op[w].e
                            /\ entry'[e] = [entry[e] EXCEPT !.ref = @ - 1]
  PROVE  SharingInv'
<1>1. /\ pc \in [Workers -> PCs] /\ entry \in [Slot -> EntryType]
      /\ now \in Nat /\ time \in [Workers -> Nat] /\ Used \subseteq Slot
  BY UsedInSlot DEF TypeInv, TypeOK, ControlType, EntriesType
<1>2. Users' = Users \ {w} /\ Used' = Used
  BY <1>1 DEF Users, Used
<1>3. \A v \in Users' : v \in Users /\ v # w /\ pc'[v] = pc[v] /\ op'[v] = op[v]
                        /\ time'[v] = time[v]
  BY <1>1, <1>2 DEF Users
<1>4. \A e \in Slot : /\ entry'[e].key = entry[e].key /\ entry'[e].state = entry[e].state
                      /\ entry'[e].start = entry[e].start /\ entry'[e].size = entry[e].size
                      /\ entry'[e].access = entry[e].access
  <2> TAKE e \in Slot
  <2>1. CASE entry'[e] = entry[e]
    BY <2>1
  <2>2. CASE entry'[e] = [entry[e] EXCEPT !.ref = @ - 1]
    <3>1. entry[e] \in EntryType
      BY <1>1
    <3> QED
      BY <2>2, <3>1 DEF EntryType
  <2> QED
    BY <2>1, <2>2
<1>5. TimesOK'
  BY <1>1 DEF SharingInv, TimesOK
<1>6. ASSUME NEW v \in Users' PROVE Held(v)'
  <2>1. Held(v) /\ op[v].e \in Slot
    BY <1>1, <1>3 DEF SharingInv, Held
  <2> QED
    BY <1>2, <1>3, <1>4, <2>1 DEF Held
<1>7. WriterAlone'
  BY <1>3 DEF SharingInv, WriterAlone
<1>8. RefsOK'
  <2>1. CASE w \in Users
    <3>1. \A e \in Slot : \/ entry'[e].ref = entry[e].ref
                          \/ e = op[w].e /\ entry'[e].ref = entry[e].ref - 1
      <4> TAKE e \in Slot
      <4>1. CASE entry'[e] = entry[e]
        BY <4>1
      <4>2. CASE e = op[w].e /\ entry'[e] = [entry[e] EXCEPT !.ref = @ - 1]
        <5>1. entry[e] \in EntryType
          BY <1>1
        <5> QED
          BY <4>2, <5>1 DEF EntryType
      <4> QED
        BY <4>1, <4>2
    <3> QED
      BY <1>2, <1>3, <2>1, <3>1, UserLeaves DEF SharingInv
  <2>2. CASE w \notin Users
    <3>1. Users' = Users /\ \A v \in Users : op'[v].e = op[v].e
      BY <1>2, <1>3, <2>2
    <3> QED
      BY <2>2, <3>1, SameUsers DEF SharingInv
  <2> QED
    BY <2>1, <2>2
<1>9. ASSUME NEW v \in Workers PROVE Storing(v)'
  <2>1. CASE v = w
    BY <1>1, <2>1 DEF Storing
  <2>2. CASE v # w
    <3>1. Storing(v) /\ pc'[v] = pc[v] /\ op'[v] = op[v] /\ LocalsOK(v)
      BY <1>1, <2>2 DEF SharingInv, TypeInv, PointersOK
    <3>2. \A e : Holders(e) = {} => Holders(e)' = {}
      BY <1>3 DEF Holders
    <3>3. ASSUME pc[v] \in {"link_queue", "link_tree", "commit"}
          PROVE  op[v].e \in Slot /\ entry'[op[v].e] = entry[op[v].e]
      <4>1. op[v].e \in Slot
        BY <3>1, <3>3, HeadIn DEF LocalsOK, HasEntry, TypeInv, TypeOK, QueuesType
      <4>2. Holders(op[v].e) = {}
        BY <3>1, <3>3 DEF Storing
      <4>3. w \in Users => op[v].e # op[w].e
        BY <4>2 DEF Holders
      <4> QED
        BY <4>1, <4>3
    <3>4. (Holders(op[v].victim) = {} => (Holders(op[v].victim) = {})')
          /\ (Holders(op[v].e) = {} => (Holders(op[v].e) = {})')
      BY <3>1, <3>2 DEF Holders
    <3> QED
      BY <1>2, <3>1, <3>3, <3>4 DEF Storing
  <2> QED
    BY <2>1, <2>2
<1> QED
  BY <1>5, <1>6, <1>7, <1>8, <1>9 DEF SharingInv

\* The entry that is released is the one that was fetched: no other linked
\* entry has its key.
LEMMA ReleaseSharing ==
  ASSUME TypeInv, StructInv, SharingInv, NEW w \in Workers, Release(w)
  PROVE  SharingInv'
<1>1. /\ pc \in [Workers -> PCs] /\ op \in [Workers -> OpType]
      /\ time \in [Workers -> Nat] /\ tree \subseteq Slot
  BY DEF TypeInv, TypeOK, ControlType, LocalType, QueuesType
<1>2. w \in Users
  BY DEF Release, Users
<1>3. ASSUME NEW e \in Lookup(op[w].key), ~reset PROVE e = op[w].e
  <2>1. KeysOK /\ tree = Used
    BY <1>3 DEF Release, StructInv, StructOK, Used
  <2>2. op[w].e \in Used /\ entry[op[w].e].key = op[w].key
    BY <1>2 DEF SharingInv, Held
  <2>3. e \in Used /\ entry[e].key = op[w].key
    BY <2>1 DEF Lookup
  <2> QED
    BY <2>1, <2>2, <2>3 DEF KeysOK, Used
<1>4. \A e \in Slot : \/ entry'[e] = entry[e]
                      \/ /\ w \in Users /\ e = op[w].e
                         /\ entry'[e] = [entry[e] EXCEPT !.ref = @ - 1]
  BY <1>2, <1>3 DEF Release
<1>5. /\ UNCHANGED <<cacheAccess, now, usedQueue, time>>
      /\ pc' = [pc EXCEPT ![w] = "idle"]
      /\ \A v \in Workers \ {w} : op'[v] = op[v]
  BY <1>1 DEF Release
<1> QED
  BY <1>1, <1>4, <1>5, LeaveSharing

LEMMA DropStoreRefSharing ==
  ASSUME TypeInv, SharingInv, NEW w \in Workers, DropStoreRef(w)
  PROVE  SharingInv'
<1>1. /\ op \in [Workers -> OpType] /\ entry \in [Slot -> EntryType]
      /\ time \in [Workers -> Nat] /\ op[w].e \in Slot /\ w \in Users
  BY DEF DropStoreRef, TypeInv, TypeOK, ControlType, LocalType, EntriesType, PointersOK,
         LocalsOK, Users
<1>2. \A e \in Slot : \/ entry'[e] = entry[e]
                      \/ /\ w \in Users /\ e = op[w].e
                         /\ entry'[e] = [entry[e] EXCEPT !.ref = @ - 1]
  BY <1>1 DEF DropStoreRef
<1>3. /\ UNCHANGED <<cacheAccess, now, usedQueue, time>>
      /\ pc' = [pc EXCEPT ![w] = "idle"]
      /\ \A v \in Workers \ {w} : op'[v] = op[v]
  BY <1>1 DEF DropStoreRef
<1> QED
  BY <1>1, <1>2, <1>3, LeaveSharing

\* The writer of a buffer makes it readable; nobody else uses the entry.
LEMMA FinishCopySharing ==
  ASSUME TypeInv, SharingInv, NEW w \in Workers, FinishCopy(w)
  PROVE  SharingInv'
<1> DEFINE n == op[w].e
<1>1. /\ pc \in [Workers -> PCs] /\ entry \in [Slot -> EntryType] /\ n \in Slot
      /\ pc[w] = "copy" /\ w \in Users /\ Used \subseteq Slot
  BY UsedInSlot DEF FinishCopy, TypeInv, TypeOK, ControlType, EntriesType, PointersOK,
                    LocalsOK, Users
<1>2. /\ UNCHANGED <<cacheAccess, now, usedQueue, time, op>>
      /\ pc' = [pc EXCEPT ![w] = "ready"]
      /\ \A e \in Slot \ {n} : entry'[e] = entry[e]
  BY <1>1 DEF FinishCopy
<1>3. /\ entry'[n].state = "ready" /\ entry'[n].ref = entry[n].ref
      /\ entry'[n].key = entry[n].key /\ entry'[n].start = entry[n].start
      /\ entry'[n].size = entry[n].size /\ entry'[n].access = entry[n].access
  BY <1>1 DEF FinishCopy, EntryType
<1>4. Users' = Users /\ Used' = Used
  BY <1>1, <1>2 DEF Users, Used
<1>5. \A v \in Users \ {w} : op[v].e # n /\ pc'[v] = pc[v]
  BY <1>1, <1>2 DEF SharingInv, WriterAlone, Users
<1>6. TimesOK'
  BY <1>1, <1>2 DEF SharingInv, TimesOK
<1>7. ASSUME NEW v \in Users' PROVE Held(v)'
  <2>1. Held(v) /\ op[v].e \in Slot
    BY <1>1, <1>4 DEF SharingInv, Held
  <2>2. CASE v = w
    BY <1>1, <1>2, <1>3, <1>4, <2>1, <2>2 DEF Held
  <2>3. CASE v # w
    BY <1>2, <1>4, <1>5, <2>1, <2>3 DEF Held
  <2> QED
    BY <2>2, <2>3
<1>8. WriterAlone'
  BY <1>1, <1>2, <1>4 DEF SharingInv, WriterAlone, Users
<1>9. RefsOK' /\ \A e : Holders(e)' = Holders(e)
  BY <1>2, <1>3, <1>4, SameUsers DEF SharingInv
<1>10. ASSUME NEW v \in Workers PROVE Storing(v)'
  <2>1. CASE v = w
    BY <1>1, <1>2, <2>1 DEF Storing
  <2>2. CASE v # w
    <3>1. Storing(v) /\ pc'[v] = pc[v] /\ LocalsOK(v)
      BY <1>1, <1>2, <2>2 DEF SharingInv, TypeInv, PointersOK
    <3>2. ASSUME pc[v] \in {"link_queue", "link_tree", "commit"}
          PROVE  op[v].e \in Slot /\ entry'[op[v].e] = entry[op[v].e]
      <4>1. op[v].e \in Slot
        BY <3>1, <3>2, HeadIn DEF LocalsOK, HasEntry, TypeInv, TypeOK, QueuesType
      <4>2. op[v].e # n
        BY <1>1, <3>1, <3>2 DEF Storing, Holders
      <4> QED
        BY <1>2, <4>1, <4>2
    <3>3. (Holders(op[v].victim) = Holders(op[v].victim))'
          /\ (Holders(op[v].victim))' = Holders(op[v].victim)
          /\ (Holders(op[v].e))' = Holders(op[v].e)
      BY <1>2, <1>4 DEF Holders
    <3> QED
      BY <1>2, <1>4, <3>1, <3>2, <3>3 DEF Storing
  <2> QED
    BY <2>1, <2>2
<1> QED
  BY <1>6, <1>7, <1>8, <1>9, <1>10 DEF SharingInv

\* A hit: the entry is whole and ready, so no worker is writing it.
LEMMA FetchSharing ==
  ASSUME TypeInv, StructInv, SharingInv, NEW w \in Workers, NEW k \in Keys,
         Fetch(w, k)
  PROVE  SharingInv'
<1>1. /\ pc \in [Workers -> PCs] /\ op \in [Workers -> OpType]
      /\ entry \in [Slot -> EntryType] /\ tree \subseteq Slot
      /\ pc[w] = "idle" /\ mutex = None /\ w \notin Users
      /\ \A v \in Workers : pc[v] \notin LockedPCs
  BY ConstantsAssumption
     DEF Fetch, TypeInv, TypeOK, ControlType, LocalType, EntriesType, QueuesType, MutexOK,
         Users
<1>2. PICK n \in Lookup(k) :
        /\ entry[n].state = "ready"
        /\ cacheAccess' = time[w]
        /\ entry' = [entry EXCEPT ![n] = Hold(n, time[w])]
        /\ op' = [op EXCEPT ![w] = [NoOp EXCEPT !.key = k, !.e = n,
                    !.buf = entry[n].start, !.size = entry[n].size,
                    !.token = entry[n].write]]
  BY DEF Fetch
<1>3. n \in Slot /\ n \in Used /\ entry[n].key = k
  BY <1>1 DEF Lookup, Fetch, StructInv, StructOK, Used
<1>4. /\ UNCHANGED <<now, usedQueue, time>> /\ pc' = [pc EXCEPT ![w] = "reading"]
      /\ \A v \in Workers \ {w} : op'[v] = op[v]
      /\ \A e \in Slot \ {n} : entry'[e] = entry[e]
  BY <1>1, <1>2 DEF Fetch
<1>5. /\ op'[w].e = n /\ op'[w].key = k /\ op'[w].buf = entry[n].start
      /\ op'[w].size = entry[n].size
  BY <1>1, <1>2 DEF NoOp
<1>6. /\ entry'[n].access = time[w] /\ entry'[n].ref = entry[n].ref + 1
      /\ entry'[n].key = entry[n].key /\ entry'[n].start = entry[n].start
      /\ entry'[n].size = entry[n].size /\ entry'[n].state = "ready"
  BY <1>1, <1>2, <1>3 DEF Hold, EntryType
<1>7. Users' = Users \cup {w} /\ Used' = Used /\ Used \subseteq Slot
  BY <1>1, <1>4, UsedInSlot DEF Users, Used, TypeInv
<1>8. \A v \in Users : /\ v # w /\ v \in Workers /\ pc'[v] = pc[v] /\ op'[v] = op[v]
                       /\ Held(v) /\ op[v].e \in Slot
  BY <1>1, <1>4, <1>7 DEF Users, SharingInv, Held
<1>9. /\ now \in Nat /\ MaxLag \in Nat /\ \A v \in Workers : time[v] \in Nat
      /\ now <= time[w] + MaxLag /\ \A v \in Workers : time[v] <= now
  BY ConstantsAssumption
     DEF Fetch, InIteration, TypeInv, TypeOK, ControlType, SharingInv, TimesOK
<1>10. TimesOK'
  BY <1>1, <1>4, <1>9 DEF SharingInv, TimesOK
<1>11. ASSUME NEW v \in Users' PROVE Held(v)'
  <2>1. CASE v = w
    <3>1. time'[w] - MaxLag <= time[w] /\ pc'[w] = "reading"
      BY <1>1, <1>4, <1>9
    <3> QED
      BY <1>2, <1>3, <1>5, <1>6, <1>7, <2>1, <3>1 DEF Held
  <2>2. CASE v # w
    <3>1. v \in Users /\ time'[v] = time[v]
      BY <1>4, <1>7, <2>2
    <3>2. time[v] - MaxLag <= time[w]
      BY <1>8, <1>9, <3>1
    <3>3. CASE op[v].e = n
      <4>1. entry'[op[v].e].access = time[w] /\ op'[v] = op[v] /\ pc'[v] = pc[v]
        BY <1>6, <1>8, <3>1, <3>3
      <4>2. Held(v) /\ entry[n].state = "ready"
        BY <1>2, <1>8, <3>1
      <4>3. /\ op'[v].e \in Used' /\ entry'[op'[v].e].key = op'[v].key
            /\ entry'[op'[v].e].start = op'[v].buf
            /\ entry'[op'[v].e].size = op'[v].size
        BY <1>6, <1>7, <3>3, <4>1, <4>2 DEF Held
      <4>4. pc'[v] # "copy" /\ entry'[op'[v].e].state = "ready"
        BY <1>6, <3>3, <4>1, <4>2 DEF Held
      <4>5. time'[v] - MaxLag <= entry'[op'[v].e].access /\ time'[v] - MaxLag <= cacheAccess'
        BY <1>2, <3>1, <3>2, <4>1
      <4> QED
        BY <4>3, <4>4, <4>5 DEF Held
    <3>4. CASE op[v].e # n
      BY <1>2, <1>4, <1>7, <1>8, <3>1, <3>2, <3>4 DEF Held
    <3> QED
      BY <3>3, <3>4
  <2> QED
    BY <2>1, <2>2
<1>12. WriterAlone'
  <2> SUFFICES ASSUME NEW u \in Users', NEW v \in Users', pc'[u] = "copy",
                      op'[v].e = op'[u].e
               PROVE  v = u
    BY DEF WriterAlone
  <2>1. u \in Users /\ pc[u] = "copy"
    BY <1>1, <1>4, <1>7, <1>8
  <2>2. op[u].e # n
    BY <1>2, <1>8, <2>1 DEF Held
  <2> QED
    BY <1>5, <1>7, <1>8, <2>1, <2>2 DEF SharingInv, WriterAlone
<1>13. RefsOK'
  BY <1>1, <1>3, <1>4, <1>5, <1>6, <1>7, <1>8, UserJoins DEF SharingInv
<1>14. \A v \in Workers : Storing(v)'
  BY <1>1, <1>4 DEF Storing
<1> QED
  BY <1>10, <1>11, <1>12, <1>13, <1>14 DEF SharingInv

\* The flag reset is set and nobody has used the cache for CACHE_LOCK_EXPIRATION
\* seconds of the caller's time: nobody is using it now.
LEMMA NobodyAtReset ==
  ASSUME TypeInv, SharingInv, 2 * MaxLag < CacheLockExp,
         NEW w \in Workers, ResetAllowed(w)
  PROVE  Users = {}
<1> SUFFICES ASSUME NEW v \in Users PROVE FALSE
  OBVIOUS
<1>1. v \in Workers /\ pc[v] # "idle" /\ time[v] - MaxLag <= cacheAccess
  BY DEF SharingInv, Held, Users
<1>2. time[w] <= now /\ now <= time[v] + MaxLag
  BY <1>1 DEF SharingInv, TimesOK
<1>3. /\ time[w] \in Nat /\ time[v] \in Nat /\ now \in Nat /\ cacheAccess \in Nat
      /\ MaxLag \in Nat /\ CacheLockExp \in Nat
  BY <1>1, ConstantsAssumption DEF TypeInv, TypeOK, ControlType
<1> QED
  BY <1>1, <1>2, <1>3 DEF ResetAllowed

\* A store takes the mutex; if it resets the structures, nobody uses them.
LEMMA StoreBeginsSharing ==
  ASSUME TypeInv, SharingInv, 2 * MaxLag < CacheLockExp,
         NEW w \in Workers, NEW k \in Keys, NEW z \in Sizes,
         StoreReset(w, k, z) \/ StoreLock(w, k, z)
  PROVE  SharingInv'
<1>1. /\ pc \in [Workers -> PCs] /\ op \in [Workers -> OpType]
      /\ pc[w] = "idle" /\ w \notin Users /\ InIteration(w)
      /\ UNCHANGED <<cacheAccess, now, time, entry>>
      /\ \A v \in Workers : pc[v] \notin LockedPCs
  BY ConstantsAssumption
     DEF StoreReset, StoreLock, TypeInv, TypeOK, ControlType, LocalType, MutexOK, Users
<1>2. PICK p \in {"entry", "evict"} : pc' = [pc EXCEPT ![w] = p]
  BY DEF StoreReset, StoreLock
<1>3. Users' = Users /\ \A v \in Users : v # w /\ v \in Workers
  BY <1>1, <1>2 DEF Users
<1>4. \A v \in Workers \ {w} : pc'[v] = pc[v] /\ op'[v] = op[v]
  BY <1>1, <1>2 DEF StoreReset, StoreLock
<1>5. Users = {} \/ Used' = Used
  <2>1. CASE StoreReset(w, k, z)
    BY <2>1, NobodyAtReset DEF StoreReset
  <2>2. CASE StoreLock(w, k, z)
    BY <2>2 DEF StoreLock, Used
  <2> QED
    BY <2>1, <2>2
<1>6. TimesOK'
  <2>1. now <= time[w] + MaxLag
    BY <1>1, ConstantsAssumption DEF InIteration, TypeInv, TypeOK, ControlType
  <2> QED
    BY <1>1, <1>4, <2>1 DEF SharingInv, TimesOK
<1>7. \A v \in Users' : Held(v)'
  BY <1>1, <1>3, <1>4, <1>5 DEF SharingInv, Held
<1>8. WriterAlone'
  BY <1>3, <1>4 DEF SharingInv, WriterAlone
<1>9. RefsOK'
  BY <1>1, <1>3, <1>4, SameUsers DEF SharingInv
<1>10. \A v \in Workers : Storing(v)'
  BY <1>1, <1>2 DEF Storing
<1> QED
  BY <1>6, <1>7, <1>8, <1>9, <1>10 DEF SharingInv

LEMMA UnlockedStepSharing ==
  ASSUME TypeInv, StructInv, SharingInv, 2 * MaxLag < CacheLockExp,
         NEW w \in Workers, UnlockedStep(w)
  PROVE  SharingInv'
<1>1. /\ pc \in [Workers -> PCs] /\ op \in [Workers -> OpType] /\ now \in Nat
      /\ time \in [Workers -> Nat]
  BY DEF TypeInv, TypeOK, ControlType, LocalType
<1>2. CASE UpdateTime(w)
  <2>1. pc' = [pc EXCEPT ![w] = "idle"] /\ UNCHANGED <<shared, op, now>>
    BY <1>1, <1>2 DEF UpdateTime
  <2>2. time' = [time EXCEPT ![w] = now]
    BY <1>2 DEF UpdateTime
  <2> QED
    BY <1>1, <2>1, <2>2, LeaveSharing
<1>3. CASE Kill(w)
  <2>1. pc' = [pc EXCEPT ![w] = "idle"] /\ UNCHANGED <<shared, now>>
        /\ \A v \in Workers \ {w} : op'[v] = op[v]
    BY <1>1, <1>3 DEF Kill
  <2>2. time' = [time EXCEPT ![w] = now]
    BY <1>3 DEF Kill
  <2> QED
    BY <1>1, <2>1, <2>2, LeaveSharing
<1>4. CASE Abandon(w)
  <2>1. pc' = [pc EXCEPT ![w] = "idle"] /\ UNCHANGED <<shared, now, time>>
        /\ \A v \in Workers \ {w} : op'[v] = op[v]
    BY <1>1, <1>4 DEF Abandon
  <2> QED
    BY <1>1, <2>1, LeaveSharing
<1>5. CASE \E k \in Keys : Fetch(w, k)
  BY <1>5, FetchSharing
<1>6. CASE Release(w)
  BY <1>6, ReleaseSharing
<1>7. CASE \E k \in Keys, z \in Sizes : StoreReset(w, k, z) \/ StoreLock(w, k, z)
  BY <1>7, StoreBeginsSharing
<1>8. CASE FinishCopy(w)
  BY <1>8, FinishCopySharing
<1>9. CASE DropStoreRef(w)
  BY <1>9, DropStoreRefSharing
<1> QED
  BY <1>2, <1>3, <1>4, <1>5, <1>6, <1>7, <1>8, <1>9 DEF UnlockedStep

LEMMA SharingInvariant ==
  ASSUME Expiration = 0 \/ MaxKills = 0,
         2 * MaxLag < EntryLockExp, 2 * MaxLag < CacheLockExp
  PROVE  Spec => []SharingInv
<1>1. Init => SharingInv
  <2> SUFFICES ASSUME Init PROVE SharingInv
    OBVIOUS
  <2>1. Users = {} /\ \A e : Holders(e) = {}
    BY DEF Init, Users, Holders
  <2>2. \A e \in Slot : entry[e].ref = 0 /\ Cardinality(Holders(e)) = 0
    BY <2>1, HoldersFinite DEF Init, BlankEntry
  <2>3. RefsOK
    BY <2>2 DEF RefsOK
  <2> QED
    BY <2>1, <2>3, ConstantsAssumption
       DEF Init, SharingInv, TimesOK, WriterAlone, Storing
<1>2. TypeInv /\ StructInv /\ SharingInv /\ [Next]_vars => SharingInv'
  <2> SUFFICES ASSUME TypeInv, StructInv, SharingInv, [Next]_vars PROVE SharingInv'
    OBVIOUS
  <2>1. CASE Tick
    <3>1. /\ UNCHANGED <<shared, mutex, time, pc, op>> /\ now' = now + 1
          /\ \A w \in Workers : pc[w] # "idle" => now - time[w] < MaxLag
      BY <2>1 DEF Tick
    <3>2. now \in Nat /\ MaxLag \in Nat /\ \A w \in Workers : time[w] \in Nat
      BY ConstantsAssumption DEF TypeInv, TypeOK, ControlType
    <3>3. TimesOK'
      BY <3>1, <3>2 DEF SharingInv, TimesOK
    <3>4. Users' = Users /\ Used' = Used /\ \A e : Holders(e)' = Holders(e)
      BY <3>1 DEF Users, Used, Holders
    <3> QED
      BY <3>1, <3>3, <3>4 DEF SharingInv, Held, WriterAlone, RefsOK, Storing, Holders
  <2>2. CASE UNCHANGED vars
    BY <2>2 DEF vars, SharingInv, TimesOK, Held, WriterAlone, RefsOK, Storing, Holders,
                Users, Used
  <2>3. CASE \E w \in Workers : StoreStep(w) \/ UnlockedStep(w)
    BY <2>3, StoreStepSharing, UnlockedStepSharing
  <2> QED
    BY <2>1, <2>2, <2>3 DEF Next
<1> QED
  BY TypeInvariant, StructInvariant, <1>1, <1>2, PTL DEF Spec

-----------------------------------------------------------------------------
(* The theorems.  Their hypotheses on the times are tight: with an          *)
(* iteration of half a lock time, the reader's clock and the evictor's may *)
(* differ by the whole of it.                                              *)

\* The reference count of an entry is never below the number of workers that
\* use it, so the decrements at the end of a store and in a release never wrap
\* it around: ngx_buffer_cache_release drops the reference of the very entry
\* that was fetched.
THEOREM ReferencesCovered ==
  ASSUME Expiration = 0 \/ MaxKills = 0,
         2 * MaxLag < EntryLockExp, 2 * MaxLag < CacheLockExp
  PROVE  Spec => []RefCoversHolders
<1>1. SharingInv => RefCoversHolders
  BY DEF SharingInv, RefsOK, Holders, RefCoversHolders
<1> QED
  BY SharingInvariant, <1>1, PTL

\* An entry that a worker uses without the mutex is neither freed, nor stored
\* anew, nor reset: key, buffer and state stay as the worker took them.
THEOREM HeldEntriesStable ==
  ASSUME Expiration = 0 \/ MaxKills = 0,
         2 * MaxLag < EntryLockExp, 2 * MaxLag < CacheLockExp
  PROVE  Spec => []HeldEntryStable
<1>1. SharingInv => HeldEntryStable
  BY DEF SharingInv, Held, HeldEntryStable
<1> QED
  BY SharingInvariant, <1>1, PTL

\* No worker reads or writes a byte that another one is writing, although the
\* copy in store_gather and the readers run without the mutex.
THEOREM DataRaceFree ==
  ASSUME Expiration = 0 \/ MaxKills = 0,
         2 * MaxLag < EntryLockExp, 2 * MaxLag < CacheLockExp
  PROVE  Spec => []NoDataRace
<1>1. TypeInv /\ LayoutInv /\ SharingInv => NoDataRace
  <2> SUFFICES ASSUME TypeInv, LayoutInv, SharingInv,
                      NEW w \in Users, NEW v \in Users, w # v, pc[w] = "copy"
               PROVE  BytesOf(w) \cap BytesOf(v) = {}
    BY DEF NoDataRace
  <2> DEFINE e == op[w].e
             f == op[v].e
  <2>1. /\ e \in Used /\ entry[e].start = op[w].buf /\ entry[e].size = op[w].size
        /\ f \in Used /\ entry[f].start = op[v].buf /\ entry[f].size = op[v].size
    BY DEF SharingInv, Held
  <2>2. e # f
    BY DEF SharingInv, WriterAlone
  <2>3. e \in Slot /\ f \in Slot
    BY <2>1, UsedInSlot DEF TypeInv
  <2>4. End(e) < entry[f].start \/ End(f) < entry[e].start
    BY <2>1, <2>2 DEF LayoutInv, Disjoint
  <2>5. BytesOf(w) \subseteq entry[e].start .. End(e)
    BY <2>1, <2>3, Numbers DEF BytesOf, Bytes, End
  <2>6. BytesOf(v) \subseteq entry[f].start .. End(f)
    BY <2>1, <2>3, Numbers DEF BytesOf, Bytes, End
  <2> HIDE DEF e, f
  <2> QED
    BY <2>3, <2>4, <2>5, <2>6, Numbers
<1> QED
  BY TypeInvariant, LayoutInvariant, SharingInvariant, <1>1, PTL

=============================================================================
