-------------------------- MODULE BufferCacheProofs -------------------------
(* Theorems about the shared buffer cache, for every number of workers,    *)
(* every area and every alignment.                                         *)
EXTENDS BufferCache, TLAPS

USE DEF Slot, PCs, LockedPCs, FreeingPCs, EntryStates, flags, queues, area, env, shared,
        Goto

LEMMA HeadIn ==
  ASSUME NEW S, NEW q \in Seq(S), q # <<>>
  PROVE  Head(q) \in S /\ Tail(q) \in Seq(S)
OBVIOUS

LEMMA AppendHead ==
  ASSUME NEW S, NEW q \in Seq(S), NEW e \in S
  PROVE  /\ q = <<>> => Append(q, e) = <<e>>
         /\ q # <<>> => Append(q, e) # <<>> /\ Head(Append(q, e)) = Head(q)
<1>1. CASE q = <<>>
  BY <1>1
<1>2. CASE q # <<>>
  <2>1. Len(q) >= 1
    BY <1>2
  <2>2. Append(q, e)[1] = q[1] /\ Append(q, e) # <<>>
    BY <2>1
  <2> QED
    BY <1>2, <2>1, <2>2
<1> QED
  BY <1>1, <1>2

LEMMA Growth ==
  ASSUME NEW n \in Nat, NEW s \in Nat \ {0}
  PROVE  (n + 1) * s \in Nat /\ n + 1 <= (n + 1) * s
OBVIOUS

LEMMA NoOpType == NoOp \in OpType
BY ConstantsAssumption DEF NoOp, OpType

-----------------------------------------------------------------------------
(* Types.  That the entry a store links and the one it frees are entries    *)
(* at all rests on who holds the mutex and on where those entries are in   *)
(* the queues, so the three are proved together.                           *)

MutexOK == \A w \in Workers : mutex = w <=> pc[w] \in LockedPCs

\* The locals of the worker w inside ngx_buffer_cache_store_gather.
LocalsOK(w) ==
  /\ HasEntry(w) => freeQueue # <<>> /\ Head(freeQueue) = op[w].e
  /\ pc[w] \in {"link_tree", "commit", "copy", "ready"} => op[w].e \in Slot
  /\ pc[w] \in FreeingPCs => op[w].ret \in {"evict", "size", "buffer"}
  /\ pc[w] \in {"free_tree", "free_queue"} =>
       /\ usedQueue # <<>> /\ Head(usedQueue) = op[w].victim
       /\ op[w].ret = "size" => freeQueue = <<>>
  /\ pc[w] = "free_pointers" =>
       /\ op[w].victim \in Slot
       /\ op[w].ret = "size" => freeQueue = <<op[w].victim>>
PointersOK == \A w \in Workers : LocalsOK(w)

TypeInv == TypeOK /\ MutexOK /\ PointersOK

LEMMA InitType == Init => TypeOK
<1> SUFFICES ASSUME Init PROVE TypeOK
  OBVIOUS
<1>1. BlankEntry \in EntryType
  BY ConstantsAssumption DEF BlankEntry, EntryType
<1>2. QueuesType
  BY DEF Init, QueuesType
<1>3. AreaType
  BY ConstantsAssumption DEF Init, AreaType
<1>4. EntriesType
  BY <1>1 DEF Init, EntriesType
<1>5. ControlType
  BY DEF Init, ControlType
<1>6. LocalType
  BY NoOpType DEF Init, LocalType
<1> QED
  BY <1>2, <1>3, <1>4, <1>5, <1>6 DEF TypeOK

LEMMA EntryUpdate ==
  ASSUME EntriesType, NEW e \in Slot, NEW r \in EntryType,
         entry' = [entry EXCEPT ![e] = r]
  PROVE  EntriesType'
BY DEF EntriesType

LEMMA DropRefType ==
  ASSUME EntriesType, NEW e \in Slot, entry' = [entry EXCEPT ![e].ref = @ - 1]
  PROVE  EntriesType'
BY DEF EntriesType, EntryType

LEMMA OpUpdate ==
  ASSUME LocalType, NEW w \in Workers, NEW r \in OpType,
         op' = [op EXCEPT ![w] = r]
  PROVE  LocalType'
BY DEF LocalType

LEMMA SetEntryType ==
  ASSUME LocalType, NEW w \in Workers, NEW e \in Slot,
         op' = [op EXCEPT ![w].e = e]
  PROVE  LocalType'
BY DEF LocalType, OpType

LEMMA InitEntryType ==
  ASSUME NEW r \in EntryType, NEW k \in Keys \cup {None}, NEW b \in Int,
         NEW z \in Nat, NEW s \in EntryStates, NEW n \in Int
  PROVE  [r EXCEPT !.state = s, !.ref = n, !.key = k, !.start = b,
                   !.size = z] \in EntryType
BY DEF EntryType

LEMMA HoldType ==
  ASSUME NEW e, entry[e] \in EntryType, NEW t \in Nat
  PROVE  Hold(e, t) \in EntryType
<1>1. entry[e].ref + 1 \in Int
  BY DEF EntryType
<1> QED
  BY <1>1 DEF Hold, EntryType

LEMMA BeginFreeType ==
  ASSUME TypeOK, NEW w \in Workers, NEW x, NEW r \in PCs, NEW n \in Nat,
         BeginFree(w, x, r, n)
  PROVE  TypeOK'
<1> USE DEF TypeOK
<1>1. Head(usedQueue) \in Slot
  BY HeadIn DEF BeginFree, CanFreeOldest, QueuesType
<1>2. EntriesType'
  BY <1>1 DEF BeginFree, EntriesType, EntryType
<1>3. LocalType'
  <2>1. [op[w] EXCEPT !.victim = Head(usedQueue), !.ret = r, !.left = n]
          \in OpType
    BY <1>1 DEF LocalType, OpType
  <2>2. op' = [op EXCEPT ![w] =
          [op[w] EXCEPT !.victim = Head(usedQueue), !.ret = r, !.left = n]]
    BY DEF BeginFree, LocalType
  <2> QED
    BY <2>1, <2>2, OpUpdate
<1>4. ControlType'
  BY DEF BeginFree, ControlType
<1> QED
  BY <1>2, <1>3, <1>4 DEF BeginFree, QueuesType, AreaType

LEMMA StoreFailType ==
  ASSUME TypeOK, NEW w \in Workers, StoreFail(w)
  PROVE  TypeOK'
<1> USE DEF TypeOK
<1>1. ControlType'
  BY DEF StoreFail, ControlType
<1>2. LocalType'
  BY NoOpType DEF StoreFail, LocalType
<1> QED
  BY <1>1, <1>2 DEF StoreFail, QueuesType, AreaType, EntriesType

LEMMA StoreStepType ==
  ASSUME TypeOK, PointersOK, NEW w \in Workers, StoreStep(w)
  PROVE  TypeOK'
<1> USE DEF TypeOK
<1>1. CASE FreeFromTree(w)
  <2>10. QueuesType'
    BY <1>1
       DEF FreeFromTree, QueuesType
  <2>11. ControlType'
    BY <1>1
       DEF FreeFromTree, ControlType
  <2> QED
    BY <1>1, <2>10, <2>11
       DEF FreeFromTree, AreaType, EntriesType, LocalType
<1>2. CASE FreeToQueue(w)
  <2>1. op[w].victim \in Slot /\ Tail(usedQueue) \in Seq(Slot)
    BY <1>2, HeadIn DEF FreeToQueue, QueuesType, PointersOK, LocalsOK
  <2>10. QueuesType'
    BY <1>2, <2>1
       DEF FreeToQueue, QueuesType
  <2>11. ControlType'
    BY <1>2
       DEF FreeToQueue, ControlType
  <2> QED
    BY <1>2, <2>10, <2>11
       DEF FreeToQueue, AreaType, EntriesType, LocalType
<1>3. CASE FreePointers(w)
  <2>1. entry[op[w].victim].start \in Int
    BY <1>3 DEF FreePointers, EntriesType, EntryType, PointersOK, LocalsOK
  <2>10. AreaType'
    BY <1>3, <2>1, ConstantsAssumption
       DEF FreePointers, AreaType
  <2>11. LocalType'
    BY <1>3, SetEntryType
       DEF FreePointers, PointersOK, LocalsOK, LocalType
  <2>12. ControlType'
    BY <1>3
       DEF FreePointers, LocalType, OpType, ControlType
  <2> QED
    BY <1>3, <2>10, <2>11, <2>12
       DEF FreePointers, QueuesType, EntriesType
<1>4. CASE EvictExpired(w)
  <2>1. op[w].left - 1 \in Nat
    BY <1>4 DEF EvictExpired, LocalType, OpType
  <2> QED
    BY <1>4, <2>1, BeginFreeType DEF EvictExpired
<1>5. CASE StoreLookup(w)
  <2>10. ControlType'
    BY <1>5
       DEF StoreLookup, BeginChanges, ControlType
  <2>11. LocalType'
    BY <1>5, NoOpType
       DEF StoreLookup, LocalType
  <2> QED
    BY <1>5, <2>10, <2>11
       DEF StoreLookup, QueuesType, AreaType, EntriesType
<1>6. CASE TakeFreeEntry(w)
  <2>1. Head(freeQueue) \in Slot
    BY <1>6, HeadIn DEF TakeFreeEntry, QueuesType
  <2>10. LocalType'
    BY <1>6, <2>1, SetEntryType
       DEF TakeFreeEntry
  <2>11. ControlType'
    BY <1>6
       DEF TakeFreeEntry, ControlType
  <2> QED
    BY <1>6, <2>10, <2>11
       DEF TakeFreeEntry, QueuesType, AreaType, EntriesType
<1>7. CASE GrowEntries(w)
  <2>0. entriesEnd + 1 <= (entriesEnd + 1) * EntrySize
    BY ConstantsAssumption, Growth DEF AreaType
  <2>1. entriesEnd \in Slot
    <3>1. (entriesEnd + 1) * EntrySize < buffersStart
      BY <1>7 DEF GrowEntries, CanGrowEntries
    <3> QED
      BY <2>0, <3>1, Growth, ConstantsAssumption DEF AreaType
  <2>10. QueuesType'
    BY <1>7, <2>1
       DEF GrowEntries, QueuesType
  <2>11. AreaType'
    BY <1>7, ConstantsAssumption
       DEF GrowEntries, AreaType
  <2>12. EntriesType'
    BY <1>7, <2>1
       DEF GrowEntries, EntryType, EntriesType
  <2>13. LocalType'
    BY <1>7, <2>1, SetEntryType
       DEF GrowEntries
  <2>14. ControlType'
    BY <1>7
       DEF GrowEntries, ControlType
  <2> QED
    BY <1>7, <2>10, <2>11, <2>12, <2>13, <2>14
       DEF GrowEntries
<1>8. CASE EvictForEntry(w)
  BY <1>8, BeginFreeType DEF EvictForEntry, LocalType, OpType
<1>9. CASE NoEntry(w)
  BY <1>9, StoreFailType DEF NoEntry
<1>10. CASE TooBig(w)
  BY <1>10, StoreFailType DEF TooBig
<1>11. CASE BeginAlloc(w)
  <2>1. AlignDown(buffersWrite - (op[w].size + 1)) \in Int
    BY ConstantsAssumption DEF AlignDown, AreaType, LocalType, OpType
  <2>10. LocalType'
    BY <1>11, <2>1
       DEF BeginAlloc, OpType, LocalType
  <2>11. ControlType'
    BY <1>11
       DEF BeginAlloc, ControlType
  <2> QED
    BY <1>11, <2>10, <2>11
       DEF BeginAlloc, QueuesType, AreaType, EntriesType
<1>12. CASE AllocBuffer(w)
  <2>10. AreaType'
    BY <1>12, ConstantsAssumption
       DEF AllocBuffer, LocalType, OpType, AreaType
  <2>11. ControlType'
    BY <1>12
       DEF AllocBuffer, ControlType
  <2> QED
    BY <1>12, <2>10, <2>11
       DEF AllocBuffer, QueuesType, EntriesType, LocalType
<1>13. CASE WrapWrite(w)
  <2>1. AlignDown(BuffersEnd - (op[w].size + 1)) \in Int
    BY ConstantsAssumption DEF AlignDown, LocalType, OpType
  <2>10. AreaType'
    BY <1>13, ConstantsAssumption
       DEF WrapWrite, AreaType
  <2>11. LocalType'
    BY <1>13, <2>1
       DEF WrapWrite, OpType, LocalType
  <2>12. ControlType'
    BY <1>13
       DEF WrapWrite, ControlType
  <2> QED
    BY <1>13, <2>10, <2>11, <2>12
       DEF WrapWrite, QueuesType, EntriesType
<1>14. CASE EvictForBuffer(w)
  BY <1>14, BeginFreeType DEF EvictForBuffer, LocalType, OpType
<1>15. CASE NoBuffer(w)
  BY <1>15, StoreFailType DEF NoBuffer
<1>16. CASE InitEntry(w)
  <2>1. op[w].e \in Slot
    BY <1>16, HeadIn DEF InitEntry, QueuesType, PointersOK, LocalsOK, HasEntry
  <2>2. /\ op[w].key \in Keys \cup {None}
        /\ op[w].buf \in Int /\ op[w].size \in Nat
    BY DEF LocalType, OpType
  <2>3. [entry[op[w].e] EXCEPT !.state = "allocated", !.ref = 1,
            !.key = op[w].key, !.start = op[w].buf, !.size = op[w].size]
          \in EntryType
    <3>1. entry[op[w].e] \in EntryType
      BY <2>1 DEF EntriesType
    <3>2. "allocated" \in EntryStates /\ 1 \in Int
      OBVIOUS
    <3> HIDE DEF EntryStates
    <3> QED
      BY <2>2, <3>1, <3>2, InitEntryType
  <2>10. EntriesType'
    BY <1>16, <2>1, <2>3, EntryUpdate
       DEF InitEntry
  <2>11. AreaType'
    BY <1>16
       DEF InitEntry, LocalType, OpType, AreaType
  <2>12. ControlType'
    BY <1>16
       DEF InitEntry, ControlType
  <2> QED
    BY <1>16, <2>10, <2>11, <2>12
       DEF InitEntry, QueuesType, LocalType
<1>17. CASE LinkQueue(w)
  <2>1. op[w].e \in Slot /\ Tail(freeQueue) \in Seq(Slot)
    BY <1>17, HeadIn DEF LinkQueue, QueuesType, PointersOK, LocalsOK, HasEntry
  <2>10. QueuesType'
    BY <1>17, <2>1
       DEF LinkQueue, QueuesType
  <2>11. ControlType'
    BY <1>17
       DEF LinkQueue, ControlType
  <2> QED
    BY <1>17, <2>10, <2>11
       DEF LinkQueue, AreaType, EntriesType, LocalType
<1>18. CASE LinkTree(w)
  <2>10. QueuesType'
    BY <1>18
       DEF LinkTree, QueuesType, PointersOK, LocalsOK
  <2>11. ControlType'
    BY <1>18
       DEF LinkTree, ControlType
  <2> QED
    BY <1>18, <2>10, <2>11
       DEF LinkTree, AreaType, EntriesType, LocalType
<1>19. CASE Commit(w)
  <2>1. op[w].e \in Slot /\ time[w] \in Nat
    BY <1>19 DEF Commit, ControlType, PointersOK, LocalsOK
  <2>2. [entry[op[w].e] EXCEPT !.access = time[w], !.write = time[w]]
          \in EntryType
    BY <2>1 DEF EntriesType, EntryType
  <2>3. entry' = [entry EXCEPT ![op[w].e] =
          [entry[op[w].e] EXCEPT !.access = time[w], !.write = time[w]]]
    BY <1>19, <2>1 DEF Commit, EntriesType
  <2>10. EntriesType'
    BY <2>1, <2>2, <2>3, EntryUpdate
  <2>11. ControlType'
    BY <1>19
       DEF Commit, ControlType
  <2> QED
    BY <1>19, <2>10, <2>11
       DEF Commit, QueuesType, AreaType, LocalType
<1> QED
  BY <1>1, <1>2, <1>3, <1>4, <1>5, <1>6, <1>7, <1>8, <1>9, <1>10, <1>11,
     <1>12, <1>13, <1>14, <1>15, <1>16, <1>17, <1>18, <1>19 DEF StoreStep

LEMMA UnlockedStepType ==
  ASSUME TypeOK, PointersOK, NEW w \in Workers, UnlockedStep(w)
  PROVE  TypeOK'
<1> USE DEF TypeOK
<1>1. CASE UpdateTime(w)
  <2>10. ControlType'
    BY <1>1
       DEF UpdateTime, ControlType
  <2> QED
    BY <1>1, <2>10
       DEF UpdateTime, QueuesType, AreaType, EntriesType, LocalType
<1>2. CASE Kill(w)
  <2>10. LocalType'
    BY <1>2, NoOpType
       DEF Kill, LocalType
  <2>11. ControlType'
    BY <1>2
       DEF Kill, ControlType
  <2> QED
    BY <1>2, <2>10, <2>11
       DEF Kill, QueuesType, AreaType, EntriesType
<1>3. ASSUME NEW k \in Keys, Fetch(w, k) PROVE TypeOK'
  <2>1. PICK e \in Lookup(k) :
          /\ entry' = [entry EXCEPT ![e] = Hold(e, time[w])]
          /\ op' = [op EXCEPT ![w] = [NoOp EXCEPT !.key = k, !.e = e,
                      !.buf = entry[e].start, !.size = entry[e].size,
                      !.token = entry[e].write]]
    BY <1>3 DEF Fetch
  <2>2. e \in Slot /\ entry[e] \in EntryType /\ time[w] \in Nat
    BY DEF Lookup, QueuesType, EntriesType, ControlType
  <2>3. Hold(e, time[w]) \in EntryType
    BY <2>2, HoldType
  <2>4. [NoOp EXCEPT !.key = k, !.e = e, !.buf = entry[e].start,
            !.size = entry[e].size, !.token = entry[e].write] \in OpType
    BY <2>2, NoOpType DEF EntryType, OpType
  <2>10. EntriesType'
    BY <2>1, <2>2, <2>3, EntryUpdate
  <2>11. LocalType'
    BY <2>1, <2>4, OpUpdate
  <2>12. ControlType'
    BY <1>3
       DEF Fetch, ControlType
  <2> QED
    BY <1>3, <2>10, <2>11, <2>12
       DEF Fetch, QueuesType, AreaType
<1>4. CASE Release(w)
  <2>10. EntriesType'
    BY <1>4
       DEF Release, EntryType, EntriesType
  <2>11. LocalType'
    BY <1>4, NoOpType
       DEF Release, LocalType
  <2>12. ControlType'
    BY <1>4
       DEF Release, ControlType
  <2> QED
    BY <1>4, <2>10, <2>11, <2>12
       DEF Release, QueuesType, AreaType
<1>5. CASE Abandon(w)
  <2>10. LocalType'
    BY <1>5, NoOpType
       DEF Abandon, LocalType
  <2>11. ControlType'
    BY <1>5
       DEF Abandon, ControlType
  <2> QED
    BY <1>5, <2>10, <2>11
       DEF Abandon, QueuesType, AreaType, EntriesType
<1>6. ASSUME NEW k \in Keys, NEW z \in Sizes, StoreReset(w, k, z) PROVE TypeOK'
  <2>1. [NoOp EXCEPT !.key = k, !.size = z] \in OpType
    BY ConstantsAssumption, NoOpType DEF OpType
  <2>10. QueuesType'
    BY <1>6
       DEF StoreReset, ResetStructures, QueuesType
  <2>11. AreaType'
    BY <1>6, ConstantsAssumption
       DEF StoreReset, ResetStructures, AreaType
  <2>12. LocalType'
    BY <1>6, <2>1, OpUpdate
       DEF StoreReset
  <2>13. ControlType'
    BY <1>6
       DEF StoreReset, ControlType
  <2> QED
    BY <1>6, <2>10, <2>11, <2>12, <2>13
       DEF StoreReset, EntriesType
<1>7. ASSUME NEW k \in Keys, NEW z \in Sizes, StoreLock(w, k, z) PROVE TypeOK'
  <2>1. [NoOp EXCEPT !.key = k, !.size = z,
            !.left = IF Expiration = 0 THEN 0 ELSE MaxEvictions] \in OpType
    BY ConstantsAssumption, NoOpType DEF OpType
  <2>10. LocalType'
    BY <1>7, <2>1, OpUpdate
       DEF StoreLock
  <2>11. ControlType'
    BY <1>7
       DEF StoreLock, ControlType
  <2> QED
    BY <1>7, <2>10, <2>11
       DEF StoreLock, QueuesType, AreaType, EntriesType
<1>8. CASE FinishCopy(w)
  <2>10. EntriesType'
    BY <1>8
       DEF FinishCopy, EntryType, EntriesType
  <2>11. ControlType'
    BY <1>8
       DEF FinishCopy, ControlType
  <2> QED
    BY <1>8, <2>10, <2>11
       DEF FinishCopy, QueuesType, AreaType, LocalType
<1>9. CASE DropStoreRef(w)
  <2>1. op[w].e \in Slot
    BY <1>9 DEF DropStoreRef, PointersOK, LocalsOK
  <2>10. EntriesType'
    BY <1>9, <2>1, DropRefType
       DEF DropStoreRef
  <2>11. LocalType'
    BY <1>9, NoOpType
       DEF DropStoreRef, LocalType
  <2>12. ControlType'
    BY <1>9
       DEF DropStoreRef, ControlType
  <2> QED
    BY <1>9, <2>10, <2>11, <2>12
       DEF DropStoreRef, QueuesType, AreaType
<1> QED
  BY <1>1, <1>2, <1>3, <1>4, <1>5, <1>6, <1>7, <1>8, <1>9 DEF UnlockedStep

-----------------------------------------------------------------------------
(* Who holds the mutex, and what its store has in hand                     *)

LEMMA StoreStepMutex ==
  ASSUME TypeInv, NEW w \in Workers, StoreStep(w)
  PROVE  MutexOK'
<1> USE ConstantsAssumption DEF TypeInv, TypeOK, ControlType, MutexOK
<1>1. mutex = w
  BY DEF StoreStep, FreeFromTree, FreeToQueue, FreePointers, EvictExpired,
         StoreLookup, TakeFreeEntry, GrowEntries, EvictForEntry, NoEntry,
         TooBig, BeginAlloc, AllocBuffer, WrapWrite, EvictForBuffer, NoBuffer,
         InitEntry, LinkQueue, LinkTree, Commit
<1>2. \/ mutex' = mutex /\ \E p \in LockedPCs : pc' = [pc EXCEPT ![w] = p]
      \/ mutex' = None /\ \E p \in PCs \ LockedPCs : pc' = [pc EXCEPT ![w] = p]
  <2>1. CASE FreePointers(w)
    BY <2>1 DEF FreePointers, PointersOK, LocalsOK
  <2>2. CASE ~FreePointers(w)
    BY <2>2, SMTT(40) DEF StoreStep, FreeFromTree, FreeToQueue, EvictExpired,
         StoreLookup, TakeFreeEntry, GrowEntries, EvictForEntry, NoEntry,
         TooBig, BeginAlloc, AllocBuffer, WrapWrite, EvictForBuffer, NoBuffer,
         InitEntry, LinkQueue, LinkTree, Commit, BeginFree, StoreFail
  <2> QED
    BY <2>1, <2>2
<1> QED
  BY <1>1, <1>2

LEMMA UnlockedStepMutex ==
  ASSUME TypeInv, NEW w \in Workers, UnlockedStep(w)
  PROVE  MutexOK'
<1> USE ConstantsAssumption DEF TypeInv, TypeOK, ControlType, MutexOK
<1>1. CASE UpdateTime(w)
  BY <1>1 DEF UpdateTime
<1>2. CASE Kill(w)
  BY <1>2 DEF Kill
<1>3. ASSUME NEW k \in Keys, Fetch(w, k) PROVE MutexOK'
  BY <1>3 DEF Fetch
<1>4. CASE Release(w) \/ Abandon(w) \/ FinishCopy(w) \/ DropStoreRef(w)
  BY <1>4 DEF Release, Abandon, FinishCopy, DropStoreRef
<1>5. ASSUME NEW k \in Keys, NEW z \in Sizes,
             StoreReset(w, k, z) \/ StoreLock(w, k, z)
      PROVE  MutexOK'
  BY <1>5 DEF StoreReset, StoreLock
<1> QED
  BY <1>1, <1>2, <1>3, <1>4, <1>5 DEF UnlockedStep

\* Nobody else changes what the holder of the mutex has in hand.
LEMMA OthersPointers ==
  ASSUME TypeInv, NEW w \in Workers, StoreStep(w), NEW v \in Workers, v # w
  PROVE  LocalsOK(v)'
<1> USE ConstantsAssumption DEF TypeInv, TypeOK, ControlType, LocalType,
        MutexOK, PointersOK
<1>1. mutex = w /\ pc[v] \notin LockedPCs
  BY DEF StoreStep, FreeFromTree, FreeToQueue, FreePointers, EvictExpired,
         StoreLookup, TakeFreeEntry, GrowEntries, EvictForEntry, NoEntry,
         TooBig, BeginAlloc, AllocBuffer, WrapWrite, EvictForBuffer, NoBuffer,
         InitEntry, LinkQueue, LinkTree, Commit
<1>2. pc'[v] = pc[v] /\ op'[v] = op[v]
  BY DEF StoreStep, FreeFromTree, FreeToQueue, FreePointers, EvictExpired,
         StoreLookup, TakeFreeEntry, GrowEntries, EvictForEntry, NoEntry,
         TooBig, BeginAlloc, AllocBuffer, WrapWrite, EvictForBuffer, NoBuffer,
         InitEntry, LinkQueue, LinkTree, Commit, BeginFree, StoreFail
<1> QED
  BY <1>1, <1>2 DEF LocalsOK, HasEntry

LEMMA BeginFreePointers ==
  ASSUME TypeInv, NEW w \in Workers, NEW x, NEW r \in {"evict", "size", "buffer"},
         NEW n, BeginFree(w, x, r, n), r = "size" => freeQueue = <<>>,
         r = "buffer" => HasEntry(w)
  PROVE  LocalsOK(w)'
<1> USE DEF TypeInv, TypeOK, ControlType, LocalType
<1>1. usedQueue # <<>> /\ UNCHANGED <<usedQueue, freeQueue>>
  BY DEF BeginFree, CanFreeOldest
<1>2. pc'[w] = "free_tree"
  BY DEF BeginFree
<1>3. op'[w].victim = Head(usedQueue) /\ op'[w].ret = r /\ op'[w].e = op[w].e
  BY DEF BeginFree, OpType
<1>4. LocalsOK(w)
  BY DEF PointersOK
<1> QED
  BY <1>1, <1>2, <1>3, <1>4 DEF LocalsOK, HasEntry

LEMMA StoreStepPointers ==
  ASSUME TypeInv, NEW w \in Workers, StoreStep(w)
  PROVE  PointersOK'
<1>00. freeQueue # <<>> => Head(freeQueue) \in Slot
  BY HeadIn DEF TypeInv, TypeOK, QueuesType
<1>01. \A e \in Slot :
         /\ freeQueue = <<>> => Append(freeQueue, e) = <<e>>
         /\ freeQueue # <<>> => /\ Append(freeQueue, e) # <<>>
                                /\ Head(Append(freeQueue, e)) = Head(freeQueue)
  BY AppendHead DEF TypeInv, TypeOK, QueuesType
<1> USE DEF TypeInv, TypeOK, ControlType, LocalType, QueuesType, OpType
<1>0. LocalsOK(w)
  BY DEF PointersOK
<1> SUFFICES LocalsOK(w)'
  BY OthersPointers DEF PointersOK
<1> USE <1>0 DEF LocalsOK, HasEntry
<1>1. CASE FreeFromTree(w)
  BY <1>1 DEF FreeFromTree
<1>2. CASE FreeToQueue(w)
  <2>1. Head(usedQueue) \in Slot
    BY <1>2, HeadIn DEF FreeToQueue
  <2>2. /\ freeQueue = <<>> => Append(freeQueue, op[w].victim) = <<op[w].victim>>
        /\ freeQueue # <<>> =>
             /\ Append(freeQueue, op[w].victim) # <<>>
             /\ Head(Append(freeQueue, op[w].victim)) = Head(freeQueue)
    BY <1>2, <1>01, <2>1 DEF FreeToQueue
  <2> QED
    BY <1>2, <2>1, <2>2 DEF FreeToQueue
<1>3. CASE FreePointers(w)
  BY <1>3, SMTT(40) DEF FreePointers
<1>4. CASE EvictExpired(w)
  BY <1>4, BeginFreePointers DEF EvictExpired
<1>5. CASE StoreLookup(w)
  BY <1>5 DEF StoreLookup
<1>6. CASE TakeFreeEntry(w)
  BY <1>6 DEF TakeFreeEntry
<1>7. CASE GrowEntries(w)
  <2>1. Append(freeQueue, entriesEnd) = <<entriesEnd>>
    BY <1>7 DEF GrowEntries
  <2> QED
    BY <1>7, <2>1 DEF GrowEntries
<1>8. CASE EvictForEntry(w)
  BY <1>8, BeginFreePointers DEF EvictForEntry
<1>9. CASE NoEntry(w) \/ TooBig(w) \/ NoBuffer(w)
  BY <1>9 DEF NoEntry, TooBig, NoBuffer, StoreFail
<1>10. CASE BeginAlloc(w)
  BY <1>10 DEF BeginAlloc
<1>11. CASE AllocBuffer(w)
  BY <1>11 DEF AllocBuffer
<1>12. CASE WrapWrite(w)
  BY <1>12 DEF WrapWrite
<1>13. CASE EvictForBuffer(w)
  BY <1>13, BeginFreePointers DEF EvictForBuffer
<1>14. CASE InitEntry(w)
  BY <1>14 DEF InitEntry
<1>15. CASE LinkQueue(w)
  BY <1>15, <1>00 DEF LinkQueue
<1>16. CASE LinkTree(w) \/ Commit(w)
  BY <1>16 DEF LinkTree, Commit
<1> QED
  BY <1>1, <1>2, <1>3, <1>4, <1>5, <1>6, <1>7, <1>8, <1>9, <1>10, <1>11,
     <1>12, <1>13, <1>14, <1>15, <1>16 DEF StoreStep

LEMMA UnlockedStepPointers ==
  ASSUME TypeInv, NEW w \in Workers, UnlockedStep(w)
  PROVE  PointersOK'
<1> USE ConstantsAssumption
    DEF TypeInv, TypeOK, ControlType, LocalType, OpType
<1> SUFFICES ASSUME NEW v \in Workers PROVE LocalsOK(v)'
  BY DEF PointersOK
<1>0. LocalsOK(v)
  BY DEF PointersOK
<1> USE <1>0 DEF LocalsOK, HasEntry
<1>1. CASE UpdateTime(w)
  BY <1>1 DEF UpdateTime
<1>2. CASE Kill(w)
  BY <1>2 DEF Kill
<1>3. ASSUME NEW k \in Keys, Fetch(w, k) PROVE LocalsOK(v)'
  BY <1>3 DEF Fetch
<1>4. CASE Release(w)
  BY <1>4 DEF Release
<1>5. CASE Abandon(w)
  BY <1>5 DEF Abandon
<1>6. ASSUME NEW k \in Keys, NEW z \in Sizes, StoreReset(w, k, z)
      PROVE  LocalsOK(v)'
  BY <1>6 DEF StoreReset, MutexOK
<1>7. ASSUME NEW k \in Keys, NEW z \in Sizes, StoreLock(w, k, z)
      PROVE  LocalsOK(v)'
  BY <1>7 DEF StoreLock
<1>8. CASE FinishCopy(w)
  BY <1>8 DEF FinishCopy
<1>9. CASE DropStoreRef(w)
  BY <1>9 DEF DropStoreRef
<1> QED
  BY <1>1, <1>2, <1>3, <1>4, <1>5, <1>6, <1>7, <1>8, <1>9 DEF UnlockedStep

LEMMA TypeInvariant == Spec => []TypeInv
<1>1. Init => TypeInv
  <2> SUFFICES ASSUME Init PROVE TypeInv
    OBVIOUS
  <2>1. MutexOK /\ PointersOK
    BY ConstantsAssumption DEF Init, MutexOK, PointersOK, LocalsOK, HasEntry
  <2> QED
    BY <2>1, InitType DEF TypeInv
<1>2. TypeInv /\ [Next]_vars => TypeInv'
  <2> SUFFICES ASSUME TypeInv, [Next]_vars PROVE TypeInv'
    OBVIOUS
  <2> USE DEF TypeInv, TypeOK, QueuesType, AreaType, EntriesType, ControlType,
          LocalType, MutexOK, PointersOK, LocalsOK, HasEntry
  <2>1. CASE Tick
    BY <2>1 DEF Tick
  <2>2. ASSUME NEW w \in Workers, StoreStep(w) PROVE TypeInv'
    <3> HIDE DEF TypeOK, MutexOK, PointersOK
    <3> QED
      BY <2>2, StoreStepType, StoreStepMutex, StoreStepPointers
  <2>3. ASSUME NEW w \in Workers, UnlockedStep(w) PROVE TypeInv'
    <3> HIDE DEF TypeOK, MutexOK, PointersOK
    <3> QED
      BY <2>3, UnlockedStepType, UnlockedStepMutex, UnlockedStepPointers
  <2>4. CASE UNCHANGED vars
    BY <2>4 DEF vars
  <2> QED
    BY <2>1, <2>2, <2>3, <2>4 DEF Next
<1> QED
  BY <1>1, <1>2, PTL DEF Spec

\* Every variable keeps its type in every reachable state, and the buffers
\* never start above the end of the zone (ngx_buffer_cache_get_free_entry).
THEOREM TypeCorrect == Spec => []TypeOK
<1>1. TypeInv => TypeOK
  BY DEF TypeInv
<1> QED
  BY TypeInvariant, <1>1, PTL

\* The entry that get_free_entry returned stays the head of the free queue
\* while get_free_buffer frees other entries, so that the store unlinks it
\* from that place and no other.
THEOREM StoreEntryStaysFirst == Spec => []StoreEntryFirst
<1>1. TypeInv => StoreEntryFirst
  BY DEF TypeInv, PointersOK, LocalsOK, StoreEntryFirst
<1> QED
  BY TypeInvariant, <1>1, PTL

-----------------------------------------------------------------------------
(* The structures.  They are whole whenever the mutex is free and the flag  *)
(* reset is clear, if no worker is killed while it evicts expired entries.  *)

LEMMA RangeAppend ==
  ASSUME NEW S, NEW q \in Seq(S), NEW e \in S
  PROVE  /\ Range(Append(q, e)) = Range(q) \cup {e}
         /\ IsInjective(q) /\ e \notin Range(q) => IsInjective(Append(q, e))
<1> DEFINE r == Append(q, e)
<1>1. /\ DOMAIN q = 1 .. Len(q) /\ DOMAIN r = 1 .. Len(q) + 1
      /\ Len(q) \in Nat /\ r[Len(q) + 1] = e
      /\ \A i \in 1 .. Len(q) : r[i] = q[i]
  OBVIOUS
<1> HIDE DEF r
<1>2. Range(r) = Range(q) \cup {e}
  BY <1>1 DEF Range
<1>3. ASSUME IsInjective(q), e \notin Range(q) PROVE IsInjective(r)
  BY <1>1, <1>3 DEF Range, IsInjective
<1> QED
  BY <1>2, <1>3 DEF r

LEMMA RangeTail ==
  ASSUME NEW S, NEW q \in Seq(S), q # <<>>, IsInjective(q)
  PROVE  /\ Head(q) \in Range(q)
         /\ Range(Tail(q)) = Range(q) \ {Head(q)}
         /\ IsInjective(Tail(q))
<1> DEFINE r == Tail(q)
<1>1. /\ Len(q) \in Nat /\ Len(q) >= 1 /\ Head(q) = q[1]
      /\ DOMAIN q = 1 .. Len(q) /\ DOMAIN r = 1 .. Len(q) - 1
      /\ \A i \in 1 .. Len(q) - 1 : r[i] = q[i + 1]
  OBVIOUS
<1>2. \A i \in 2 .. Len(q) : i - 1 \in 1 .. Len(q) - 1 /\ r[i - 1] = q[i]
  BY <1>1
<1> HIDE DEF r
<1>3. Head(q) \in Range(q)
  BY <1>1 DEF Range
<1>4. Range(r) \subseteq Range(q) \ {Head(q)}
  BY <1>1 DEF Range, IsInjective
<1>5. Range(q) \ {Head(q)} \subseteq Range(r)
  <2> SUFFICES ASSUME NEW i \in 1 .. Len(q), q[i] # Head(q)
               PROVE  q[i] \in Range(r)
    BY <1>1 DEF Range
  <2>1. i \in 2 .. Len(q)
    BY <1>1
  <2> QED
    BY <1>1, <1>2, <2>1 DEF Range
<1>6. IsInjective(r)
  BY <1>1 DEF IsInjective
<1> QED
  BY <1>3, <1>4, <1>5, <1>6 DEF r

LEMMA RangeIn ==
  ASSUME NEW S, NEW q \in Seq(S)
  PROVE  Range(q) \subseteq S
BY DEF Range

\* The head of one queue is moved to the tail of another.
LEMMA MoveHead ==
  ASSUME NEW S, NEW q \in Seq(S), NEW r \in Seq(S), NEW h, q # <<>>, h = Head(q),
         IsInjective(q), IsInjective(r), Range(q) \cap Range(r) = {}
  PROVE  /\ h \in Range(q)
         /\ Range(Tail(q)) = Range(q) \ {h}
         /\ Range(Append(r, h)) = Range(r) \cup {h}
         /\ IsInjective(Tail(q)) /\ IsInjective(Append(r, h))
<1>1. h \in S
  BY HeadIn
<1>2. h \in Range(q) /\ Range(Tail(q)) = Range(q) \ {h} /\ IsInjective(Tail(q))
  BY RangeTail
<1>3. h \notin Range(r)
  BY <1>2
<1>4. /\ Range(Append(r, h)) = Range(r) \cup {h}
      /\ IsInjective(r) /\ h \notin Range(r) => IsInjective(Append(r, h))
  BY <1>1, RangeAppend
<1> QED
  BY <1>2, <1>3, <1>4

Used == Range(usedQueue)
Free == Range(freeQueue)

\* The entry the holder of the mutex has in the used queue but not in the tree.
MissingOf(w) == CASE pc[w] = "free_queue" -> {op[w].victim}
                  [] pc[w] = "link_tree" -> {op[w].e}
                  [] OTHER -> {}
Evicting(w) == pc[w] \in FreeingPCs /\ op[w].ret = "evict"
\* The store of w has found that its key is new and has not linked it yet.
NewKey(w) == \/ pc[w] \in {"entry", "size", "buffer", "init", "link_queue"}
             \/ pc[w] \in FreeingPCs /\ ~Evicting(w)

OwnerOK(w) ==
  /\ QueuesOK /\ KeysOK
  /\ tree = Used \ MissingOf(w)
  /\ NewKey(w) => \A e \in Used : entry[e].key # op[w].key
  /\ pc[w] = "link_queue" => entry[op[w].e].key = op[w].key
  /\ pc[w] = "link_tree" => op[w].e \in Used
  /\ pc[w] # "evict" /\ ~Evicting(w) => reset
  /\ Expiration = 0 => ~Evicting(w) /\ (pc[w] = "evict" => op[w].left = 0)

StructInv ==
  /\ mutex = None /\ ~reset => StructOK
  /\ \A w \in Workers : mutex = w => OwnerOK(w)

\* Steps that keep the queues and the keys of the entries.
LEMMA SameQueues ==
  ASSUME TypeOK, UNCHANGED <<usedQueue, freeQueue, entriesEnd>>,
         \A e \in Used : entry'[e].key = entry[e].key
  PROVE  /\ QueuesOK => QueuesOK'
         /\ KeysOK => KeysOK'
         /\ Used' = Used
<1>1. Used' = Used /\ Free' = Free
  BY DEF Used, Free
<1>2. QueuesOK => QueuesOK'
  BY DEF QueuesOK
<1>3. KeysOK => KeysOK'
  BY <1>1 DEF KeysOK, Used
<1> QED
  BY <1>1, <1>2, <1>3

LEMMA UsedInSlot == TypeOK => Used \subseteq Slot /\ Free \subseteq Slot
BY RangeIn DEF TypeOK, QueuesType, Used, Free

\* The step of the holder that moves the victim to the free queue.
LEMMA FreeToQueueStruct ==
  ASSUME TypeInv, NEW w \in Workers, OwnerOK(w), FreeToQueue(w)
  PROVE  OwnerOK(w)'
<1>1. /\ usedQueue \in Seq(Slot) /\ freeQueue \in Seq(Slot)
      /\ pc \in [Workers -> PCs]
  BY DEF TypeInv, TypeOK, QueuesType, ControlType
<1>2. usedQueue # <<>> /\ op[w].victim = Head(usedQueue)
  BY DEF FreeToQueue, TypeInv, PointersOK, LocalsOK
<1>3. IsInjective(usedQueue) /\ IsInjective(freeQueue) /\ Used \cap Free = {}
      /\ Used \cup Free = 0 .. entriesEnd - 1
  BY DEF OwnerOK, QueuesOK, Used, Free
<1>4. /\ op[w].victim \in Used
      /\ Range(Tail(usedQueue)) = Used \ {op[w].victim}
      /\ Range(Append(freeQueue, op[w].victim)) = Free \cup {op[w].victim}
      /\ IsInjective(Tail(usedQueue))
      /\ IsInjective(Append(freeQueue, op[w].victim))
  <2>1. Range(usedQueue) \cap Range(freeQueue) = {}
    BY <1>3 DEF Used, Free
  <2> QED
    BY <1>1, <1>2, <1>3, <2>1, MoveHead DEF Used, Free
<1>7. /\ Used' = Used \ {op[w].victim}
      /\ Free' = Free \cup {op[w].victim}
      /\ IsInjective(usedQueue)' /\ IsInjective(freeQueue)'
  BY <1>4 DEF FreeToQueue, Used, Free, IsInjective
<1>8. QueuesOK'
  <2>1. Used' \cap Free' = {} /\ Used' \cup Free' = 0 .. entriesEnd - 1
    BY <1>3, <1>4, <1>7
  <2>2. entriesEnd' = entriesEnd
    BY DEF FreeToQueue
  <2> QED
    BY <1>7, <2>1, <2>2 DEF QueuesOK, Used, Free
<1>9. KeysOK'
  <2>1. KeysOK /\ entry' = entry
    BY DEF OwnerOK, FreeToQueue
  <2> QED
    BY <1>7, <2>1 DEF KeysOK, Used
<1>10. tree = Used \ {op[w].victim}
  BY DEF OwnerOK, MissingOf, FreeToQueue
<1>11. pc'[w] = "free_pointers" /\ UNCHANGED <<tree, entry, op, reset>>
  BY <1>1 DEF FreeToQueue
<1>12. (tree = Used \ MissingOf(w))'
  BY <1>7, <1>10, <1>11 DEF MissingOf
<1>13. pc[w] = "free_queue"
  BY DEF FreeToQueue
<1>14. (NewKey(w) => \A e \in Used : entry[e].key # op[w].key)'
  BY <1>7, <1>11, <1>13 DEF OwnerOK, NewKey, Evicting
<1> QED
  BY <1>8, <1>9, <1>11, <1>12, <1>13, <1>14 DEF OwnerOK, Evicting

LEMMA LinkQueueStruct ==
  ASSUME TypeInv, NEW w \in Workers, OwnerOK(w), LinkQueue(w)
  PROVE  OwnerOK(w)'
<1> DEFINE n == op[w].e
<1>1. /\ usedQueue \in Seq(Slot) /\ freeQueue \in Seq(Slot)
      /\ pc \in [Workers -> PCs]
  BY DEF TypeInv, TypeOK, QueuesType, ControlType
<1>2. freeQueue # <<>> /\ n = Head(freeQueue)
  BY DEF LinkQueue, TypeInv, PointersOK, LocalsOK, HasEntry
<1>3. IsInjective(usedQueue) /\ IsInjective(freeQueue) /\ Free \cap Used = {}
      /\ Used \cup Free = 0 .. entriesEnd - 1
  BY DEF OwnerOK, QueuesOK, Used, Free
<1>4. /\ n \in Free
      /\ Range(Tail(freeQueue)) = Free \ {n}
      /\ Range(Append(usedQueue, n)) = Used \cup {n}
      /\ IsInjective(Tail(freeQueue))
      /\ IsInjective(Append(usedQueue, n))
  <2>1. Range(freeQueue) \cap Range(usedQueue) = {}
    BY <1>3 DEF Used, Free
  <2> QED
    BY <1>1, <1>2, <1>3, <2>1, MoveHead DEF Used, Free
<1>7. /\ Used' = Used \cup {n}
      /\ Free' = Free \ {n}
      /\ IsInjective(usedQueue)' /\ IsInjective(freeQueue)'
  BY <1>4 DEF LinkQueue, Used, Free, IsInjective
<1>8. QueuesOK'
  <2>1. Used' \cap Free' = {} /\ Used' \cup Free' = 0 .. entriesEnd - 1
    BY <1>3, <1>4, <1>7
  <2>2. entriesEnd' = entriesEnd
    BY DEF LinkQueue
  <2> QED
    BY <1>7, <2>1, <2>2 DEF QueuesOK, Used, Free
<1>9. /\ \A e \in Used : entry[e].key # op[w].key
      /\ entry[n].key = op[w].key /\ KeysOK
  BY DEF OwnerOK, LinkQueue, NewKey
<1>10. KeysOK'
  <2>1. \A e, f \in Used : entry[e].key = entry[f].key => e = f
    BY <1>9 DEF KeysOK, Used
  <2>2. \A e, f \in Used \cup {n} : entry[e].key = entry[f].key => e = f
    BY <1>9, <2>1
  <2>3. entry' = entry
    BY DEF LinkQueue
  <2> QED
    BY <1>7, <2>2, <2>3 DEF KeysOK, Used
<1>11. tree = Used /\ n \notin Used
  BY <1>3, <1>4 DEF OwnerOK, MissingOf, LinkQueue
<1>12. pc'[w] = "link_tree" /\ UNCHANGED <<tree, entry, op, reset>>
  BY <1>1 DEF LinkQueue
<1>13. (tree = Used \ MissingOf(w))'
  BY <1>7, <1>11, <1>12 DEF MissingOf
<1>14. reset
  BY DEF LinkQueue, OwnerOK, Evicting
<1> QED
  BY <1>7, <1>8, <1>10, <1>12, <1>13, <1>14 DEF OwnerOK, Evicting, NewKey

LEMMA GrowEntriesStruct ==
  ASSUME TypeInv, NEW w \in Workers, OwnerOK(w), GrowEntries(w)
  PROVE  OwnerOK(w)'
<1>1. /\ freeQueue = <<>> /\ entriesEnd \in Nat /\ pc \in [Workers -> PCs]
      /\ op \in [Workers -> OpType] /\ entry \in [Slot -> EntryType]
  BY DEF GrowEntries, TypeInv, TypeOK, AreaType, ControlType, LocalType,
         EntriesType
<1>2. Free = {} /\ freeQueue' = <<entriesEnd>>
  BY <1>1 DEF GrowEntries, Free, Range
<1>3. Used' = Used /\ Free' = {entriesEnd} /\ IsInjective(freeQueue)'
  BY <1>2 DEF GrowEntries, Used, Free, Range, IsInjective
<1>4. Used = 0 .. entriesEnd - 1 /\ IsInjective(usedQueue)
  BY <1>2 DEF OwnerOK, QueuesOK, Used, Free
<1>5. QueuesOK'
  <2>1. /\ IsInjective(usedQueue)' /\ entriesEnd' = entriesEnd + 1
        /\ Used' \cap Free' = {}
        /\ Used' \cup Free' = 0 .. (entriesEnd + 1) - 1
    BY <1>1, <1>3, <1>4 DEF GrowEntries, IsInjective
  <2> QED
    BY <1>3, <2>1 DEF QueuesOK, Used, Free
<1>6. \A e \in Slot : entry'[e].key = entry[e].key
  BY <1>1 DEF GrowEntries, EntryType
<1>7. Used \subseteq Slot
  BY UsedInSlot DEF TypeInv
<1>8. KeysOK'
  BY <1>3, <1>6, <1>7 DEF OwnerOK, KeysOK, Used
<1>9. /\ pc[w] = "entry" /\ pc'[w] = "size" /\ op'[w].key = op[w].key
      /\ UNCHANGED <<tree, reset>>
  BY <1>1 DEF GrowEntries, OpType
<1> QED
  BY <1>3, <1>5, <1>6, <1>7, <1>8, <1>9
     DEF OwnerOK, Evicting, NewKey, MissingOf

\* A first step of free_oldest_entry, on behalf of the continuation r.
LEMMA BeginFreeStruct ==
  ASSUME TypeInv, NEW w \in Workers, OwnerOK(w),
         pc[w] \in {"evict", "entry", "buffer"},
         NEW x, NEW r \in {"evict", "size", "buffer"}, NEW n \in Nat,
         BeginFree(w, x, r, n), r = "evict" <=> pc[w] = "evict",
         r = "evict" => Expiration # 0
  PROVE  OwnerOK(w)'
<1>1. /\ pc \in [Workers -> PCs] /\ op \in [Workers -> OpType]
      /\ entry \in [Slot -> EntryType]
  BY DEF TypeInv, TypeOK, ControlType, LocalType, EntriesType
<1>2. \A e \in Slot : entry'[e].key = entry[e].key
  BY <1>1 DEF BeginFree, EntryType
<1>3. Used \subseteq Slot
  BY UsedInSlot DEF TypeInv
<1>4. /\ pc'[w] = "free_tree" /\ op'[w].ret = r /\ op'[w].key = op[w].key
      /\ UNCHANGED <<usedQueue, freeQueue, entriesEnd, tree, reset>>
  BY <1>1 DEF BeginFree, OpType
<1>5. QueuesOK' /\ KeysOK' /\ Used' = Used
  BY <1>2, <1>3, <1>4, SameQueues DEF OwnerOK, TypeInv
<1> QED
  BY <1>2, <1>3, <1>4, <1>5 DEF OwnerOK, Evicting, NewKey, MissingOf

LEMMA StoreStepStruct ==
  ASSUME TypeInv, StructInv, NEW w \in Workers, StoreStep(w)
  PROVE  StructInv'
<1> USE ConstantsAssumption
<1>1. mutex = w /\ OwnerOK(w)
  <2>1. mutex = w
    BY DEF TypeInv, MutexOK, StoreStep, FreeFromTree, FreeToQueue, FreePointers,
           EvictExpired, StoreLookup, TakeFreeEntry, GrowEntries,
           EvictForEntry, NoEntry, TooBig, BeginAlloc, AllocBuffer, WrapWrite,
           EvictForBuffer, NoBuffer, InitEntry, LinkQueue, LinkTree, Commit
  <2> QED
    BY <2>1 DEF StructInv
<1>2. ASSUME mutex' = w, OwnerOK(w)' PROVE StructInv'
  BY <1>2 DEF StructInv
<1>3. ASSUME mutex' = None, ~reset' => StructOK' PROVE StructInv'
  BY <1>3 DEF StructInv
<1>4. /\ pc \in [Workers -> PCs] /\ op \in [Workers -> OpType]
      /\ entry \in [Slot -> EntryType]
      /\ Used \subseteq Slot /\ Free \subseteq Slot /\ LocalsOK(w) /\ TypeOK
  BY UsedInSlot
     DEF TypeInv, TypeOK, ControlType, LocalType, EntriesType, PointersOK
\* Steps that touch neither the queues nor a key.
<1>5. ASSUME UNCHANGED <<usedQueue, freeQueue, entriesEnd, entry>>
      PROVE  QueuesOK' /\ KeysOK' /\ Used' = Used
  BY <1>1, <1>4, <1>5, SameQueues DEF OwnerOK
<1> USE DEF Evicting, NewKey, MissingOf
<1>6. CASE FreeFromTree(w)
  BY <1>1, <1>2, <1>4, <1>5, <1>6 DEF OwnerOK, FreeFromTree
<1>7. CASE FreeToQueue(w)
  BY <1>1, <1>2, <1>7, FreeToQueueStruct DEF FreeToQueue
<1>8. CASE FreePointers(w)
  <2>1. /\ pc'[w] = op[w].ret /\ op'[w].key = op[w].key /\ mutex' = w
        /\ op'[w].left = op[w].left /\ pc[w] = "free_pointers"
        /\ UNCHANGED <<usedQueue, freeQueue, entriesEnd, entry, tree, reset>>
    BY <1>1, <1>4, <1>8 DEF FreePointers, OpType
  <2>2. op[w].ret \in {"evict", "size", "buffer"}
    BY <1>4, <2>1 DEF LocalsOK
  <2>3. OwnerOK(w)'
    BY <1>1, <1>5, <2>1, <2>2 DEF OwnerOK
  <2> QED
    BY <1>2, <2>1, <2>3
<1>9. CASE EvictExpired(w)
  <2>1. Expiration # 0 /\ op[w].left - 1 \in Nat
    BY <1>1, <1>4, <1>9 DEF EvictExpired, OwnerOK, OpType
  <2>2. OwnerOK(w)'
    BY <1>1, <1>9, <2>1, BeginFreeStruct DEF EvictExpired
  <2> QED
    BY <1>1, <1>2, <1>9, <2>2 DEF EvictExpired, BeginFree
<1>10. CASE StoreLookup(w)
  <2>0. tree = Used /\ UNCHANGED <<usedQueue, freeQueue, entriesEnd, entry, tree>>
    BY <1>1, <1>10 DEF StoreLookup, OwnerOK
  <2>1. CASE Lookup(op[w].key) # {}
    BY <1>3, <1>5, <1>10, <2>0, <2>1 DEF StoreLookup, StructOK, Used
  <2>2. CASE Lookup(op[w].key) = {}
    <3>1. \A e \in Used : entry[e].key # op[w].key
      BY <2>0, <2>2 DEF Lookup
    <3>2. /\ pc'[w] = "entry" /\ mutex' = w /\ reset' = TRUE /\ op' = op
      BY <1>1, <1>4, <1>10, <2>2 DEF StoreLookup, BeginChanges
    <3> QED
      BY <1>2, <1>5, <2>0, <3>1, <3>2 DEF OwnerOK
  <2> QED
    BY <2>1, <2>2
<1>11. CASE TakeFreeEntry(w)
  BY <1>1, <1>2, <1>4, <1>5, <1>11 DEF OwnerOK, TakeFreeEntry, OpType
<1>12. CASE GrowEntries(w)
  BY <1>1, <1>2, <1>12, GrowEntriesStruct DEF GrowEntries
<1>13. CASE EvictForEntry(w)
  <2>1. op[w].left \in Nat
    BY <1>4 DEF OpType
  <2> QED
    BY <1>1, <1>2, <1>13, <2>1, BeginFreeStruct DEF EvictForEntry, BeginFree
<1>14. CASE EvictForBuffer(w)
  <2>1. op[w].left \in Nat
    BY <1>4 DEF OpType
  <2> QED
    BY <1>1, <1>2, <1>14, <2>1, BeginFreeStruct DEF EvictForBuffer, BeginFree
<1>15. CASE NoEntry(w) \/ TooBig(w) \/ NoBuffer(w)
  <2>1. /\ StoreFail(w)
        /\ pc[w] \in {"entry", "size", "buffer"}
    BY <1>15 DEF NoEntry, TooBig, NoBuffer
  <2> QED
    BY <1>1, <1>3, <1>5, <2>1 DEF StoreFail, OwnerOK, StructOK, Used
<1>16. CASE BeginAlloc(w)
  BY <1>1, <1>2, <1>4, <1>5, <1>16 DEF OwnerOK, BeginAlloc, OpType
<1>17. CASE AllocBuffer(w)
  BY <1>1, <1>2, <1>4, <1>5, <1>17 DEF OwnerOK, AllocBuffer
<1>18. CASE WrapWrite(w)
  BY <1>1, <1>2, <1>4, <1>5, <1>18 DEF OwnerOK, WrapWrite, OpType
<1>19. CASE InitEntry(w)
  <2>1. op[w].e \in Free /\ op[w].e \in Slot /\ op[w].e \notin Used
    <3>1. freeQueue # <<>> /\ op[w].e = Head(freeQueue)
      BY <1>4, <1>19 DEF InitEntry, LocalsOK, HasEntry
    <3>2. op[w].e \in Free
      BY <1>1, <1>4, <3>1, RangeTail DEF OwnerOK, QueuesOK, Free, TypeOK, QueuesType
    <3> QED
      BY <1>1, <1>4, <3>2 DEF OwnerOK, QueuesOK, Free, Used
  <2>2. /\ entry'[op[w].e].key = op[w].key
        /\ \A e \in Slot \ {op[w].e} : entry'[e] = entry[e]
    BY <1>4, <1>19, <2>1 DEF InitEntry, EntryType
  <2>3. /\ pc'[w] = "link_queue" /\ mutex' = w /\ pc[w] = "init"
        /\ UNCHANGED <<usedQueue, freeQueue, entriesEnd, tree, reset, op>>
    BY <1>1, <1>4, <1>19 DEF InitEntry
  <2>4. QueuesOK' /\ KeysOK' /\ Used' = Used
    BY <1>1, <1>4, <2>1, <2>2, <2>3, SameQueues DEF OwnerOK
  <2> QED
    BY <1>1, <1>2, <1>4, <2>1, <2>2, <2>3, <2>4 DEF OwnerOK
<1>20. CASE LinkQueue(w)
  BY <1>1, <1>2, <1>20, LinkQueueStruct DEF LinkQueue
<1>21. CASE LinkTree(w)
  <2>1. tree' = Used
    <3>1. op[w].e \in Used
      BY <1>1, <1>21 DEF LinkTree, OwnerOK
    <3> QED
      BY <1>1, <1>21, <3>1 DEF LinkTree, OwnerOK
  <2> QED
    BY <1>1, <1>2, <1>4, <1>5, <1>21, <2>1 DEF OwnerOK, LinkTree
<1>22. CASE Commit(w)
  <2>1. \A e \in Slot : entry'[e].key = entry[e].key
    BY <1>4, <1>22 DEF Commit, EntryType
  <2>2. /\ mutex' = None /\ tree = Used
        /\ UNCHANGED <<usedQueue, freeQueue, entriesEnd, tree>>
    BY <1>1, <1>22 DEF Commit, OwnerOK
  <2>3. QueuesOK' /\ KeysOK' /\ Used' = Used
    BY <1>1, <1>4, <2>1, <2>2, SameQueues DEF OwnerOK
  <2> QED
    BY <1>3, <2>2, <2>3 DEF StructOK, Used
<1> QED
  BY <1>6, <1>7, <1>8, <1>9, <1>10, <1>11, <1>12, <1>13, <1>14, <1>15, <1>16,
     <1>17, <1>18, <1>19, <1>20, <1>21, <1>22 DEF StoreStep

LEMMA UnlockedStepStruct ==
  ASSUME Expiration = 0 \/ MaxKills = 0,
         TypeInv, StructInv, NEW w \in Workers, UnlockedStep(w)
  PROVE  StructInv'
<1> USE ConstantsAssumption
<1>1. /\ pc \in [Workers -> PCs] /\ op \in [Workers -> OpType]
      /\ entry \in [Slot -> EntryType] /\ kills \in Nat
      /\ Used \subseteq Slot /\ Free \subseteq Slot /\ TypeOK
      /\ \A v \in Workers : mutex = v <=> pc[v] \in LockedPCs
  BY UsedInSlot DEF TypeInv, TypeOK, ControlType, LocalType, EntriesType, MutexOK
\* Steps beside the mutex: the keys, the queues and the holder stay.
<1>2. ASSUME UNCHANGED <<queues, entriesEnd, reset, mutex>>,
             \A e \in Slot : entry'[e].key = entry[e].key,
             \A v \in Workers : mutex = v => pc'[v] = pc[v] /\ op'[v] = op[v]
      PROVE  StructInv'
  <2>1. /\ QueuesOK => QueuesOK'
        /\ KeysOK => KeysOK'
        /\ Used' = Used
    BY <1>1, <1>2, SameQueues
  <2>2. mutex' = None /\ ~reset' => StructOK'
    BY <1>2, <2>1 DEF StructInv, StructOK, Used
  <2>3. ASSUME NEW v \in Workers, mutex' = v PROVE OwnerOK(v)'
    <3>1. OwnerOK(v) /\ pc[v] \in LockedPCs
      BY <1>1, <1>2, <2>3 DEF StructInv
    <3>2. pc'[v] = pc[v] /\ op'[v] = op[v] /\ tree' = tree /\ reset' = reset
      BY <1>2, <2>3
    <3>3. pc[v] = "link_queue" => entry'[op[v].e].key = entry[op[v].e].key
      BY <1>1, <1>2, <3>1, HeadIn
         DEF TypeInv, PointersOK, LocalsOK, HasEntry, TypeOK, QueuesType
    <3>4. NewKey(v) => \A e \in Used : entry'[e].key # op[v].key
      BY <1>1, <1>2, <3>1 DEF OwnerOK
    <3> QED
      BY <2>1, <3>1, <3>2, <3>3, <3>4
         DEF OwnerOK, Evicting, NewKey, MissingOf
  <2> QED
    BY <2>2, <2>3 DEF StructInv
<1>3. CASE UpdateTime(w)
  BY <1>1, <1>2, <1>3 DEF UpdateTime
<1>4. CASE Kill(w)
  <2>1. Expiration = 0
    BY <1>1, <1>4 DEF Kill
  <2>2. CASE mutex = w
    <3>1. OwnerOK(w) /\ mutex' = None /\ UNCHANGED shared
      BY <1>4, <2>2 DEF Kill, StructInv
    <3>2. ~reset => StructOK
      BY <2>1, <3>1 DEF OwnerOK, StructOK, MissingOf, Evicting, Used
    <3> QED
      BY <3>1, <3>2 DEF StructInv, StructOK, QueuesOK, KeysOK
  <2>3. CASE mutex # w
    BY <1>1, <1>2, <1>4, <2>3 DEF Kill
  <2> QED
    BY <2>2, <2>3
<1>5. ASSUME NEW k \in Keys, Fetch(w, k) PROVE StructInv'
  <2>1. PICK e \in Lookup(k) : entry' = [entry EXCEPT ![e] = Hold(e, time[w])]
    BY <1>5 DEF Fetch
  <2>2. \A f \in Slot : entry'[f].key = entry[f].key
    BY <1>1, <2>1 DEF Hold, EntryType
  <2>3. mutex = None /\ UNCHANGED <<queues, entriesEnd, reset, mutex>>
    BY <1>5 DEF Fetch
  <2> QED
    BY <1>2, <2>2, <2>3
<1>6. CASE Release(w)
  <2>1. \A f \in Slot : entry'[f].key = entry[f].key
    BY <1>1, <1>6 DEF Release, EntryType
  <2>2. mutex = None /\ UNCHANGED <<queues, entriesEnd, reset, mutex>>
    BY <1>6 DEF Release
  <2> QED
    BY <1>2, <2>1, <2>2
<1>7. CASE Abandon(w)
  BY <1>1, <1>2, <1>7 DEF Abandon
<1>8. ASSUME NEW k \in Keys, NEW z \in Sizes, StoreReset(w, k, z)
      PROVE  StructInv'
  <2>1. /\ mutex' = w /\ pc'[w] = "entry" /\ reset' = reset /\ reset
        /\ tree' = {} /\ usedQueue' = <<>> /\ freeQueue' = <<>>
        /\ entriesEnd' = 0
    BY <1>1, <1>8 DEF StoreReset, ResetStructures
  <2>2. Used' = {} /\ QueuesOK' /\ KeysOK'
    BY <2>1 DEF Used, QueuesOK, KeysOK, Range, IsInjective
  <2>3. OwnerOK(w)'
    BY <2>1, <2>2 DEF OwnerOK, Evicting, MissingOf
  <2> QED
    BY <2>1, <2>3 DEF StructInv
<1>9. ASSUME NEW k \in Keys, NEW z \in Sizes, StoreLock(w, k, z)
      PROVE  StructInv'
  <2>1. StructOK /\ UNCHANGED shared
    BY <1>9 DEF StoreLock, StructInv
  <2>2. StructOK'
    BY <2>1 DEF StructOK, QueuesOK, KeysOK
  <2>3. /\ mutex' = w /\ pc'[w] = "evict"
        /\ Expiration = 0 => op'[w].left = 0
    BY <1>1, <1>9 DEF StoreLock, NoOp
  <2>4. OwnerOK(w)'
    BY <2>2, <2>3 DEF OwnerOK, StructOK, Evicting, NewKey, MissingOf, Used
  <2> QED
    BY <2>3, <2>4 DEF StructInv
<1>10. CASE FinishCopy(w) \/ DropStoreRef(w)
  <2>1. \A f \in Slot : entry'[f].key = entry[f].key
    <3>1. CASE FinishCopy(w)
      BY <1>1, <3>1, SMTT(40) DEF FinishCopy, EntryType
    <3>2. CASE DropStoreRef(w)
      <4>1. op[w].e \in Slot
        BY <3>2 DEF DropStoreRef, TypeInv, PointersOK, LocalsOK
      <4> QED
        BY <1>1, <3>2, <4>1 DEF DropStoreRef, EntryType
    <3> QED
      BY <1>10, <3>1, <3>2
  <2>2. /\ pc[w] \notin LockedPCs /\ UNCHANGED <<queues, entriesEnd, reset, mutex>>
        /\ \A v \in Workers \ {w} : pc'[v] = pc[v] /\ op'[v] = op[v]
    BY <1>1, <1>10 DEF FinishCopy, DropStoreRef
  <2> QED
    BY <1>1, <1>2, <2>1, <2>2
<1> QED
  BY <1>3, <1>4, <1>5, <1>6, <1>7, <1>8, <1>9, <1>10 DEF UnlockedStep

\* Init and every step keep the structures whole.
LEMMA StructInvariant ==
  ASSUME Expiration = 0 \/ MaxKills = 0
  PROVE  Spec => []StructInv
<1>1. Init => StructInv
  BY ConstantsAssumption
     DEF Init, StructInv, StructOK, QueuesOK, KeysOK, Range, IsInjective
<1>2. TypeInv /\ StructInv /\ [Next]_vars => StructInv'
  <2> SUFFICES ASSUME TypeInv, StructInv, [Next]_vars PROVE StructInv'
    OBVIOUS
  <2>1. CASE Tick \/ UNCHANGED vars
    BY <2>1 DEF Tick, vars, StructInv, StructOK, OwnerOK, QueuesOK, KeysOK, Used,
                NewKey, Evicting, MissingOf
  <2>2. CASE \E w \in Workers : StoreStep(w) \/ UnlockedStep(w)
    BY <2>2, StoreStepStruct, UnlockedStepStruct
  <2> QED
    BY <2>1, <2>2 DEF Next
<1> QED
  BY TypeInvariant, <1>1, <1>2, PTL DEF Spec

\* The flag reset does its job in a cache without expiration, however often
\* workers are killed, and without kills in any cache: whenever a worker finds
\* the mutex free and the flag clear, the tree and the queues are whole.  What
\* remains, a kill during the eviction of expired entries, breaks it.
THEOREM CrashConsistency ==
  ASSUME Expiration = 0 \/ MaxKills = 0
  PROVE  Spec => []CrashConsistent
<1>1. StructInv => CrashConsistent
  BY DEF StructInv, CrashConsistent
<1> QED
  BY StructInvariant, <1>1, PTL

=============================================================================
