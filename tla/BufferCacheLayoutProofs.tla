------------------------ MODULE BufferCacheLayoutProofs -----------------------
(* The memory layout of the shared buffer cache: the entries array and the *)
(* buffers of the used entries never meet, for every wrap around of the    *)
(* cyclic area, every alignment and every number of workers.               *)
EXTENDS BufferCacheProofs

USE DEF Slot, PCs, LockedPCs, FreeingPCs, EntryStates, flags, queues, area, env, shared,
        Goto

-----------------------------------------------------------------------------
(* The inductive invariant.  The buffers of the used queue, from the oldest *)
(* to the youngest, descend from buffers_read to buffers_start and go on   *)
(* from the end of the area down to buffers_write.                          *)

End(e) == entry[e].start + entry[e].size

\* The write position has wrapped around and is above the read position.
Wrapped == buffersWrite >= buffersRead
Low(e) == End(e) < buffersRead
High(e) == entry[e].start >= buffersWrite

\* The buffer of e is where a used entry's buffer may be.
Placed(e) ==
  /\ buffersStart <= entry[e].start /\ End(e) < BuffersEnd
  /\ Low(e) \/ High(e)
  /\ ~Wrapped => Low(e) /\ High(e)

\* f was stored after e.
Follows(f, e) ==
  \/ Wrapped /\ Low(e) /\ High(f)
  \/ End(f) < entry[e].start /\ (Wrapped /\ High(e) => High(f))

Ordered ==
  \A i, j \in DOMAIN usedQueue : i < j => Follows(usedQueue[j], usedQueue[i])

BoundsOK ==
  /\ entriesEnd * EntrySize <= buffersStart
  /\ buffersStart <= buffersRead
  /\ buffersRead <= BuffersEnd /\ buffersWrite <= BuffersEnd

AreaOK == BoundsOK /\ (\A e \in Used : Placed(e)) /\ Ordered

EmptyOK ==
  usedQueue = <<>> => buffersRead = BuffersEnd /\ buffersWrite = BuffersEnd

\* The worker has a tentative address for its buffer.
HasBuffer(w) ==
  \/ pc[w] = "buffer"
  \/ pc[w] \in FreeingPCs /\ op[w].ret = "buffer"

\* What the holder of the mutex has done to the area and not yet finished.
OwnerArea(w) ==
  /\ AreaOK
  /\ pc[w] \notin {"free_pointers", "link_queue"} => EmptyOK
  /\ pc[w] = "free_pointers" =>
       Placed(op[w].victim) /\ \A e \in Used : Follows(e, op[w].victim)
  /\ HasBuffer(w) => op[w].buf + op[w].size < buffersWrite
  /\ pc[w] = "init" =>
       /\ buffersStart <= op[w].buf /\ op[w].buf + op[w].size < buffersWrite
       /\ ~RoomBelow => op[w].buf > buffersRead
  /\ pc[w] = "link_queue" =>
       Placed(op[w].e) /\ \A e \in Used : Follows(op[w].e, e)

Disjoint ==
  \A e, f \in Used : e # f => End(e) < entry[f].start \/ End(f) < entry[e].start

LayoutInv ==
  /\ mutex = None /\ ~reset => AreaOK /\ EmptyOK
  /\ \A w \in Workers : mutex = w => OwnerArea(w)
  /\ Disjoint

-----------------------------------------------------------------------------
(* Facts about the area.                                                   *)

LEMMA AlignDownBelow ==
  ASSUME NEW a \in Int PROVE AlignDown(a) \in Int /\ AlignDown(a) <= a
BY ConstantsAssumption DEF AlignDown

LEMMA MarginAboveEntries ==
  ASSUME NEW n \in Nat, NEW m \in Nat, NEW s \in Nat \ {0}
  PROVE  n * s \in Nat /\ (n + m) * s \in Nat /\ n * s <= (n + m) * s
<1>1. (n + m) * s = n * s + m * s
  OBVIOUS
<1>2. n * s \in Nat /\ m * s \in Nat
  OBVIOUS
<1> QED
  BY <1>1, <1>2

\* Buffers are intervals of the zone.
LEMMA Numbers ==
  ASSUME TypeInv
  PROVE  /\ \A e \in Slot : /\ entry[e].start \in Int /\ entry[e].size \in Nat
                            /\ End(e) \in Int /\ entry[e].start <= End(e)
         /\ buffersStart \in Int /\ buffersRead \in Int /\ buffersWrite \in Int
         /\ entriesEnd \in Nat /\ BuffersEnd \in Nat
         /\ entriesEnd * EntrySize \in Nat
<1>1. EntrySize \in Nat \ {0} /\ BuffersEnd \in Nat /\ entriesEnd \in Nat
  BY ConstantsAssumption DEF TypeInv, TypeOK, AreaType
<1>2. entriesEnd * EntrySize \in Nat
  BY <1>1
<1>3. \A e \in Slot : entry[e].start \in Int /\ entry[e].size \in Nat
  BY DEF TypeInv, TypeOK, EntriesType, EntryType
<1> QED
  BY <1>1, <1>2, <1>3 DEF TypeInv, TypeOK, AreaType, End

\* A whole area keeps the buffers of different entries apart.
LEMMA AreaDisjoint == TypeInv /\ AreaOK => Disjoint
<1> SUFFICES ASSUME TypeInv, AreaOK PROVE Disjoint
  OBVIOUS
<1>1. Used \subseteq Slot
  BY UsedInSlot DEF TypeInv
<1>2. ASSUME NEW e \in Used, NEW f \in Used, Follows(f, e)
      PROVE  End(e) < entry[f].start \/ End(f) < entry[e].start
  BY <1>1, <1>2, Numbers DEF Follows, Wrapped, Low, High
<1>3. ASSUME NEW e \in Used, NEW f \in Used, e # f
      PROVE  Follows(f, e) \/ Follows(e, f)
  <2>1. PICK i \in DOMAIN usedQueue, j \in DOMAIN usedQueue :
          e = usedQueue[i] /\ f = usedQueue[j]
    BY DEF Used, Range
  <2>2. i \in Nat /\ j \in Nat /\ i # j
    BY <1>3, <2>1 DEF TypeInv, TypeOK, QueuesType
  <2>3. i < j \/ j < i
    BY <2>2
  <2> QED
    BY <2>1, <2>3 DEF AreaOK, Ordered
<1> QED
  BY <1>2, <1>3 DEF Disjoint

\* Steps that change neither the queue nor the area nor a used buffer.
LEMMA SameArea ==
  ASSUME TypeInv, UNCHANGED <<usedQueue, buffersStart, buffersRead, buffersWrite>>,
         \A e \in Used : /\ entry'[e].start = entry[e].start
                         /\ entry'[e].size = entry[e].size
  PROVE  /\ Used' = Used
         /\ EmptyOK => EmptyOK'
         /\ Disjoint => Disjoint'
         /\ \A e \in Used : Placed(e) => Placed(e)'
         /\ Ordered => Ordered'
<1>1. Used' = Used
  BY DEF Used
<1>2. \A e \in Used : End(e)' = End(e)
  BY DEF End
<1>3. EmptyOK => EmptyOK'
  BY DEF EmptyOK
<1>4. Disjoint => Disjoint'
  BY <1>1, <1>2 DEF Disjoint
<1>5. \A e \in Used : Placed(e) => Placed(e)'
  BY <1>2 DEF Placed, Low, High, Wrapped
<1>6. \A e, f \in Used : Follows(f, e) => Follows(f, e)'
  BY <1>2 DEF Follows, Low, High, Wrapped
<1>7. \A i \in DOMAIN usedQueue : usedQueue[i] \in Used
  BY DEF Used, Range
<1>8. Ordered => Ordered'
  BY <1>6, <1>7 DEF Ordered
<1> QED
  BY <1>1, <1>3, <1>4, <1>5, <1>8

LEMMA SameAreaOK ==
  ASSUME TypeInv, AreaOK,
         UNCHANGED <<usedQueue, entriesEnd, buffersStart, buffersRead, buffersWrite>>,
         \A e \in Used : /\ entry'[e].start = entry[e].start
                         /\ entry'[e].size = entry[e].size
  PROVE  AreaOK'
<1>1. Used' = Used /\ (\A e \in Used : Placed(e)') /\ Ordered'
  BY SameArea DEF AreaOK
<1>2. BoundsOK'
  BY DEF AreaOK, BoundsOK
<1> QED
  BY <1>1, <1>2 DEF AreaOK
-----------------------------------------------------------------------------
(* The steps of the holder of the mutex that change the layout.            *)

\* The victim leaves the used queue and everything in it follows the victim.
LEMMA FreeToQueueArea ==
  ASSUME TypeInv, NEW w \in Workers, OwnerOK(w), OwnerArea(w), FreeToQueue(w)
  PROVE  OwnerArea(w)'
<1>1. /\ usedQueue \in Seq(Slot) /\ usedQueue # <<>>
      /\ op[w].victim = Head(usedQueue) /\ pc \in [Workers -> PCs]
      /\ IsInjective(usedQueue)
  BY DEF FreeToQueue, TypeInv, TypeOK, QueuesType, ControlType, PointersOK, LocalsOK,
         OwnerOK, QueuesOK
<1>2. /\ UNCHANGED <<area, entry, op>> /\ usedQueue' = Tail(usedQueue)
      /\ pc[w] = "free_queue" /\ pc'[w] = "free_pointers"
  BY <1>1 DEF FreeToQueue
<1>3. op[w].victim \in Used /\ Used' = Used \ {op[w].victim}
  BY <1>1, <1>2, RangeTail DEF Used
<1>4. /\ \A e, f : Follows(f, e)' = Follows(f, e)
      /\ \A e : Placed(e)' = Placed(e)
  BY <1>2 DEF Follows, Placed, Low, High, End, Wrapped
<1>5. /\ Len(usedQueue) \in Nat /\ Len(usedQueue) >= 1 /\ Head(usedQueue) = usedQueue[1]
      /\ DOMAIN usedQueue = 1 .. Len(usedQueue)
      /\ DOMAIN usedQueue' = 1 .. Len(usedQueue) - 1
      /\ \A i \in DOMAIN usedQueue' : usedQueue'[i] = usedQueue[i + 1]
  BY <1>1, <1>2
<1>6. AreaOK /\ BoundsOK' /\ (\A e \in Used' : Placed(e)')
  BY <1>2, <1>3, <1>4 DEF OwnerArea, AreaOK, BoundsOK
<1>7. Ordered'
  <2> SUFFICES ASSUME NEW i \in DOMAIN usedQueue', NEW j \in DOMAIN usedQueue', i < j
               PROVE  Follows(usedQueue'[j], usedQueue'[i])
    BY <1>4 DEF Ordered
  <2>1. i + 1 \in DOMAIN usedQueue /\ j + 1 \in DOMAIN usedQueue /\ i + 1 < j + 1
    BY <1>5
  <2> QED
    BY <1>5, <1>6, <2>1 DEF AreaOK, Ordered
<1>8. ASSUME NEW e \in Used' PROVE Follows(e, op[w].victim)
  <2>1. PICK j \in DOMAIN usedQueue : e = usedQueue[j]
    BY <1>3 DEF Used, Range
  <2>2. 1 \in DOMAIN usedQueue /\ 1 < j
    BY <1>1, <1>3, <1>5, <2>1
  <2> QED
    BY <1>1, <1>5, <1>6, <2>1, <2>2 DEF AreaOK, Ordered
<1>9. HasBuffer(w)' => HasBuffer(w)
  BY <1>2 DEF HasBuffer
<1>10. (Placed(op[w].victim) /\ \A e \in Used : Follows(e, op[w].victim))'
  <2>1. Placed(op[w].victim)' /\ op' = op
    BY <1>2, <1>3, <1>4, <1>6 DEF AreaOK
  <2>2. \A e \in Used' : Follows(e, op[w].victim)'
    BY <1>2, <1>8 DEF Follows, Low, High, End, Wrapped
  <2> QED
    BY <2>1, <2>2
<1> QED
  BY <1>2, <1>6, <1>7, <1>9, <1>10 DEF OwnerArea, AreaOK

\* The victim v is gone and buffers_read moves to its start.
LEMMA ReadMoved ==
  ASSUME TypeInv, NEW v \in Slot, Placed(v), AreaOK,
         \A e \in Used : Follows(e, v),
         buffersRead' = entry[v].start,
         UNCHANGED <<usedQueue, entry, entriesEnd, buffersStart, buffersWrite>>
  PROVE  AreaOK'
<1>1. Used' = Used /\ Used \subseteq Slot
  BY UsedInSlot DEF TypeInv, Used
<1>2. BoundsOK'
  BY Numbers DEF AreaOK, BoundsOK, Placed
<1>3. ASSUME NEW e \in Used PROVE Placed(e)'
  BY <1>1, <1>3, Numbers DEF AreaOK, BoundsOK, Placed, Follows, Wrapped, Low, High, End
<1>4. ASSUME NEW e \in Used, NEW f \in Used, Follows(f, e) PROVE Follows(f, e)'
  <2>1. /\ Follows(e, v) /\ Follows(f, v) /\ Placed(e) /\ Placed(f)
        /\ e \in Slot /\ f \in Slot
    BY <1>1 DEF AreaOK
  <2> QED
    BY <1>4, <2>1, Numbers DEF Placed, Follows, Wrapped, Low, High, End
<1>5. \A i \in DOMAIN usedQueue : usedQueue[i] \in Used
  BY DEF Used, Range
<1>6. Ordered'
  BY <1>4, <1>5 DEF AreaOK, Ordered
<1> QED
  BY <1>1, <1>2, <1>3, <1>6 DEF AreaOK

LEMMA FreePointersArea ==
  ASSUME TypeInv, NEW w \in Workers, OwnerArea(w), FreePointers(w)
  PROVE  OwnerArea(w)'
<1>1. /\ pc \in [Workers -> PCs] /\ op \in [Workers -> OpType]
      /\ op[w].victim \in Slot /\ op[w].ret \in {"evict", "size", "buffer"}
  BY DEF FreePointers, TypeInv, TypeOK, ControlType, LocalType, PointersOK, LocalsOK
<1>2. /\ UNCHANGED <<usedQueue, entry, entriesEnd, buffersStart>>
      /\ pc[w] = "free_pointers" /\ pc'[w] = op[w].ret
      /\ op'[w].buf = op[w].buf /\ op'[w].size = op[w].size
  BY <1>1 DEF FreePointers, OpType
<1>3. AreaOK /\ Placed(op[w].victim) /\ \A e \in Used : Follows(e, op[w].victim)
  BY <1>2 DEF OwnerArea
<1>4. AreaOK' /\ EmptyOK' /\ buffersWrite <= buffersWrite'
  <2>1. CASE usedQueue = <<>>
    <3>1. buffersRead' = BuffersEnd /\ buffersWrite' = BuffersEnd
      BY <2>1 DEF FreePointers
    <3>2. BoundsOK' /\ EmptyOK'
      BY <1>2, <1>3, <3>1, Numbers DEF AreaOK, BoundsOK, EmptyOK
    <3>3. Used' = {} /\ DOMAIN usedQueue' = {}
      BY <1>2, <2>1 DEF Used, Range
    <3>4. buffersWrite <= buffersWrite'
      BY <1>3, <3>1 DEF AreaOK, BoundsOK
    <3> QED
      BY <3>2, <3>3, <3>4 DEF AreaOK, Ordered
  <2>2. CASE usedQueue # <<>>
    <3>1. buffersRead' = entry[op[w].victim].start /\ buffersWrite' = buffersWrite
      BY <2>2 DEF FreePointers
    <3>2. AreaOK'
      BY <1>1, <1>2, <1>3, <3>1, ReadMoved
    <3> QED
      BY <1>2, <2>2, <3>1, <3>2, Numbers DEF EmptyOK
  <2> QED
    BY <2>1, <2>2
<1>5. HasBuffer(w)' => op[w].buf + op[w].size < buffersWrite'
  <2> SUFFICES ASSUME HasBuffer(w)' PROVE op[w].buf + op[w].size < buffersWrite'
    OBVIOUS
  <2>1. HasBuffer(w)
    BY <1>1, <1>2 DEF HasBuffer
  <2>2. op[w].buf + op[w].size < buffersWrite
    BY <2>1 DEF OwnerArea
  <2>3. buffersWrite' \in Int /\ op[w].buf \in Int /\ op[w].size \in Nat
    BY <1>1, Numbers DEF FreePointers, OpType
  <2> QED
    BY <1>4, <2>2, <2>3, Numbers
<1> QED
  BY <1>1, <1>2, <1>4, <1>5 DEF OwnerArea

\* A first step of free_oldest_entry changes the state of the victim only.
LEMMA BeginFreeArea ==
  ASSUME TypeInv, NEW w \in Workers, OwnerArea(w),
         pc[w] \in {"evict", "entry", "buffer"},
         NEW x, NEW r \in {"evict", "size", "buffer"}, NEW n \in Nat,
         BeginFree(w, x, r, n), r = "buffer" => pc[w] = "buffer"
  PROVE  OwnerArea(w)'
<1>1. /\ pc \in [Workers -> PCs] /\ op \in [Workers -> OpType]
      /\ entry \in [Slot -> EntryType] /\ Used \subseteq Slot
  BY UsedInSlot DEF TypeInv, TypeOK, ControlType, LocalType, EntriesType
<1>2. /\ UNCHANGED <<usedQueue, area>> /\ pc'[w] = "free_tree" /\ op'[w].ret = r
      /\ op'[w].buf = op[w].buf /\ op'[w].size = op[w].size
  BY <1>1 DEF BeginFree, OpType
<1>3. \A e \in Slot : entry'[e].start = entry[e].start /\ entry'[e].size = entry[e].size
  BY <1>1 DEF BeginFree, EntryType
<1>4. AreaOK /\ EmptyOK
  BY DEF OwnerArea
<1>5. AreaOK' /\ EmptyOK'
  BY <1>1, <1>2, <1>3, <1>4, SameArea, SameAreaOK
<1>6. HasBuffer(w)' => pc[w] = "buffer"
  BY <1>2 DEF HasBuffer
<1> QED
  BY <1>2, <1>5, <1>6 DEF OwnerArea, HasBuffer

\* The area grows down, or the free room in it is taken.
LEMMA AllocBufferArea ==
  ASSUME TypeInv, NEW w \in Workers, OwnerArea(w), AllocBuffer(w)
  PROVE  OwnerArea(w)'
<1>1. /\ pc \in [Workers -> PCs] /\ op[w].buf \in Int /\ op[w].size \in Nat
      /\ pc[w] = "buffer" /\ AreaOK /\ EmptyOK
      /\ op[w].buf + op[w].size < buffersWrite
  BY DEF AllocBuffer, TypeInv, TypeOK, ControlType, LocalType, OpType, OwnerArea, HasBuffer
<1>2. /\ UNCHANGED <<usedQueue, entry, entriesEnd, buffersRead, buffersWrite, op>>
      /\ pc'[w] = "init"
  BY <1>1 DEF AllocBuffer
<1>3. entriesEnd * EntrySize <= Margin
  BY ConstantsAssumption, MarginAboveEntries DEF Margin, TypeInv, TypeOK, AreaType
<1>4. Margin \in Int
  BY ConstantsAssumption, MarginAboveEntries DEF Margin, TypeInv, TypeOK, AreaType
<1>5. /\ buffersStart' \in Int /\ buffersStart' <= buffersStart
      /\ entriesEnd * EntrySize <= buffersStart'
      /\ RoomBelow => buffersStart' <= op[w].buf
      /\ ~RoomBelow => buffersStart' = buffersStart /\ op[w].buf > buffersRead
  BY <1>1, <1>3, <1>4, Numbers DEF AllocBuffer, AreaOK, BoundsOK
<1>6. BoundsOK'
  BY <1>1, <1>2, <1>5, Numbers DEF AreaOK, BoundsOK
<1>7. /\ Used' = Used /\ Used \subseteq Slot
      /\ \A e \in Used : Placed(e)'
  <2>1. Used' = Used /\ Used \subseteq Slot
    BY <1>2, UsedInSlot DEF TypeInv, Used
  <2> QED
    BY <1>1, <1>2, <1>5, <2>1, Numbers
       DEF AreaOK, Placed, Low, High, Wrapped, End
<1>8. Ordered'
  BY <1>1, <1>2 DEF AreaOK, Ordered, Follows, Low, High, Wrapped, End
<1>9. RoomBelow' = RoomBelow /\ EmptyOK'
  BY <1>1, <1>2 DEF RoomBelow, EmptyOK
<1>10. buffersStart' <= op[w].buf
  BY <1>1, <1>5, Numbers DEF AreaOK, BoundsOK
<1> QED
  BY <1>1, <1>2, <1>5, <1>6, <1>7, <1>8, <1>9, <1>10 DEF OwnerArea, AreaOK, HasBuffer

\* The write position wraps around to the end of the area.
LEMMA WrapWriteArea ==
  ASSUME TypeInv, NEW w \in Workers, OwnerArea(w), WrapWrite(w)
  PROVE  OwnerArea(w)'
<1>1. /\ op \in [Workers -> OpType] /\ op[w].size \in Nat
      /\ pc[w] = "buffer" /\ AreaOK /\ EmptyOK /\ RoomBelow
  BY DEF WrapWrite, TypeInv, TypeOK, LocalType, OpType, OwnerArea
<1>2. /\ UNCHANGED <<usedQueue, entry, entriesEnd, buffersStart, buffersRead, pc>>
      /\ buffersWrite' = BuffersEnd
      /\ op'[w].buf = AlignDown(BuffersEnd - (op[w].size + 1))
      /\ op'[w].size = op[w].size
  BY <1>1 DEF WrapWrite, OpType
<1>3. op'[w].buf + op'[w].size < buffersWrite'
  BY <1>1, <1>2, Numbers, AlignDownBelow
<1>4. BoundsOK' /\ EmptyOK'
  BY <1>1, <1>2, Numbers DEF AreaOK, BoundsOK, EmptyOK
<1>5. /\ Used' = Used /\ Used \subseteq Slot
      /\ Used # {} => buffersWrite < buffersRead
  <2>1. Used' = Used /\ Used \subseteq Slot
    BY <1>2, UsedInSlot DEF TypeInv, Used
  <2>2. usedQueue = <<>> => Used = {}
    BY DEF Used, Range
  <2> QED
    BY <1>1, <2>1, <2>2 DEF RoomBelow
<1>6. ASSUME NEW e \in Used PROVE Placed(e)'
  <2>1. Placed(e) /\ e \in Slot /\ buffersWrite < buffersRead
    BY <1>1, <1>5 DEF AreaOK
  <2> QED
    BY <1>1, <1>2, <2>1, Numbers DEF AreaOK, BoundsOK, Placed, Low, High, Wrapped, End
<1>7. ASSUME NEW e \in Used, NEW f \in Used, Follows(f, e) PROVE Follows(f, e)'
  <2>1. Placed(e) /\ e \in Slot /\ f \in Slot /\ buffersWrite < buffersRead
    BY <1>1, <1>5 DEF AreaOK
  <2> QED
    BY <1>2, <1>7, <2>1, Numbers DEF Placed, Follows, Low, High, Wrapped, End
<1>8. \A i \in DOMAIN usedQueue : usedQueue[i] \in Used
  BY DEF Used, Range
<1>9. Ordered'
  BY <1>1, <1>2, <1>7, <1>8 DEF AreaOK, Ordered
<1> QED
  BY <1>1, <1>2, <1>3, <1>4, <1>5, <1>6, <1>9 DEF OwnerArea, AreaOK, HasBuffer

\* The entry takes its buffer and the write position moves to its start.
LEMMA InitEntryArea ==
  ASSUME TypeInv, NEW w \in Workers, OwnerOK(w), OwnerArea(w), InitEntry(w)
  PROVE  OwnerArea(w)'
<1> DEFINE n == op[w].e
<1>0. PICK b \in Int, z \in Nat : op[w].buf = b /\ op[w].size = z
  BY DEF TypeInv, TypeOK, LocalType, OpType
<1>1. /\ pc \in [Workers -> PCs]
      /\ entry \in [Slot -> EntryType] /\ freeQueue \in Seq(Slot)
      /\ freeQueue # <<>> /\ n = Head(freeQueue)
  BY DEF InitEntry, TypeInv, TypeOK, ControlType, EntriesType, QueuesType, PointersOK, LocalsOK, HasEntry
<1>2. n \in Slot /\ n \notin Used /\ Used \subseteq Slot
  <2>1. n \in Free
    BY <1>1, RangeTail DEF OwnerOK, QueuesOK, Free
  <2> QED
    BY <2>1, UsedInSlot DEF OwnerOK, QueuesOK, Free, Used, TypeInv
<1>3. /\ UNCHANGED <<usedQueue, entriesEnd, buffersStart, buffersRead, op>>
      /\ buffersWrite' = b /\ pc[w] = "init" /\ pc'[w] = "link_queue"
      /\ \A e \in Used : entry'[e] = entry[e]
      /\ entry'[n].start = b /\ End(n)' = b + z
  <2>1. pc[w] = "init" /\ pc'[w] = "link_queue"
    BY <1>1 DEF InitEntry
  <2>2. \A e \in Slot \ {n} : entry'[e] = entry[e]
    BY <1>1, <1>2 DEF InitEntry
  <2>3. entry'[n].start = b /\ entry'[n].size = z
    BY <1>0, <1>1, <1>2 DEF InitEntry, EntryType
  <2>4. op' = op /\ End(n)' = b + z
    BY <2>3 DEF InitEntry, End
  <2> QED
    BY <1>0, <1>2, <2>1, <2>2, <2>3, <2>4 DEF InitEntry
<1>4. /\ AreaOK /\ EmptyOK
      /\ buffersStart <= b /\ b + z < buffersWrite
      /\ ~RoomBelow => b > buffersRead
  BY <1>0, <1>3 DEF OwnerArea
<1>5. Used' = Used /\ (usedQueue = <<>> <=> Used = {})
  <2>1. usedQueue # <<>> => Head(usedQueue) \in Used
    BY RangeTail DEF OwnerOK, QueuesOK, Used, TypeInv, TypeOK, QueuesType
  <2> QED
    BY <1>3, <2>1 DEF Used, Range
<1>14. /\ buffersWrite' \in Int /\ buffersWrite \in Int /\ buffersRead \in Int
       /\ buffersStart \in Int /\ BuffersEnd \in Nat
       /\ buffersWrite' < buffersWrite /\ buffersWrite <= BuffersEnd
       /\ buffersRead' = buffersRead /\ buffersStart' = buffersStart
       /\ buffersStart <= buffersWrite'
       /\ buffersWrite' = b
  <2>1. buffersWrite <= BuffersEnd
    BY <1>4 DEF AreaOK, BoundsOK
  <2> QED
    BY <1>3, <1>4, <2>1, Numbers
<1>6. BoundsOK'
  BY <1>3, <1>4, <1>14 DEF AreaOK, BoundsOK
<1>7. \/ buffersWrite < buffersRead
      \/ Used = {} /\ buffersRead = BuffersEnd /\ buffersWrite = BuffersEnd
      \/ buffersWrite >= buffersRead /\ b > buffersRead
  BY <1>4, <1>5, Numbers DEF RoomBelow, EmptyOK
<1>8. \A e \in Used : /\ Placed(e)
                      /\ entry[e].start \in Int /\ End(e) \in Int
                      /\ entry[e].start <= End(e)
                      /\ entry'[e].start = entry[e].start /\ End(e)' = End(e)
  <2>1. \A e \in Used : End(e)' = End(e)
    BY <1>3 DEF End
  <2> QED
    BY <1>2, <1>3, <1>4, <2>1, Numbers DEF AreaOK
<1>9. ASSUME NEW e \in Used PROVE Placed(e)'
  <2>1. Low(e)' = Low(e) /\ (High(e) => High(e)')
    BY <1>8, <1>14 DEF Low, High
  <2>2. Wrapped \/ Low(e)
    BY <1>8 DEF Placed
  <2>3. Wrapped => Wrapped'
    BY <1>3, <1>7, <1>14 DEF Wrapped
  <2> QED
    BY <1>8, <1>14, <2>1, <2>3 DEF Placed
<1>10. ASSUME NEW e \in Used, NEW f \in Used, Follows(f, e) PROVE Follows(f, e)'
  <2>1. CASE buffersWrite < buffersRead
    <3>1. ~Wrapped /\ ~Wrapped'
      BY <1>14, <2>1 DEF Wrapped
    <3> QED
      BY <1>8, <1>10, <3>1 DEF Follows
  <2>2. CASE buffersWrite >= buffersRead /\ b > buffersRead
    <3>1. Wrapped /\ Wrapped'
      BY <1>3, <1>14, <2>2 DEF Wrapped
    <3>2. Low(e)' = Low(e) /\ (High(f) => High(f)')
      BY <1>8, <1>14 DEF Low, High
    <3>4. Low(e) => ~High(e)'
      BY <1>3, <1>8, <1>14, <2>2 DEF Low, High
    <3>3. Low(e) \/ High(e)
      BY <1>8 DEF Placed
    <3> QED
      BY <1>8, <1>10, <3>1, <3>2, <3>3, <3>4 DEF Follows
  <2> QED
    BY <1>7, <2>1, <2>2
<1>11. Ordered'
  <2>1. \A i \in DOMAIN usedQueue : usedQueue[i] \in Used
    BY DEF Used, Range
  <2> QED
    BY <1>3, <1>4, <1>10, <2>1 DEF AreaOK, Ordered
<1>12. Placed(op[w].e)'
  <2>1. Placed(n)'
    BY <1>3, <1>4, <1>7, <1>14 DEF Placed, Low, High, Wrapped
  <2> QED
    BY <1>3, <2>1 DEF Placed, Low, High, End
<1>13. ASSUME NEW e \in Used PROVE Follows(op[w].e, e)'
  <2>1. High(n)' /\ End(n)' < buffersWrite
    BY <1>3, <1>4, <1>14 DEF High
  <2>2. Low(e) => Low(e)'
    BY <1>8, <1>14 DEF Low
  <2>3. High(e) => End(n)' < entry[e].start
    BY <1>3, <1>4, <1>8, <1>14 DEF High
  <2>4. High(e) \/ (Low(e) /\ Wrapped')
    BY <1>3, <1>7, <1>8, <1>14 DEF Placed, Wrapped
  <2>5. Follows(n, e)'
    BY <1>8, <2>1, <2>2, <2>3, <2>4 DEF Follows
  <2> QED
    BY <1>3, <2>5 DEF Follows, Low, High, End
<1> QED
  BY <1>3, <1>5, <1>6, <1>9, <1>11, <1>12, <1>13 DEF OwnerArea, AreaOK, HasBuffer

\* The new entry becomes the youngest of the used queue.
LEMMA LinkQueueArea ==
  ASSUME TypeInv, NEW w \in Workers, OwnerArea(w), LinkQueue(w)
  PROVE  OwnerArea(w)'
<1> DEFINE n == op[w].e
<1>1. /\ pc \in [Workers -> PCs] /\ usedQueue \in Seq(Slot) /\ n \in Slot
      /\ pc[w] = "link_queue"
  BY HeadIn DEF LinkQueue, TypeInv, TypeOK, ControlType, QueuesType, PointersOK, LocalsOK,
     HasEntry
<1>2. /\ UNCHANGED <<area, entry, op>> /\ pc'[w] = "link_tree"
      /\ usedQueue' = Append(usedQueue, n)
  BY <1>1 DEF LinkQueue
<1>3. AreaOK /\ Placed(n) /\ \A e \in Used : Follows(n, e)
  BY <1>1 DEF OwnerArea
<1>4. /\ \A e, f : Follows(f, e)' = Follows(f, e)
      /\ \A e : Placed(e)' = Placed(e)
  BY <1>2 DEF Follows, Placed, Low, High, End, Wrapped
<1>5. Used' = Used \cup {n}
  <2> HIDE DEF n, Slot
  <2>1. Range(Append(usedQueue, n)) = Range(usedQueue) \cup {n}
    BY <1>1, RangeAppend
  <2> QED
    BY <1>2, <2>1 DEF Used
<1>6. BoundsOK' /\ \A e \in Used' : Placed(e)'
  BY <1>2, <1>3, <1>4, <1>5 DEF AreaOK, BoundsOK
<1>7. /\ Len(usedQueue) \in Nat /\ DOMAIN usedQueue = 1 .. Len(usedQueue)
      /\ DOMAIN usedQueue' = 1 .. Len(usedQueue) + 1
      /\ usedQueue'[Len(usedQueue) + 1] = n
      /\ \A i \in 1 .. Len(usedQueue) : usedQueue'[i] = usedQueue[i]
  BY <1>1, <1>2
<1>8. Ordered'
  <2> SUFFICES ASSUME NEW i \in DOMAIN usedQueue', NEW j \in DOMAIN usedQueue', i < j
               PROVE  Follows(usedQueue'[j], usedQueue'[i])
    BY <1>4 DEF Ordered
  <2>1. i \in DOMAIN usedQueue /\ usedQueue'[i] = usedQueue[i] /\ usedQueue[i] \in Used
    BY <1>7 DEF Used, Range
  <2>2. CASE j \in DOMAIN usedQueue
    BY <1>3, <1>7, <2>1, <2>2 DEF AreaOK, Ordered
  <2>3. CASE j \notin DOMAIN usedQueue
    <3>1. usedQueue'[j] = n
      BY <1>7, <2>3
    <3> QED
      BY <1>3, <2>1, <3>1
  <2> QED
    BY <2>2, <2>3
<1>9. usedQueue' # <<>>
  BY <1>7
<1> QED
  BY <1>2, <1>6, <1>8, <1>9 DEF OwnerArea, AreaOK, EmptyOK, HasBuffer

LEMMA StoreStepArea ==
  ASSUME TypeInv, StructInv, LayoutInv, NEW w \in Workers, StoreStep(w)
  PROVE  LayoutInv'
<1>1. mutex = w /\ OwnerOK(w) /\ OwnerArea(w) /\ AreaOK /\ LocalsOK(w)
  <2>1. mutex = w
    BY DEF TypeInv, MutexOK, StoreStep, FreeFromTree, FreeToQueue, FreePointers,
           EvictExpired, StoreLookup, TakeFreeEntry, GrowEntries,
           EvictForEntry, NoEntry, TooBig, BeginAlloc, AllocBuffer, WrapWrite,
           EvictForBuffer, NoBuffer, InitEntry, LinkQueue, LinkTree, Commit
  <2> QED
    BY <2>1 DEF StructInv, LayoutInv, OwnerArea, TypeInv, PointersOK
<1>2. TypeInv'
  BY StoreStepType, StoreStepMutex, StoreStepPointers DEF TypeInv
<1>3. ASSUME mutex' = w, OwnerArea(w)' PROVE LayoutInv'
  <2>1. Disjoint'
    <3>1. TypeInv' /\ AreaOK'
      BY <1>2, <1>3 DEF OwnerArea
    <3>2. (TypeInv /\ AreaOK => Disjoint)'
      BY AreaDisjoint, PTL
    <3> QED
      BY <3>1, <3>2
  <2>2. mutex' # None
    BY <1>3, ConstantsAssumption
  <2> QED
    BY <1>3, <2>1, <2>2 DEF LayoutInv
<1>4. ASSUME mutex' = None, AreaOK', EmptyOK' PROVE LayoutInv'
  <2>1. Disjoint'
    <3>1. TypeInv' /\ AreaOK'
      BY <1>2, <1>4
    <3>2. (TypeInv /\ AreaOK => Disjoint)'
      BY AreaDisjoint, PTL
    <3> QED
      BY <3>1, <3>2
  <2>2. \A v \in Workers : mutex' # v
    BY <1>4, ConstantsAssumption
  <2> QED
    BY <1>4, <2>1, <2>2 DEF LayoutInv
<1>5. /\ pc \in [Workers -> PCs] /\ op \in [Workers -> OpType]
      /\ entry \in [Slot -> EntryType] /\ Used \subseteq Slot
  BY UsedInSlot DEF TypeInv, TypeOK, ControlType, LocalType, EntriesType
\* Steps that leave the area alone.
<1>6. ASSUME UNCHANGED <<usedQueue, area, entry>>
      PROVE  AreaOK' /\ (EmptyOK => EmptyOK')
  BY <1>1, <1>6, SameArea, SameAreaOK
<1>7. CASE FreeFromTree(w)
  <2>1. /\ UNCHANGED <<usedQueue, area, entry, op, mutex>>
        /\ pc[w] = "free_tree" /\ pc'[w] = "free_queue"
    BY <1>5, <1>7 DEF FreeFromTree
  <2>2. OwnerArea(w)'
    BY <1>1, <1>6, <2>1 DEF OwnerArea, HasBuffer
  <2> QED
    BY <1>1, <1>3, <2>1, <2>2
<1>8. CASE FreeToQueue(w)
  BY <1>1, <1>3, <1>8, FreeToQueueArea DEF FreeToQueue
<1>9. CASE FreePointers(w)
  BY <1>1, <1>3, <1>9, FreePointersArea DEF FreePointers
<1>10. CASE EvictExpired(w)
  <2>1. op[w].left - 1 \in Nat
    BY <1>5, <1>10 DEF EvictExpired, OpType
  <2>2. OwnerArea(w)'
    BY <1>1, <1>10, <2>1, BeginFreeArea DEF EvictExpired
  <2> QED
    BY <1>1, <1>3, <1>10, <2>2 DEF EvictExpired, BeginFree
<1>11. CASE EvictForEntry(w) \/ EvictForBuffer(w)
  <2>1. op[w].left \in Nat
    BY <1>5 DEF OpType
  <2>2. OwnerArea(w)'
    BY <1>1, <1>11, <2>1, BeginFreeArea DEF EvictForEntry, EvictForBuffer
  <2> QED
    BY <1>1, <1>3, <1>11, <2>2 DEF EvictForEntry, EvictForBuffer, BeginFree
<1>12. CASE StoreLookup(w)
  <2>1. /\ UNCHANGED <<usedQueue, area, entry>> /\ pc[w] = "evict" /\ EmptyOK
        /\ mutex' = None \/ (mutex' = w /\ pc'[w] = "entry")
    BY <1>1, <1>5, <1>12 DEF StoreLookup, OwnerArea
  <2>2. AreaOK' /\ EmptyOK'
    BY <1>6, <2>1
  <2>3. pc'[w] = "entry" => OwnerArea(w)'
    BY <2>2 DEF OwnerArea, HasBuffer
  <2> QED
    BY <1>3, <1>4, <2>1, <2>2, <2>3
<1>13. CASE NoEntry(w) \/ TooBig(w) \/ NoBuffer(w)
  <2>1. /\ UNCHANGED <<usedQueue, area, entry>> /\ mutex' = None /\ EmptyOK
    BY <1>1, <1>13 DEF NoEntry, TooBig, NoBuffer, StoreFail, OwnerArea
  <2> QED
    BY <1>4, <1>6, <2>1
<1>14. CASE TakeFreeEntry(w)
  <2>1. /\ UNCHANGED <<usedQueue, area, entry, mutex>> /\ EmptyOK /\ pc'[w] = "size"
    BY <1>1, <1>5, <1>14 DEF TakeFreeEntry, OwnerArea
  <2> QED
    BY <1>1, <1>3, <1>6, <2>1 DEF OwnerArea, HasBuffer
<1>15. CASE GrowEntries(w)
  <2>1. /\ UNCHANGED <<usedQueue, buffersStart, buffersRead, buffersWrite, mutex>>
        /\ EmptyOK /\ pc'[w] = "size"
        /\ \A e \in Used : /\ entry'[e].start = entry[e].start
                           /\ entry'[e].size = entry[e].size
    BY <1>1, <1>5, <1>15 DEF GrowEntries, OwnerArea, EntryType
  <2>2. entriesEnd' = entriesEnd + 1 /\ (entriesEnd + 1) * EntrySize < buffersStart
    BY <1>15 DEF GrowEntries, CanGrowEntries
  <2>3. (entriesEnd + 1) * EntrySize <= buffersStart
    BY <2>2, Numbers, Growth, ConstantsAssumption
  <2>4. BoundsOK'
    BY <1>1, <2>1, <2>2, <2>3 DEF AreaOK, BoundsOK
  <2>5. AreaOK' /\ EmptyOK'
    BY <1>1, <2>1, <2>4, SameArea DEF AreaOK
  <2> QED
    BY <1>1, <1>3, <2>1, <2>5 DEF OwnerArea, HasBuffer
<1>16. CASE BeginAlloc(w)
  <2>1. /\ UNCHANGED <<usedQueue, area, entry, mutex>> /\ EmptyOK /\ pc'[w] = "buffer"
        /\ op'[w].buf = AlignDown(buffersWrite - (op[w].size + 1))
        /\ op'[w].size = op[w].size /\ op[w].size \in Nat
    BY <1>1, <1>5, <1>16 DEF BeginAlloc, OwnerArea, OpType
  <2>2. op'[w].buf + op'[w].size < buffersWrite'
    BY <2>1, Numbers, AlignDownBelow
  <2> QED
    BY <1>1, <1>3, <1>6, <2>1, <2>2 DEF OwnerArea, HasBuffer
<1>17. CASE AllocBuffer(w)
  BY <1>1, <1>3, <1>17, AllocBufferArea DEF AllocBuffer
<1>18. CASE WrapWrite(w)
  BY <1>1, <1>3, <1>18, WrapWriteArea DEF WrapWrite
<1>19. CASE InitEntry(w)
  BY <1>1, <1>3, <1>19, InitEntryArea DEF InitEntry
<1>20. CASE LinkQueue(w)
  BY <1>1, <1>3, <1>20, LinkQueueArea DEF LinkQueue
<1>21. CASE LinkTree(w)
  <2>1. /\ UNCHANGED <<usedQueue, area, entry, mutex>> /\ EmptyOK /\ pc'[w] = "commit"
    BY <1>1, <1>5, <1>21 DEF LinkTree, OwnerArea
  <2> QED
    BY <1>1, <1>3, <1>6, <2>1 DEF OwnerArea, HasBuffer
<1>22. CASE Commit(w)
  <2>1. /\ UNCHANGED <<usedQueue, area>> /\ EmptyOK /\ mutex' = None
        /\ \A e \in Used : /\ entry'[e].start = entry[e].start
                           /\ entry'[e].size = entry[e].size
    BY <1>1, <1>5, <1>22 DEF Commit, OwnerArea, EntryType
  <2>2. AreaOK' /\ EmptyOK'
    BY <1>1, <2>1, SameArea, SameAreaOK
  <2> QED
    BY <1>4, <2>1, <2>2
<1> QED
  BY <1>7, <1>8, <1>9, <1>10, <1>11, <1>12, <1>13, <1>14, <1>15, <1>16, <1>17,
     <1>18, <1>19, <1>20, <1>21, <1>22 DEF StoreStep

\* Steps beside the mutex, and a kill: the layout stays, torn or not.
LEMMA UnlockedStepArea ==
  ASSUME Expiration = 0 \/ MaxKills = 0,
         TypeInv, StructInv, LayoutInv, NEW w \in Workers, UnlockedStep(w)
  PROVE  LayoutInv'
<1>1. /\ pc \in [Workers -> PCs] /\ op \in [Workers -> OpType]
      /\ entry \in [Slot -> EntryType] /\ kills \in Nat /\ Used \subseteq Slot
      /\ \A v \in Workers : mutex = v <=> pc[v] \in LockedPCs
      /\ None \notin Workers
  BY UsedInSlot, ConstantsAssumption
     DEF TypeInv, TypeOK, ControlType, LocalType, EntriesType, MutexOK
<1>2. ASSUME UNCHANGED <<usedQueue, area>>,
             \A e \in Slot : /\ entry'[e].start = entry[e].start
                             /\ entry'[e].size = entry[e].size
      PROVE  /\ Disjoint' /\ (AreaOK => AreaOK') /\ (EmptyOK => EmptyOK')
             /\ Used' = Used
             /\ \A e \in Slot : Placed(e)' = Placed(e)
             /\ \A e, f \in Slot : Follows(f, e)' = Follows(f, e)
  <2>1. \A e \in Used : /\ entry'[e].start = entry[e].start
                        /\ entry'[e].size = entry[e].size
    BY <1>1, <1>2
  <2>2. \A e \in Slot : End(e)' = End(e)
    BY <1>2 DEF End
  <2> QED
    BY <1>2, <2>1, <2>2, SameArea, SameAreaOK
       DEF LayoutInv, Placed, Follows, Low, High, Wrapped
\* Steps that leave the holder of the mutex alone.
<1>3. ASSUME UNCHANGED <<usedQueue, area, reset, mutex>>,
             \A e \in Slot : /\ entry'[e].start = entry[e].start
                             /\ entry'[e].size = entry[e].size,
             \A v \in Workers : mutex = v => pc'[v] = pc[v] /\ op'[v] = op[v]
      PROVE  LayoutInv'
  <2>1. mutex' = None /\ ~reset' => AreaOK' /\ EmptyOK'
    BY <1>2, <1>3 DEF LayoutInv
  <2>2. ASSUME NEW v \in Workers, mutex' = v PROVE OwnerArea(v)'
    <3>1. /\ OwnerArea(v) /\ pc'[v] = pc[v] /\ op'[v] = op[v] /\ RoomBelow' = RoomBelow
          /\ HasBuffer(v)' = HasBuffer(v) /\ buffersWrite' = buffersWrite
      BY <1>3, <2>2 DEF LayoutInv, RoomBelow, HasBuffer
    <3>2. /\ pc[v] = "free_pointers" => op[v].victim \in Slot
          /\ pc[v] = "link_queue" => op[v].e \in Slot
      BY HeadIn DEF TypeInv, PointersOK, LocalsOK, HasEntry, TypeOK, QueuesType
    <3>3. ASSUME pc[v] = "free_pointers"
          PROVE  (Placed(op[v].victim) /\ \A e \in Used : Follows(e, op[v].victim))'
      <4>1. Placed(op[v].victim) /\ \A e \in Used : Follows(e, op[v].victim)
        BY <3>1, <3>3 DEF OwnerArea
      <4>2. op'[v].victim = op[v].victim /\ op[v].victim \in Slot
        BY <3>1, <3>2, <3>3
      <4>3. Placed(op[v].victim)'
        BY <1>2, <1>3, <4>1, <4>2 DEF Placed, Low, High, Wrapped, End
      <4>4. \A e \in Used : Follows(e, op[v].victim)'
        BY <1>1, <1>2, <1>3, <4>1, <4>2 DEF Follows, Low, High, Wrapped, End
      <4> QED
        BY <1>2, <1>3, <4>3, <4>4
    <3>4. ASSUME pc[v] = "link_queue"
          PROVE  (Placed(op[v].e) /\ \A e \in Used : Follows(op[v].e, e))'
      <4>1. Placed(op[v].e) /\ \A e \in Used : Follows(op[v].e, e)
        BY <3>1, <3>4 DEF OwnerArea
      <4>2. op'[v].e = op[v].e /\ op[v].e \in Slot
        BY <3>1, <3>2, <3>4
      <4>3. Placed(op[v].e)'
        BY <1>2, <1>3, <4>1, <4>2 DEF Placed, Low, High, Wrapped, End
      <4>4. \A e \in Used : Follows(op[v].e, e)'
        BY <1>1, <1>2, <1>3, <4>1, <4>2 DEF Follows, Low, High, Wrapped, End
      <4> QED
        BY <1>2, <1>3, <4>3, <4>4
    <3> QED
      BY <1>2, <1>3, <3>1, <3>3, <3>4 DEF OwnerArea
  <2> QED
    BY <1>2, <1>3, <2>1, <2>2 DEF LayoutInv
<1>4. CASE UpdateTime(w)
  BY <1>3, <1>4 DEF UpdateTime
<1>5. CASE Kill(w)
  <2>1. Expiration = 0 /\ UNCHANGED shared
    BY <1>1, <1>5 DEF Kill
  <2>2. CASE mutex = w
    <3>1. OwnerOK(w) /\ OwnerArea(w) /\ mutex' = None
      BY <1>5, <2>2 DEF Kill, StructInv, LayoutInv
    <3>2. ~reset => AreaOK /\ EmptyOK
      BY <2>1, <3>1 DEF OwnerOK, OwnerArea, Evicting
    <3> QED
      BY <1>1, <1>2, <2>1, <3>1, <3>2 DEF LayoutInv
  <2>3. CASE mutex # w
    BY <1>1, <1>3, <1>5, <2>3 DEF Kill
  <2> QED
    BY <2>2, <2>3
<1>6. ASSUME NEW k \in Keys, Fetch(w, k) PROVE LayoutInv'
  <2>1. PICK e \in Lookup(k) : entry' = [entry EXCEPT ![e] = Hold(e, time[w])]
    BY <1>6 DEF Fetch
  <2>2. \A f \in Slot : /\ entry'[f].start = entry[f].start
                        /\ entry'[f].size = entry[f].size
    BY <1>1, <2>1 DEF Hold, EntryType
  <2>3. mutex = None /\ UNCHANGED <<usedQueue, area, reset, mutex>>
    BY <1>6 DEF Fetch
  <2> QED
    BY <1>1, <1>3, <2>2, <2>3
<1>7. CASE Release(w)
  <2>1. \A f \in Slot : /\ entry'[f].start = entry[f].start
                        /\ entry'[f].size = entry[f].size
    BY <1>1, <1>7 DEF Release, EntryType
  <2>2. mutex = None /\ UNCHANGED <<usedQueue, area, reset, mutex>>
    BY <1>7 DEF Release
  <2> QED
    BY <1>1, <1>3, <2>1, <2>2
<1>8. CASE Abandon(w)
  BY <1>1, <1>3, <1>8 DEF Abandon
<1>9. ASSUME NEW k \in Keys, NEW z \in Sizes, StoreReset(w, k, z)
      PROVE  LayoutInv'
  <2>1. /\ mutex' = w /\ pc'[w] = "entry" /\ usedQueue' = <<>> /\ entriesEnd' = 0
        /\ buffersStart' = BuffersEnd /\ buffersRead' = BuffersEnd
        /\ buffersWrite' = BuffersEnd
    BY <1>1, <1>9 DEF StoreReset, ResetStructures
  <2>2. Used' = {} /\ DOMAIN usedQueue' = {}
    BY <2>1 DEF Used, Range
  <2>3. AreaOK' /\ EmptyOK' /\ Disjoint'
    BY <2>1, <2>2, ConstantsAssumption DEF AreaOK, BoundsOK, Ordered, EmptyOK, Disjoint
  <2> QED
    BY <1>1, <2>1, <2>3 DEF LayoutInv, OwnerArea, HasBuffer
<1>10. ASSUME NEW k \in Keys, NEW z \in Sizes, StoreLock(w, k, z)
       PROVE  LayoutInv'
  <2>1. AreaOK /\ EmptyOK /\ UNCHANGED shared /\ mutex' = w /\ pc'[w] = "evict"
    BY <1>1, <1>10 DEF StoreLock, LayoutInv
  <2> QED
    BY <1>1, <1>2, <2>1 DEF LayoutInv, OwnerArea, HasBuffer
<1>11. CASE FinishCopy(w) \/ DropStoreRef(w)
  <2>1. op[w].e \in Slot
    BY <1>11 DEF FinishCopy, DropStoreRef, TypeInv, PointersOK, LocalsOK
  <2>2. \A f \in Slot : /\ entry'[f].start = entry[f].start
                        /\ entry'[f].size = entry[f].size
    <3>1. CASE FinishCopy(w)
      BY <1>1, <2>1, <3>1 DEF FinishCopy, EntryType
    <3>2. CASE DropStoreRef(w)
      BY <1>1, <2>1, <3>2 DEF DropStoreRef, EntryType
    <3> QED
      BY <1>11, <3>1, <3>2
  <2>3. /\ pc[w] \notin LockedPCs /\ UNCHANGED <<usedQueue, area, reset, mutex>>
        /\ \A v \in Workers \ {w} : pc'[v] = pc[v] /\ op'[v] = op[v]
    BY <1>1, <1>11 DEF FinishCopy, DropStoreRef
  <2> QED
    BY <1>1, <1>3, <2>2, <2>3
<1> QED
  BY <1>4, <1>5, <1>6, <1>7, <1>8, <1>9, <1>10, <1>11 DEF UnlockedStep

LEMMA LayoutInvariant ==
  ASSUME Expiration = 0 \/ MaxKills = 0
  PROVE  Spec => []LayoutInv
<1>1. Init => LayoutInv
  <2> SUFFICES ASSUME Init PROVE LayoutInv
    OBVIOUS
  <2>1. Used = {} /\ DOMAIN usedQueue = {}
    BY DEF Init, Used, Range
  <2> QED
    BY <2>1, ConstantsAssumption
       DEF Init, LayoutInv, AreaOK, BoundsOK, Ordered, EmptyOK, Disjoint
<1>2. TypeInv /\ StructInv /\ LayoutInv /\ [Next]_vars => LayoutInv'
  <2> SUFFICES ASSUME TypeInv, StructInv, LayoutInv, [Next]_vars PROVE LayoutInv'
    OBVIOUS
  <2>1. CASE Tick \/ UNCHANGED vars
    BY <2>1 DEF Tick, vars, LayoutInv, OwnerArea, AreaOK, BoundsOK, Ordered, EmptyOK,
                Disjoint, Used, Placed, Follows, Low, High, Wrapped, End, HasBuffer,
                RoomBelow
  <2>2. CASE \E w \in Workers : StoreStep(w) \/ UnlockedStep(w)
    BY <2>2, StoreStepArea, UnlockedStepArea
  <2> QED
    BY <2>1, <2>2 DEF Next
<1> QED
  BY TypeInvariant, StructInvariant, <1>1, <1>2, PTL DEF Spec

\* Whatever the sizes and however often the area has wrapped around, when the
\* mutex is free and the flag reset clear, the entries array ends below the
\* buffers, and the buffers of the used entries lie in the area and share no
\* byte.  The hypothesis is that of CrashConsistency: a worker killed while it
\* evicts expired entries leaves the pointers torn with the flag clear.
THEOREM LayoutSound ==
  ASSUME Expiration = 0 \/ MaxKills = 0
  PROVE  Spec => []NoOverlap
<1>1. TypeInv /\ LayoutInv => NoOverlap
  <2> SUFFICES ASSUME TypeInv, LayoutInv, mutex = None, ~reset
               PROVE  /\ entriesEnd * EntrySize <= buffersStart
                      /\ \A e \in Used :
                           /\ Bytes(entry[e].start, entry[e].size)
                                \subseteq buffersStart .. BuffersEnd - 1
                           /\ \A f \in Used \ {e} :
                                Bytes(entry[e].start, entry[e].size)
                                  \cap Bytes(entry[f].start, entry[f].size) = {}
    BY DEF NoOverlap, Used
  <2>1. AreaOK /\ Used \subseteq Slot
    BY UsedInSlot DEF LayoutInv, TypeInv
  <2>2. ASSUME NEW e \in Used
        PROVE  Bytes(entry[e].start, entry[e].size) \subseteq buffersStart .. BuffersEnd - 1
    BY <2>1, <2>2, Numbers DEF AreaOK, Placed, Bytes, End
  <2>3. ASSUME NEW e \in Used, NEW f \in Used \ {e}
        PROVE  Bytes(entry[e].start, entry[e].size)
                 \cap Bytes(entry[f].start, entry[f].size) = {}
    <3>1. e \in Slot /\ f \in Slot /\ (End(e) < entry[f].start \/ End(f) < entry[e].start)
      BY <2>1 DEF LayoutInv, Disjoint
    <3> QED
      BY <3>1, Numbers DEF Bytes, End
  <2> QED
    BY <2>1, <2>2, <2>3 DEF AreaOK, BoundsOK
<1> QED
  BY TypeInvariant, LayoutInvariant, <1>1, PTL

=============================================================================
