------------------------ MODULE OutQueueChainsProofs ------------------------
(* Theorems about the shared chains of the output queues: who holds a      *)
(* reference to them, and what the rings hand to the peers.  They are about *)
(* the handlers that free what they built once: with the handler "data",   *)
(* which frees its chain twice, the model checker finds them false.        *)
EXTENDS OutQueueProofs, FiniteSetTheorems, SequenceTheorems

USE DEF rings, events, life, pool, control, Quiet, HandlerRuns

-----------------------------------------------------------------------------
(* The slots between out_pos and out_last.                                 *)

LEMMA RingAdd ==
  ASSUME RingType, NEW s \in Sessions, NEW prio \in 0 .. 3, ~Full(s, prio),
         outPos'[s] = outPos[s], outLast'[s] = Inc(outLast[s])
  PROVE  /\ ~InRing(s, outLast[s]) /\ Used(s) + 1 < OutSize
         /\ \A i \in Slots : InRing(s, i)' <=> InRing(s, i) \/ i = outLast[s]
<1>1. OutSize \in Nat \ {0} /\ outPos[s] \in Slots /\ outLast[s] \in Slots
  BY ConstantsAssumption DEF RingType
<1>2. (prio * OutSize) \div 4 >= 0
  <2>1. prio \in {0, 1, 2, 3}
    OBVIOUS
  <2> QED
    BY <1>1, <2>1
<1>3. Used(s) + 1 < OutSize
  BY <1>1, <1>2, RingPositions DEF Full
<1>4. ~InRing(s, outLast[s])
  BY <1>1, <1>3 DEF Used, InRing, Slots
<1>5. ASSUME NEW i \in Slots PROVE InRing(s, i)' <=> InRing(s, i) \/ i = outLast[s]
  BY <1>1, <1>3 DEF Used, InRing, Slots, Inc
<1> QED
  BY <1>3, <1>4, <1>5

LEMMA RingRemove ==
  ASSUME RingType, NEW s \in Sessions, outPos[s] # outLast[s],
         outPos'[s] = Inc(outPos[s]), outLast'[s] = outLast[s]
  PROVE  /\ InRing(s, outPos[s]) /\ Used(s)' = Used(s) - 1
         /\ \A i \in Slots : InRing(s, i)' <=> InRing(s, i) /\ i # outPos[s]
<1>1. OutSize \in Nat \ {0} /\ outPos[s] \in Slots /\ outLast[s] \in Slots
  BY ConstantsAssumption DEF RingType
<1>2. InRing(s, outPos[s])
  BY <1>1 DEF InRing, Slots
<1>3. Used(s)' = Used(s) - 1
  BY <1>1 DEF Used, Inc, Slots
<1>4. ASSUME NEW i \in Slots PROVE InRing(s, i)' <=> InRing(s, i) /\ i # outPos[s]
  BY <1>1 DEF InRing, Slots, Inc
<1> QED
  BY <1>2, <1>3, <1>4

-----------------------------------------------------------------------------
(* The slots that hold chain c.                                            *)

Held(c) == {p \in Sessions \X Slots : InRing(p[1], p[2]) /\ out[p[1]][p[2]] = c}

LEMMA SlotsFinite ==
  /\ IsFiniteSet(Sessions \X Slots)
  /\ Cardinality(Sessions \X Slots) = Cardinality(Sessions) * OutSize
  /\ Cardinality(Sessions) * OutSize \in Nat
  /\ \A H \in SUBSET (Sessions \X Slots) :
       /\ IsFiniteSet(H) /\ Cardinality(H) \in Nat
       /\ Cardinality(H) <= Cardinality(Sessions) * OutSize
<1>1. IsFiniteSet(Slots) /\ Cardinality(Slots) = OutSize
  <2>1. OutSize \in Nat \ {0} /\ 0 \in Int /\ OutSize - 1 \in Int
    BY ConstantsAssumption
  <2>2. /\ IsFiniteSet(0 .. OutSize - 1)
        /\ Cardinality(0 .. OutSize - 1) = IF 0 > OutSize - 1 THEN 0 ELSE OutSize - 1 - 0 + 1
    BY <2>1, FS_Interval
  <2> QED
    BY <2>1, <2>2 DEF Slots
<1>2. /\ IsFiniteSet(Sessions \X Slots)
      /\ Cardinality(Sessions \X Slots) = Cardinality(Sessions) * OutSize
  BY <1>1, FS_Product, ConstantsAssumption
<1>3. Cardinality(Sessions) * OutSize \in Nat
  BY <1>2, FS_CardinalityType
<1>4. ASSUME NEW H \in SUBSET (Sessions \X Slots)
      PROVE  /\ IsFiniteSet(H) /\ Cardinality(H) \in Nat
             /\ Cardinality(H) <= Cardinality(Sessions) * OutSize
  BY <1>2, FS_Subset, FS_CardinalityType
<1> QED
  BY <1>2, <1>3, <1>4

LEMMA HeldFinite ==
  ASSUME NEW c
  PROVE  /\ IsFiniteSet(Held(c)) /\ Cardinality(Held(c)) \in Nat
         /\ Cardinality(Held(c)) <= Cardinality(Sessions) * OutSize
         /\ Owners(c) = Cardinality(Held(c)) + (IF job.pkt = c THEN 1 ELSE 0)
<1>1. Held(c) \in SUBSET (Sessions \X Slots)
  BY DEF Held
<1> QED
  BY <1>1, SlotsFinite DEF Owners, Held

-----------------------------------------------------------------------------
(* The inductive invariant.                                                *)

ChainType ==
  /\ out \in [Sessions -> [Slots -> Chains \cup {None}]]
  /\ ref \in [Chains -> Nat] /\ free \in Seq(Chains)
  /\ body \in [Chains -> Bodies]
  /\ job.kind # "data"

\* What ngx_rtmp_send reads: a message while it has a link of one, and never
\* more links than a message has.  Nothing waits in the ring of a session that
\* does not exist.
CursorOK(s) ==
  /\ open[s] /\ closer # s /\ outChain[s] # 0 => outPos[s] # outLast[s]
  /\ ~open[s] => outPos[s] = outLast[s]
  /\ outChain[s] <= MaxLinks

FilledOK == \A s \in Sessions, i \in Slots : InRing(s, i) => out[s][i] \in Chains

CountOK == \A c \in Chains : ref[c] = Owners(c)

FreeOK == IsInjective(free) /\ \A c \in Chains : c \in Range(free) <=> ref[c] = 0

ChainInv ==
  /\ WakeInv /\ ChainType
  /\ \A s \in Sessions : CursorOK(s)
  /\ FilledOK /\ CountOK /\ FreeOK

LEMMA ChainInvChecks == ChainInv => TypeOK /\ ChainsAccounted
<1> SUFFICES ASSUME ChainInv PROVE TypeOK /\ ChainsAccounted
  OBVIOUS
<1>1. ChainsAccounted
  BY DEF ChainInv, CountOK, FreeOK, ChainsAccounted
<1>2. ASSUME NEW c \in Chains PROVE ref[c] \in 0 .. RefLimit - 1
  <2>1. ref[c] = Cardinality(Held(c)) + (IF job.pkt = c THEN 1 ELSE 0)
    BY HeldFinite DEF ChainInv, CountOK
  <2>2. /\ Cardinality(Held(c)) \in Nat
        /\ Cardinality(Held(c)) <= Cardinality(Sessions) * OutSize
    BY HeldFinite
  <2> DEFINE N == Cardinality(Sessions) * OutSize
  <2>3. N \in Nat /\ RefLimit \in Nat /\ RefLimit > N + 1
    BY SlotsFinite, ConstantsAssumption
  <2> HIDE DEF N
  <2>4. Cardinality(Held(c)) <= N
    BY <2>2 DEF N
  <2> QED
    BY <2>1, <2>2, <2>3, <2>4
<1>3. ref \in [Chains -> 0 .. RefLimit - 1]
  BY <1>2 DEF ChainInv, ChainType
<1>4. outChain \in [Sessions -> 0 .. MaxLinks]
  BY ConstantsAssumption DEF ChainInv, CursorOK, WakeInv, RingType
<1>5. TypeOK
  BY <1>3, <1>4 DEF TypeOK, ChainInv, ChainType, WakeInv, RingType, LifeInv, LifeType
<1> QED
  BY <1>1, <1>5

-----------------------------------------------------------------------------
(* The free list and the counts.                                           *)

LEMMA DropChain ==
  ASSUME ref \in [Chains -> Nat], free \in Seq(Chains), FreeOK,
         NEW c \in Chains, ref[c] > 0, SetPool(DropRef(Pool, c))
  PROVE  /\ ref' = [ref EXCEPT ![c] = @ - 1] /\ ref' \in [Chains -> Nat]
         /\ free' \in Seq(Chains) /\ FreeOK' /\ body' = body
<1>1. /\ ref' = [ref EXCEPT ![c] = Dec(@)] /\ body' = body
      /\ free' = IF Dec(ref[c]) = 0 THEN <<c>> \o free ELSE free
  BY DEF SetPool, DropRef, Pool
<1>2. Dec(ref[c]) = ref[c] - 1 /\ ref[c] - 1 \in Nat
  BY DEF Dec
<1>3. ref' = [ref EXCEPT ![c] = @ - 1] /\ ref' \in [Chains -> Nat]
  BY <1>1, <1>2
<1>4. c \notin Range(free)
  BY DEF FreeOK
<1>5. CASE ref[c] - 1 = 0
  <2>1. free' = <<c>> \o free
    BY <1>1, <1>2, <1>5
  <2>2. /\ free' \in Seq(Chains) /\ Len(free) \in Nat
        /\ DOMAIN free = 1 .. Len(free) /\ DOMAIN free' = 1 .. Len(free) + 1
        /\ free'[1] = c /\ \A i \in 1 .. Len(free) : free'[i + 1] = free[i]
    BY <2>1
  <2>3. \A j \in 1 .. Len(free) + 1 :
          j = 1 \/ (j - 1 \in 1 .. Len(free) /\ free'[j] = free[j - 1])
    <3> SUFFICES ASSUME NEW j \in 1 .. Len(free) + 1, j # 1
                 PROVE  j - 1 \in 1 .. Len(free) /\ free'[j] = free[j - 1]
      OBVIOUS
    <3>1. j - 1 \in 1 .. Len(free) /\ (j - 1) + 1 = j
      BY <2>2
    <3> QED
      BY <2>2, <3>1
  <2>4. Range(free') = Range(free) \cup {c}
    <3>1. \A x \in Range(free') : x \in Range(free) \cup {c}
      BY <2>2, <2>3 DEF Range
    <3>2. c \in Range(free')
      BY <2>2 DEF Range
    <3>3. ASSUME NEW x \in Range(free) PROVE x \in Range(free')
      <4>1. PICK i \in 1 .. Len(free) : x = free[i]
        BY <2>2, <3>3 DEF Range
      <4>2. i + 1 \in 1 .. Len(free) + 1 /\ free'[i + 1] = x
        BY <2>2, <4>1
      <4> QED
        BY <2>2, <4>2 DEF Range
    <3> QED
      BY <3>1, <3>2, <3>3
  <2>5. IsInjective(free')
    <3> SUFFICES ASSUME NEW a \in 1 .. Len(free) + 1, NEW b \in 1 .. Len(free) + 1,
                        free'[a] = free'[b]
                 PROVE  a = b
      BY <2>2 DEF IsInjective
    <3>1. \A i \in 1 .. Len(free) : free[i] # c
      BY <1>4, <2>2 DEF Range
    <3>2. CASE a = 1 \/ b = 1
      BY <2>2, <2>3, <3>1, <3>2
    <3>3. CASE a # 1 /\ b # 1
      <4>1. /\ a - 1 \in DOMAIN free /\ b - 1 \in DOMAIN free
            /\ free[a - 1] = free[b - 1]
        BY <2>2, <2>3, <3>3
      <4>2. a - 1 = b - 1
        BY <4>1 DEF FreeOK, IsInjective
      <4> QED
        BY <4>2
    <3> QED
      BY <3>2, <3>3
  <2>6. ASSUME NEW x \in Chains PROVE x \in Range(free') <=> ref'[x] = 0
    <3>1. x \in Range(free) <=> ref[x] = 0
      BY DEF FreeOK
    <3>2. ref'[x] = IF x = c THEN ref[c] - 1 ELSE ref[x]
      BY <1>3
    <3> QED
      BY <1>5, <2>4, <3>1, <3>2
  <2> QED
    BY <1>1, <1>3, <2>2, <2>5, <2>6 DEF FreeOK
<1>6. CASE ref[c] - 1 # 0
  <2>1. free' = free
    BY <1>1, <1>2, <1>6
  <2>2. ASSUME NEW x \in Chains PROVE x \in Range(free') <=> ref'[x] = 0
    <3>1. x \in Range(free) <=> ref[x] = 0
      BY DEF FreeOK
    <3>2. ref'[x] = IF x = c THEN ref[c] - 1 ELSE ref[x]
      BY <1>3
    <3> QED
      BY <1>6, <2>1, <3>1, <3>2
  <2> QED
    BY <1>1, <1>3, <2>1, <2>2 DEF FreeOK
<1> QED
  BY <1>5, <1>6

LEMMA AllocChain ==
  ASSUME ref \in [Chains -> Nat], free \in Seq(Chains), FreeOK,
         NEW c \in Chains, free # <<>>, AllocShared(c)
  PROVE  /\ ref' \in [Chains -> Nat] /\ free' \in Seq(Chains) /\ FreeOK'
         /\ ref[c] = 0 /\ ref' = [ref EXCEPT ![c] = 1]
<1>1. /\ c = Head(free) /\ ref' = [ref EXCEPT ![c] = 1] /\ free' = Tail(free)
  BY DEF AllocShared
<1>2. /\ Tail(free) \in Seq(Chains) /\ IsInjective(Tail(free))
      /\ Range(Tail(free)) = Range(free) \ {c} /\ c \in Range(free)
  BY <1>1, TailOfInjective DEF FreeOK
<1>3. ref[c] = 0
  BY <1>2 DEF FreeOK
<1>4. ASSUME NEW x \in Chains PROVE x \in Range(free') <=> ref'[x] = 0
  BY <1>1, <1>2 DEF FreeOK
<1> QED
  BY <1>1, <1>2, <1>3, <1>4 DEF FreeOK

LEMMA AcquireChain ==
  ASSUME ref \in [Chains -> Nat], FreeOK, NEW c \in Chains, ref[c] > 0,
         Acquire(c), free' = free
  PROVE  /\ ref' = [ref EXCEPT ![c] = @ + 1] /\ ref' \in [Chains -> Nat] /\ FreeOK'
<1>1. ref' = [ref EXCEPT ![c] = @ + 1]
  BY DEF Acquire
<1>2. ASSUME NEW x \in Chains PROVE x \in Range(free') <=> ref'[x] = 0
  <2>1. x \in Range(free) <=> ref[x] = 0
    BY DEF FreeOK
  <2>2. ref'[x] = IF x = c THEN ref[c] + 1 ELSE ref[x]
    BY <1>1
  <2> QED
    BY <2>1, <2>2
<1> QED
  BY <1>1, <1>2 DEF FreeOK

-----------------------------------------------------------------------------
(* The steps that move references.                                         *)

Chained == ChainType' /\ FilledOK' /\ CountOK' /\ FreeOK'

LEMMA KeepsChains ==
  ASSUME ChainInv, UNCHANGED <<out, outPos, outLast, pool>>,
         job'.pkt = job.pkt, job'.kind # "data"
  PROVE  Chained
<1> USE DEF ChainInv
<1>1. ChainType' /\ FreeOK'
  BY DEF ChainType, FreeOK
<1>2. FilledOK'
  BY DEF FilledOK, InRing
<1>3. ASSUME NEW c \in Chains PROVE Owners(c)' = Owners(c)
  BY DEF Owners, InRing
<1>4. CountOK'
  BY <1>3 DEF CountOK
<1> QED
  BY <1>1, <1>2, <1>4 DEF Chained

\* The handler takes the first free chain.
LEMMA BuildChains == ASSUME ChainInv, NEW b \in Bodies, BuildPacket(b) PROVE Chained
<1> USE DEF ChainInv
<1>1. PICK c \in Chains : /\ AllocShared(c) /\ job' = [job EXCEPT !.pkt = c]
                          /\ body' = [body EXCEPT ![c] = b]
  BY DEF BuildPacket
<1>2. free # <<>> /\ job.pkt = None /\ UNCHANGED <<out, outPos, outLast>>
  BY DEF BuildPacket, NeedsPacket
<1>3. /\ ref' \in [Chains -> Nat] /\ free' \in Seq(Chains) /\ FreeOK'
      /\ ref[c] = 0 /\ ref' = [ref EXCEPT ![c] = 1]
  BY <1>1, <1>2, AllocChain DEF ChainType
<1>4. job'.pkt = c /\ job'.kind = job.kind
  BY <1>1 DEF WakeInv, LifeInv, LifeType, Jobs
<1>5. ChainType'
  BY <1>1, <1>2, <1>3, <1>4 DEF ChainType
<1>6. FilledOK'
  BY <1>2 DEF FilledOK, InRing
<1>7. ASSUME NEW d \in Chains PROVE ref'[d] = Owners(d)'
  <2>1. /\ ref[d] = Cardinality(Held(d)) + (IF job.pkt = d THEN 1 ELSE 0)
        /\ Owners(d)' = Cardinality(Held(d)') + (IF job'.pkt = d THEN 1 ELSE 0)
        /\ Cardinality(Held(d)) \in Nat
    BY HeldFinite DEF CountOK, Owners, Held
  <2>2. Held(d)' = Held(d)
    BY <1>2 DEF Held, InRing
  <2>3. job.pkt # d
    BY <1>2, ConstantsAssumption
  <2>4. ref'[d] = IF d = c THEN 1 ELSE ref[d]
    BY <1>3 DEF ChainType
  <2> QED
    BY <1>3, <1>4, <2>1, <2>2, <2>3, <2>4
<1> QED
  BY <1>3, <1>5, <1>6, <1>7 DEF Chained, CountOK

\* The handler drops the one reference that it holds.
LEMMA EndHandlerChains == ASSUME ChainInv, EndHandler PROVE Chained
<1> USE DEF ChainInv
<1>1. job' = NoJob /\ UNCHANGED <<out, outPos, outLast>> /\ job.kind # "data"
  BY DEF EndHandler, ChainType
<1>2. job'.pkt = None /\ job'.kind = "none"
  BY <1>1 DEF NoJob
<1>3. CASE job.pkt = None
  <2>1. UNCHANGED pool
    BY <1>3 DEF EndHandler
  <2> QED
    BY <1>1, <1>2, <1>3, <2>1, KeepsChains
<1>4. CASE job.pkt # None
  <2> DEFINE c == job.pkt
  <2>1. c \in Chains
    BY <1>4 DEF WakeInv, LifeInv, LifeType, Jobs
  <2>2. SetPool(DropRef(Pool, c))
    BY <1>1, <1>4 DEF EndHandler
  <2> HIDE DEF c
  <2>3. \A d \in Chains : /\ ref[d] = Cardinality(Held(d)) + (IF c = d THEN 1 ELSE 0)
                          /\ Cardinality(Held(d)) \in Nat
    BY HeldFinite DEF CountOK, c
  <2>4. ref[c] > 0
    BY <2>1, <2>3
  <2>5. /\ ref' = [ref EXCEPT ![c] = @ - 1] /\ ref' \in [Chains -> Nat]
        /\ free' \in Seq(Chains) /\ FreeOK' /\ body' = body
    BY <2>1, <2>2, <2>4, DropChain DEF ChainType
  <2>6. ChainType'
    BY <1>1, <1>2, <2>5 DEF ChainType
  <2>7. FilledOK'
    BY <1>1 DEF FilledOK, InRing
  <2>8. ASSUME NEW d \in Chains PROVE ref'[d] = Owners(d)'
    <3>1. Owners(d)' = Cardinality(Held(d)') + (IF job'.pkt = d THEN 1 ELSE 0)
      BY DEF Owners, Held
    <3>2. Held(d)' = Held(d)
      BY <1>1 DEF Held, InRing
    <3>3. job'.pkt # d
      BY <1>2, ConstantsAssumption
    <3>4. ref'[d] = IF d = c THEN ref[d] - 1 ELSE ref[d]
      BY <2>5 DEF ChainType
    <3> QED
      BY <2>3, <3>1, <3>2, <3>3, <3>4
  <2> QED
    BY <2>5, <2>6, <2>7, <2>8 DEF Chained, CountOK
<1> QED
  BY <1>3, <1>4

\* The ring takes a reference of its own.
LEMMA EnqueueChains == ASSUME ChainInv, NEW s \in Sessions, Enqueue(s) PROVE Chained
<1> USE DEF ChainInv, WakeInv, LifeInv, LifeType
<1> DEFINE c == job.pkt
           p == <<s, outLast[s]>>
<1>1. /\ c \in Chains /\ job.prio \in 0 .. 3 /\ ~Full(s, job.prio)
      /\ job'.pkt = c /\ job'.kind = job.kind
      /\ out' = [out EXCEPT ![s][outLast[s]] = c]
      /\ outLast' = [outLast EXCEPT ![s] = Inc(@)]
      /\ Acquire(c) /\ UNCHANGED <<outPos, free, body>>
  BY DEF Enqueue, Jobs
<1>2. outLast[s] \in Slots /\ p \in Sessions \X Slots
  BY DEF RingType
<1>3. /\ ~InRing(s, outLast[s])
      /\ \A i \in Slots : InRing(s, i)' <=> InRing(s, i) \/ i = outLast[s]
  <2>1. outPos'[s] = outPos[s] /\ outLast'[s] = Inc(outLast[s])
    BY <1>1 DEF RingType
  <2> QED
    BY <1>1, <2>1, RingAdd
<1>4. \A x \in Sessions \ {s}, i \in Slots : InRing(x, i)' <=> InRing(x, i)
  BY <1>1 DEF InRing, RingType
<1>5. /\ out' \in [Sessions -> [Slots -> Chains \cup {None}]]
      /\ \A x \in Sessions, i \in Slots :
           out'[x][i] = IF x = s /\ i = outLast[s] THEN c ELSE out[x][i]
  BY <1>1, <1>2 DEF ChainType
<1> HIDE DEF c
<1>6. FilledOK'
  BY <1>1, <1>3, <1>4, <1>5 DEF FilledOK
<1>7. ASSUME NEW d \in Chains
      PROVE  Held(d)' = IF d = c THEN Held(d) \cup {p} ELSE Held(d)
  <2>1. ASSUME NEW x \in Sessions, NEW i \in Slots
        PROVE  InRing(x, i)' /\ out'[x][i] = d
               <=> (InRing(x, i) /\ out[x][i] = d) \/ (d = c /\ x = s /\ i = outLast[s])
    BY <1>3, <1>4, <1>5
  <2> QED
    BY <1>2, <2>1 DEF Held
<1>8. p \notin Held(c)
  BY <1>3 DEF Held
<1>9. /\ c = job.pkt
      /\ \A d \in Chains : /\ ref[d] = Cardinality(Held(d)) + (IF job.pkt = d THEN 1 ELSE 0)
                           /\ Cardinality(Held(d)) \in Nat /\ IsFiniteSet(Held(d))
  BY HeldFinite DEF CountOK, c
<1>10. ref' = [ref EXCEPT ![c] = @ + 1] /\ ref' \in [Chains -> Nat] /\ FreeOK'
  <2>1. ref[c] > 0
    BY <1>1, <1>9
  <2> QED
    BY <1>1, <2>1, AcquireChain DEF ChainType
<1>11. ASSUME NEW d \in Chains PROVE ref'[d] = Owners(d)'
  <2>1. Owners(d)' = Cardinality(Held(d)') + (IF job'.pkt = d THEN 1 ELSE 0)
    BY DEF Owners, Held
  <2>2. Cardinality(Held(d)') = IF d = c THEN Cardinality(Held(d)) + 1 ELSE Cardinality(Held(d))
    BY <1>7, <1>8, <1>9, FS_AddElement
  <2>3. ref'[d] = IF d = c THEN ref[d] + 1 ELSE ref[d]
    BY <1>10 DEF ChainType
  <2> QED
    BY <1>1, <1>9, <2>1, <2>2, <2>3
<1>12. ChainType'
  BY <1>1, <1>5, <1>10 DEF ChainType
<1> QED
  BY <1>6, <1>10, <1>11, <1>12 DEF Chained, CountOK

\* The first message of a ring is freed, written or not.
LEMMA RemoveChains ==
  ASSUME ChainInv, NEW s \in Sessions, outPos[s] # outLast[s],
         SetPool(DropRef(Pool, out[s][outPos[s]])),
         outPos' = [outPos EXCEPT ![s] = Inc(@)], UNCHANGED <<out, outLast, job>>
  PROVE  Chained
<1> USE DEF ChainInv, WakeInv
<1> DEFINE c == out[s][outPos[s]]
           p == <<s, outPos[s]>>
<1>1. outPos[s] \in Slots /\ p \in Sessions \X Slots
  BY DEF RingType
<1>2. /\ InRing(s, outPos[s])
      /\ \A i \in Slots : InRing(s, i)' <=> InRing(s, i) /\ i # outPos[s]
  <2>1. outPos'[s] = Inc(outPos[s]) /\ outLast'[s] = outLast[s]
    BY DEF RingType
  <2> QED
    BY <2>1, RingRemove
<1>3. \A x \in Sessions \ {s}, i \in Slots : InRing(x, i)' <=> InRing(x, i)
  BY DEF InRing, RingType
<1>4. c \in Chains /\ p \in Held(c)
  BY <1>1, <1>2 DEF FilledOK, Held
<1>5. \A d \in Chains : d # c => p \notin Held(d)
  BY DEF Held
<1>6. ASSUME NEW d \in Chains PROVE Held(d)' = Held(d) \ {p}
  <2>1. ASSUME NEW x \in Sessions, NEW i \in Slots
        PROVE  InRing(x, i)' /\ out'[x][i] = d
               <=> (InRing(x, i) /\ out[x][i] = d) /\ ~(x = s /\ i = outPos[s])
    BY <1>2, <1>3
  <2> QED
    BY <1>1, <2>1 DEF Held
<1> HIDE DEF c
<1>7. \A d \in Chains : /\ ref[d] = Cardinality(Held(d)) + (IF job.pkt = d THEN 1 ELSE 0)
                        /\ Cardinality(Held(d)) \in Nat /\ IsFiniteSet(Held(d))
  BY HeldFinite DEF CountOK
<1>8. Cardinality(Held(c)) # 0
  BY <1>4, <1>7, FS_EmptySet
<1>9. /\ ref' = [ref EXCEPT ![c] = @ - 1] /\ ref' \in [Chains -> Nat]
      /\ free' \in Seq(Chains) /\ FreeOK' /\ body' = body
  <2>1. ref[c] > 0
    BY <1>4, <1>7, <1>8
  <2>2. SetPool(DropRef(Pool, c))
    BY DEF c
  <2> QED
    BY <1>4, <2>1, <2>2, DropChain DEF ChainType
<1>10. ASSUME NEW d \in Chains PROVE ref'[d] = Owners(d)'
  <2>1. Owners(d)' = Cardinality(Held(d)') + (IF job'.pkt = d THEN 1 ELSE 0)
    BY DEF Owners, Held
  <2>2. Cardinality(Held(d)') = IF d = c THEN Cardinality(Held(d)) - 1 ELSE Cardinality(Held(d))
    BY <1>4, <1>5, <1>6, <1>7, FS_RemoveElement
  <2>3. ref'[d] = IF d = c THEN ref[d] - 1 ELSE ref[d]
    BY <1>9 DEF ChainType
  <2> QED
    BY <1>7, <2>1, <2>2, <2>3
<1>11. FilledOK'
  BY <1>2, <1>3 DEF FilledOK
<1>12. ChainType'
  BY <1>9 DEF ChainType
<1> QED
  BY <1>9, <1>10, <1>11, <1>12 DEF Chained, CountOK

\* The ring of a session that begins was empty and is empty again.
LEMMA ConnectChains == ASSUME ChainInv, NEW s \in Sessions, Connect(s) PROVE Chained
<1> USE DEF ChainInv, WakeInv
<1>1. /\ out' = [out EXCEPT ![s] = [i \in Slots |-> None]]
      /\ outPos' = [outPos EXCEPT ![s] = 0] /\ outLast' = [outLast EXCEPT ![s] = 0]
      /\ UNCHANGED <<pool, job>> /\ outPos[s] = outLast[s]
  BY DEF Connect, CursorOK
<1>2. outPos[s] \in Slots /\ OutSize \in Nat \ {0}
  BY ConstantsAssumption DEF RingType
<1>3. \A i \in Slots : ~InRing(s, i) /\ ~InRing(s, i)'
  BY <1>1, <1>2 DEF InRing, RingType, Slots
<1>4. \A x \in Sessions \ {s}, i \in Slots :
        (InRing(x, i)' <=> InRing(x, i)) /\ out'[x][i] = out[x][i]
  BY <1>1 DEF InRing, RingType, ChainType
<1>5. ChainType' /\ FreeOK'
  BY <1>1 DEF ChainType, FreeOK
<1>6. FilledOK'
  BY <1>3, <1>4 DEF FilledOK
<1>7. ASSUME NEW d \in Chains PROVE Held(d)' = Held(d)
  <2>1. ASSUME NEW x \in Sessions, NEW i \in Slots
        PROVE  InRing(x, i)' /\ out'[x][i] = d <=> InRing(x, i) /\ out[x][i] = d
    BY <1>3, <1>4
  <2> QED
    BY <2>1 DEF Held
<1>8. CountOK'
  BY <1>1, <1>7 DEF CountOK, Owners, Held
<1> QED
  BY <1>5, <1>6, <1>8 DEF Chained

-----------------------------------------------------------------------------
(* The cursor of ngx_rtmp_send.                                            *)

\* Nothing of session x changes but perhaps that the close handler takes it.
SameCursor(x) ==
  /\ outPos'[x] = outPos[x] /\ outLast'[x] = outLast[x] /\ outChain'[x] = outChain[x]
  /\ open'[x] = open[x] /\ (closer = x => closer' = x)

LEMMA OneCursor ==
  ASSUME ChainInv, NEW s \in Sessions, CursorOK(s)',
         \A x \in Sessions \ {s} : SameCursor(x)
  PROVE  \A x \in Sessions : CursorOK(x)'
BY DEF ChainInv, CursorOK, SameCursor

LEMMA KeepsCursors ==
  ASSUME ChainInv, UNCHANGED <<outPos, outLast, outChain, open>>, closer # None => closer' = closer
  PROVE  \A x \in Sessions : CursorOK(x)'
BY ConstantsAssumption DEF ChainInv, CursorOK

LEMMA EnqueueCursors ==
  ASSUME ChainInv, NEW s \in Sessions, Enqueue(s)
  PROVE  \A x \in Sessions : CursorOK(x)'
<1> USE DEF ChainInv, WakeInv, LifeInv, LifeType
<1>1. /\ job.prio \in 0 .. 3 /\ open[s]
      /\ UNCHANGED <<outPos, open, closer>>
      /\ outLast' = [outLast EXCEPT ![s] = Inc(@)] /\ ~Full(s, job.prio)
  BY DEF Enqueue, Jobs, ControlOK, OpenSessions
<1>2. outPos[s] # outLast'[s]
  BY <1>1, RingGrows
<1>3. /\ outChain' \in [Sessions -> Nat]
      /\ outChain'[s] = outChain[s] \/ outChain'[s] = 1
      /\ \A x \in Sessions \ {s} : outChain'[x] = outChain[x]
  <2>1. outChain' = outChain \/ StartSend(s)
    BY DEF Enqueue
  <2>2. outChain \in [Sessions -> Nat]
    BY DEF RingType
  <2> QED
    BY <2>1, <2>2 DEF StartSend
<1>4. CursorOK(s)'
  BY <1>1, <1>2, <1>3, ConstantsAssumption DEF CursorOK
<1>5. \A x \in Sessions \ {s} : SameCursor(x)
  BY <1>1, <1>3 DEF SameCursor, RingType
<1> QED
  BY <1>4, <1>5, OneCursor

LEMMA SendCursors ==
  ASSUME ChainInv, NEW s \in Sessions, Send(s)
  PROVE  \A x \in Sessions : CursorOK(x)'
<1> USE DEF ChainInv, WakeInv, LifeInv, LifeType
<1>1. sender = s /\ s # None /\ open[s] /\ closer = None
  BY ConstantsAssumption, HandlerAlone
  DEF ControlOK, Send, WriteLink, WriteLast, WriteAgain, WriteError, WriteDone
<1>2. CASE WriteLink(s)
  <2>1. outChain[s] # 0 /\ closer # s /\ CursorOK(s)
    BY <1>1, <1>2 DEF WriteLink
  <2>2. InRing(s, outPos[s])
    BY <1>1, <2>1, ConstantsAssumption DEF CursorOK, InRing, RingType, Slots
  <2>3. body[out[s][outPos[s]]].links \in 1 .. MaxLinks
    BY <2>2 DEF FilledOK, RingType, ChainType, Bodies
  <2>4. outChain'[s] <= MaxLinks
    BY <1>2, <2>3, ConstantsAssumption DEF WriteLink, RingType
  <2>5. CursorOK(s)'
    BY <1>1, <1>2, <2>1, <2>4 DEF CursorOK, WriteLink
  <2>6. \A x \in Sessions \ {s} : SameCursor(x)
    BY <1>2 DEF SameCursor, WriteLink, RingType
  <2> QED
    BY <2>5, <2>6, OneCursor
<1>3. CASE WriteLast(s)
  <2>1. /\ outPos'[s] = Inc(outPos[s]) /\ outLast' = outLast
        /\ outChain'[s] = IF Inc(outPos[s]) = outLast[s] THEN 0 ELSE 1
        /\ UNCHANGED <<open, closer>>
    BY <1>3 DEF WriteLast, RingType
  <2>2. CursorOK(s)'
    BY <1>1, <2>1, ConstantsAssumption DEF CursorOK
  <2>3. \A x \in Sessions \ {s} : SameCursor(x)
    BY <1>3 DEF SameCursor, WriteLast, RingType
  <2> QED
    BY <2>2, <2>3, OneCursor
<1>4. CASE WriteAgain(s) \/ WriteError(s) \/ WriteDone(s)
  BY <1>4, KeepsCursors DEF WriteAgain, WriteError, WriteDone
<1> QED
  BY <1>2, <1>3, <1>4 DEF Send

LEMMA EventCursors ==
  ASSUME ChainInv, NEW s \in Sessions,
         Connect(s) \/ WriteEvent(s) \/ FreeQueued(s) \/ EndClose(s)
  PROVE  \A x \in Sessions : CursorOK(x)'
<1> USE DEF ChainInv, WakeInv, LifeInv, LifeType
<1>1. CASE Connect(s)
  <2>1. CursorOK(s)'
    BY <1>1, ConstantsAssumption DEF Connect, CursorOK, RingType
  <2>2. \A x \in Sessions \ {s} : SameCursor(x)
    BY <1>1 DEF Connect, SameCursor, RingType
  <2> QED
    BY <2>1, <2>2, OneCursor
<1>2. CASE WriteEvent(s)
  <2>1. /\ outLast' = outLast /\ open[s]
        /\ outChain'[s] = IF outChain[s] = 0 /\ outPos[s] # outLast[s] THEN 1 ELSE outChain[s]
        /\ UNCHANGED <<outPos, open, closer>>
    BY <1>2 DEF WriteEvent, StartSend, RingType
  <2>2. CursorOK(s)'
    BY <2>1, ConstantsAssumption DEF CursorOK
  <2>3. \A x \in Sessions \ {s} : SameCursor(x)
    BY <1>2 DEF WriteEvent, StartSend, SameCursor, RingType
  <2> QED
    BY <2>2, <2>3, OneCursor
<1>3. CASE FreeQueued(s)
  <2>1. open[s] /\ closer = s
    BY <1>3, ConstantsAssumption DEF FreeQueued, ControlOK
  <2>2. CursorOK(s)'
    BY <1>3, <2>1 DEF FreeQueued, CursorOK
  <2>3. \A x \in Sessions \ {s} : SameCursor(x)
    BY <1>3 DEF FreeQueued, SameCursor, RingType
  <2> QED
    BY <2>2, <2>3, OneCursor
<1>4. CASE EndClose(s)
  <2>1. CursorOK(s)'
    BY <1>4 DEF EndClose, CursorOK
  <2>2. \A x \in Sessions \ {s} : SameCursor(x)
    BY <1>4 DEF EndClose, SameCursor
  <2> QED
    BY <2>1, <2>2, OneCursor
<1> QED
  BY <1>1, <1>2, <1>3, <1>4

-----------------------------------------------------------------------------
(* The invariant holds.                                                    *)

LEMMA InitChain == Init => ChainInv
<1> SUFFICES ASSUME Init PROVE ChainInv
  OBVIOUS
<1>1. WakeInv
  BY InitWake
<1> DEFINE n == Cardinality(Chains)
<1>2. n \in Nat /\ IsFiniteSet(1 .. n) /\ Cardinality(1 .. n) = n
  <2>1. n \in Nat
    BY ConstantsAssumption, FS_CardinalityType
  <2> HIDE DEF n
  <2>2. IsFiniteSet(1 .. n) /\ Cardinality(1 .. n) = IF 1 > n THEN 0 ELSE n - 1 + 1
    BY <2>1, FS_Interval
  <2> QED
    BY <2>1, <2>2
<1>3. free \in [1 .. n -> Chains] /\ IsInjective(free)
  BY DEF Init
<1>4. free \in Surjection(1 .. n, Chains)
  <2>1. free \in Injection(1 .. n, Chains)
    BY <1>3 DEF Injection
  <2> QED
    BY <1>2, <2>1, FS_Injection, ConstantsAssumption
<1>5. \A c \in Chains : c \in Range(free)
  BY <1>3, <1>4 DEF Surjection, Range
<1>6. free \in Seq(Chains)
  BY <1>2, <1>3
<1>7. ChainType
  <2>1. job.kind # "data"
    BY DEF Init, NoJob
  <2>2. body \in [Chains -> Bodies]
    BY ConstantsAssumption DEF Init, Bodies
  <2> QED
    BY <1>6, <2>1, <2>2 DEF Init, ChainType
<1>8. \A s \in Sessions, i \in Slots : ~InRing(s, i)
  BY ConstantsAssumption DEF Init, InRing, Slots
<1>9. ASSUME NEW c \in Chains PROVE Owners(c) = 0
  <2>1. Held(c) = {} /\ job.pkt # c
    BY <1>8, ConstantsAssumption DEF Held, Init, NoJob
  <2> QED
    BY <2>1, HeldFinite, FS_EmptySet
<1>10. FilledOK /\ CountOK /\ FreeOK
  BY <1>3, <1>5, <1>8, <1>9 DEF FilledOK, CountOK, FreeOK, Init
<1>11. \A s \in Sessions : CursorOK(s)
  BY ConstantsAssumption DEF Init, CursorOK
<1> QED
  BY <1>1, <1>7, <1>10, <1>11 DEF ChainInv

LEMMA StepChain ==
  ASSUME "data" \notin Kinds
  PROVE  ChainInv /\ [Next]_vars => ChainInv'
<1> SUFFICES ASSUME ChainInv, [Next]_vars
             PROVE  WakeInv' /\ Chained /\ \A s \in Sessions : CursorOK(s)'
  BY DEF ChainInv, Chained
<1> DEFINE Goal == Chained /\ \A s \in Sessions : CursorOK(s)'
<1>1. WakeInv'
  BY StepWake DEF ChainInv
<1> SUFFICES Goal
  BY <1>1
<1>2. job.kind # "data" /\ job \in Jobs
  BY DEF ChainInv, ChainType, WakeInv, LifeInv, LifeType
<1> DEFINE Still == /\ UNCHANGED <<rings, pool, open>> /\ job'.pkt = job.pkt
                    /\ job'.kind # "data" /\ (closer # None => closer' = closer)
<1>3. Still => Goal
  BY KeepsChains, KeepsCursors
<1> HIDE DEF Goal
<1>4. ASSUME UNCHANGED vars PROVE Goal
  BY <1>2, <1>3, <1>4 DEF vars
<1>5. ASSUME NEW s \in Sessions, HangUp(s) \/ DisconnectFinalizes(s) \/ WriteTimeout(s)
      PROVE  Goal
  BY <1>2, <1>3, <1>5 DEF HangUp, DisconnectFinalizes, WriteTimeout
<1>6. ASSUME NEW s \in Sessions, Drop(s) PROVE Goal
  <2>1. job'.pkt = job.pkt /\ job'.kind = job.kind
    BY <1>2, <1>6 DEF Drop, Jobs
  <2> QED
    BY <1>2, <1>3, <1>6, <2>1 DEF Drop
<1>7. ASSUME NEW kind \in Kinds, NEW prio \in Priorities \cup {0},
             NEW todo \in SUBSET OpenSessions, BeginHandler(kind, prio, todo)
      PROVE  Goal
  <2>1. job'.pkt = None /\ job.pkt = None /\ job'.kind # "data"
    BY <1>7 DEF BeginHandler, NoJob
  <2> QED
    BY <1>3, <1>7, <2>1 DEF BeginHandler
<1>8. ASSUME BuildFails PROVE Goal
  <2>1. job'.pkt = job.pkt /\ (job'.kind = job.kind \/ job'.kind = "none")
    BY <1>2, <1>8 DEF BuildFails, NeedsPacket, NoJob, Jobs
  <2> QED
    BY <1>2, <1>3, <1>8, <2>1 DEF BuildFails
<1>9. ASSUME BeginClose PROVE Goal
  BY <1>2, <1>3, <1>9 DEF BeginClose
<1>10. ASSUME NEW b \in Bodies, BuildPacket(b) PROVE Goal
  BY <1>10, BuildChains, KeepsCursors DEF BuildPacket, Goal
<1>11. ASSUME EndHandler PROVE Goal
  BY <1>11, EndHandlerChains, KeepsCursors DEF EndHandler, Goal
<1>12. ASSUME NEW s \in Sessions, Enqueue(s) PROVE Goal
  BY <1>12, EnqueueChains, EnqueueCursors DEF Goal
<1>13. ASSUME NEW s \in Sessions, Connect(s) PROVE Goal
  BY <1>13, ConnectChains, EventCursors DEF Goal
<1>14. ASSUME NEW s \in Sessions, WriteEvent(s) \/ EndClose(s) PROVE Goal
  <2>1. UNCHANGED <<out, outPos, outLast, pool, job>>
    BY <1>14 DEF WriteEvent, EndClose
  <2>2. Chained
    BY <1>2, <2>1, KeepsChains
  <2> QED
    BY <1>14, <2>2, EventCursors DEF Goal
<1>15. ASSUME NEW s \in Sessions, FreeQueued(s) PROVE Goal
  <2>1. Chained
    BY <1>15, RemoveChains DEF FreeQueued
  <2> QED
    BY <1>15, <2>1, EventCursors DEF Goal
<1>16. ASSUME NEW s \in Sessions, Send(s) PROVE Goal
  <2>1. CASE WriteLast(s)
    <3>1. outPos[s] # outLast[s]
      BY <2>1, HandlerAlone, ConstantsAssumption
      DEF WriteLast, ChainInv, CursorOK, WakeInv, LifeInv, ControlOK
    <3>2. Chained
      BY <2>1, <3>1, RemoveChains DEF WriteLast
    <3> QED
      BY <1>16, <3>2, SendCursors DEF Goal
  <2>2. CASE WriteLink(s) \/ WriteAgain(s) \/ WriteError(s) \/ WriteDone(s)
    <3>1. UNCHANGED <<out, outPos, outLast, pool, job>>
      BY <2>2 DEF WriteLink, WriteAgain, WriteError, WriteDone
    <3>2. Chained
      BY <1>2, <3>1, KeepsChains
    <3> QED
      BY <1>16, <3>2, SendCursors DEF Goal
  <2> QED
    BY <1>16, <2>1, <2>2 DEF Send
<1> HIDE DEF Still
<1> QED
  BY <1>4, <1>5, <1>6, <1>7, <1>8, <1>9, <1>10, <1>11, <1>12, <1>13, <1>14,
     <1>15, <1>16 DEF Next, Handle, Close

LEMMA ChainInvariant ==
  ASSUME "data" \notin Kinds
  PROVE  Spec => []ChainInv
<1>1. ChainInv /\ [Next]_vars => ChainInv'
  BY StepChain
<1> QED
  BY <1>1, InitChain, PTL DEF Spec

\* Every variable of the output side keeps its type; the positions of a ring
\* never leave it and a reference count never reaches its limit.
THEOREM TypeCorrect ==
  ASSUME "data" \notin Kinds
  PROVE  Spec => []TypeOK
<1>1. ChainInv => TypeOK
  BY ChainInvChecks
<1> QED
  BY <1>1, ChainInvariant, PTL

\* A chain is counted once for every slot of a ring and every handler that
\* holds it, and is on the free list, once, as soon as nobody does
\* (ngx_rtmp_acquire_shared_chain, ngx_rtmp_free_shared_chain), through every
\* failure of a write, every dropped message and the end of every session.
THEOREM ChainsAlwaysAccounted ==
  ASSUME "data" \notin Kinds
  PROVE  Spec => []ChainsAccounted
<1>1. ChainInv => ChainsAccounted
  BY ChainInvChecks
<1> QED
  BY <1>1, ChainInvariant, PTL

-----------------------------------------------------------------------------
(* The rings implement first-in first-out queues.                          *)

\* The slot of the k-th message of the ring.
At(s, k) == IF outPos[s] + k - 1 < OutSize THEN outPos[s] + k - 1
                                           ELSE outPos[s] + k - 1 - OutSize

LEMMA AtInRing ==
  ASSUME RingType, NEW s \in Sessions, NEW k \in 1 .. Used(s)
  PROVE  At(s, k) \in Slots /\ InRing(s, At(s, k))
<1>1. OutSize \in Nat \ {0} /\ outPos[s] \in Slots /\ outLast[s] \in Slots
  BY ConstantsAssumption DEF RingType
<1>2. Used(s) \in 0 .. OutSize - 1 /\ k \in Nat /\ 1 <= k /\ k <= Used(s)
  BY <1>1, RingPositions
<1> QED
  BY <1>1, <1>2 DEF At, Used, InRing, Slots

LEMMA ContentsType ==
  ASSUME ChainInv, NEW s \in Sessions
  PROVE  /\ RingContents(s) \in Seq(Bodies) /\ Len(RingContents(s)) = Used(s)
         /\ Used(s) \in Nat
         /\ \A k \in 1 .. Used(s) : RingContents(s)[k] = body[out[s][At(s, k)]]
<1>1. Used(s) \in Nat
  BY RingPositions, ConstantsAssumption DEF ChainInv, WakeInv
<1>2. ASSUME NEW k \in 1 .. Used(s) PROVE body[out[s][At(s, k)]] \in Bodies
  BY <1>2, AtInRing DEF ChainInv, WakeInv, ChainType, FilledOK
<1>3. RingContents(s) = [k \in 1 .. Used(s) |-> body[out[s][At(s, k)]]]
  BY DEF RingContents, At
<1> QED
  BY <1>1, <1>2, <1>3

LEMMA EveryContents ==
  ChainInv => \A x \in Sessions :
    /\ RingContents(x) \in Seq(Bodies) /\ Len(RingContents(x)) = Used(x)
    /\ \A k \in 1 .. Used(x) : RingContents(x)[k] = body[out[x][At(x, k)]]
BY ContentsType

LEMMA AppendByElements ==
  ASSUME NEW S, NEW p \in Seq(S), NEW q \in Seq(S), NEW e \in S,
         Len(q) = Len(p) + 1, q[Len(p) + 1] = e,
         \A k \in 1 .. Len(p) : q[k] = p[k]
  PROVE  q = Append(p, e)
<1>1. /\ Append(p, e) \in Seq(S) /\ Len(Append(p, e)) = Len(q) /\ Len(p) \in Nat
      /\ \A k \in 1 .. Len(p) : Append(p, e)[k] = p[k]
      /\ Append(p, e)[Len(p) + 1] = e
  OBVIOUS
<1>2. \A k \in 1 .. Len(q) : q[k] = Append(p, e)[k]
  BY <1>1
<1> QED
  BY <1>1, <1>2, SeqEqual

LEMMA TailByElements ==
  ASSUME NEW S, NEW p \in Seq(S), NEW q \in Seq(S), p # <<>>,
         Len(q) = Len(p) - 1, \A k \in 1 .. Len(q) : q[k] = p[k + 1]
  PROVE  q = Tail(p)
<1>1. /\ Tail(p) \in Seq(S) /\ Len(Tail(p)) = Len(q)
      /\ \A k \in 1 .. Len(q) : Tail(p)[k] = p[k + 1]
  OBVIOUS
<1> QED
  BY <1>1, SeqEqual

\* Messages stay as they are while their ring does and their chains are not
\* built anew.
LEMMA SameContents ==
  ASSUME ChainInv, NEW s \in Sessions,
         outPos'[s] = outPos[s], outLast'[s] = outLast[s],
         \A i \in Slots : InRing(s, i) => body'[out'[s][i]] = body[out[s][i]]
  PROVE  RingContents(s)' = RingContents(s)
<1>1. Used(s)' = Used(s) /\ \A k : At(s, k)' = At(s, k)
  BY DEF Used, At
<1>2. /\ RingContents(s) = [k \in 1 .. Used(s) |-> body[out[s][At(s, k)]]]
      /\ RingContents(s)' = [k \in 1 .. Used(s)' |-> body'[out'[s][At(s, k)']]]
  BY DEF RingContents, At
<1>3. \A k \in 1 .. Used(s) : body'[out'[s][At(s, k)']] = body[out[s][At(s, k)]]
  BY <1>1, AtInRing DEF ChainInv, WakeInv
<1> QED
  BY <1>1, <1>2, <1>3

Contents == [s \in Sessions |-> RingContents(s)]

LEMMA AcceptStep ==
  ASSUME ChainInv, ChainInv', NEW s \in Sessions, Enqueue(s)
  PROVE  \E m \in Bodies : /\ Len(Contents[s]) < OutSize - 1
                           /\ Contents' = [Contents EXCEPT ![s] = Append(@, m)]
<1> USE DEF ChainInv, WakeInv, LifeInv, LifeType
<1> DEFINE c == job.pkt
<1>1. /\ c \in Chains /\ job.prio \in 0 .. 3 /\ ~Full(s, job.prio)
      /\ out' = [out EXCEPT ![s][outLast[s]] = c]
      /\ outLast' = [outLast EXCEPT ![s] = Inc(@)] /\ UNCHANGED <<outPos, body>>
  BY DEF Enqueue, Jobs
<1> HIDE DEF c
<1>2. /\ ~InRing(s, outLast[s]) /\ Used(s) + 1 < OutSize
      /\ outPos'[s] = outPos[s] /\ outLast'[s] = Inc(outLast[s])
  BY <1>1, RingAdd DEF RingType
<1>3. Used(s)' = Used(s) + 1
  BY <1>1, RingGrows
<1>4. /\ \A i \in Slots : out'[s][i] = IF i = outLast[s] THEN c ELSE out[s][i]
      /\ outLast[s] \in Slots /\ outPos[s] \in Slots /\ OutSize \in Nat \ {0}
      /\ \A x \in Sessions \ {s} : out'[x] = out[x]
  BY <1>1, ConstantsAssumption DEF ChainType, RingType
<1>5. \A k \in Int : At(s, k)' = At(s, k)
  BY <1>2 DEF At
<1>6. At(s, Used(s) + 1) = outLast[s]
  BY <1>2, <1>4 DEF At, Used, Slots
<1>7. /\ RingContents(s) \in Seq(Bodies) /\ Len(RingContents(s)) = Used(s)
      /\ Used(s) \in Nat
      /\ \A k \in 1 .. Used(s) : RingContents(s)[k] = body[out[s][At(s, k)]]
  BY ContentsType
<1>8. /\ RingContents(s)' \in Seq(Bodies) /\ Len(RingContents(s)') = Used(s)'
      /\ \A k \in 1 .. Used(s)' : RingContents(s)'[k] = body'[out'[s][At(s, k)']]
  <2>1. ChainInv' => (\A x \in Sessions :
          /\ RingContents(x) \in Seq(Bodies) /\ Len(RingContents(x)) = Used(x)
          /\ \A k \in 1 .. Used(x) : RingContents(x)[k] = body[out[x][At(x, k)]])'
    BY EveryContents, PTL
  <2> QED
    BY <2>1
<1>9. \A k \in 1 .. Used(s) : RingContents(s)'[k] = RingContents(s)[k]
  <2> SUFFICES ASSUME NEW k \in 1 .. Used(s)
               PROVE  RingContents(s)'[k] = RingContents(s)[k]
    OBVIOUS
  <2>1. At(s, k) \in Slots /\ At(s, k) # outLast[s]
    BY <1>2, AtInRing
  <2>2. k \in 1 .. Used(s)' /\ At(s, k)' = At(s, k)
    BY <1>3, <1>5, <1>7
  <2>3. RingContents(s)'[k] = body[out'[s][At(s, k)]]
    BY <1>1, <1>8, <2>2
  <2>4. out'[s][At(s, k)] = out[s][At(s, k)]
    BY <1>4, <2>1
  <2> QED
    BY <1>7, <2>3, <2>4
<1>10. RingContents(s)'[Used(s) + 1] = body[c]
  BY <1>1, <1>3, <1>4, <1>5, <1>6, <1>7, <1>8
<1>11. body[c] \in Bodies
  BY <1>1 DEF ChainType
<1>12. RingContents(s)' = Append(RingContents(s), body[c])
  BY <1>3, <1>7, <1>8, <1>9, <1>10, <1>11, AppendByElements
<1>13. \A x \in Sessions \ {s} : RingContents(x)' = RingContents(x)
  BY <1>1, <1>4, SameContents DEF RingType
<1>14. Len(Contents[s]) < OutSize - 1
  BY <1>2, <1>4, <1>7 DEF Contents
<1>15. Contents' = [Contents EXCEPT ![s] = Append(@, body[c])]
  BY <1>12, <1>13 DEF Contents
<1> QED
  BY <1>11, <1>14, <1>15

LEMMA DeliverStep ==
  ASSUME ChainInv, ChainInv', NEW s \in Sessions, outPos[s] # outLast[s],
         outPos' = [outPos EXCEPT ![s] = Inc(@)], UNCHANGED <<out, outLast, body>>
  PROVE  Contents[s] # <<>> /\ Contents' = [Contents EXCEPT ![s] = Tail(@)]
<1> USE DEF ChainInv, WakeInv
<1>1. /\ outPos'[s] = Inc(outPos[s]) /\ outLast'[s] = outLast[s]
      /\ outPos[s] \in Slots /\ OutSize \in Nat \ {0}
  BY ConstantsAssumption DEF RingType
<1>2. Used(s)' = Used(s) - 1
  BY <1>1, RingRemove
<1>3. /\ RingContents(s) \in Seq(Bodies) /\ Len(RingContents(s)) = Used(s)
      /\ Used(s) \in Nat /\ Used(s) # 0
      /\ \A k \in 1 .. Used(s) : RingContents(s)[k] = body[out[s][At(s, k)]]
  BY ContentsType, RingPositions
<1>4. /\ RingContents(s)' \in Seq(Bodies) /\ Len(RingContents(s)') = Used(s)'
      /\ \A k \in 1 .. Used(s)' : RingContents(s)'[k] = body'[out'[s][At(s, k)']]
  <2>1. ChainInv' => (\A x \in Sessions :
          /\ RingContents(x) \in Seq(Bodies) /\ Len(RingContents(x)) = Used(x)
          /\ \A k \in 1 .. Used(x) : RingContents(x)[k] = body[out[x][At(x, k)]])'
    BY EveryContents, PTL
  <2> QED
    BY <2>1
<1>5. Used(s) \in 0 .. OutSize - 1
  BY RingPositions
<1>6. \A k \in 1 .. Used(s)' : At(s, k)' = At(s, k + 1) /\ k + 1 \in 1 .. Used(s)
  BY <1>1, <1>2, <1>3, <1>5 DEF At, Inc, Slots
<1>7. RingContents(s)' = Tail(RingContents(s))
  <2>1. \A k \in 1 .. Len(RingContents(s)') : RingContents(s)'[k] = RingContents(s)[k + 1]
    BY <1>3, <1>4, <1>6
  <2>2. Len(RingContents(s)') = Len(RingContents(s)) - 1 /\ RingContents(s) # <<>>
    BY <1>2, <1>3, <1>4
  <2> QED
    BY <1>3, <1>4, <2>1, <2>2, TailByElements
<1>8. \A x \in Sessions \ {s} : RingContents(x)' = RingContents(x)
  <2> SUFFICES ASSUME NEW x \in Sessions \ {s} PROVE RingContents(x)' = RingContents(x)
    OBVIOUS
  <2>1. outPos'[x] = outPos[x] /\ outLast'[x] = outLast[x]
    BY DEF RingType
  <2> QED
    BY <2>1, SameContents
<1> QED
  BY <1>3, <1>7, <1>8 DEF Contents

\* Every other step leaves the messages of every ring alone.
LEMMA StutterStep ==
  ASSUME ChainInv, UNCHANGED <<out, outPos, outLast, body>>
  PROVE  Contents' = Contents
BY SameContents DEF Contents

LEMMA BuildStep ==
  ASSUME ChainInv, NEW b \in Bodies, BuildPacket(b)
  PROVE  Contents' = Contents
<1> USE DEF ChainInv
<1>1. PICK c \in Chains : AllocShared(c) /\ body' = [body EXCEPT ![c] = b]
  BY DEF BuildPacket
<1>2. free # <<>> /\ UNCHANGED <<out, outPos, outLast>>
  BY DEF BuildPacket
<1>3. ref[c] = 0
  BY <1>1, <1>2, AllocChain DEF ChainType
<1>4. Held(c) = {}
  <2>1. /\ ref[c] = Cardinality(Held(c)) + (IF job.pkt = c THEN 1 ELSE 0)
        /\ Cardinality(Held(c)) \in Nat /\ IsFiniteSet(Held(c))
    BY HeldFinite DEF CountOK
  <2>2. Cardinality(Held(c)) = 0
    BY <1>3, <2>1
  <2> QED
    BY <2>1, <2>2, FS_EmptySet
<1>5. ASSUME NEW x \in Sessions, NEW i \in Slots, InRing(x, i)
      PROVE  body'[out'[x][i]] = body[out[x][i]]
  <2>1. out[x][i] # c /\ out[x][i] \in Chains
    <3>1. <<x, i>> \notin Held(c)
      BY <1>4
    <3> QED
      BY <1>5, <3>1 DEF Held, FilledOK
  <2> QED
    BY <1>1, <1>2, <2>1 DEF ChainType
<1> QED
  BY <1>2, <1>5, SameContents DEF Contents

LEMMA ConnectStep ==
  ASSUME ChainInv, NEW s \in Sessions, Connect(s)
  PROVE  Contents' = Contents
<1> USE DEF ChainInv, WakeInv
<1>1. /\ outPos' = [outPos EXCEPT ![s] = 0] /\ outLast' = [outLast EXCEPT ![s] = 0]
      /\ UNCHANGED body /\ outPos[s] = outLast[s]
      /\ \A x \in Sessions \ {s} : out'[x] = out[x]
  BY DEF Connect, CursorOK, ChainType
<1>2. Used(s) = 0 /\ Used(s)' = 0
  BY <1>1, ConstantsAssumption DEF Used, RingType, Slots
<1>3. RingContents(s)' = RingContents(s)
  <2>1. 1 .. Used(s) = {} /\ 1 .. Used(s)' = {}
    BY <1>2
  <2>2. RingContents(s) = [k \in {} |-> body[out[s][At(s, k)]]]
    BY <2>1 DEF RingContents, At
  <2>3. RingContents(s)' = [k \in {} |-> body'[out'[s][At(s, k)']]]
    BY <2>1 DEF RingContents, At
  <2> QED
    BY <2>2, <2>3
<1>4. \A x \in Sessions \ {s} : RingContents(x)' = RingContents(x)
  <2> SUFFICES ASSUME NEW x \in Sessions \ {s} PROVE RingContents(x)' = RingContents(x)
    OBVIOUS
  <2>1. outPos'[x] = outPos[x] /\ outLast'[x] = outLast[x]
    BY <1>1 DEF RingType
  <2> QED
    BY <1>1, <2>1, SameContents
<1> QED
  BY <1>3, <1>4 DEF Contents

LEMMA FifoStep ==
  ASSUME ChainInv, ChainInv', [Next]_vars
  PROVE  [Fifo!Next]_Contents
<1> DEFINE Goal == Fifo!Next \/ Contents' = Contents
<1>1. ASSUME NEW s \in Sessions, NEW m \in Bodies, Len(Contents[s]) < OutSize - 1,
             Contents' = [Contents EXCEPT ![s] = Append(@, m)]
      PROVE  Goal
  BY <1>1 DEF Fifo!Next, Fifo!Accept, Contents
<1>2. ASSUME NEW s \in Sessions, Contents[s] # <<>>,
             Contents' = [Contents EXCEPT ![s] = Tail(@)]
      PROVE  Goal
  BY <1>2 DEF Fifo!Next, Fifo!Deliver, Contents
<1>3. ASSUME UNCHANGED <<out, outPos, outLast, body>> PROVE Goal
  BY <1>3, StutterStep
<1>4. ASSUME Contents' = Contents PROVE Goal
  BY <1>4
<1> HIDE DEF Goal
<1>5. ASSUME UNCHANGED vars PROVE Goal
  BY <1>3, <1>5 DEF vars
<1>6. ASSUME NEW s \in Sessions, Enqueue(s) PROVE Goal
  BY <1>1, <1>6, AcceptStep
<1>7. ASSUME NEW s \in Sessions, FreeQueued(s) PROVE Goal
  BY <1>2, <1>7, DeliverStep DEF FreeQueued, SetPool
<1>8. ASSUME NEW s \in Sessions, WriteLast(s) PROVE Goal
  <2>1. outPos[s] # outLast[s]
    BY <1>8, HandlerAlone, ConstantsAssumption
    DEF WriteLast, ChainInv, CursorOK, WakeInv, LifeInv, ControlOK
  <2> QED
    BY <1>2, <1>8, <2>1, DeliverStep DEF WriteLast, SetPool
<1>9. ASSUME NEW s \in Sessions,
             WriteLink(s) \/ WriteAgain(s) \/ WriteError(s) \/ WriteDone(s)
      PROVE  Goal
  BY <1>3, <1>9 DEF WriteLink, WriteAgain, WriteError, WriteDone
<1>10. ASSUME NEW s \in Sessions, HangUp(s) \/ DisconnectFinalizes(s) \/ WriteTimeout(s)
                                  \/ WriteEvent(s) \/ Drop(s) \/ EndClose(s)
       PROVE  Goal
  BY <1>3, <1>10 DEF HangUp, DisconnectFinalizes, WriteTimeout, WriteEvent, Drop, EndClose
<1>11. ASSUME NEW kind \in Kinds, NEW prio \in Priorities \cup {0},
              NEW todo \in SUBSET OpenSessions, BeginHandler(kind, prio, todo)
       PROVE  Goal
  BY <1>3, <1>11 DEF BeginHandler
<1>12. ASSUME BuildFails \/ EndHandler \/ BeginClose PROVE Goal
  <2>1. UNCHANGED body
    <3>1. CASE EndHandler
      BY <3>1 DEF EndHandler, SetPool
    <3> QED
      BY <1>12, <3>1 DEF BuildFails, BeginClose
  <2>2. UNCHANGED <<out, outPos, outLast>>
    <3>1. CASE EndHandler
      BY <3>1 DEF EndHandler
    <3> QED
      BY <1>12, <3>1 DEF BuildFails, BeginClose
  <2> QED
    BY <1>3, <2>1, <2>2
<1>13. ASSUME NEW b \in Bodies, BuildPacket(b) PROVE Goal
  BY <1>4, <1>13, BuildStep
<1>14. ASSUME NEW s \in Sessions, Connect(s) PROVE Goal
  BY <1>4, <1>14, ConnectStep
<1>15. Goal
  BY <1>5, <1>6, <1>7, <1>8, <1>9, <1>10, <1>11, <1>12, <1>13, <1>14
  DEF Next, Send, Handle, Close
<1> QED
  BY <1>15 DEF Goal

LEMMA FifoInit == ASSUME Init PROVE Fifo!Init
<1>1. ASSUME NEW s \in Sessions PROVE RingContents(s) = <<>>
  <2>1. Used(s) = 0
    BY DEF Init, Used
  <2>2. 1 .. Used(s) = {}
    BY <2>1
  <2> QED
    BY <2>2 DEF RingContents
<1> QED
  BY <1>1 DEF Fifo!Init

\* The rings and the shared chains implement MessageFifo: a message that
\* ngx_rtmp_send_message has accepted is never overwritten, neither by a later
\* message in its slot nor by one that is built in its chain, and leaves its
\* ring in order, once it is written or when its session ends.
THEOREM RingsAreFifo ==
  ASSUME "data" \notin Kinds
  PROVE  Spec => RingIsFifo
<1>1. Init => Fifo!Init
  BY FifoInit
<1>2. ChainInv /\ ChainInv' /\ [Next]_vars
      => [Fifo!Next]_([s \in Sessions |-> RingContents(s)])
  BY FifoStep DEF Contents
<1>3. Spec => []ChainInv
  BY ChainInvariant
<1> QED
  BY <1>1, <1>2, <1>3, PTL DEF Spec, RingIsFifo, Fifo!Spec

=============================================================================
