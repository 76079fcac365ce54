--------------------------- MODULE OutQueueProofs ---------------------------
(* Theorems about the output queues, for every number of sessions, size of *)
(* a ring, cork and mixture of messages.                                   *)
EXTENDS OutQueue, TLAPS

USE DEF rings, events, life, pool, control, Quiet, HandlerRuns

-----------------------------------------------------------------------------
(* Sequences without repetition.                                           *)

LEMMA AppendNew ==
  ASSUME NEW S, NEW q \in Seq(S), NEW e \in S, IsInjective(q), e \notin Range(q)
  PROVE  /\ Append(q, e) \in Seq(S)
         /\ IsInjective(Append(q, e))
         /\ Range(Append(q, e)) = Range(q) \cup {e}
<1>1. /\ Append(q, e) \in Seq(S)
      /\ DOMAIN q = 1 .. Len(q) /\ DOMAIN Append(q, e) = 1 .. Len(q) + 1
      /\ \A i \in 1 .. Len(q) : Append(q, e)[i] = q[i]
      /\ Append(q, e)[Len(q) + 1] = e
      /\ Len(q) \in Nat
  OBVIOUS
<1>2. 1 .. Len(q) + 1 = (1 .. Len(q)) \cup {Len(q) + 1}
  BY <1>1
<1> QED
  BY <1>1, <1>2 DEF IsInjective, Range

LEMMA TailOfInjective ==
  ASSUME NEW S, NEW q \in Seq(S), q # <<>>, IsInjective(q)
  PROVE  /\ Head(q) \in S /\ Tail(q) \in Seq(S)
         /\ IsInjective(Tail(q))
         /\ Range(Tail(q)) = Range(q) \ {Head(q)}
         /\ Head(q) \in Range(q)
<1>1. /\ Tail(q) \in Seq(S) /\ Head(q) = q[1] /\ Len(q) \in Nat \ {0}
      /\ DOMAIN q = 1 .. Len(q) /\ DOMAIN Tail(q) = 1 .. Len(q) - 1
      /\ \A i \in 1 .. Len(q) - 1 : Tail(q)[i] = q[i + 1]
  OBVIOUS
<1>2. Head(q) \in S /\ Head(q) \in Range(q)
  BY <1>1 DEF Range
<1>3. IsInjective(Tail(q))
  BY <1>1 DEF IsInjective
<1>4. Range(Tail(q)) \subseteq Range(q) \ {Head(q)}
  BY <1>1 DEF IsInjective, Range
<1>5. ASSUME NEW x \in Range(q) \ {Head(q)} PROVE x \in Range(Tail(q))
  <2>1. PICK i \in 1 .. Len(q) : q[i] = x
    BY <1>1, <1>5 DEF Range
  <2>2. i - 1 \in 1 .. Len(q) - 1 /\ Tail(q)[i - 1] = x
    BY <1>1, <1>5, <2>1
  <2> QED
    BY <1>1, <2>2 DEF Range
<1> QED
  BY <1>1, <1>2, <1>3, <1>4, <1>5

-----------------------------------------------------------------------------
(* The life of the sessions.                                               *)

LifeType ==
  /\ open \in [Sessions -> BOOLEAN] /\ destroyed \in [Sessions -> BOOLEAN]
  /\ posted \in Seq(Sessions)
  /\ job \in Jobs
  /\ sender \in Sessions \cup {None} /\ closer \in Sessions \cup {None}

\* What runs works for sessions that exist, and nothing else runs beside the
\* close handler.
ControlOK ==
  /\ closer # None => /\ open[closer] /\ destroyed[closer]
                      /\ job = NoJob /\ sender = None
  /\ sender # None => open[sender]
  /\ job.todo \subseteq OpenSessions
  /\ \A s \in Sessions : destroyed[s] => open[s]

LifeInv == LifeType /\ ControlOK /\ ClosePostedOnce

LEMMA JobTypes ==
  /\ NoJob \in Jobs /\ NoJob.todo = {} /\ NoJob.kind = "none"
  /\ \A j \in Jobs : j.todo \subseteq Sessions
  /\ \A j \in Jobs, s \in Sessions : [j EXCEPT !.todo = @ \ {s}] \in Jobs
  /\ \A j \in Jobs, c \in Chains : [j EXCEPT !.pkt = c] \in Jobs
BY DEF Jobs, NoJob, AllKinds

\* Finalising an open session keeps the queue of close events in order.
LEMMA FinalizeLife ==
  ASSUME LifeInv, NEW s \in Sessions, open[s], Finalize(s), UNCHANGED <<open, closer>>
  PROVE  /\ destroyed' \in [Sessions -> BOOLEAN] /\ posted' \in Seq(Sessions)
         /\ ClosePostedOnce'
         /\ \A x \in Sessions : destroyed'[x] <=> destroyed[x] \/ x = s
<1> USE DEF LifeInv, LifeType, ControlOK
<1>1. CASE destroyed[s]
  BY <1>1 DEF Finalize, ClosePostedOnce
<1>2. CASE ~destroyed[s]
  <2>1. s \notin Range(posted) /\ closer # s
    BY <1>2, ConstantsAssumption DEF ClosePostedOnce
  <2>2. posted' = Append(posted, s) /\ destroyed' = [destroyed EXCEPT ![s] = TRUE]
    BY <1>2, <2>1 DEF Finalize, Post
  <2>3. /\ posted' \in Seq(Sessions) /\ IsInjective(posted')
        /\ Range(posted') = Range(posted) \cup {s}
    BY <2>1, <2>2, AppendNew DEF ClosePostedOnce
  <2>4. \A x \in Sessions : destroyed'[x] <=> destroyed[x] \/ x = s
    BY <2>2
  <2>5. ClosePostedOnce'
    BY <2>1, <2>3, <2>4 DEF ClosePostedOnce
  <2> QED
    BY <2>2, <2>3, <2>4, <2>5
<1> QED
  BY <1>1, <1>2

\* A step that finalises s, or nobody, and leaves the control in order.
Ends(s) == Finalize(s) \/ UNCHANGED <<destroyed, posted>>

LEMMA EndsLife ==
  ASSUME LifeInv, NEW s \in Sessions, open[s], Ends(s), UNCHANGED <<open, closer>>,
         job' \in Jobs, job'.todo \subseteq job.todo,
         closer # None => job' = job,
         sender' = sender \/ sender' = None
  PROVE  LifeInv'
<1>1. CASE Finalize(s)
  <2>1. /\ destroyed' \in [Sessions -> BOOLEAN] /\ posted' \in Seq(Sessions)
        /\ ClosePostedOnce'
        /\ \A x \in Sessions : destroyed'[x] <=> destroyed[x] \/ x = s
    BY <1>1, FinalizeLife
  <2>2. LifeType'
    BY <2>1 DEF LifeInv, LifeType
  <2>3. ControlOK'
    BY <2>1 DEF LifeInv, LifeType, ControlOK, OpenSessions
  <2> QED
    BY <2>1, <2>2, <2>3 DEF LifeInv
<1>2. CASE UNCHANGED <<destroyed, posted>>
  BY <1>2 DEF LifeInv, LifeType, ControlOK, OpenSessions, ClosePostedOnce
<1> QED
  BY <1>1, <1>2 DEF Ends

LEMMA InitLife == Init => LifeInv
<1> SUFFICES ASSUME Init PROVE LifeInv
  OBVIOUS
<1>1. LifeType
  BY JobTypes DEF Init, LifeType
<1>2. ControlOK
  BY JobTypes DEF Init, ControlOK
<1>3. ClosePostedOnce
  BY DEF Init, ClosePostedOnce, IsInjective, Range
<1> QED
  BY <1>1, <1>2, <1>3 DEF LifeInv

\* Steps of the handlers and of ngx_rtmp_send that end nobody.
LEMMA KeepsLife ==
  ASSUME LifeInv, UNCHANGED <<open, destroyed, posted, closer>>,
         job' \in Jobs, job'.todo \subseteq OpenSessions,
         closer # None => job' = job /\ sender' = sender,
         sender' \in Sessions \cup {None}, sender' # None => open[sender']
  PROVE  LifeInv'
BY DEF LifeInv, LifeType, ControlOK, OpenSessions, ClosePostedOnce

LEMMA ConnectLife == ASSUME LifeInv, NEW s \in Sessions, Connect(s) PROVE LifeInv'
<1> USE DEF LifeInv, LifeType, ControlOK, Connect
<1>1. LifeType'
  OBVIOUS
<1>2. ControlOK'
  BY DEF OpenSessions
<1>3. ClosePostedOnce'
  BY DEF ClosePostedOnce
<1> QED
  BY <1>1, <1>2, <1>3

LEMMA BeginCloseLife == ASSUME LifeInv, BeginClose PROVE LifeInv'
<1> USE DEF LifeInv, LifeType, ControlOK, BeginClose
<1>1. /\ Head(posted) \in Sessions /\ Head(posted) \in Range(posted)
      /\ Tail(posted) \in Seq(Sessions) /\ IsInjective(Tail(posted))
      /\ Range(Tail(posted)) = Range(posted) \ {Head(posted)}
  BY TailOfInjective DEF ClosePostedOnce
<1>2. LifeType'
  BY <1>1
<1>3. open[Head(posted)] /\ destroyed[Head(posted)]
  BY <1>1 DEF ClosePostedOnce
<1>4. ControlOK'
  BY <1>1, <1>3 DEF OpenSessions
<1>5. ClosePostedOnce'
  BY <1>1, <1>3, ConstantsAssumption DEF ClosePostedOnce
<1> QED
  BY <1>2, <1>4, <1>5

LEMMA EndCloseLife == ASSUME LifeInv, NEW s \in Sessions, EndClose(s) PROVE LifeInv'
<1> USE DEF LifeInv, LifeType, ControlOK, EndClose
<1>1. LifeType'
  OBVIOUS
<1>2. s # None /\ job.todo = {} /\ sender = None
  BY ConstantsAssumption, JobTypes
<1>3. ControlOK'
  BY <1>2 DEF OpenSessions
<1>4. ClosePostedOnce'
  BY <1>2, ConstantsAssumption DEF ClosePostedOnce
<1> QED
  BY <1>1, <1>3, <1>4

\* A handler never runs inside the close handler.
LEMMA HandlerAlone ==
  ASSUME LifeInv
  PROVE  /\ HandlerRuns => closer = None /\ job.todo \subseteq OpenSessions
         /\ sender # None => closer = None
         /\ job \in Jobs
BY JobTypes DEF LifeInv, LifeType, ControlOK

LEMMA BeginHandlerLife ==
  ASSUME LifeInv, NEW kind \in Kinds, NEW prio \in Priorities \cup {0},
         NEW todo \in SUBSET OpenSessions, BeginHandler(kind, prio, todo)
  PROVE  LifeInv'
<1>1. job' \in Jobs /\ job'.todo \subseteq OpenSessions
  BY ConstantsAssumption DEF BeginHandler, Jobs, OpenSessions
<1> QED
  BY <1>1, KeepsLife DEF BeginHandler

LEMMA HandleLife == ASSUME LifeInv, Handle PROVE LifeInv'
<1>1. ASSUME NEW b \in Bodies, BuildPacket(b) PROVE LifeInv'
  <2>1. job' \in Jobs /\ job'.todo = job.todo
    BY <1>1, HandlerAlone, JobTypes DEF BuildPacket, Jobs
  <2> QED
    BY <1>1, <2>1, HandlerAlone, KeepsLife DEF BuildPacket
<1>2. ASSUME BuildFails PROVE LifeInv'
  <2>1. job' \in Jobs /\ job'.todo \subseteq job.todo
    BY <1>2, HandlerAlone, JobTypes DEF BuildFails, Jobs
  <2> QED
    BY <1>2, <2>1, HandlerAlone, KeepsLife DEF BuildFails
<1>3. ASSUME NEW s \in Sessions, Drop(s) PROVE LifeInv'
  <2>1. job' \in Jobs /\ job'.todo \subseteq job.todo
    BY <1>3, HandlerAlone, JobTypes DEF Drop, Jobs
  <2> QED
    BY <1>3, <2>1, HandlerAlone, EndsLife DEF Drop, Ends, OpenSessions
<1>4. ASSUME NEW s \in Sessions, Enqueue(s) PROVE LifeInv'
  <2>1. job' \in Jobs /\ job'.todo \subseteq job.todo
    BY <1>4, HandlerAlone, JobTypes DEF Enqueue, Jobs
  <2>2. /\ UNCHANGED <<open, destroyed, posted, closer>> /\ closer = None /\ open[s]
        /\ sender' = s \/ sender' = sender
    BY <1>4, HandlerAlone DEF Enqueue, StartSend, OpenSessions
  <2> QED
    BY <2>1, <2>2, HandlerAlone, KeepsLife DEF LifeInv, LifeType, ControlOK
<1>5. ASSUME EndHandler PROVE LifeInv'
  <2>1. job' = NoJob /\ closer = None /\ UNCHANGED <<open, destroyed, posted, closer, sender>>
    BY <1>5, HandlerAlone DEF EndHandler
  <2> QED
    BY <2>1, JobTypes, KeepsLife DEF LifeInv, LifeType, ControlOK
<1> QED
  BY <1>1, <1>2, <1>3, <1>4, <1>5 DEF Handle

LEMMA SendLife == ASSUME LifeInv, NEW s \in Sessions, Send(s) PROVE LifeInv'
<1> USE DEF LifeInv, LifeType, ControlOK
<1>1. /\ sender = s /\ s # None /\ open[s] /\ closer = None
      /\ UNCHANGED <<open, job, closer>>
      /\ sender' = sender \/ sender' = None
  BY ConstantsAssumption, HandlerAlone
  DEF Send, WriteLink, WriteLast, WriteAgain, WriteError, WriteDone
<1>2. Ends(s)
  BY DEF Send, WriteLink, WriteLast, WriteAgain, WriteError, WriteDone, Ends
<1> QED
  BY <1>1, <1>2, EndsLife

LEMMA EventLife ==
  ASSUME LifeInv, NEW s \in Sessions,
         \/ HangUp(s) \/ DisconnectFinalizes(s) \/ WriteTimeout(s)
         \/ WriteEvent(s) \/ FreeQueued(s)
  PROVE  LifeInv'
<1> USE DEF LifeInv, LifeType, ControlOK
<1>1. CASE HangUp(s) \/ DisconnectFinalizes(s) \/ WriteTimeout(s)
  BY <1>1, EndsLife DEF Ends, HangUp, DisconnectFinalizes, WriteTimeout
<1>2. CASE WriteEvent(s)
  BY <1>2, KeepsLife DEF WriteEvent, StartSend
<1>3. CASE FreeQueued(s)
  BY <1>3, KeepsLife DEF FreeQueued
<1> QED
  BY <1>1, <1>2, <1>3

LEMMA StepLife == LifeInv /\ [Next]_vars => LifeInv'
<1> SUFFICES ASSUME LifeInv, [Next]_vars PROVE LifeInv'
  OBVIOUS
<1>1. CASE UNCHANGED vars
  BY <1>1 DEF vars, LifeInv, LifeType, ControlOK, OpenSessions, ClosePostedOnce
<1>2. CASE Next
  BY <1>2, ConnectLife, EventLife, SendLife, BeginHandlerLife, HandleLife,
     BeginCloseLife, EndCloseLife DEF Next, Close
<1> QED
  BY <1>1, <1>2

LEMMA LifeInvariant == Spec => []LifeInv
<1> QED
  BY InitLife, StepLife, PTL DEF Spec

\* Whoever finalises a session, and however often, its close event is posted
\* exactly once until the close handler runs for it (ngx_rtmp_finalize_session).
THEOREM CloseEventOnce == Spec => []ClosePostedOnce
<1>1. LifeInv => ClosePostedOnce
  BY DEF LifeInv
<1> QED
  BY <1>1, LifeInvariant, PTL

-----------------------------------------------------------------------------
(* Who waits for whom.                                                     *)

RingType ==
  /\ outPos \in [Sessions -> Slots] /\ outLast \in [Sessions -> Slots]
  /\ outChain \in [Sessions -> Nat]
  /\ writeActive \in [Sessions -> BOOLEAN] /\ writeTimer \in [Sessions -> BOOLEAN]

\* A session that nobody writes waits for its connection, or is not being
\* written at all and has an empty ring or one that the cork holds back.
Idle(s) ==
  \/ writeActive[s] /\ writeTimer[s]
  \/ /\ ~writeActive[s] /\ outChain[s] = 0
     /\ Used(s) = 0 \/ (OutBuffer /\ Used(s) < OutCork)

WakeOK(s) ==
  /\ sender = s /\ outChain[s] = 0 => outPos[s] = outLast[s]
  /\ open[s] /\ ~destroyed[s] /\ sender # s => Idle(s)
  /\ ~open[s] => ~writeActive[s]

WakeInv == LifeInv /\ RingType /\ \A s \in Sessions : WakeOK(s)

LEMMA RingPositions ==
  ASSUME RingType, NEW s \in Sessions
  PROVE  /\ Used(s) \in 0 .. OutSize - 1
         /\ Used(s) = 0 <=> outPos[s] = outLast[s]
         /\ Inc(outPos[s]) \in Slots /\ Inc(outLast[s]) \in Slots
<1>1. OutSize \in Nat \ {0} /\ outPos[s] \in Slots /\ outLast[s] \in Slots
  BY ConstantsAssumption DEF RingType
<1> QED
  BY <1>1 DEF Used, Inc, Slots

\* A ring that is not full takes one more message and is not full then.
LEMMA RingGrows ==
  ASSUME RingType, NEW s \in Sessions, NEW prio \in 0 .. 3, ~Full(s, prio),
         UNCHANGED outPos, outLast' = [outLast EXCEPT ![s] = Inc(@)]
  PROVE  Used(s)' = Used(s) + 1 /\ outPos[s] # outLast'[s]
<1>1. OutSize \in Nat \ {0} /\ outPos[s] \in Slots /\ outLast[s] \in Slots
  BY ConstantsAssumption DEF RingType
<1>2. outLast'[s] = Inc(outLast[s]) /\ outPos'[s] = outPos[s]
  BY DEF RingType
<1>3. (prio * OutSize) \div 4 >= 0
  <2>1. prio \in {0, 1, 2, 3}
    OBVIOUS
  <2> QED
    BY <1>1, <2>1
<1>4. Used(s) + 1 < OutSize
  BY <1>1, <1>3, RingPositions DEF Full
<1> QED
  BY <1>1, <1>2, <1>4 DEF Used, Inc, Slots

\* A step that changes nothing of session x but perhaps finalises it.
Same(x) ==
  /\ outPos'[x] = outPos[x] /\ outLast'[x] = outLast[x] /\ outChain'[x] = outChain[x]
  /\ writeActive'[x] = writeActive[x] /\ writeTimer'[x] = writeTimer[x]
  /\ open'[x] = open[x] /\ (destroyed[x] => destroyed'[x])
  /\ sender' = x <=> sender = x

LEMMA SameWake == ASSUME NEW x \in Sessions, WakeOK(x), Same(x) PROVE WakeOK(x)'
BY DEF WakeOK, Same, Idle, Used

LEMMA InitWake == Init => WakeInv
<1> SUFFICES ASSUME Init PROVE WakeInv
  OBVIOUS
<1>1. RingType
  BY ConstantsAssumption DEF Init, RingType, Slots
<1>2. ASSUME NEW s \in Sessions PROVE WakeOK(s)
  BY ConstantsAssumption DEF Init, WakeOK
<1> QED
  BY <1>1, <1>2, InitLife DEF WakeInv

\* A step of session s: its own part of WakeOK is all there is to show.
LEMMA OneSession ==
  ASSUME WakeInv, NEW s \in Sessions, WakeOK(s)',
         \A x \in Sessions \ {s} : Same(x)
  PROVE  \A x \in Sessions : WakeOK(x)'
BY SameWake DEF WakeInv

Wakes == RingType' /\ \A x \in Sessions : WakeOK(x)'

LEMMA EnqueueWake == ASSUME WakeInv, NEW s \in Sessions, Enqueue(s) PROVE Wakes
<1> USE DEF WakeInv, LifeInv, LifeType
<1>1. /\ job.prio \in 0 .. 3 /\ sender = None /\ s # None
      /\ UNCHANGED <<outPos, writeActive, open, destroyed>>
      /\ outLast' = [outLast EXCEPT ![s] = Inc(@)]
  BY ConstantsAssumption DEF Enqueue, Jobs
<1>2. Used(s)' = Used(s) + 1 /\ outPos[s] # outLast'[s] /\ Used(s) \in Nat
  <2>1. RingType /\ ~Full(s, job.prio)
    BY DEF Enqueue
  <2>2. Used(s)' = Used(s) + 1 /\ outPos[s] # outLast'[s]
    BY <1>1, <2>1, RingGrows
  <2>3. Used(s) \in Nat
    BY <2>1, RingPositions, ConstantsAssumption
  <2> QED
    BY <2>2, <2>3
<1>3. CASE Corked(s, job.prio) \/ writeActive[s] \/ destroyed[s]
  <2>1. UNCHANGED <<sender, writeTimer, outChain>>
    BY <1>3 DEF Enqueue
  <2>2. RingType'
    BY <1>1, <2>1, RingPositions DEF RingType
  <2>3. WakeOK(s)'
    BY <1>1, <1>2, <1>3, <2>1 DEF WakeOK, Idle, Corked
  <2>4. \A x \in Sessions \ {s} : Same(x)
    BY <1>1, <2>1 DEF Same, RingType
  <2> QED
    BY <2>2, <2>3, <2>4, OneSession DEF Wakes
<1>4. CASE ~(Corked(s, job.prio) \/ writeActive[s] \/ destroyed[s])
  <2>1. StartSend(s)
    BY <1>4 DEF Enqueue
  <2>2. RingType'
    BY <1>1, <2>1, RingPositions DEF RingType, StartSend
  <2>3. WakeOK(s)'
    BY <1>1, <1>2, <2>1, <2>2 DEF WakeOK, StartSend, RingType
  <2>4. \A x \in Sessions \ {s} : Same(x)
    BY <1>1, <2>1, ConstantsAssumption DEF Same, RingType, StartSend
  <2> QED
    BY <2>2, <2>3, <2>4, OneSession DEF Wakes
<1> QED
  BY <1>3, <1>4

LEMMA WriteEventWake == ASSUME WakeInv, NEW s \in Sessions, WriteEvent(s) PROVE Wakes
<1> USE DEF WakeInv, LifeInv, LifeType
<1>1. RingType'
  BY DEF RingType, WriteEvent, StartSend
<1>2. WakeOK(s)'
  BY DEF WakeOK, RingType, WriteEvent, StartSend
<1>3. \A x \in Sessions \ {s} : Same(x)
  BY ConstantsAssumption DEF Same, RingType, WriteEvent, StartSend
<1> QED
  BY <1>1, <1>2, <1>3, OneSession DEF Wakes

LEMMA SendWake == ASSUME WakeInv, NEW s \in Sessions, Send(s) PROVE Wakes
<1> USE DEF WakeInv, LifeInv, LifeType
<1>1. sender = s /\ s # None /\ open[s]
  BY ConstantsAssumption DEF ControlOK, Send, WriteLink, WriteLast, WriteAgain,
                             WriteError, WriteDone
<1>2. ASSUME Finalize(s)
      PROVE  destroyed'[s] /\ \A x \in Sessions : destroyed[x] => destroyed'[x]
  BY <1>2 DEF Finalize
<1>3. CASE WriteLink(s) \/ WriteLast(s)
  <2>1. RingType'
    <3>1. RingType /\ Inc(outPos[s]) \in Slots /\ outChain[s] \in Nat
      BY RingPositions DEF RingType
    <3>2. CASE WriteLink(s)
      BY <3>1, <3>2 DEF RingType, WriteLink
    <3>3. CASE WriteLast(s)
      BY <3>1, <3>3 DEF RingType, WriteLast
    <3> QED
      BY <1>3, <3>2, <3>3
  <2>2. WakeOK(s)'
    BY <1>1, <1>3, <2>1 DEF WakeOK, RingType, WriteLink, WriteLast
  <2>3. \A x \in Sessions \ {s} : Same(x)
    BY <1>3 DEF Same, RingType, WriteLink, WriteLast
  <2> QED
    BY <2>1, <2>2, <2>3, OneSession DEF Wakes
<1>4. CASE WriteAgain(s)
  <2>1. RingType'
    BY <1>4 DEF RingType, WriteAgain
  <2>2. WakeOK(s)'
    BY <1>1, <1>2, <1>4 DEF WakeOK, Idle, RingType, WriteAgain
  <2>3. \A x \in Sessions \ {s} : Same(x)
    BY <1>1, <1>2, <1>4, ConstantsAssumption DEF Same, RingType, WriteAgain
  <2> QED
    BY <2>1, <2>2, <2>3, OneSession DEF Wakes
<1>5. CASE WriteError(s)
  <2>1. RingType'
    BY <1>5 DEF RingType, WriteError
  <2>2. WakeOK(s)'
    BY <1>1, <1>2, <1>5 DEF WakeOK, WriteError
  <2>3. \A x \in Sessions \ {s} : Same(x)
    BY <1>1, <1>2, <1>5, ConstantsAssumption DEF Same, WriteError
  <2> QED
    BY <2>1, <2>2, <2>3, OneSession DEF Wakes
<1>6. CASE WriteDone(s)
  <2>1. RingType'
    BY <1>6 DEF RingType, WriteDone
  <2>2. Used(s)' = 0
    BY <1>1, <1>6, <2>1, RingPositions DEF WakeOK, WriteDone, Used
  <2>3. WakeOK(s)'
    BY <1>1, <1>6, <2>2 DEF WakeOK, Idle, RingType, WriteDone
  <2>4. \A x \in Sessions \ {s} : Same(x)
    BY <1>1, <1>6, ConstantsAssumption DEF Same, RingType, WriteDone
  <2> QED
    BY <2>1, <2>3, <2>4, OneSession DEF Wakes
<1> QED
  BY <1>3, <1>4, <1>5, <1>6 DEF Send

\* Sessions begin and end.
LEMMA OpenCloseWake ==
  ASSUME WakeInv, NEW s \in Sessions,
         Connect(s) \/ FreeQueued(s) \/ EndClose(s) \/ WriteTimeout(s)
  PROVE  Wakes
<1> USE DEF WakeInv, LifeInv, LifeType
<1>1. CASE Connect(s)
  <2>1. RingType'
    BY <1>1, ConstantsAssumption DEF RingType, Connect, Slots
  <2>2. WakeOK(s)'
    BY <1>1, ConstantsAssumption DEF WakeOK, Idle, Used, RingType, Connect
  <2>3. \A x \in Sessions \ {s} : Same(x)
    BY <1>1 DEF Same, RingType, Connect
  <2> QED
    BY <2>1, <2>2, <2>3, OneSession DEF Wakes
<1>2. CASE FreeQueued(s)
  <2>1. s # None /\ sender = None /\ destroyed[s]
    BY <1>2, ConstantsAssumption DEF ControlOK, FreeQueued
  <2>2. RingType'
    BY <1>2, RingPositions DEF RingType, FreeQueued
  <2>3. WakeOK(s)'
    BY <1>2, <2>1 DEF WakeOK, FreeQueued
  <2>4. \A x \in Sessions \ {s} : Same(x)
    BY <1>2 DEF Same, RingType, FreeQueued
  <2> QED
    BY <2>2, <2>3, <2>4, OneSession DEF Wakes
<1>3. CASE EndClose(s)
  <2>1. s # None /\ sender = None
    BY <1>3, ConstantsAssumption DEF ControlOK, EndClose
  <2>2. RingType'
    BY <1>3 DEF RingType, EndClose
  <2>3. WakeOK(s)'
    BY <1>3, <2>1 DEF WakeOK, RingType, EndClose
  <2>4. \A x \in Sessions \ {s} : Same(x)
    BY <1>3 DEF Same, RingType, EndClose
  <2> QED
    BY <2>2, <2>3, <2>4, OneSession DEF Wakes
<1>4. CASE WriteTimeout(s)
  <2>1. destroyed'[s] /\ \A x \in Sessions : destroyed[x] => destroyed'[x]
    BY <1>4 DEF Finalize, WriteTimeout
  <2>2. RingType'
    BY <1>4 DEF RingType, WriteTimeout
  <2>3. WakeOK(s)'
    BY <1>4, <2>1, ConstantsAssumption DEF WakeOK, WriteTimeout
  <2>4. \A x \in Sessions \ {s} : Same(x)
    BY <1>4, <2>1 DEF Same, RingType, WriteTimeout
  <2> QED
    BY <2>2, <2>3, <2>4, OneSession DEF Wakes
<1> QED
  BY <1>1, <1>2, <1>3, <1>4

\* The other steps leave every ring and connection alone.
LEMMA QuietWake ==
  ASSUME WakeInv, UNCHANGED <<outPos, outLast, outChain, events, open, sender>>,
         \A x \in Sessions : destroyed[x] => destroyed'[x]
  PROVE  Wakes
<1>1. RingType'
  BY DEF WakeInv, RingType
<1>2. \A x \in Sessions : Same(x)
  BY DEF Same
<1> QED
  BY <1>1, <1>2, SameWake DEF WakeInv, Wakes

LEMMA StepWake == WakeInv /\ [Next]_vars => WakeInv'
<1> SUFFICES ASSUME WakeInv, [Next]_vars PROVE LifeInv' /\ Wakes
  BY DEF WakeInv, Wakes
<1>1. LifeInv'
  BY StepLife DEF WakeInv
<1> SUFFICES Wakes
  BY <1>1
<1> DEFINE Undisturbed == UNCHANGED <<outPos, outLast, outChain, writeActive, writeTimer,
                                      open, sender, destroyed>>
<1>0. Undisturbed => Wakes
  BY QuietWake
<1>2. CASE UNCHANGED vars
  BY <1>0, <1>2 DEF vars
<1>3. ASSUME NEW s \in Sessions, HangUp(s) \/ DisconnectFinalizes(s) \/ Drop(s)
      PROVE  Wakes
  BY <1>3, QuietWake DEF HangUp, DisconnectFinalizes, Drop, Finalize,
                         WakeInv, LifeInv, LifeType
<1>4. ASSUME NEW kind \in Kinds, NEW prio \in Priorities \cup {0},
             NEW todo \in SUBSET OpenSessions, BeginHandler(kind, prio, todo)
      PROVE  Wakes
  BY <1>4, QuietWake DEF BeginHandler
<1>5. ASSUME NEW b \in Bodies, BuildPacket(b) PROVE Wakes
  BY <1>5, QuietWake DEF BuildPacket
<1>6. ASSUME BuildFails \/ EndHandler \/ BeginClose PROVE Wakes
  <2>1. CASE BuildFails
    BY <1>0, <2>1 DEF BuildFails
  <2>2. CASE EndHandler
    BY <1>0, <2>2 DEF EndHandler
  <2>3. CASE BeginClose
    BY <1>0, <2>3 DEF BeginClose
  <2> QED
    BY <1>6, <2>1, <2>2, <2>3
<1>7. CASE Handle
  BY <1>3, <1>5, <1>6, <1>7, EnqueueWake DEF Handle
<1>8. CASE Close
  BY <1>6, <1>8, OpenCloseWake DEF Close
<1>9. CASE Next
  BY <1>3, <1>4, <1>7, <1>8, <1>9, WriteEventWake, SendWake, OpenCloseWake DEF Next
<1> QED
  BY <1>2, <1>9

\* A message that ngx_rtmp_send_message has accepted is being written, or the
\* connection is watched for it with a timeout, or the cork holds it back, or
\* its session is about to be closed.
THEOREM NoMessageForgotten == Spec => []NoLostWakeup
<1>1. WakeInv => NoLostWakeup
  BY DEF WakeInv, WakeOK, Idle, NoLostWakeup
<1> QED
  BY <1>1, InitWake, StepWake, PTL DEF Spec

=============================================================================
