------------------------------ MODULE OutQueue ------------------------------
(***************************************************************************)
(* The output side of the RTMP sessions of one worker: the ring of         *)
(* outgoing messages of every session (ngx_rtmp_handler.c), the reference  *)
(* counted chains of buffers that several rings share (ngx_rtmp_shared.c), *)
(* and the end of a session (ngx_rtmp_init.c).                             *)
(*                                                                         *)
(* A handler builds a message once, offers it to some sessions and drops   *)
(* its own reference.  It runs to its end before the event loop looks at   *)
(* another event, and so do ngx_rtmp_send, which it may enter for every    *)
(* session, and the close handler; the model takes them step by step, one  *)
(* buffer written or one chain freed at a time.                            *)
(*                                                                         *)
(* Chains that the pool has not carved out yet stand at the bottom of the  *)
(* free list: ngx_rtmp_alloc_shared_buf takes them when nothing was freed. *)
(***************************************************************************)
EXTENDS Integers, FiniteSets, Sequences, Functions

CONSTANTS
  Sessions,      \* sessions of the worker
  Chains,        \* chains of buffers of cscf->pool: a bound on its memory
  Values,        \* contents of messages
  OutSize,       \* s->out_queue, slots of a ring
  OutCork,       \* s->out_cork
  OutBuffer,     \* s->out_buffer
  Kinds,         \* kinds of handlers that run
  Priorities,    \* priorities of audio and video messages
  MaxLinks,      \* bound: buffers of a message
  RefLimit,      \* 2^32, the number of values of a reference count
  None           \* no chain, no session

\* "av": an audio or video packet, built for the first receiver;
\* "header": a codec header, whose loss ends the receiver;
\* "status": a control or status message, built before it is offered;
\* "data": an AMF data message of ngx_rtmp_live_data.
AllKinds == {"av", "header", "status", "data"}

ASSUME ConstantsAssumption ==
  /\ None \notin Sessions /\ None \notin Chains
  /\ IsFiniteSet(Sessions) /\ IsFiniteSet(Chains)
  /\ OutSize \in Nat \ {0} /\ OutCork \in Nat /\ OutBuffer \in BOOLEAN
  /\ Kinds \subseteq AllKinds /\ Priorities \subseteq 0 .. 3
  /\ MaxLinks \in Nat \ {0}
  /\ RefLimit \in Nat /\ RefLimit > Cardinality(Sessions) * OutSize + 1

VARIABLES
  out,          \* s->out
  outPos,       \* s->out_pos
  outLast,      \* s->out_last
  outChain,     \* s->out_chain: a link of out[out_pos], 0 for NULL
  writeActive,  \* connection->write->active
  writeTimer,   \* connection->write->timer_set
  open,         \* the session exists
  destroyed,    \* connection->destroyed
  posted,       \* close events in ngx_posted_events, oldest first
  ref,          \* reference count of each chain
  free,         \* cscf->free
  body,         \* contents and number of links of each chain
  job,          \* the handler that runs
  sender,       \* the session inside ngx_rtmp_send
  closer        \* the session inside the close handler

rings == <<out, outPos, outLast, outChain>>
events == <<writeActive, writeTimer>>
life == <<open, destroyed, posted>>
pool == <<ref, free, body>>
control == <<job, sender, closer>>
vars == <<rings, events, life, pool, control>>

Slots == 0 .. OutSize - 1
Bodies == [val : Values, links : 1 .. MaxLinks]

\* A handler offers pkt to the sessions of todo.
NoJob == [kind |-> "none", pkt |-> None, todo |-> {}, prio |-> 0]
Jobs == [kind : AllKinds \cup {"none"}, pkt : Chains \cup {None},
         todo : SUBSET Sessions, prio : 0 .. 3]

Quiet == job = NoJob /\ sender = None /\ closer = None
HandlerRuns == job.kind # "none" /\ sender = None

-----------------------------------------------------------------------------
(* Positions of a ring.                                                    *)

Inc_NoWrap(i) == i + 1
Inc(i) == IF i = OutSize - 1 THEN 0 ELSE i + 1

\* Messages in the ring of s.
Used(s) == IF outLast[s] >= outPos[s] THEN outLast[s] - outPos[s]
                                      ELSE outLast[s] + OutSize - outPos[s]

\* Is slot i of the ring of s between out_pos and out_last?
InRing(s, i) == IF outPos[s] <= outLast[s]
                THEN outPos[s] <= i /\ i < outLast[s]
                ELSE outPos[s] <= i \/ i < outLast[s]

\* The drop condition of ngx_rtmp_send_message, with nmsg = Used(s) + 1.
\* One slot always stays free.
Full_SlotLost(s, prio) == Used(s) + 1 + (prio * OutSize) \div 4 > OutSize
Full(s, prio) == Used(s) + 1 + (prio * OutSize) \div 4 >= OutSize

\* A message that may wait for company instead of being written at once.
Corked(s, prio) == prio > 0 /\ OutBuffer /\ Used(s) + 1 < OutCork

-----------------------------------------------------------------------------
(* Reference counts and the free list, as a record so that steps can drop  *)
(* several references.                                                     *)

Pool == [ref |-> ref, free |-> free]

Dec(n) == IF n = 0 THEN RefLimit - 1 ELSE n - 1

\* ngx_rtmp_free_shared_chain.
DropRef(p, c) ==
  [ref |-> [p.ref EXCEPT ![c] = Dec(@)],
   free |-> IF Dec(p.ref[c]) = 0 THEN <<c>> \o p.free ELSE p.free]

SetPool(p) == ref' = p.ref /\ free' = p.free /\ UNCHANGED body

-----------------------------------------------------------------------------
Init ==
  /\ out = [s \in Sessions |-> [i \in Slots |-> None]]
  /\ outPos = [s \in Sessions |-> 0]
  /\ outLast = [s \in Sessions |-> 0]
  /\ outChain = [s \in Sessions |-> 0]
  /\ writeActive = [s \in Sessions |-> FALSE]
  /\ writeTimer = [s \in Sessions |-> FALSE]
  /\ open = [s \in Sessions |-> FALSE]
  /\ destroyed = [s \in Sessions |-> FALSE]
  /\ posted = <<>>
  /\ ref = [c \in Chains |-> 0]
  /\ \E q \in [1 .. Cardinality(Chains) -> Chains] : IsInjective(q) /\ free = q
  /\ \E v \in Values : body = [c \in Chains |-> [val |-> v, links |-> 1]]
  /\ job = NoJob
  /\ sender = None
  /\ closer = None

\* ngx_rtmp_init_session of a new connection.
Connect(s) ==
  /\ Quiet /\ ~open[s]
  /\ open' = [open EXCEPT ![s] = TRUE]
  /\ out' = [out EXCEPT ![s] = [i \in Slots |-> None]]
  /\ outPos' = [outPos EXCEPT ![s] = 0]
  /\ outLast' = [outLast EXCEPT ![s] = 0]
  /\ outChain' = [outChain EXCEPT ![s] = 0]
  /\ UNCHANGED <<events, destroyed, posted, pool, control>>

-----------------------------------------------------------------------------
(* Finalising a session posts its close event, once.                       *)

\* ngx_post_event leaves an event alone that is posted already.
Post(s) == posted' = IF s \in Range(posted) THEN posted ELSE Append(posted, s)

Finalize_Twice(s) ==
  destroyed' = [destroyed EXCEPT ![s] = TRUE] /\ Post(s)
Finalize(s) ==
  IF destroyed[s] THEN UNCHANGED <<destroyed, posted>>
  ELSE destroyed' = [destroyed EXCEPT ![s] = TRUE] /\ Post(s)

\* The peer hangs up, an input handler fails or the ping is not answered.
HangUp(s) ==
  /\ Quiet /\ open[s] /\ ~destroyed[s]
  /\ Finalize(s)
  /\ UNCHANGED <<rings, events, open, pool, control>>

-----------------------------------------------------------------------------
(* A handler that sends one message to some sessions.                      *)

BeginHandler(kind, prio, todo) ==
  /\ Quiet
  /\ kind = "av" \/ prio = 0
  /\ job' = [kind |-> kind, pkt |-> None, todo |-> todo, prio |-> prio]
  /\ UNCHANGED <<rings, events, life, pool, sender, closer>>

BuiltFirst == job.kind \in {"status", "data"}
NeedsPacket == job.pkt = None /\ (BuiltFirst \/ job.todo # {})

\* ngx_rtmp_alloc_shared_buf: "buffer has refcount =1 when created!"
AllocShared(c) ==
  /\ c = Head(free)
  /\ ref' = [ref EXCEPT ![c] = 1]
  /\ free' = Tail(free)

\* ngx_rtmp_append_shared_bufs.  The header that ngx_rtmp_prepare_message puts
\* in front belongs to the contents of the message.
BuildPacket(b) ==
  /\ HandlerRuns /\ NeedsPacket /\ free # <<>>
  /\ \E c \in Chains :
     /\ AllocShared(c)
     /\ job' = [job EXCEPT !.pkt = c]
     /\ body' = [body EXCEPT ![c] = b]
  /\ UNCHANGED <<rings, events, life, sender, closer>>

\* Out of memory: nothing is sent, or this receiver is passed over.
BuildFails ==
  /\ HandlerRuns /\ NeedsPacket /\ free = <<>>
  /\ \/ BuiltFirst /\ job' = NoJob
     \/ ~BuiltFirst /\ \E s \in job.todo : job' = [job EXCEPT !.todo = @ \ {s}]
  /\ UNCHANGED <<rings, events, life, pool, sender, closer>>

\* The message is dropped; some senders give the session up then.
Drop(s) ==
  /\ HandlerRuns /\ s \in job.todo /\ job.pkt # None
  /\ Full(s, job.prio)
  /\ job' = [job EXCEPT !.todo = @ \ {s}]
  /\ IF job.kind \in {"header", "status"} THEN Finalize(s)
                                          ELSE UNCHANGED <<destroyed, posted>>
  /\ UNCHANGED <<rings, events, open, pool, sender, closer>>

\* The entry of ngx_rtmp_send: stop the timer, take the first message.
StartSend(s) ==
  /\ sender' = s
  /\ writeTimer' = [writeTimer EXCEPT ![s] = FALSE]
  /\ outChain' = [outChain EXCEPT
       ![s] = IF @ = 0 /\ outPos[s] # outLast'[s] THEN 1 ELSE @]

Acquire(c) == ref' = [ref EXCEPT ![c] = @ + 1]

\* ngx_rtmp_send_message puts the message into the ring, takes a reference,
\* and writes at once unless the connection waits to become writable.
Enqueue(s) ==
  /\ HandlerRuns /\ s \in job.todo /\ job.pkt # None
  /\ ~Full(s, job.prio)
  /\ job' = [job EXCEPT !.todo = @ \ {s}]
  /\ out' = [out EXCEPT ![s][outLast[s]] = job.pkt]
  /\ outLast' = [outLast EXCEPT ![s] = Inc(@)]
  /\ Acquire(job.pkt)
  /\ IF Corked(s, job.prio) \/ writeActive[s] \/ destroyed[s]
     THEN UNCHANGED <<sender, writeTimer, outChain>>
     ELSE StartSend(s)
  /\ UNCHANGED <<outPos, writeActive, life, free, body, closer>>

\* The handler drops its own reference.  In ngx_rtmp_live_data the variables
\* data and rpkt hold the same chain, and both are freed.
EndHandler ==
  /\ HandlerRuns /\ job.todo = {} /\ ~NeedsPacket
  /\ job' = NoJob
  /\ CASE job.pkt = None -> UNCHANGED pool
       [] job.pkt # None /\ job.kind = "data" ->
            SetPool(DropRef(DropRef(Pool, job.pkt), job.pkt))
       [] OTHER -> SetPool(DropRef(Pool, job.pkt))
  /\ UNCHANGED <<rings, events, life, sender, closer>>

-----------------------------------------------------------------------------
(* ngx_rtmp_send, one call of c->send per step.                            *)

\* The connection is writable.
WriteEvent(s) ==
  /\ Quiet /\ open[s] /\ ~destroyed[s] /\ writeActive[s]
  /\ UNCHANGED outLast
  /\ StartSend(s)
  /\ UNCHANGED <<out, outPos, writeActive, life, pool, job, closer>>

WriteTimeout(s) ==
  /\ Quiet /\ open[s] /\ ~destroyed[s] /\ writeTimer[s]
  /\ writeTimer' = [writeTimer EXCEPT ![s] = FALSE]
  /\ Finalize(s)
  /\ UNCHANGED <<rings, writeActive, open, pool, control>>

\* A buffer is written to its end and others of the message follow.
WriteLink(s) ==
  /\ sender = s /\ outChain[s] # 0
  /\ outChain[s] < body[out[s][outPos[s]]].links
  /\ outChain' = [outChain EXCEPT ![s] = @ + 1]
  /\ UNCHANGED <<out, outPos, outLast, events, life, pool, control>>

\* The last buffer of a message is written: free it, go on with the next.
WriteLast(s) ==
  /\ sender = s /\ outChain[s] # 0
  /\ outChain[s] >= body[out[s][outPos[s]]].links
  /\ SetPool(DropRef(Pool, out[s][outPos[s]]))
  /\ outPos' = [outPos EXCEPT ![s] = Inc(@)]
  /\ outChain' = [outChain EXCEPT
       ![s] = IF Inc(outPos[s]) = outLast[s] THEN 0 ELSE 1]
  /\ UNCHANGED <<out, outLast, events, life, control>>

\* NGX_AGAIN: wait until the connection is writable, but not for ever.  The
\* event may fail to be added.
WriteAgain(s) ==
  /\ sender = s /\ outChain[s] # 0
  /\ sender' = None
  /\ writeTimer' = [writeTimer EXCEPT ![s] = TRUE]
  /\ \/ /\ writeActive' = [writeActive EXCEPT ![s] = TRUE]
        /\ UNCHANGED <<destroyed, posted>>
     \/ UNCHANGED writeActive /\ Finalize(s)
  /\ UNCHANGED <<rings, open, pool, job, closer>>

WriteError(s) ==
  /\ sender = s /\ outChain[s] # 0
  /\ sender' = None
  /\ Finalize(s)
  /\ UNCHANGED <<rings, events, open, pool, job, closer>>

\* The ring is empty: stop watching the connection.
WriteDone_StillActive(s) ==
  /\ sender = s /\ outChain[s] = 0
  /\ sender' = None
  /\ UNCHANGED <<rings, events, life, pool, job, closer>>
WriteDone(s) ==
  /\ sender = s /\ outChain[s] = 0
  /\ sender' = None
  /\ writeActive' = [writeActive EXCEPT ![s] = FALSE]
  /\ UNCHANGED <<rings, writeTimer, life, pool, job, closer>>

-----------------------------------------------------------------------------
(* ngx_rtmp_close_session_handler, run from the queue of posted events.    *)

BeginClose ==
  /\ Quiet /\ posted # <<>>
  /\ closer' = Head(posted)
  /\ posted' = Tail(posted)
  /\ UNCHANGED <<rings, events, open, destroyed, pool, job, sender>>

\* The NGX_RTMP_DISCONNECT handlers finalise sessions: when a publisher closes
\* its stream, ngx_http_flv_live_close_stream finalises every RTMP session in
\* it, the publisher that is being closed included.
DisconnectFinalizes(s) ==
  /\ closer # None /\ open[s]
  /\ Finalize(s)
  /\ UNCHANGED <<rings, events, open, pool, control>>

FreeQueued_KeepRef(s) ==
  /\ closer = s /\ outPos[s] # outLast[s]
  /\ outPos' = [outPos EXCEPT ![s] = Inc(@)]
  /\ UNCHANGED <<out, outLast, outChain, events, life, pool, control>>
FreeQueued(s) ==
  /\ closer = s /\ outPos[s] # outLast[s]
  /\ SetPool(DropRef(Pool, out[s][outPos[s]]))
  /\ outPos' = [outPos EXCEPT ![s] = Inc(@)]
  /\ UNCHANGED <<out, outLast, outChain, events, life, control>>

\* ngx_close_connection stops the timers and the events of the connection.
EndClose(s) ==
  /\ closer = s /\ outPos[s] = outLast[s]
  /\ closer' = None
  /\ open' = [open EXCEPT ![s] = FALSE]
  /\ destroyed' = [destroyed EXCEPT ![s] = FALSE]
  /\ writeActive' = [writeActive EXCEPT ![s] = FALSE]
  /\ writeTimer' = [writeTimer EXCEPT ![s] = FALSE]
  /\ UNCHANGED <<rings, posted, pool, job, sender>>

-----------------------------------------------------------------------------
OpenSessions == {s \in Sessions : open[s]}

Send(s) == \/ WriteLink(s) \/ WriteLast(s) \/ WriteAgain(s)
           \/ WriteError(s) \/ WriteDone(s)

Handle == \/ \E b \in Bodies : BuildPacket(b)
          \/ BuildFails
          \/ \E s \in Sessions : Drop(s) \/ Enqueue(s)
          \/ EndHandler

Close ==
  \/ BeginClose
  \/ \E s \in Sessions : FreeQueued(s) \/ EndClose(s)

Next ==
  \/ \E s \in Sessions :
       \/ Connect(s) \/ HangUp(s) \/ DisconnectFinalizes(s)
       \/ WriteEvent(s) \/ WriteTimeout(s) \/ Send(s)
  \/ \E kind \in Kinds, prio \in Priorities \cup {0},
        todo \in SUBSET OpenSessions : BeginHandler(kind, prio, todo)
  \/ Handle
  \/ Close

Spec == Init /\ [][Next]_vars

-----------------------------------------------------------------------------
(* Properties.                                                             *)

\* Every variable keeps its type: the C declarations.
TypeOK ==
  /\ out \in [Sessions -> [Slots -> Chains \cup {None}]]
  /\ outPos \in [Sessions -> Slots] /\ outLast \in [Sessions -> Slots]
  /\ outChain \in [Sessions -> 0 .. MaxLinks]
  /\ writeActive \in [Sessions -> BOOLEAN]
  /\ writeTimer \in [Sessions -> BOOLEAN]
  /\ open \in [Sessions -> BOOLEAN] /\ destroyed \in [Sessions -> BOOLEAN]
  /\ posted \in Seq(Sessions)
  /\ ref \in [Chains -> 0 .. RefLimit - 1]
  /\ free \in Seq(Chains)
  /\ body \in [Chains -> Bodies]
  /\ job \in Jobs
  /\ sender \in Sessions \cup {None} /\ closer \in Sessions \cup {None}

\* The places that hold a reference to chain c: ring slots and the handler.
Owners(c) == Cardinality({p \in Sessions \X Slots :
                             InRing(p[1], p[2]) /\ out[p[1]][p[2]] = c})
             + (IF job.pkt = c THEN 1 ELSE 0)

\* A chain's count is the number of its owners whatever the rings and the
\* handlers did with it, and exactly the chains without an owner are on the
\* free list, once each: no message in a ring is overwritten by a later one,
\* and none is leaked when a send fails or a session ends
\* (ngx_rtmp_free_shared_chain, ngx_rtmp_acquire_shared_chain).
ChainsAccounted ==
  /\ IsInjective(free)
  /\ \A c \in Chains : /\ ref[c] = Owners(c)
                        /\ c \in Range(free) <=> Owners(c) = 0

\* A session with messages in its ring is being written, or waits for its
\* connection to become writable with a timeout set, or has too few messages
\* for the cork, or is about to be closed: no message is forgotten because
\* ngx_rtmp_send_message relied on an event that nobody waits for.
NoLostWakeup == \A s \in Sessions :
  open[s] /\ ~destroyed[s] /\ Used(s) > 0 =>
    \/ sender = s
    \/ writeActive[s] /\ writeTimer[s]
    \/ OutBuffer /\ Used(s) < OutCork /\ outChain[s] = 0

\* A finalised session has its close event posted exactly once until the
\* close handler runs for it, whoever finalises it and however often
\* (ngx_rtmp_finalize_session): the handler frees the session.
ClosePostedOnce ==
  /\ IsInjective(posted)
  /\ \A s \in Sessions :
       s \in Range(posted) <=> open[s] /\ destroyed[s] /\ closer # s

\* The messages in the ring of s, as the peer will get them.
RingContents(s) == [k \in 1 .. Used(s) |->
  body[out[s][IF outPos[s] + k - 1 < OutSize THEN outPos[s] + k - 1
                                           ELSE outPos[s] + k - 1 - OutSize]]]

Fifo == INSTANCE MessageFifo WITH
  Messages <- Bodies, Capacity <- OutSize - 1,
  queue <- [s \in Sessions |-> RingContents(s)]

\* The ring and the shared chains implement one bounded first-in first-out
\* queue per session: what ngx_rtmp_send_message accepted is written whole,
\* in order and unchanged.
RingIsFifo == Fifo!Spec

\* A chain in a ring is not on the free list, where the next message would take
\* its buffers: ngx_rtmp_free_shared_chain drops a reference nobody else drops.
QueuedNotFree == \A s \in Sessions, i \in Slots :
  InRing(s, i) => out[s][i] \notin Range(free)

=============================================================================
