---------------------------- MODULE MessageFifo ----------------------------
(***************************************************************************)
(* What the RTMP output queues promise to the modules that send: each      *)
(* session has a bounded first-in first-out queue of messages.  A message  *)
(* is accepted whole or dropped at the door; once accepted it keeps its    *)
(* contents and its place until it has been written whole, unless the      *)
(* session is closed.                                                      *)
(***************************************************************************)
EXTENDS Naturals, Sequences

CONSTANTS
  Sessions,   \* sessions
  Messages,   \* contents of a message
  Capacity    \* messages a queue can hold

VARIABLE queue   \* the accepted messages of each session, oldest first

Init == queue = [s \in Sessions |-> <<>>]

Accept(s, m) ==
  /\ Len(queue[s]) < Capacity
  /\ queue' = [queue EXCEPT ![s] = Append(@, m)]

\* The oldest message has been written to the end.
Deliver(s) ==
  /\ queue[s] # <<>>
  /\ queue' = [queue EXCEPT ![s] = Tail(@)]

\* The session ends.  Its queue is freed message by message, as Deliver
\* takes them, or at once.
Discard(s) == queue' = [queue EXCEPT ![s] = <<>>]

Next == \E s \in Sessions :
  \/ \E m \in Messages : Accept(s, m)
  \/ Deliver(s)
  \/ Discard(s)

Spec == Init /\ [][Next]_queue

=============================================================================
