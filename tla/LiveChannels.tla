---------------------------- MODULE LiveChannels ----------------------------
(***************************************************************************)
(* What the live module promises: a channel per stream name, with at most  *)
(* one publisher and any number of subscribers.  A session takes part in   *)
(* at most one channel.  A channel is on the air only while it has its     *)
(* publisher, and the publisher leaves it before another one comes.        *)
(***************************************************************************)
CONSTANTS
  Sessions,   \* sessions
  Names,      \* stream names
  None        \* no session

VARIABLES
  pub,    \* publisher of each channel
  subs,   \* subscribers of each channel
  onAir   \* the publisher is sending

channels == <<pub, subs, onAir>>

Init ==
  /\ pub = [n \in Names |-> None]
  /\ subs = [n \in Names |-> {}]
  /\ onAir = [n \in Names |-> FALSE]

Free(s) == \A n \in Names : pub[n] # s /\ s \notin subs[n]

Publish(s, n) ==
  /\ Free(s) /\ pub[n] = None
  /\ pub' = [pub EXCEPT ![n] = s]
  /\ UNCHANGED <<subs, onAir>>

Subscribe(s, n) ==
  /\ Free(s)
  /\ subs' = [subs EXCEPT ![n] = @ \cup {s}]
  /\ UNCHANGED <<pub, onAir>>

\* The publisher begins to send, or stops.
Switch(n) ==
  /\ pub[n] # None
  /\ onAir' = [onAir EXCEPT ![n] = ~@]
  /\ UNCHANGED <<pub, subs>>

Unsubscribe(s, n) ==
  /\ s \in subs[n]
  /\ subs' = [subs EXCEPT ![n] = @ \ {s}]
  /\ UNCHANGED <<pub, onAir>>

\* The publisher leaves, and takes some subscribers with it.
Unpublish(n) ==
  /\ pub[n] # None
  /\ pub' = [pub EXCEPT ![n] = None]
  /\ onAir' = [onAir EXCEPT ![n] = FALSE]
  /\ \E rest \in SUBSET subs[n] : subs' = [subs EXCEPT ![n] = rest]

Next == \E n \in Names :
  \/ Switch(n) \/ Unpublish(n)
  \/ \E s \in Sessions : Publish(s, n) \/ Subscribe(s, n) \/ Unsubscribe(s, n)

Spec == Init /\ [][Next]_channels

=============================================================================
