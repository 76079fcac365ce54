------------------------------- MODULE Relay -------------------------------
(***************************************************************************)
(* Push, pull and static pull relays of one application in one worker      *)
(* process (ngx_rtmp_relay_module.c), and the pushes to the other worker   *)
(* processes (ngx_rtmp_auto_push_module.c).                                *)
(*                                                                         *)
(* A context is named by its session.  A publisher's context lies in the   *)
(* hash table and lists those that play from it: the sessions that push    *)
(* its stream elsewhere and the clients whose play made the server pull    *)
(* it.  Of a list of players only the members count.  A bucket of the      *)
(* table is a chain through ctx->next: of each context those behind it.    *)
(*                                                                         *)
(* Handlers run one at a time.  A session that is finalised is closed      *)
(* later, and timers may fire in between.  A worker that dies is started   *)
(* again by the master process with nothing but its configuration.         *)
(***************************************************************************)
EXTENDS Naturals, FiniteSets, Functions

CONSTANTS
  Sessions,   \* what the worker's connections can hold
  Names,      \* of streams
  Targets,    \* of relays: servers, and the other worker processes
  Client,     \* stands for no target: the peer of a client's session
  None,       \* NULL
  Configs     \* configurations of the application

\* Directives push, pull, pull static, the other workers under rtmp_auto_push,
\* the names each target is for (the only one, if the pull is static), and
\* session_relay.  And the names that clients use, how many clients there are at a
\* time, and the bucket of each name, which is called by one of its names.
ConfigType == [pushes : SUBSET Targets, pulls : SUBSET Targets,
               statics : SUBSET Targets, slots : SUBSET Targets,
               for : [Targets -> SUBSET Names], sessionRelay : BOOLEAN,
               names : SUBSET Names, clients : Nat, bucket : [Names -> Names]]

Apart(c) ==
  /\ c.pushes \cap (c.pulls \cup c.statics \cup c.slots) = {}
  /\ c.pulls \cap (c.statics \cup c.slots) = {}
  /\ c.statics \cap c.slots = {}

ASSUME MarksAssumption == Client \notin Targets /\ None \notin Sessions
ASSUME ConfigsAssumption == \A c \in Configs : c \in ConfigType /\ Apart(c)
ASSUME StaticsAssumption ==
  \A c \in Configs : \A t \in c.statics : \E n \in Names : c.for[t] = {n}

VARIABLES
  conf,         \* the configuration
  state,        \* of a session: "free", "open", or "closing" once finalised
  peer,         \* whom the session relays to or from: ctx->tag and ctx->data
  role,         \* "new", "publish", "play", or "ended"
  name,         \* ctx->name
  publish,      \* ctx->publish
  plays,        \* the list ctx->play
  table,        \* the contexts in racf->ctx
  behind,       \* contexts behind one in its bucket: ctx->next is the first
  tangled,      \* was a context inserted that leads on to others?
  pushTimer,    \* sessions whose ctx->push_evt is armed
  auto,         \* sessions with a context of auto_push
  slots,        \* workers that such a session is pushed to
  autoTimer,    \* sessions whose push_evt of auto_push is armed
  staticTimer,  \* static pulls that are posted or armed
  crowded       \* history: names with two sources, until all leave

lists == <<publish, plays, table, behind, tangled>>
session == <<state, peer, role, name>>
timers == <<pushTimer, autoTimer, staticTimer>>
vars == <<conf, session, lists, timers, auto, slots, crowded>>

Free == {s \in Sessions : state[s] = "free"}
Open(s) == state[s] = "open"
IsClient(s) == peer[s] = Client
Static(s) == peer[s] \in conf.statics
Known(n) == {o \in table : name[o] = n}
Bucket(n) == {o \in table : conf.bucket[name[o]] = conf.bucket[n]}
PushesOf(n) == {t \in conf.pushes : n \in conf.for[t]}
PullsOf(n) == {t \in conf.pulls : n \in conf.for[t]}

\* A worker process that has just been started.
Started ==
  [state |-> [s \in Sessions |-> "free"], peer |-> [s \in Sessions |-> Client],
   role |-> [s \in Sessions |-> "new"], name |-> [s \in Sessions |-> None],
   publish |-> [s \in Sessions |-> None], plays |-> [s \in Sessions |-> {}]]

Init ==
  /\ conf \in Configs
  /\ state = Started.state /\ peer = Started.peer /\ role = Started.role
  /\ name = Started.name /\ publish = Started.publish /\ plays = Started.plays
  /\ table = {} /\ behind = Started.plays /\ tangled = FALSE
  /\ pushTimer = {} /\ autoTimer = {}
  /\ auto = {} /\ slots = Started.plays
  /\ staticTimer = conf.statics
  /\ crowded = {}

\* A signal kills the worker and the master starts another in its place.
Respawn ==
  /\ state' = Started.state /\ peer' = Started.peer /\ role' = Started.role
  /\ name' = Started.name /\ publish' = Started.publish /\ plays' = Started.plays
  /\ table' = {} /\ behind' = Started.plays /\ tangled' = FALSE
  /\ pushTimer' = {} /\ autoTimer' = {}
  /\ auto' = {} /\ slots' = Started.plays
  /\ staticTimer' = conf.statics
  /\ crowded' = {}
  /\ UNCHANGED conf

-----------------------------------------------------------------------------
(* Contexts.                                                               *)

\* Connections to some targets, each with a session of its own.  A target that
\* is left out refused, or there was no memory or connection for it.
Connections(targets) ==
  UNION {{f \in [made -> Free] : IsInjective(f)} : made \in SUBSET targets}

\* ngx_rtmp_relay_create_connection for each target of f.
Opened(f) == [s \in Sessions |-> IF s \in Range(f) THEN "open" ELSE state[s]]
Peers(f) == [s \in Sessions |-> IF s \in Range(f)
                                THEN CHOOSE t \in DOMAIN f : f[t] = s ELSE peer[s]]
Named(f, n) == [s \in Sessions |-> IF s \in Range(f) THEN n ELSE name[s]]

\* Mutant: no look at the table.
Owner_NoLookup(s, n) == s

\* Whose list the pushes of s join: who is found under the name, or s itself.
Owner(s, n) == IF Known(n) # {} THEN CHOOSE o \in Known(n) : TRUE ELSE s

\* The end of the bucket of name n is made to lead to context o.
Appended(o, n) ==
  [x \in Sessions |-> IF x \in Bucket(n) THEN behind[x] \cup {o} ELSE behind[x]]

\* ngx_rtmp_relay_push by session s for each target of f, in any order.  If s was
\* in the table before, its ctx->next is what it was then: NULL, or a context that
\* is now before it in its bucket or no longer there.
Push(s, n, f) ==
  LET o == Owner(s, n)
      listed == IF o \in table THEN plays[o] ELSE {}
  IN IF f = <<>>
     THEN UNCHANGED <<state, peer, lists>>
     ELSE /\ state' = Opened(f) /\ peer' = Peers(f)
          /\ publish' = [x \in Sessions |->
                           IF x \in Range(f) \cup {o} THEN o ELSE publish[x]]
          /\ plays' = [plays EXCEPT ![o] = listed \cup Range(f)]
          /\ table' = table \cup {o}
          /\ IF o \in table THEN UNCHANGED <<behind, tangled>>
             ELSE behind' = Appended(o, n) /\ tangled' = (behind[o] # {})

-----------------------------------------------------------------------------
(* Commands of clients.                                                    *)

Connect(s) ==
  /\ s \in Free
  /\ Cardinality({x \in Sessions \ Free : IsClient(x)}) < conf.clients
  /\ state' = [state EXCEPT ![s] = "open"]
  /\ UNCHANGED <<conf, peer, role, name, lists, timers, auto, slots, crowded>>

\* A client relays one stream per connection.
Fresh(s) == Open(s) /\ IsClient(s) /\ role[s] = "new"

\* The targets of a publish: those of auto_push, then those of push.
PublishTargets(n) == conf.slots \cup PushesOf(n)

\* Has s a context when ngx_rtmp_relay_publish starts?  Only auto_push, which
\* runs first, may have made one.
HadCtx(n, f) == Known(n) = {} /\ DOMAIN f \cap conf.slots # {}

\* Another session publishes the name, is its publisher here, or may become it.
Taken(n) == \E x \in Sessions : /\ name[x] = n
                              /\ \/ x \in table \cup autoTimer
                                 \/ role[x] = "publish"
Crowd(n) == crowded' = IF Taken(n) THEN crowded \cup {n} ELSE crowded

\* The context of auto_push, and its first round of pushes f.
AutoStarts(s, f) ==
  LET done == DOMAIN f \cap conf.slots IN
  IF conf.slots = {}
  THEN UNCHANGED <<auto, slots, autoTimer>>
  ELSE /\ auto' = auto \cup {s}
       /\ slots' = [slots EXCEPT ![s] = done]
       /\ autoTimer' = IF done = conf.slots THEN autoTimer ELSE autoTimer \cup {s}

Publish(s, n) ==
  /\ Fresh(s)
  /\ \E f \in Connections(PublishTargets(n)) :
       /\ PushesOf(n) \subseteq DOMAIN f \/ HadCtx(n, f)
       /\ Push(s, n, f)
       /\ name' = [Named(f, n) EXCEPT ![s] = n]
       /\ AutoStarts(s, f)
       /\ pushTimer' = IF PushesOf(n) \subseteq DOMAIN f
                       THEN pushTimer ELSE pushTimer \cup {s}
  /\ role' = [role EXCEPT ![s] = "publish"]
  /\ Crowd(n)
  /\ UNCHANGED <<conf, staticTimer>>

\* A push failed, and the context to be tried again is read as it was before
\* the pushes: NULL.
PublishCrashes(s, n) ==
  /\ Fresh(s)
  /\ PushesOf(n) # {}
  /\ Respawn

\* ngx_rtmp_relay_play finds a publisher of the name.
PlayFound(s, n) ==
  /\ Fresh(s) /\ PullsOf(n) # {} /\ Known(n) # {}
  /\ publish' = [publish EXCEPT ![s] = Owner(s, n)]
  /\ plays' = [plays EXCEPT ![Owner(s, n)] = @ \cup {s}]
  /\ name' = [name EXCEPT ![s] = n]
  /\ role' = [role EXCEPT ![s] = "play"]
  /\ UNCHANGED <<conf, state, peer, table, behind, tangled, timers, auto, slots,
                 crowded>>

\* It connects to the first target of the name that answers.  When one fails,
\* the player is finalised, and the next target is tried all the same.
PlayPulls(s, n) ==
  /\ Fresh(s) /\ Known(n) = {}
  /\ \E t \in PullsOf(n), r \in Free :
       /\ \/ state' = [state EXCEPT ![r] = "open"]
          \/ /\ PullsOf(n) # {t}
             /\ state' = [state EXCEPT ![r] = "open", ![s] = "closing"]
       /\ peer' = [peer EXCEPT ![r] = t]
       /\ name' = [name EXCEPT ![r] = n, ![s] = n]
       /\ publish' = [publish EXCEPT ![r] = r, ![s] = r]
       /\ plays' = [plays EXCEPT ![r] = {s}]
       /\ table' = table \cup {r} /\ behind' = Appended(r, n)
  /\ role' = [role EXCEPT ![s] = "play"]
  /\ Crowd(n)
  /\ UNCHANGED <<conf, tangled, timers, auto, slots>>

PlayFails(s, n) ==
  /\ Fresh(s) /\ PullsOf(n) # {} /\ Known(n) = {}
  /\ state' = [state EXCEPT ![s] = "closing"]
  /\ name' = [name EXCEPT ![s] = n]
  /\ role' = [role EXCEPT ![s] = "play"]
  /\ UNCHANGED <<conf, peer, lists, timers, auto, slots, crowded>>

-----------------------------------------------------------------------------
(* ngx_rtmp_relay_close: what it makes of each variable.                   *)

IsOwner(s) == publish[s] = s
IsPlay(s) == publish[s] \notin {None, s}

\* Mutants: an empty list has no effect, and it ends a client's publication too.
Finalized_OnlyPlays(s) == IF IsOwner(s) THEN plays[s] ELSE {}

Finalized_ClientToo(s) ==
  IF IsOwner(s) THEN plays[s]
  ELSE {p \in Sessions : IsPlay(s) /\ p = publish[s] /\ plays[p] \subseteq {s}}

\* Sessions it finalises: who played from s, or a relay nobody plays from now.
Finalized(s) ==
  IF IsOwner(s) THEN plays[s]
  ELSE {p \in Sessions : /\ IsPlay(s) /\ p = publish[s]
                         /\ plays[p] \subseteq {s} /\ ~IsClient(p)}

StateAfter(s) == [x \in Sessions |-> IF x \in Finalized(s) /\ Open(x)
                                     THEN "closing" ELSE state[x]]

\* Mutant: who played still points to the publisher.
PublishAfter_KeepsPlays(s) == [publish EXCEPT ![s] = None]

PublishAfter(s) == [x \in Sessions |-> IF x = s \/ (IsOwner(s) /\ x \in plays[s])
                                       THEN None ELSE publish[x]]

PlaysAfter(s) == IF IsPlay(s) THEN [plays EXCEPT ![publish[s]] = @ \ {s}] ELSE plays

TableAfter(s) == IF IsOwner(s) THEN table \ {s} ELSE table

\* Mutant: the context before it leads to it still.
BehindAfter_Linked(s) == behind

\* The context before it in its bucket leads to its ctx->next, which is kept.
BehindAfter(s) ==
  IF IsOwner(s)
  THEN [x \in Sessions |-> IF x \in table THEN behind[x] \ {s} ELSE behind[x]]
  ELSE behind

\* Mutants: the timer is not deleted, and not armed.
PushTimerAfter_NotDeleted(s) ==
  IF IsPlay(s) /\ peer[s] \in conf.pushes THEN pushTimer \cup {publish[s]}
                                         ELSE pushTimer

PushTimerAfter_NotArmed(s) == IF IsOwner(s) THEN pushTimer \ {s} ELSE pushTimer

\* A push that ended is tried again by its publisher.
PushTimerAfter(s) ==
  IF IsOwner(s) THEN pushTimer \ {s}
  ELSE IF IsPlay(s) /\ peer[s] \in conf.pushes THEN pushTimer \cup {publish[s]}
  ELSE pushTimer

\* Mutants: every relay is taken for a static one, and a static one that was not
\* published yet is not.
StaticTimerAfter_Any(s) ==
  IF IsClient(s) THEN staticTimer ELSE staticTimer \cup {peer[s]}

StaticTimerAfter_Published(s) ==
  IF Static(s) /\ role[s] = "publish" THEN staticTimer \cup {peer[s]} ELSE staticTimer

StaticTimerAfter(s) == IF Static(s) THEN staticTimer \cup {peer[s]} ELSE staticTimer

\* ngx_rtmp_auto_push_delete_stream: s is pushed, or it pushed its publisher's
\* stream to a worker that is now free.
AutoPushed(s) == IsPlay(s) /\ peer[s] \in conf.slots /\ publish[s] \in auto

\* Mutant: the slot stays taken.
SlotsAfter_Kept(s) == slots

SlotsAfter(s) ==
  IF s \notin auto /\ AutoPushed(s)
  THEN [slots EXCEPT ![publish[s]] = @ \ {peer[s]}] ELSE slots

AutoTimerAfter(s) ==
  IF s \in auto THEN autoTimer \ {s}
  ELSE IF AutoPushed(s) THEN autoTimer \cup {publish[s]} ELSE autoTimer

\* closeStream: auto_push has no handler for it.
CloseStream(s) ==
  /\ Open(s) /\ IsClient(s) /\ role[s] \in {"publish", "play"}
  /\ IF conf.sessionRelay
     THEN UNCHANGED <<state, lists, pushTimer>>
     ELSE /\ state' = StateAfter(s)
          /\ publish' = PublishAfter(s) /\ plays' = PlaysAfter(s)
          /\ table' = TableAfter(s) /\ behind' = BehindAfter(s)
          /\ pushTimer' = PushTimerAfter(s)
          /\ UNCHANGED tangled
  /\ role' = [role EXCEPT ![s] = "ended"]
  /\ UNCHANGED <<conf, peer, name, auto, slots, autoTimer, staticTimer, crowded>>

\* deleteStream.
DeleteStream(s) ==
  /\ Open(s) /\ IsClient(s) /\ role[s] # "new"
  /\ state' = StateAfter(s)
  /\ publish' = PublishAfter(s) /\ plays' = PlaysAfter(s)
  /\ table' = TableAfter(s) /\ behind' = BehindAfter(s)
  /\ pushTimer' = PushTimerAfter(s)
  /\ slots' = SlotsAfter(s) /\ autoTimer' = AutoTimerAfter(s)
  /\ role' = [role EXCEPT ![s] = "ended"]
  /\ UNCHANGED <<conf, peer, name, tangled, auto, staticTimer, crowded>>

\* A connection ends, or a handler of any module fails.
Finalize(s) ==
  /\ Open(s)
  /\ state' = [state EXCEPT ![s] = "closing"]
  /\ UNCHANGED <<conf, peer, role, name, lists, timers, auto, slots, crowded>>

\* The close handler: deleteStream, then the session's memory is gone.
Close(s) ==
  /\ state[s] = "closing"
  /\ state' = [StateAfter(s) EXCEPT ![s] = "free"]
  /\ publish' = PublishAfter(s)
  /\ plays' = [PlaysAfter(s) EXCEPT ![s] = {}]
  /\ table' = TableAfter(s)
  /\ behind' = [BehindAfter(s) EXCEPT ![s] = {}]
  /\ pushTimer' = PushTimerAfter(s)
  /\ slots' = [SlotsAfter(s) EXCEPT ![s] = {}] /\ auto' = auto \ {s}
  /\ autoTimer' = AutoTimerAfter(s)
  /\ staticTimer' = StaticTimerAfter(s)
  /\ peer' = [peer EXCEPT ![s] = Client]
  /\ role' = [role EXCEPT ![s] = "new"]
  /\ name' = [name EXCEPT ![s] = None]
  /\ crowded' = crowded \cap Range(name')
  /\ UNCHANGED <<conf, tangled>>

-----------------------------------------------------------------------------
(* Timers.                                                                 *)

\* ngx_rtmp_relay_push_reconnect: pushes that are not in the list.
Missing(s) == PushesOf(name[s]) \ {peer[r] : r \in plays[s]}

PushReconnect(s) ==
  /\ s \in pushTimer /\ peer[s] \notin conf.pulls
  /\ \E f \in Connections(Missing(s)) :
       /\ Push(s, name[s], f)
       /\ name' = Named(f, name[s])
       /\ pushTimer' = IF DOMAIN f = Missing(s) THEN pushTimer \ {s} ELSE pushTimer
  /\ UNCHANGED <<conf, role, autoTimer, staticTimer, auto, slots, crowded>>

\* The event of a publisher that is a pull has no handler.
PushReconnectCrashes(s) ==
  /\ s \in pushTimer /\ peer[s] \in conf.pulls
  /\ Respawn

\* ngx_rtmp_auto_push_reconnect.
AutoReconnect(s) ==
  /\ s \in autoTimer
  /\ \E f \in Connections(conf.slots \ slots[s]) :
       /\ Push(s, name[s], f)
       /\ name' = Named(f, name[s])
       /\ slots' = [slots EXCEPT ![s] = @ \cup DOMAIN f]
       /\ autoTimer' = IF slots'[s] = conf.slots THEN autoTimer \ {s} ELSE autoTimer
  /\ UNCHANGED <<conf, role, pushTimer, staticTimer, auto, crowded>>

\* ngx_rtmp_relay_static_pull_reconnect, also posted when the worker starts.
\* Without a connection the timer is armed again: nothing changes.
StaticReconnect(t) ==
  /\ t \in staticTimer
  /\ staticTimer' = staticTimer \ {t}
  /\ \E s \in Free, n \in conf.for[t] :
       /\ state' = [state EXCEPT ![s] = "open"]
       /\ peer' = [peer EXCEPT ![s] = t]
       /\ name' = [name EXCEPT ![s] = n]
  /\ UNCHANGED <<conf, role, lists, pushTimer, autoTimer, auto, slots, crowded>>

\* The server has created a stream: a static pull is published here, and to the
\* other workers.  For other relays the two modules do no more than pass it on.
StaticPublish(s) ==
  /\ Open(s) /\ Static(s) /\ role[s] = "new"
  /\ \E f \in Connections(conf.slots) :
       /\ Push(s, name[s], f)
       /\ name' = Named(f, name[s])
       /\ AutoStarts(s, f)
  /\ role' = [role EXCEPT ![s] = "publish"]
  /\ Crowd(name[s])
  /\ UNCHANGED <<conf, pushTimer, staticTimer>>

-----------------------------------------------------------------------------
Command(s, n) == \/ Publish(s, n) \/ PublishCrashes(s, n)
                 \/ PlayFound(s, n) \/ PlayPulls(s, n) \/ PlayFails(s, n)
Ending(s) == CloseStream(s) \/ DeleteStream(s) \/ Finalize(s) \/ Close(s)
Timer(s) == PushReconnect(s) \/ PushReconnectCrashes(s) \/ AutoReconnect(s)

\* A bucket leads to a context that is no longer in it, whose memory is or will be
\* freed, or runs in a circle.  Nothing is said of the process from then on: it may
\* crash, or walk the bucket for ever.
Tangled == tangled /\ (Respawn \/ UNCHANGED vars)

Next ==
  \/ /\ ~tangled
     /\ \/ \E s \in Sessions : \/ Connect(s) \/ Ending(s) \/ Timer(s)
                               \/ StaticPublish(s)
                               \/ \E n \in conf.names : Command(s, n)
        \/ \E t \in Targets : StaticReconnect(t)
  \/ Tangled

Spec == Init /\ [][Next]_vars

-----------------------------------------------------------------------------
(* Properties.                                                             *)

\* The variables hold values of their types.
TypeOK ==
  /\ conf \in Configs
  /\ state \in [Sessions -> {"free", "open", "closing"}]
  /\ peer \in [Sessions -> Targets \cup {Client}]
  /\ role \in [Sessions -> {"new", "publish", "play", "ended"}]
  /\ name \in [Sessions -> Names \cup {None}]
  /\ publish \in [Sessions -> Sessions \cup {None}]
  /\ plays \in [Sessions -> SUBSET Sessions]
  /\ table \subseteq Sessions
  /\ behind \in [Sessions -> SUBSET Sessions] /\ tangled \in BOOLEAN
  /\ pushTimer \subseteq Sessions /\ autoTimer \subseteq Sessions
  /\ auto \subseteq Sessions
  /\ slots \in [Sessions -> SUBSET Targets]
  /\ staticTimer \subseteq conf.statics
  /\ crowded \subseteq Names

\* The table holds the publishers, and a publisher's list those that point to it.
ListsSound ==
  /\ table = {p \in Sessions : publish[p] = p}
  /\ \A s \in Sessions : publish[s] # None =>
       publish[s] \in table /\ state[s] # "free"
  /\ \A p \in table : plays[p] = {s \in Sessions \ {p} : publish[s] = p}

\* A bucket leads through just its contexts, in one order.
Ordered ==
  \A p \in table :
    /\ p \notin behind[p] /\ behind[p] \subseteq Bucket(name[p])
    /\ \A q \in behind[p] : behind[q] \subseteq behind[p]
    /\ \A q \in Bucket(name[p]) \ {p} : q \in behind[p] \/ p \in behind[q]

\* Lists, buckets and back pointers agree, whoever leaves first, and hold no
\* session that is free: so no pointer leads to freed memory.  The exception is
\* a context that is inserted again with the ctx->next of its first time, which
\* only auto_push does, for a stream that is closed and not yet deleted.
PointersSound ==
  /\ ListsSound
  /\ tangled \/ Ordered
  /\ tangled => conf.slots # {} /\ ~conf.sessionRelay

\* A name leads to one publisher.
OnePublisher == \A p, q \in table : name[p] = name[q] => p = q

\* A timer of a context is armed only while its session exists: relay deletes its
\* timer when the publisher leaves the table, auto_push when the stream is deleted.
TimersSound ==
  /\ pushTimer \subseteq table
  /\ autoTimer \subseteq auto
  /\ \A s \in auto : state[s] # "free"

\* A relay that serves nobody is being closed: a push without its publisher, a
\* pull without players.
NoIdleRelay ==
  \A s \in Sessions : Open(s) =>
    /\ peer[s] \in conf.pushes \cup conf.slots => publish[s] \in table
    /\ peer[s] \in conf.pulls => s \in table /\ plays[s] # {}

\* A client's stream goes to every server it is pushed to, once, or a timer is
\* armed to try again.  Names that a second session published are left out: its
\* pushes join the list of the first.
PushesComplete ==
  \A s \in Sessions : IsClient(s) /\ role[s] = "publish" /\ name[s] \notin crowded =>
    /\ Missing(s) = {} \/ s \in pushTimer
    /\ \A q, r \in plays[s] : peer[q] = peer[r] /\ ~IsClient(q) => q = r

\* auto_push keeps count of its sessions through their ends: a worker's slot is
\* taken just while a session pushes to it, and a free one is tried again.
SlotsExact ==
  \A s \in auto : role[s] = "publish" /\ name[s] \notin crowded =>
    /\ slots[s] = {peer[r] : r \in plays[s]} \cap conf.slots
    /\ slots[s] = conf.slots \/ s \in autoTimer

\* A static pull is never given up and never doubled: it has its timer or one
\* session, however that session ends.
StaticFollowed ==
  \A t \in conf.statics :
    LET pulling == {s \in Sessions : peer[s] = t} IN
    IF t \in staticTimer THEN pulling = {} ELSE Cardinality(pulling) = 1

\* The end of a push or of a player never ends a client's publication: a client
\* that publishes is finalised alone.
PublisherUndisturbed ==
  [][\A s \in table : IsClient(s) /\ state[s] = "open" /\ state'[s] = "closing" =>
       \A r \in Sessions \ {s} : state'[r] = state[r]]_vars

=============================================================================
