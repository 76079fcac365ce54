-------------------------------- MODULE Live --------------------------------
(***************************************************************************)
(* The streams of a live application in one worker and the sessions that   *)
(* publish and play them (ngx_rtmp_live_module.c), with the HTTP-FLV       *)
(* players that join the same streams (ngx_http_flv_live_module.c).        *)
(*                                                                         *)
(* A stream is a struct that the hash table finds by name, and a list of   *)
(* the contexts of its members.  When its last member leaves it goes to a  *)
(* list of free structs, from which the next stream is made.               *)
(*                                                                         *)
(* Every handler runs to its end, so each is one step.  ngx_rtmp_recv      *)
(* handles all the messages a peer has sent before it returns, those of a  *)
(* session that one of them has finalised included; "reader" is the        *)
(* session it works for.  The close event of a session is posted and runs  *)
(* later, in its turn.  Notification URLs, for which a player would wait   *)
(* before it joins, are not configured.                                    *)
(***************************************************************************)
EXTENDS Naturals, FiniteSets, Sequences, Functions

CONSTANTS
  Rtmp,          \* RTMP sessions
  Http,          \* HTTP-FLV sessions
  Names,         \* stream names
  Streams,       \* stream structs, in memory of lacf->pool
  IdleStreams,   \* values of idle_streams: may players wait for a publisher?
  RelayPulls,    \* is a relay pull configured?  HTTP players create streams then
  DropIdle,      \* is drop_idle_publisher, lacf->idle_timeout, set?
  None           \* no session, no stream

Sessions == Rtmp \cup Http

ASSUME ConstantsAssumption ==
  /\ None \notin Sessions /\ None \notin Streams
  /\ Rtmp \cap Http = {}
  /\ IsFiniteSet(Sessions) /\ IsFiniteSet(Names) /\ IsFiniteSet(Streams)
  /\ Cardinality(Names) <= Cardinality(Streams)
  /\ IdleStreams \cup RelayPulls \cup DropIdle \subseteq BOOLEAN

VARIABLES
  conf,        \* the configuration of the application
  open,        \* the session exists
  destroyed,   \* connection->destroyed
  posted,      \* close events in ngx_posted_events, oldest first
  reader,      \* the session inside ngx_rtmp_recv
  ctx,         \* ngx_rtmp_live_ctx_t of each session
  publisher,   \* s->publisher of the HTTP sessions
  timer,       \* ctx->idle_evt.timer_set
  table,       \* lacf->streams: the struct of each name
  free,        \* lacf->free_streams; structs never used are at its end
  stream       \* the contents of each struct

life == <<open, destroyed, posted>>
world == <<ctx, publisher, timer, table, free, stream>>
vars == <<conf, life, reader, world>>

Configurations == [idle : IdleStreams, pull : RelayPulls, drop : DropIdle]

\* pub is pub_ctx->session, and publishing is pub # None; list is the list of
\* contexts that starts at stream->ctx, the last to join first.
StreamType == [name : Names, list : Seq(Sessions), active : BOOLEAN,
               pub : Sessions \cup {None}]
NewStream(n) == [name |-> n, list |-> <<>>, active |-> FALSE, pub |-> None]

CtxType == [stream : Streams \cup {None}, publishing : BOOLEAN,
            active : BOOLEAN, paused : BOOLEAN]
NoCtx == [stream |-> None, publishing |-> FALSE, active |-> FALSE, paused |-> FALSE]

Joined(s) == ctx[s].stream # None
Members(t) == Range(stream[t].list)

\* The elements of q that are in set, in their order: the k-th of them is the
\* one at the position that k of their positions do not exceed.
Rank(places, i) == Cardinality({j \in places : j <= i})
Kept(q, set) ==
  LET places == {i \in DOMAIN q : q[i] \in set} IN
  [k \in 1 .. Cardinality(places) |-> q[CHOOSE i \in places : Rank(places, i) = k]]

Without_Head(q, s) == IF q = <<>> THEN q ELSE Tail(q)
Without(q, s) == Kept(q, Sessions \ {s})

-----------------------------------------------------------------------------
(* Finalising sessions.                                                    *)

\* The sessions of q are destroyed and their close events are posted.
\* ngx_post_event leaves an event alone that is posted already.
PostClose_NotPosted(q) ==
  /\ destroyed' = [s \in Sessions |-> destroyed[s] \/ s \in Range(q)]
  /\ posted' = posted
PostClose(q) ==
  /\ destroyed' = [s \in Sessions |-> destroyed[s] \/ s \in Range(q)]
  /\ posted' = posted \o Kept(q, Sessions \ Range(posted))

\* ngx_rtmp_finalize_session for the sessions of q.
Alive == {s \in Sessions : ~destroyed[s]}
FinalizeAll(q) == PostClose(Kept(q, Alive))

\* Some of the sessions of set, in the order of q.
FinalizeSome(q, set) == \E refused \in SUBSET set : FinalizeAll(Kept(q, refused))

-----------------------------------------------------------------------------
(* The operations on streams are functions of a record of the variables,   *)
(* so that the close handlers of both modules can be applied in turn.      *)

World == [ctx |-> ctx, publisher |-> publisher, timer |-> timer,
          table |-> table, free |-> free, stream |-> stream]

SetWorld(w) ==
  /\ ctx' = w.ctx /\ publisher' = w.publisher /\ timer' = w.timer
  /\ table' = w.table /\ free' = w.free /\ stream' = w.stream

\* The players of the stream that s publishes.
Players(w, s) ==
  IF w.ctx[s].publishing
  THEN {x \in Range(w.stream[w.ctx[s].stream].list) : ~w.ctx[x].publishing}
  ELSE {}

\* The idle timer of a publisher runs while it is active.
Timer_NotDeleted(w, s, a) ==
  IF w.ctx[s].publishing /\ a THEN [w.timer EXCEPT ![s] = conf.drop] ELSE w.timer
Timer(w, s, a) ==
  IF w.ctx[s].publishing THEN [w.timer EXCEPT ![s] = a /\ conf.drop] ELSE w.timer

\* The HTTP players learn who publishes.
Publisher_NotTold(w, s) == w.publisher
Publisher_AllPlayers(w, s) == [x \in Sessions |->
  IF x \in Players(w, s) THEN s ELSE IF x \in Http THEN w.publisher[x] ELSE None]
Publisher(w, s) == [x \in Http |-> IF x \in Players(w, s) THEN s ELSE w.publisher[x]]

\* ngx_rtmp_live_set_status: a publisher switches its stream and its players.
SetStatus(w, s, a) ==
  IF w.ctx[s].active = a THEN w
  ELSE LET affected == Players(w, s) \cup {s} IN
    [w EXCEPT
      !.ctx = [x \in Sessions |->
                 IF x \in affected THEN [@[x] EXCEPT !.active = a] ELSE @[x]],
      !.publisher = Publisher(w, s),
      !.stream = IF w.ctx[s].publishing
                 THEN [@ EXCEPT ![w.ctx[s].stream].active = a] ELSE @,
      !.timer = Timer(w, s, a)]

\* The sessions that are sent control messages then; a full ring ends them.
Informed(w, s, a) ==
  IF w.ctx[s].active = a THEN {}
  ELSE {x \in Rtmp \cap (Players(w, s) \cup {s}) :
          ~w.ctx[x].publishing /\ w.ctx[x].active # a}

\* A handler that only switches s on or off.
Switch(w, s, a) ==
  /\ SetWorld(SetStatus(w, s, a))
  /\ FinalizeSome(<<s>> \o Without(w.stream[w.ctx[s].stream].list, s),
                  Informed(w, s, a))

\* ngx_rtmp_live_get_stream, when it may create the stream.
GetStream(w, n) ==
  IF w.table[n] # None THEN w
  ELSE [w EXCEPT !.table[n] = Head(w.free), !.free = Tail(@),
                 !.stream[Head(w.free)] = NewStream(n)]
CanGet(n) == table[n] # None \/ free # <<>>

\* The context of s enters the list of stream t.
Link(w, s, t, publishing) ==
  [w EXCEPT !.ctx[s] = [NoCtx EXCEPT !.stream = t, !.publishing = publishing],
            !.stream[t].list = <<s>> \o @,
            !.stream[t].pub = IF publishing THEN s ELSE @]

\* The context of s leaves its stream; the struct is freed with the last one.
\* The entry that the name finds is removed, whichever struct it is.
Leave(w, s) ==
  [w EXCEPT
    !.stream[w.ctx[s].stream].list = Without(@, s),
    !.stream[w.ctx[s].stream].pub = IF w.ctx[s].publishing THEN None ELSE @]

InUse_PublisherOnly(w, t) == w.stream[t].pub # None
InUse(w, t) == w.stream[t].list # <<>> \/ w.stream[t].pub # None

FreeIfEmpty(w, s) ==
  LET t == w.ctx[s].stream  name == w.stream[t].name IN
  CASE InUse(w, t) -> [w EXCEPT !.ctx[s].stream = None]
    [] ~InUse(w, t) /\ w.table[name] = None -> w
    [] OTHER -> [w EXCEPT !.ctx[s].stream = None, !.table[name] = None,
                          !.free = <<t>> \o @]

-----------------------------------------------------------------------------
(* Closing the stream of a session: ngx_rtmp_close_stream is a chain of    *)
(* handlers, of which the one of the HTTP-FLV module comes first.          *)

\* A publisher takes the HTTP players off the list of its stream.  Their
\* contexts still point to the stream.
DropHttp(w, s) ==
  LET t == w.ctx[s].stream
      gone == Range(w.stream[t].list) \cap Http
  IN [w EXCEPT
       !.ctx = [x \in Sessions |->
                  IF x \in gone /\ w.stream[t].active
                  THEN [@[x] EXCEPT !.active = FALSE] ELSE @[x]],
       !.stream[t].list = Kept(@, Rtmp)]

\* An HTTP player leaves the list.  Its stream is not freed.
UnlinkHttp(w, s) ==
  LET t == w.ctx[s].stream IN
  [w EXCEPT !.ctx[s].stream = None,
            !.ctx[s].active = IF w.stream[t].active THEN FALSE ELSE @,
            !.stream[t].list = Without(@, s)]

FlvClose(w, s) ==
  CASE s \in Rtmp /\ w.ctx[s].publishing -> DropHttp(w, s)
    [] s \in Http /\ s \in Range(w.stream[w.ctx[s].stream].list) -> UnlinkHttp(w, s)
    [] OTHER -> w

\* ngx_rtmp_live_close_stream.
LiveClose(w, s) ==
  IF w.ctx[s].stream = None THEN w
  ELSE LET left == Leave(w, s) IN
       FreeIfEmpty(IF w.ctx[s].publishing \/ w.stream[w.ctx[s].stream].active
                   THEN SetStatus(left, s, FALSE) ELSE left, s)

CloseStream(w, s) ==
  IF w.ctx[s].stream = None THEN w ELSE LiveClose(FlvClose(w, s), s)

\* The sessions that are finalised when s closes its stream: with a publisher
\* all the members of the stream, itself included.  The destroyed flag of the
\* HTTP players has been cleared by ngx_http_flv_live_free_request.
EndedWith_HttpOnly(s) ==
  IF Joined(s) /\ ctx[s].publishing
  THEN Kept(stream[ctx[s].stream].list, Http)
  ELSE <<>>
EndedWith(s) ==
  IF Joined(s) /\ ctx[s].publishing
  THEN Kept(stream[ctx[s].stream].list, Http \cup Alive)
  ELSE <<>>

\* A player that leaves a stream that is on is told, too.
ToldByClose(s) ==
  IF Joined(s) /\ ~ctx[s].publishing /\ stream[ctx[s].stream].active
  THEN Informed(World, s, FALSE) ELSE {}

-----------------------------------------------------------------------------
Init ==
  /\ conf \in Configurations
  /\ open = [s \in Sessions |-> FALSE]
  /\ destroyed = [s \in Sessions |-> FALSE]
  /\ posted = <<>>
  /\ reader = None
  /\ ctx = [s \in Sessions |-> NoCtx]
  /\ publisher = [s \in Http |-> None]
  /\ timer = [s \in Sessions |-> FALSE]
  /\ table = [n \in Names |-> None]
  /\ \E q \in [1 .. Cardinality(Streams) -> Streams] : IsInjective(q) /\ free = q
  /\ \E n \in Names : stream = [t \in Streams |-> NewStream(n)]

Connect(s) ==
  /\ reader = None /\ ~open[s]
  /\ open' = [open EXCEPT ![s] = TRUE]
  /\ UNCHANGED <<destroyed, posted, reader, world>>

-----------------------------------------------------------------------------
(* ngx_rtmp_recv and the messages it handles.                              *)

BeginRecv(s) ==
  /\ reader = None /\ open[s] /\ ~destroyed[s]
  /\ reader' = s
  /\ UNCHANGED <<life, world>>

EndRecv ==
  /\ reader # None
  /\ reader' = None
  /\ UNCHANGED <<life, world>>

\* The peer has hung up, or a handler failed.
RecvError ==
  /\ reader # None
  /\ FinalizeAll(<<reader>>)
  /\ reader' = None
  /\ UNCHANGED <<open, world>>

\* ngx_rtmp_live_join of a publisher.  The context is cleared although the
\* name is taken.
Published_Never(n) == FALSE
Published(n) == table[n] # None /\ stream[table[n]].pub # None

Publish(s, n) ==
  /\ reader = s /\ ~Joined(s) /\ ~Published(n) /\ CanGet(n)
  /\ LET w == GetStream(World, n) IN SetWorld(Link(w, s, w.table[n], TRUE))
  /\ UNCHANGED <<life, reader>>

PublishRefused(s, n) ==
  /\ reader = s /\ ~Joined(s) /\ Published(n)
  /\ ctx' = [ctx EXCEPT ![s] = NoCtx]
  /\ UNCHANGED <<life, reader, publisher, timer, table, free, stream>>

\* ngx_rtmp_live_join of a player.  It starts at once when the stream is on.
NotFound_Never(n) == FALSE
NotFound(n) == ~conf.idle /\ ~Published(n)

Play(s, n) ==
  /\ reader = s /\ ~Joined(s) /\ ~NotFound(n) /\ CanGet(n)
  /\ LET w == GetStream(World, n)
         linked == Link(w, s, w.table[n], FALSE)
     IN IF w.stream[w.table[n]].active
        THEN Switch(linked, s, TRUE)
        ELSE SetWorld(linked) /\ UNCHANGED <<destroyed, posted>>
  /\ UNCHANGED <<open, reader>>

PlayNotFound(s, n) ==
  /\ reader = s /\ ~Joined(s) /\ NotFound(n)
  /\ ctx' = [ctx EXCEPT ![s] = NoCtx]
  /\ FinalizeAll(<<s>>)
  /\ UNCHANGED <<open, reader, publisher, timer, table, free, stream>>

\* closeStream and deleteStream.  play2 is a closeStream and a play.
CloseStreamCmd(s) ==
  /\ reader = s /\ Joined(s)
  /\ SetWorld(CloseStream(World, s))
  /\ \/ EndedWith(s) # <<>> /\ PostClose(EndedWith(s))
     \/ EndedWith(s) = <<>> /\ FinalizeSome(<<s>>, ToldByClose(s))
  /\ UNCHANGED <<open, reader>>

Pause(s, pause) ==
  /\ reader = s /\ Joined(s)
  /\ Switch([World EXCEPT !.ctx[s].paused = pause], s, ~pause)
  /\ UNCHANGED <<open, reader>>

\* ngx_rtmp_live_stream_begin and ngx_rtmp_live_stream_eof.
StreamEvent(s, begin) ==
  /\ reader = s /\ Joined(s) /\ ctx[s].publishing
  /\ Switch(World, s, begin)
  /\ UNCHANGED <<open, reader>>

\* ngx_rtmp_live_av: the first packet starts the stream; then the players that
\* cannot take a codec header are finalised.  The idle timer starts again.
AudioVideo(s) ==
  /\ reader = s /\ Joined(s) /\ ctx[s].publishing
  /\ LET list == stream[ctx[s].stream].list
         off == ~stream[ctx[s].stream].active
         able == {x \in Range(list) \ {s} : ~ctx[x].paused}
     IN /\ SetWorld(IF off THEN SetStatus(World, s, TRUE) ELSE World)
        /\ \E refused \in SUBSET (IF off THEN Informed(World, s, TRUE) ELSE {}) :
           \E failed \in SUBSET (able \ refused) :
             FinalizeAll(Kept(list, refused) \o Kept(list, failed))
  /\ UNCHANGED <<open, reader>>

-----------------------------------------------------------------------------
(* ngx_http_flv_live_join, in the handler of the HTTP request.             *)

HttpFound(n) == conf.pull \/ ~NotFound(n)
HttpReady(n) == conf.pull \/ Published(n)

HttpPlay(s, n) ==
  /\ reader = None /\ ~open[s] /\ HttpFound(n) /\ HttpReady(n) /\ CanGet(n)
  /\ LET w == GetStream(World, n)
         t == w.table[n]
         linked == Link(w, s, t, FALSE)
     IN SetWorld([linked EXCEPT !.ctx[s].active = w.stream[t].active,
                                !.publisher[s] = w.stream[t].pub])
  /\ open' = [open EXCEPT ![s] = TRUE]
  /\ UNCHANGED <<destroyed, posted, reader>>

\* Nobody publishes and nobody will: the request fails, but the stream that
\* was looked up stays in the table, without members.
HttpNotReady(n) ==
  /\ Http # {} /\ reader = None /\ HttpFound(n) /\ ~HttpReady(n)
  /\ table[n] = None /\ CanGet(n)
  /\ SetWorld(GetStream(World, n))
  /\ UNCHANGED <<life, reader>>

-----------------------------------------------------------------------------
(* Timers, lost connections, and the posted close events.                  *)

\* ngx_rtmp_live_idle.
IdlePublisher(s) ==
  /\ reader = None /\ timer[s]
  /\ timer' = [timer EXCEPT ![s] = FALSE]
  /\ FinalizeAll(<<s>>)
  /\ UNCHANGED <<open, reader, ctx, publisher, table, free, stream>>

HangUp(s) ==
  /\ reader = None /\ open[s] /\ ~destroyed[s]
  /\ FinalizeAll(<<s>>)
  /\ UNCHANGED <<open, reader, world>>

\* ngx_rtmp_close_session_handler: the stream is closed, the memory of the
\* session is freed, and a new connection may take it.
Close ==
  /\ reader = None /\ posted # <<>>
  /\ \E s \in {Head(posted)}, w \in {CloseStream(World, Head(posted))},
        ended \in {EndedWith(Head(posted))} :
       /\ SetWorld([w EXCEPT !.ctx[s] = NoCtx,
                             !.publisher = [x \in Http |-> IF x = s THEN None
                                                           ELSE @[x]]])
       /\ posted' = Tail(posted) \o Kept(ended, Sessions \ Range(posted))
       /\ destroyed' = [x \in Sessions |->
            x # s /\ (destroyed[x] \/ x \in Range(ended))]
       /\ open' = [open EXCEPT ![s] = FALSE]
  /\ UNCHANGED reader

-----------------------------------------------------------------------------
Message(s, n) ==
  \/ Publish(s, n) \/ PublishRefused(s, n) \/ Play(s, n) \/ PlayNotFound(s, n)

Step ==
  \/ \E s \in Rtmp :
       \/ Connect(s) \/ BeginRecv(s) \/ CloseStreamCmd(s) \/ AudioVideo(s)
       \/ \E n \in Names : Message(s, n)
       \/ \E on \in BOOLEAN : Pause(s, on) \/ StreamEvent(s, on)
  \/ \E n \in Names : HttpNotReady(n) \/ \E s \in Http : HttpPlay(s, n)
  \/ \E s \in Sessions : IdlePublisher(s) \/ HangUp(s)
  \/ EndRecv \/ RecvError \/ Close

\* A worker keeps the configuration it was started with.
Next == Step /\ UNCHANGED conf

Spec == Init /\ [][Next]_vars

\* ngx_rtmp_recv returns when it has read what the peer has sent, and each
\* iteration of the event loop runs the posted events.
FairSpec == Spec /\ WF_vars(EndRecv /\ UNCHANGED conf)
                 /\ SF_vars(Close /\ UNCHANGED conf)

-----------------------------------------------------------------------------
(* Properties.                                                             *)

\* Every variable keeps its type.
TypeOK ==
  /\ conf \in Configurations
  /\ open \in [Sessions -> BOOLEAN] /\ destroyed \in [Sessions -> BOOLEAN]
  /\ posted \in Seq(Sessions) /\ reader \in Rtmp \cup {None}
  /\ ctx \in [Sessions -> CtxType]
  /\ publisher \in [Http -> Sessions \cup {None}]
  /\ timer \in [Sessions -> BOOLEAN]
  /\ table \in [Names -> Streams \cup {None}]
  /\ free \in Seq(Streams)
  /\ stream \in [Streams -> StreamType]

\* Every struct is either in the table, under its own name, or on the free
\* list, once; and no free struct has members, whichever sessions left it and
\* in which order (ngx_rtmp_live_get_stream, ngx_rtmp_live_close_stream).
StreamsAccounted ==
  /\ IsInjective(free)
  /\ \A t \in Streams : t \in Range(free) <=> \A n \in Names : table[n] # t
  /\ \A n \in Names : table[n] # None => stream[table[n]].name = n
  /\ \A t \in Range(free) : stream[t].list = <<>> /\ stream[t].pub = None

\* A list holds exactly the contexts of open sessions that point to its stream,
\* once each, save the HTTP players a publisher dropped; at most one of them
\* publishes and it is pub_ctx.  So ngx_rtmp_live_av, which follows the list,
\* never meets the context of a session that has been freed.
MembersOpen == \A t \in Streams :
  /\ IsInjective(stream[t].list)
  /\ \A s \in Rtmp : ctx[s].stream = t <=> s \in Members(t)
  /\ \A s \in Members(t) :
       /\ open[s] /\ ctx[s].stream = t
       /\ ctx[s].publishing <=> stream[t].pub = s
  /\ stream[t].pub # None => stream[t].pub \in Members(t)

\* The idle timer of a session lies in its context, which is freed without
\* looking at it: it runs only for a publisher that is in its stream, and for
\* every active one that has not been finalised.
IdleTimerSound == \A s \in Rtmp :
  /\ timer[s] => open[s] /\ Joined(s) /\ ctx[s].publishing /\ ctx[s].active
  /\ conf.drop /\ Joined(s) /\ ctx[s].publishing /\ ctx[s].active =>
       timer[s] \/ destroyed[s]

\* An HTTP player in a list is switched with the stream, and while the stream
\* is on, s->publisher, whose codec context ngx_http_flv_live_send_header
\* reads, is the session that publishes it now.
HttpFollows == \A t \in Streams : \A s \in Members(t) \cap Http :
  /\ ctx[s].active = stream[t].active
  /\ stream[t].active => publisher[s] = stream[t].pub /\ open[publisher[s]]

\* Without idle streams no player stays behind in a stream that nobody
\* publishes: ngx_rtmp_live_close_stream ends them with their publisher.
OrphansFinalized ==
  ~conf.idle => \A s \in Rtmp :
    Joined(s) /\ stream[ctx[s].stream].pub = None => destroyed[s]

\* The streams of the table as channels.
InTable(n) == table[n] # None
Channels == INSTANCE LiveChannels WITH
  pub <- [n \in Names |-> IF InTable(n) THEN stream[table[n]].pub ELSE None],
  subs <- [n \in Names |->
    IF InTable(n) THEN {s \in Members(table[n]) : ~ctx[s].publishing} ELSE {}],
  onAir <- [n \in Names |-> InTable(n) /\ stream[table[n]].active]

\* The hash table, the lists and the recycled structs implement one channel
\* per name, with one publisher, that keeps its own members.
ChannelsKept == Channels!Spec

\* When its publisher leaves, a stream where nobody may wait for another one is
\* freed unless it is published again: every session left in it is closed in the
\* end, and the last one frees it.
StreamReclaimed == \A n \in Names :
  ~conf.idle /\ ~conf.pull /\ InTable(n) /\ stream[table[n]].pub = None ~>
    ~InTable(n) \/ stream[table[n]].pub # None

\* A finalised session is closed in the end, whatever the others send and
\* however many sessions are finalised before it (ngx_rtmp_finalize_session).
FinalizedIsClosed == \A s \in Sessions : destroyed[s] ~> ~open[s]

\* "live: delete empty stream" (ngx_rtmp_live_module.c): a stream that is taken
\* out of the table is empty.
DeletedIsEmpty == [][\A n \in Names :
  InTable(n) /\ table'[n] = None => stream'[table[n]].list = <<>>]_vars

=============================================================================
