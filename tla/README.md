# A verification development of nginx-media-module

This directory holds TLA+ models of nginx-media-module, the configurations with
which TLC checks them, and proofs that TLAPS checks.  The reference is the C
code at this commit: every definition that models code names, in
`PROJECT.json` under `map`, the lines it stands for.  Paths below are relative
to the repository's `src/`; `LV`, `FL`, `RL`, `AP`, `BC`, `TM` stand for
`ngx_media_rtmp/ngx_rtmp_live_module.c`,
`ngx_media_rtmp/ngx_http_flv_live_module.c`,
`ngx_media_rtmp/ngx_rtmp_relay_module.c`,
`ngx_media_rtmp/ngx_rtmp_auto_push_module.c`,
`ngx_media_vod/ngx_buffer_cache.c` and
`ngx_media_task/ngx_media_task_module.c`.

Contents

1. The system: inventory of components and their hard behaviour
2. The modules and how they correspond to the code
3. The runs: what each checks, its bounds, its fairness
4. Disagreements between the code and what it says of itself
5. The proofs
6. What is only model-checked, and what is not modelled
7. The plan

## 1. The system

nginx-media-module is a set of nginx modules: a live RTMP server with HTTP-FLV
output (`ngx_media_rtmp`), an on-demand packager (`ngx_media_vod`), a
transcoding task manager (`ngx_media_task`), an MPEG-TS ingest
(`ngx_media_ts`), a ZeroMQ upstream (`ngx_media_zmq`) and HTTP services around
them (`ngx_media_live`, `ngx_media_other`).

### 1.1 Processes, and what can interleave with what

nginx runs a master and several worker processes.  Each worker is an event
loop: in one iteration it refreshes its cached clock, waits for events, runs
their handlers, runs the *posted* events, and expires timers.  Hence:

- handlers of one worker never interleave; a handler runs to its end.  But a
  handler may call into other sessions (a publisher writes to the output of
  every player), may be re-entered through chains of callbacks, and leaves work
  for later (posted close events, timers) that finds another state;
- workers interleave freely.  They share memory zones (the VOD buffer caches,
  the connection limit) under a mutex per zone, and a worker may be killed at
  any step; the master then unlocks its mutexes by force and starts another;
- the transcoding tasks and the file transfers add threads to a worker, with
  mutexes of their own.

The three kinds ask for different models: `BufferCache` has a program
counter per worker process and a step per shared write; `OutQueue` lets one
handler at a time take several steps; `Live` and `Relay` make each handler one
step, and keep the posted events and the timers as state; `MediaTask` has a
program counter for the event loop and one for each thread, and a step between
any two points where a thread waits for a mutex or reads what another writes.

### 1.2 Components

| Component | State | Operations | Hard behaviour | Correct when | Model |
|---|---|---|---|---|---|
| VOD shared buffer cache (`ngx_buffer_cache.c`) | array of entries, red-black tree, used and free queue, cyclic buffer area, flag `reset`, access times | fetch, release, store, reset, eviction | killed workers, copies and reads without the mutex, lagging clocks, wrap-around | structures whole whenever the mutex is free and the flag clear; buffers disjoint; a held buffer is not reused; the store loop ends | `BufferCache` |
| VOD request flow (`ngx_http_vod_module.c`, child requests, file reader, async open cache) | a state machine per request, open contexts | open, read, parse, cache, send | late answers of thread pool and child requests, references leaked on error paths | every answer reaches the request that asked; each fetched buffer is released once | its use of the cache, in `BufferCache` |
| VOD parsers, segmenters, muxers (`vod/`) | none beyond a request | pure functions over media files | byte formats, arithmetic | output agrees with the formats | not modelled |
| RTMP live and HTTP-FLV (`LV`, `FL`) | table of streams, recycled structs, lists of contexts, flags, idle timers | publish, play, pause, close, audio/video, HTTP open and close | publisher leaves and returns, sessions finalised together and closed later, stale context pointers | one channel per name; lists hold open sessions; structs recycled once; a stream without publisher goes away | `Live`, `LiveChannels` |
| GOP cache, codec context (`ngx_rtmp_gop_cache_module.c`, `_codec_module.c`) | frames of the last groups of pictures, codec headers | cache, send, clear | headers copied by pointer, freed when replaced; allocation failing half way | a late player gets decodable frames, no freed chain is read | planned |
| Session and output queue (`ngx_rtmp_handler.c`, `_shared.c`, `_init.c`) | ring of outgoing messages, partly written link, shared chains with reference counts, write event and timer, posted close | append, prepare, send_message, send, free, finalize, close | ring full or corked, write errors half way, chains in several rings, finalising inside a callback | each ring is a FIFO; counts equal owners; no message forgotten; closed exactly once | `OutQueue`, `MessageFifo` |
| Handshake, chunk stream parser, control messages (`_handshake.c`, `_receive.c`, `_send.c`) | parser state of one connection | recv, protocol messages | chunks of streams interleaved | messages reassembled | left out of `OutQueue` |
| RTMP relay (`RL`, `AP`) | contexts by stream name, a publish context with the list of its players, push and pull timers, slots of the other workers | push, pull, publish, play, close, reconnect | the two ends close in any order, timers race a close, relayed sessions are local sessions as well, connections fail one by one | no context outlives its session; a configured push or static pull is retried and not doubled; no relay serves nobody | `Relay` |
| Network calls, notify (`_netcall_module.c`, `_notify_module.c`) | pending calls per session, `detached` | create, receive, detach, close, timeout | answer after the session has ended | a detached call touches no session; each call ends once | planned |
| Recorder, exec, control, limit, access | files, child processes, a counter in shared memory | open/close record, respawn, drop, count | a killed worker never decrements the counter | counter equals the sessions open | planned in part |
| On-demand play (`_play`, `_flv`, `_mp4`) | file position and timer of one session | play, seek, pause, send | timer against close | one timer per session | not modelled |
| Configuration, commands, AMF, statistics | none shared | parse, format | formats | - | not modelled |
| HLS, DASH (`hls/`, `dash/`) | fragment window, files of one stream | open, close, rotate fragments | publisher returns, restart of numbering | window lists existing files | candidate |
| Transcoding tasks (`TM`, `ngx_media_worker_*.c`) | task list, workers per task, trigger, status, timers | create, start, trigger, stop, check, destroy | three levels of mutexes, worker threads and watcher callbacks, media kernel polled by timers | a worker starts once; a task ends truly and is destroyed with nothing left behind; no lock cycle | `MediaTask` |
| RTMP proxy (`ngx_media_rtmp_proxy`) | two connections and buffers per session | accept, connect, forward, close | either side closes first | bytes forwarded in order, both closed | candidate |
| MPEG-TS (`ngx_media_ts`) | demuxer of one stream | feed, package | formats | - | not modelled |
| ZeroMQ pool (`ngx_media_zmq`) | queue of connections linked by `m_next` | get, release, free | a failed request frees a connection, `m_next` is set on release only | the queue links the free connections | candidate |
| HTTP services (`ngx_media_other`, `ngx_media_live`) | files, system statistics | request handlers | partial uploads | - | not modelled |
| Build files, vendored libraries | - | - | - | - | third party |

### 1.3 How the components interact

- *Chains of handlers.*  `publish`, `play`, `close_stream`, `stream_begin`,
  `stream_eof` and `pause` are lists of functions; each module saves the head it found and
  calls it when it has done its part.  For the live server the order that
  matters is HTTP-FLV before live on closing (`FlvClose` then `LiveClose` in
  `Live`), and auto_push before relay on publishing and deleting (`Publish`,
  `Close` in `Relay`).
- *Calls into other sessions.*  `ngx_rtmp_live_av` walks the list of a stream
  and calls `ngx_rtmp_send_message` for each player; a write error inside
  finalises that player, whose close event is posted.
- *Posted events.*  `ngx_rtmp_finalize_session` only marks the connection and
  posts the close event; `ngx_rtmp_close_session_handler` runs at the end of
  the iteration, after the commands of other sessions.
- *Shared memory.*  The VOD module fetches from and stores to the caches with
  the mutex; the copies in and out run without it, protected by a reference
  count and an access time.

The hazards of these interactions, at the lines where they bite, are listed in
`PROJECT.json` under `hazards`, each with the properties that would catch it or
a note on why there is none yet.

## 2. The modules

    BufferCache <- MCBufferCache
    BufferCache <- BufferCacheProofs <- BufferCacheLayoutProofs
                   BufferCacheProofs <- BufferCacheSharingProofs
    MessageFifo <~ OutQueue <- MCOutQueue
    OutQueue <- OutQueueProofs <- OutQueueChainsProofs
    LiveChannels <~ Live <- MCLive      Live <- LiveProofs
    Relay <- MCRelay                    Relay <- RelayProofs
    MediaTask <- MCMediaTask            MediaTask <- MediaTaskProofs

`<-` is EXTENDS, `<~` is implements (`INSTANCE ... WITH`).  Operators named
`X_Something` beside an operator `X` are plausible slips of the code of `X`,
used to show that a property notices them; no specification uses them.

### 2.1 BufferCache: `ngx_buffer_cache.c`

| Model | Code |
|---|---|
| `reset`, `cacheAccess`, `tree`, `usedQueue`, `freeQueue`, `entriesEnd`, `buffersStart/Read/Write`, `entry` | fields of `ngx_buffer_cache_sh_t` and `ngx_buffer_cache_entry_t`; addresses are distances from `entries_start`, an entry is its index |
| `mutex`, `pc`, `op` | the holder of `shpool->mutex`; where each worker is; its locals |
| `now`, `time` | the real clock and each worker's cached `ngx_time()` |
| `Fetch`, `Release`, `Abandon` | fetch; release by key and token; a caller that returns without a release |
| `StoreReset` / `StoreLock` | entry of a store: it resets torn structures, or goes on |
| `EvictExpired`, `FreeFromTree`, `FreeToQueue`, `FreePointers` | the eviction of expired entries, and `free_oldest_entry` write by write |
| `StoreLookup` ... `Commit` | the rest of `store_gather`, one step per group of writes that a kill can separate |
| `FinishCopy`, `DropStoreRef` | the copy without the mutex, and the two atomic writes after it |
| `Kill` | a worker dies at any step and the master unlocks its mutex |

A store is as many steps as it has writes another worker could see half done;
everything between two of them is one step.  Data is reduced to sizes and
positions; the contents of buffers are not represented, only which bytes each
worker reads or writes.

### 2.2 OutQueue and MessageFifo: the output side of the sessions

| Model | Code |
|---|---|
| `out`, `outPos`, `outLast`, `outChain` | the ring and the link being written |
| `writeActive`, `writeTimer` | the write event of the connection |
| `open`, `destroyed`, `posted` | life of a session and the posted close events |
| `ref`, `free`, `body` | shared chains and `cscf->free` |
| `job`, `sender`, `closer` | the handler that runs, the session inside `ngx_rtmp_send`, the session being closed |
| `BeginHandler`, `BuildPacket`, `BuildFails`, `Drop`, `Enqueue`, `EndHandler` | a handler that builds a message and offers it to some sessions: `ngx_rtmp_live_av`, `ngx_rtmp_live_data`, the status and control messages |
| `WriteEvent`, `WriteTimeout`, `WriteLink`, `WriteLast`, `WriteAgain`, `WriteError`, `WriteDone` | `ngx_rtmp_send`, one call of `c->send` at a time |
| `HangUp`, `DisconnectFinalizes`, `BeginClose`, `FreeQueued`, `EndClose` | `ngx_rtmp_finalize_session`, the disconnect handlers, `ngx_rtmp_close_session_handler` |

Four kinds of handler differ in when they build the message, what a lost
message does, and how they release it: `av`, `header`, `status`, `data`.
`data` is `ngx_rtmp_live_data`, kept apart because it disagrees with the others
(section 4).

`MessageFifo` is what the senders rely on: per session a bounded queue whose
messages are accepted whole or dropped, then kept unchanged and in order until
written or until the session ends.  `RingIsFifo` says that the ring and the
shared chains implement it; the abstract queue is the sequence of *contents*
found through the ring, so a chain recycled too early is a change of the
queue that no action of `MessageFifo` allows.

### 2.3 Live and LiveChannels: streams, publishers, players

| Model | Code |
|---|---|
| `table`, `free`, `stream` | `lacf->streams`, `lacf->free_streams`, the structs; structs not allocated yet stand at the end of `free` |
| `ctx` | `ngx_rtmp_live_ctx_t`: stream, publishing, active, paused |
| `publisher`, `timer` | `s->publisher` of HTTP sessions, the idle timer |
| `open`, `destroyed`, `posted`, `reader` | life of sessions, posted events, the session whose input is read |
| `Publish`, `Play`, `Pause`, `StreamEvent`, `AudioVideo`, `CloseStreamCmd` | the commands and messages of an RTMP peer; the `...Refused` and `...NotFound` variants are the early returns |
| `HttpPlay`, `HttpNotReady` | the open of an HTTP-FLV request, with and without a stream to play |
| `IdlePublisher`, `HangUp`, `RecvError` | the idle timer, the end of a connection, an error while reading |
| `FlvClose`, `LiveClose`, `CloseStream`, `Close` | the chain of close handlers; the posted close event |

A handler is a function from a record of the state it touches (`World`) to the
next, so the chains of handlers compose as in the code: `CloseStream` applies
`FlvClose` and then `LiveClose`, and `SetStatus` is used by both.  `LiveChannels`
is what the module promises: per name one channel with one publisher and its
own subscribers.  The loops over a member list that keep some of its elements
are `Kept`, which takes the k-th element kept by its rank among the positions;
`SelectSeq` would say the same by recursion, out of the prover's reach.  `ChannelsKept` states that the table, the lists and the
recycled structs implement it.

The configuration (`conf`) is a variable that never changes, so one run covers
every combination of `idle_streams`, relay pulls and `drop_idle_publisher` that
its cfg lists.

### 2.4 Relay: `RL` and `AP`

| Model | Code |
|---|---|
| `peer` | whom a session relays to or from: `ctx->tag` and `ctx->data`; `Client` for a session of a client |
| `publish`, `plays`, `table` | `ctx->publish`, the list that begins at the publisher's `ctx->play`, the contexts linked in `racf->ctx` |
| `behind`, `tangled` | the chain of a bucket through `ctx->next`: the contexts behind one, of which the next pointer names the first; whether a context was inserted that already led on |
| `pushTimer`, `autoTimer`, `staticTimer` | `ctx->push_evt` of relay and of auto_push, the events of the static pulls |
| `auto`, `slots` | the contexts of auto_push and the workers they push to |
| `state`, `role`, `name` | life of a session, what its peer asked for, the stream's name |
| `Publish`, `PublishCrashes`, `PlayFound`, `PlayPulls`, `PlayFails` | `ngx_rtmp_auto_push_publish` and `ngx_rtmp_relay_publish`; `ngx_rtmp_relay_play` with and without a publisher of the name |
| `StaticReconnect`, `StaticPublish` | the life of a static pull: connected, then published here |
| `PushReconnect`, `PushReconnectCrashes`, `AutoReconnect` | the timers |
| `CloseStream`, `DeleteStream`, `Finalize`, `Close` | the ends: a command, a finalised session, its close handler |
| `Connections(targets)` | the outcome of a round of connection attempts: any targets may fail, the others get a session each |

`ngx_rtmp_relay_close` is a function of the state to each variable
(`Finalized`, `PublishAfter`, `PlaysAfter`, ...), which the three actions that
call it share.  Relays are ordinary sessions: a push is published at the other
end, a pull is played here, and either can be finalised by any handler, which
is `Finalize`.  The worker processes of one nginx push to each other over local
sockets; another worker is a target like any server.

A context that leaves the table keeps its `ctx->next` (RL:1552), and
`ngx_rtmp_relay_create` inserts it again without clearing the pointer
(RL:632-641).  `behind` therefore outlives membership of the table, and an
insertion of a context with something behind it sets `tangled`: its bucket then
leads to a context that may be freed, or runs in a circle.  What the process does
with such a bucket is left open: it dies, or nothing more is said (`Tangled`).

A worker process that dies comes back with its configuration alone
(`Respawn`).  Two of its deaths are in the code: see section 4.

### 2.5 MediaTask: `TM` and its workers

| Model | Code |
|---|---|
| `threadMtx`, `taskMtx`, `workMtx` | owners of `task_thread_mtx`, `task_mtx` and each `work_mtx` |
| `pc[Loop]`, `pc[w]` | where the event loop is; where the thread of transfer `w` is |
| `status`, `kernel`, `mss` | `worker->status`, the run behind `run_handle`, the states of an MSS worker |
| `timer`, `polled`, `rearm` | the polling timer of a worker; the one being served |
| `todo`, `news` | in the watcher: triggers still to fire, the status to report |
| `StartTask` ... `MastersStarted`, `StartReport` | `ngx_media_task_start_task` |
| `FindTask`, `LockTask`, `TriggerStarts/Fails/Skips`, `ThreadReports`, `LoopReports` | `ngx_media_task_worker_watcher` and `ngx_media_task_start_worker`, one step per mutex |
| `FileDone`, `TransferDone`, `ThreadLeaves` | `ngx_media_worker_transfer_thread` |
| `MkTimer`, `MssTimer...`, `StatusCallFails` | the polling timers |
| `StopRequest` ... `StopDone` | `ngx_media_task_stop_task` |
| `TaskTimer`, `CheckWorkers` ... `DestroyTask` | `ngx_media_task_check_task`, the restart of long runs, the destruction |

The media kernel is a library that is not in the repository: a run moves from
`init` to `running` and stops or breaks at any time (`KernelRuns`,
`KernelEnds`).  What a request asks for is a *plan*: the kind of each worker,
the masters, and the triggers.  The parser accepts any combination (`master`
defaults to 1, TM:1626, and a trigger may name any worker), and so does
`PlansAssumption`: workers that are masters and triggered too, as in
`build/message/v1.2/download_cut.xml`, workers with several sources, workers
that trigger themselves.

Two things the code does with some of these plans lie outside a step-by-step
account, and are actions of their own:

- `TimersBreak`: a worker whose timer is armed is started again, which zeroes
  that timer (`ngx_media_worker_mediakernel.c:161`), or a transfer's thread arms
  a timer while the event loop may be using the others.  Either may leave the
  tree of timers broken: `task` becomes `crashed`, and nothing is said of the
  process from then on.
- `Hangs`: a thread waits for a mutex that `stop_task` has kept.

## 3. The runs

A run is checked with `tlc -config <cfg> <module>`.  Every bound is a CONSTANT.
Each property has a mutant in `PROJECT.json`: a slip of the code in one mapped
definition, under which the same run finds the property violated.

| Run | What it asks | Distinct states |
|---|---|---|
| `buffer_cache_layout` | One worker stores, fetches and leaks buffers of four sizes until the cyclic area wraps and the entries meet the buffers | 476 k |
| `buffer_cache_sharing` | Two workers with lagging clocks hold buffers while entries expire and are evicted | 1.89 M |
| `buffer_cache_crash` | A worker is killed at any step, without expiration | 265 k |
| `buffer_cache_torn` | The same, with expiration: section 4 | violated |
| `out_queue_shared` | Two sessions share chains; connections accept, delay or refuse at any step; sessions are finalised, closed, replaced | 1.15 M |
| `out_queue_ring` | One session, larger ring, priorities, cork, messages of two buffers | 95 k |
| `out_queue_double_free` | The data handler alone: section 4 | violated |
| `live_rtmp` | Three RTMP sessions, two names, two structs | 85 k |
| `live_http` | RTMP and HTTP-FLV sessions on one stream, every configuration, with fairness | 57 k |
| `live_stale` | Two names and an HTTP player: section 4 | violated |
| `media_task` | One task of three workers under nine plans | 1.60 M |
| `relay` | Four sessions, two names, two targets, eight configurations | 1.64 M |

### 3.1 VOD buffer cache

(`CrashConsistent` and `NoDataRace` belong to two runs each, every other
property to one.)

- `CrashConsistent`: whenever another worker can take the mutex and `reset` is
  clear, the two queues split the entries between them, the tree holds the used
  ones and no key occurs twice.  Fetch, release and store all rely on it.
- `NoOverlap`: the entries array never meets the buffers, and the buffers of
  used entries lie in the area and are disjoint, for every wrap.
- `StoreEntryFirst`: the entry a store takes without unlinking it stays the head
  of the free queue although the store evicts others into that queue.
- `NoDataRace`, `HeldEntryStable`: what a worker copies or reads without the
  mutex is not written by another, and the entry stays the one it took.
- `RefCoversHolders`: leaked references leave counts too high, never too low.
- `MutexReleased`: the unbounded loop of `get_free_buffer` ends.

*Bounds.*  The layout run uses an area of 16 bytes, entries of 2, buffers of
1 to 8 bytes with the terminating zero and alignment 2: room for at most a few
entries, so growth of the array, eviction for an entry, eviction for a buffer,
refusal and wrap-around all happen (TLC's coverage shows each action taken).
The sharing run needs time rather than space: entries expire after 3, the locks
last 3, clocks lag up to 1 (so that a lock is longer than twice the lag), and
time runs to 4, so that an entry can expire while it is held and its protection
can end after it was released.  `MaxRef`
bounds leaked references: with 2 an entry can be held and leaked.

*The clock assumption.*  A holder is protected for `ENTRY_LOCK_EXPIRATION`
after the access time, which the holder and the evicting worker each read from
a clock cached at the start of their iteration of the event loop.  The
protection is sound only while an iteration (`MaxLag`) is shorter than half the
lock.  The code's lock is 5 s (`ngx_buffer_cache_internal.h:11-12`), and an
iteration that takes longer breaks it by design.  `Tick` states the assumption:
a worker inside a call is never left behind by more than `MaxLag`.  `LiveView`
hides the fields of entries that nothing refers to.

*Fairness.*  `FairSpec` has weak fairness of the steps of the worker that holds
the mutex: between lock and unlock the code is straight line, without I/O.
Nothing is assumed of callers: they may hold or leak a buffer for ever.

### 3.2 Output queue

- `ChainsAccounted`: a chain's count is the number of ring slots and handlers
  that own it, and exactly the chains nobody owns are on the free list, once.
- `RingIsFifo`: the refinement of `MessageFifo` described in 2.2.
- `NoLostWakeup`: a session with messages is being written, or waits for its
  connection with a timeout, or is held back by the cork, or is about to be
  closed.
- `ClosePostedOnce`: whoever finalises a session, and however often, its close
  event is posted exactly once until its close handler runs.

*Bounds.*  Rings of 3 and 4 slots are the smallest that wrap with messages
before and behind the wrap, and that have different limits for each priority.
Two sessions and four chains are enough for a chain to be in both rings, in a
ring and in the handler, and free.  Contents are two values, so a chain that is
overwritten shows.  `LiveView` hides the contents of free chains and of slots
outside the rings, which are written before anything reads them, from the
comparison of states.  Chains and sessions are symmetric:
no definition orders them.  No liveness is stated: progress depends on the
peer, and `NoLostWakeup` is the safe form of the promise the code can keep.

### 3.3 Live streams

- `StreamsAccounted`: every struct is in the table under its own name or on the
  free list, once, and no free struct has members.
- `MembersOpen`: a list holds exactly the contexts of open sessions that point
  to its stream, so `ngx_rtmp_live_av` never meets freed memory.
- `IdleTimerSound`: the idle timer, which lies in memory freed with the session,
  is set for active publishers only.
- `HttpFollows`: an HTTP player in a list is switched with the stream, and its
  `s->publisher` is the session that publishes now.
- `OrphansFinalized`: without `idle_streams` no player outlives its publisher.
- `ChannelsKept`: the refinement of `LiveChannels`.
- `StreamReclaimed`, `FinalizedIsClosed`: a stream that nobody publishes is
  freed or published again, and every finalised session is closed.

*Bounds.*  Three RTMP sessions are two players and a publisher, or two
publishers that race for a name and a player between them; two names and two
structs let a struct be recycled under another name while the other is in use.
`live_http` has two RTMP sessions, one HTTP session, one name and one struct, in
the four configurations of `idle_streams` and relay pulls, with
`drop_idle_publisher` set (without it no timer is ever set).  It has one name
because with a second the stale pointer of section 4 would break the other
properties; with a second struct and one name they hold as well.

*Fairness.*  Weak fairness of `EndRecv`: `ngx_rtmp_recv` returns when the socket
has no more data.  Strong fairness of `Close`: it is disabled while a session's
input is read, and each iteration of the event loop runs all posted events
before it waits again, so a posted event that can run again and again does run.
Peers are never assumed to send, to hang up or to keep quiet.
Deadlock is checked in the `Live`, `OutQueue` and `MediaTask` runs; the cache runs
have bounds on time and kills, and `Relay` has one stream per
connection, at which the model, not the code, stops.

### 3.4 Transcoding tasks

- `LockOrder`: a thread waits only for a thread that needs a deeper mutex or
  none, although `stop_task` keeps the mutexes of workers that are over
  (TM:1888).  The event loop, which owns them, is refused and passes on; a
  transfer's thread comes to want one only by a trigger that was *overtaken*:
  its worker can be started in another way too, and is over.  That thread hangs
  with the mutexes of the list and of the task, and the event loop with it.  The
  property excuses the wait of an overtaken trigger and no other.
- `StartsOnce`: no transfer is started twice, by whichever masters, sources and
  threads; nor is any other worker that is `Orderly`: it has one way to be
  started, as a master, by a transfer, or by the end of a worker for which the
  same holds.  A media kernel leaves its status unchanged when it starts, so the
  status alone does not protect it: it matters that a trigger is fired once.
  What is not orderly may start twice; section 4.1 describes it.
- `DestroyedQuietly`: a task that ends without a broken worker leaves no thread
  that would use its pool, and no timer but that of a worker that was started
  twice.
- `EndIsTrue`: a task reported as ended has only workers that ended.
- `EndIsFinal`: a worker with triggers that was started once never leaves `end`,
  although `start_task` writes the status of its masters without their mutex.
- `NobodyForgotten`: a worker that is a master or has a source, and is not over,
  has a thread, a timer or a source that will bring it on; `lost` collects the
  exceptions, which are failures that the code drops (section 4.1) and which
  the property therefore does not catch.

*Bounds.*  Three workers are a chain of two triggers, two sources of one worker,
or a source that triggers at its start and at its end.  Three plans are those of
sample requests (`download_cut.xml`, `download_cut_upload_aliyun_oss.xml`, the
recording and joining of `mss-record_jion`).  The others are two recordings that
start one upload, a transfer and a media kernel that start one media kernel, a
transfer that triggers a master, triggers at the start and at the end, masters
without triggers, and no master.  Every worker may fail to start, break, or have a
failing status call; stop requests and restarts come at any time and any number
of times.  Nothing else needs a bound: the state is finite.

### 3.5 Relay

- `PointersSound`: the table, the lists and the back pointers agree and hold no
  freed session, whoever leaves first, and each bucket leads through just its
  own contexts, in one order.  The exception is stated, and is what the code
  does: once a context is inserted with an old `ctx->next` (`tangled`), nothing
  is said of the buckets.  That needs auto_push, and no `session_relay`: the
  property also says that nothing else gets there.
- `OnePublisher`: a name leads to one publisher.
- `TimersSound`: a timer of a context is armed only while its session exists.
- `NoIdleRelay`: an open push has its publisher, an open pull a player.
- `PushesComplete`, `SlotsExact`: each configured push of a client's stream, and
  each slot of another worker, has exactly one session or a timer that will try.
- `StaticFollowed`: a static pull has its timer or one session.
- `PublisherUndisturbed`: no relay's end finalises a client's publication.

*Bounds.*  Four sessions are a publisher, its pushes to two targets and a second
client; or two clients that play, and the pull.  Each of the eight configurations
has the directives of one situation: two pushes of which one is for one name, a
push beside a pull, two pulls, a push beside another worker, a static pull
beside another worker, the pushes of two streams whose contexts share a bucket
(`OneBucket`, which reaches `tangled`) or do not (`TwoBuckets`), and
`session_relay`.  `clients` bounds the clients at a time, to three beside a pull
and to two where two streams meet another worker.  A client relays one stream
per connection (`Fresh`).  Connections fail in any combination.  Sessions are symmetric.

## 4. Disagreements between the code and what it says of itself

Each is a run that TLC must find violated, in a run of its own so that the other
properties are checked on what remains.

1. **Eviction before the flag** (`buffer_cache_torn`).  `store_gather` evicts
   expired entries (BC:441-451) before it sets `reset`, although the comment at
   BC:462 says the flag is set before any change.  A worker killed inside that
   eviction leaves an entry out of the tree but in the used queue, or in
   neither queue, with the flag clear.  `CrashConsistency` (section 5) shows
   that this window is the only one.
2. **Data messages released twice** (`out_queue_double_free`).  In
   `ngx_rtmp_live_data`, `data` and `rpkt` name the same chain, and LV:1304-1310
   release both, so a chain still in a ring goes to the free list.  In the same
   function the headers are prepared once per receiver on the shared message
   (LV:1291); that is listed as a hazard, since headers are contents here.
3. **A stale pointer deletes another stream** (`live_stale`).  When a publisher
   leaves, the HTTP players are taken off the list but keep `ctx->stream`
   (FL:1367-1371); their close events run later.  If the struct is free by then
   and the name exists again in another struct, `ngx_rtmp_live_close_stream`
   unlinks that other stream *by name* (LV:735), with its members, and frees the
   stale struct a second time.  It takes several commands between two posted
   events: they can come in one batch of events, or in posted reads.

A fourth disagreement is recorded as a hazard only, because which side is meant
is open: the comment at FL:1400 says that HTTP requests alone are closed there,
but FL:1373 finalises every RTMP member of the stream too, also with
`idle_streams on`, where `ngx_rtmp_live_close_stream` would spare them.  `Live`
models what the code does.

### 4.1 What the models of relay and tasks show beside their properties

No document or comment says otherwise, so these are no runs of their own; the
models contain them and the properties are stated around them.

- *A first push that fails ends the worker process.*  `ngx_rtmp_relay_publish`
  reads its context before `ngx_rtmp_relay_push` makes it, and arms the timer of
  that context, NULL, when the push fails (RL:721): `PublishCrashes`.
- *A pull that is pushed on has a timer without handler* (RL:1499; RL:577
  sets the handler in contexts of local sessions only): when its push ends, the
  event fires into NULL: `PushReconnectCrashes`.
- *A second publisher of a name* joins the list of the first with its pushes and
  loses them with it; such names are in `crowded` until all their sessions are
  gone, and excluded from `PushesComplete` and `SlotsExact`.
- *auto_push does not hear of `closeStream`*: its timer pushes a stream that was
  closed (AP:568) until the stream is deleted.
- *A context that is inserted again keeps its `ctx->next`.*  That timer may insert
  a publisher's context a second time (AP:428, RL:632-641).  The pointer still
  names whoever stood behind it the first time: a context that is freed by now,
  or one that now stands before it, so that the bucket becomes a circle.  The
  model has the step (`AutoReconnect` after `CloseStream`) and marks it
  (`tangled`); `PointersSound` excuses it and says that nothing else does it.
- *A connection that relays a second stream* would bring the pointer along in the
  same way.  `Fresh` keeps a connection to one stream, so this second way to the
  same fault is not in the model.
- *An unpublished static pull* is finalised with its only auto push (RL:1514),
  and tried again.
- *A master that is triggered too may be started twice.*  In
  `build/message/v1.2/download_cut.xml` workers 1 and 2 are masters and triggered
  by worker 0.  All three are started (TM:1815); a media kernel keeps the status
  `init` until a poll finds it started (`ngx_media_worker_mediakernel.c:59`), so worker 0 may
  report its end first, and TM:1986-1988 starts the others again and zeroes
  their armed timers: `TriggerStarts` with `runs` 2, or `TimersBreak`.  The same
  goes for a media kernel with two sources.  `Orderly` leaves these workers out of
  `StartsOnce`, and the timer that a second start leaves behind is the exception
  in `DestroyedQuietly`.
- *A trigger that is overtaken hangs.*  A transfer may trigger a worker that
  was started otherwise and is over when a stop request comes; the request keeps
  that worker's mutex (TM:1888), the thread waits for it holding the list's and
  the task's, and the event loop waits for the thread the next time it needs
  either: `Hangs`.
- *A transfer's trigger arms a timer on its own thread* if it starts a media
  kernel or MSS worker, while the event loop may use the same tree: `TimersBreak`.
- *A broken media kernel worker is polled again* after it has reported the break
  (`ngx_media_worker_mediakernel.c:78`); the timer outlives the pool when the
  task is destroyed.  `DestroyedQuietly` speaks of tasks without a broken worker.
- *A failed status call* (`ngx_media_worker_mediakernel.c:49`), a *trigger whose
  start fails*, and an *end overwritten by `start`*
  (`ngx_media_worker_transfer.c:1307`) leave a worker of which nothing is heard:
  its task never ends.  They are recorded in `lost`, which `NobodyForgotten` excuses.
- *A worker that nothing starts*, neither a master nor anybody's target, is
  accepted and keeps its task from ending.  So does one that waits for the start
  of a media kernel, which may pass between two polls, or of an MSS worker,
  which never reports it (`Starters`).
- *A worker that is over keeps its mutex* after a stop request, so the task's
  timer does not see it any more: a task with a broken worker may be reported
  as ended (`EndIsTrue` names the case).

## 5. The proofs

Each proof module extends its component and TLAPS, uses no assumption but those
the component states of its constants (`ConstantsAssumption` in `BufferCache`,
`OutQueue` and `Live`) and, where it says so, a hypothesis of the theorem, and
leaves no step unproved.

### 5.1 BufferCacheProofs

`TypeCorrect` (`Spec => []TypeOK`) and `StoreEntryStaysFirst`
(`Spec => []StoreEntryFirst`) follow from one inductive invariant:

    TypeInv == TypeOK /\ MutexOK /\ PointersOK

None of the three conjuncts is inductive alone.  The entry a store links comes
from `Head(freeQueue)`, which is an entry only if the queue is not empty
(`PointersOK`); that stays so only if no other worker is between lock and unlock
(`MutexOK`).  `PointersOK` says for each program point what the locals of the
store point to; the delicate point is `free_oldest_entry`, which appends to the
free queue while the caller relies on its head.

`CrashConsistency` has the hypothesis `Expiration = 0 \/ MaxKills = 0`, the
complement of disagreement 1: under it, `Spec => []CrashConsistent` for any
number of workers, keys and bytes.  Its invariant `StructInv` adds to `TypeInv`
what the structures are at each program point of the mutex holder (`OwnerOK`):
the queues are always a partition, since each step that moves an entry moves it
from one to the other at once; the tree lacks at most one entry of the used
queue (`MissingOf`); the key being stored is in no used entry; and from the
first change to the commit the flag is set.  The steps of a worker without the
mutex touch neither queues nor keys (`SameQueues`).

### 5.2 BufferCacheLayoutProofs

`LayoutSound` is `Spec => []NoOverlap`, for every size of the zone, of entries
and of buffers, every alignment and every number of wraps, under the hypothesis
of `CrashConsistency`.  That buffers are pairwise disjoint is not inductive: a
new buffer is known to be disjoint from the others only because of where the
two pointers stand.  `LayoutInv` adds the cyclic order of the area:

- `Placed(e)`: a used buffer lies in one of the two parts that are in use, below
  `buffers_read` (`Low`) or at or above `buffers_write` (`High`); before the
  write position has wrapped around these are the same part;
- `Ordered`: the used queue descends through the area, from the oldest buffer at
  `buffers_read` to the youngest at `buffers_write`, with at most one wrap in
  between (`Follows`);
- `OwnerArea(w)`: what the holder of the mutex may rely on at each point: the
  tentative address of a new buffer is below the write position and, in the
  gap, above the read position; the victim of an eviction precedes everything
  left in the queue.

The steps that move a pointer have a lemma each (`ReadMoved`,
`FreePointersArea`, `AllocBufferArea`, `WrapWriteArea`, `InitEntryArea`,
`LinkQueueArea`); all others leave the area alone (`SameArea`).

### 5.3 BufferCacheSharingProofs

`ReferencesCovered`, `HeldEntriesStable` and `DataRaceFree` are about the time a
worker copies or reads without the mutex.  They need the hypothesis above and

    2 * MaxLag < EntryLockExp     2 * MaxLag < CacheLockExp

an iteration of the event loop shorter than half of either lock, which is the
clock assumption of section 3.1 in numbers.  Both bounds are tight: with
equality in the first TLC finds each of the three violated in the sharing run,
and with equality in the second when a worker may be killed (and nothing
expires), since only a store that was cut off leaves the reset to another.  `SharingInv` says:

- `Held(w)`: the entry of a user is linked, is the one it took, and its access
  time and the cache's are at most one iteration older than the user's call;
- `WriterAlone`: a worker that copies into a buffer is the only user of its entry;
- `RefsOK`: the count of an entry is at least the number of its users;
- `Storing(w)`: nobody uses the entry being freed or the entry being filled.

The heart is `VictimUnused`: the holder's clock and the evicting worker's clock each
lag at most `MaxLag` behind the real time, so an entry that looks unlocked to the
one is not in use by the other.  The same argument protects the cache from a
reset.  A release drops its reference by key; that it finds the entry
that was fetched follows from the uniqueness of keys in `StructInv`.

### 5.4 OutQueueProofs

`CloseEventOnce` (`Spec => []ClosePostedOnce`): `LifeInv` adds to the property
that only open sessions are handled and that nothing runs beside the close
handler.  Every action either connects, begins or ends a close, or at most
finalises one session; `FinalizeLife` covers finalising wherever it happens,
`KeepsLife` the rest.

`NoMessageForgotten` (`Spec => []NoLostWakeup`): `WakeInv` adds `RingType` and
`WakeOK(s)` for each session.  The strengthening is about a session that is *not*
being written: either its write event and timer are both set, or it is not
watched, nothing of a message is half written, and the ring is empty or under
the cork.  `RingPositions` and `RingGrows` do the modular arithmetic of the ring
once, for any size; the latter shows why one slot must stay free.

### 5.5 OutQueueChainsProofs

`TypeCorrect`, `ChainsAlwaysAccounted` and `RingsAreFifo` hold for any number of
sessions and chains and any size of ring, under the hypothesis
`"data" \notin Kinds`: with the handler of disagreement 2 they are false.  All
three need one invariant, `ChainInv`, on top of `WakeInv`:

- `CountOK`: the count of a chain is the number of ring slots and handlers that own
  it (`Owners`), which gives the type of `ref`: no count wraps around;
- `FreeOK`: the free list holds the chains with count 0, once each;
- `FilledOK`: the slots between `out_pos` and `out_last` hold chains;
- `CursorOK(s)`: `ngx_rtmp_send` has a link of a message only while there is a
  message, and a session that does not exist has an empty ring.

Counting is over pairs of session and slot (`Held`): an accepted message adds
one pair (`RingAdd`), a written or discarded one removes one (`RingRemove`).

`RingsAreFifo` is the refinement of `MessageFifo`.  `Enqueue` is `Accept`, the last link
of a message and each message freed by a closing session are `Deliver`, and all
other steps stutter.  The step to look at is `BuildPacket`: it
writes contents into a chain, and by `CountOK` and `FreeOK` the chain it takes
from the free list is in no ring.

### 5.6 LiveProofs

Every safety property of the two passing `Live` runs is a theorem, for any number
of sessions, names and structs and any set of configurations, under the
hypothesis

    Http = {} \/ OneName

no HTTP players, or a single name of streams.  These are the two passing runs;
with an HTTP player and two names the properties are false (disagreement 3).
`LiveInv` is the conjunction of the six invariants and

- `StatusOK`: the flag of a stream is that of its publisher, so that the switch of
  one is the switch of the other;
- `HttpOK`: an HTTP player that its publisher dropped from the list keeps a pointer
  to the struct.  It is harmless while that struct is the only one that the name
  can lead to (`OnlyStream`): it is in the table, or the table is empty and
  the struct is the head of the free list, from where the next stream takes it;
- `ReaderOK`: the session whose input is read is open.

None of the six is inductive alone; for instance `MembersOpen` of a leaving
publisher needs `StreamsAccounted`, and freeing the struct needs both.

The proof has two halves.  The first computes what the functions on a `World`
do, each as a predicate on the records before and after (`StatusSet`, `HasLeft`,
`HttpDropped`, `Unlinked`, `Freed`, `Joins`), and composes them to what a close
leaves behind (`Closed`).  The second says that every action is one of five
kinds of step (`EveryStep`): the streams stay as they are (`Quiet`), a session
is switched with its players (`Switched`), a session leaves (`Departed`), a session
enters (`Entered`), a name gets a struct (`Found`).  Each kind preserves `LiveInv`
once, so that no action needs an invariance proof of its own.

`StreamsAreChannels` is the refinement of `LiveChannels`: a channel is its publisher,
its subscribers and its flag, read through the table; of the five kinds of
step, `Quiet` and `Found` change no channel, and the three others are the switch, the
unsubscribing or unpublishing, and the subscribing or publishing of one session.
A struct that is recycled changes no channel because it has no member when
it is freed and none when it is found.

### 5.7 RelayProofs

Every property of the `relay` run is a theorem, for any number of sessions,
names and targets and any set of configurations in which a target has one kind
of relay (`ConfigsAssumption`) and a static pull has one name
(`StaticsAssumption`, from the parser of the directive).  The argument has
layers, each proved with those before as context:

| Theorem | Property | Invariant |
|---|---|---|
| `TypeCorrect`, `OnePublisherAlways`, `TimersAlwaysSound` | `TypeOK`, `OnePublisher`, `TimersSound` | `IInv`: the three together, `ListsSound`, and `ContextsOK`, what a free session's fields are and that a session in the table has a name |
| `PointersAlwaysSound` | `PointersSound` | `IInv` and `BucketInv` |
| `NoRelayStaysBehind` | `NoIdleRelay` | `IInv` and the property: a list that becomes empty finalises its relay in the same step |
| `StaticAlwaysFollowed` | `StaticFollowed` | `IInv` and `StaticOne`, the property without cardinalities |
| `ClientsPublishUndisturbed` | `PublisherUndisturbed` | `IInv` |
| `PushesAlwaysComplete`, `SlotsAlwaysExact` | `PushesComplete`, `SlotsExact` | `FollowInv` |

`BucketInv` says of the buckets what `ListsSound` says of the lists.  An insertion
appends to a bucket and a departure unlinks from it (`AppendOrdered`,
`LeaveBuckets`); that this keeps the order needs that the new context leads to
no other, unless it is of auto_push.  Hence `LeftoverOK`: a context outside the table that still leads
on belongs to a stream that has ended, and with `session_relay`, where
`closeStream` leaves the table alone, its auto_push timer is gone too.

`FollowInv` is about the names that are not `crowded`: one session only can be
the publisher of such a name, now or later (`OneSource`); a context outside the
table has no list (`Empty`); a list has the publisher's name and each target
once (`ListOK`); and then each target is in the list or the timer is armed
(`PushesOK`, `SlotsOK`).  `OneSource` is what fails for crowded names, and
it is why `crowded` is kept until every session of the name is gone: the
properties would be false for a name whose first publisher has just left.

### 5.8 MediaTaskProofs

Every property of the `media_task` run is a theorem, for any number of workers
and any set of plans: any masters, sources and triggers, as the parser accepts
them.  What does not hold for every plan is said in the properties
(`Orderly`, `Overtaken`, `Starters`), not assumed.  They follow from one
inductive invariant, `IInv`, whose conjuncts are of four sorts:

- what a place in the code tells: nothing has happened before the task exists
  (`PristineOK`), the owner of the list's and of the task's mutex is the thread
  at certain points (`MutexesOK`), which thread holds triggers (`ThreadsOK`),
  what the event loop keeps while it serves a timer (`LoopOK`), which masters
  have been started (`MastersOK`);
- what the status of a worker tells of its thread and timer (`WorkersOK`): a
  running thread has not written "end", a worker whose mutex `stop_task` kept is
  over, and an orderly worker has run at most once;
- what triggers are left (`SourcesOK`): a trigger that is still pending finds
  its worker as it was created, and one that is not has been fired, has failed
  or has met a worker that is over.  The first half needs that the worker has
  one way to be started and that its source fires once (`Only`), the second
  holds of all;
- what the task's timer saw stays so (`CheckOK`): the status of the task is read
  from its workers in one walk and acted on later, without the mutexes.

`StepCases` puts aside the steps that touch neither a worker nor a trigger
(`Aside`), so that the long conjuncts treat only the rest.  `NoDeadlock`
(`LockOrder`) is the delicate consequence: a thread that wants a worker's mutex
while the event loop holds it would need that worker to be over, and
`SourcesOK` says that the worker of a pending trigger is not, if nothing else
can start it.

## 6. What is only model-checked, and what is not modelled

Every safety property and both refinements that a passing run checks are
theorems now, under the hypotheses that section 5 names.  Only model-checked are

- the liveness properties `MutexReleased`, `StreamReclaimed` and
  `FinalizedIsClosed`: fairness, and with it ENABLED, is outside what the prover
  handles;
- what the hypotheses exclude: the three disagreements of section 4, which are
  counterexamples.

Abstracted inside the modelled parts: the hash of the cache's tree (a set of
entries), contents of buffers and messages, statistics counters, logging; the
handshake and the chunk parser; timestamps, dropped-frame counters and codec
headers of the live module; notification URLs, for which a player would wait
before it joins; pushes and pulls that a notification adds to the configured
ones; the contents of the commands a relay exchanges; the XML of a task's
request, static tasks and what a worker does with its files; memory that nginx
itself manages.  Allocation failures are
modelled where they change control (`BuildFails` for messages, `CanGet` for
streams).

Not modelled: the components marked so in 1.2, for the reasons given in
`PROJECT.json` under `components`.

## 7. The plan

`BufferCache`, `OutQueue`, `Live`, `Relay` and `MediaTask` are done as described
above.  What is left, in the order of what is likely to go wrong:

1. **`GopCache`** with the codec context: groups of frames, headers and
   metadata copied by pointer (`ngx_rtmp_gop_cache_module.c:295`), allocation
   failing in the middle of a group (`:348`).  It composes with the chains of
   `OutQueue`.
2. **Timestamps and dropped frames** of the players (LV:791, LV:1113, LV:1299).
3. **`Netcall`** and notify: a call detached from its session, answers after the
   session has ended.
4. The VOD request flow with the asynchronous open; the recorder, exec and the
   connection limit under killed workers; the fragment windows of HLS and DASH.
5. The RTMP proxy and the ZeroMQ pool.

Each keeps the shape of the present ones: parameters as CONSTANTS with a named
assumption, one action per operation, invariants as conjunctions of named
parts, no RECURSIVE operator in a module with proofs.

Proofs to add: none of the safety properties that the passing runs check is left.
What would say more are stronger properties, stated and checked before they are
proved: for `BufferCache`, that a fetched buffer is the one last stored under its
key; for `Live`, that a frame reaches a member at most once; and the properties
of the modules above as they come.
