----------------------------- MODULE MediaTask -----------------------------
(***************************************************************************)
(* One transcoding task (ngx_media_task_module.c) and its workers: media   *)
(* kernel, MSS and transfer workers (ngx_media_worker_*.c).  The event     *)
(* loop starts, polls, stops and destroys; every transfer worker runs on a *)
(* detached thread of its own, which starts other workers by triggers.     *)
(* They share three levels of mutexes: that of the list of tasks, that of  *)
(* the task and those of its workers.                                      *)
(*                                                                         *)
(* nginx creates mutexes that check errors: a thread that locks one it     *)
(* already holds is refused and passes over the block.                     *)
(*                                                                         *)
(* Threads stop at the points where they wait for a mutex or touch a field *)
(* without one.  What a mutex of a worker guards is done in one step, and  *)
(* so are the walks over the workers that only read, or that hold the two  *)
(* outer mutexes.  Once the task is destroyed its memory is gone and the   *)
(* model stops; DestroyedQuietly says who would still have used it.        *)
(***************************************************************************)
EXTENDS Integers, Sequences, Functions

CONSTANTS
  N,        \* workers of the task, in the order of its list
  Plans,    \* what the request may ask for
  Restart   \* is task_mk_restart configured?

Workers == 1 .. N
Loop == 0
Nobody == -1
Threads == {Loop} \cup Workers

Kinds == {"mk", "mss", "transfer"}

\* The elements worker and trigger of a request: the kind of each worker,
\* those with master="1", and whom a worker starts when it starts or stops.
PlanType == [kind : [Workers -> Kinds], master : SUBSET Workers,
             atStart : [Workers -> Seq(Workers)],
             atEnd : [Workers -> Seq(Workers)]]

TargetsIn(p, w) == Range(p.atStart[w]) \cup Range(p.atEnd[w])
SourcesIn(p, w) == {s \in Workers : w \in TargetsIn(p, s)}

ASSUME NAssumption == N \in Nat \ {0}
ASSUME RestartAssumption == Restart \in BOOLEAN
ASSUME PlansAssumption == Plans \subseteq PlanType

VARIABLES
  plan,        \* the plan of the task
  task,        \* "none", "listed" in task_head, "destroyed" or "crashed"
  taskStatus,  \* task->status
  taskTimer,   \* task->time_event is armed
  threadMtx,   \* owner of video_task_ctx.task_thread_mtx
  taskMtx,     \* owner of task->task_mtx
  workMtx,     \* owner of each worker->work_mtx
  status,      \* worker->status
  kernel,      \* what run_handle runs, "none" for NULL
  mss,         \* ngx_worker_mss_ctx_t.status
  timer,       \* the worker's polling timer is armed
  pc,          \* where each thread is
  todo,        \* triggers the watcher has yet to fire
  news,        \* the status the watcher reports
  polled,      \* the worker whose timer the event loop serves
  rearm,       \* will that timer be armed again?
  at,          \* the event loop's place in the list of workers
  runs,        \* history: successful calls of start_worker
  lost         \* history: workers of which nothing will be heard

mutexes == <<threadMtx, taskMtx, workMtx>>
worker == <<status, kernel, mss, timer>>
control == <<pc, todo, news, polled, rearm, at>>
history == <<runs, lost>>
vars == <<plan, task, taskStatus, taskTimer, mutexes, worker, control, history>>

Over == {"break", "end"}
Statuses == {"init", "start", "running"} \cup Over
KernelStates == {"none", "idle", "init", "start", "running", "stop", "error"}
MssStates == {"init", "req", "mkrun", "break", "end"}

Kind(w) == plan.kind[w]
Targets(w) == TargetsIn(plan, w)

LoopSteps == {"idle", "masters", "spawned", "startReport", "check", "report",
              "again", "restart", "stop", "stopTask", "stopWork",
              "destroy", "destroyTask"}
TriggerSteps == {"watch", "found", "target"}
ThreadSteps == {"none", "work", "leave", "done"}

Init ==
  /\ plan \in Plans
  /\ task = "none" /\ taskStatus = "init" /\ taskTimer = FALSE
  /\ threadMtx = Nobody /\ taskMtx = Nobody
  /\ workMtx = [w \in Workers |-> Nobody]
  /\ status = [w \in Workers |-> "init"]
  /\ kernel = [w \in Workers |-> IF Kind(w) = "mk" THEN "idle" ELSE "none"]
  /\ mss = [w \in Workers |-> "init"]
  /\ timer = [w \in Workers |-> FALSE]
  /\ pc = [u \in Threads |-> IF u = Loop THEN "idle" ELSE "none"]
  /\ todo = [u \in Threads |-> <<>>]
  /\ news = [u \in Threads |-> "init"]
  /\ polled = 1 /\ rearm = FALSE /\ at = 1
  /\ runs = [w \in Workers |-> 0]
  /\ lost = {}

Goto(u, step) == pc' = [pc EXCEPT ![u] = step]
LoopAt(step) == pc[Loop] = step

-----------------------------------------------------------------------------
(* Starting a worker: worker->start_worker.                                *)

\* mk_run_task, or the first timer of an MSS worker, or pthread_create.
Starts(w) ==
  /\ runs' = [runs EXCEPT ![w] = @ + 1]
  /\ kernel' = IF Kind(w) = "mk" THEN [kernel EXCEPT ![w] = "init"] ELSE kernel
  /\ mss' = IF Kind(w) = "mss" THEN [mss EXCEPT ![w] = "init"] ELSE mss
  /\ timer' = IF Kind(w) = "transfer" THEN timer ELSE [timer EXCEPT ![w] = TRUE]

\* mk_run_task failed and the handle is gone, or there is no thread.
StartFails(w) ==
  /\ Kind(w) # "mss"
  /\ kernel' = IF Kind(w) = "mk" THEN [kernel EXCEPT ![w] = "none"] ELSE kernel
  /\ UNCHANGED <<mss, timer, runs>>

\* The thread of a transfer begins in the watcher.  Thread u goes on at step.
Spawns(w, u, step) ==
  LET new == Kind(w) = "transfer" IN
  /\ pc' = IF new THEN [pc EXCEPT ![u] = step, ![w] = "watch"]
                  ELSE [pc EXCEPT ![u] = step]
  /\ news' = IF new THEN [news EXCEPT ![w] = "start"] ELSE news

-----------------------------------------------------------------------------
(* ngx_media_task_start_task.  No thread of the task exists before the     *)
(* masters start, so nothing contends for the mutexes until then.          *)

AllBreak == [w \in Workers |-> "break"]

\* The request cannot be turned into workers: the task is left to its timer.
StartTaskFails ==
  /\ LoopAt("idle") /\ task = "none"
  /\ task' = "listed" /\ taskTimer' = TRUE
  /\ status' = AllBreak /\ taskStatus' = "break"
  /\ UNCHANGED <<plan, mutexes, kernel, mss, timer, control, history>>

\* Mutant: the list of workers is walked without the task's mutex.
StartTask_Unlocked ==
  /\ LoopAt("idle") /\ task = "none"
  /\ task' = "listed" /\ taskTimer' = TRUE
  /\ Goto(Loop, "masters") /\ at' = 1
  /\ UNCHANGED <<plan, taskStatus, mutexes, worker, todo, news, polled, rearm,
                 history>>

StartTask ==
  /\ LoopAt("idle") /\ task = "none"
  /\ task' = "listed" /\ taskTimer' = TRUE
  /\ taskMtx' = Loop
  /\ Goto(Loop, "masters") /\ at' = 1
  /\ UNCHANGED <<plan, taskStatus, threadMtx, workMtx, worker, todo, news,
                 polled, rearm, history>>

StartMaster ==
  /\ LoopAt("masters") /\ at \in plan.master
  /\ Starts(at)
  /\ todo' = IF Kind(at) = "transfer" THEN [todo EXCEPT ![at] = plan.atStart[at]]
                                      ELSE todo
  /\ Spawns(at, Loop, IF Kind(at) = "transfer" THEN "spawned" ELSE "masters")
  /\ at' = IF Kind(at) = "transfer" THEN at ELSE at + 1
  /\ UNCHANGED <<plan, task, taskStatus, taskTimer, mutexes, status, polled,
                 rearm, lost>>

StartMasterFails ==
  /\ LoopAt("masters") /\ at \in plan.master
  /\ StartFails(at)
  /\ status' = [status EXCEPT ![at] = "break"]
  /\ at' = at + 1
  /\ UNCHANGED <<plan, task, taskStatus, taskTimer, mutexes, pc, todo, news,
                 polled, rearm, lost>>

\* ngx_media_worker_transfer_start writes the status after pthread_create,
\* here without the worker's mutex: the thread may already have written "end".
WriteStart ==
  /\ LoopAt("spawned")
  /\ status' = [status EXCEPT ![at] = "start"]
  /\ lost' = IF status[at] = "end" THEN lost \cup {at} ELSE lost
  /\ Goto(Loop, "masters") /\ at' = at + 1
  /\ UNCHANGED <<plan, task, taskStatus, taskTimer, mutexes, kernel, mss, timer,
                 todo, news, polled, rearm, runs>>

SkipWorker ==
  /\ LoopAt("masters") /\ at \in Workers \ plan.master
  /\ at' = at + 1
  /\ UNCHANGED <<plan, task, taskStatus, taskTimer, mutexes, worker, pc, todo,
                 news, polled, rearm, history>>

MastersStarted ==
  /\ LoopAt("masters") /\ at = N + 1
  /\ taskMtx' = Nobody /\ at' = 1
  /\ IF plan.master = {}
     THEN /\ status' = AllBreak /\ taskStatus' = "break"
          /\ Goto(Loop, "idle")
     ELSE /\ taskStatus' = "start"
          /\ Goto(Loop, "startReport")
          /\ UNCHANGED status
  /\ UNCHANGED <<plan, task, taskTimer, threadMtx, workMtx, kernel, mss, timer,
                 todo, news, polled, rearm, history>>

StartReport ==
  /\ LoopAt("startReport") /\ taskMtx = Nobody
  /\ Goto(Loop, "idle")
  /\ UNCHANGED <<plan, task, taskStatus, taskTimer, mutexes, worker, todo, news,
                 polled, rearm, at, history>>

-----------------------------------------------------------------------------
(* ngx_media_task_worker_watcher: fire the triggers, then set the status.  *)

Watched(u) == IF u = Loop THEN polled ELSE u

\* Triggers of worker w for a status.
Triggers(w, st) == CASE st = "start" -> plan.atStart[w]
                     [] st = "end" -> plan.atEnd[w]
                     [] OTHER -> <<>>

FindTask(u) ==
  /\ pc[u] = "watch" /\ todo[u] # <<>>
  /\ threadMtx = Nobody /\ threadMtx' = u
  /\ Goto(u, "found")
  /\ UNCHANGED <<plan, task, taskStatus, taskTimer, taskMtx, workMtx, worker,
                 todo, news, polled, rearm, at, history>>

LockTask(u) ==
  /\ pc[u] = "found"
  /\ taskMtx = Nobody /\ taskMtx' = u
  /\ Goto(u, "target")
  /\ UNCHANGED <<plan, task, taskStatus, taskTimer, threadMtx, workMtx, worker,
                 todo, news, polled, rearm, at, history>>

\* The end of ngx_media_task_start_worker: all three mutexes are let go.
TriggerDone(u) ==
  /\ threadMtx' = Nobody /\ taskMtx' = Nobody
  /\ UNCHANGED <<plan, task, taskStatus, taskTimer, workMtx, polled, rearm, at>>

\* Mutant: the status of the worker is not looked at.
TriggerStarts_AnyStatus(u) ==
  LET w == Head(todo[u]) IN
  /\ pc[u] = "target" /\ workMtx[w] = Nobody
  /\ Starts(w)
  /\ Spawns(w, u, "watch")
  /\ todo' = IF Kind(w) = "transfer"
             THEN [todo EXCEPT ![u] = Tail(@), ![w] = plan.atStart[w]]
             ELSE [todo EXCEPT ![u] = Tail(@)]
  /\ status' = IF Kind(w) = "transfer" THEN [status EXCEPT ![w] = "start"]
                                       ELSE status
  /\ TriggerDone(u)
  /\ UNCHANGED lost

TriggerStarts(u) ==
  LET w == Head(todo[u]) IN
  /\ pc[u] = "target" /\ workMtx[w] = Nobody /\ status[w] = "init"
  /\ Starts(w)
  /\ Spawns(w, u, "watch")
  /\ todo' = IF Kind(w) = "transfer"
             THEN [todo EXCEPT ![u] = Tail(@), ![w] = plan.atStart[w]]
             ELSE [todo EXCEPT ![u] = Tail(@)]
  /\ status' = IF Kind(w) = "transfer" THEN [status EXCEPT ![w] = "start"]
                                       ELSE status
  /\ TriggerDone(u)
  /\ UNCHANGED lost

\* The failure is logged and forgotten.
TriggerFails(u) ==
  LET w == Head(todo[u]) IN
  /\ pc[u] = "target" /\ workMtx[w] = Nobody /\ status[w] = "init"
  /\ StartFails(w)
  /\ lost' = lost \cup {w}
  /\ todo' = [todo EXCEPT ![u] = Tail(@)]
  /\ Goto(u, "watch")
  /\ TriggerDone(u)
  /\ UNCHANGED <<status, news>>

\* The timers of the event loop are no longer sound: a worker that was started
\* before has its timer zeroed while it is armed, and a thread arms a timer while
\* the event loop may use the others.  Nothing is said of the process after that.
TimersBreak(u) ==
  LET w == Head(todo[u]) IN
  /\ pc[u] = "target" /\ workMtx[w] = Nobody /\ status[w] = "init"
  /\ Kind(w) # "transfer"
  /\ timer[w] \/ u # Loop
  /\ task' = "crashed"
  /\ UNCHANGED <<plan, taskStatus, taskTimer, mutexes, worker, control, history>>

\* The worker has started before, or the thread holds its mutex already.
TriggerSkips(u) ==
  LET w == Head(todo[u]) IN
  /\ pc[u] = "target"
  /\ workMtx[w] = u \/ (workMtx[w] = Nobody /\ status[w] # "init")
  /\ todo' = [todo EXCEPT ![u] = Tail(@)]
  /\ Goto(u, "watch")
  /\ TriggerDone(u)
  /\ UNCHANGED <<worker, news, history>>

\* The status is written unless the thread holds the mutex already.
WrittenStatus(u) ==
  IF workMtx[Watched(u)] = u THEN status
                             ELSE [status EXCEPT ![Watched(u)] = news[u]]

ThreadReports(u) ==
  /\ u # Loop /\ pc[u] = "watch" /\ todo[u] = <<>>
  /\ workMtx[u] \in {Nobody, u}
  /\ status' = WrittenStatus(u)
  /\ Goto(u, IF news[u] = "end" THEN "leave" ELSE "work")
  /\ UNCHANGED <<plan, task, taskStatus, taskTimer, mutexes, kernel, mss, timer,
                 todo, news, polled, rearm, at, history>>

\* The end of a polling timer's handler.  What the event loop kept of it is
\* cleared, and so is its place in the list after a walk.
LoopReports ==
  /\ LoopAt("watch") /\ todo[Loop] = <<>>
  /\ workMtx[polled] \in {Nobody, Loop}
  /\ status' = WrittenStatus(Loop)
  /\ timer' = IF rearm THEN [timer EXCEPT ![polled] = TRUE] ELSE timer
  /\ Goto(Loop, "idle")
  /\ news' = [news EXCEPT ![Loop] = "init"] /\ polled' = 1 /\ rearm' = FALSE
  /\ UNCHANGED <<plan, task, taskStatus, taskTimer, mutexes, kernel, mss,
                 todo, at, history>>

-----------------------------------------------------------------------------
(* ngx_media_worker_transfer_thread.                                       *)

\* A file is done.
FileDone(u) ==
  /\ pc[u] = "work"
  /\ Goto(u, "watch") /\ news' = [news EXCEPT ![u] = "running"]
  /\ UNCHANGED <<plan, task, taskStatus, taskTimer, mutexes, worker, todo,
                 polled, rearm, at, history>>

TransferDone(u) ==
  /\ pc[u] = "work"
  /\ Goto(u, "watch") /\ news' = [news EXCEPT ![u] = "end"]
  /\ todo' = [todo EXCEPT ![u] = plan.atEnd[u]]
  /\ UNCHANGED <<plan, task, taskStatus, taskTimer, mutexes, worker,
                 polled, rearm, at, history>>

\* The last line of the log, through a pointer in the task's pool.
ThreadLeaves(u) ==
  /\ pc[u] = "leave"
  /\ Goto(u, "done")
  /\ UNCHANGED <<plan, task, taskStatus, taskTimer, mutexes, worker, todo, news,
                 polled, rearm, at, history>>

-----------------------------------------------------------------------------
(* The media kernel, a library, and the timers that poll it.               *)

Busy == {"init", "start", "running"}

Kernel(w, k) ==
  /\ kernel[w] \in Busy /\ kernel' = [kernel EXCEPT ![w] = k]
  /\ UNCHANGED <<plan, task, taskStatus, taskTimer, mutexes, status, mss, timer,
                 control, history>>

KernelRuns(w) == \/ kernel[w] = "init" /\ Kernel(w, "start")
                 \/ kernel[w] = "start" /\ Kernel(w, "running")
KernelEnds(w) == Kernel(w, "stop") \/ Kernel(w, "error")

\* The event loop enters the watcher for worker w.
Poll(w, st, again) ==
  /\ timer' = [timer EXCEPT ![w] = FALSE]
  /\ polled' = w /\ rearm' = again
  /\ Goto(Loop, "watch")
  /\ news' = [news EXCEPT ![Loop] = st]
  /\ todo' = [todo EXCEPT ![Loop] = Triggers(w, st)]
  /\ UNCHANGED <<plan, task, taskStatus, taskTimer, mutexes, status, at, runs>>

Fires(w, kind) == LoopAt("idle") /\ timer[w] /\ Kind(w) = kind

\* Mutant: the state of the run is reported as it is.
MkStatus_Raw(k) == k

\* What the media kernel worker makes of the state of its run.
MkStatus(k) == CASE k = "stop" -> "end"
                 [] k \in Busy -> k
                 [] OTHER -> "break"

\* Mutant: only a run that is under way is polled again.
MkTimer_OnceOnly(w) ==
  /\ Fires(w, "mk")
  /\ Poll(w, MkStatus(kernel[w]), kernel[w] = "running")
  /\ UNCHANGED <<kernel, mss, lost>>

\* ngx_media_worker_mk_timer: also a broken run is polled again.
MkTimer(w) ==
  /\ Fires(w, "mk")
  /\ Poll(w, MkStatus(kernel[w]), kernel[w] # "stop")
  /\ UNCHANGED <<kernel, mss, lost>>

\* mk_get_task_status failed: the handler returns, and is not called again.
StatusCallFails(w) ==
  /\ Fires(w, "mk") \/ (Fires(w, "mss") /\ mss[w] = "mkrun")
  /\ timer' = [timer EXCEPT ![w] = FALSE]
  /\ lost' = lost \cup {w}
  /\ UNCHANGED <<plan, task, taskStatus, taskTimer, mutexes, status, kernel, mss,
                 control, runs>>

\* ngx_media_worker_mss_timer, one action per state of the worker.
MssTimerInit(w) ==
  /\ Fires(w, "mss") /\ mss[w] = "init"
  /\ mss' = [mss EXCEPT ![w] = "req"]
  /\ Poll(w, "init", TRUE)
  /\ UNCHANGED <<kernel, lost>>

\* The request for the URL is synchronous; its answer starts a media kernel.
MssTimerRequest(w) ==
  /\ Fires(w, "mss") /\ mss[w] = "req"
  /\ \/ /\ mss' = [mss EXCEPT ![w] = "mkrun"]
        /\ kernel' = [kernel EXCEPT ![w] = "init"]
        /\ Poll(w, "running", TRUE)
     \/ /\ mss' = [mss EXCEPT ![w] = "break"]
        /\ Poll(w, "break", FALSE)
        /\ UNCHANGED kernel
  /\ UNCHANGED lost

MssTimerRun(w) ==
  /\ Fires(w, "mss") /\ mss[w] = "mkrun"
  /\ \/ /\ kernel[w] \in Busy
        /\ Poll(w, "running", TRUE)
        /\ UNCHANGED mss
     \/ /\ kernel[w] \notin Busy
        /\ mss' = [mss EXCEPT ![w] = MkStatus(kernel[w])]
        /\ Poll(w, MkStatus(kernel[w]), FALSE)
  /\ UNCHANGED <<kernel, lost>>

MssTimerEnd(w) ==
  /\ Fires(w, "mss") /\ mss[w] = "end"
  /\ Poll(w, "end", FALSE)
  /\ UNCHANGED <<kernel, mss, lost>>

-----------------------------------------------------------------------------
(* ngx_media_task_stop_task, by request or by task_mk_restart.             *)

StopRequest ==
  /\ LoopAt("idle") /\ task = "listed"
  /\ Goto(Loop, "stop")
  /\ UNCHANGED <<plan, task, taskStatus, taskTimer, mutexes, worker, todo, news,
                 polled, rearm, at, history>>

StopFindsTask ==
  /\ LoopAt("stop")
  /\ threadMtx = Nobody /\ threadMtx' = Loop
  /\ Goto(Loop, "stopTask")
  /\ UNCHANGED <<plan, task, taskStatus, taskTimer, taskMtx, workMtx, worker,
                 todo, news, polled, rearm, at, history>>

StopLocksTask ==
  /\ LoopAt("stopTask")
  /\ taskMtx = Nobody /\ taskMtx' = Loop
  /\ Goto(Loop, "stopWork") /\ at' = 1
  /\ UNCHANGED <<plan, task, taskStatus, taskTimer, threadMtx, workMtx, worker,
                 todo, news, polled, rearm, history>>

\* Mutant: every worker keeps its mutex.
StopWorker_KeepsMutex ==
  /\ LoopAt("stopWork") /\ at \in Workers
  /\ workMtx[at] \in {Nobody, Loop}
  /\ workMtx' = [workMtx EXCEPT ![at] = Loop]
  /\ at' = at + 1
  /\ UNCHANGED <<plan, task, taskStatus, taskTimer, threadMtx, taskMtx, worker,
                 pc, todo, news, polled, rearm, history>>

\* A worker that is over keeps its mutex: the loop goes on with continue.  The
\* stop_worker of a transfer clears a flag that nobody reads, that of a media
\* kernel asks the run to stop, which it may do at any time.
StopWorker ==
  /\ LoopAt("stopWork") /\ at \in Workers
  /\ workMtx[at] \in {Nobody, Loop}
  /\ workMtx' = IF status[at] \in Over THEN [workMtx EXCEPT ![at] = Loop]
                                       ELSE workMtx
  /\ mss' = IF Kind(at) = "mss" /\ workMtx[at] = Nobody /\ status[at] \notin Over
            THEN [mss EXCEPT ![at] = "end"] ELSE mss
  /\ at' = at + 1
  /\ UNCHANGED <<plan, task, taskStatus, taskTimer, threadMtx, taskMtx, status,
                 kernel, timer, pc, todo, news, polled, rearm, history>>

StopDone ==
  /\ LoopAt("stopWork") /\ at = N + 1
  /\ threadMtx' = Nobody /\ taskMtx' = Nobody
  /\ Goto(Loop, "idle") /\ at' = 1
  /\ UNCHANGED <<plan, task, taskStatus, taskTimer, workMtx, worker, todo, news,
                 polled, rearm, history>>

-----------------------------------------------------------------------------
(* ngx_media_task_check_task, the timer of the task.                       *)

TaskTimer ==
  /\ LoopAt("idle") /\ taskTimer
  /\ taskTimer' = FALSE
  /\ Goto(Loop, "check")
  /\ UNCHANGED <<plan, task, taskStatus, mutexes, worker, todo, news, polled,
                 rearm, at, history>>

\* Workers whose mutex ngx_media_task_check_workers can lock.
Seen == {w \in Workers : workMtx[w] # Loop}

\* Mutants: only a worker that reports its run counts as running, and the first
\* worker that ended ends the task.
CheckedStatus_Reported ==
  IF \E w \in Seen : status[w] = "break" THEN "break"
  ELSE IF \E w \in Seen : status[w] \in {"start", "running"} THEN "running" ELSE "end"

CheckedStatus_AnyEnd ==
  IF \E w \in Seen : status[w] = "break" THEN "break"
  ELSE IF \A w \in Seen : status[w] # "end" THEN "running" ELSE "end"

CheckedStatus ==
  IF \E w \in Seen : status[w] = "break" THEN "break"
  ELSE IF \E w \in Seen : status[w] # "end" THEN "running" ELSE "end"

\* A running task is reported once in a while.
CheckWorkers ==
  /\ LoopAt("check") /\ taskMtx = Nobody
  /\ taskStatus' = CheckedStatus
  /\ \/ Goto(Loop, "report")
     \/ CheckedStatus = "running" /\ Goto(Loop, "again")
  /\ UNCHANGED <<plan, task, taskTimer, mutexes, worker, todo, news, polled,
                 rearm, at, history>>

Report ==
  /\ LoopAt("report") /\ taskMtx = Nobody
  /\ Goto(Loop, IF taskStatus \in Over THEN "destroy" ELSE "again")
  /\ UNCHANGED <<plan, task, taskStatus, taskTimer, mutexes, worker, todo, news,
                 polled, rearm, at, history>>

TaskTimerAgain ==
  /\ LoopAt("again")
  /\ taskTimer' = TRUE
  /\ \/ Goto(Loop, "idle")
     \/ Restart /\ Goto(Loop, "restart")
  /\ UNCHANGED <<plan, task, taskStatus, mutexes, worker, todo, news, polled,
                 rearm, at, history>>

\* A task of a media kernel that runs for too long is stopped.
RestartStops ==
  /\ LoopAt("restart") /\ taskMtx = Nobody
  /\ Goto(Loop, IF \E w \in Seen : Kind(w) # "transfer" THEN "stop" ELSE "idle")
  /\ UNCHANGED <<plan, task, taskStatus, taskTimer, mutexes, worker, todo, news,
                 polled, rearm, at, history>>

DestroyLocksList ==
  /\ LoopAt("destroy")
  /\ threadMtx = Nobody /\ threadMtx' = Loop
  /\ Goto(Loop, "destroyTask")
  /\ UNCHANGED <<plan, task, taskStatus, taskTimer, taskMtx, workMtx, worker,
                 todo, news, polled, rearm, at, history>>

\* Workers whose mutex can be locked are released; then the pool goes, whatever
\* threads and timers still point into it.
DestroyTask ==
  /\ LoopAt("destroyTask") /\ taskMtx = Nobody
  /\ kernel' = [w \in Workers |-> IF w \in Seen THEN "none" ELSE kernel[w]]
  /\ task' = "destroyed"
  /\ threadMtx' = Nobody
  /\ Goto(Loop, "idle")
  /\ UNCHANGED <<plan, taskStatus, taskTimer, taskMtx, workMtx, status, mss,
                 timer, todo, news, polled, rearm, at, history>>

Gone == task \in {"destroyed", "crashed"} /\ UNCHANGED vars

\* A thread that waits for a mutex stop_task has kept waits for good.
Hangs(u) == /\ pc[u] = "target" /\ workMtx[Head(todo[u])] \notin {Nobody, u}
            /\ UNCHANGED vars

-----------------------------------------------------------------------------
StartStep == \/ StartMaster \/ StartMasterFails \/ WriteStart \/ SkipWorker
             \/ MastersStarted \/ StartReport
StopStep == StopFindsTask \/ StopLocksTask \/ StopWorker \/ StopDone
CheckStep == \/ CheckWorkers \/ Report \/ TaskTimerAgain \/ RestartStops
             \/ DestroyLocksList \/ DestroyTask
TriggerStep(u) == \/ FindTask(u) \/ LockTask(u) \/ TriggerStarts(u)
                  \/ TriggerFails(u) \/ TriggerSkips(u)
                  \/ TimersBreak(u) \/ Hangs(u)
ThreadStep(u) == \/ ThreadReports(u) \/ FileDone(u) \/ TransferDone(u)
                 \/ ThreadLeaves(u)
MssTimer(w) == \/ MssTimerInit(w) \/ MssTimerRequest(w) \/ MssTimerRun(w)
               \/ MssTimerEnd(w)
PollStep(w) == MkTimer(w) \/ StatusCallFails(w) \/ MssTimer(w)

Next ==
  \/ StartTask \/ StartTaskFails
  \/ /\ task = "listed"
     /\ \/ StartStep \/ StopRequest \/ StopStep \/ TaskTimer \/ CheckStep
        \/ LoopReports
        \/ \E u \in Threads : TriggerStep(u)
        \/ \E w \in Workers : ThreadStep(w) \/ KernelRuns(w)
                            \/ KernelEnds(w) \/ PollStep(w)
  \/ Gone

Spec == Init /\ [][Next]_vars

-----------------------------------------------------------------------------
(* Properties.                                                             *)

\* The variables hold values of their types.
TypeOK ==
  /\ plan \in Plans
  /\ task \in {"none", "listed", "destroyed", "crashed"}
  /\ taskStatus \in Statuses /\ taskTimer \in BOOLEAN
  /\ threadMtx \in Threads \cup {Nobody} /\ taskMtx \in Threads \cup {Nobody}
  /\ workMtx \in [Workers -> {Nobody, Loop}]
  /\ status \in [Workers -> Statuses]
  /\ kernel \in [Workers -> KernelStates] /\ mss \in [Workers -> MssStates]
  /\ timer \in [Workers -> BOOLEAN]
  /\ pc \in [Threads -> LoopSteps \cup TriggerSteps \cup ThreadSteps]
  /\ todo \in [Threads -> Seq(Workers)] /\ news \in [Threads -> Statuses]
  /\ polled \in Workers /\ rearm \in BOOLEAN /\ at \in 1 .. N + 1
  /\ runs \in [Workers -> Nat] /\ lost \subseteq Workers

\* The mutex a thread takes next: 1 of the list, 2 of the task, 3 of a worker,
\* 4 if it waits for none.
Level(u) ==
  CASE pc[u] = "watch" /\ todo[u] # <<>> -> 1
    [] pc[u] \in {"stop", "destroy"} -> 1
    [] pc[u] \in {"found", "stopTask", "destroyTask", "check", "report",
                  "startReport", "restart"} -> 2
    [] pc[u] \in {"target", "stopWork"} \/ (pc[u] = "watch" /\ todo[u] = <<>>) -> 3
    [] OTHER -> 4

\* The worker whose mutex it takes at level 3.
Wanted(u) == CASE pc[u] = "target" -> Head(todo[u])
               [] pc[u] = "stopWork" -> at
               [] OTHER -> Watched(u)

\* Thread u waits for thread v.
WaitsFor(u, v) ==
  /\ u # v
  /\ \/ Level(u) = 1 /\ threadMtx = v
     \/ Level(u) = 2 /\ taskMtx = v
     \/ Level(u) = 3 /\ Wanted(u) \in Workers /\ workMtx[Wanted(u)] = v

\* Worker w has one way to be started: it is a master, or has one trigger.
OneStart(w) ==
  /\ w \in plan.master => SourcesIn(plan, w) = {}
  /\ \A r, s \in SourcesIn(plan, w) : r = s
  /\ \A s \in Workers :
       LET q == plan.atStart[s] \o plan.atEnd[s]
       IN \A i, j \in DOMAIN q : q[i] = w /\ q[j] = w => i = j

\* A trigger for a worker that can be started in another way too may find that
\* the worker is over and that a stop request has kept its mutex.
Overtaken(u) == pc[u] = "target" /\ ~OneStart(Head(todo[u]))

\* A thread waits only for threads that themselves need a deeper mutex, or none:
\* no cycle, and no mutex that stop_task has kept.  Both nested locks of the
\* triggers and the continue in stop_task are about this.  A transfer whose
\* trigger is overtaken is the exception: it hangs with both outer mutexes.
LockOrder ==
  task = "listed" =>
    \A u, v \in Threads : WaitsFor(u, v) => Level(v) > Level(u) \/ Overtaken(u)

\* Workers of W that are no transfers have one way to be started: as a master, by
\* a transfer, or by the end of another worker of W.
StartedOnce(W) ==
  \A w \in W : Kind(w) # "transfer" =>
    /\ OneStart(w)
    /\ \A s \in SourcesIn(plan, w) :
         Kind(s) = "transfer" \/ (s \in W /\ w \notin Range(plan.atStart[s]))

Orderly == UNION {W \in SUBSET Workers : StartedOnce(W)}

\* No transfer is started twice, whatever triggers it and whenever, and no other
\* worker that has one way to be started: status is read under the worker's
\* mutex, but a media kernel leaves it unchanged when it starts.
StartsOnce == \A w \in Orderly : runs[w] <= 1

\* A task that comes to its end without a broken worker leaves no timer and no
\* thread behind that would use its pool; of a thread only its last log line, and
\* the timers of workers that were started twice.
DestroyedQuietly ==
  task = "destroyed" /\ (\A w \in Workers : status[w] # "break") =>
    \A w \in Workers : /\ pc[w] \in {"none", "leave", "done"}
                       /\ timer[w] => runs[w] > 1

\* A task reported as ended has only workers that ended; a broken one can be
\* missed if a stop request took its mutex before the task was checked.
EndIsTrue ==
  task = "destroyed" /\ taskStatus = "end" =>
    \A w \in Workers :
      \/ status[w] = "end"
      \/ status[w] = "break" /\ workMtx[w] = Loop

\* The end of a worker is final, if it was started once, although start_task writes
\* the status of its masters without their mutex: a thread with a trigger to fire
\* must wait.
EndIsFinal ==
  [][\A w \in Workers : Targets(w) # {} /\ runs[w] <= 1 /\ status[w] = "end"
                        => status'[w] = "end"]_vars

\* The thread of a transfer that has not reported its end.
Alive(w) == pc[w] \in TriggerSteps \cup {"work"}

\* The event loop is about to report of worker w, for good or to poll it again.
Served(w) == /\ pc[Loop] \in TriggerSteps /\ polled = w
             /\ rearm \/ news[Loop] \in Over

\* The sources whose triggers of worker w fire before they have ended.  The start
\* of a media kernel may pass between two polls, an MSS worker never reports it.
Starters(w) == {s \in Workers : \/ w \in Range(plan.atEnd[s])
                                \/ Kind(s) = "transfer" /\ w \in Range(plan.atStart[s])}

\* Worker w has yet to be started by a source that has yet to end.
Awaited(w) == runs[w] = 0 /\ \E s \in Starters(w) : status[s] # "end"

\* A worker that is not over is never left alone: its thread runs, its timer is
\* armed or being served, or its source has yet to end, so that the task can be
\* seen to end one day.  The exceptions are a worker that nothing starts, and the
\* failures the code drops: a triggered start or a status call that failed, and
\* an end written over.
NobodyForgotten ==
  task = "listed" /\ pc[Loop] \notin {"masters", "spawned"} =>
    \A w \in Workers : w \in plan.master \/ Starters(w) # {} =>
      \/ status[w] \in Over \/ w \in lost
      \/ Alive(w) \/ timer[w] \/ Served(w) \/ Awaited(w)

=============================================================================
