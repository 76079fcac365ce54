-------------------------- MODULE MediaTaskProofs --------------------------
(* Theorems about a task, for every number of workers and every plan.       *)
EXTENDS MediaTask, TLAPS

USE DEF mutexes, worker, control, history

-----------------------------------------------------------------------------
(* The inductive invariant.                                                *)

Transfer(w) == Kind(w) = "transfer"

\* The event loop is in the watcher for worker w.
Polled(w) == pc[Loop] \in TriggerSteps /\ polled = w

\* Nothing has happened before the task is created.
PristineOK ==
  task = "none" =>
    /\ pc[Loop] = "idle"
    /\ \A w \in Workers : pc[w] = "none" /\ runs[w] = 0 /\ status[w] = "init"

\* Who holds a mutex can be read off where the threads are.
MutexesOK ==
  \A u \in Threads :
    /\ threadMtx = u <=> pc[u] \in {"found", "target", "stopTask", "stopWork", "destroyTask"}
    /\ taskMtx = u <=> pc[u] \in {"target", "stopWork", "masters", "spawned"}

\* The thread of a transfer, and the triggers it holds.
ThreadOK(w) ==
  /\ pc[w] \in ThreadSteps \cup TriggerSteps
  /\ pc[w] = "none" <=> runs[w] = 0 \/ ~Transfer(w)
  /\ pc[w] = "work" => todo[w] = <<>> /\ news[w] # "end"
  /\ pc[w] \in {"leave", "done"} => todo[w] = <<>> /\ news[w] = "end"
  /\ Alive(w) => news[w] \in {"start", "running", "end"}
  /\ pc[w] \in {"found", "target"} => todo[w] # <<>>

ThreadsOK ==
  /\ pc[Loop] \in LoopSteps \cup TriggerSteps
  /\ pc[Loop] \in {"found", "target"} => todo[Loop] # <<>>
  /\ \A w \in Workers : ThreadOK(w)

\* What the event loop keeps while it serves a timer.
LoopOK ==
  pc[Loop] \in TriggerSteps =>
    /\ ~Transfer(polled) /\ runs[polled] # 0
    /\ runs[polled] = 1 => ~timer[polled]
    /\ rearm => news[Loop] # "end"
    /\ ~rearm => news[Loop] \in Over

\* The masters of the task are being started.
Starting == pc[Loop] \in {"masters", "spawned"}

\* While the masters start, those from at on are as they were.
MastersOK ==
  /\ Starting =>
       /\ \A w \in Workers : workMtx[w] = Nobody
       /\ \A w \in Workers :
            w \notin plan.master \/ w > at \/ (w = at /\ LoopAt("masters"))
              => runs[w] = 0 /\ status[w] = "init"
       /\ \A w \in plan.master : w < at /\ runs[w] = 0 => status[w] = "break"
  /\ LoopAt("spawned") => at \in plan.master /\ Transfer(at) /\ runs[at] = 1
  /\ ~Starting /\ task # "none" =>
       \A w \in plan.master : runs[w] = 0 => status[w] = "break"
  /\ plan.master = {} => \A w \in Workers : runs[w] = 0
  /\ plan.master = {} /\ ~Starting /\ task # "none" => \A w \in Workers : status[w] = "break"

\* What the status of a worker says of its thread and its timer.
WorkerOK(w) ==
  /\ Transfer(w) \/ w \in Orderly => runs[w] \in {0, 1}
  /\ runs[w] = 0 => ~timer[w] /\ status[w] \in {"init", "break"}
  /\ timer[w] => ~Transfer(w)
  /\ Alive(w) => status[w] \notin Over
  /\ workMtx[w] = Loop => status[w] \in Over
  /\ Transfer(w) /\ status[w] = "init" => runs[w] = 0 \/ (LoopAt("spawned") /\ at = w)
  /\ ~Transfer(w) /\ runs[w] = 1 /\ status[w] = "end" => ~timer[w] /\ ~Polled(w)
  /\ Transfer(w) /\ runs[w] = 1 => Alive(w) \/ status[w] = "end" \/ w \in lost
  /\ ~Transfer(w) /\ runs[w] # 0 =>
       timer[w] \/ Served(w) \/ status[w] \in Over \/ w \in lost

WorkersOK == \A w \in Workers : WorkerOK(w)

\* The triggers that source s may still fire, if it is started once.
Pending(s) ==
  IF runs[s] = 0 THEN IF status[s] = "init" THEN Targets(s) ELSE {}
  ELSE IF Transfer(s)
  THEN IF ~Alive(s) THEN {}
       ELSE Range(todo[s]) \cup (IF news[s] = "end" THEN {} ELSE Range(plan.atEnd[s]))
  ELSE IF timer[s] \/ (Polled(s) /\ rearm) THEN Targets(s)
  ELSE IF Polled(s) THEN Range(todo[Loop]) ELSE {}

\* Worker w has one trigger, and source s fires it once.
Only(s, w) ==
  /\ w \in Targets(s) /\ OneStart(w)
  /\ Transfer(s) \/ (s \in Orderly /\ w \notin Range(plan.atStart[s]))

\* Nothing more is to be done to start worker w.
Settled(w) == runs[w] # 0 \/ w \in lost \/ status[w] \in Over

\* Worker w is not in the sequence q twice.
Single(q, w) == \A i, j \in DOMAIN q : q[i] = w /\ q[j] = w => i = j

\* A thread or the event loop holds triggers of worker s.
HeldOK(s, held) == /\ Range(held) \subseteq Targets(s)
                   /\ \A w \in Workers : OneStart(w) => Single(held, w)

\* The triggers a thread or the event loop holds are those of its worker.
HoldsOK(s) ==
  /\ Alive(s) => HeldOK(s, todo[s])
  /\ Polled(s) => HeldOK(s, todo[Loop])
  /\ Alive(s) /\ news[s] # "end" =>
       \A w \in Range(todo[s]) \cap Range(plan.atEnd[s]) : ~OneStart(w)
  /\ Polled(s) /\ news[Loop] # "end" => Range(todo[Loop]) \subseteq Range(plan.atStart[s])

\* A worker with one trigger is as it was created while that is pending.
PendingOK(s) == \A w \in Pending(s) : Only(s, w) => runs[w] = 0 /\ status[w] = "init"

\* All workers of q were started, or need not be, but for those yet to come.
AllSettled(q, held) == \A w \in Range(q) : w \in Range(held) \/ Settled(w)

\* What source s has fired has done its work.
FiredOK(s) ==
  /\ Transfer(s) /\ runs[s] # 0 =>
       /\ AllSettled(plan.atStart[s], todo[s])
       /\ news[s] = "end" => AllSettled(plan.atEnd[s], todo[s])
  /\ Polled(s) /\ news[Loop] = "end" => AllSettled(plan.atEnd[s], todo[Loop])
  /\ ~Transfer(s) /\ status[s] = "end" => AllSettled(plan.atEnd[s], <<>>)

SourcesOK ==
  /\ \A s \in Workers : HoldsOK(s) /\ PendingOK(s) /\ FiredOK(s)
  /\ \A m \in Workers : LoopAt("spawned") /\ at = m => Pending(m) = Targets(m)

\* What the task's timer saw of the workers remains true.
CheckOK ==
  pc[Loop] \in {"report", "destroy", "destroyTask"} \/ task = "destroyed" =>
    /\ taskStatus = "end" =>
         \A w \in Workers : status[w] = "end" \/ (status[w] = "break" /\ workMtx[w] = Loop)
    /\ taskStatus = "break" => \E w \in Workers : status[w] = "break"
    /\ pc[Loop] # "report" \/ task = "destroyed" => taskStatus \in Over

IInv ==
  /\ TypeOK /\ PristineOK /\ MutexesOK /\ ThreadsOK /\ LoopOK
  /\ MastersOK /\ WorkersOK /\ SourcesOK /\ CheckOK

-----------------------------------------------------------------------------
(* Facts about plans and sequences of triggers.                            *)

LEMMA NothingHeld == Range(<<>>) = {} /\ \A w : Single(<<>>, w)
BY DEF Range, Single

LEMMA FirstTrigger ==
  ASSUME NEW S, NEW q \in Seq(S), q # <<>>
  PROVE  /\ Head(q) \in S /\ Head(q) \in Range(q) /\ Tail(q) \in Seq(S)
         /\ Range(Tail(q)) \subseteq Range(q) /\ Range(q) \subseteq Range(Tail(q)) \cup {Head(q)}
         /\ \A w : Single(q, w) => Single(Tail(q), w)
         /\ Single(q, Head(q)) => Head(q) \notin Range(Tail(q))
<1>1. /\ Tail(q) \in Seq(S) /\ Head(q) = q[1] /\ Len(q) \in Nat \ {0}
      /\ DOMAIN q = 1 .. Len(q) /\ DOMAIN Tail(q) = 1 .. Len(q) - 1
      /\ \A i \in 1 .. Len(q) - 1 : Tail(q)[i] = q[i + 1]
  OBVIOUS
<1>2. Head(q) \in S /\ Head(q) \in Range(q)
  BY <1>1 DEF Range
<1>3. \A i \in 1 .. Len(q) - 1 : i + 1 \in 1 .. Len(q) /\ i + 1 # 1
  BY <1>1
<1>4. Range(Tail(q)) \subseteq Range(q)
  BY <1>1, <1>3 DEF Range
<1>5. ASSUME NEW x \in Range(q), x # Head(q) PROVE x \in Range(Tail(q))
  <2>1. PICK i \in 1 .. Len(q) : x = q[i]
    BY <1>1, <1>5 DEF Range
  <2>2. i - 1 \in 1 .. Len(q) - 1 /\ Tail(q)[i - 1] = x
    BY <1>1, <1>5, <2>1
  <2> QED
    BY <1>1, <2>2 DEF Range
<1>6. ASSUME NEW w, Single(q, w) PROVE Single(Tail(q), w)
  <2> SUFFICES ASSUME NEW i \in 1 .. Len(q) - 1, NEW j \in 1 .. Len(q) - 1,
                      Tail(q)[i] = w, Tail(q)[j] = w
               PROVE  i = j
    BY <1>1 DEF Single
  <2>1. q[i + 1] = w /\ q[j + 1] = w
    BY <1>1
  <2>2. i + 1 = j + 1
    BY <1>1, <1>3, <1>6, <2>1 DEF Single
  <2> QED
    BY <1>1, <2>2
<1>7. ASSUME Single(q, Head(q)) PROVE Head(q) \notin Range(Tail(q))
  <2> SUFFICES ASSUME NEW i \in 1 .. Len(q) - 1, Tail(q)[i] = Head(q) PROVE FALSE
    BY <1>1 DEF Range
  <2> QED
    BY <1>1, <1>3, <1>7 DEF Single
<1> QED
  BY <1>1, <1>2, <1>4, <1>5, <1>6, <1>7

LEMMA PartsOfSingle ==
  ASSUME NEW S, NEW p \in Seq(S), NEW q \in Seq(S), NEW w, Single(p \o q, w)
  PROVE  Single(p, w) /\ Single(q, w) /\ ~(w \in Range(p) /\ w \in Range(q))
<1> DEFINE r == p \o q
<1>1. /\ Len(p) \in Nat /\ Len(q) \in Nat
      /\ DOMAIN p = 1 .. Len(p) /\ DOMAIN q = 1 .. Len(q)
      /\ DOMAIN r = 1 .. Len(p) + Len(q)
      /\ \A i \in 1 .. Len(p) : r[i] = p[i]
      /\ \A i \in 1 .. Len(q) : r[i + Len(p)] = q[i]
  OBVIOUS
<1>2. \A i, j \in DOMAIN r : r[i] = w /\ r[j] = w => i = j
  BY DEF Single
<1> HIDE DEF r
<1>3. Single(p, w)
  BY <1>1, <1>2 DEF Single
<1>4. Single(q, w)
  <2> SUFFICES ASSUME NEW i \in 1 .. Len(q), NEW j \in 1 .. Len(q), q[i] = w, q[j] = w
               PROVE  i = j
    BY <1>1 DEF Single
  <2>1. i + Len(p) \in DOMAIN r /\ j + Len(p) \in DOMAIN r
    BY <1>1
  <2> QED
    BY <1>1, <1>2, <2>1
<1>5. ASSUME NEW i \in 1 .. Len(p), NEW j \in 1 .. Len(q), p[i] = w, q[j] = w PROVE FALSE
  <2>1. i \in DOMAIN r /\ j + Len(p) \in DOMAIN r /\ i # j + Len(p)
    BY <1>1
  <2> QED
    BY <1>1, <1>2, <1>5, <2>1
<1>6. ~(w \in Range(p) /\ w \in Range(q))
  BY <1>1, <1>5 DEF Range
<1> QED
  BY <1>3, <1>4, <1>6

\* The plan of the task.
LEMMA PlanOK ==
  ASSUME TypeOK, NEW s \in Workers
  PROVE  /\ Kind(s) \in Kinds /\ plan.master \subseteq Workers
         /\ plan.atStart[s] \in Seq(Workers) /\ plan.atEnd[s] \in Seq(Workers)
         /\ Targets(s) = Range(plan.atStart[s]) \cup Range(plan.atEnd[s])
         /\ Targets(s) \subseteq Workers
         /\ \A st : /\ Triggers(s, st) \in Seq(Workers)
                    /\ Triggers(s, st) \in {plan.atStart[s], plan.atEnd[s], <<>>}
                    /\ st = "end" => Triggers(s, st) = plan.atEnd[s]
                    /\ st # "end" => Range(Triggers(s, st)) \subseteq Range(plan.atStart[s])
<1>1. plan \in PlanType
  BY PlansAssumption DEF TypeOK
<1>2. /\ plan.kind \in [Workers -> Kinds] /\ plan.master \subseteq Workers
      /\ plan.atStart \in [Workers -> Seq(Workers)]
      /\ plan.atEnd \in [Workers -> Seq(Workers)]
  BY <1>1 DEF PlanType
<1>3. Kind(s) \in Kinds /\ plan.atStart[s] \in Seq(Workers) /\ plan.atEnd[s] \in Seq(Workers)
  BY <1>2 DEF Kind
<1>4. Targets(s) = Range(plan.atStart[s]) \cup Range(plan.atEnd[s])
  BY DEF Targets, TargetsIn
<1>5. Targets(s) \subseteq Workers
  BY <1>3, <1>4 DEF Range
<1>6. <<>> \in Seq(Workers) /\ Range(<<>>) = {}
  BY NothingHeld
<1>7. ASSUME NEW st
      PROVE  /\ Triggers(s, st) \in {plan.atStart[s], plan.atEnd[s], <<>>}
             /\ st = "end" => Triggers(s, st) = plan.atEnd[s]
             /\ st # "end" => Triggers(s, st) \in {plan.atStart[s], <<>>}
  BY DEF Triggers
<1> QED
  BY <1>2, <1>3, <1>4, <1>5, <1>6, <1>7

\* A worker with one trigger.
LEMMA OneTrigger ==
  ASSUME TypeOK, NEW s \in Workers, NEW w \in Workers, OneStart(w)
  PROVE  /\ Single(plan.atStart[s], w) /\ Single(plan.atEnd[s], w)
         /\ ~(w \in Range(plan.atStart[s]) /\ w \in Range(plan.atEnd[s]))
         /\ w \in Targets(s) => w \notin plan.master
         /\ \A r \in Workers : w \in Targets(s) /\ w \in Targets(r) => r = s
<1>1. plan.atStart[s] \in Seq(Workers) /\ plan.atEnd[s] \in Seq(Workers)
  BY PlanOK
<1>2. Single(plan.atStart[s] \o plan.atEnd[s], w)
  BY DEF OneStart, Single
<1>3. \A r \in Workers : w \in Targets(r) => r \in SourcesIn(plan, w)
  BY DEF SourcesIn, Targets
<1> QED
  BY <1>1, <1>2, <1>3, PartsOfSingle DEF OneStart

\* An orderly worker that is no transfer has one trigger, fired once.
LEMMA OrderlyOnly ==
  ASSUME NEW s \in Workers, NEW w \in Orderly, ~Transfer(w)
  PROVE  OneStart(w) /\ (w \in Targets(s) => Only(s, w))
<1>1. PICK W \in SUBSET Workers : StartedOnce(W) /\ w \in W
  BY DEF Orderly
<1>2. OneStart(w)
  BY <1>1 DEF StartedOnce, Transfer
<1>3. ASSUME w \in Targets(s)
      PROVE  Transfer(s) \/ (s \in Orderly /\ w \notin Range(plan.atStart[s]))
  <2>1. s \in SourcesIn(plan, w)
    BY <1>3 DEF SourcesIn, Targets
  <2>2. Transfer(s) \/ (s \in W /\ w \notin Range(plan.atStart[s]))
    BY <1>1, <2>1 DEF StartedOnce, Transfer
  <2> QED
    BY <1>1, <2>2 DEF Orderly
<1> QED
  BY <1>2, <1>3 DEF Only

LEMMA Places ==
  /\ 1 \in Workers /\ 1 \in 1 .. N + 1
  /\ \A w \in Workers : w \in Threads /\ w # Loop /\ w \in 1 .. N + 1 /\ w + 1 \in 1 .. N + 1
  /\ Loop \in Threads /\ Loop \notin Workers /\ Nobody \notin Threads
  /\ \A u \in Threads : u # Loop => u \in Workers
  /\ N + 1 \notin Workers
  /\ \A k \in 1 .. N + 1 : k \in Workers \/ k = N + 1
BY NAssumption DEF Workers, Threads, Loop, Nobody

LEMMA MastersIn ==
  ASSUME TypeOK
  PROVE  plan.master \subseteq Workers
BY PlanOK, Places

-----------------------------------------------------------------------------
(* What the operators of the steps do.                                     *)

Steps == LoopSteps \cup TriggerSteps \cup ThreadSteps

LEMMA GotoType ==
  ASSUME TypeOK, NEW u \in Threads, NEW step \in Steps, Goto(u, step)
  PROVE  /\ pc' \in [Threads -> Steps]
         /\ pc'[u] = step
         /\ \A v \in Threads \ {u} : pc'[v] = pc[v]
BY DEF TypeOK, Goto, Steps

LEMMA StartsType ==
  ASSUME TypeOK, NEW w \in Workers, Starts(w)
  PROVE  /\ kernel' \in [Workers -> KernelStates] /\ mss' \in [Workers -> MssStates]
         /\ timer' \in [Workers -> BOOLEAN] /\ runs' \in [Workers -> Nat]
         /\ runs'[w] = runs[w] + 1 /\ \A v \in Workers \ {w} : runs'[v] = runs[v]
         /\ Transfer(w) => timer' = timer
         /\ ~Transfer(w) => timer'[w] /\ \A v \in Workers \ {w} : timer'[v] = timer[v]
BY DEF TypeOK, Starts, KernelStates, MssStates, Transfer

LEMMA StartFailsType ==
  ASSUME TypeOK, NEW w \in Workers, StartFails(w)
  PROVE  kernel' \in [Workers -> KernelStates] /\ UNCHANGED <<mss, timer, runs>>
BY DEF TypeOK, StartFails, KernelStates

LEMMA SpawnsType ==
  ASSUME TypeOK, NEW w \in Workers, NEW u \in Threads, u # w, NEW step \in Steps,
         Spawns(w, u, step)
  PROVE  /\ pc' \in [Threads -> Steps] /\ news' \in [Threads -> Statuses]
         /\ pc'[u] = step
         /\ Transfer(w) => pc'[w] = "watch" /\ news'[w] = "start"
         /\ ~Transfer(w) => pc'[w] = pc[w] /\ news'[w] = news[w]
         /\ \A v \in Threads \ {u, w} : pc'[v] = pc[v]
         /\ \A v \in Threads \ {w} : news'[v] = news[v]
<1>1. w \in Threads /\ "watch" \in Steps /\ "start" \in Statuses
  BY Places DEF Steps, TriggerSteps, Statuses
<1>2. pc \in [Threads -> Steps] /\ news \in [Threads -> Statuses]
  BY DEF TypeOK, Steps
<1>3. CASE Transfer(w)
  BY <1>1, <1>2, <1>3 DEF Spawns, Transfer
<1>4. CASE ~Transfer(w)
  BY <1>1, <1>2, <1>4 DEF Spawns, Transfer
<1> QED
  BY <1>3, <1>4

LEMMA PollType ==
  ASSUME TypeOK, NEW w \in Workers, NEW st \in Statuses, NEW again \in BOOLEAN,
         ~Transfer(w), Poll(w, st, again)
  PROVE  /\ pc' \in [Threads -> Steps] /\ news' \in [Threads -> Statuses]
         /\ todo' \in [Threads -> Seq(Workers)] /\ timer' \in [Workers -> BOOLEAN]
         /\ pc'[Loop] = "watch" /\ \A v \in Workers : pc'[v] = pc[v]
         /\ news'[Loop] = st /\ \A v \in Workers : news'[v] = news[v]
         /\ todo'[Loop] = Triggers(w, st)
         /\ \A v \in Workers : todo'[v] = todo[v]
         /\ ~timer'[w] /\ \A v \in Workers \ {w} : timer'[v] = timer[v]
         /\ polled' = w /\ rearm' = again
         /\ UNCHANGED <<plan, task, taskStatus, taskTimer, mutexes, status, at, runs>>
<1>2. Triggers(w, st) \in Seq(Workers)
  BY PlanOK
<1>3. "watch" \in Steps
  BY DEF Steps, TriggerSteps
<1>4. /\ pc \in [Threads -> Steps] /\ news \in [Threads -> Statuses]
      /\ todo \in [Threads -> Seq(Workers)] /\ timer \in [Workers -> BOOLEAN]
  BY DEF TypeOK, Steps
<1> QED
  BY <1>2, <1>3, <1>4, Places DEF Poll, Goto

\* The polling timers: each asks the watcher to report some status.
LEMMA Polls ==
  ASSUME TypeOK, NEW w \in Workers, MkTimer(w) \/ MssTimer(w)
  PROVE  /\ ~Transfer(w) /\ LoopAt("idle") /\ timer[w] /\ UNCHANGED lost
         /\ \E st \in Statuses, again \in BOOLEAN :
              /\ Poll(w, st, again)
              /\ again => st # "end"
              /\ ~again => st \in Over
<1>1. ~Transfer(w) /\ LoopAt("idle") /\ timer[w] /\ UNCHANGED lost
  BY DEF MkTimer, MssTimer, MssTimerInit, MssTimerRequest, MssTimerRun, MssTimerEnd,
         Fires, Transfer
<1> DEFINE Asks(st, again) == /\ st \in Statuses /\ again \in BOOLEAN
                              /\ Poll(w, st, again)
                              /\ again => st # "end"
                              /\ ~again => st \in Over
<1>2. CASE MkTimer(w)
  <2>1. Asks(MkStatus(kernel[w]), kernel[w] # "stop")
    BY <1>2 DEF MkTimer, MkStatus, Busy, Statuses, Over
  <2> QED
    BY <1>1, <2>1
<1>3. CASE MssTimerInit(w)
  <2>1. Asks("init", TRUE)
    BY <1>3 DEF MssTimerInit, Statuses
  <2> QED
    BY <1>1, <2>1
<1>4. CASE MssTimerRequest(w)
  <2>1. Asks("running", TRUE) \/ Asks("break", FALSE)
    BY <1>4 DEF MssTimerRequest, Statuses, Over
  <2> QED
    BY <1>1, <2>1
<1>5. CASE MssTimerRun(w)
  <2>1. Asks("running", TRUE) \/ Asks(MkStatus(kernel[w]), FALSE)
    BY <1>5 DEF MssTimerRun, MkStatus, Statuses, Over
  <2> QED
    BY <1>1, <2>1
<1>6. CASE MssTimerEnd(w)
  <2>1. Asks("end", FALSE)
    BY <1>6 DEF MssTimerEnd, Statuses, Over
  <2> QED
    BY <1>1, <2>1
<1> QED
  BY <1>2, <1>3, <1>4, <1>5, <1>6 DEF MssTimer

\* The first trigger that a thread holds.
LEMMA Trigger ==
  ASSUME IInv, NEW u \in Threads, pc[u] = "target"
  PROVE  LET x == Head(todo[u])
             s == Watched(u)
         IN
         /\ x \in Workers /\ x \in Range(todo[u])
         /\ todo[u] \in Seq(Workers) /\ Tail(todo[u]) \in Seq(Workers)
         /\ s \in Workers /\ Range(todo[u]) \subseteq Targets(s) /\ x \in Targets(s)
         /\ runs[s] # 0
         /\ Range(Tail(todo[u])) \subseteq Range(todo[u])
         /\ Range(todo[u]) \subseteq Range(Tail(todo[u])) \cup {x}
         /\ \A w \in Workers : OneStart(w) => Single(Tail(todo[u]), w)
         /\ OneStart(x) => x \notin Range(Tail(todo[u]))
         /\ u = Loop => Polled(s) /\ ~Transfer(s)
         /\ u # Loop => s = u /\ Alive(u) /\ Transfer(u)
         /\ ~Starting
<1> DEFINE x == Head(todo[u])
           s == Watched(u)
<1>1. todo[u] \in Seq(Workers) /\ todo[u] # <<>>
  BY Places DEF IInv, TypeOK, ThreadsOK, ThreadOK
<1>2. /\ s \in Workers /\ runs[s] # 0 /\ HeldOK(s, todo[u])
      /\ u = Loop => Polled(s) /\ ~Transfer(s)
      /\ u # Loop => s = u /\ Alive(u) /\ Transfer(u)
  <2>1. CASE u = Loop
    <3>1. pc[Loop] \in TriggerSteps /\ polled \in Workers /\ s = polled
      BY <2>1 DEF IInv, TypeOK, TriggerSteps, Watched
    <3>2. Polled(s) /\ ~Transfer(s) /\ runs[s] # 0
      BY <3>1 DEF IInv, LoopOK, Polled
    <3> QED
      BY <2>1, <3>1, <3>2 DEF IInv, SourcesOK, HoldsOK
  <2>2. CASE u # Loop
    <3>1. u \in Workers /\ Alive(u) /\ s = u
      BY <2>2, Places DEF Alive, TriggerSteps, Watched
    <3>2. Transfer(u) /\ runs[u] # 0
      BY <3>1 DEF IInv, ThreadsOK, ThreadOK
    <3> QED
      BY <2>2, <3>1, <3>2 DEF IInv, SourcesOK, HoldsOK
  <2> QED
    BY <2>1, <2>2
<1>3. ~Starting
  BY Places DEF IInv, MutexesOK, Starting
<1> HIDE DEF x, s
<1> QED
  BY <1>1, <1>2, <1>3, FirstTrigger DEF HeldOK, x, s

\* What a trigger finds as it was created.  A transfer has no thread yet, and a
\* worker with one trigger was not started.
LEMMA Fresh ==
  ASSUME IInv, NEW u \in Threads, pc[u] = "target", status[Head(todo[u])] = "init"
  PROVE  LET x == Head(todo[u])
             s == Watched(u)
         IN
         /\ x # u
         /\ Transfer(x) => runs[x] = 0 /\ pc[x] = "none" /\ ~timer[x]
         /\ Only(s, x) => runs[x] = 0 /\ x \in Pending(s)
         /\ x \in Orderly => runs[x] = 0
         /\ pc[x] \in {"none"}
<1> DEFINE x == Head(todo[u])
           s == Watched(u)
<1>1. /\ x \in Workers /\ s \in Workers /\ x \in Targets(s) /\ x \in Range(todo[u])
      /\ runs[s] # 0
      /\ u = Loop => Polled(s) /\ ~Transfer(s)
      /\ u # Loop => u = s /\ Alive(s) /\ Transfer(s)
      /\ ~Starting
  BY Trigger
<1>2. Transfer(x) => runs[x] = 0
  BY <1>1 DEF IInv, WorkersOK, WorkerOK, Starting, LoopAt
<1>3. pc[x] = "none"
  BY <1>1, <1>2 DEF IInv, ThreadsOK, ThreadOK
<1>4. Transfer(x) => ~timer[x]
  BY <1>1 DEF IInv, WorkersOK, WorkerOK
<1>5. x # u
  BY <1>3
<1>6. ASSUME Only(s, x) PROVE x \in Pending(s) /\ runs[x] = 0
  <2>1. CASE u = Loop
    <3>1. Polled(s) /\ ~Transfer(s) /\ Watched(u) = polled
      BY <1>1, <2>1 DEF Watched
    <3> QED
      BY <1>1, <1>6, <2>1, <3>1 DEF Pending, IInv, SourcesOK, PendingOK
  <2>2. CASE u # Loop
    BY <1>1, <1>6, <2>2 DEF Pending, IInv, SourcesOK, PendingOK
  <2> QED
    BY <2>1, <2>2
<1>7. x \in Orderly => runs[x] = 0
  BY <1>1, <1>2, <1>6, OrderlyOnly
<1> QED
  BY <1>2, <1>3, <1>4, <1>5, <1>6, <1>7

-----------------------------------------------------------------------------
(* The steps keep the types.                                               *)

LEMMA TypeStep ==
  ASSUME IInv, [Next]_vars
  PROVE  TypeOK'
<1> TypeOK /\ ThreadsOK /\ MastersOK
  BY DEF IInv
<1>1. CASE StartTask
  BY <1>1, GotoType, Places DEF StartTask, LoopAt, TypeOK, Steps, LoopSteps,
     TriggerSteps, ThreadSteps, Statuses, Over
<1>2. CASE StartTaskFails
  BY <1>2 DEF StartTaskFails, LoopAt, TypeOK, AllBreak, Statuses, Over
<1>3. CASE StartMaster
  <2>1. at \in Workers /\ plan.atStart[at] \in Seq(Workers) /\ Loop # at
    BY <1>3, PlanOK, Places DEF StartMaster
  <2>2. todo' \in [Threads -> Seq(Workers)] /\ at' \in 1 .. N + 1
    BY <1>3, <2>1, Places DEF StartMaster, TypeOK
  <2>3. Spawns(at, Loop, "spawned") \/ Spawns(at, Loop, "masters")
    BY <1>3 DEF StartMaster
  <2>4. pc' \in [Threads -> Steps] /\ news' \in [Threads -> Statuses]
    BY <2>1, <2>3, SpawnsType, Places DEF Steps, LoopSteps
  <2> QED
    BY <1>3, <2>1, <2>2, <2>4, StartsType DEF StartMaster, TypeOK, Steps
<1>4. CASE StartMasterFails
  <2>1. at \in Workers
    BY <1>4, PlanOK, Places DEF StartMasterFails
  <2> QED
    BY <1>4, <2>1, StartFailsType, Places DEF StartMasterFails, TypeOK, Statuses, Over
<1>5. CASE WriteStart
  <2>1. at \in Workers /\ at + 1 \in 1 .. N + 1
    BY <1>5, Places, PlanOK DEF WriteStart, LoopAt, MastersOK
  <2>2. Goto(Loop, "masters") /\ "masters" \in Steps
    BY <1>5 DEF WriteStart, Steps, LoopSteps
  <2>3. status' \in [Workers -> Statuses]
    BY <1>5, <2>1 DEF WriteStart, TypeOK, Statuses
  <2> QED
    BY <1>5, <2>1, <2>2, <2>3, GotoType, Places DEF WriteStart, TypeOK, Steps
<1>6. CASE SkipWorker
  BY <1>6, GotoType, Places DEF SkipWorker, LoopAt, TypeOK, Steps, LoopSteps,
     TriggerSteps, ThreadSteps, Statuses, Over
<1>7. CASE MastersStarted
  <2>1. PICK step \in Steps : Goto(Loop, step)
    BY <1>7 DEF MastersStarted, Steps, LoopSteps
  <2>2. pc' \in [Threads -> Steps]
    BY <2>1, GotoType, Places
  <2>3. status' \in [Workers -> Statuses] /\ taskStatus' \in Statuses
    BY <1>7 DEF MastersStarted, AllBreak, TypeOK, Statuses, Over
  <2>4. taskMtx' = Nobody /\ at' \in 1 .. N + 1
    BY <1>7, Places DEF MastersStarted
  <2> QED
    BY <1>7, <2>2, <2>3, <2>4 DEF MastersStarted, TypeOK, Steps
<1>8. CASE StartReport
  BY <1>8, GotoType, Places DEF StartReport, LoopAt, TypeOK, Steps, LoopSteps,
     TriggerSteps, ThreadSteps, Statuses, Over
<1>9. CASE StopRequest
  BY <1>9, GotoType, Places DEF StopRequest, LoopAt, TypeOK, Steps, LoopSteps,
     TriggerSteps, ThreadSteps, Statuses, Over
<1>10. CASE StopFindsTask
  BY <1>10, GotoType, Places DEF StopFindsTask, LoopAt, TypeOK, Steps, LoopSteps,
     TriggerSteps, ThreadSteps, Statuses, Over
<1>11. CASE StopLocksTask
  BY <1>11, GotoType, Places DEF StopLocksTask, LoopAt, TypeOK, Steps, LoopSteps,
     TriggerSteps, ThreadSteps, Statuses, Over
<1>12. CASE StopWorker
  BY <1>12, GotoType, Places DEF StopWorker, LoopAt, TypeOK, MssStates
<1>13. CASE StopDone
  BY <1>13, GotoType, Places DEF StopDone, LoopAt, TypeOK, Steps, LoopSteps,
     TriggerSteps, ThreadSteps, Statuses, Over
<1>14. CASE TaskTimer
  BY <1>14, GotoType, Places DEF TaskTimer, LoopAt, TypeOK, Steps, LoopSteps,
     TriggerSteps, ThreadSteps, Statuses, Over
<1>15. CASE CheckWorkers
  <2>1. taskStatus' \in Statuses
    BY <1>15 DEF CheckWorkers, CheckedStatus, Statuses, Over
  <2>2. PICK step \in Steps : Goto(Loop, step)
    BY <1>15 DEF CheckWorkers, Steps, LoopSteps
  <2> QED
    BY <1>15, <2>1, <2>2, GotoType, Places DEF CheckWorkers, TypeOK, Steps
<1>16. CASE Report
  BY <1>16, GotoType, Places DEF Report, LoopAt, TypeOK, Steps, LoopSteps, TriggerSteps,
     ThreadSteps, Statuses, Over
<1>17. CASE TaskTimerAgain
  <2>1. PICK step \in Steps : Goto(Loop, step)
    BY <1>17 DEF TaskTimerAgain, Steps, LoopSteps
  <2> QED
    BY <1>17, <2>1, GotoType, Places DEF TaskTimerAgain, TypeOK, Steps
<1>18. CASE RestartStops
  BY <1>18, GotoType, Places DEF RestartStops, LoopAt, TypeOK, Steps, LoopSteps,
     TriggerSteps, ThreadSteps, Statuses, Over
<1>19. CASE DestroyLocksList
  BY <1>19, GotoType, Places DEF DestroyLocksList, LoopAt, TypeOK, Steps, LoopSteps,
     TriggerSteps, ThreadSteps, Statuses, Over
<1>20. CASE DestroyTask
  BY <1>20, GotoType, Places DEF DestroyTask, LoopAt, TypeOK, KernelStates, Steps,
     LoopSteps, TriggerSteps, ThreadSteps, Statuses, Over
<1>21. CASE LoopReports
  BY <1>21, GotoType, Places DEF LoopReports, WrittenStatus, Watched, LoopAt, TypeOK,
     Steps, LoopSteps, TriggerSteps, ThreadSteps, Statuses, Over
<1>22. ASSUME NEW u \in Threads, FindTask(u)
      PROVE  TypeOK'
  BY <1>22, GotoType, Places DEF FindTask, LoopAt, TypeOK, Steps, LoopSteps,
     TriggerSteps, ThreadSteps, Statuses, Over
<1>23. ASSUME NEW u \in Threads, LockTask(u)
      PROVE  TypeOK'
  BY <1>23, GotoType, Places DEF LockTask, LoopAt, TypeOK, Steps, LoopSteps,
     TriggerSteps, ThreadSteps, Statuses, Over
<1>24. ASSUME NEW u \in Threads, TriggerStarts(u)
      PROVE  TypeOK'
  <2>1. PICK x \in Workers : x = Head(todo[u]) /\ x # u /\ Tail(todo[u]) \in Seq(Workers)
    BY <1>24, Trigger, Fresh DEF TriggerStarts
  <2>2. plan.atStart[x] \in Seq(Workers) /\ x \in Threads
    BY PlanOK, Places
  <2>3. Starts(x) /\ Spawns(x, u, "watch") /\ TriggerDone(u)
    BY <1>24, <2>1 DEF TriggerStarts
  <2>4. todo' \in [Threads -> Seq(Workers)]
    BY <1>24, <2>1, <2>2 DEF TriggerStarts, TypeOK
  <2>5. status' \in [Workers -> Statuses]
    BY <1>24, <2>1 DEF TriggerStarts, TypeOK, Statuses
  <2>6. pc' \in [Threads -> Steps] /\ news' \in [Threads -> Statuses]
    BY <2>1, <2>3, SpawnsType DEF Steps, TriggerSteps
  <2> QED
    BY <1>24, <2>3, <2>4, <2>5, <2>6, StartsType DEF TriggerStarts, TriggerDone, TypeOK,
       Steps
<1>25. ASSUME NEW u \in Threads, TriggerFails(u)
      PROVE  TypeOK'
  <2>1. Head(todo[u]) \in Workers /\ Tail(todo[u]) \in Seq(Workers)
    BY <1>25, Trigger DEF TriggerFails
  <2>2. kernel' \in [Workers -> KernelStates] /\ UNCHANGED <<mss, timer, runs>>
    BY <1>25, <2>1, StartFailsType DEF TriggerFails
  <2> QED
    BY <1>25, <2>1, <2>2, GotoType DEF TriggerFails, TriggerDone, TypeOK, Steps,
       TriggerSteps
<1>26. ASSUME NEW u \in Threads, TriggerSkips(u)
      PROVE  TypeOK'
  <2>1. Head(todo[u]) \in Workers /\ Tail(todo[u]) \in Seq(Workers)
    BY <1>26, Trigger DEF TriggerSkips
  <2> QED
    BY <1>26, <2>1, GotoType DEF TriggerSkips, TriggerDone, TypeOK, Steps, TriggerSteps
<1>27. ASSUME NEW w \in Workers, ThreadReports(w)
      PROVE  TypeOK'
  <2>1. PICK step \in Steps : Goto(w, step)
    BY <1>27 DEF ThreadReports, Steps, ThreadSteps
  <2>2. pc' \in [Threads -> Steps]
    BY <2>1, GotoType, Places
  <2>3. status' \in [Workers -> Statuses]
    BY <1>27, Places DEF ThreadReports, WrittenStatus, Watched, TypeOK
  <2> QED
    BY <1>27, <2>2, <2>3 DEF ThreadReports, TypeOK, Steps
<1>28. ASSUME NEW w \in Workers, FileDone(w)
      PROVE  TypeOK'
  BY <1>28, GotoType, Places DEF FileDone, TypeOK, Steps, LoopSteps, TriggerSteps,
     ThreadSteps, Statuses, Over
<1>29. ASSUME NEW w \in Workers, TransferDone(w)
      PROVE  TypeOK'
  BY <1>29, GotoType, Places, PlanOK DEF TransferDone, TypeOK, Steps, LoopSteps,
     TriggerSteps, ThreadSteps, Statuses, Over
<1>30. ASSUME NEW w \in Workers, ThreadLeaves(w)
      PROVE  TypeOK'
  BY <1>30, GotoType, Places DEF ThreadLeaves, TypeOK, Steps, LoopSteps, TriggerSteps,
     ThreadSteps, Statuses, Over
<1>31. ASSUME NEW w \in Workers, KernelRuns(w) \/ KernelEnds(w)
      PROVE  TypeOK'
  BY <1>31 DEF KernelRuns, KernelEnds, Kernel, TypeOK, KernelStates
<1>32. ASSUME NEW w \in Workers, StatusCallFails(w)
      PROVE  TypeOK'
  BY <1>32 DEF StatusCallFails, TypeOK
<1>33. ASSUME NEW w \in Workers, MkTimer(w) \/ MssTimer(w)
      PROVE  TypeOK'
  <2>1. /\ kernel' \in [Workers -> KernelStates] /\ mss' \in [Workers -> MssStates]
        /\ lost' = lost
    BY <1>33 DEF MkTimer, MssTimer, MssTimerInit, MssTimerRequest, MssTimerRun,
       MssTimerEnd,
              TypeOK, MkStatus, Busy, KernelStates, MssStates
  <2>2. PICK st \in Statuses, again \in BOOLEAN : ~Transfer(w) /\ Poll(w, st, again)
    BY <1>33, Polls
  <2> QED
    BY <2>1, <2>2, PollType DEF TypeOK, Steps
<1>34. CASE UNCHANGED vars
  BY <1>34 DEF vars, TypeOK
<1>35. ASSUME NEW u \in Threads, TimersBreak(u) \/ Hangs(u)
      PROVE  TypeOK'
  BY <1>35 DEF TimersBreak, Hangs, vars, TypeOK
<1> QED
  BY <1>1, <1>2, <1>3, <1>4, <1>5, <1>6, <1>7, <1>8, <1>9, <1>10, <1>11, <1>12, <1>13,
     <1>14, <1>15, <1>16, <1>17, <1>18, <1>19, <1>20, <1>21, <1>22, <1>23, <1>24, <1>25,
     <1>26, <1>27, <1>28, <1>29, <1>30, <1>31, <1>32, <1>33, <1>34, <1>35 DEF Next,
     StartStep, StopStep, CheckStep, TriggerStep, ThreadStep, PollStep, Gone

-----------------------------------------------------------------------------
(* Who holds the mutexes.                                                  *)

LEMMA MutexesStep ==
  ASSUME IInv, [Next]_vars
  PROVE  MutexesOK'
<1> TypeOK /\ MutexesOK /\ ThreadsOK /\ MastersOK /\ PristineOK
  BY DEF IInv
<1>1. CASE StartTask
  BY <1>1, GotoType, Places DEF StartTask, LoopAt, MutexesOK, PristineOK, ThreadsOK,
     ThreadOK, LoopSteps, TriggerSteps, ThreadSteps, Steps
<1>2. CASE StartTaskFails
  BY <1>2 DEF StartTaskFails, MutexesOK, AllBreak
<1>3. CASE StartMaster
  <2>1. at \in Workers /\ Loop # at /\ runs[at] = 0
    BY <1>3, PlanOK, Places DEF StartMaster, LoopAt, MastersOK, Starting
  <2>2. pc[at] = "none"
    BY <2>1 DEF ThreadsOK, ThreadOK
  <2>3. Spawns(at, Loop, "spawned") \/ Spawns(at, Loop, "masters")
    BY <1>3 DEF StartMaster
  <2> QED
    BY <1>3, <2>1, <2>2, <2>3, SpawnsType, Places DEF StartMaster, LoopAt, MutexesOK,
       LoopSteps, TriggerSteps, ThreadSteps, Steps
<1>4. CASE StartMasterFails
  BY <1>4 DEF StartMasterFails, MutexesOK
<1>5. CASE WriteStart
  BY <1>5, GotoType, Places DEF WriteStart, LoopAt, MutexesOK, ThreadsOK, ThreadOK,
     LoopSteps, TriggerSteps, ThreadSteps, Steps
<1>6. CASE SkipWorker
  BY <1>6 DEF SkipWorker, MutexesOK
<1>7. CASE MastersStarted
  BY <1>7, GotoType, Places DEF MastersStarted, LoopAt, MutexesOK, ThreadsOK, ThreadOK,
     LoopSteps, TriggerSteps, ThreadSteps, Steps
<1>8. CASE StartReport
  BY <1>8, GotoType, Places DEF StartReport, LoopAt, MutexesOK, ThreadsOK, ThreadOK,
     LoopSteps, TriggerSteps, ThreadSteps, Steps
<1>9. CASE StopRequest
  BY <1>9, GotoType, Places DEF StopRequest, LoopAt, MutexesOK, ThreadsOK, ThreadOK,
     LoopSteps, TriggerSteps, ThreadSteps, Steps
<1>10. CASE StopFindsTask
  BY <1>10, GotoType, Places DEF StopFindsTask, LoopAt, MutexesOK, ThreadsOK, ThreadOK,
     LoopSteps, TriggerSteps, ThreadSteps, Steps
<1>11. CASE StopLocksTask
  BY <1>11, GotoType, Places DEF StopLocksTask, LoopAt, MutexesOK, ThreadsOK, ThreadOK,
     LoopSteps, TriggerSteps, ThreadSteps, Steps
<1>12. CASE StopWorker
  BY <1>12 DEF StopWorker, MutexesOK
<1>13. CASE StopDone
  BY <1>13, GotoType, Places DEF StopDone, LoopAt, MutexesOK, ThreadsOK, ThreadOK,
     LoopSteps, TriggerSteps, ThreadSteps, Steps
<1>14. CASE TaskTimer
  BY <1>14, GotoType, Places DEF TaskTimer, LoopAt, MutexesOK, ThreadsOK, ThreadOK,
     LoopSteps, TriggerSteps, ThreadSteps, Steps
<1>15. CASE CheckWorkers
  BY <1>15, GotoType, Places DEF CheckWorkers, LoopAt, MutexesOK, ThreadsOK, ThreadOK,
     LoopSteps, TriggerSteps, ThreadSteps, Steps
<1>16. CASE Report
  BY <1>16, GotoType, Places DEF Report, LoopAt, MutexesOK, ThreadsOK, ThreadOK,
     LoopSteps, TriggerSteps, ThreadSteps, Steps
<1>17. CASE TaskTimerAgain
  BY <1>17, GotoType, Places DEF TaskTimerAgain, LoopAt, MutexesOK, ThreadsOK, ThreadOK,
     LoopSteps, TriggerSteps, ThreadSteps, Steps
<1>18. CASE RestartStops
  BY <1>18, GotoType, Places DEF RestartStops, LoopAt, MutexesOK, ThreadsOK, ThreadOK,
     LoopSteps, TriggerSteps, ThreadSteps, Steps
<1>19. CASE DestroyLocksList
  BY <1>19, GotoType, Places DEF DestroyLocksList, LoopAt, MutexesOK, ThreadsOK,
     ThreadOK, LoopSteps, TriggerSteps, ThreadSteps, Steps
<1>20. CASE DestroyTask
  BY <1>20, GotoType, Places DEF DestroyTask, LoopAt, MutexesOK, ThreadsOK, ThreadOK,
     LoopSteps, TriggerSteps, ThreadSteps, Steps
<1>21. CASE LoopReports
  BY <1>21, GotoType, Places DEF LoopReports, LoopAt, MutexesOK, ThreadsOK, ThreadOK,
     LoopSteps, TriggerSteps, ThreadSteps, Steps
<1>22. ASSUME NEW u \in Threads, FindTask(u)
      PROVE  MutexesOK'
  BY <1>22, GotoType, Places DEF FindTask, LoopAt, MutexesOK, ThreadsOK, ThreadOK,
     LoopSteps, TriggerSteps, ThreadSteps, Steps
<1>23. ASSUME NEW u \in Threads, LockTask(u)
      PROVE  MutexesOK'
  BY <1>23, GotoType, Places DEF LockTask, LoopAt, MutexesOK, ThreadsOK, ThreadOK,
     LoopSteps, TriggerSteps, ThreadSteps, Steps
<1>24. ASSUME NEW u \in Threads, TriggerStarts(u)
      PROVE  MutexesOK'
  <2>1. PICK x \in Workers : x = Head(todo[u]) /\ x # u
    BY <1>24, Trigger, Fresh DEF TriggerStarts
  <2>2. Spawns(x, u, "watch") /\ TriggerDone(u) /\ pc[u] = "target"
    BY <1>24, <2>1 DEF TriggerStarts
  <2>3. pc[x] = "none"
    BY <1>24, <2>1, Fresh DEF TriggerStarts
  <2> QED
    BY <2>1, <2>2, <2>3, SpawnsType, Places DEF TriggerDone, MutexesOK, LoopSteps,
       TriggerSteps, ThreadSteps, Steps
<1>25. ASSUME NEW u \in Threads, TriggerFails(u)
      PROVE  MutexesOK'
  BY <1>25, GotoType, Places DEF TriggerFails, TriggerDone, MutexesOK, LoopSteps,
     TriggerSteps, ThreadSteps, Steps
<1>26. ASSUME NEW u \in Threads, TriggerSkips(u)
      PROVE  MutexesOK'
  BY <1>26, GotoType, Places DEF TriggerSkips, TriggerDone, MutexesOK, LoopSteps,
     TriggerSteps, ThreadSteps, Steps
<1>27. ASSUME NEW w \in Workers, ThreadReports(w)
      PROVE  MutexesOK'
  BY <1>27, GotoType, Places DEF ThreadReports, LoopAt, MutexesOK, ThreadsOK, ThreadOK,
     LoopSteps, TriggerSteps, ThreadSteps, Steps
<1>28. ASSUME NEW w \in Workers, FileDone(w)
      PROVE  MutexesOK'
  BY <1>28, GotoType, Places DEF FileDone, LoopAt, MutexesOK, ThreadsOK, ThreadOK,
     LoopSteps, TriggerSteps, ThreadSteps, Steps
<1>29. ASSUME NEW w \in Workers, TransferDone(w)
      PROVE  MutexesOK'
  BY <1>29, GotoType, Places DEF TransferDone, LoopAt, MutexesOK, ThreadsOK, ThreadOK,
     LoopSteps, TriggerSteps, ThreadSteps, Steps
<1>30. ASSUME NEW w \in Workers, ThreadLeaves(w)
      PROVE  MutexesOK'
  BY <1>30, GotoType, Places DEF ThreadLeaves, LoopAt, MutexesOK, ThreadsOK, ThreadOK,
     LoopSteps, TriggerSteps, ThreadSteps, Steps
<1>31. ASSUME NEW w \in Workers, KernelRuns(w) \/ KernelEnds(w)
      PROVE  MutexesOK'
  BY <1>31 DEF KernelRuns, KernelEnds, Kernel, MutexesOK
<1>32. ASSUME NEW w \in Workers, StatusCallFails(w)
      PROVE  MutexesOK'
  BY <1>32 DEF StatusCallFails, MutexesOK
<1>33. ASSUME NEW w \in Workers, MkTimer(w) \/ MssTimer(w)
      PROVE  MutexesOK'
  <2>1. PICK st \in Statuses, again \in BOOLEAN : ~Transfer(w) /\ LoopAt("idle") /\ Poll(w, st, again)
    BY <1>33, Polls
  <2>2. /\ pc[Loop] = "idle" /\ pc'[Loop] = "watch" /\ \A v \in Workers : pc'[v] = pc[v]
        /\ UNCHANGED <<mutexes, at>>
    BY <2>1, PollType DEF LoopAt
  <2> QED
    BY <2>2, Places DEF mutexes, MutexesOK
<1>34. CASE UNCHANGED vars
  BY <1>34 DEF vars, MutexesOK
<1>35. ASSUME NEW u \in Threads, TimersBreak(u) \/ Hangs(u)
      PROVE  MutexesOK'
  BY <1>35 DEF TimersBreak, Hangs, vars, MutexesOK
<1> QED
  BY <1>1, <1>2, <1>3, <1>4, <1>5, <1>6, <1>7, <1>8, <1>9, <1>10, <1>11, <1>12, <1>13,
     <1>14, <1>15, <1>16, <1>17, <1>18, <1>19, <1>20, <1>21, <1>22, <1>23, <1>24, <1>25,
     <1>26, <1>27, <1>28, <1>29, <1>30, <1>31, <1>32, <1>33, <1>34, <1>35 DEF Next,
     StartStep, StopStep, CheckStep, TriggerStep, ThreadStep, PollStep, Gone

-----------------------------------------------------------------------------
(* Threads, and the event loop while it serves a timer.                    *)

LEMMA KeepsThread ==
  ASSUME NEW w \in Workers, ThreadOK(w), plan' = plan, pc'[w] = pc[w],
         todo'[w] = todo[w], news'[w] = news[w], runs'[w] = runs[w]
  PROVE  ThreadOK(w)'
BY DEF ThreadOK, Alive, Transfer, Kind

LEMMA KeepsThreads ==
  ASSUME ThreadsOK, UNCHANGED <<plan, pc, todo, news, runs>>
  PROVE  ThreadsOK'
BY KeepsThread DEF ThreadsOK

\* Only the event loop moves, outside the watcher.
LEMMA LoopMovesThreads ==
  ASSUME ThreadsOK, UNCHANGED <<plan, todo, news, runs>>,
         \A w \in Workers : pc'[w] = pc[w], pc'[Loop] \in LoopSteps
  PROVE  ThreadsOK'
BY KeepsThread DEF ThreadsOK, LoopSteps

LEMMA ThreadsStep ==
  ASSUME IInv, [Next]_vars
  PROVE  ThreadsOK'
<1> TypeOK /\ TypeOK' /\ ThreadsOK /\ LoopOK /\ MastersOK /\ PristineOK /\ WorkersOK
  BY TypeStep DEF IInv
<1>1. CASE StartTask
  BY <1>1, GotoType, Places, LoopMovesThreads DEF StartTask, LoopAt, LoopSteps,
     TriggerSteps, ThreadSteps, Steps
<1>2. CASE StartTaskFails
  BY <1>2, KeepsThreads DEF StartTaskFails, StartFails
<1>3. CASE StartMaster
  <2>1. PICK m \in Workers : m = at
    BY <1>3, PlanOK, Places DEF StartMaster
  <2>2. Loop # m /\ runs[m] = 0 /\ ThreadOK(m)
    BY <1>3, <2>1, Places DEF StartMaster, LoopAt, MastersOK, Starting, ThreadsOK
  <2>3. PICK step \in {"spawned", "masters"} : Spawns(m, Loop, step)
    BY <1>3, <2>1 DEF StartMaster
  <2>4. /\ pc'[Loop] = step
        /\ Transfer(m) => pc'[m] = "watch" /\ news'[m] = "start"
        /\ ~Transfer(m) => pc'[m] = pc[m]
        /\ \A v \in Workers \ {m} : news'[v] = news[v] /\ pc'[v] = pc[v]
    BY <2>2, <2>3, SpawnsType, Places DEF Steps, LoopSteps
  <2>5. \A v \in Workers \ {m} : todo'[v] = todo[v]
    BY <1>3, <2>1, Places DEF StartMaster, TypeOK
  <2>6. /\ runs'[m] = 1 /\ \A v \in Workers \ {m} : runs'[v] = runs[v]
        /\ plan' = plan
    BY <1>3, <2>1, <2>2, StartsType DEF StartMaster
  <2>7. ThreadOK(m)'
    BY <2>2, <2>4, <2>6 DEF ThreadOK, Alive, Transfer, Kind, LoopSteps, TriggerSteps,
       ThreadSteps, Steps
  <2> QED
    BY <2>4, <2>5, <2>6, <2>7, KeepsThread DEF ThreadsOK, LoopSteps
<1>4. CASE StartMasterFails
  BY <1>4, KeepsThreads DEF StartMasterFails, StartFails
<1>5. CASE WriteStart
  BY <1>5, GotoType, Places, LoopMovesThreads DEF WriteStart, LoopAt, LoopSteps,
     TriggerSteps, ThreadSteps, Steps
<1>6. CASE SkipWorker
  BY <1>6, KeepsThreads DEF SkipWorker, StartFails
<1>7. CASE MastersStarted
  BY <1>7, GotoType, Places, LoopMovesThreads DEF MastersStarted, LoopAt, LoopSteps,
     TriggerSteps, ThreadSteps, Steps
<1>8. CASE StartReport
  BY <1>8, GotoType, Places, LoopMovesThreads DEF StartReport, LoopAt, LoopSteps,
     TriggerSteps, ThreadSteps, Steps
<1>9. CASE StopRequest
  BY <1>9, GotoType, Places, LoopMovesThreads DEF StopRequest, LoopAt, LoopSteps,
     TriggerSteps, ThreadSteps, Steps
<1>10. CASE StopFindsTask
  BY <1>10, GotoType, Places, LoopMovesThreads DEF StopFindsTask, LoopAt, LoopSteps,
     TriggerSteps, ThreadSteps, Steps
<1>11. CASE StopLocksTask
  BY <1>11, GotoType, Places, LoopMovesThreads DEF StopLocksTask, LoopAt, LoopSteps,
     TriggerSteps, ThreadSteps, Steps
<1>12. CASE StopWorker
  BY <1>12, KeepsThreads DEF StopWorker, StartFails
<1>13. CASE StopDone
  BY <1>13, GotoType, Places, LoopMovesThreads DEF StopDone, LoopAt, LoopSteps,
     TriggerSteps, ThreadSteps, Steps
<1>14. CASE TaskTimer
  BY <1>14, GotoType, Places, LoopMovesThreads DEF TaskTimer, LoopAt, LoopSteps,
     TriggerSteps, ThreadSteps, Steps
<1>15. CASE CheckWorkers
  BY <1>15, GotoType, Places, LoopMovesThreads DEF CheckWorkers, LoopAt, LoopSteps,
     TriggerSteps, ThreadSteps, Steps
<1>16. CASE Report
  BY <1>16, GotoType, Places, LoopMovesThreads DEF Report, LoopAt, LoopSteps,
     TriggerSteps, ThreadSteps, Steps
<1>17. CASE TaskTimerAgain
  BY <1>17, GotoType, Places, LoopMovesThreads DEF TaskTimerAgain, LoopAt, LoopSteps,
     TriggerSteps, ThreadSteps, Steps
<1>18. CASE RestartStops
  BY <1>18, GotoType, Places, LoopMovesThreads DEF RestartStops, LoopAt, LoopSteps,
     TriggerSteps, ThreadSteps, Steps
<1>19. CASE DestroyLocksList
  BY <1>19, GotoType, Places, LoopMovesThreads DEF DestroyLocksList, LoopAt, LoopSteps,
     TriggerSteps, ThreadSteps, Steps
<1>20. CASE DestroyTask
  BY <1>20, GotoType, Places, LoopMovesThreads DEF DestroyTask, LoopAt, LoopSteps,
     TriggerSteps, ThreadSteps, Steps
<1>21. CASE LoopReports
  <2>1. /\ UNCHANGED <<plan, todo, runs>> /\ pc'[Loop] = "idle"
        /\ \A v \in Workers : pc'[v] = pc[v] /\ news'[v] = news[v]
    BY <1>21, GotoType, Places DEF LoopReports, TypeOK, Steps, LoopSteps
  <2> QED
    BY <2>1, KeepsThread DEF ThreadsOK, LoopSteps
<1>22. ASSUME NEW u \in Threads, FindTask(u)
      PROVE  ThreadsOK'
  <2>1. /\ UNCHANGED <<plan, todo, news, runs>> /\ pc[u] \in {"watch", "found"}
        /\ todo[u] # <<>> /\ pc'[u] \in {"found", "target"}
        /\ \A v \in Threads \ {u} : pc'[v] = pc[v]
    BY <1>22, GotoType, Places DEF FindTask, ThreadsOK, ThreadOK, Steps, TriggerSteps
  <2>2. \A v \in Workers \ {u} : ThreadOK(v)'
    BY <2>1, KeepsThread, Places DEF ThreadsOK
  <2>3. u \in Workers => ThreadOK(u)'
    BY <2>1 DEF ThreadsOK, ThreadOK, Alive, Transfer, Kind, LoopSteps, TriggerSteps,
       ThreadSteps, Steps
  <2> QED
    BY <2>1, <2>2, <2>3, Places DEF ThreadsOK, TriggerSteps
<1>23. ASSUME NEW u \in Threads, LockTask(u)
      PROVE  ThreadsOK'
  <2>1. /\ UNCHANGED <<plan, todo, news, runs>> /\ pc[u] \in {"watch", "found"}
        /\ todo[u] # <<>> /\ pc'[u] \in {"found", "target"}
        /\ \A v \in Threads \ {u} : pc'[v] = pc[v]
    BY <1>23, GotoType, Places DEF LockTask, ThreadsOK, ThreadOK, Steps, TriggerSteps
  <2>2. \A v \in Workers \ {u} : ThreadOK(v)'
    BY <2>1, KeepsThread, Places DEF ThreadsOK
  <2>3. u \in Workers => ThreadOK(u)'
    BY <2>1 DEF ThreadsOK, ThreadOK, Alive, Transfer, Kind, LoopSteps, TriggerSteps,
       ThreadSteps, Steps
  <2> QED
    BY <2>1, <2>2, <2>3, Places DEF ThreadsOK, TriggerSteps
<1>24. ASSUME NEW u \in Threads, TriggerStarts(u)
      PROVE  ThreadsOK'
  <2>1. PICK x \in Workers : x = Head(todo[u]) /\ x # u
    BY <1>24, Trigger, Fresh DEF TriggerStarts
  <2>2. pc[x] = "none" /\ (Transfer(x) => runs[x] = 0)
    BY <1>24, <2>1, Fresh DEF TriggerStarts
  <2>3. \A v \in Threads : todo'[v] = todo[v] \/ v = u \/ v = x
    BY <1>24, <2>1, Places DEF TriggerStarts, TypeOK
  <2>4. Spawns(x, u, "watch") /\ plan' = plan /\ pc[u] = "target"
    BY <1>24, <2>1 DEF TriggerStarts, TriggerDone
  <2>5. runs'[x] \in Nat \ {0} /\ \A v \in Workers \ {x} : runs'[v] = runs[v]
    BY <1>24, <2>1, StartsType DEF TriggerStarts, TypeOK
  <2>6. /\ pc'[u] = "watch" /\ news'[u] = news[u]
        /\ Transfer(x) => pc'[x] = "watch" /\ news'[x] = "start"
        /\ ~Transfer(x) => pc'[x] = pc[x]
        /\ \A v \in Threads \ {u, x} : pc'[v] = pc[v] /\ news'[v] = news[v]
    BY <2>1, <2>4, SpawnsType, Places DEF Steps, TriggerSteps
  <2>7. \A v \in Workers \ {u, x} : ThreadOK(v)'
    BY <2>3, <2>4, <2>5, <2>6, KeepsThread, Places DEF ThreadsOK
  <2>8. ThreadOK(x)'
    BY <2>1, <2>2, <2>4, <2>5, <2>6 DEF ThreadsOK, ThreadOK, Alive, Transfer, Kind,
       LoopSteps, TriggerSteps, ThreadSteps, Steps
  <2>9. u \in Workers => ThreadOK(u)'
    BY <2>1, <2>4, <2>5, <2>6 DEF ThreadsOK, ThreadOK, Alive, Transfer, Kind, LoopSteps,
       TriggerSteps, ThreadSteps, Steps
  <2>10. u = Loop \/ (pc'[Loop] = pc[Loop] /\ todo'[Loop] = todo[Loop])
    BY <2>1, <2>3, <2>6, Places
  <2> QED
    BY <2>1, <2>6, <2>7, <2>8, <2>9, <2>10, Places DEF ThreadsOK, TriggerSteps
<1>25. ASSUME NEW u \in Threads, TriggerFails(u)
      PROVE  ThreadsOK'
  <2>1. /\ UNCHANGED <<plan, news, runs>> /\ pc[u] = "target"
        /\ \A v \in Threads \ {u} : todo'[v] = todo[v]
    BY <1>25 DEF TriggerFails, TriggerDone, StartFails, TypeOK
  <2>2. pc'[u] = "watch" /\ \A v \in Threads \ {u} : pc'[v] = pc[v]
    BY <1>25, GotoType DEF TriggerFails, Steps, TriggerSteps
  <2>3. \A v \in Workers \ {u} : ThreadOK(v)'
    BY <2>1, <2>2, KeepsThread, Places DEF ThreadsOK
  <2>4. u \in Workers => ThreadOK(u)'
    BY <2>1, <2>2 DEF ThreadsOK, ThreadOK, Alive, Transfer, Kind, LoopSteps,
       TriggerSteps, ThreadSteps, Steps
  <2> QED
    BY <2>1, <2>2, <2>3, <2>4, Places DEF ThreadsOK, TriggerSteps
<1>26. ASSUME NEW u \in Threads, TriggerSkips(u)
      PROVE  ThreadsOK'
  <2>1. /\ UNCHANGED <<plan, news, runs>> /\ pc[u] = "target"
        /\ \A v \in Threads \ {u} : todo'[v] = todo[v]
    BY <1>26 DEF TriggerSkips, TriggerDone, StartFails, TypeOK
  <2>2. pc'[u] = "watch" /\ \A v \in Threads \ {u} : pc'[v] = pc[v]
    BY <1>26, GotoType DEF TriggerSkips, Steps, TriggerSteps
  <2>3. \A v \in Workers \ {u} : ThreadOK(v)'
    BY <2>1, <2>2, KeepsThread, Places DEF ThreadsOK
  <2>4. u \in Workers => ThreadOK(u)'
    BY <2>1, <2>2 DEF ThreadsOK, ThreadOK, Alive, Transfer, Kind, LoopSteps,
       TriggerSteps, ThreadSteps, Steps
  <2> QED
    BY <2>1, <2>2, <2>3, <2>4, Places DEF ThreadsOK, TriggerSteps
<1>27. ASSUME NEW w \in Workers, ThreadReports(w)
      PROVE  ThreadsOK'
  <2>1. /\ UNCHANGED <<plan, runs, todo, news>> /\ pc'[Loop] = pc[Loop]
        /\ \A v \in Workers \ {w} : pc'[v] = pc[v]
        /\ pc[w] = "watch" /\ todo[w] = <<>>
        /\ pc'[w] = IF news[w] = "end" THEN "leave" ELSE "work"
    BY <1>27, GotoType, Places DEF ThreadReports, Steps, ThreadSteps
  <2>2. ThreadOK(w)'
    BY <2>1 DEF ThreadsOK, ThreadOK, Alive, Transfer, Kind, TriggerSteps, ThreadSteps
  <2> QED
    BY <2>1, <2>2, KeepsThread DEF ThreadsOK
<1>28. ASSUME NEW w \in Workers, FileDone(w)
      PROVE  ThreadsOK'
  <2>1. /\ UNCHANGED <<plan, runs>> /\ pc'[Loop] = pc[Loop] /\ todo'[Loop] = todo[Loop]
        /\ \A v \in Workers \ {w} : pc'[v] = pc[v] /\ todo'[v] = todo[v] /\ news'[v] = news[v]
        /\ pc[w] = "work" /\ pc'[w] = "watch" /\ news'[w] \in {"running", "end"}
    BY <1>28, GotoType, Places DEF FileDone, TypeOK, Steps, TriggerSteps, ThreadSteps
  <2>2. ThreadOK(w)'
    BY <2>1 DEF ThreadsOK, ThreadOK, Alive, Transfer, Kind, LoopSteps, TriggerSteps,
       ThreadSteps, Steps
  <2> QED
    BY <2>1, <2>2, KeepsThread DEF ThreadsOK
<1>29. ASSUME NEW w \in Workers, TransferDone(w)
      PROVE  ThreadsOK'
  <2>1. /\ UNCHANGED <<plan, runs>> /\ pc'[Loop] = pc[Loop] /\ todo'[Loop] = todo[Loop]
        /\ \A v \in Workers \ {w} : pc'[v] = pc[v] /\ todo'[v] = todo[v] /\ news'[v] = news[v]
        /\ pc[w] = "work" /\ pc'[w] = "watch" /\ news'[w] \in {"running", "end"}
    BY <1>29, GotoType, Places DEF TransferDone, TypeOK, Steps, TriggerSteps,
       ThreadSteps
  <2>2. ThreadOK(w)'
    BY <2>1 DEF ThreadsOK, ThreadOK, Alive, Transfer, Kind, LoopSteps, TriggerSteps,
       ThreadSteps, Steps
  <2> QED
    BY <2>1, <2>2, KeepsThread DEF ThreadsOK
<1>30. ASSUME NEW w \in Workers, ThreadLeaves(w)
      PROVE  ThreadsOK'
  <2>1. /\ UNCHANGED <<plan, runs, todo, news>> /\ pc'[Loop] = pc[Loop]
        /\ \A v \in Workers \ {w} : pc'[v] = pc[v]
        /\ pc[w] = "leave" /\ pc'[w] = "done"
    BY <1>30, GotoType, Places DEF ThreadLeaves, Steps, ThreadSteps
  <2>2. ThreadOK(w)'
    BY <2>1 DEF ThreadsOK, ThreadOK, Alive, Transfer, Kind, LoopSteps, TriggerSteps,
       ThreadSteps, Steps
  <2> QED
    BY <2>1, <2>2, KeepsThread DEF ThreadsOK
<1>31. ASSUME NEW w \in Workers, KernelRuns(w) \/ KernelEnds(w)
      PROVE  ThreadsOK'
  BY <1>31, KeepsThreads DEF KernelRuns, KernelEnds, Kernel
<1>32. ASSUME NEW w \in Workers, StatusCallFails(w)
      PROVE  ThreadsOK'
  BY <1>32, KeepsThreads DEF StatusCallFails, StartFails
<1>33. ASSUME NEW w \in Workers, MkTimer(w) \/ MssTimer(w)
      PROVE  ThreadsOK'
  <2>1. PICK st \in Statuses, again \in BOOLEAN :
          ~Transfer(w) /\ LoopAt("idle") /\ Poll(w, st, again)
    BY <1>33, Polls
  <2> QED
    BY <2>1, PollType, KeepsThread DEF ThreadsOK, TriggerSteps
<1>34. CASE UNCHANGED vars
  BY <1>34, KeepsThreads DEF vars
<1>35. ASSUME NEW u \in Threads, TimersBreak(u) \/ Hangs(u)
      PROVE  ThreadsOK'
  BY <1>35, KeepsThreads DEF TimersBreak, Hangs, vars
<1> QED
  BY <1>1, <1>2, <1>3, <1>4, <1>5, <1>6, <1>7, <1>8, <1>9, <1>10, <1>11, <1>12, <1>13,
     <1>14, <1>15, <1>16, <1>17, <1>18, <1>19, <1>20, <1>21, <1>22, <1>23, <1>24, <1>25,
     <1>26, <1>27, <1>28, <1>29, <1>30, <1>31, <1>32, <1>33, <1>34, <1>35 DEF Next,
     StartStep, StopStep, CheckStep, TriggerStep, ThreadStep, PollStep, Gone

LEMMA KeepsLoop ==
  ASSUME LoopOK, UNCHANGED <<plan, polled, rearm>>,
         pc'[Loop] \in TriggerSteps =>
           /\ pc[Loop] \in TriggerSteps /\ news'[Loop] = news[Loop]
           /\ todo'[Loop] = todo[Loop] \/ todo[Loop] # <<>>
           /\ runs'[polled] = runs[polled] /\ timer'[polled] = timer[polled]
  PROVE  LoopOK'
BY DEF LoopOK, Transfer, Kind

LEMMA LoopAway ==
  ASSUME pc'[Loop] \in LoopSteps
  PROVE  LoopOK'
BY DEF LoopOK, LoopSteps, TriggerSteps

LEMMA LoopStep ==
  ASSUME IInv, [Next]_vars
  PROVE  LoopOK'
<1> TypeOK /\ TypeOK' /\ ThreadsOK /\ LoopOK /\ MastersOK /\ PristineOK /\ WorkersOK
  BY TypeStep DEF IInv
<1>1. CASE StartTask
  BY <1>1, GotoType, Places, LoopAway DEF StartTask, LoopAt, LoopSteps, Steps
<1>2. CASE StartTaskFails
  BY <1>2, LoopAway DEF StartTaskFails, LoopAt, LoopSteps
<1>3. CASE StartMaster
  <2>1. PICK m \in Workers : m = at
    BY <1>3, PlanOK, Places DEF StartMaster
  <2>2. PICK step \in {"spawned", "masters"} : Spawns(m, Loop, step)
    BY <1>3, <2>1 DEF StartMaster
  <2>3. pc'[Loop] = step
    BY <2>2, SpawnsType, Places DEF Steps, LoopSteps
  <2> QED
    BY <2>3, LoopAway DEF LoopSteps
<1>4. CASE StartMasterFails
  BY <1>4, LoopAway DEF StartMasterFails, LoopAt, LoopSteps
<1>5. CASE WriteStart
  BY <1>5, GotoType, Places, LoopAway DEF WriteStart, LoopAt, LoopSteps, Steps
<1>6. CASE SkipWorker
  BY <1>6, LoopAway DEF SkipWorker, LoopAt, LoopSteps
<1>7. CASE MastersStarted
  BY <1>7, GotoType, Places, LoopAway DEF MastersStarted, LoopAt, LoopSteps, Steps
<1>8. CASE StartReport
  BY <1>8, GotoType, Places, LoopAway DEF StartReport, LoopAt, LoopSteps, Steps
<1>9. CASE StopRequest
  BY <1>9, GotoType, Places, LoopAway DEF StopRequest, LoopAt, LoopSteps, Steps
<1>10. CASE StopFindsTask
  BY <1>10, GotoType, Places, LoopAway DEF StopFindsTask, LoopAt, LoopSteps, Steps
<1>11. CASE StopLocksTask
  BY <1>11, GotoType, Places, LoopAway DEF StopLocksTask, LoopAt, LoopSteps, Steps
<1>12. CASE StopWorker
  BY <1>12, LoopAway DEF StopWorker, LoopAt, LoopSteps
<1>13. CASE StopDone
  BY <1>13, GotoType, Places, LoopAway DEF StopDone, LoopAt, LoopSteps, Steps
<1>14. CASE TaskTimer
  BY <1>14, GotoType, Places, LoopAway DEF TaskTimer, LoopAt, LoopSteps, Steps
<1>15. CASE CheckWorkers
  BY <1>15, GotoType, Places, LoopAway DEF CheckWorkers, LoopAt, LoopSteps, Steps
<1>16. CASE Report
  BY <1>16, GotoType, Places, LoopAway DEF Report, LoopAt, LoopSteps, Steps
<1>17. CASE TaskTimerAgain
  BY <1>17, GotoType, Places, LoopAway DEF TaskTimerAgain, LoopAt, LoopSteps, Steps
<1>18. CASE RestartStops
  BY <1>18, GotoType, Places, LoopAway DEF RestartStops, LoopAt, LoopSteps, Steps
<1>19. CASE DestroyLocksList
  BY <1>19, GotoType, Places, LoopAway DEF DestroyLocksList, LoopAt, LoopSteps, Steps
<1>20. CASE DestroyTask
  BY <1>20, GotoType, Places, LoopAway DEF DestroyTask, LoopAt, LoopSteps, Steps
<1>21. CASE LoopReports
  BY <1>21, GotoType, Places, LoopAway DEF LoopReports, LoopAt, LoopSteps, Steps
<1>22. ASSUME NEW u \in Threads, FindTask(u)
      PROVE  LoopOK'
  <2>1. /\ UNCHANGED <<plan, todo, news, runs, timer, polled, rearm>>
        /\ pc[u] \in TriggerSteps
        /\ \A v \in Threads \ {u} : pc'[v] = pc[v]
    BY <1>22, GotoType DEF FindTask, Steps, TriggerSteps
  <2> QED
    BY <2>1, KeepsLoop, Places
<1>23. ASSUME NEW u \in Threads, LockTask(u)
      PROVE  LoopOK'
  <2>1. /\ UNCHANGED <<plan, todo, news, runs, timer, polled, rearm>>
        /\ pc[u] \in TriggerSteps
        /\ \A v \in Threads \ {u} : pc'[v] = pc[v]
    BY <1>23, GotoType DEF LockTask, Steps, TriggerSteps
  <2> QED
    BY <2>1, KeepsLoop, Places
<1>24. ASSUME NEW u \in Threads, TriggerStarts(u)
      PROVE  LoopOK'
  <2>1. PICK x \in Workers : x = Head(todo[u]) /\ x # u
    BY <1>24, Trigger, Fresh DEF TriggerStarts
  <2>2. pc[u] = "target"
    BY <1>24 DEF TriggerStarts
  <2>3. Starts(x) /\ Spawns(x, u, "watch") /\ UNCHANGED <<plan, polled, rearm>>
    BY <1>24, <2>1 DEF TriggerStarts, TriggerDone
  <2>4. /\ pc'[Loop] \in TriggerSteps => pc[Loop] \in TriggerSteps
        /\ news'[Loop] = news[Loop]
    BY <2>1, <2>2, <2>3, SpawnsType, Places DEF Steps, TriggerSteps
  <2>5. /\ \A v \in Workers \ {x} : runs'[v] = runs[v] /\ timer'[v] = timer[v]
        /\ runs'[x] = runs[x] + 1 /\ runs[x] \in Nat
    BY <2>1, <2>3, StartsType DEF TypeOK
  <2>6. polled \in Workers
    BY DEF TypeOK
  <2>7. ASSUME pc[Loop] \in TriggerSteps
        PROVE  runs'[polled] # 0 /\ (runs'[polled] = 1 => ~timer'[polled])
    BY <2>5, <2>6, <2>7 DEF LoopOK
  <2> QED
    BY <2>3, <2>4, <2>7 DEF LoopOK, Transfer, Kind
<1>25. ASSUME NEW u \in Threads, TriggerFails(u)
      PROVE  LoopOK'
  <2>1. /\ UNCHANGED <<plan, news, runs, timer, polled, rearm>> /\ pc[u] = "target"
        /\ u = Loop \/ todo'[Loop] = todo[Loop]
    BY <1>25, Places DEF TriggerFails, TriggerDone, StartFails, TypeOK
  <2>2. pc'[u] = "watch" /\ \A v \in Threads \ {u} : pc'[v] = pc[v]
    BY <1>25, GotoType DEF TriggerFails, Steps, TriggerSteps
  <2>3. u = Loop => todo[Loop] # <<>>
    BY <2>1 DEF ThreadsOK
  <2> QED
    BY <2>1, <2>2, <2>3, KeepsLoop, Places DEF TriggerSteps
<1>26. ASSUME NEW u \in Threads, TriggerSkips(u)
      PROVE  LoopOK'
  <2>1. /\ UNCHANGED <<plan, news, runs, timer, polled, rearm>> /\ pc[u] = "target"
        /\ u = Loop \/ todo'[Loop] = todo[Loop]
    BY <1>26, Places DEF TriggerSkips, TriggerDone, StartFails, TypeOK
  <2>2. pc'[u] = "watch" /\ \A v \in Threads \ {u} : pc'[v] = pc[v]
    BY <1>26, GotoType DEF TriggerSkips, Steps, TriggerSteps
  <2>3. u = Loop => todo[Loop] # <<>>
    BY <2>1 DEF ThreadsOK
  <2> QED
    BY <2>1, <2>2, <2>3, KeepsLoop, Places DEF TriggerSteps
<1>27. ASSUME NEW w \in Workers, ThreadReports(w)
      PROVE  LoopOK'
  <2>1. /\ UNCHANGED <<plan, runs, timer, polled, rearm>>
        /\ todo'[Loop] = todo[Loop] /\ news'[Loop] = news[Loop]
    BY <1>27, Places DEF ThreadReports, TypeOK
  <2>2. pc'[Loop] = pc[Loop]
    BY <1>27, GotoType, Places DEF ThreadReports, Steps, TriggerSteps, ThreadSteps
  <2> QED
    BY <2>1, <2>2, KeepsLoop
<1>28. ASSUME NEW w \in Workers, FileDone(w)
      PROVE  LoopOK'
  <2>1. /\ UNCHANGED <<plan, runs, timer, polled, rearm>>
        /\ todo'[Loop] = todo[Loop] /\ news'[Loop] = news[Loop]
    BY <1>28, Places DEF FileDone, TypeOK
  <2>2. pc'[Loop] = pc[Loop]
    BY <1>28, GotoType, Places DEF FileDone, Steps, TriggerSteps, ThreadSteps
  <2> QED
    BY <2>1, <2>2, KeepsLoop
<1>29. ASSUME NEW w \in Workers, TransferDone(w)
      PROVE  LoopOK'
  <2>1. /\ UNCHANGED <<plan, runs, timer, polled, rearm>>
        /\ todo'[Loop] = todo[Loop] /\ news'[Loop] = news[Loop]
    BY <1>29, Places DEF TransferDone, TypeOK
  <2>2. pc'[Loop] = pc[Loop]
    BY <1>29, GotoType, Places DEF TransferDone, Steps, TriggerSteps, ThreadSteps
  <2> QED
    BY <2>1, <2>2, KeepsLoop
<1>30. ASSUME NEW w \in Workers, ThreadLeaves(w)
      PROVE  LoopOK'
  <2>1. /\ UNCHANGED <<plan, runs, timer, polled, rearm>>
        /\ todo'[Loop] = todo[Loop] /\ news'[Loop] = news[Loop]
    BY <1>30, Places DEF ThreadLeaves, TypeOK
  <2>2. pc'[Loop] = pc[Loop]
    BY <1>30, GotoType, Places DEF ThreadLeaves, Steps, TriggerSteps, ThreadSteps
  <2> QED
    BY <2>1, <2>2, KeepsLoop
<1>31. ASSUME NEW w \in Workers, KernelRuns(w) \/ KernelEnds(w)
      PROVE  LoopOK'
  BY <1>31, KeepsLoop DEF KernelRuns, KernelEnds, Kernel
<1>32. ASSUME NEW w \in Workers, StatusCallFails(w)
      PROVE  LoopOK'
  BY <1>32, LoopAway DEF StatusCallFails, Fires, LoopAt, LoopSteps
<1>33. ASSUME NEW w \in Workers, MkTimer(w) \/ MssTimer(w)
      PROVE  LoopOK'
  <2>1. PICK st \in Statuses, again \in BOOLEAN :
          /\ ~Transfer(w) /\ LoopAt("idle") /\ timer[w] /\ Poll(w, st, again)
          /\ again => st # "end"
          /\ ~again => st \in Over
    BY <1>33, Polls
  <2>2. pc'[Loop] = "watch" /\ news'[Loop] = st
    BY <2>1, PollType
  <2>3. /\ UNCHANGED <<plan, runs>> /\ polled' = w /\ rearm' = again
        /\ timer'[w] = FALSE
    BY <2>1 DEF Poll, TypeOK
  <2>4. runs[w] # 0
    BY <2>1 DEF WorkersOK, WorkerOK
  <2> QED
    BY <2>1, <2>2, <2>3, <2>4 DEF LoopOK, Transfer, Kind
<1>34. CASE UNCHANGED vars
  BY <1>34, KeepsLoop DEF vars
<1>35. ASSUME NEW u \in Threads, TimersBreak(u) \/ Hangs(u)
      PROVE  LoopOK'
  BY <1>35, KeepsLoop DEF TimersBreak, Hangs, vars
<1> QED
  BY <1>1, <1>2, <1>3, <1>4, <1>5, <1>6, <1>7, <1>8, <1>9, <1>10, <1>11, <1>12, <1>13,
     <1>14, <1>15, <1>16, <1>17, <1>18, <1>19, <1>20, <1>21, <1>22, <1>23, <1>24, <1>25,
     <1>26, <1>27, <1>28, <1>29, <1>30, <1>31, <1>32, <1>33, <1>34, <1>35 DEF Next,
     StartStep, StopStep, CheckStep, TriggerStep, ThreadStep, PollStep, Gone

-----------------------------------------------------------------------------
(* Most steps leave the workers, their threads and what is pending alone.  *)

Aside ==
  /\ UNCHANGED <<plan, status, timer, runs, lost, todo, news, polled, rearm>>
  /\ \A w \in Workers : Alive(w)' <=> Alive(w)
  /\ \A w \in Workers : workMtx'[w] = Loop => workMtx[w] = Loop \/ status[w] \in Over
  /\ (pc'[Loop] \in TriggerSteps) <=> (pc[Loop] \in TriggerSteps)
  /\ (pc'[Loop] = "spawned") <=> (pc[Loop] = "spawned")
  /\ pc[Loop] = "spawned" => at' = at

Cases ==
  \/ Aside
  \/ StartTaskFails \/ StartMaster \/ StartMasterFails \/ WriteStart
  \/ MastersStarted /\ plan.master = {}
  \/ LoopReports
  \/ \E u \in Threads : TriggerStarts(u) \/ TriggerFails(u) \/ TriggerSkips(u)
  \/ \E w \in Workers : \/ ThreadReports(w) \/ FileDone(w) \/ TransferDone(w)
                        \/ StatusCallFails(w) \/ MkTimer(w) \/ MssTimer(w)

LEMMA NothingMoves ==
  ASSUME UNCHANGED <<plan, status, timer, runs, lost, todo, news, polled, rearm, pc>>,
         at' = at \/ pc[Loop] # "spawned",
         \A w \in Workers : workMtx'[w] = Loop => workMtx[w] = Loop \/ status[w] \in Over
  PROVE  Aside
BY DEF Aside, Alive

LEMMA LoopGoes ==
  ASSUME TypeOK, NEW step \in LoopSteps \ {"spawned"}, Goto(Loop, step),
         pc[Loop] \notin TriggerSteps \cup {"spawned"}, workMtx' = workMtx,
         UNCHANGED <<plan, status, timer, runs, lost, todo, news, polled, rearm>>
  PROVE  Aside
<1>1. pc'[Loop] = step /\ \A w \in Workers : pc'[w] = pc[w]
  BY GotoType, Places DEF Steps
<1> QED
  BY <1>1 DEF Aside, Alive, LoopSteps, TriggerSteps

LEMMA ThreadGoes ==
  ASSUME TypeOK, NEW u \in Threads, NEW step \in Steps, Goto(u, step),
         \/ pc[u] \in TriggerSteps /\ step \in TriggerSteps
         \/ u # Loop /\ pc[u] = "leave" /\ step = "done",
         UNCHANGED <<plan, status, timer, runs, lost, todo, news, polled, rearm, at, workMtx>>
  PROVE  Aside
<1>1. pc'[u] = step /\ \A v \in Threads \ {u} : pc'[v] = pc[v]
  BY GotoType
<1>2. \A w \in Workers : Alive(w)' <=> Alive(w)
  BY <1>1, Places DEF Alive, TriggerSteps
<1> QED
  BY <1>1, <1>2, Places DEF Aside, TriggerSteps

LEMMA StepCases ==
  ASSUME IInv, [Next]_vars
  PROVE  Cases
<1> TypeOK /\ ThreadsOK
  BY DEF IInv
<1>1. CASE StartTask
  BY <1>1, LoopGoes DEF StartTask, LoopAt, Cases, LoopSteps, TriggerSteps
<1>2. CASE StartTaskFails
  BY <1>2, Places DEF Cases
<1>3. CASE StartMaster
  BY <1>3, Places DEF Cases
<1>4. CASE StartMasterFails
  BY <1>4, Places DEF Cases
<1>5. CASE WriteStart
  BY <1>5, Places DEF Cases
<1>6. CASE SkipWorker
  BY <1>6, NothingMoves DEF SkipWorker, LoopAt, Cases
<1>7. CASE MastersStarted
  <2>1. CASE plan.master = {}
    BY <1>7, <2>1 DEF Cases
  <2>2. CASE plan.master # {}
    BY <1>7, <2>2, LoopGoes DEF MastersStarted, LoopAt, Cases, LoopSteps, TriggerSteps
  <2> QED
    BY <2>1, <2>2
<1>8. CASE StartReport
  BY <1>8, LoopGoes DEF StartReport, LoopAt, Cases, LoopSteps, TriggerSteps
<1>9. CASE StopRequest
  BY <1>9, LoopGoes DEF StopRequest, LoopAt, Cases, LoopSteps, TriggerSteps
<1>10. CASE StopFindsTask
  BY <1>10, LoopGoes DEF StopFindsTask, LoopAt, Cases, LoopSteps, TriggerSteps
<1>11. CASE StopLocksTask
  BY <1>11, LoopGoes DEF StopLocksTask, LoopAt, Cases, LoopSteps, TriggerSteps
<1>12. CASE StopWorker
  <2>1. \A w \in Workers : workMtx'[w] = Loop => workMtx[w] = Loop \/ status[w] \in Over
    BY <1>12 DEF StopWorker, TypeOK
  <2> QED
    BY <1>12, <2>1, NothingMoves DEF StopWorker, LoopAt, Cases
<1>13. CASE StopDone
  BY <1>13, LoopGoes DEF StopDone, LoopAt, Cases, LoopSteps, TriggerSteps
<1>14. CASE TaskTimer
  BY <1>14, LoopGoes DEF TaskTimer, LoopAt, Cases, LoopSteps, TriggerSteps
<1>15. CASE CheckWorkers
  <2>1. PICK step \in LoopSteps \ {"spawned"} : Goto(Loop, step)
    BY <1>15 DEF CheckWorkers, LoopSteps
  <2> QED
    BY <1>15, <2>1, LoopGoes DEF CheckWorkers, LoopAt, Cases, TriggerSteps
<1>16. CASE Report
  <2>1. PICK step \in LoopSteps \ {"spawned"} : Goto(Loop, step)
    BY <1>16 DEF Report, LoopSteps
  <2> QED
    BY <1>16, <2>1, LoopGoes DEF Report, LoopAt, Cases, TriggerSteps
<1>17. CASE TaskTimerAgain
  <2>1. PICK step \in LoopSteps \ {"spawned"} : Goto(Loop, step)
    BY <1>17 DEF TaskTimerAgain, LoopSteps
  <2> QED
    BY <1>17, <2>1, LoopGoes DEF TaskTimerAgain, LoopAt, Cases, TriggerSteps
<1>18. CASE RestartStops
  <2>1. PICK step \in LoopSteps \ {"spawned"} : Goto(Loop, step)
    BY <1>18 DEF RestartStops, LoopSteps
  <2> QED
    BY <1>18, <2>1, LoopGoes DEF RestartStops, LoopAt, Cases, TriggerSteps
<1>19. CASE DestroyLocksList
  BY <1>19, LoopGoes DEF DestroyLocksList, LoopAt, Cases, LoopSteps, TriggerSteps
<1>20. CASE DestroyTask
  BY <1>20, LoopGoes DEF DestroyTask, LoopAt, Cases, LoopSteps, TriggerSteps
<1>21. CASE LoopReports
  BY <1>21, Places DEF Cases
<1>22. ASSUME NEW u \in Threads, FindTask(u)
      PROVE  Cases
  BY <1>22, ThreadGoes DEF FindTask, Cases, TriggerSteps, Steps
<1>23. ASSUME NEW u \in Threads, LockTask(u)
      PROVE  Cases
  BY <1>23, ThreadGoes DEF LockTask, Cases, TriggerSteps, Steps
<1>24. ASSUME NEW u \in Threads, TriggerStarts(u)
      PROVE  Cases
  BY <1>24, Places DEF Cases
<1>25. ASSUME NEW u \in Threads, TriggerFails(u)
      PROVE  Cases
  BY <1>25, Places DEF Cases
<1>26. ASSUME NEW u \in Threads, TriggerSkips(u)
      PROVE  Cases
  BY <1>26, Places DEF Cases
<1>27. ASSUME NEW w \in Workers, ThreadReports(w)
      PROVE  Cases
  BY <1>27, Places DEF Cases
<1>28. ASSUME NEW w \in Workers, FileDone(w)
      PROVE  Cases
  BY <1>28, Places DEF Cases
<1>29. ASSUME NEW w \in Workers, TransferDone(w)
      PROVE  Cases
  BY <1>29, Places DEF Cases
<1>30. ASSUME NEW w \in Workers, ThreadLeaves(w)
      PROVE  Cases
  BY <1>30, ThreadGoes, Places DEF ThreadLeaves, Cases, ThreadSteps, Steps
<1>31. ASSUME NEW w \in Workers, KernelRuns(w) \/ KernelEnds(w)
      PROVE  Cases
  BY <1>31, NothingMoves DEF KernelRuns, KernelEnds, Kernel, Cases
<1>32. ASSUME NEW w \in Workers, StatusCallFails(w)
      PROVE  Cases
  BY <1>32, Places DEF Cases
<1>33. ASSUME NEW w \in Workers, MkTimer(w) \/ MssTimer(w)
      PROVE  Cases
  BY <1>33, Places DEF Cases
<1>34. CASE UNCHANGED vars
  BY <1>34, NothingMoves DEF vars, Cases
<1>35. ASSUME NEW u \in Threads, TimersBreak(u) \/ Hangs(u)
      PROVE  Cases
  BY <1>35, NothingMoves DEF TimersBreak, Hangs, vars, Cases
<1> QED
  BY <1>1, <1>2, <1>3, <1>4, <1>5, <1>6, <1>7, <1>8, <1>9, <1>10, <1>11, <1>12, <1>13,
     <1>14, <1>15, <1>16, <1>17, <1>18, <1>19, <1>20, <1>21, <1>22, <1>23, <1>24, <1>25,
     <1>26, <1>27, <1>28, <1>29, <1>30, <1>31, <1>32, <1>33, <1>34, <1>35 DEF Next,
     StartStep, StopStep, CheckStep, TriggerStep, ThreadStep, PollStep, Gone

LEMMA PristineStep ==
  ASSUME IInv, [Next]_vars
  PROVE  PristineOK'
<1> PristineOK
  BY DEF IInv
<1>1. CASE UNCHANGED vars
  BY <1>1 DEF PristineOK, vars
<1>2. CASE StartTask \/ StartTaskFails
  BY <1>2 DEF StartTask, StartTaskFails, PristineOK
<1>3. CASE Gone
  BY <1>3 DEF Gone, PristineOK, vars
<1>4. ASSUME task = "listed",
             \/ StartStep \/ StopRequest \/ StopStep \/ TaskTimer \/ CheckStep
             \/ LoopReports
             \/ \E u \in Threads : TriggerStep(u)
             \/ \E w \in Workers : ThreadStep(w) \/ KernelRuns(w)
                                 \/ KernelEnds(w) \/ PollStep(w)
      PROVE  task' # "none"
  <2>1. CASE StartStep
    BY <1>4, <2>1 DEF StartStep, StartMaster, StartMasterFails, WriteStart, SkipWorker,
         MastersStarted, StartReport
  <2>2. CASE StopRequest \/ StopStep \/ TaskTimer \/ LoopReports
    BY <1>4, <2>2 DEF StopRequest, StopStep, StopFindsTask, StopLocksTask, StopWorker,
         StopDone, TaskTimer, LoopReports
  <2>3. CASE CheckStep
    BY <1>4, <2>3 DEF CheckStep, CheckWorkers, Report, TaskTimerAgain, RestartStops,
         DestroyLocksList, DestroyTask
  <2>4. ASSUME NEW u \in Threads, TriggerStep(u)
        PROVE  task' # "none"
    BY <1>4, <2>4 DEF TriggerStep, FindTask, LockTask, TriggerStarts, TriggerFails,
         TriggerSkips, TriggerDone, TimersBreak, Hangs, vars
  <2>5. ASSUME NEW w \in Workers, ThreadStep(w)
        PROVE  task' # "none"
    BY <1>4, <2>5 DEF ThreadStep, ThreadReports, FileDone, TransferDone, ThreadLeaves
  <2>6. ASSUME NEW w \in Workers, KernelRuns(w) \/ KernelEnds(w)
        PROVE  task' # "none"
    BY <1>4, <2>6 DEF KernelRuns, KernelEnds, Kernel
  <2>7. ASSUME NEW w \in Workers, PollStep(w)
        PROVE  task' # "none"
    BY <1>4, <2>7 DEF PollStep, MkTimer, StatusCallFails, MssTimer, MssTimerInit,
         MssTimerRequest, MssTimerRun, MssTimerEnd, Poll
  <2> QED
    BY <1>4, <2>1, <2>2, <2>3, <2>4, <2>5, <2>6, <2>7
<1> QED
  BY <1>1, <1>2, <1>3, <1>4 DEF Next, PristineOK

-----------------------------------------------------------------------------
(* The masters of the task.                                                *)

LEMMA NextPlace ==
  ASSUME NEW a \in Nat, NEW w \in Nat
  PROVE  /\ w > a + 1 \/ w = a + 1 => w > a
         /\ w < a + 1 => w < a \/ w = a
         /\ w > a => w # a
OBVIOUS

LEMMA KeepsMasters ==
  ASSUME MastersOK, plan' = plan, task # "none" \/ task' = task,
         \/ pc'[Loop] = pc[Loop] /\ UNCHANGED <<at, workMtx>>
         \/ ~Starting /\ pc'[Loop] \notin {"masters", "spawned"},
         plan.master \subseteq Workers,
         \A w \in Workers :
           \/ runs'[w] = runs[w] /\ (status'[w] = status[w] \/ runs[w] # 0)
           \/ ~Starting /\ runs'[w] # 0 /\ (w \in plan.master => runs[w] # 0),
         plan.master # {} \/ (runs' = runs /\ status' = status)
  PROVE  MastersOK'
<1>1. CASE pc'[Loop] = pc[Loop] /\ UNCHANGED <<at, workMtx>>
  <2> USE <1>1 DEF MastersOK, Starting, LoopAt
  <2>1. LoopAt("spawned") => at \in plan.master /\ Transfer(at) /\ runs'[at] = 1
    OBVIOUS
  <2>2. plan.master = {} => \A w \in Workers : runs'[w] = 0
    OBVIOUS
  <2>3. Starting => \A w \in Workers :
          w \notin plan.master \/ w > at \/ (w = at /\ LoopAt("masters"))
            => runs'[w] = 0 /\ status'[w] = "init"
    OBVIOUS
  <2>4. Starting => \A w \in plan.master : w < at /\ runs'[w] = 0 => status'[w] = "break"
    OBVIOUS
  <2>5. ~Starting /\ task' # "none" =>
          /\ \A w \in plan.master : runs'[w] = 0 => status'[w] = "break"
          /\ plan.master = {} => \A w \in Workers : status'[w] = "break"
    OBVIOUS
  <2> QED
    BY <2>1, <2>2, <2>3, <2>4, <2>5 DEF Transfer, Kind
<1>2. CASE ~Starting /\ pc'[Loop] \notin {"masters", "spawned"}
  BY <1>2 DEF MastersOK, Starting, LoopAt
<1> QED
  BY <1>1, <1>2

LEMMA MastersStep ==
  ASSUME IInv, [Next]_vars
  PROVE  MastersOK'
<1> /\ TypeOK /\ TypeOK' /\ PristineOK /\ ThreadsOK /\ LoopOK /\ MastersOK /\ WorkersOK
    /\ plan.master \subseteq Workers
  BY TypeStep, MastersIn DEF IInv
<1> at \in Nat /\ N \in Nat /\ \A w \in Workers : w \in Nat /\ w < N + 1
  BY NAssumption DEF TypeOK, Workers
<1> plan.master \subseteq Nat
  OBVIOUS
<1>1. CASE StartTask
  <2>1. /\ UNCHANGED <<plan, workMtx, status, runs>> /\ task = "none"
        /\ pc'[Loop] = "masters" /\ at' = 1
    BY <1>1, GotoType, Places DEF StartTask, Steps, LoopSteps
  <2>2. \A w \in Workers : workMtx[w] = Nobody /\ runs[w] = 0 /\ status[w] = "init"
    <3>1. \A w \in Workers : runs[w] = 0 /\ status[w] = "init"
      BY <2>1 DEF PristineOK
    <3>2. \A w \in Workers : workMtx[w] # Loop
      BY <3>1 DEF WorkersOK, WorkerOK, Over
    <3>3. \A w \in Workers : workMtx[w] \in {Nobody, Loop}
      BY DEF TypeOK
    <3> QED
      BY <3>1, <3>2, <3>3
  <2>3. \A w \in Workers : ~(w < 1)
    BY DEF Workers
  <2> QED
    BY <2>1, <2>2, <2>3 DEF MastersOK, Starting, LoopAt
<1>2. CASE StartTaskFails
  <2>1. /\ UNCHANGED <<plan, runs>> /\ task = "none" /\ pc'[Loop] = "idle"
        /\ \A w \in Workers : status'[w] = "break"
    BY <1>2 DEF StartTaskFails, LoopAt, AllBreak
  <2> QED
    BY <2>1 DEF MastersOK, Starting, LoopAt
<1>3. CASE StartMaster
  <2>1. PICK m \in Workers : m = at
    BY <1>3 DEF StartMaster
  <2>2. /\ m \in plan.master /\ LoopAt("masters") /\ runs[m] = 0
        /\ UNCHANGED <<plan, task, workMtx, status>>
    BY <1>3, <2>1 DEF StartMaster, MastersOK, Starting, LoopAt
  <2>3. runs'[m] = 1 /\ \A w \in Workers \ {m} : runs'[w] = runs[w]
    <3>1. Starts(m)
      BY <1>3, <2>1 DEF StartMaster
    <3>2. runs'[m] = runs[m] + 1 /\ \A w \in Workers \ {m} : runs'[w] = runs[w]
      BY <3>1, StartsType
    <3> QED
      BY <2>2, <3>2
  <2>4. CASE Transfer(m)
    <3>1. Spawns(m, Loop, "spawned") /\ at' = at
      BY <1>3, <2>1, <2>4 DEF StartMaster, Transfer
    <3>2. pc'[Loop] = "spawned"
      BY <3>1, SpawnsType, Places DEF Steps, LoopSteps
    <3>3. \A w \in Workers : w > at \/ w < at \/ w \notin plan.master => w # m
      BY <2>1, <2>2
    <3> QED
      BY <2>1, <2>2, <2>3, <2>4, <3>1, <3>2, <3>3 DEF MastersOK, Starting, LoopAt,
         Transfer, Kind
  <2>5. CASE ~Transfer(m)
    <3>1. Spawns(m, Loop, "masters") /\ at' = at + 1
      BY <1>3, <2>1, <2>5 DEF StartMaster, Transfer
    <3>2. pc'[Loop] = "masters"
      BY <3>1, SpawnsType, Places DEF Steps, LoopSteps
    <3>3. \A w \in Workers : /\ w > at + 1 \/ w = at + 1 => w > at
                             /\ w < at + 1 => w < at \/ w = m
      BY <2>1, NextPlace
    <3>4. \A w \in Workers :
            /\ w \notin plan.master \/ w > at + 1 \/ w = at + 1
                 => runs'[w] = 0 /\ status'[w] = "init"
            /\ w \in plan.master /\ w < at + 1 /\ runs'[w] = 0 => status'[w] = "break"
      <4>1. \A w \in Workers : w \notin plan.master \/ w > at => w # m
        BY <2>1, <2>2, NextPlace
      <4>2. \A w \in Workers : w \notin plan.master \/ w > at + 1 \/ w = at + 1
                                 => runs'[w] = 0 /\ status'[w] = "init"
        BY <2>1, <2>2, <2>3, <3>3, <4>1 DEF MastersOK, Starting, LoopAt
      <4>3. \A w \in Workers : w \in plan.master /\ w < at + 1 /\ runs'[w] = 0
                                 => status'[w] = "break"
        BY <2>1, <2>2, <2>3, <3>3 DEF MastersOK, Starting, LoopAt
      <4> QED
        BY <4>2, <4>3
    <3> QED
      BY <2>2, <3>1, <3>2, <3>4 DEF MastersOK, Starting, LoopAt
  <2> QED
    BY <2>4, <2>5
<1>4. CASE StartMasterFails
  <2>1. PICK m \in Workers : m = at
    BY <1>4 DEF StartMasterFails
  <2>2. /\ LoopAt("masters") /\ UNCHANGED <<plan, task, workMtx, runs, pc>>
        /\ at' = at + 1 /\ m \in plan.master
        /\ status'[m] = "break" /\ \A w \in Workers \ {m} : status'[w] = status[w]
    BY <1>4, <2>1 DEF StartMasterFails, StartFails, TypeOK
  <2>3. \A w \in Workers : /\ w > at + 1 \/ w = at + 1 => w > at
                           /\ w < at + 1 => w < at \/ w = m
    BY <2>1, NextPlace
  <2>4. \A w \in Workers : w \notin plan.master \/ w > at => w # m
    BY <2>1, <2>2
  <2>5. \A w \in Workers :
          /\ w \notin plan.master \/ w > at + 1 \/ w = at + 1
               => runs'[w] = 0 /\ status'[w] = "init"
          /\ w \in plan.master /\ w < at + 1 /\ runs'[w] = 0 => status'[w] = "break"
    BY <2>2, <2>3, <2>4 DEF MastersOK, Starting, LoopAt
  <2> QED
    BY <2>2, <2>5 DEF MastersOK, Starting, LoopAt
<1>5. CASE WriteStart
  <2>1. PICK m \in Workers : m = at /\ m \in plan.master /\ runs[m] = 1
    BY <1>5 DEF WriteStart, MastersOK, LoopAt
  <2>2. /\ LoopAt("spawned") /\ UNCHANGED <<plan, task, workMtx, runs>>
        /\ at' = at + 1 /\ pc'[Loop] = "masters"
        /\ \A w \in Workers \ {m} : status'[w] = status[w]
    BY <1>5, <2>1, GotoType, Places DEF WriteStart, TypeOK, Steps, LoopSteps
  <2>3. \A w \in Workers : /\ w > at + 1 \/ w = at + 1 => w > at
                           /\ w < at + 1 => w < at \/ w = m
    BY <2>1, NextPlace
  <2>4. \A w \in Workers : w \notin plan.master \/ w > at => w # m
    BY <2>1
  <2> QED
    BY <2>1, <2>2, <2>3, <2>4 DEF MastersOK, Starting, LoopAt
<1>6. CASE SkipWorker
  <2>1. /\ LoopAt("masters") /\ UNCHANGED <<plan, task, workMtx, runs, pc, status>>
        /\ at' = at + 1 /\ at \notin plan.master
    BY <1>6 DEF SkipWorker
  <2>2. \A w \in Workers : /\ w > at + 1 \/ w = at + 1 => w > at
                           /\ w < at + 1 => w < at \/ w = at
    BY NextPlace
  <2> QED
    BY <2>1, <2>2 DEF MastersOK, Starting, LoopAt
<1>7. CASE MastersStarted
  <2>1. /\ UNCHANGED <<plan, task, runs>> /\ LoopAt("masters") /\ at = N + 1
        /\ plan.master # {} => UNCHANGED status
        /\ plan.master = {} => \A w \in Workers : status'[w] = "break"
    BY <1>7 DEF MastersStarted, AllBreak
  <2>2. pc'[Loop] \in {"idle", "startReport"}
    BY <1>7, GotoType, Places DEF MastersStarted, Steps, LoopSteps
  <2>3. \A w \in plan.master : w < at
    BY <2>1
  <2> QED
    BY <2>1, <2>2, <2>3 DEF MastersOK, Starting, LoopAt
<1>8. CASE StartReport
  BY <1>8, GotoType, Places, KeepsMasters DEF StartReport, LoopAt, Starting, LoopSteps,
     Steps
<1>9. CASE StopRequest
  BY <1>9, GotoType, Places, KeepsMasters DEF StopRequest, LoopAt, Starting, LoopSteps,
     Steps
<1>10. CASE StopFindsTask
  BY <1>10, GotoType, Places, KeepsMasters DEF StopFindsTask, LoopAt, Starting,
     LoopSteps, Steps
<1>11. CASE StopLocksTask
  BY <1>11, GotoType, Places, KeepsMasters DEF StopLocksTask, LoopAt, Starting,
     LoopSteps, Steps
<1>12. CASE StopWorker
  BY <1>12, KeepsMasters DEF StopWorker, LoopAt, Starting
<1>13. CASE StopDone
  BY <1>13, GotoType, Places, KeepsMasters DEF StopDone, LoopAt, Starting, LoopSteps,
     Steps
<1>14. CASE TaskTimer
  BY <1>14, GotoType, Places, KeepsMasters DEF TaskTimer, LoopAt, Starting, LoopSteps,
     Steps
<1>15. CASE CheckWorkers
  <2>1. PICK step \in LoopSteps \ {"masters", "spawned"} : Goto(Loop, step)
    BY <1>15 DEF CheckWorkers, LoopSteps
  <2>2. pc'[Loop] = step
    BY <2>1, GotoType, Places DEF Steps
  <2> QED
    BY <1>15, <2>2, KeepsMasters DEF CheckWorkers, Starting, LoopAt
<1>16. CASE Report
  <2>1. PICK step \in LoopSteps \ {"masters", "spawned"} : Goto(Loop, step)
    BY <1>16 DEF Report, LoopSteps
  <2>2. pc'[Loop] = step
    BY <2>1, GotoType, Places DEF Steps
  <2> QED
    BY <1>16, <2>2, KeepsMasters DEF Report, Starting, LoopAt
<1>17. CASE TaskTimerAgain
  <2>1. PICK step \in LoopSteps \ {"masters", "spawned"} : Goto(Loop, step)
    BY <1>17 DEF TaskTimerAgain, LoopSteps
  <2>2. pc'[Loop] = step
    BY <2>1, GotoType, Places DEF Steps
  <2> QED
    BY <1>17, <2>2, KeepsMasters DEF TaskTimerAgain, Starting, LoopAt
<1>18. CASE RestartStops
  <2>1. PICK step \in LoopSteps \ {"masters", "spawned"} : Goto(Loop, step)
    BY <1>18 DEF RestartStops, LoopSteps
  <2>2. pc'[Loop] = step
    BY <2>1, GotoType, Places DEF Steps
  <2> QED
    BY <1>18, <2>2, KeepsMasters DEF RestartStops, Starting, LoopAt
<1>19. CASE DestroyLocksList
  BY <1>19, GotoType, Places, KeepsMasters DEF DestroyLocksList, LoopAt, Starting,
     LoopSteps, Steps
<1>20. CASE DestroyTask
  <2>1. /\ UNCHANGED <<plan, runs, status>> /\ LoopAt("destroyTask") /\ task # "none"
    BY <1>20 DEF DestroyTask, PristineOK, LoopAt
  <2>2. pc'[Loop] = "idle"
    BY <1>20, GotoType, Places DEF DestroyTask, Steps, LoopSteps
  <2> QED
    BY <2>1, <2>2, KeepsMasters DEF Starting, LoopAt
<1>21. CASE LoopReports
  <2>1. /\ UNCHANGED <<plan, task, runs, at, workMtx>> /\ LoopAt("watch")
        /\ runs[polled] # 0
        /\ \A v \in Workers \ {polled} : status'[v] = status[v]
    BY <1>21 DEF LoopReports, WrittenStatus, Watched, TypeOK, LoopOK, LoopAt,
       TriggerSteps
  <2>2. pc'[Loop] = "idle"
    BY <1>21, GotoType, Places DEF LoopReports, Steps, LoopSteps
  <2>3. plan.master # {}
    BY <2>1 DEF MastersOK, TypeOK
  <2> QED
    BY <2>1, <2>2, <2>3, KeepsMasters DEF Starting, LoopAt
<1>22. ASSUME NEW u \in Threads, FindTask(u)
      PROVE  MastersOK'
  <2>1. /\ UNCHANGED <<plan, task, runs, status, at, workMtx>> /\ pc[u] \in TriggerSteps
        /\ pc'[u] \in TriggerSteps /\ \A v \in Threads \ {u} : pc'[v] = pc[v]
    BY <1>22, GotoType DEF FindTask, Steps, TriggerSteps
  <2> QED
    BY <2>1, KeepsMasters, Places DEF Starting, TriggerSteps
<1>23. ASSUME NEW u \in Threads, LockTask(u)
      PROVE  MastersOK'
  <2>1. /\ UNCHANGED <<plan, task, runs, status, at, workMtx>> /\ pc[u] \in TriggerSteps
        /\ pc'[u] \in TriggerSteps /\ \A v \in Threads \ {u} : pc'[v] = pc[v]
    BY <1>23, GotoType DEF LockTask, Steps, TriggerSteps
  <2> QED
    BY <2>1, KeepsMasters, Places DEF Starting, TriggerSteps
<1>24. ASSUME NEW u \in Threads, TriggerStarts(u)
      PROVE  MastersOK'
  <2>1. PICK x \in Workers : x = Head(todo[u]) /\ x # u
    BY <1>24, Trigger, Fresh DEF TriggerStarts
  <2>2. pc[u] = "target" /\ status[x] = "init" /\ ~Starting /\ \E w \in Workers : runs[w] # 0
    BY <1>24, <2>1, Trigger DEF TriggerStarts
  <2>3. /\ Starts(x) /\ Spawns(x, u, "watch")
        /\ UNCHANGED <<plan, task, at, workMtx>>
    BY <1>24, <2>1 DEF TriggerStarts, TriggerDone
  <2>4. plan.master # {} /\ task # "none"
    BY <2>2 DEF MastersOK, PristineOK
  <2>5. x \in plan.master => runs[x] # 0
    BY <2>2, <2>4 DEF MastersOK
  <2>6. /\ runs'[x] # 0 /\ \A w \in Workers \ {x} : runs'[w] = runs[w]
        /\ \A w \in Workers \ {x} : status'[w] = status[w]
    <3>1. runs'[x] = runs[x] + 1 /\ \A w \in Workers \ {x} : runs'[w] = runs[w]
      BY <2>3, StartsType
    <3>2. runs[x] + 1 # 0
      BY DEF TypeOK
    <3> QED
      BY <1>24, <2>1, <3>1, <3>2 DEF TriggerStarts, TypeOK
  <2>7. pc'[Loop] = pc[Loop] \/ (u = Loop /\ pc'[Loop] = "watch")
    BY <2>1, <2>3, SpawnsType, Places DEF Steps, TriggerSteps
  <2> QED
    BY <2>2, <2>3, <2>4, <2>5, <2>6, <2>7, KeepsMasters
<1>25. ASSUME NEW u \in Threads, TriggerFails(u)
      PROVE  MastersOK'
  <2>1. /\ UNCHANGED <<plan, task, runs, status, at, workMtx>> /\ pc[u] = "target"
    BY <1>25 DEF TriggerFails, TriggerDone, StartFails
  <2>2. pc'[u] = "watch" /\ \A v \in Threads \ {u} : pc'[v] = pc[v]
    BY <1>25, GotoType DEF TriggerFails, Steps, TriggerSteps
  <2> QED
    BY <2>1, <2>2, KeepsMasters, Places DEF Starting
<1>26. ASSUME NEW u \in Threads, TriggerSkips(u)
      PROVE  MastersOK'
  <2>1. /\ UNCHANGED <<plan, task, runs, status, at, workMtx>> /\ pc[u] = "target"
    BY <1>26 DEF TriggerSkips, TriggerDone, StartFails
  <2>2. pc'[u] = "watch" /\ \A v \in Threads \ {u} : pc'[v] = pc[v]
    BY <1>26, GotoType DEF TriggerSkips, Steps, TriggerSteps
  <2> QED
    BY <2>1, <2>2, KeepsMasters, Places DEF Starting
<1>27. ASSUME NEW w \in Workers, ThreadReports(w)
      PROVE  MastersOK'
  <2>1. /\ UNCHANGED <<plan, task, runs, at, workMtx>> /\ runs[w] # 0
        /\ \A v \in Workers \ {w} : status'[v] = status[v]
    BY <1>27, Places DEF ThreadReports, WrittenStatus, Watched, TypeOK, ThreadsOK,
       ThreadOK
  <2>2. pc'[Loop] = pc[Loop]
    BY <1>27, GotoType, Places DEF ThreadReports, Steps, TriggerSteps, ThreadSteps
  <2>3. plan.master # {}
    BY <2>1 DEF MastersOK
  <2> QED
    BY <2>1, <2>2, <2>3, KeepsMasters
<1>28. ASSUME NEW w \in Workers, FileDone(w)
      PROVE  MastersOK'
  <2>1. UNCHANGED <<plan, task, runs, status, at, workMtx>>
    BY <1>28 DEF FileDone
  <2>2. pc'[Loop] = pc[Loop]
    BY <1>28, GotoType, Places DEF FileDone, Steps, TriggerSteps, ThreadSteps
  <2> QED
    BY <2>1, <2>2, KeepsMasters
<1>29. ASSUME NEW w \in Workers, TransferDone(w)
      PROVE  MastersOK'
  <2>1. UNCHANGED <<plan, task, runs, status, at, workMtx>>
    BY <1>29 DEF TransferDone
  <2>2. pc'[Loop] = pc[Loop]
    BY <1>29, GotoType, Places DEF TransferDone, Steps, TriggerSteps, ThreadSteps
  <2> QED
    BY <2>1, <2>2, KeepsMasters
<1>30. ASSUME NEW w \in Workers, ThreadLeaves(w)
      PROVE  MastersOK'
  <2>1. UNCHANGED <<plan, task, runs, status, at, workMtx>>
    BY <1>30 DEF ThreadLeaves
  <2>2. pc'[Loop] = pc[Loop]
    BY <1>30, GotoType, Places DEF ThreadLeaves, Steps, TriggerSteps, ThreadSteps
  <2> QED
    BY <2>1, <2>2, KeepsMasters
<1>31. ASSUME NEW w \in Workers, KernelRuns(w) \/ KernelEnds(w)
      PROVE  MastersOK'
  BY <1>31, KeepsMasters DEF KernelRuns, KernelEnds, Kernel
<1>32. ASSUME NEW w \in Workers, StatusCallFails(w)
      PROVE  MastersOK'
  BY <1>32, KeepsMasters DEF StatusCallFails
<1>33. ASSUME NEW w \in Workers, MkTimer(w) \/ MssTimer(w)
      PROVE  MastersOK'
  <2>1. PICK st \in Statuses, again \in BOOLEAN :
          ~Transfer(w) /\ LoopAt("idle") /\ Poll(w, st, again)
    BY <1>33, Polls
  <2>2. pc'[Loop] = "watch"
    BY <2>1, PollType
  <2>3. UNCHANGED <<plan, task, runs, status, at>>
    BY <2>1 DEF Poll
  <2> QED
    BY <2>1, <2>2, <2>3, KeepsMasters DEF Starting, LoopAt
<1>34. CASE UNCHANGED vars
  BY <1>34, KeepsMasters DEF vars
<1>35. ASSUME NEW u \in Threads, TimersBreak(u) \/ Hangs(u)
      PROVE  MastersOK'
  <2>1. task # "none"
    BY <1>35, Places DEF TimersBreak, Hangs, PristineOK
  <2> QED
    BY <1>35, <2>1, KeepsMasters DEF TimersBreak, Hangs, vars
<1> QED
  BY <1>1, <1>2, <1>3, <1>4, <1>5, <1>6, <1>7, <1>8, <1>9, <1>10, <1>11, <1>12, <1>13,
     <1>14, <1>15, <1>16, <1>17, <1>18, <1>19, <1>20, <1>21, <1>22, <1>23, <1>24, <1>25,
     <1>26, <1>27, <1>28, <1>29, <1>30, <1>31, <1>32, <1>33, <1>34, <1>35 DEF Next,
     StartStep, StopStep, CheckStep, TriggerStep, ThreadStep, PollStep, Gone

-----------------------------------------------------------------------------
(* The status of the workers.                                              *)

\* The plan says which workers are which.
LEMMA KeepsPlan ==
  ASSUME plan' = plan
  PROVE  /\ Orderly' = Orderly
         /\ \A w : /\ Transfer(w)' <=> Transfer(w)
                   /\ OneStart(w)' <=> OneStart(w)
                   /\ Targets(w)' = Targets(w)
         /\ \A s, w : Only(s, w)' <=> Only(s, w)
<1>1. \A w : Kind(w)' = Kind(w) /\ SourcesIn(plan, w)' = SourcesIn(plan, w)
  BY DEF Kind, SourcesIn, TargetsIn
<1>2. \A w : OneStart(w)' <=> OneStart(w)
  BY <1>1 DEF OneStart
<1>3. \A W : StartedOnce(W)' <=> StartedOnce(W)
  BY <1>1, <1>2 DEF StartedOnce
<1>4. Orderly' = Orderly
  BY <1>3 DEF Orderly
<1>5. \A w : /\ Transfer(w)' <=> Transfer(w)
            /\ Targets(w)' = Targets(w)
  BY <1>1 DEF Transfer, Targets, TargetsIn
<1> QED
  BY <1>2, <1>4, <1>5 DEF Only

LEMMA KeepsWorker ==
  ASSUME NEW w \in Workers, WorkerOK(w), plan' = plan, runs'[w] = runs[w],
         timer'[w] = timer[w], status'[w] = status[w], w \in lost => w \in lost',
         Alive(w)' <=> Alive(w),
         workMtx'[w] = Loop => workMtx[w] = Loop \/ status[w] \in Over,
         Polled(w)' => Polled(w), Served(w) => Served(w)',
         pc[Loop] = "spawned" /\ at = w => pc'[Loop] = "spawned" /\ at' = w
  PROVE  WorkerOK(w)'
BY KeepsPlan DEF WorkerOK, LoopAt

\* The same, where the event loop stays in the watcher or out of it.
LEMMA KeepsOther ==
  ASSUME NEW w \in Workers, WorkerOK(w), plan' = plan, runs'[w] = runs[w],
         timer'[w] = timer[w], status'[w] = status[w], w \in lost => w \in lost',
         Alive(w)' <=> Alive(w), workMtx' = workMtx,
         (pc'[Loop] \in TriggerSteps) <=> (pc[Loop] \in TriggerSteps),
         UNCHANGED <<polled, rearm>>, news'[Loop] = news[Loop],
         pc[Loop] = "spawned" /\ at = w => pc'[Loop] = "spawned" /\ at' = w
  PROVE  WorkerOK(w)'
BY KeepsWorker DEF Polled, Served

LEMMA WorkersStep ==
  ASSUME IInv, [Next]_vars
  PROVE  WorkersOK'
<1> /\ TypeOK /\ PristineOK /\ ThreadsOK /\ LoopOK /\ MastersOK /\ WorkersOK
    /\ plan.master \subseteq Workers
  BY MastersIn DEF IInv
<1>runs. \A w \in Workers : /\ runs[w] = 0 \/ ~Transfer(w) => ~Alive(w)
                            /\ Alive(w) => runs[w] = 1 /\ Transfer(w)
  BY DEF ThreadsOK, ThreadOK, Alive, TriggerSteps, WorkersOK, WorkerOK
<1>1. CASE Aside
  <2>1. \A w \in Workers : (Polled(w)' => Polled(w)) /\ (Served(w) => Served(w)')
    BY <1>1 DEF Aside, Polled, Served
  <2> QED
    BY <1>1, <2>1, KeepsWorker DEF Aside, WorkersOK
<1>2. CASE StartTaskFails
  <2>1. /\ UNCHANGED <<plan, runs, timer, pc>> /\ \A w \in Workers : runs[w] = 0 /\ status'[w] = "break"
    BY <1>2 DEF StartTaskFails, AllBreak, PristineOK
  <2>2. \A w \in Workers : ~Alive(w)' /\ ~timer'[w]
    BY <1>runs, <2>1 DEF Alive, WorkersOK, WorkerOK
  <2> QED
    BY <2>1, <2>2 DEF WorkersOK, WorkerOK, Over
<1>3. CASE StartMaster
  <2>1. PICK m \in Workers : m = at
    BY <1>3 DEF StartMaster
  <2>2. /\ m \in plan.master /\ LoopAt("masters") /\ runs[m] = 0 /\ status[m] = "init"
        /\ workMtx[m] = Nobody
        /\ UNCHANGED <<plan, workMtx, status, lost, polled, rearm>> /\ Starts(m)
    BY <1>3, <2>1 DEF StartMaster, MastersOK, Starting, LoopAt
  <2>3. PICK step \in {"spawned", "masters"} : Spawns(m, Loop, step)
    BY <1>3, <2>1 DEF StartMaster
  <2>4. /\ pc'[Loop] = step /\ news'[Loop] = news[Loop]
        /\ Transfer(m) => pc'[m] = "watch"
        /\ ~Transfer(m) => pc'[m] = pc[m]
        /\ \A v \in Workers \ {m} : pc'[v] = pc[v]
    BY <2>3, SpawnsType, Places DEF Steps, LoopSteps
  <2>5. /\ runs'[m] = 1 /\ \A v \in Workers \ {m} : runs'[v] = runs[v] /\ timer'[v] = timer[v]
        /\ Transfer(m) => timer'[m] = timer[m]
        /\ ~Transfer(m) => timer'[m]
    BY <2>2, StartsType DEF TypeOK
  <2>6. ~Alive(m) /\ ~timer[m]
    BY <1>runs, <2>2 DEF WorkersOK, WorkerOK
  <2>7. WorkerOK(m)'
    <3>1. /\ (Alive(m)' <=> Transfer(m)) /\ (timer'[m] <=> ~Transfer(m)) /\ (Transfer(m)' <=> Transfer(m))
          /\ workMtx'[m] # Loop /\ status'[m] = "init"
      BY <2>2, <2>4, <2>5, <2>6 DEF Alive, TriggerSteps, Transfer, Kind, Nobody, Loop
    <3>2. Transfer(m) => pc'[Loop] = "spawned" /\ at' = m
      BY <1>3, <2>1, <2>4, SpawnsType, Places DEF StartMaster, Transfer, Steps, LoopSteps
    <3> QED
      BY <2>5, <3>1, <3>2 DEF WorkerOK, Over, LoopAt
  <2>8. \A w \in Workers \ {m} : WorkerOK(w)'
    BY <2>2, <2>4, <2>5, KeepsOther DEF WorkersOK, Alive, LoopAt, TriggerSteps
  <2> QED
    BY <2>7, <2>8 DEF WorkersOK
<1>4. CASE StartMasterFails
  <2>1. PICK m \in Workers : m = at
    BY <1>4 DEF StartMasterFails
  <2>2. /\ runs[m] = 0 /\ pc[Loop] # "spawned"
        /\ UNCHANGED <<plan, workMtx, lost, polled, rearm, runs, timer, pc, news>>
        /\ status'[m] = "break" /\ \A w \in Workers \ {m} : status'[w] = status[w]
    BY <1>4, <2>1 DEF StartMasterFails, StartFails, MastersOK, Starting, LoopAt, TypeOK
  <2>3. WorkerOK(m)'
    <3>1. ~Alive(m)' /\ ~timer'[m]
      BY <1>runs, <2>2 DEF Alive, WorkersOK, WorkerOK
    <3> QED
      BY <2>2, <3>1 DEF WorkerOK, Over
  <2>4. \A w \in Workers \ {m} : WorkerOK(w)'
    BY <2>2, KeepsOther DEF WorkersOK, Alive
  <2> QED
    BY <2>3, <2>4 DEF WorkersOK
<1>5. CASE WriteStart
  <2>1. PICK m \in Workers : /\ m = at /\ m \in plan.master /\ runs[m] = 1 /\ Transfer(m)
                             /\ workMtx[m] = Nobody
    BY <1>5 DEF WriteStart, MastersOK, LoopAt, Starting
  <2>2. /\ UNCHANGED <<plan, workMtx, polled, rearm, runs, timer, news>>
        /\ status'[m] = "start" /\ \A w \in Workers \ {m} : status'[w] = status[w]
        /\ lost' = IF status[m] = "end" THEN lost \cup {m} ELSE lost
    BY <1>5, <2>1 DEF WriteStart, TypeOK
  <2>3. /\ pc[Loop] = "spawned" /\ pc'[Loop] = "masters"
        /\ \A w \in Workers : pc'[w] = pc[w]
    BY <1>5, GotoType, Places DEF WriteStart, LoopAt, Steps, LoopSteps
  <2>4. WorkerOK(m)'
    <3>1. /\ (Transfer(m)' <=> Transfer(m)) /\ (Alive(m)' <=> Alive(m)) /\ timer'[m] = timer[m]
          /\ workMtx'[m] # Loop
      BY <2>1, <2>2, <2>3 DEF Transfer, Kind, Alive, Nobody, Loop
    <3>2. Alive(m) \/ m \in lost'
      BY <2>1, <2>2 DEF WorkersOK, WorkerOK
    <3>3. ~timer[m]
      BY <2>1 DEF WorkersOK, WorkerOK
    <3> QED
      BY <2>1, <2>2, <3>1, <3>2, <3>3 DEF WorkerOK, Over
  <2>5. \A w \in Workers \ {m} : WorkerOK(w)'
    BY <2>1, <2>2, <2>3, KeepsOther DEF WorkersOK, Alive, TriggerSteps
  <2> QED
    BY <2>4, <2>5 DEF WorkersOK
<1>6. CASE MastersStarted /\ plan.master = {}
  <2>1. /\ UNCHANGED <<plan, runs, timer>> /\ \A w \in Workers : runs[w] = 0 /\ status'[w] = "break"
        /\ Goto(Loop, "idle")
    BY <1>6 DEF MastersStarted, AllBreak, MastersOK
  <2>2. \A w \in Workers : pc'[w] = pc[w]
    BY <2>1, GotoType, Places DEF Steps, LoopSteps
  <2>3. \A w \in Workers : ~Alive(w)' /\ ~timer'[w]
    BY <1>runs, <2>1, <2>2 DEF Alive, WorkersOK, WorkerOK
  <2> QED
    BY <2>1, <2>3 DEF WorkersOK, WorkerOK, Over
<1>7. CASE LoopReports
  <2>1. PICK p \in Workers : p = polled
    BY DEF TypeOK
  <2>2. /\ pc[Loop] = "watch" /\ ~Transfer(p) /\ runs[p] # 0 /\ Polled(p)
        /\ runs[p] = 1 => ~timer[p]
        /\ rearm => news[Loop] # "end"
        /\ ~rearm => news[Loop] \in Over
    BY <1>7, <2>1 DEF LoopReports, LoopAt, LoopOK, TriggerSteps, Polled
  <2>3. /\ UNCHANGED <<plan, runs, workMtx, lost>>
        /\ \A w \in Workers \ {p} : status'[w] = status[w] /\ timer'[w] = timer[w]
        /\ timer'[p] <=> timer[p] \/ rearm
        /\ \/ workMtx[p] = Loop /\ status'[p] = status[p]
           \/ workMtx[p] = Nobody /\ status'[p] = news[Loop]
    BY <1>7, <2>1, <2>2, Places DEF LoopReports, WrittenStatus, Watched, TypeOK
  <2>4. pc'[Loop] = "idle" /\ \A w \in Workers : pc'[w] = pc[w]
    BY <1>7, GotoType, Places DEF LoopReports, Steps, LoopSteps
  <2>5. \A w \in Workers : ~Polled(w)' /\ (Alive(w)' <=> Alive(w))
    BY <2>3, <2>4 DEF Polled, Alive, TriggerSteps
  <2>6. WorkerOK(p)'
    <3>1. /\ ~Alive(p) /\ WorkerOK(p)
          /\ workMtx[p] = Loop => status[p] \in Over /\ (runs[p] = 1 => status[p] # "end")
      BY <1>runs, <2>2 DEF WorkersOK, WorkerOK
    <3>2. /\ runs[p] = 1 /\ status'[p] = "end" => ~timer'[p]
          /\ timer'[p] \/ status'[p] \in Over
          /\ workMtx'[p] = Loop => status'[p] \in Over
      BY <2>2, <2>3, <3>1, Places DEF Over
    <3>3. (Transfer(p)' <=> Transfer(p)) /\ Orderly' = Orderly
      BY <2>3, KeepsPlan
    <3> QED
      BY <2>2, <2>3, <2>5, <3>1, <3>2, <3>3 DEF WorkerOK
  <2>7. \A w \in Workers \ {p} : WorkerOK(w)'
    BY <2>1, <2>2, <2>3, <2>5, KeepsWorker DEF WorkersOK, Served
  <2> QED
    BY <2>6, <2>7 DEF WorkersOK
<1>8. ASSUME NEW u \in Threads, TriggerStarts(u)
      PROVE  WorkersOK'
  <2>1. PICK x \in Workers : x = Head(todo[u]) /\ x # u
    BY <1>8, Trigger, Fresh DEF TriggerStarts
  <2>2. /\ pc[x] = "none" /\ ~Starting
        /\ Transfer(x) => runs[x] = 0 /\ ~timer[x]
        /\ x \in Orderly => runs[x] = 0
        /\ pc[u] = "target" /\ workMtx[x] = Nobody /\ status[x] = "init"
        /\ Starts(x) /\ Spawns(x, u, "watch")
        /\ UNCHANGED <<plan, workMtx, lost, polled, rearm, at>>
    BY <1>8, <2>1, Trigger, Fresh DEF TriggerStarts, TriggerDone
  <2>3. /\ status'[x] = IF Transfer(x) THEN "start" ELSE "init"
        /\ \A w \in Workers \ {x} : status'[w] = status[w]
    BY <1>8, <2>1, <2>2 DEF TriggerStarts, TypeOK, Transfer
  <2>4. /\ pc'[u] = "watch" /\ news'[Loop] = news[Loop]
        /\ Transfer(x) => pc'[x] = "watch"
        /\ ~Transfer(x) => pc'[x] = pc[x]
        /\ \A v \in Threads \ {u, x} : pc'[v] = pc[v]
    BY <2>1, <2>2, SpawnsType, Places DEF Steps, TriggerSteps
  <2>5. /\ runs'[x] = runs[x] + 1 /\ runs[x] \in Nat
        /\ \A v \in Workers \ {x} : runs'[v] = runs[v] /\ timer'[v] = timer[v]
        /\ Transfer(x) => timer'[x] = timer[x]
        /\ ~Transfer(x) => timer'[x]
    BY <2>2, StartsType DEF TypeOK
  <2>6. (pc'[Loop] \in TriggerSteps) <=> (pc[Loop] \in TriggerSteps)
    BY <2>1, <2>2, <2>4, Places DEF TriggerSteps
  <2>7. WorkerOK(x)'
    <3>1. /\ (Alive(x)' <=> Transfer(x))
          /\ workMtx'[x] # Loop /\ (timer'[x] <=> ~Transfer(x))
      BY <2>2, <2>4, <2>5 DEF Alive, TriggerSteps, Nobody, Loop
    <3>2. (Transfer(x)' <=> Transfer(x)) /\ Orderly' = Orderly
      BY <2>2, KeepsPlan
    <3>3. runs'[x] # 0 /\ (Transfer(x) \/ x \in Orderly => runs'[x] = 1)
      BY <2>2, <2>5
    <3> QED
      BY <2>3, <3>1, <3>2, <3>3 DEF WorkerOK, Over
  <2>8. \A w \in Workers \ {x} : Alive(w)' <=> Alive(w)
    BY <2>2, <2>4, Places DEF Alive, TriggerSteps
  <2>9. pc[Loop] # "spawned"
    BY <2>2 DEF Starting
  <2>10. \A w \in Workers \ {x} : WorkerOK(w)'
    BY <2>2, <2>3, <2>4, <2>5, <2>6, <2>8, <2>9, KeepsOther DEF WorkersOK
  <2> QED
    BY <2>7, <2>10 DEF WorkersOK
<1>9. ASSUME NEW u \in Threads, TriggerFails(u) \/ TriggerSkips(u)
      PROVE  WorkersOK'
  <2>1. /\ UNCHANGED <<plan, runs, timer, status, workMtx, polled, rearm, news, at>>
        /\ pc[u] = "target" /\ lost \subseteq lost' /\ Goto(u, "watch")
    BY <1>9 DEF TriggerFails, TriggerSkips, TriggerDone, StartFails
  <2>2. pc'[u] = "watch" /\ \A v \in Threads \ {u} : pc'[v] = pc[v]
    BY <2>1, GotoType DEF Steps, TriggerSteps
  <2>3. (pc'[Loop] \in TriggerSteps) <=> (pc[Loop] \in TriggerSteps)
    BY <2>1, <2>2, Places DEF TriggerSteps
  <2>4. \A w \in Workers : Alive(w)' <=> Alive(w)
    BY <2>1, <2>2, Places DEF Alive, TriggerSteps
  <2>5. pc[Loop] = "spawned" => pc'[Loop] = "spawned"
    BY <2>1, <2>2, Places
  <2> QED
    BY <2>1, <2>3, <2>4, <2>5, KeepsOther DEF WorkersOK
<1>10. ASSUME NEW t \in Workers, ThreadReports(t)
       PROVE  WorkersOK'
  <2>1. /\ pc[t] = "watch" /\ Alive(t) /\ runs[t] = 1 /\ Transfer(t)
        /\ news[t] \in {"start", "running", "end"} /\ workMtx[t] # Loop /\ ~timer[t]
    BY <1>10, <1>runs DEF ThreadReports, ThreadsOK, ThreadOK, Alive, TriggerSteps,
       WorkersOK,
       WorkerOK
  <2>2. /\ UNCHANGED <<plan, runs, timer, workMtx, polled, rearm, news, lost, at>>
        /\ status'[t] = news[t] /\ \A w \in Workers \ {t} : status'[w] = status[w]
    BY <1>10, <2>1, Places DEF ThreadReports, WrittenStatus, Watched, TypeOK
  <2>3. /\ pc'[t] = IF news[t] = "end" THEN "leave" ELSE "work"
        /\ \A v \in Threads \ {t} : pc'[v] = pc[v]
    BY <1>10, GotoType, Places DEF ThreadReports, Steps, ThreadSteps
  <2>4. WorkerOK(t)'
    <3>1. (Alive(t)' <=> news[t] # "end") /\ (Transfer(t)' <=> Transfer(t))
      BY <2>2, <2>3 DEF Alive, TriggerSteps, Transfer, Kind
    <3> QED
      BY <2>1, <2>2, <3>1 DEF WorkerOK, Over
  <2>5. \A w \in Workers \ {t} : WorkerOK(w)'
    BY <2>2, <2>3, KeepsOther, Places DEF WorkersOK, Alive
  <2> QED
    BY <2>4, <2>5 DEF WorkersOK
<1>11. ASSUME NEW t \in Workers, FileDone(t) \/ TransferDone(t)
       PROVE  WorkersOK'
  <2>1. /\ UNCHANGED <<plan, runs, timer, status, workMtx, polled, rearm, lost, at>>
        /\ news'[Loop] = news[Loop] /\ pc[t] = "work" /\ Goto(t, "watch")
    BY <1>11, Places DEF FileDone, TransferDone, TypeOK
  <2>2. pc'[t] = "watch" /\ \A v \in Threads \ {t} : pc'[v] = pc[v]
    BY <2>1, GotoType, Places DEF Steps, TriggerSteps
  <2>3. \A w \in Workers : Alive(w)' <=> Alive(w)
    BY <2>1, <2>2, Places DEF Alive, TriggerSteps
  <2> QED
    BY <2>1, <2>2, <2>3, KeepsOther, Places DEF WorkersOK
<1>12. ASSUME NEW t \in Workers, StatusCallFails(t)
       PROVE  WorkersOK'
  <2>1. /\ UNCHANGED <<plan, runs, status, workMtx, polled, rearm, news, pc, at>>
        /\ lost' = lost \cup {t} /\ ~timer'[t] /\ ~Transfer(t)
        /\ \A w \in Workers \ {t} : timer'[w] = timer[w]
    BY <1>12 DEF StatusCallFails, Fires, Transfer, TypeOK
  <2>2. WorkerOK(t)'
    <3>1. (Alive(t)' <=> Alive(t)) /\ (Transfer(t)' <=> Transfer(t)) /\ (Polled(t)' <=> Polled(t))
      BY <2>1 DEF Alive, Transfer, Kind, Polled
    <3>2. Orderly' = Orderly
      BY <2>1, KeepsPlan
    <3> QED
      BY <2>1, <3>1, <3>2 DEF WorkersOK, WorkerOK
  <2>3. \A w \in Workers \ {t} : WorkerOK(w)'
    BY <2>1, KeepsOther DEF WorkersOK, Alive
  <2> QED
    BY <2>2, <2>3 DEF WorkersOK
<1>13. ASSUME NEW t \in Workers, MkTimer(t) \/ MssTimer(t)
       PROVE  WorkersOK'
  <2>1. PICK st \in Statuses, again \in BOOLEAN :
          /\ ~Transfer(t) /\ LoopAt("idle") /\ timer[t] /\ Poll(t, st, again)
          /\ ~again => st \in Over
          /\ UNCHANGED lost
    BY <1>13, Polls
  <2>2. /\ UNCHANGED <<plan, runs, status, workMtx>> /\ polled' = t /\ rearm' = again
        /\ ~timer'[t] /\ \A w \in Workers \ {t} : timer'[w] = timer[w]
    BY <2>1 DEF Poll, TypeOK
  <2>3. pc'[Loop] = "watch" /\ news'[Loop] = st /\ \A w \in Workers : pc'[w] = pc[w]
    BY <2>1, PollType
  <2>4. WorkerOK(t)'
    <3>1. (Alive(t)' <=> Alive(t)) /\ (Transfer(t)' <=> Transfer(t)) /\ Served(t)'
      BY <2>1, <2>2, <2>3 DEF Alive, Transfer, Kind, Served, TriggerSteps
    <3>2. Orderly' = Orderly
      BY <2>2, KeepsPlan
    <3> QED
      BY <2>1, <2>2, <3>1, <3>2 DEF WorkersOK, WorkerOK
  <2>5. \A w \in Workers \ {t} : /\ ~Polled(w)' /\ ~Served(w) /\ (Alive(w)' <=> Alive(w))
    BY <2>1, <2>2, <2>3 DEF Polled, Served, LoopAt, TriggerSteps, Alive
  <2>6. \A w \in Workers \ {t} : WorkerOK(w)'
    BY <2>1, <2>2, <2>5, KeepsWorker DEF WorkersOK, LoopAt
  <2> QED
    BY <2>4, <2>6 DEF WorkersOK
<1> QED
  BY StepCases, <1>1, <1>2, <1>3, <1>4, <1>5, <1>6, <1>7, <1>8, <1>9, <1>10, <1>11,
     <1>12, <1>13
     DEF Cases

-----------------------------------------------------------------------------
(* The triggers that are pending.                                          *)

\* What is settled remains so.
LEMMA SettledStays ==
  ASSUME IInv, [Next]_vars, NEW w \in Workers, Settled(w)
  PROVE  Settled(w)'
<1> /\ TypeOK /\ TypeOK' /\ PristineOK /\ ThreadsOK /\ LoopOK /\ MastersOK
    /\ plan.master \subseteq Workers
  BY TypeStep, MastersIn DEF IInv
<1>more. ASSUME NEW x \in Workers, Starts(x) PROVE runs'[x] # 0 /\ (w # x => runs'[w] = runs[w])
  <2>1. runs'[x] = runs[x] + 1 /\ \A v \in Workers \ {x} : runs'[v] = runs[v]
    BY <1>more, StartsType
  <2> QED
    BY <2>1 DEF TypeOK
<1>1. CASE Aside
  BY <1>1 DEF Aside, Settled
<1>2. CASE StartTaskFails \/ (MastersStarted /\ plan.master = {})
  BY <1>2 DEF StartTaskFails, MastersStarted, AllBreak, Settled, Over
<1>3. CASE StartMaster
  <2>1. PICK m \in Workers : m = at /\ Starts(m) /\ UNCHANGED <<status, lost>>
    BY <1>3 DEF StartMaster
  <2> QED
    BY <2>1, <1>more DEF Settled
<1>4. CASE StartMasterFails
  BY <1>4 DEF StartMasterFails, StartFails, Settled, Over, TypeOK
<1>5. CASE WriteStart
  BY <1>5 DEF WriteStart, MastersOK, LoopAt, Settled, TypeOK
<1>6. CASE LoopReports
  BY <1>6 DEF LoopReports, WrittenStatus, Watched, LoopOK, LoopAt, TriggerSteps,
     Settled, TypeOK
<1>7. ASSUME NEW u \in Threads, TriggerStarts(u)
      PROVE  Settled(w)'
  <2>1. PICK x \in Workers : x = Head(todo[u])
    BY <1>7, Trigger DEF TriggerStarts
  <2>2. Starts(x) /\ lost' = lost
    BY <1>7, <2>1 DEF TriggerStarts
  <2>3. w # x => status'[w] = status[w]
    BY <1>7, <2>1 DEF TriggerStarts, TypeOK
  <2> QED
    BY <2>2, <2>3, <1>more DEF Settled
<1>8. ASSUME NEW u \in Threads, TriggerFails(u) \/ TriggerSkips(u)
      PROVE  Settled(w)'
  BY <1>8 DEF TriggerFails, TriggerSkips, TriggerDone, StartFails, Settled
<1>9. ASSUME NEW t \in Workers, ThreadReports(t)
      PROVE  Settled(w)'
  <2>1. runs[t] # 0 /\ t # Loop
    BY <1>9, Places DEF ThreadReports, ThreadsOK, ThreadOK
  <2> QED
    BY <1>9, <2>1 DEF ThreadReports, WrittenStatus, Watched, Settled, TypeOK
<1>10. ASSUME NEW t \in Workers, FileDone(t) \/ TransferDone(t) \/ StatusCallFails(t)
       PROVE  Settled(w)'
  BY <1>10 DEF FileDone, TransferDone, StatusCallFails, Settled
<1>11. ASSUME NEW t \in Workers, MkTimer(t) \/ MssTimer(t)
       PROVE  Settled(w)'
  BY <1>11, Polls DEF Poll, Settled
<1> QED
  BY StepCases, <1>1, <1>2, <1>3, <1>4, <1>5, <1>6, <1>7, <1>8, <1>9, <1>10, <1>11 DEF
     Cases

\* The triggers of a source whose life does not go on.
LEMMA KeepsPending ==
  ASSUME NEW s \in Workers, plan' = plan, runs'[s] = runs[s],
         runs[s] = 0 => (status'[s] = "init" <=> status[s] = "init"),
         Alive(s)' <=> Alive(s), todo'[s] = todo[s],
         (news'[s] = "end") <=> (news[s] = "end"),
         timer'[s] = timer[s], Polled(s)' <=> Polled(s),
         Polled(s) => rearm' = rearm /\ todo'[Loop] = todo[Loop]
  PROVE  Pending(s)' = Pending(s)
<1> (Transfer(s)' <=> Transfer(s)) /\ Targets(s)' = Targets(s)
  BY KeepsPlan
<1> QED
  BY DEF Pending

LEMMA KeepsHolds ==
  ASSUME NEW s \in Workers, HoldsOK(s), plan' = plan,
         Alive(s)' => Alive(s) /\ todo'[s] = todo[s] /\ news'[s] = news[s],
         Polled(s)' => Polled(s) /\ todo'[Loop] = todo[Loop] /\ news'[Loop] = news[Loop]
  PROVE  HoldsOK(s)'
BY KeepsPlan DEF HoldsOK, HeldOK

\* Its workers must be left alone, too.
LEMMA KeepsWaiting ==
  ASSUME NEW s \in Workers, PendingOK(s), plan' = plan,
         \A w \in Pending(s)' : Only(s, w) =>
           w \in Pending(s) /\ runs'[w] = runs[w] /\ status'[w] = status[w]
  PROVE  PendingOK(s)'
BY KeepsPlan DEF PendingOK

LEMMA KeepsSettled ==
  ASSUME \A w \in Workers : Settled(w) => Settled(w)',
         NEW q, NEW held, Range(q) \subseteq Workers, AllSettled(q, held)
  PROVE  \A w \in Range(q) : w \in Range(held) \/ Settled(w)'
BY DEF AllSettled

LEMMA KeepsFired ==
  ASSUME TypeOK, NEW s \in Workers, FiredOK(s), plan' = plan,
         \A w \in Workers : Settled(w) => Settled(w)',
         Transfer(s) /\ runs'[s] # 0 =>
           runs[s] # 0 /\ todo'[s] = todo[s] /\ (news'[s] = "end" => news[s] = "end"),
         Polled(s)' => Polled(s) /\ todo'[Loop] = todo[Loop] /\ news'[Loop] = news[Loop],
         status'[s] = "end" => status[s] = "end" \/ Transfer(s)
  PROVE  FiredOK(s)'
<1>1. Range(plan.atStart[s]) \subseteq Workers /\ Range(plan.atEnd[s]) \subseteq Workers
  BY PlanOK
<1>2. Transfer(s)' <=> Transfer(s)
  BY KeepsPlan
<1>3. (Transfer(s) /\ runs[s] # 0 =>
         /\ AllSettled(plan.atStart[s], todo[s])
         /\ news[s] = "end" => AllSettled(plan.atEnd[s], todo[s]))'
  BY <1>1, <1>2, KeepsSettled DEF FiredOK, AllSettled
<1>4. (Polled(s) /\ news[Loop] = "end" => AllSettled(plan.atEnd[s], todo[Loop]))'
  BY <1>1, <1>2, KeepsSettled DEF FiredOK, AllSettled
<1>5. (~Transfer(s) /\ status[s] = "end" => AllSettled(plan.atEnd[s], <<>>))'
  BY <1>1, <1>2, KeepsSettled DEF FiredOK, AllSettled
<1> QED
  BY <1>3, <1>4, <1>5 DEF FiredOK

SourceOK(s) == HoldsOK(s) /\ PendingOK(s) /\ FiredOK(s)

LEMMA KeepsSource ==
  ASSUME TypeOK, NEW s \in Workers, SourceOK(s), plan' = plan, runs'[s] = runs[s],
         Alive(s)' <=> Alive(s), todo'[s] = todo[s], news'[s] = news[s],
         Polled(s)' <=> Polled(s),
         Polled(s) => UNCHANGED rearm /\ todo'[Loop] = todo[Loop] /\ news'[Loop] = news[Loop],
         runs[s] = 0 => (status'[s] = "init" <=> status[s] = "init"),
         timer'[s] = timer[s],
         status'[s] = "end" => status[s] = "end" \/ Transfer(s),
         \A w \in Pending(s) : Only(s, w) => runs'[w] = runs[w] /\ status'[w] = status[w],
         \A w \in Workers : Settled(w) => Settled(w)'
  PROVE  SourceOK(s)' /\ Pending(s)' = Pending(s)
<1>1. Pending(s)' = Pending(s)
  BY KeepsPending
<1>2. HoldsOK(s)' /\ PendingOK(s)' /\ FiredOK(s)'
  BY <1>1, KeepsHolds, KeepsWaiting, KeepsFired DEF SourceOK
<1> QED
  BY <1>1, <1>2 DEF SourceOK

LEMMA NothingPending ==
  ASSUME NEW s \in Workers, runs'[s] = 0, status'[s] = "break", ~Alive(s)', ~Polled(s)'
  PROVE  SourceOK(s)'
BY DEF SourceOK, HoldsOK, PendingOK, FiredOK, Pending

\* Triggers of its own can be held by every worker.
LEMMA OwnTriggers ==
  ASSUME TypeOK, NEW s \in Workers,
         NEW q \in {plan.atStart[s], plan.atEnd[s], <<>>}
  PROVE  HeldOK(s, q)
BY PlanOK, OneTrigger, NothingHeld DEF HeldOK

\* A source that has just started has all its triggers to fire.
LEMMA FreshSource ==
  ASSUME TypeOK, NEW m \in Workers, SourceOK(m), plan' = plan,
         runs[m] = 0, status[m] = "init", runs'[m] = 1, ~Polled(m)',
         \/ /\ Transfer(m) /\ Alive(m)'
            /\ todo'[m] = plan.atStart[m] /\ news'[m] = "start"
         \/ ~Transfer(m) /\ ~Alive(m)' /\ timer'[m] /\ status'[m] # "end",
         \A w \in Targets(m) : Only(m, w) => runs'[w] = runs[w] /\ status'[w] = status[w]
  PROVE  SourceOK(m)' /\ Pending(m)' = Targets(m)'
<1>1. /\ Targets(m)' = Targets(m) /\ (Transfer(m)' <=> Transfer(m))
      /\ \A w : /\ Only(m, w)' <=> Only(m, w)
                /\ OneStart(w)' <=> OneStart(w)
  BY KeepsPlan
<1>2. Targets(m) = Range(plan.atStart[m]) \cup Range(plan.atEnd[m])
  BY PlanOK
<1>3. Pending(m) = Targets(m)
  BY DEF Pending
<1>4. Pending(m)' = Targets(m)
  BY <1>1, <1>2 DEF Pending
<1>5. HoldsOK(m)'
  <2>1. HeldOK(m, plan.atStart[m])
    BY OwnTriggers
  <2>2. \A w \in Range(plan.atStart[m]) \cap Range(plan.atEnd[m]) : ~OneStart(w)
    BY <1>2, PlanOK, OneTrigger
  <2> QED
    BY <1>1, <2>1, <2>2 DEF HoldsOK, HeldOK
<1>6. PendingOK(m)'
  BY <1>1, <1>3, <1>4, KeepsWaiting DEF SourceOK
<1>7. FiredOK(m)'
  BY <1>1 DEF FiredOK, AllSettled
<1> QED
  BY <1>1, <1>4, <1>5, <1>6, <1>7 DEF SourceOK

\* A trigger is fired: it is pending no more, and its worker is settled.
LEMMA SourcesTrigger ==
  ASSUME IInv, NEW u \in Threads, TriggerStarts(u) \/ TriggerFails(u) \/ TriggerSkips(u),
         \A w \in Workers : Settled(w) => Settled(w)'
  PROVE  (\A s \in Workers : SourceOK(s)') /\ ~LoopAt("spawned")'
<1> /\ TypeOK /\ MutexesOK /\ ThreadsOK /\ LoopOK /\ WorkersOK
    /\ \A s \in Workers : SourceOK(s)
  BY DEF IInv, SourcesOK, SourceOK
<1>1. pc[u] = "target"
  BY DEF TriggerStarts, TriggerFails, TriggerSkips
<1>2. PICK r \in Workers, x \in Workers :
        /\ r = Watched(u) /\ x = Head(todo[u]) /\ x \in Range(todo[u])
        /\ x \in Targets(r) /\ runs[r] # 0 /\ Range(todo[u]) \subseteq Targets(r)
        /\ Range(Tail(todo[u])) \subseteq Range(todo[u])
        /\ Range(todo[u]) \subseteq Range(Tail(todo[u])) \cup {x}
        /\ \A w \in Workers : OneStart(w) => Single(Tail(todo[u]), w)
        /\ OneStart(x) => x \notin Range(Tail(todo[u]))
        /\ u = Loop => Polled(r) /\ ~Transfer(r)
        /\ u # Loop => r = u /\ Alive(r) /\ Transfer(r)
  BY <1>1, Trigger
<1>3. /\ u = Loop => /\ rearm => news[Loop] # "end"
                     /\ runs[r] = 1 => ~timer[r]
                     /\ polled = r /\ ~Alive(r)
      /\ u # Loop => ~Polled(r)
  BY <1>1, <1>2 DEF LoopOK, TriggerSteps, Polled, ThreadsOK, ThreadOK, Alive
<1>4. /\ UNCHANGED <<plan, polled, rearm, at>>
      /\ todo'[u] = Tail(todo[u])
      /\ \A v \in Threads \ {u, x} : todo'[v] = todo[v]
      /\ TriggerStarts(u) \/ x = u \/ todo'[x] = todo[x]
      /\ \A w \in Workers \ {x} : status'[w] = status[w]
      /\ TriggerStarts(u) \/ UNCHANGED <<status, runs, timer, news>>
  <2>1. CASE TriggerStarts(u)
    <3>1. x # u
      BY <1>1, <1>2, <2>1, Fresh DEF TriggerStarts
    <3> QED
      BY <1>2, <2>1, <3>1, Places DEF TriggerStarts, TriggerDone, TypeOK
  <2>2. CASE TriggerFails(u)
    BY <1>2, <2>2, Places DEF TriggerFails, TriggerDone, StartFails, Goto, TypeOK
  <2>3. CASE TriggerSkips(u)
    BY <1>2, <2>3, Places DEF TriggerSkips, TriggerDone, worker, history, TypeOK
  <2> QED
    BY <2>1, <2>2, <2>3
<1>5. /\ TriggerStarts(u) => /\ x # u /\ pc[x] = "none" /\ status[x] = "init"
                             /\ Transfer(x) => runs[x] = 0 /\ todo'[x] = plan.atStart[x]
                             /\ x \in Orderly => runs[x] = 0
                             /\ Starts(x) /\ Spawns(x, u, "watch")
                             /\ ~Transfer(x) => status'[x] = "init" /\ (todo'[x] = todo[x])
      /\ ~TriggerStarts(u) => Goto(u, "watch")
  <2>1. CASE TriggerStarts(u)
    <3>1. /\ status[x] = "init" /\ Starts(x) /\ Spawns(x, u, "watch")
          /\ Kind(x) = "transfer"
               => todo' = [todo EXCEPT ![u] = Tail(@), ![x] = plan.atStart[x]]
          /\ Kind(x) # "transfer" => status' = status /\ todo' = [todo EXCEPT ![u] = Tail(@)]
      BY <1>2, <2>1 DEF TriggerStarts
    <3>2. /\ x # u /\ pc[x] = "none" /\ (Transfer(x) => runs[x] = 0)
          /\ x \in Orderly => runs[x] = 0
      BY <1>1, <1>2, <3>1, Fresh
    <3>3. /\ Transfer(x) => todo'[x] = plan.atStart[x]
          /\ ~Transfer(x) => todo'[x] = todo[x]
      BY <1>2, <3>1, <3>2, Places DEF Transfer, TypeOK
    <3> QED
      BY <2>1, <3>1, <3>2, <3>3 DEF Transfer
  <2>2. CASE ~TriggerStarts(u)
    BY <2>2 DEF TriggerFails, TriggerSkips
  <2> QED
    BY <2>1, <2>2
<1>6. /\ pc'[u] = "watch" /\ \A v \in Threads \ {u, x} : pc'[v] = pc[v]
      /\ \A v \in Threads \ {x} : news'[v] = news[v]
      /\ TriggerStarts(u) => /\ Transfer(x) => pc'[x] = "watch" /\ news'[x] = "start"
                             /\ ~Transfer(x) => pc'[x] = pc[x] /\ news'[x] = news[x]
      /\ ~TriggerStarts(u) => news'[x] = news[x] /\ \A v \in Threads \ {u} : pc'[v] = pc[v]
  BY <1>2, <1>4, <1>5, GotoType, SpawnsType, Places DEF Steps, TriggerSteps
<1>7. /\ TriggerStarts(u) => /\ runs'[x] = runs[x] + 1 /\ runs'[x] # 0
                             /\ ~Transfer(x) => timer'[x]
      /\ \A v \in Workers \ {x} : runs'[v] = runs[v] /\ timer'[v] = timer[v]
  <2>1. CASE TriggerStarts(u)
    BY <1>2, <1>5, <2>1, StartsType DEF TypeOK
  <2>2. CASE ~TriggerStarts(u)
    BY <1>4, <2>2
  <2> QED
    BY <2>1, <2>2
<1>8. Settled(x)'
  <2>1. CASE TriggerStarts(u)
    BY <1>7, <2>1 DEF Settled
  <2>2. CASE TriggerFails(u)
    BY <1>2, <2>2 DEF TriggerFails, Settled
  <2>3. CASE TriggerSkips(u)
    <3>1. (workMtx[x] = Loop \/ status[x] # "init") /\ status' = status /\ runs' = runs
      BY <1>2, <2>3, Places DEF TriggerSkips, TypeOK
    <3>2. runs[x] # 0 \/ status[x] \in Over
      BY <3>1 DEF WorkersOK, WorkerOK, Over
    <3> QED
      BY <3>1, <3>2 DEF Settled
  <2> QED
    BY <2>1, <2>2, <2>3
<1>9. /\ (pc'[Loop] \in TriggerSteps) <=> (pc[Loop] \in TriggerSteps)
      /\ pc'[Loop] # "spawned"
  BY <1>1, <1>2, <1>6, Places DEF TriggerSteps, MutexesOK
<1>10. \A w \in Workers : /\ Polled(w)' <=> Polled(w)
                          /\ w # x \/ ~TriggerStarts(u) \/ ~Transfer(x) => (Alive(w)' <=> Alive(w))
  <2>1. \A w \in Workers : Polled(w)' <=> Polled(w)
    BY <1>4, <1>9 DEF Polled
  <2>2. ASSUME NEW w \in Workers, w # x \/ ~TriggerStarts(u) \/ ~Transfer(x)
        PROVE  Alive(w)' <=> Alive(w)
    <3>1. CASE w = u
      BY <1>1, <1>6, <3>1 DEF Alive, TriggerSteps
    <3>2. CASE w # u
      BY <1>6, <2>2, <3>2, Places DEF Alive
    <3> QED
      BY <3>1, <3>2
  <2> QED
    BY <2>1, <2>2
<1>11. ASSUME TriggerStarts(u), runs[x] = 0 PROVE SourceOK(x)'
  <2>1. ~Polled(x)' /\ ~Alive(x)
    BY <1>5, <1>10, <1>11 DEF LoopOK, Polled, Alive, TriggerSteps
  <2>2. \A w \in Targets(x) : Only(x, w) => w \in Workers \ {x}
    BY <1>2, <1>11, PlanOK, OneTrigger DEF Only
  <2>3. (Alive(x)' <=> Transfer(x)) /\ runs'[x] = 1
    BY <1>5, <1>6, <1>7, <1>11 DEF Alive, TriggerSteps
  <2> QED
    BY <1>4, <1>5, <1>6, <1>7, <1>11, <2>1, <2>2, <2>3, FreshSource
<1>12. ASSUME NEW s \in Workers, ~TriggerStarts(u) \/ s # x \/ runs[x] # 0 PROVE SourceOK(s)'
  <2>1. TriggerStarts(u) /\ s = x => ~Transfer(x) /\ x \notin Orderly
    BY <1>5, <1>12
  <2>2. /\ (Alive(s)' <=> Alive(s)) /\ news'[s] = news[s] /\ (Polled(s)' <=> Polled(s))
        /\ news'[Loop] = news[Loop] /\ (s # u => todo'[s] = todo[s])
        /\ u # Loop => todo'[Loop] = todo[Loop]
    BY <1>2, <1>4, <1>5, <1>6, <1>10, <2>1, Places
  <2>3. s # r => s # u /\ (Polled(s) => u # Loop)
    BY <1>2, <1>3, Places DEF Polled
  <2>4. (Transfer(s)' <=> Transfer(s)) /\ Targets(s)' = Targets(s)
        /\ \A w : (Only(s, w)' <=> Only(s, w)) /\ (OneStart(w)' <=> OneStart(w))
    BY <1>4, KeepsPlan
  <2>5. HoldsOK(s)'
    <3>1. CASE s # r
      BY <1>4, <2>2, <2>3, <3>1, KeepsHolds DEF SourceOK
    <3>2. CASE s = r /\ u # Loop
      BY <1>2, <1>3, <1>4, <2>2, <2>4, <3>2 DEF SourceOK, HoldsOK, HeldOK
    <3>3. CASE s = r /\ u = Loop
      BY <1>2, <1>3, <1>4, <2>2, <2>4, <3>3 DEF SourceOK, HoldsOK, HeldOK
    <3> QED
      BY <3>1, <3>2, <3>3
  <2>6. PendingOK(s)'
    <3>1. CASE TriggerStarts(u) /\ s = x
      BY <2>1, <2>4, <3>1 DEF PendingOK, Only
    <3>2. CASE ~(TriggerStarts(u) /\ s = x)
      <4>1. runs'[s] = runs[s] /\ timer'[s] = timer[s] /\ status'[s] = status[s]
        BY <1>4, <1>7, <3>2
      <4>2. CASE s # r
        <5>1. Pending(s)' = Pending(s)
          BY <1>4, <2>2, <2>3, <4>1, <4>2, KeepsPending
        <5>2. Only(s, x) => s = r
          BY <1>2, OneTrigger DEF Only
        <5> QED
          BY <1>4, <1>7, <4>2, <5>1, <5>2, PlanOK, KeepsWaiting DEF SourceOK, Only
      <4>3. CASE s = r
        <5>1. Pending(s)' \subseteq Pending(s)
          <6>1. CASE u # Loop
            BY <1>2, <1>4, <2>2, <2>4, <4>1, <4>3, <6>1 DEF Pending
          <6>2. CASE u = Loop
            BY <1>2, <1>4, <2>2, <2>4, <4>1, <4>3, <6>2 DEF Pending
          <6> QED
            BY <6>1, <6>2
        <5>2. ASSUME Only(s, x) PROVE x \notin Pending(s)'
          <6>1. OneStart(x) /\ x \notin Range(todo'[u])
            BY <1>2, <1>4, <5>2 DEF Only
          <6>2. CASE u # Loop
            <7>1. news[s] # "end" => x \notin Range(plan.atEnd[s])
              BY <1>2, <4>3, <6>1, <6>2 DEF SourceOK, HoldsOK
            <7> QED
              BY <1>2, <1>4, <2>2, <2>4, <4>1, <4>3, <6>1, <6>2, <7>1 DEF Pending
          <6>3. CASE u = Loop
            <7>1. s \in Orderly /\ x \notin Range(plan.atStart[s])
              BY <1>2, <4>3, <5>2, <6>3 DEF Only
            <7>2. ~rearm
              BY <1>2, <1>3, <4>3, <6>3, <7>1 DEF SourceOK, HoldsOK
            <7>3. ~timer[s]
              BY <1>2, <1>3, <4>3, <6>3, <7>1 DEF WorkersOK, WorkerOK
            <7> QED
              BY <1>2, <1>4, <2>2, <2>4, <4>1, <4>3, <6>1, <6>3, <7>2, <7>3 DEF Pending
          <6> QED
            BY <6>2, <6>3
        <5> QED
          BY <1>4, <1>7, <5>1, <5>2, PlanOK, KeepsWaiting DEF SourceOK, Only
      <4> QED
        BY <4>2, <4>3
    <3> QED
      BY <3>1, <3>2
  <2>7. FiredOK(s)'
    <3>1. /\ Transfer(s) => runs'[s] = runs[s]
          /\ ~Transfer(s) => status'[s] = status[s] \/ status'[s] = "init"
      BY <1>4, <1>5, <1>7, <2>1
    <3>2. CASE s # r
      BY <1>4, <2>2, <2>3, <3>1, <3>2, KeepsFired DEF SourceOK
    <3>3. CASE s = r
      <4>1. Range(plan.atStart[s]) \subseteq Workers /\ Range(plan.atEnd[s]) \subseteq Workers
        BY PlanOK
      <4>2. ASSUME NEW q \in {plan.atStart[s], plan.atEnd[s]}, AllSettled(q, todo[u])
            PROVE  \A w \in Range(q) : w \in Range(todo'[u]) \/ Settled(w)'
        BY <1>2, <1>4, <1>8, <4>1, <4>2 DEF AllSettled
      <4>3. (Transfer(s) /\ runs[s] # 0 =>
               /\ AllSettled(plan.atStart[s], todo[s])
               /\ news[s] = "end" => AllSettled(plan.atEnd[s], todo[s]))'
        BY <1>2, <1>4, <2>2, <2>4, <3>1, <3>3, <4>2 DEF SourceOK, FiredOK, AllSettled
      <4>4. (Polled(s) /\ news[Loop] = "end" => AllSettled(plan.atEnd[s], todo[Loop]))'
        BY <1>2, <1>3, <1>4, <2>2, <3>3, <4>2 DEF SourceOK, FiredOK, AllSettled
      <4>5. (~Transfer(s) /\ status[s] = "end" => AllSettled(plan.atEnd[s], <<>>))'
        BY <1>4, <2>4, <3>1, <4>1, KeepsSettled DEF SourceOK, FiredOK, AllSettled
      <4> QED
        BY <4>3, <4>4, <4>5 DEF FiredOK
    <3> QED
      BY <3>2, <3>3
  <2> QED
    BY <2>5, <2>6, <2>7 DEF SourceOK
<1> QED
  BY <1>9, <1>11, <1>12 DEF LoopAt

LEMMA SourcesStep ==
  ASSUME IInv, [Next]_vars
  PROVE  SourcesOK'
<1> /\ TypeOK /\ PristineOK /\ MutexesOK /\ ThreadsOK /\ LoopOK /\ MastersOK /\ WorkersOK
    /\ SourcesOK /\ plan.master \subseteq Workers
  BY MastersIn DEF IInv
<1> \A w \in Workers : Settled(w) => Settled(w)'
  BY SettledStays
<1>runs. \A w \in Workers : /\ runs[w] = 0 \/ ~Transfer(w) => ~Alive(w) /\ pc[w] = "none"
                            /\ Alive(w) => runs[w] = 1 /\ Transfer(w)
  BY DEF ThreadsOK, ThreadOK, Alive, TriggerSteps, WorkersOK, WorkerOK
<1>stay. \A s \in Workers : /\ SourceOK(s) /\ Targets(s) \subseteq Workers
                            /\ Pending(s) \subseteq Targets(s)
                            /\ \A w \in Pending(s) : Only(s, w) =>
                                 /\ w \in Workers \ plan.master
                                 /\ runs[w] = 0 /\ status[w] = "init"
  <2>1. ASSUME NEW s \in Workers
        PROVE  /\ SourceOK(s) /\ Targets(s) \subseteq Workers
               /\ Pending(s) \subseteq Targets(s)
               /\ \A w \in Pending(s) : Only(s, w) =>
                    w \in Workers \ plan.master /\ runs[w] = 0 /\ status[w] = "init"
    <3>1. /\ SourceOK(s) /\ Targets(s) = Range(plan.atStart[s]) \cup Range(plan.atEnd[s])
          /\ Targets(s) \subseteq Workers
      BY PlanOK DEF SourcesOK, SourceOK
    <3>2. Pending(s) \subseteq Targets(s)
      BY <3>1 DEF SourceOK, HoldsOK, HeldOK, Pending
    <3>3. ASSUME NEW w \in Pending(s), Only(s, w)
          PROVE  w \in Workers \ plan.master /\ runs[w] = 0 /\ status[w] = "init"
      BY <3>1, <3>2, <3>3, OneTrigger DEF SourceOK, PendingOK, Only
    <3> QED
      BY <3>1, <3>2, <3>3
  <2> QED
    BY <2>1
<1>all. ASSUME \A s \in Workers : SourceOK(s)',
               \A m \in Workers : LoopAt("spawned")' /\ at' = m => Pending(m)' = Targets(m)'
        PROVE  SourcesOK'
  BY <1>all DEF SourcesOK, SourceOK
<1>1. CASE Aside
  <2>1. ASSUME NEW s \in Workers
        PROVE  SourceOK(s)' /\ Pending(s)' = Pending(s) /\ Targets(s)' = Targets(s)
    <3>1. (Polled(s)' <=> Polled(s)) /\ Targets(s)' = Targets(s)
      BY <1>1, KeepsPlan DEF Aside, Polled
    <3> QED
      BY <1>1, <1>stay, <3>1, KeepsSource DEF Aside
  <2> QED
    BY <1>1, <1>all, <2>1 DEF Aside, SourcesOK, LoopAt
<1>2. CASE StartTaskFails \/ (MastersStarted /\ plan.master = {})
  <2>1. /\ \A w \in Workers : runs'[w] = 0 /\ status'[w] = "break" /\ pc'[w] = pc[w] /\ ~Alive(w)
        /\ pc'[Loop] = "idle"
    <3>1. CASE StartTaskFails
      BY <1>runs, <3>1 DEF StartTaskFails, AllBreak, PristineOK, LoopAt
    <3>2. CASE MastersStarted /\ plan.master = {}
      BY <1>runs, <3>2, GotoType, Places DEF MastersStarted, AllBreak, MastersOK, Steps,
         LoopSteps
    <3> QED
      BY <1>2, <3>1, <3>2
  <2>2. \A w \in Workers : ~Alive(w)' /\ ~Polled(w)'
    BY <2>1 DEF Alive, Polled, TriggerSteps
  <2> QED
    BY <1>all, <2>1, <2>2, NothingPending DEF LoopAt
<1>3. CASE StartMaster
  <2>1. PICK m \in Workers : m = at
    BY <1>3 DEF StartMaster
  <2>2. /\ m \in plan.master /\ pc[Loop] = "masters" /\ runs[m] = 0 /\ status[m] = "init"
        /\ UNCHANGED <<plan, status, rearm>> /\ Starts(m)
        /\ todo' = IF Transfer(m) THEN [todo EXCEPT ![m] = plan.atStart[m]] ELSE todo
        /\ at' = IF Transfer(m) THEN at ELSE at + 1
        /\ Spawns(m, Loop, IF Transfer(m) THEN "spawned" ELSE "masters")
    BY <1>3, <2>1 DEF StartMaster, MastersOK, Starting, LoopAt, Transfer
  <2>3. PICK step \in {"spawned", "masters"} :
          Spawns(m, Loop, step) /\ step = IF Transfer(m) THEN "spawned" ELSE "masters"
    BY <2>2
  <2>4. /\ pc'[Loop] = step
        /\ Transfer(m) => pc'[m] = "watch" /\ news'[m] = "start"
        /\ ~Transfer(m) => pc'[m] = pc[m]
        /\ \A v \in Workers \ {m} : pc'[v] = pc[v] /\ news'[v] = news[v]
    BY <2>3, SpawnsType, Places DEF Steps, LoopSteps
  <2>5. /\ runs'[m] = 1 /\ \A v \in Workers \ {m} : runs'[v] = runs[v] /\ timer'[v] = timer[v]
        /\ ~Transfer(m) => timer'[m]
    BY <2>2, StartsType DEF TypeOK
  <2>6. /\ Transfer(m) => todo'[m] = plan.atStart[m]
        /\ \A v \in Workers \ {m} : todo'[v] = todo[v]
    BY <2>2, Places DEF TypeOK
  <2>7. /\ \A w \in Workers : ~Polled(w)' /\ ~Polled(w)
        /\ \A w \in Workers \ {m} : Alive(w)' <=> Alive(w)
        /\ Alive(m)' <=> Transfer(m)
    BY <1>runs, <2>2, <2>3, <2>4 DEF Polled, Alive, TriggerSteps
  <2>8. SourceOK(m)' /\ Pending(m)' = Targets(m)'
    <3>1. \A w \in Targets(m) : Only(m, w) => w \in Workers \ plan.master
      BY <1>stay, OneTrigger DEF Only
    <3> QED
      BY <1>stay, <2>2, <2>4, <2>5, <2>6, <2>7, <3>1, FreshSource
  <2>9. \A s \in Workers \ {m} : SourceOK(s)'
    BY <1>stay, <2>2, <2>4, <2>5, <2>6, <2>7, KeepsSource
  <2>10. pc'[Loop] = "spawned" => at' = m
    BY <2>1, <2>2, <2>3, <2>4
  <2> QED
    BY <1>all, <2>8, <2>9, <2>10 DEF LoopAt
<1>4. CASE StartMasterFails
  <2>1. PICK m \in Workers : m = at /\ m \in plan.master
    BY <1>4 DEF StartMasterFails
  <2>2. /\ runs[m] = 0 /\ UNCHANGED <<plan, rearm, runs, timer, pc, news, todo>>
        /\ status'[m] = "break" /\ \A w \in Workers \ {m} : status'[w] = status[w]
        /\ pc[Loop] = "masters"
    BY <1>4, <2>1 DEF StartMasterFails, StartFails, MastersOK, Starting, LoopAt, TypeOK
  <2>3. \A w \in Workers : ~Polled(w)' /\ ~Polled(w) /\ (Alive(w)' <=> Alive(w))
    BY <2>2 DEF Polled, Alive, TriggerSteps
  <2>4. SourceOK(m)'
    BY <1>runs, <2>2, <2>3, NothingPending
  <2>5. \A s \in Workers \ {m} : SourceOK(s)'
    BY <1>stay, <2>1, <2>2, <2>3, KeepsSource
  <2> QED
    BY <1>all, <2>2, <2>4, <2>5 DEF LoopAt
<1>5. CASE WriteStart
  <2>1. PICK m \in Workers : m = at /\ m \in plan.master /\ runs[m] = 1
    BY <1>5 DEF WriteStart, MastersOK, LoopAt
  <2>2. /\ UNCHANGED <<plan, rearm, runs, timer, news, todo>>
        /\ status'[m] = "start" /\ \A w \in Workers \ {m} : status'[w] = status[w]
    BY <1>5, <2>1 DEF WriteStart, TypeOK
  <2>3. /\ pc[Loop] = "spawned" /\ pc'[Loop] = "masters" /\ \A w \in Workers : pc'[w] = pc[w]
    BY <1>5, GotoType, Places DEF WriteStart, LoopAt, Steps, LoopSteps
  <2>4. \A w \in Workers : ~Polled(w)' /\ ~Polled(w) /\ (Alive(w)' <=> Alive(w))
    BY <2>3 DEF Polled, Alive, TriggerSteps
  <2>5. \A s \in Workers : SourceOK(s)'
    BY <1>stay, <2>1, <2>2, <2>4, KeepsSource
  <2> QED
    BY <1>all, <2>3, <2>5 DEF LoopAt
<1>6. CASE LoopReports
  <2>1. PICK p \in Workers : p = polled
    BY DEF TypeOK
  <2>2. /\ pc[Loop] = "watch" /\ ~Transfer(p) /\ runs[p] # 0 /\ Polled(p)
        /\ todo[Loop] = <<>> /\ rearm \in BOOLEAN
    BY <1>6, <2>1 DEF LoopReports, LoopAt, LoopOK, TriggerSteps, Polled, TypeOK
  <2>3. /\ UNCHANGED <<plan, runs, todo>>
        /\ \A w \in Workers \ {p} : status'[w] = status[w] /\ timer'[w] = timer[w]
        /\ \A w \in Workers : news'[w] = news[w]
        /\ timer'[p] <=> timer[p] \/ rearm
        /\ status'[p] = status[p] \/ status'[p] = news[Loop]
    BY <1>6, <2>1, <2>2, Places DEF LoopReports, WrittenStatus, Watched, TypeOK
  <2>4. pc'[Loop] = "idle" /\ \A w \in Workers : pc'[w] = pc[w]
    BY <1>6, GotoType, Places DEF LoopReports, Steps, LoopSteps
  <2>5. \A w \in Workers : /\ ~Polled(w)' /\ (Alive(w)' <=> Alive(w))
                           /\ w # p => ~Polled(w)
    BY <2>1, <2>4 DEF Polled, Alive, TriggerSteps
  <2>6. Targets(p)' = Targets(p) /\ (Transfer(p)' <=> Transfer(p))
    BY <2>3, KeepsPlan
  <2>7. \A s \in Workers : \A w \in Pending(s) : Only(s, w) => w # p /\ w \in Workers
    BY <1>stay, <2>2
  <2>8. SourceOK(p)'
    <3>1. Pending(p)' = Pending(p)
      BY <2>2, <2>3, <2>5, <2>6, NothingHeld DEF Pending
    <3>2. PendingOK(p)'
      BY <1>stay, <2>3, <2>7, <3>1, KeepsWaiting DEF SourceOK
    <3>3. HoldsOK(p)'
      BY <1>runs, <2>2, <2>5 DEF HoldsOK
    <3>4. FiredOK(p)'
      <4>1. status'[p] = "end" => AllSettled(plan.atEnd[p], <<>>)
        BY <1>stay, <2>2, <2>3 DEF SourceOK, FiredOK
      <4>2. Range(plan.atEnd[p]) \subseteq Workers
        BY PlanOK
      <4> QED
        BY <2>2, <2>3, <2>5, <2>6, <4>1, <4>2, KeepsSettled DEF FiredOK, AllSettled
    <3> QED
      BY <3>2, <3>3, <3>4 DEF SourceOK
  <2>9. \A s \in Workers \ {p} : SourceOK(s)'
    BY <1>stay, <2>3, <2>5, <2>7, KeepsSource
  <2> QED
    BY <1>all, <2>4, <2>8, <2>9 DEF LoopAt
<1>7. ASSUME NEW u \in Threads, TriggerStarts(u) \/ TriggerFails(u) \/ TriggerSkips(u)
      PROVE  SourcesOK'
  BY <1>7, <1>all, SourcesTrigger
<1>8. ASSUME NEW t \in Workers, ThreadReports(t) \/ FileDone(t) \/ TransferDone(t)
      PROVE  SourcesOK'
  <2>1. /\ pc[t] \in {"watch", "work"} /\ todo[t] = <<>> /\ Alive(t) /\ runs[t] = 1 /\ Transfer(t)
        /\ pc[t] = "work" => news[t] # "end"
        /\ ~Polled(t)
    BY <1>8, <1>runs DEF ThreadReports, FileDone, TransferDone, ThreadsOK, ThreadOK,
       Alive, TriggerSteps, LoopOK, Polled
  <2>2. /\ UNCHANGED <<plan, runs, timer, polled, rearm, at>>
        /\ \A w \in Workers \ {t} : status'[w] = status[w]
        /\ \A v \in Threads \ {t} : news'[v] = news[v] /\ todo'[v] = todo[v]
    BY <1>8, Places DEF ThreadReports, FileDone, TransferDone, WrittenStatus, Watched,
       TypeOK
  <2>3. \/ todo'[t] = <<>> /\ news'[t] = news[t] /\ news[t] = "end" /\ pc'[t] = "leave"
        \/ todo'[t] = <<>> /\ news'[t] # "end" /\ news[t] # "end" /\ pc'[t] \in {"work", "watch"}
        \/ /\ todo'[t] = plan.atEnd[t] /\ news'[t] = "end" /\ news[t] # "end" /\ pc'[t] = "watch"
    BY <1>8, <2>1, GotoType, Places DEF ThreadReports, FileDone, TransferDone, TypeOK,
       Steps, ThreadSteps, TriggerSteps
  <2>4. \A v \in Threads \ {t} : pc'[v] = pc[v]
    BY <1>8, GotoType, Places DEF ThreadReports, FileDone, TransferDone, Steps,
       ThreadSteps, TriggerSteps
  <2>5. \A w \in Workers : /\ Polled(w)' <=> Polled(w)
                           /\ w # t => (Alive(w)' <=> Alive(w))
    BY <2>2, <2>4, Places DEF Polled, Alive
  <2>6. Targets(t)' = Targets(t) /\ (Transfer(t)' <=> Transfer(t))
    BY <2>2, KeepsPlan
  <2>7. Alive(t)' <=> pc'[t] # "leave"
    BY <2>3 DEF Alive, TriggerSteps
  <2>8. Pending(t)' = Pending(t)
    BY <2>1, <2>2, <2>3, <2>6, <2>7, NothingHeld DEF Pending
  <2>9. SourceOK(t)'
    <3>1. HoldsOK(t)'
      <4>1. HeldOK(t, todo'[t])
        BY <2>3, OwnTriggers
      <4>2. HeldOK(t, todo[t])'
        BY <2>2, <4>1, KeepsPlan DEF HeldOK
      <4> QED
        BY <2>1, <2>3, <2>5, <4>2, NothingHeld DEF HoldsOK
    <3>2. PendingOK(t)'
      BY <1>stay, <2>1, <2>2, <2>8, KeepsWaiting DEF SourceOK
    <3>3. FiredOK(t)'
      <4>1. /\ Range(plan.atStart[t]) \subseteq Workers /\ Range(plan.atEnd[t]) \subseteq Workers
            /\ AllSettled(plan.atStart[t], <<>>)
            /\ news[t] = "end" => AllSettled(plan.atEnd[t], <<>>)
        BY <1>stay, <2>1, PlanOK DEF SourceOK, FiredOK
      <4>2. (AllSettled(plan.atStart[t], todo[t]))'
        BY <2>2, <4>1, NothingHeld DEF AllSettled
      <4>3. (news[t] = "end" => AllSettled(plan.atEnd[t], todo[t]))'
        BY <2>2, <2>3, <4>1, NothingHeld DEF AllSettled
      <4> QED
        BY <2>1, <2>5, <2>6, <4>2, <4>3 DEF FiredOK
    <3> QED
      BY <3>1, <3>2, <3>3 DEF SourceOK
  <2>10. ASSUME NEW s \in Workers \ {t}
         PROVE  SourceOK(s)' /\ Pending(s)' = Pending(s) /\ Targets(s)' = Targets(s)
    <3>1. \A w \in Pending(s) : Only(s, w) => w # t /\ w \in Workers
      BY <1>stay, <2>1
    <3>2. todo'[s] = todo[s] /\ news'[s] = news[s] /\ todo'[Loop] = todo[Loop] /\ news'[Loop] = news[Loop]
      BY <2>2, Places
    <3> QED
      BY <1>stay, <2>2, <2>5, <3>1, <3>2, KeepsSource, KeepsPlan
  <2>11. pc'[Loop] = pc[Loop]
    BY <2>4, Places
  <2> QED
    BY <1>all, <2>2, <2>6, <2>8, <2>9, <2>10, <2>11 DEF SourcesOK, LoopAt
<1>9. ASSUME NEW t \in Workers, StatusCallFails(t)
      PROVE  SourcesOK'
  <2>1. /\ UNCHANGED <<plan, runs, status, polled, rearm, news, todo, pc>> /\ LoopAt("idle")
        /\ timer[t] /\ ~timer'[t] /\ ~Transfer(t)
        /\ \A w \in Workers \ {t} : timer'[w] = timer[w]
    BY <1>9 DEF StatusCallFails, Fires, Transfer, TypeOK
  <2>2. \A w \in Workers : ~Polled(w)' /\ ~Polled(w) /\ (Alive(w)' <=> Alive(w))
    BY <2>1 DEF Polled, Alive, LoopAt, TriggerSteps
  <2>3. (Transfer(t)' <=> Transfer(t)) /\ ~Alive(t) /\ runs[t] # 0
    BY <1>runs, <2>1, KeepsPlan DEF WorkersOK, WorkerOK
  <2>4. Pending(t)' = {}
    BY <2>1, <2>2, <2>3 DEF Pending
  <2>5. SourceOK(t)'
    BY <1>stay, <2>1, <2>2, <2>3, <2>4, KeepsHolds, KeepsWaiting, KeepsFired DEF SourceOK
  <2>6. \A s \in Workers \ {t} : SourceOK(s)'
    BY <1>stay, <2>1, <2>2, KeepsSource
  <2> QED
    BY <1>all, <2>1, <2>5, <2>6 DEF LoopAt
<1>10. ASSUME NEW t \in Workers, MkTimer(t) \/ MssTimer(t)
       PROVE  SourcesOK'
  <2>1. PICK st \in Statuses, again \in BOOLEAN :
          ~Transfer(t) /\ LoopAt("idle") /\ timer[t] /\ Poll(t, st, again)
    BY <1>10, Polls
  <2>2. /\ UNCHANGED <<plan, runs, status>> /\ polled' = t /\ rearm' = again
        /\ ~timer'[t] /\ \A w \in Workers \ {t} : timer'[w] = timer[w]
        /\ pc'[Loop] = "watch" /\ news'[Loop] = st /\ todo'[Loop] = Triggers(t, st)
        /\ \A w \in Workers : pc'[w] = pc[w] /\ news'[w] = news[w] /\ todo'[w] = todo[w]
    BY <2>1, PollType
  <2>3. \A w \in Workers : /\ ~Polled(w) /\ (Alive(w)' <=> Alive(w))
                           /\ Polled(w)' <=> w = t
    BY <2>1, <2>2 DEF Polled, Alive, LoopAt, TriggerSteps
  <2>4. /\ Targets(t)' = Targets(t) /\ (Transfer(t)' <=> Transfer(t))
        /\ ~Alive(t) /\ runs[t] # 0
    BY <1>runs, <2>1, <2>2, KeepsPlan DEF WorkersOK, WorkerOK
  <2>5. HeldOK(t, Triggers(t, st))
    BY PlanOK, OwnTriggers
  <2>6. Pending(t) = Targets(t)
    BY <2>1, <2>4 DEF Pending
  <2>7. Pending(t)' \subseteq Targets(t)
    BY <2>1, <2>2, <2>3, <2>4, <2>5 DEF Pending, HeldOK
  <2>8. HoldsOK(t)'
    <3>1. HeldOK(t, todo[Loop])'
      BY <2>2, <2>5, KeepsPlan DEF HeldOK
    <3>2. st # "end" => Range(Triggers(t, st)) \subseteq Range(plan.atStart[t])
      BY PlanOK
    <3> QED
      BY <2>2, <2>3, <2>4, <3>1, <3>2 DEF HoldsOK
  <2>9. PendingOK(t)'
    BY <1>stay, <2>2, <2>6, <2>7, KeepsWaiting DEF SourceOK
  <2>10. FiredOK(t)'
    <3>1. st = "end" => Triggers(t, st) = plan.atEnd[t]
      BY PlanOK
    <3>2. Range(plan.atEnd[t]) \subseteq Workers
      BY PlanOK
    <3>3. status[t] = "end" => AllSettled(plan.atEnd[t], <<>>)
      BY <1>stay, <2>1 DEF SourceOK, FiredOK
    <3>4. (status[t] = "end" => AllSettled(plan.atEnd[t], <<>>))'
      BY <2>2, <3>2, <3>3, KeepsSettled DEF AllSettled
    <3>5. (Polled(t) /\ news[Loop] = "end" => AllSettled(plan.atEnd[t], todo[Loop]))'
      BY <2>2, <3>1 DEF AllSettled
    <3> QED
      BY <2>1, <2>4, <3>4, <3>5 DEF FiredOK
  <2>11. \A s \in Workers \ {t} : SourceOK(s)'
    BY <1>stay, <2>2, <2>3, KeepsSource
  <2> QED
    BY <1>all, <2>2, <2>8, <2>9, <2>10, <2>11 DEF SourceOK, LoopAt
<1> QED
  BY StepCases, <1>1, <1>2, <1>3, <1>4, <1>5, <1>6, <1>7, <1>8, <1>9, <1>10 DEF Cases

-----------------------------------------------------------------------------
(* What the task's timer saw of the workers.                               *)

Late == {"report", "destroy", "destroyTask"}

LEMMA NotLate ==
  ASSUME task' = "listed", pc'[Loop] \notin Late
  PROVE  CheckOK'
BY DEF CheckOK, Late

LEMMA KeepsCheck ==
  ASSUME CheckOK, pc'[Loop] = pc[Loop], UNCHANGED <<task, taskStatus, workMtx>>,
         \A w \in Workers : status[w] \in Over => status'[w] = status[w]
  PROVE  CheckOK'
BY DEF CheckOK, Over

LEMMA SeenStep ==
  ASSUME IInv, [Next]_vars
  PROVE  CheckOK'
<1> /\ TypeOK /\ PristineOK /\ ThreadsOK /\ WorkersOK /\ CheckOK
  BY DEF IInv
<1>early. CASE task # "listed"
  <2>1. CASE StartTask
    <3>1. pc'[Loop] = "masters" /\ task' = "listed"
      BY <2>1, GotoType, Places DEF StartTask, Steps, LoopSteps
    <3> QED
      BY <3>1, NotLate DEF Late
  <2>2. CASE StartTaskFails
    BY <2>2, NotLate DEF StartTaskFails, LoopAt, Late
  <2>3. CASE UNCHANGED vars
    BY <2>3, KeepsCheck DEF vars
  <2> QED
    BY <1>early, <2>1, <2>2, <2>3 DEF Next, Gone
<1> SUFFICES ASSUME task = "listed"
             PROVE  CheckOK'
  BY <1>early
<1>1. CASE StartTask
  BY <1>1, GotoType, Places, NotLate DEF StartTask, Steps, LoopSteps, Late
<1>2. CASE StartTaskFails
  BY <1>2, NotLate DEF StartTaskFails, LoopAt, Late
<1>3. CASE StartMaster
  <2>1. PICK m \in Workers : m = at
    BY <1>3, MastersIn DEF StartMaster
  <2>2. PICK step \in {"spawned", "masters"} : Spawns(m, Loop, step)
    BY <1>3, <2>1 DEF StartMaster
  <2>3. pc'[Loop] = step /\ task' = "listed"
    BY <1>3, <2>2, SpawnsType, Places DEF StartMaster, Steps, LoopSteps
  <2> QED
    BY <2>3, NotLate DEF Late
<1>4. CASE StartMasterFails
  BY <1>4, NotLate DEF StartMasterFails, LoopAt, Late
<1>5. CASE WriteStart
  BY <1>5, GotoType, Places, NotLate DEF WriteStart, Steps, LoopSteps, Late
<1>6. CASE SkipWorker
  BY <1>6, NotLate DEF SkipWorker, LoopAt, Late
<1>7. CASE MastersStarted
  BY <1>7, GotoType, Places, NotLate DEF MastersStarted, Steps, LoopSteps, Late
<1>8. CASE StartReport
  BY <1>8, GotoType, Places, NotLate DEF StartReport, Steps, LoopSteps, Late
<1>9. CASE StopRequest
  BY <1>9, GotoType, Places, NotLate DEF StopRequest, Steps, LoopSteps, Late
<1>10. CASE StopFindsTask
  BY <1>10, GotoType, Places, NotLate DEF StopFindsTask, Steps, LoopSteps, Late
<1>11. CASE StopLocksTask
  BY <1>11, GotoType, Places, NotLate DEF StopLocksTask, Steps, LoopSteps, Late
<1>12. CASE StopWorker
  BY <1>12, NotLate DEF StopWorker, LoopAt, Late
<1>13. CASE StopDone
  BY <1>13, GotoType, Places, NotLate DEF StopDone, Steps, LoopSteps, Late
<1>14. CASE TaskTimer
  BY <1>14, GotoType, Places, NotLate DEF TaskTimer, Steps, LoopSteps, Late
<1>15. CASE CheckWorkers
  <2>1. /\ task' = "listed" /\ taskStatus' = CheckedStatus /\ UNCHANGED <<status, workMtx>>
    BY <1>15 DEF CheckWorkers
  <2>2. pc'[Loop] \notin {"destroy", "destroyTask"}
    BY <1>15, GotoType, Places DEF CheckWorkers, Steps, LoopSteps
  <2>3. \A w \in Workers : w \notin Seen => workMtx[w] = Loop /\ status[w] \in {"break", "end"}
    BY DEF Seen, WorkersOK, WorkerOK, Over
  <2>4. /\ CheckedStatus = "end" => \A w \in Workers : status[w] = "end" \/ (status[w] = "break" /\ workMtx[w] = Loop)
        /\ CheckedStatus = "break" => \E w \in Workers : status[w] = "break"
    BY <2>3 DEF CheckedStatus, Seen
  <2> QED
    BY <2>1, <2>2, <2>4 DEF CheckOK
<1>16. CASE Report
  <2>1. /\ task' = "listed" /\ UNCHANGED <<taskStatus, status, workMtx>> /\ pc[Loop] = "report"
    BY <1>16 DEF Report, LoopAt
  <2>2. pc'[Loop] = IF taskStatus \in Over THEN "destroy" ELSE "again"
    BY <1>16, GotoType, Places DEF Report, Steps, LoopSteps
  <2> QED
    BY <2>1, <2>2 DEF CheckOK
<1>17. CASE TaskTimerAgain
  <2>1. PICK step \in LoopSteps \ Late : Goto(Loop, step)
    BY <1>17 DEF TaskTimerAgain, LoopSteps, Late
  <2>2. pc'[Loop] = step /\ task' = "listed"
    BY <1>17, <2>1, GotoType, Places DEF TaskTimerAgain, Steps
  <2> QED
    BY <2>2, NotLate
<1>18. CASE RestartStops
  <2>1. PICK step \in LoopSteps \ Late : Goto(Loop, step)
    BY <1>18 DEF RestartStops, LoopSteps, Late
  <2>2. pc'[Loop] = step /\ task' = "listed"
    BY <1>18, <2>1, GotoType, Places DEF RestartStops, Steps
  <2> QED
    BY <2>2, NotLate
<1>19. CASE DestroyLocksList
  <2>1. UNCHANGED <<taskStatus, status, workMtx>> /\ pc[Loop] \in {"destroy", "destroyTask"}
    BY <1>19 DEF DestroyLocksList, LoopAt
  <2>2. pc'[Loop] # "report"
    BY <1>19, GotoType, Places DEF DestroyLocksList, Steps, LoopSteps
  <2> QED
    BY <2>1, <2>2 DEF CheckOK
<1>20. CASE DestroyTask
  <2>1. UNCHANGED <<taskStatus, status, workMtx>> /\ pc[Loop] \in {"destroy", "destroyTask"}
    BY <1>20 DEF DestroyTask, LoopAt
  <2>2. pc'[Loop] # "report"
    BY <1>20, GotoType, Places DEF DestroyTask, Steps, LoopSteps
  <2> QED
    BY <2>1, <2>2 DEF CheckOK
<1>21. CASE LoopReports
  BY <1>21, GotoType, Places, NotLate DEF LoopReports, Steps, LoopSteps, Late
<1>22. ASSUME NEW u \in Threads, FindTask(u)
      PROVE  CheckOK'
  <2>1. UNCHANGED <<task, taskStatus, workMtx, status>>
    BY <1>22 DEF FindTask, TriggerDone
  <2>2. pc'[u] \in TriggerSteps /\ \A v \in Threads \ {u} : pc'[v] = pc[v]
    BY <1>22, GotoType DEF FindTask, Steps, TriggerSteps
  <2> QED
    BY <2>1, <2>2, KeepsCheck, NotLate, Places DEF Late, TriggerSteps
<1>23. ASSUME NEW u \in Threads, LockTask(u)
      PROVE  CheckOK'
  <2>1. UNCHANGED <<task, taskStatus, workMtx, status>>
    BY <1>23 DEF LockTask, TriggerDone
  <2>2. pc'[u] \in TriggerSteps /\ \A v \in Threads \ {u} : pc'[v] = pc[v]
    BY <1>23, GotoType DEF LockTask, Steps, TriggerSteps
  <2> QED
    BY <2>1, <2>2, KeepsCheck, NotLate, Places DEF Late, TriggerSteps
<1>24. ASSUME NEW u \in Threads, TriggerStarts(u)
      PROVE  CheckOK'
  <2>1. PICK x \in Workers : x = Head(todo[u]) /\ x # u
    BY <1>24, Trigger, Fresh DEF TriggerStarts
  <2>2. /\ UNCHANGED <<task, taskStatus, workMtx>> /\ Spawns(x, u, "watch")
        /\ status[x] = "init" /\ \A w \in Workers \ {x} : status'[w] = status[w]
    BY <1>24, <2>1 DEF TriggerStarts, TriggerDone, TypeOK
  <2>3. pc'[Loop] = pc[Loop] \/ pc'[Loop] = "watch"
    BY <2>1, <2>2, SpawnsType, Places DEF Steps, TriggerSteps
  <2>4. \A w \in Workers : status[w] \in Over => status'[w] = status[w]
    BY <2>2 DEF Over
  <2> QED
    BY <2>2, <2>3, <2>4, KeepsCheck, NotLate DEF Late
<1>25. ASSUME NEW u \in Threads, TriggerFails(u)
      PROVE  CheckOK'
  <2>1. UNCHANGED <<task, taskStatus, workMtx, status>>
    BY <1>25 DEF TriggerFails, TriggerDone
  <2>2. pc'[u] \in TriggerSteps /\ \A v \in Threads \ {u} : pc'[v] = pc[v]
    BY <1>25, GotoType DEF TriggerFails, Steps, TriggerSteps
  <2> QED
    BY <2>1, <2>2, KeepsCheck, NotLate, Places DEF Late, TriggerSteps
<1>26. ASSUME NEW u \in Threads, TriggerSkips(u)
      PROVE  CheckOK'
  <2>1. UNCHANGED <<task, taskStatus, workMtx, status>>
    BY <1>26 DEF TriggerSkips, TriggerDone
  <2>2. pc'[u] \in TriggerSteps /\ \A v \in Threads \ {u} : pc'[v] = pc[v]
    BY <1>26, GotoType DEF TriggerSkips, Steps, TriggerSteps
  <2> QED
    BY <2>1, <2>2, KeepsCheck, NotLate, Places DEF Late, TriggerSteps
<1>27. ASSUME NEW w \in Workers, ThreadReports(w)
      PROVE  CheckOK'
  <2>1. status[w] \notin Over
    BY <1>27 DEF ThreadReports, WorkersOK, WorkerOK, Alive, TriggerSteps
  <2>2. /\ UNCHANGED <<task, taskStatus, workMtx>>
        /\ \A v \in Workers \ {w} : status'[v] = status[v]
    BY <1>27, Places DEF ThreadReports, WrittenStatus, Watched, TypeOK
  <2>3. pc'[Loop] = pc[Loop]
    BY <1>27, GotoType, Places DEF ThreadReports, Steps, ThreadSteps
  <2> QED
    BY <2>1, <2>2, <2>3, KeepsCheck
<1>28. ASSUME NEW w \in Workers, FileDone(w)
      PROVE  CheckOK'
  <2>1. UNCHANGED <<task, taskStatus, workMtx, status>>
    BY <1>28 DEF FileDone
  <2>2. pc'[Loop] = pc[Loop]
    BY <1>28, GotoType, Places DEF FileDone, Steps, TriggerSteps, ThreadSteps
  <2> QED
    BY <2>1, <2>2, KeepsCheck
<1>29. ASSUME NEW w \in Workers, TransferDone(w)
      PROVE  CheckOK'
  <2>1. UNCHANGED <<task, taskStatus, workMtx, status>>
    BY <1>29 DEF TransferDone
  <2>2. pc'[Loop] = pc[Loop]
    BY <1>29, GotoType, Places DEF TransferDone, Steps, TriggerSteps, ThreadSteps
  <2> QED
    BY <2>1, <2>2, KeepsCheck
<1>30. ASSUME NEW w \in Workers, ThreadLeaves(w)
      PROVE  CheckOK'
  <2>1. UNCHANGED <<task, taskStatus, workMtx, status>>
    BY <1>30 DEF ThreadLeaves
  <2>2. pc'[Loop] = pc[Loop]
    BY <1>30, GotoType, Places DEF ThreadLeaves, Steps, TriggerSteps, ThreadSteps
  <2> QED
    BY <2>1, <2>2, KeepsCheck
<1>31. ASSUME NEW w \in Workers, KernelRuns(w) \/ KernelEnds(w)
      PROVE  CheckOK'
  BY <1>31, KeepsCheck DEF KernelRuns, KernelEnds, Kernel
<1>32. ASSUME NEW w \in Workers, StatusCallFails(w)
      PROVE  CheckOK'
  BY <1>32, NotLate DEF StatusCallFails, Fires, LoopAt, Late
<1>33. ASSUME NEW w \in Workers, MkTimer(w) \/ MssTimer(w)
      PROVE  CheckOK'
  <2>1. PICK st \in Statuses, again \in BOOLEAN : ~Transfer(w) /\ Poll(w, st, again)
    BY <1>33, Polls
  <2>2. pc'[Loop] = "watch" /\ task' = "listed"
    BY <2>1, PollType DEF Poll
  <2> QED
    BY <2>2, NotLate DEF Late
<1>34. CASE UNCHANGED vars
  BY <1>34, KeepsCheck DEF vars
<1>35. ASSUME NEW u \in Threads, TimersBreak(u) \/ Hangs(u)
      PROVE  CheckOK'
  BY <1>35, KeepsCheck DEF CheckOK, TimersBreak, Hangs, vars
<1> QED
  BY <1>1, <1>2, <1>3, <1>4, <1>5, <1>6, <1>7, <1>8, <1>9, <1>10, <1>11, <1>12, <1>13,
     <1>14, <1>15, <1>16, <1>17, <1>18, <1>19, <1>20, <1>21, <1>22, <1>23, <1>24, <1>25,
     <1>26, <1>27, <1>28, <1>29, <1>30, <1>31, <1>32, <1>33, <1>34, <1>35 DEF Next, StartStep,
     StopStep, CheckStep, TriggerStep, ThreadStep, PollStep, Gone

-----------------------------------------------------------------------------
(* The invariant, and what follows from it.                                *)

LEMMA Initially ==
  ASSUME Init
  PROVE  IInv
<1>1. /\ plan \in Plans /\ task = "none" /\ LoopAt("idle")
      /\ threadMtx = Nobody /\ taskMtx = Nobody
      /\ \A w \in Workers : /\ workMtx[w] = Nobody /\ status[w] = "init" /\ ~timer[w]
                            /\ runs[w] = 0 /\ pc[w] = "none"
  BY Places DEF Init, LoopAt
<1>2. TypeOK
  <2>1. plan \in Plans /\ polled \in Workers /\ at \in 1 .. N + 1
    BY <1>1, Places DEF Init
  <2>2. /\ plan \in Plans /\ task = "none" /\ taskStatus = "init" /\ taskTimer = FALSE
        /\ threadMtx = Nobody /\ taskMtx = Nobody
        /\ workMtx \in [Workers -> {Nobody, Loop}]
        /\ rearm = FALSE /\ lost = {}
    BY DEF Init
  <2>3. /\ status \in [Workers -> Statuses] /\ mss \in [Workers -> MssStates]
        /\ kernel \in [Workers -> KernelStates]
    BY DEF Init, Statuses, MssStates, KernelStates
  <2>4. timer \in [Workers -> BOOLEAN] /\ runs \in [Workers -> Nat]
    BY DEF Init
  <2>5. pc \in [Threads -> LoopSteps \cup TriggerSteps \cup ThreadSteps]
    BY DEF Init, LoopSteps, ThreadSteps
  <2>6. todo \in [Threads -> Seq(Workers)]
    <3>1. <<>> \in Seq(Workers)
      OBVIOUS
    <3> QED
      BY <3>1 DEF Init
  <2>7. news \in [Threads -> Statuses]
    BY DEF Init, Statuses
  <2> QED
    BY <2>1, <2>2, <2>3, <2>4, <2>5, <2>6, <2>7 DEF TypeOK, Statuses, Over
<1>3. \A u \in Threads : pc[u] \in {"idle", "none"}
  BY <1>1, Places DEF LoopAt
<1>4. \A w \in Workers : ~Alive(w) /\ ~Polled(w)
  BY <1>1 DEF Alive, Polled, TriggerSteps, LoopAt
<1>5. PristineOK /\ MutexesOK /\ LoopOK /\ CheckOK
  BY <1>1, <1>3, Places DEF PristineOK, MutexesOK, LoopOK, CheckOK, LoopAt, TriggerSteps
<1>6. ThreadsOK
  BY <1>1, <1>4 DEF ThreadsOK, ThreadOK, LoopAt, LoopSteps, ThreadSteps
<1>7. MastersOK
  BY <1>1 DEF MastersOK, Starting, LoopAt
<1>8. WorkersOK
  BY <1>1, <1>4, Places DEF WorkersOK, WorkerOK, Over
<1>9. SourcesOK
  <2>1. \A s \in Workers : Pending(s) = Targets(s) /\ Targets(s) \subseteq Workers
    BY <1>1, <1>2, PlanOK DEF Pending
  <2>2. \A s \in Workers : HoldsOK(s) /\ PendingOK(s) /\ FiredOK(s)
    BY <1>1, <1>4, <2>1 DEF HoldsOK, PendingOK, FiredOK
  <2> QED
    BY <1>1, <2>2 DEF SourcesOK, LoopAt
<1> QED
  BY <1>2, <1>5, <1>6, <1>7, <1>8, <1>9 DEF IInv

LEMMA Inductive ==
  ASSUME IInv, [Next]_vars
  PROVE  IInv'
BY TypeStep, PristineStep, MutexesStep, ThreadsStep, LoopStep, MastersStep, WorkersStep,
   SourcesStep, SeenStep DEF IInv

LEMMA Invariant == Spec => []IInv
<1>1. Init => IInv
  BY Initially
<1>2. IInv /\ [Next]_vars => IInv'
  BY Inductive
<1> QED
  BY <1>1, <1>2, PTL DEF Spec

\* The fields of a task and of its workers hold values of their types.
THEOREM TypeCorrect == Spec => []TypeOK
<1>1. IInv => TypeOK
  BY DEF IInv
<1> QED
  BY <1>1, Invariant, PTL

\* No transfer is started twice, whichever masters, sources and threads race for
\* it, nor is a worker that is in order: its one trigger is fired once, and while
\* it is pending the worker is as it was created.
THEOREM StartsAtMostOnce == Spec => []StartsOnce
<1>1. Orderly \subseteq Workers
  BY DEF Orderly
<1>2. IInv => StartsOnce
  BY <1>1 DEF IInv, WorkersOK, WorkerOK, StartsOnce
<1> QED
  BY <1>2, Invariant, PTL

\* No cycle of threads that wait for mutexes: the list's comes before the task's
\* and that before a worker's.  The mutexes stop_task keeps belong to workers
\* that are over; a thread comes to want one only by a trigger that was overtaken:
\* its worker could be started in another way.
THEOREM NoDeadlock == Spec => []LockOrder
<1>1. IInv => LockOrder
  <2> SUFFICES ASSUME IInv, NEW u \in Threads, NEW v \in Threads, WaitsFor(u, v)
               PROVE  Level(v) > Level(u) \/ Overtaken(u)
    BY DEF LockOrder
  <2> TypeOK /\ MutexesOK /\ ThreadsOK /\ WorkersOK
    BY DEF IInv
  <2>1. CASE Level(u) = 1 /\ threadMtx = v
    <3>1. pc[v] \in {"found", "target", "stopTask", "stopWork", "destroyTask"}
      BY <2>1 DEF MutexesOK
    <3>2. Level(v) \in {2, 3}
      BY <3>1 DEF Level
    <3> QED
      BY <2>1, <3>2
  <2>2. CASE Level(u) = 2 /\ taskMtx = v
    <3>1. pc[v] \in {"target", "stopWork", "masters", "spawned"}
      BY <2>2 DEF MutexesOK
    <3>2. Level(v) \in {3, 4}
      BY <3>1 DEF Level
    <3> QED
      BY <2>2, <3>2
  <2>3. CASE Level(u) = 3 /\ Wanted(u) \in Workers /\ workMtx[Wanted(u)] = v
    <3>1. PICK x \in Workers : x = Wanted(u) /\ workMtx[x] = v
      BY <2>3
    <3>2. v = Loop /\ u \in Workers /\ u # Loop /\ status[x] \in Over
      BY <3>1, Places DEF WaitsFor, TypeOK, WorkersOK, WorkerOK
    <3>3. pc[u] \in {"target", "watch"}
      BY <2>3, <3>2 DEF Level, ThreadsOK, ThreadOK, ThreadSteps, TriggerSteps
    <3>4. status[u] \notin Over
      BY <3>2, <3>3 DEF WorkersOK, WorkerOK, Alive, TriggerSteps
    <3>5. pc[u] = "target" /\ x = Head(todo[u])
      BY <3>1, <3>2, <3>3, <3>4 DEF Wanted, Watched
    <3>6. /\ Transfer(u) /\ Alive(u) /\ runs[u] # 0
          /\ x \in Range(todo[u]) /\ x \in Targets(u)
      BY <3>2, <3>5, Trigger
    <3>7. ~OneStart(x)
      <4> SUFFICES ASSUME OneStart(x)
                   PROVE  FALSE
        OBVIOUS
      <4>1. x \in Pending(u) /\ Only(u, x)
        BY <3>6 DEF Pending, Only
      <4>2. status[x] = "init"
        BY <3>2, <4>1 DEF IInv, SourcesOK, PendingOK
      <4> QED
        BY <3>2, <4>2 DEF Over
    <3> QED
      BY <3>5, <3>7 DEF Overtaken
  <2> QED
    BY <2>1, <2>2, <2>3 DEF WaitsFor
<1> QED
  BY <1>1, Invariant, PTL

\* A task that ends without a broken worker is destroyed when no thread will touch
\* it again but for its last log line, and no timer is armed but those of workers
\* that were started twice: the status the task's timer sees stands for them.
THEOREM QuietDestruction == Spec => []DestroyedQuietly
<1>1. IInv => DestroyedQuietly
  <2> SUFFICES ASSUME IInv, task = "destroyed", \A w \in Workers : status[w] # "break",
                      NEW w \in Workers
               PROVE  pc[w] \in {"none", "leave", "done"} /\ (timer[w] => runs[w] > 1)
    BY DEF DestroyedQuietly
  <2>1. status[w] = "end"
    BY DEF IInv, CheckOK, Over
  <2>2. ~Alive(w) /\ (timer[w] => runs[w] # 0 /\ runs[w] # 1)
    BY <2>1 DEF IInv, WorkersOK, WorkerOK, Over
  <2>3. pc[w] \in ThreadSteps \cup TriggerSteps
    BY DEF IInv, ThreadsOK, ThreadOK
  <2>4. runs[w] \in Nat
    BY DEF IInv, TypeOK
  <2> QED
    BY <2>2, <2>3, <2>4 DEF Alive, ThreadSteps
<1> QED
  BY <1>1, Invariant, PTL

\* A task reported as ended has only workers that ended, or broken ones whose
\* mutex a stop request kept.
THEOREM EndsTruly == Spec => []EndIsTrue
<1>1. IInv => EndIsTrue
  BY DEF IInv, CheckOK, EndIsTrue
<1> QED
  BY <1>1, Invariant, PTL

\* The status "end" of a worker with triggers that was started once is final,
\* although start_task writes the status of its masters without their mutex: the
\* thread of such a worker cannot come to its end while the task's mutex is held.
THEOREM EndsForGood == Spec => EndIsFinal
<1>1. ASSUME IInv, [Next]_vars, NEW w \in Workers, Targets(w) # {}, runs[w] <= 1,
             status[w] = "end"
      PROVE  status'[w] = "end"
  <2> /\ TypeOK /\ PristineOK /\ ThreadsOK /\ LoopOK /\ MastersOK /\ WorkersOK /\ SourcesOK
    BY <1>1 DEF IInv
  <2>1. runs[w] = 1 /\ ~Alive(w)
    <3>1. runs[w] \in Nat /\ runs[w] # 0 /\ ~Alive(w)
      BY <1>1 DEF TypeOK, WorkersOK, WorkerOK, Over
    <3> QED
      BY <1>1, <3>1
  <2>2. CASE Aside \/ StartMaster
    BY <1>1, <2>2 DEF Aside, StartMaster
  <2>3. CASE StartTaskFails \/ (MastersStarted /\ plan.master = {})
    BY <2>1, <2>3 DEF StartTaskFails, PristineOK, MastersOK
  <2>4. CASE StartMasterFails
    <3>1. runs[at] = 0 /\ status' = [status EXCEPT ![at] = "break"]
      BY <2>4, MastersIn DEF StartMasterFails, MastersOK, Starting, LoopAt
    <3>2. w # at
      BY <2>1, <3>1
    <3> QED
      BY <1>1, <3>1, <3>2 DEF TypeOK
  <2>5. CASE WriteStart
    <3>1. status' = [status EXCEPT ![at] = "start"] /\ LoopAt("spawned")
      BY <2>5 DEF WriteStart
    <3>2. w # at
      <4> SUFFICES ASSUME w = at
                   PROVE  FALSE
        OBVIOUS
      <4>1. Transfer(w)
        BY <3>1 DEF MastersOK
      <4>2. Pending(w) = Targets(w)
        BY <3>1 DEF SourcesOK
      <4>3. Pending(w) = {}
        BY <2>1, <4>1 DEF Pending
      <4> QED
        BY <1>1, <4>2, <4>3
    <3> QED
      BY <1>1, <3>1, <3>2 DEF TypeOK
  <2>6. CASE LoopReports
    <3>1. ~Transfer(polled) /\ Polled(polled) /\ polled \in Workers
      BY <2>6 DEF LoopReports, LoopOK, LoopAt, TriggerSteps, Polled, TypeOK
    <3>2. runs[polled] # 1 \/ status[polled] # "end"
      BY <3>1 DEF WorkersOK, WorkerOK
    <3>3. w # polled
      BY <1>1, <2>1, <3>2
    <3> QED
      BY <1>1, <2>6, <3>3 DEF LoopReports, WrittenStatus, Watched, TypeOK
  <2>7. ASSUME NEW u \in Threads, TriggerStarts(u)
        PROVE  status'[w] = "end"
    BY <1>1, <2>7 DEF TriggerStarts, TypeOK
  <2>8. ASSUME NEW u \in Threads, TriggerFails(u) \/ TriggerSkips(u)
        PROVE  status'[w] = "end"
    BY <1>1, <2>8 DEF TriggerFails, TriggerSkips
  <2>9. ASSUME NEW t \in Workers, ThreadReports(t)
        PROVE  status'[w] = "end"
    <3>1. Alive(t) /\ t # Loop
      BY <2>9, Places DEF ThreadReports, Alive, TriggerSteps
    <3>2. w # t
      BY <2>1, <3>1
    <3> QED
      BY <1>1, <2>9, <3>1, <3>2 DEF ThreadReports, WrittenStatus, Watched, TypeOK
  <2>10. ASSUME NEW t \in Workers, FileDone(t) \/ TransferDone(t) \/ StatusCallFails(t)
         PROVE  status'[w] = "end"
    BY <1>1, <2>10 DEF FileDone, TransferDone, StatusCallFails
  <2>11. ASSUME NEW t \in Workers, MkTimer(t) \/ MssTimer(t)
         PROVE  status'[w] = "end"
    BY <1>1, <2>11, Polls DEF Poll
  <2> QED
    BY <1>1, StepCases, <2>2, <2>3, <2>4, <2>5, <2>6, <2>7, <2>8, <2>9, <2>10, <2>11 DEF
       Cases
<1>2. IInv /\ [Next]_vars =>
        [\A w \in Workers : Targets(w) # {} /\ runs[w] <= 1 /\ status[w] = "end"
                              => status'[w] = "end"]_vars
  BY <1>1
<1> QED
  BY <1>2, Invariant, PTL DEF Spec, EndIsFinal

\* Nobody whom something starts is left alone, for every plan: as long as a worker
\* is not over, its thread, its timer or a source will bring it on, but for the
\* failures that the code drops.
THEOREM NobodyLeftAlone == Spec => []NobodyForgotten
<1>1. IInv => NobodyForgotten
  <2> SUFFICES ASSUME IInv, task = "listed", pc[Loop] \notin {"masters", "spawned"},
                      NEW w \in Workers, w \in plan.master \/ Starters(w) # {},
                      status[w] \notin Over, w \notin lost
               PROVE  Alive(w) \/ timer[w] \/ Served(w) \/ Awaited(w)
    BY DEF NobodyForgotten
  <2> TypeOK /\ ThreadsOK /\ MastersOK /\ WorkersOK /\ SourcesOK
    BY DEF IInv
  <2>1. CASE runs[w] # 0
    <3>1. Transfer(w) => runs[w] = 1
      BY <2>1 DEF WorkersOK, WorkerOK
    <3> QED
      BY <2>1, <3>1 DEF WorkersOK, WorkerOK, Over
  <2>2. CASE runs[w] = 0
    <3>1. w \notin plan.master
      BY <2>2 DEF MastersOK, Starting, LoopAt, Over
    <3>2. PICK s \in Workers : s \in Starters(w)
      BY <3>1 DEF Starters
    <3>3. status[s] # "end"
      <4> SUFFICES ASSUME status[s] = "end"
                   PROVE  FALSE
        OBVIOUS
      <4>1. runs[s] # 0 /\ ~Alive(s)
        BY DEF WorkersOK, WorkerOK, Over
      <4>2. ~Settled(w)
        BY <2>2 DEF Settled
      <4>3. CASE Transfer(s)
        <5>1. todo[s] = <<>> /\ news[s] = "end"
          BY <4>1, <4>3 DEF ThreadsOK, ThreadOK, Alive, ThreadSteps
        <5>2. AllSettled(plan.atStart[s], <<>>) /\ AllSettled(plan.atEnd[s], <<>>)
          BY <4>1, <4>3, <5>1 DEF SourcesOK, FiredOK
        <5> QED
          BY <3>2, <4>2, <5>2, NothingHeld DEF Starters, AllSettled
      <4>4. CASE ~Transfer(s)
        <5>1. w \in Range(plan.atEnd[s])
          BY <3>2, <4>4 DEF Starters, Transfer
        <5>2. AllSettled(plan.atEnd[s], <<>>)
          BY <4>4 DEF SourcesOK, FiredOK
        <5> QED
          BY <4>2, <5>1, <5>2, NothingHeld DEF AllSettled
      <4> QED
        BY <4>3, <4>4
    <3> QED
      BY <2>2, <3>2, <3>3 DEF Awaited
  <2> QED
    BY <2>1, <2>2
<1> QED
  BY <1>1, Invariant, PTL

=============================================================================
