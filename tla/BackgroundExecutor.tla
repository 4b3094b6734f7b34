--------------------------- MODULE BackgroundExecutor ---------------------------
(***************************************************************************)
(* core/BackGroundExecuter.h: one worker thread (m_worker) runs posted     *)
(* tasks from a priority queue ordered by due time.  Any thread may post   *)
(* or cancel, a running task included; the destructor stops the worker and *)
(* joins it.  A critical section under m_mutex is one action; what the     *)
(* code does outside the mutex (reading the clock, taking an id, notifying,*)
(* loading a flag, calling fn) is a step of its own.                       *)
(* An operator marked "variant" is a plausible slip in the definition that *)
(* follows it; no action uses it.                                          *)
(***************************************************************************)
EXTENDS Naturals, FiniteSets

CONSTANTS
  Callers,   \* threads that own a reference to the executor
  Worker,    \* the thread of m_worker; inside task.fn it may call too
  MaxTasks,  \* bound: ids handed out (m_nextId)
  MaxTime,   \* bound: ticks of steady_clock
  Delays,    \* delays given to postAfter
  Periods,   \* periods given to postEvery
  OneShot    \* std::nullopt as a task's period

ASSUME BoundsAssumption == MaxTasks \in Nat /\ MaxTime \in Nat
ASSUME ArgumentAssumption ==
  Delays \subseteq Nat /\ Periods \subseteq Nat /\ OneShot \notin Nat
ASSUME ThreadAssumption == Worker \notin Callers

TaskIds == 1..MaxTasks
Threads == Callers \union {Worker}
ScheduledTask == [id : TaskIds, next : Nat, period : Nat \union {OneShot}]
CallTask == [id : TaskIds \union {0}, next : Nat, period : Nat \union {OneShot}]
NoTask == [id |-> 0, next |-> 0, period |-> OneShot]
WithId(t, id) == [id |-> id, next |-> t.next, period |-> t.period]
WithNext(t, next) == [id |-> t.id, next |-> next, period |-> t.period]
FirstId0 == 0                                                       \* variant
FirstId == 1    \* scheduleAt's 0 stands for a refused task

VARIABLES
  now,        \* steady_clock::now()
  nextId,     \* m_nextId
  tasks,      \* m_tasks, as the set of its elements
  registry,   \* the keys of m_canceledTasks: the tasks cancel() knows
  cancelled,  \* ids whose shared atomic flag is true
  wpc,        \* where the worker is in run()
  cur,        \* run()'s local task
  wakeAt,     \* the deadline of run()'s wait_until
  cpc,        \* where each thread is in a call
  arg,        \* that call's task
  dpc,        \* where the destructor is
  posted,     \* history: each task as it was first queued
  runs,       \* history: how often its fn was called (for a period of 0, whose
              \* due time never moves, only whether it was)
  lateRuns    \* history: of those, after its flag was set

shared == <<nextId, tasks, registry, cancelled>>
workerVars == <<wpc, cur, wakeAt>>
callVars == <<cpc, arg>>
history == <<posted, runs, lateRuns>>
vars == <<now, shared, workerVars, callVars, dpc, history>>

Init ==
  /\ now = 0 /\ nextId = FirstId
  /\ tasks = {} /\ registry = {} /\ cancelled = {}
  /\ wpc = "loop" /\ cur = NoTask /\ wakeAt = 0
  /\ cpc = [c \in Threads |-> "idle"] /\ arg = [c \in Threads |-> NoTask]
  /\ dpc = "alive"
  /\ posted = [id \in TaskIds |-> NoTask]
  /\ runs = [id \in TaskIds |-> 0] /\ lateRuns = [id \in TaskIds |-> 0]

Tick ==
  /\ now < MaxTime
  /\ now' = now + 1
  /\ UNCHANGED <<shared, workerVars, callVars, dpc, history>>

m_stopping == dpc # "alive"
stop_requested == dpc \notin {"alive", "stopping"}

Asleep == {"wait", "timedWait"}
NotifyNobody == wpc' = wpc                                          \* variant
\* m_cv.notify_all(): a sleeping worker goes back to its loop.
NotifyAll == wpc' = IF wpc \in Asleep THEN "loop" ELSE wpc

-----------------------------------------------------------------------------
(* post, postAfter, postEvery, cancel: owners call while the executor      *)
(* exists, a task while it runs.                                           *)

MayCall(c) ==
  /\ cpc[c] = "idle"
  /\ IF c = Worker THEN wpc = "run" ELSE dpc = "alive"

\* Bound: every call that has not taken its id yet will find one.
IdsLeft == nextId + Cardinality({c \in Threads : cpc[c] = "allocate"}) <= MaxTasks

\* The due time is computed from the clock before anything else happens.
ScheduleAt(c, when, period) ==
  /\ MayCall(c) /\ IdsLeft
  /\ cpc' = [cpc EXCEPT ![c] = "allocate"]
  /\ arg' = [arg EXCEPT ![c] = [id |-> 0, next |-> when, period |-> period]]
  /\ UNCHANGED <<now, shared, workerVars, dpc, history>>

Post(c) == ScheduleAt(c, now, OneShot)
PostAfter(c) == \E delay \in Delays : ScheduleAt(c, now + delay, OneShot)
PostEvery(c) == \E period \in Periods, runImmediately \in BOOLEAN :
  ScheduleAt(c, IF runImmediately THEN now ELSE now + period, period)

TakeId0 == nextId' = nextId                                         \* variant
TakeId == nextId' = nextId + 1

\* m_nextId.fetch_add(1), outside the mutex.
AllocateId(c) ==
  /\ cpc[c] = "allocate" /\ nextId \in TaskIds
  /\ TakeId
  /\ arg' = [arg EXCEPT ![c] = WithId(@, nextId)]
  /\ cpc' = [cpc EXCEPT ![c] = "insert"]
  /\ UNCHANGED <<now, tasks, registry, cancelled, workerVars, dpc, history>>

\* scheduleAt's critical section; once m_stopping is set it returns 0.
Insert(c) ==
  /\ cpc[c] = "insert"
  /\ \/ /\ m_stopping
        /\ cpc' = [cpc EXCEPT ![c] = "idle"]
        /\ UNCHANGED <<tasks, registry, posted>>
     \/ /\ ~m_stopping
        /\ registry' = registry \union {arg[c].id}
        /\ tasks' = tasks \union {arg[c]}
        /\ posted' = [posted EXCEPT ![arg[c].id] = arg[c]]
        /\ cpc' = [cpc EXCEPT ![c] = "notify"]
  /\ UNCHANGED <<now, nextId, cancelled, workerVars, arg, dpc, runs, lateRuns>>

\* cancel's critical section.  For an id that is not registered cancel
\* returns false and changes nothing, so only the other branch is a step.
Cancel(c, id) ==
  /\ MayCall(c)
  /\ id \in registry
  /\ cancelled' = cancelled \union {id}
  /\ registry' = registry \ {id}
  /\ cpc' = [cpc EXCEPT ![c] = "notify"]
  /\ arg' = [arg EXCEPT ![c] = WithId(NoTask, id)]
  /\ UNCHANGED <<now, nextId, tasks, workerVars, dpc, history>>

\* After the unlock: notify_all, and the call returns.
Notify(c) ==
  /\ cpc[c] = "notify"
  /\ NotifyAll
  /\ cpc' = [cpc EXCEPT ![c] = "idle"]
  /\ UNCHANGED <<now, shared, cur, wakeAt, arg, dpc, history>>

-----------------------------------------------------------------------------
(* The worker: run().  Its frame is what no step of it changes.            *)

workerFrame == <<now, nextId, cancelled, callVars, dpc, posted>>

StopWhenIdle == m_stopping /\ tasks = {}                            \* variant
StopSeen == m_stopping \/ stop_requested
LatestNext == {t \in tasks : \A u \in tasks : t.next >= u.next}      \* variant
\* m_tasks.top(): the queue promises no order among equal due times.
Heads == {t \in tasks : \A u \in tasks : t.next <= u.next}
IsDue(t) == t.next <= now
DropTask == wpc' = "loop" /\ cur' = NoTask

Exit ==
  /\ wpc = "loop" /\ StopSeen
  /\ wpc' = "exited"
  /\ UNCHANGED <<workerFrame, tasks, registry, cur, wakeAt, runs, lateRuns>>

\* m_cv.wait with a predicate, re-evaluated on every wake-up.
WaitForTask ==
  /\ wpc = "loop" /\ ~StopSeen /\ tasks = {}
  /\ wpc' = "wait"
  /\ UNCHANGED <<workerFrame, tasks, registry, cur, wakeAt, runs, lateRuns>>

TakeDue ==
  /\ wpc = "loop" /\ ~StopSeen
  /\ \E t \in Heads : IsDue(t) /\ cur' = t /\ tasks' = tasks \ {t}
  /\ wpc' = "taken" /\ wakeAt' = 0
  /\ UNCHANGED <<workerFrame, registry, runs, lateRuns>>

\* The head is not due: m_cv.wait_until(lock, nextTime).
WaitUntilDue ==
  /\ wpc = "loop" /\ ~StopSeen
  /\ \E t \in Heads : ~IsDue(t) /\ wakeAt' = t.next
  /\ wpc' = "timedWait"
  /\ UNCHANGED <<workerFrame, tasks, registry, cur, runs, lateRuns>>

\* wait_until returns: the deadline passed, or spuriously before it.
WakeUp(spurious) ==
  /\ wpc = "timedWait"
  /\ spurious \/ wakeAt <= now
  /\ wpc' = "loop"
  /\ UNCHANGED <<workerFrame, tasks, registry, cur, wakeAt, runs, lateRuns>>

OwnFlag == FALSE                                                    \* variant
\* task.cancelled->load(), without the mutex: the flag is shared with cancel().
FlagSet == cur.id \in cancelled

CheckCancelled ==
  /\ wpc = "taken"
  /\ IF FlagSet THEN DropTask ELSE wpc' = "start" /\ UNCHANGED cur
  /\ UNCHANGED <<workerFrame, tasks, registry, wakeAt, runs, lateRuns>>

StartTask ==
  /\ wpc = "start"
  /\ wpc' = "run"
  /\ runs' = [runs EXCEPT ![cur.id] = IF cur.period = 0 THEN 1 ELSE @ + 1]
  /\ lateRuns' = [lateRuns EXCEPT ![cur.id] = IF cur.id \in cancelled THEN @ + 1 ELSE @]
  /\ UNCHANGED <<workerFrame, tasks, registry, cur, wakeAt>>

\* fn returns or throws: both catch clauses only log, and fall through.
FinishTask ==
  /\ wpc = "run" /\ cpc[Worker] = "idle"
  /\ wpc' = "finished"
  /\ UNCHANGED <<workerFrame, tasks, registry, cur, wakeAt, runs, lateRuns>>

\* The outer condition of the reschedule branch, read without the mutex.
CheckPeriodic ==
  /\ wpc = "finished"
  /\ wpc' = IF ~StopSeen /\ cur.period # OneShot THEN "periodic" ELSE "erase"
  /\ UNCHANGED <<workerFrame, tasks, registry, cur, wakeAt, runs, lateRuns>>

NextRun0 == now + cur.period                                        \* variant
\* "fixed-rate": the period is added to the previous due time.
NextRun == cur.next + cur.period

CheckReschedule ==
  /\ wpc = "periodic"
  /\ IF FlagSet THEN DropTask
     ELSE wpc' = "requeue" /\ cur' = WithNext(cur, NextRun)
  /\ UNCHANGED <<workerFrame, tasks, registry, wakeAt, runs, lateRuns>>

\* The push under the mutex; its notify_all finds nobody asleep.
Requeue ==
  /\ wpc = "requeue"
  /\ tasks' = IF m_stopping THEN tasks ELSE tasks \union {cur}
  /\ DropTask
  /\ UNCHANGED <<workerFrame, registry, wakeAt, runs, lateRuns>>

Unregister0 == UNCHANGED registry                                   \* variant
Unregister == registry' = registry \ {cur.id}

\* A task that is over leaves m_canceledTasks, under the mutex.
Erase ==
  /\ wpc = "erase"
  /\ Unregister
  /\ DropTask
  /\ UNCHANGED <<workerFrame, tasks, wakeAt, runs, lateRuns>>

-----------------------------------------------------------------------------
(* The destructor: the last owner lets go, so no owner is inside a call.   *)

destructorFrame == <<now, shared, cur, wakeAt, callVars, history>>

BeginDestroy ==
  /\ dpc = "alive" /\ \A c \in Callers : cpc[c] = "idle"
  /\ dpc' = "stopping"
  /\ UNCHANGED <<destructorFrame, wpc>>

RequestStop == dpc = "stopping" /\ dpc' = "requested" /\ UNCHANGED <<destructorFrame, wpc>>
NotifyStop == dpc = "requested" /\ dpc' = "joining" /\ NotifyAll /\ UNCHANGED destructorFrame
Join ==
  /\ dpc = "joining" /\ wpc = "exited"
  /\ dpc' = "destroyed"
  /\ UNCHANGED <<destructorFrame, wpc>>

\* The executor is gone: nothing is left to do.
Destroyed == dpc = "destroyed" /\ UNCHANGED vars

-----------------------------------------------------------------------------
CallBegins(c) ==
  Post(c) \/ PostAfter(c) \/ PostEvery(c) \/ \E id \in TaskIds : Cancel(c, id)
CallProceeds(c) == AllocateId(c) \/ Insert(c) \/ Notify(c)

WorkerProceeds ==
  \/ Exit \/ WaitForTask \/ TakeDue \/ WaitUntilDue \/ WakeUp(FALSE)
  \/ CheckCancelled \/ StartTask
  \/ CheckPeriodic \/ CheckReschedule \/ Requeue \/ Erase

DestructorProceeds == RequestStop \/ NotifyStop \/ Join

Next ==
  \/ Tick
  \/ \E c \in Threads : CallBegins(c) \/ CallProceeds(c)
  \/ WorkerProceeds \/ WakeUp(TRUE) \/ FinishTask
  \/ BeginDestroy \/ DestructorProceeds \/ Destroyed

Spec == Init /\ [][Next]_vars

\* The clock and the threads inside the code keep running, and a task's fn
\* returns.  Nobody is obliged to call or to destroy the executor, and
\* nothing is assumed of spurious wake-ups.
Fairness ==
  /\ WF_vars(Tick)
  /\ \A c \in Threads : WF_vars(CallProceeds(c))
  /\ WF_vars(WorkerProceeds)
  /\ WF_vars(FinishTask)
  /\ WF_vars(DestructorProceeds)

FairSpec == Spec /\ Fairness

-----------------------------------------------------------------------------
(* Properties.                                                             *)

WorkerSteps == {"loop", "wait", "timedWait", "taken", "start", "run",
                "finished", "periodic", "requeue", "erase", "exited"}
Holding == {"taken", "start", "run", "finished", "periodic", "requeue", "erase"}
InHand == IF wpc \in Holding THEN {cur.id} ELSE {}
Queued == {t.id : t \in tasks}

\* Every variable holds a value of its C++ type, within the named bounds.
TypeOK ==
  /\ now \in Nat
  /\ nextId \in 1..(MaxTasks + 1)
  /\ tasks \in SUBSET ScheduledTask
  /\ registry \in SUBSET TaskIds /\ cancelled \in SUBSET TaskIds
  /\ wpc \in WorkerSteps /\ wakeAt \in Nat
  /\ cur \in ScheduledTask \union {NoTask}
  /\ cpc \in [Threads -> {"idle", "allocate", "insert", "notify"}]
  /\ arg \in [Threads -> CallTask]
  /\ dpc \in {"alive", "stopping", "requested", "joining", "destroyed"}
  /\ posted \in [TaskIds -> ScheduledTask \union {NoTask}]
  /\ runs \in [TaskIds -> Nat] /\ lateRuns \in [TaskIds -> Nat]

\* No two live tasks share an id, although ids are taken outside the mutex:
\* not two in the queue, nor one in the queue and one in the worker's hands,
\* nor one on its way into the queue and any other.
IdsUnique ==
  /\ \A t, u \in tasks : t.id = u.id => t = u
  /\ Queued \intersect InHand = {}
  /\ \A c \in Threads : cpc[c] = "insert" =>
       /\ arg[c].id \notin Queued \union InHand
       /\ \A d \in Threads \ {c} : cpc[d] = "insert" => arg[d].id # arg[c].id

\* cancel() tells the truth, and m_canceledTasks neither leaks nor forgets:
\* until the destructor starts, the registered ids are exactly those of the
\* tasks that are queued or in the worker's hands and not cancelled.
RegistryExact ==
  LET live == (Queued \union InHand) \ cancelled
  IN  live \subseteq registry /\ (~m_stopping => registry \subseteq live)

\* No wake-up is lost: whenever the worker sleeps although there is something
\* it should see (a task, a head earlier than its deadline, the destructor),
\* somebody is still going to notify it.
NoLostWakeup ==
  LET coming == \E c \in Callers : cpc[c] = "notify"
  IN  /\ wpc = "wait" => tasks = {} \/ coming
      /\ wpc = "timedWait" => (\A t \in tasks : wakeAt <= t.next) \/ coming
      /\ wpc \in Asleep /\ m_stopping => dpc \in {"stopping", "requested"}

\* The "fixed-rate" promise of run()'s comment, drift and runtime excluded:
\* a task's n-th run is due n - 1 periods after its first, and never starts
\* earlier; a one-shot task runs once.
FixedRate ==
  /\ \A t \in tasks : t.period # OneShot =>
       t.next = posted[t.id].next + runs[t.id] * t.period
  /\ \A id \in TaskIds : runs[id] > 0 =>
       IF posted[id].period = OneShot THEN runs[id] = 1 /\ posted[id].next <= now
       ELSE posted[id].next + (runs[id] - 1) * posted[id].period <= now

\* A cancelled task may still be started, but only once: by a worker that had
\* loaded its flag before cancel() set it.
OneLateRun == \A id \in TaskIds : lateRuns[id] <= 1

\* What the state says of a task's life: between its runs a periodic one is
\* pending, wherever the worker has it; a one-shot has ended until it is erased.
StageOf(id) ==
  IF posted[id] = NoTask THEN "unknown"
  ELSE IF cur.id = id /\ wpc = "start" THEN "chosen"
  ELSE IF cur.id = id /\ wpc = "run" THEN "running"
  ELSE IF id \in Queued THEN "pending"
  ELSE IF cur.id = id /\ wpc = "taken" THEN "pending"
  ELSE IF cur.id = id /\ wpc \in {"finished", "periodic", "requeue"} /\ cur.period # OneShot
  THEN "pending"
  ELSE IF cur.id = id /\ wpc \in {"finished", "erase"} /\ cur.period = OneShot
  THEN "ended" ELSE "over"
LifeOf == IF dpc = "alive" THEN "alive" ELSE IF dpc = "destroyed" THEN "gone" ELSE "stopping"

Lifecycle == INSTANCE TaskLifecycle WITH
  Tasks <- TaskIds,
  stage <- [id \in TaskIds |-> StageOf(id)],
  periodic <- {id \in TaskIds : posted[id].period # OneShot},
  life <- LifeOf

\* All of the above keep the promise of TaskLifecycle: ids, queue, flags and
\* the worker's steps never lose a live task, choose a cancelled one, run
\* two at once, or run one when the destructor has returned.
ImplementsLifecycle == Lifecycle!Spec

\* A queued task whose time comes is run, unless it is cancelled or the
\* executor is destroyed first; a backlog of periodic tasks does not starve it.
DueTasksRun ==
  \A id \in TaskIds :
    (\E t \in tasks : t.id = id /\ t.next <= MaxTime)
      ~> (m_stopping \/ id \in cancelled \/ (wpc = "run" /\ cur.id = id))

\* The destructor returns: its stop reaches a worker that sleeps, runs a task
\* or requeues one.
DestructorReturns == (dpc = "stopping") ~> (dpc = "destroyed")
=============================================================================
