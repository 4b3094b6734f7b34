----------------------- MODULE BackgroundExecutorProofs -----------------------
(***************************************************************************)
(* Theorems about BackgroundExecutor, for any owners, any numbers of tasks *)
(* and ticks, any delays and any periods (0 included).                     *)
(***************************************************************************)
EXTENDS BackgroundExecutor, TLAPS

-----------------------------------------------------------------------------
(* Type correctness.                                                       *)

\* What TypeOK needs to be inductive: a call that is about to insert, and a
\* worker past the queue, hold a real task; only periodic tasks go back.
HoldsTask ==
  /\ \A c \in Threads : cpc[c] = "insert" => arg[c].id \in TaskIds
  /\ wpc \in Holding => cur \in ScheduledTask
  /\ wpc \in {"periodic", "requeue"} => cur.period # OneShot

TypeInv == TypeOK /\ HoldsTask

LEMMA TypeInit == Init => TypeInv
  BY BoundsAssumption, ArgumentAssumption
  DEF Init, TypeInv, TypeOK, HoldsTask, NoTask, FirstId, TaskIds, ScheduledTask,
      CallTask, WorkerSteps, Holding

LEMMA CountersType ==
  ASSUME runs \in [TaskIds -> Nat], lateRuns \in [TaskIds -> Nat],
         cur.id \in TaskIds, StartTask
  PROVE  runs' \in [TaskIds -> Nat] /\ lateRuns' \in [TaskIds -> Nat]
  BY DEF StartTask, FlagSet

LEMMA TypeStep == TypeInv /\ [Next]_vars => TypeInv'
<1> USE BoundsAssumption, ArgumentAssumption
<1> SUFFICES ASSUME TypeInv, [Next]_vars PROVE TypeInv'
  OBVIOUS
<1> USE DEF TypeInv, TypeOK, HoldsTask, WorkerSteps, Holding
<1>0. /\ NoTask \in CallTask /\ NoTask.id = 0
      /\ TaskIds \subseteq Nat /\ nextId \in Nat
      /\ \A t \in ScheduledTask : t.id \in TaskIds /\ t.next \in Nat /\ t.period \in Nat \union {OneShot}
      /\ \A t \in CallTask : t.id \in TaskIds => t \in ScheduledTask
      /\ \A t \in CallTask, id \in TaskIds : WithId(t, id) \in CallTask /\ WithId(t, id).id = id
      /\ \A t \in ScheduledTask, n \in Nat : WithNext(t, n) \in ScheduledTask /\ WithNext(t, n).period = t.period
  BY DEF CallTask, ScheduledTask, NoTask, TaskIds, WithId, WithNext
<1> USE <1>0
<1>1. CASE Tick
  BY <1>1 DEF Tick, shared, workerVars, callVars, history
<1>2. ASSUME NEW c \in Threads, CallBegins(c) PROVE TypeInv'
  <2>1. ASSUME NEW when \in Nat, NEW period \in Nat \union {OneShot},
               ScheduleAt(c, when, period)
        PROVE TypeInv'
    <3>1. [id |-> 0, next |-> when, period |-> period] \in CallTask
      BY DEF CallTask
    <3>2. /\ arg' \in [Threads -> CallTask]
          /\ \A d \in Threads \ {c} : arg'[d] = arg[d] /\ cpc'[d] = cpc[d]
          /\ cpc' \in [Threads -> {"idle", "allocate", "insert", "notify"}]
          /\ cpc'[c] = "allocate"
      BY <2>1, <3>1 DEF ScheduleAt
    <3> QED
      BY <2>1, <3>2 DEF ScheduleAt, shared, workerVars, history
  <2>2. ASSUME NEW id \in TaskIds, Cancel(c, id) PROVE TypeInv'
    BY <2>2 DEF Cancel, workerVars, history
  <2>3. ASSUME Post(c) \/ PostAfter(c) \/ PostEvery(c)
        PROVE \E when \in Nat, period \in Nat \union {OneShot} : ScheduleAt(c, when, period)
    <3>1. /\ now \in Nat
          /\ \A delay \in Delays \union Periods : now + delay \in Nat /\ delay \in Nat
      OBVIOUS
    <3> QED
      BY <2>3, <3>1 DEF Post, PostAfter, PostEvery
  <2> QED
    BY <1>2, <2>1, <2>2, <2>3 DEF CallBegins
<1>3. ASSUME NEW c \in Threads, CallProceeds(c) PROVE TypeInv'
  <2>1. CASE AllocateId(c)
    <3>1. nextId' \in 1..(MaxTasks + 1)
      BY <2>1 DEF AllocateId, TakeId, TaskIds
    <3>2. /\ arg' \in [Threads -> CallTask]
          /\ arg'[c].id \in TaskIds
          /\ \A d \in Threads \ {c} : arg'[d] = arg[d] /\ cpc'[d] = cpc[d]
          /\ cpc' \in [Threads -> {"idle", "allocate", "insert", "notify"}]
      BY <2>1 DEF AllocateId
    <3> QED
      BY <2>1, <3>1, <3>2 DEF AllocateId, workerVars, history
  <2>2. CASE Insert(c)
    <3>1. /\ arg[c] \in ScheduledTask /\ arg[c].id \in TaskIds
          /\ \A d \in Threads \ {c} : cpc'[d] = cpc[d]
          /\ cpc' \in [Threads -> {"idle", "allocate", "insert", "notify"}]
          /\ cpc'[c] # "insert"
      BY <2>2 DEF Insert
    <3>2. /\ tasks' \in SUBSET ScheduledTask /\ registry' \in SUBSET TaskIds
          /\ posted' \in [TaskIds -> ScheduledTask \union {NoTask}]
      BY <2>2, <3>1 DEF Insert
    <3> QED
      BY <2>2, <3>1, <3>2 DEF Insert, workerVars
  <2>3. CASE Notify(c)
    BY <2>3 DEF Notify, NotifyAll, Asleep, shared, history
  <2> QED
    BY <1>3, <2>1, <2>2, <2>3 DEF CallProceeds
<1> USE DEF workerFrame, callVars, DropTask
<1>4. CASE WorkerProceeds
  <2>1. CASE Exit  BY <2>1 DEF Exit
  <2>2. CASE WaitForTask  BY <2>2 DEF WaitForTask
  <2>3. CASE TakeDue  BY <2>3 DEF TakeDue, Heads, IsDue
  <2>4. CASE WaitUntilDue  BY <2>4 DEF WaitUntilDue, Heads
  <2>5. CASE WakeUp(FALSE)  BY <2>5 DEF WakeUp
  <2>6. CASE CheckCancelled  BY <2>6 DEF CheckCancelled
  <2>7. CASE StartTask
    <3>1. cur.id \in TaskIds
      BY <2>7 DEF StartTask
    <3>2. runs' \in [TaskIds -> Nat] /\ lateRuns' \in [TaskIds -> Nat]
      BY <2>7, <3>1, CountersType
    <3> QED
      BY <2>7, <3>2 DEF StartTask, FlagSet
  <2>8. CASE CheckPeriodic  BY <2>8 DEF CheckPeriodic
  <2>9. CASE CheckReschedule
    <3>1. NextRun \in Nat
      BY <2>9 DEF CheckReschedule, NextRun
    <3>2. \/ DropTask
          \/ wpc' = "requeue" /\ cur' \in ScheduledTask /\ cur'.period = cur.period
      BY <2>9, <3>1 DEF CheckReschedule
    <3> QED
      BY <2>9, <3>2 DEF CheckReschedule
  <2>10. CASE Requeue  BY <2>10 DEF Requeue
  <2>11. CASE Erase  BY <2>11 DEF Erase, Unregister
  <2> QED
    BY <1>4, <2>1, <2>2, <2>3, <2>4, <2>5, <2>6, <2>7, <2>8, <2>9, <2>10, <2>11
    DEF WorkerProceeds
<1>5. CASE WakeUp(TRUE)  BY <1>5 DEF WakeUp
<1>6. CASE FinishTask  BY <1>6 DEF FinishTask
<1> USE DEF destructorFrame, shared, history
<1>7. CASE BeginDestroy  BY <1>7 DEF BeginDestroy
<1>8. CASE DestructorProceeds
  BY <1>8 DEF DestructorProceeds, RequestStop, NotifyStop, Join, NotifyAll, Asleep
<1>9. CASE UNCHANGED vars
  BY <1>9 DEF vars, workerVars
<1> QED
  BY <1>1, <1>2, <1>3, <1>4, <1>5, <1>6, <1>7, <1>8, <1>9 DEF Next, Destroyed

\* Every variable keeps its type in every behaviour: no id beyond the bound,
\* no task in the queue without an id, no due time that is not a time.
THEOREM TypeCorrect == Spec => []TypeOK
<1>1. TypeInv => TypeOK
  BY DEF TypeInv
<1> QED
  BY <1>1, TypeInit, TypeStep, PTL DEF Spec

-----------------------------------------------------------------------------
(* Ids.  A task is in one place, and an id nobody has used yet is unknown  *)
(* to every part of the state.                                             *)

Fresh(id) ==
  /\ id \notin Queued /\ id \notin InHand
  /\ id \notin registry /\ id \notin cancelled
  /\ runs[id] = 0 /\ lateRuns[id] = 0

IdsFresh ==
  /\ \A id \in TaskIds : id >= nextId => Fresh(id)
  /\ \A c \in Threads : cpc[c] = "insert" => Fresh(arg[c].id) /\ arg[c].id < nextId

IdsInv == IdsUnique /\ IdsFresh

\* A step that leaves the queue alone, takes no id, cancels and starts nothing;
\* the worker may drop its task if it is cancelled, or together with its entry.
Quiet ==
  /\ nextId' = nextId /\ tasks' = tasks /\ cancelled' = cancelled
  /\ posted' = posted /\ runs' = runs /\ lateRuns' = lateRuns
  /\ \/ InHand' = InHand /\ registry' = registry
     \/ InHand' = {} /\ InHand \subseteq cancelled /\ registry' = registry
     \/ InHand' = {} /\ registry' = registry \ InHand
  /\ m_stopping => m_stopping'
  /\ \A c \in Threads : cpc'[c] = "insert" => cpc[c] = "insert" /\ arg'[c] = arg[c]

\* Every step is quiet or one of six.
LEMMA QuietOrNot ==
  ASSUME TypeOK, [Next]_vars,
         ~(\E c \in Threads : AllocateId(c) \/ Insert(c) \/ \E id \in TaskIds : Cancel(c, id)),
         ~(TakeDue \/ StartTask \/ Requeue)
  PROVE  Quiet
<1> USE DEF Quiet, InHand, Holding, m_stopping
<1>1. CASE Tick
  BY <1>1 DEF Tick, shared, workerVars, callVars, history
<1>2. ASSUME NEW c \in Threads, NEW when, NEW period, ScheduleAt(c, when, period)
      PROVE Quiet
  BY <1>2 DEF ScheduleAt, shared, workerVars, history, TypeOK
<1>3. ASSUME NEW c \in Threads, Notify(c) PROVE Quiet
  BY <1>3 DEF Notify, NotifyAll, Asleep, shared, history, TypeOK
<1> USE DEF workerFrame, callVars, DropTask
<1>4. CASE Exit  BY <1>4 DEF Exit
<1>5. CASE WaitForTask  BY <1>5 DEF WaitForTask
<1>6. CASE WaitUntilDue  BY <1>6 DEF WaitUntilDue
<1>7. CASE WakeUp(TRUE) \/ WakeUp(FALSE)  BY <1>7 DEF WakeUp
<1>8. CASE CheckCancelled  BY <1>8 DEF CheckCancelled, FlagSet
<1>9. CASE FinishTask  BY <1>9 DEF FinishTask
<1>10. CASE CheckPeriodic  BY <1>10 DEF CheckPeriodic
<1>11. CASE CheckReschedule  BY <1>11 DEF CheckReschedule, WithNext, FlagSet
<1>12. CASE Erase  BY <1>12 DEF Erase, Unregister
<1>13. CASE BeginDestroy  BY <1>13 DEF BeginDestroy, destructorFrame, shared, history
<1>14. CASE DestructorProceeds
  BY <1>14 DEF DestructorProceeds, RequestStop, NotifyStop, Join, NotifyAll, Asleep,
               destructorFrame, shared, history
<1>15. CASE UNCHANGED vars
  BY <1>15 DEF vars, shared, workerVars, history
<1> QED
  BY <1>1, <1>2, <1>3, <1>4, <1>5, <1>6, <1>7, <1>8, <1>9, <1>10, <1>11, <1>12,
     <1>13, <1>14, <1>15
  DEF Next, CallBegins, CallProceeds, WorkerProceeds, Post, PostAfter, PostEvery, Destroyed

LEMMA IdsInit == Init => IdsInv
  BY DEF Init, IdsInv, IdsUnique, IdsFresh, Fresh, Queued, InHand, Holding

LEMMA IdsQuiet == IdsInv /\ Quiet => IdsInv'
  BY DEF IdsInv, IdsUnique, IdsFresh, Fresh, Quiet, Queued
LEMMA IdsStep == TypeInv /\ IdsInv /\ [Next]_vars => IdsInv'
<1> SUFFICES ASSUME TypeInv, IdsInv, [Next]_vars PROVE IdsInv'
  OBVIOUS
<1> USE DEF IdsInv, IdsUnique, IdsFresh, Fresh
<1>0. TypeOK /\ HoldsTask /\ TaskIds \subseteq Nat /\ nextId \in Nat
  BY BoundsAssumption DEF TypeInv, TypeOK, TaskIds
<1>1. ASSUME NEW c \in Threads, AllocateId(c) PROVE IdsInv'
  <2>1. /\ nextId \in TaskIds /\ nextId' = nextId + 1
        /\ Queued' = Queued /\ InHand' = InHand
        /\ tasks' = tasks /\ registry' = registry /\ cancelled' = cancelled
        /\ runs' = runs /\ lateRuns' = lateRuns
    BY <1>1 DEF AllocateId, TakeId, workerVars, history, Queued, InHand
  <2>2. /\ arg'[c].id = nextId /\ cpc[c] # "insert"
        /\ \A d \in Threads \ {c} : arg'[d] = arg[d] /\ cpc'[d] = cpc[d]
    BY <1>0, <1>1 DEF AllocateId, WithId, TypeOK
  <2>3. \A d \in Threads : cpc[d] = "insert" => arg[d].id \in TaskIds
    BY <1>0 DEF HoldsTask
  <2>4. \A d \in Threads \ {c} : cpc[d] = "insert" => arg'[d].id < nextId /\ arg'[d].id # nextId
    BY <1>0, <2>2, <2>3
  <2>5. Fresh(nextId) /\ \A id : Fresh(id)' <=> Fresh(id)
    BY <1>0, <2>1
  <2>6. \A d \in Threads : cpc'[d] = "insert" =>
          (Fresh(arg[d].id) /\ arg[d].id < nextId)'
    <3> HIDE DEF Fresh
    <3> SUFFICES ASSUME NEW d \in Threads, cpc'[d] = "insert"
                 PROVE (Fresh(arg[d].id) /\ arg[d].id < nextId)'
      OBVIOUS
    <3>1. CASE d = c
      BY <3>1, <1>0, <2>1, <2>2, <2>5
    <3>2. CASE d # c
      <4>1. cpc[d] = "insert" /\ arg'[d] = arg[d] /\ arg[d].id \in Nat
        BY <3>2, <1>0, <2>2, <2>3
      <4> QED
        BY <4>1, <1>0, <2>1, <2>5
    <3> QED
      BY <3>1, <3>2
  <2>7. \A id \in TaskIds : id >= nextId' => Fresh(id)'
    BY <1>0, <2>1, <2>5
  <2>8. \A d, e \in Threads : d # e /\ cpc'[d] = "insert" /\ cpc'[e] = "insert" =>
          arg'[d].id # arg'[e].id
    BY <2>2, <2>4
  <2> QED
    BY <2>1, <2>6, <2>7, <2>8
<1>2. ASSUME NEW c \in Threads, Insert(c) PROVE IdsInv'
  <2>1. /\ cpc[c] = "insert" /\ cpc'[c] # "insert"
        /\ \A d \in Threads \ {c} : cpc'[d] = cpc[d]
    BY <1>0, <1>2 DEF Insert, TypeOK
  <2>2. /\ Queued' \subseteq Queued \union {arg[c].id}
        /\ tasks' \subseteq tasks \union {arg[c]}
        /\ registry' \subseteq registry \union {arg[c].id}
        /\ arg[c].id \in TaskIds
    BY <1>0, <1>2, <2>1 DEF Insert, Queued, HoldsTask
  <2>3. /\ InHand' = InHand /\ nextId' = nextId /\ arg' = arg
        /\ cancelled' = cancelled /\ runs' = runs /\ lateRuns' = lateRuns
    BY <1>2 DEF Insert, workerVars, InHand
  <2>4. \A t \in tasks : t.id \in Queued
    BY DEF Queued
  <2> QED
    BY <1>0, <2>1, <2>2, <2>3, <2>4
<1>3. ASSUME NEW c \in Threads, NEW id \in TaskIds, Cancel(c, id) PROVE IdsInv'
  BY <1>0, <1>3 DEF Cancel, MayCall, workerVars, history, TypeOK, Queued, InHand
<1>4. CASE TakeDue
  <2>1. PICK t \in tasks : cur' = t /\ tasks' = tasks \ {t}
    BY <1>4 DEF TakeDue, Heads
  <2>2. /\ InHand = {} /\ InHand' = {t.id}
        /\ Queued' \subseteq Queued /\ t.id \in Queued /\ t.id \notin Queued'
    BY <1>4, <2>1 DEF TakeDue, InHand, Holding, Queued
  <2> QED
    BY <1>0, <1>4, <2>1, <2>2 DEF TakeDue, workerFrame, callVars
<1>5. CASE StartTask
  <2>1. /\ Queued' = Queued /\ tasks' = tasks /\ InHand' = InHand /\ cur.id \in InHand
        /\ registry' = registry /\ cancelled' = cancelled
        /\ nextId' = nextId /\ cpc' = cpc /\ arg' = arg
        /\ \A id \in TaskIds \ {cur.id} : runs'[id] = runs[id] /\ lateRuns'[id] = lateRuns[id]
    BY <1>0, <1>5 DEF StartTask, workerFrame, callVars, InHand, Holding, TypeOK, Queued
  <2>2. \A c \in Threads : cpc[c] = "insert" => arg[c].id \in TaskIds
    BY <1>0 DEF HoldsTask
  <2> QED
    BY <1>0, <2>1, <2>2
<1>6. CASE Requeue
  <2>1. /\ InHand = {cur.id} /\ InHand' = {}
        /\ tasks' \subseteq tasks \union {cur}
        /\ Queued' \subseteq Queued \union {cur.id}
    BY <1>6 DEF Requeue, DropTask, InHand, Holding, Queued
  <2>2. /\ registry' = registry /\ cancelled' = cancelled
        /\ nextId' = nextId /\ cpc' = cpc /\ arg' = arg
        /\ runs' = runs /\ lateRuns' = lateRuns
    BY <1>6 DEF Requeue, workerFrame, callVars
  <2>3. \A t \in tasks : t.id \in Queued
    BY DEF Queued
  <2> QED
    BY <1>0, <2>1, <2>2, <2>3
<1>7. CASE Quiet
  BY <1>7, IdsQuiet
<1> QED
  BY <1>0, <1>1, <1>2, <1>3, <1>4, <1>5, <1>6, <1>7, QuietOrNot

\* Tasks have one id each, wherever they are.
THEOREM IdsAreUnique == Spec => []IdsUnique
<1>1. IdsInv => IdsUnique
  BY DEF IdsInv
<1> QED
  BY <1>1, TypeInit, TypeStep, IdsInit, IdsStep, PTL DEF Spec

-----------------------------------------------------------------------------
(* The registry cancel() consults.                                         *)

LEMMA RegistryInit == Init => RegistryExact
  BY DEF Init, RegistryExact, Queued, InHand, Holding, m_stopping

LEMMA RegistryStep == TypeInv /\ IdsInv /\ RegistryExact /\ [Next]_vars => RegistryExact'
<1> SUFFICES ASSUME TypeInv, IdsInv, RegistryExact, [Next]_vars PROVE RegistryExact'
  OBVIOUS
<1> USE DEF RegistryExact
<1>0. TypeOK /\ HoldsTask /\ IdsUnique /\ IdsFresh
  BY DEF TypeInv, IdsInv
<1>1. ASSUME NEW c \in Threads, AllocateId(c) PROVE RegistryExact'
  BY <1>1 DEF AllocateId, workerVars, Queued, InHand, m_stopping
<1>2. ASSUME NEW c \in Threads, Insert(c) PROVE RegistryExact'
  <2>1. InHand' = InHand /\ cancelled' = cancelled /\ m_stopping' = m_stopping
    BY <1>2 DEF Insert, workerVars, InHand, m_stopping
  <2>2. arg[c].id \notin cancelled
    BY <1>0, <1>2 DEF Insert, IdsFresh, Fresh
  <2>3. CASE m_stopping
    BY <1>2, <2>1, <2>3 DEF Insert, Queued
  <2>4. CASE ~m_stopping
    <3>1. Queued' = Queued \union {arg[c].id} /\ registry' = registry \union {arg[c].id}
      BY <1>2, <2>4 DEF Insert, Queued
    <3> QED
      BY <2>1, <2>2, <2>4, <3>1
  <2> QED
    BY <2>3, <2>4
<1>3. ASSUME NEW c \in Threads, NEW id \in TaskIds, Cancel(c, id) PROVE RegistryExact'
  BY <1>3 DEF Cancel, workerVars, Queued, InHand, m_stopping
<1>4. CASE TakeDue
  <2>1. PICK t \in tasks : cur' = t /\ tasks' = tasks \ {t}
    BY <1>4 DEF TakeDue, Heads
  <2>2. Queued' \union InHand' = Queued \union InHand
    BY <1>0, <1>4, <2>1 DEF TakeDue, InHand, Holding, Queued
  <2> QED
    BY <1>4, <2>2 DEF TakeDue, workerFrame, m_stopping
<1>5. CASE StartTask
  BY <1>5 DEF StartTask, workerFrame, InHand, Holding, Queued, m_stopping
<1>6. CASE Requeue
  <2>1. /\ Queued' \union InHand' \subseteq Queued \union InHand
        /\ ~m_stopping => Queued' \union InHand' = Queued \union InHand
    BY <1>6 DEF Requeue, DropTask, InHand, Holding, Queued
  <2> QED
    BY <1>6, <2>1 DEF Requeue, workerFrame, m_stopping
<1>7. CASE Quiet
  BY <1>0, <1>7 DEF Quiet, IdsUnique, Queued
<1> QED
  BY <1>0, <1>1, <1>2, <1>3, <1>4, <1>5, <1>6, <1>7, QuietOrNot

\* cancel() tells the truth about every task, and no entry leaks.
THEOREM RegistryIsExact == Spec => []RegistryExact
  BY TypeInit, TypeStep, IdsInit, IdsStep, RegistryInit, RegistryStep, PTL DEF Spec

-----------------------------------------------------------------------------
(* Wake-ups.                                                               *)

\* A task's own calls happen while the worker is awake.
CallsAwake == cpc[Worker] # "idle" => wpc = "run"
WakeInv == NoLostWakeup /\ CallsAwake

LEMMA WakeInit == Init => WakeInv
  BY DEF Init, WakeInv, NoLostWakeup, CallsAwake, Asleep, Threads

LEMMA WakeStep == TypeInv /\ WakeInv /\ [Next]_vars => WakeInv'
<1> SUFFICES ASSUME TypeInv, WakeInv, [Next]_vars PROVE WakeInv'
  OBVIOUS
<1> USE DEF WakeInv, NoLostWakeup, CallsAwake, Asleep, m_stopping
<1>0. TypeOK /\ Worker \in Threads /\ Callers \subseteq Threads
  BY DEF TypeInv, Threads
<1>1. CASE Tick
  BY <1>1 DEF Tick, shared, workerVars, callVars
<1>2. ASSUME NEW c \in Threads, NEW when, NEW period, ScheduleAt(c, when, period)
      PROVE WakeInv'
  BY <1>0, <1>2 DEF ScheduleAt, MayCall, shared, workerVars, TypeOK
<1>3. ASSUME NEW c \in Threads, AllocateId(c) PROVE WakeInv'
  BY <1>0, <1>3 DEF AllocateId, workerVars, TypeOK
<1>4. ASSUME NEW c \in Threads, Insert(c) PROVE WakeInv'
  BY <1>0, <1>4 DEF Insert, workerVars, TypeOK, Threads
<1>5. ASSUME NEW c \in Threads, NEW id \in TaskIds, Cancel(c, id) PROVE WakeInv'
  BY <1>0, <1>5 DEF Cancel, MayCall, workerVars, TypeOK
<1>6. ASSUME NEW c \in Threads, Notify(c) PROVE WakeInv'
  BY <1>0, <1>6 DEF Notify, NotifyAll, shared, TypeOK
<1> USE DEF workerFrame, callVars, DropTask
<1>7. CASE Exit  BY <1>7 DEF Exit
<1>8. CASE WaitForTask  BY <1>8 DEF WaitForTask, StopSeen
<1>9. CASE TakeDue  BY <1>9 DEF TakeDue
<1>10. CASE WaitUntilDue  BY <1>10 DEF WaitUntilDue, StopSeen, Heads
<1>11. CASE WakeUp(TRUE) \/ WakeUp(FALSE)  BY <1>11 DEF WakeUp
<1>12. CASE CheckCancelled  BY <1>12 DEF CheckCancelled
<1>13. CASE StartTask  BY <1>13 DEF StartTask
<1>14. CASE FinishTask  BY <1>14 DEF FinishTask
<1>15. CASE CheckPeriodic  BY <1>15 DEF CheckPeriodic
<1>16. CASE CheckReschedule  BY <1>16 DEF CheckReschedule
<1>17. CASE Requeue  BY <1>17 DEF Requeue
<1>18. CASE Erase  BY <1>18 DEF Erase
<1>19. CASE BeginDestroy  BY <1>19 DEF BeginDestroy, destructorFrame, shared
<1>20. CASE DestructorProceeds
  BY <1>20 DEF DestructorProceeds, RequestStop, NotifyStop, Join, NotifyAll,
               destructorFrame, shared
<1>21. CASE UNCHANGED vars
  BY <1>21 DEF vars, shared, workerVars
<1> QED
  BY <1>1, <1>2, <1>3, <1>4, <1>5, <1>6, <1>7, <1>8, <1>9, <1>10, <1>11, <1>12,
     <1>13, <1>14, <1>15, <1>16, <1>17, <1>18, <1>19, <1>20, <1>21
  DEF Next, CallBegins, CallProceeds, WorkerProceeds, Post, PostAfter, PostEvery, Destroyed

\* The worker never sleeps past something it should see.
THEOREM NoWakeupIsLost == Spec => []NoLostWakeup
<1>1. WakeInv => NoLostWakeup
  BY DEF WakeInv
<1> QED
  BY <1>1, TypeInit, TypeStep, WakeInit, WakeStep, PTL DEF Spec

-----------------------------------------------------------------------------
(* Cancellation bounds what still happens.                                 *)

\* A task that was started after its flag was set is on its way out: nothing
\* can bring it back to the start of another run.
LateInv ==
  \A id \in TaskIds :
    \/ lateRuns[id] = 0
    \/ /\ lateRuns[id] = 1
       /\ id \in cancelled /\ id \notin Queued
       /\ wpc \in {"taken", "start", "requeue"} => cur.id # id

LEMMA LateInit == Init => LateInv
  BY DEF Init, LateInv

LEMMA LateStep == TypeInv /\ IdsInv /\ LateInv /\ [Next]_vars => LateInv'
<1> SUFFICES ASSUME TypeInv, IdsInv, LateInv, [Next]_vars PROVE LateInv'
  OBVIOUS
<1> USE DEF LateInv
<1>0. TypeOK /\ HoldsTask /\ IdsUnique /\ IdsFresh
  BY DEF TypeInv, IdsInv
<1>1. CASE Tick
  BY <1>1 DEF Tick, shared, workerVars, callVars, history, Queued
<1>2. ASSUME NEW c \in Threads, NEW when, NEW period, ScheduleAt(c, when, period)
      PROVE LateInv'
  BY <1>2 DEF ScheduleAt, shared, workerVars, history, Queued
<1>3. ASSUME NEW c \in Threads, AllocateId(c) PROVE LateInv'
  BY <1>3 DEF AllocateId, workerVars, history, Queued
<1>4. ASSUME NEW c \in Threads, Insert(c) PROVE LateInv'
  <2>1. arg[c].id \notin cancelled
    BY <1>0, <1>4 DEF Insert, IdsFresh, Fresh
  <2>2. Queued' \subseteq Queued \union {arg[c].id}
    BY <1>4 DEF Insert, Queued
  <2> QED
    BY <1>4, <2>1, <2>2 DEF Insert, workerVars
<1>5. ASSUME NEW c \in Threads, NEW id \in TaskIds, Cancel(c, id) PROVE LateInv'
  BY <1>5 DEF Cancel, workerVars, history, Queued
<1>6. ASSUME NEW c \in Threads, Notify(c) PROVE LateInv'
  BY <1>6 DEF Notify, NotifyAll, Asleep, shared, history, Queued
<1> USE DEF workerFrame, callVars, DropTask
<1>7. CASE Exit  BY <1>7 DEF Exit, Queued
<1>8. CASE WaitForTask  BY <1>8 DEF WaitForTask, Queued
<1>9. CASE TakeDue
  <2>1. cur'.id \in Queued /\ Queued' \subseteq Queued
    BY <1>9 DEF TakeDue, Heads, Queued
  <2> QED
    BY <1>9, <2>1 DEF TakeDue
<1>10. CASE WaitUntilDue  BY <1>10 DEF WaitUntilDue, Queued
<1>11. CASE WakeUp(TRUE) \/ WakeUp(FALSE)  BY <1>11 DEF WakeUp, Queued
<1>12. CASE CheckCancelled  BY <1>12 DEF CheckCancelled, Queued
<1>13. CASE StartTask
  <2>1. cur.id \notin Queued /\ Queued' = Queued /\ cancelled' = cancelled /\ wpc' = "run"
    BY <1>0, <1>13 DEF StartTask, IdsUnique, InHand, Holding, Queued
  <2>2. /\ \A id \in TaskIds \ {cur.id} : lateRuns'[id] = lateRuns[id]
        /\ lateRuns'[cur.id] = lateRuns[cur.id] \/ (cur.id \in cancelled /\ lateRuns'[cur.id] = lateRuns[cur.id] + 1)
        /\ lateRuns[cur.id] = 0
    BY <1>0, <1>13 DEF StartTask, FlagSet, TypeOK, HoldsTask, Holding, ScheduledTask
  <2> QED
    BY <2>1, <2>2
<1>14. CASE FinishTask  BY <1>14 DEF FinishTask, Queued
<1>15. CASE CheckPeriodic  BY <1>15 DEF CheckPeriodic, Queued
<1>16. CASE CheckReschedule
  BY <1>16 DEF CheckReschedule, FlagSet, WithNext, Queued
<1>17. CASE Requeue
  <2>1. Queued' \subseteq Queued \union {cur.id}
    BY <1>17 DEF Requeue, Queued
  <2> QED
    BY <1>17, <2>1 DEF Requeue
<1>18. CASE Erase  BY <1>18 DEF Erase, Queued
<1>19. CASE BeginDestroy  BY <1>19 DEF BeginDestroy, destructorFrame, shared, history, Queued
<1>20. CASE DestructorProceeds
  BY <1>20 DEF DestructorProceeds, RequestStop, NotifyStop, Join, NotifyAll, Asleep,
               destructorFrame, shared, history, Queued
<1>21. CASE UNCHANGED vars
  BY <1>21 DEF vars, shared, workerVars, history, Queued
<1> QED
  BY <1>1, <1>2, <1>3, <1>4, <1>5, <1>6, <1>7, <1>8, <1>9, <1>10, <1>11, <1>12,
     <1>13, <1>14, <1>15, <1>16, <1>17, <1>18, <1>19, <1>20, <1>21
  DEF Next, CallBegins, CallProceeds, WorkerProceeds, Post, PostAfter, PostEvery, Destroyed

\* After cancel() at most the run that was already decided still happens.
THEOREM AtMostOneLateRun == Spec => []OneLateRun
<1>1. LateInv => OneLateRun
  BY DEF LateInv, OneLateRun
<1> QED
  BY <1>1, TypeInit, TypeStep, IdsInit, IdsStep, LateInit, LateStep, PTL DEF Spec

-----------------------------------------------------------------------------
(* Due times.                                                              *)

\* t waits for its next run: which one that is follows from the runs so far.
OnSchedule(t) ==
  /\ t.period = posted[t.id].period
  /\ IF t.period = OneShot THEN runs[t.id] = 0 /\ t.next = posted[t.id].next
     ELSE t.next = posted[t.id].next + runs[t.id] * t.period

\* t has just had the run it was due for.
HasRun(t) ==
  /\ t.period = posted[t.id].period
  /\ runs[t.id] > 0
  /\ t.period # OneShot => t.next + t.period = posted[t.id].next + runs[t.id] * t.period

\* The second conjunct of FixedRate, for one id.
NotEarly(id) ==
  runs[id] > 0 =>
    IF posted[id].period = OneShot THEN runs[id] = 1 /\ posted[id].next <= now
    ELSE posted[id].next + (runs[id] - 1) * posted[id].period <= now

RateInv ==
  /\ \A t \in tasks : OnSchedule(t)
  /\ wpc \in {"taken", "start", "requeue"} => OnSchedule(cur)
  /\ wpc \in {"taken", "start"} => cur.next <= now
  /\ wpc \in {"run", "finished", "periodic"} => HasRun(cur)
  /\ \A id \in TaskIds : NotEarly(id)

\* A period added to a due time is one run more on the schedule.
LEMMA OneMoreRun ==
  ASSUME NEW p \in Nat, NEW n \in Nat, NEW r \in Nat
  PROVE  p + (r + 1) * n = p + r * n + n
  OBVIOUS

LEMMA RateInit == Init => RateInv
  BY DEF Init, RateInv, NotEarly

\* What a step of the worker that starts nothing, and a step of anybody else
\* that queues nothing, does to the parts of RateInv.
LEMMA RateFrame ==
  ASSUME TypeInv, RateInv, posted' = posted, runs' = runs, tasks' \subseteq tasks,
         now' \in Nat, now <= now',
         \/ wpc' = wpc /\ cur' = cur
         \/ wpc' \notin {"taken", "start", "requeue", "run", "finished", "periodic"}
         \/ wpc = "taken" /\ wpc' = "start" /\ cur' = cur
         \/ wpc = "run" /\ wpc' = "finished" /\ cur' = cur
         \/ wpc = "finished" /\ wpc' = "periodic" /\ cur' = cur
         \/ wpc' = "taken" /\ cur' \in tasks /\ cur'.next <= now'
  PROVE  RateInv'
<1>1. /\ now \in Nat
      /\ \A t \in tasks : OnSchedule(t) => OnSchedule(t)'
      /\ OnSchedule(cur) /\ cur' = cur => OnSchedule(cur)'
      /\ HasRun(cur) /\ cur' = cur => HasRun(cur)'
  BY DEF OnSchedule, HasRun, TypeInv, TypeOK
<1>2. wpc' \in {"taken", "start", "requeue"} => OnSchedule(cur)'
  BY <1>1 DEF RateInv, OnSchedule
<1>3. wpc' \in {"taken", "start"} => cur'.next <= now'
  BY <1>1 DEF RateInv, TypeInv, TypeOK, HoldsTask, Holding, ScheduledTask
<1>4. wpc' \in {"run", "finished", "periodic"} => HasRun(cur)'
  BY <1>1 DEF RateInv
<1>5. ASSUME NEW id \in TaskIds PROVE NotEarly(id)'
  <2>1. /\ posted[id].next \in Nat /\ posted[id].period \in Nat \union {OneShot}
        /\ runs[id] \in Nat
    BY DEF TypeInv, TypeOK, ScheduledTask, NoTask
  <2>2. NotEarly(id)
    BY DEF RateInv
  <2>3. CASE posted[id].period = OneShot
    BY <1>1, <2>1, <2>2, <2>3 DEF NotEarly
  <2>4. CASE posted[id].period # OneShot
    BY <1>1, <2>1, <2>2, <2>4 DEF NotEarly
  <2> QED
    BY <2>3, <2>4
<1> QED
  BY <1>1, <1>2, <1>3, <1>4, <1>5 DEF RateInv

LEMMA RateStep == TypeInv /\ IdsInv /\ RateInv /\ [Next]_vars => RateInv'
<1> SUFFICES ASSUME TypeInv, IdsInv, RateInv, [Next]_vars PROVE RateInv'
  OBVIOUS
<1>0. TypeOK /\ HoldsTask /\ IdsUnique /\ IdsFresh /\ now \in Nat
  BY DEF TypeInv, TypeOK, IdsInv
<1>1. CASE Tick
  BY <1>0, <1>1, RateFrame DEF Tick, shared, workerVars, callVars, history
<1>2. ASSUME NEW c \in Threads, NEW when, NEW period, ScheduleAt(c, when, period)
      PROVE RateInv'
  BY <1>0, <1>2, RateFrame DEF ScheduleAt, shared, workerVars, history
<1>3. ASSUME NEW c \in Threads, AllocateId(c) PROVE RateInv'
  BY <1>0, <1>3, RateFrame DEF AllocateId, workerVars, history
<1>4. ASSUME NEW c \in Threads, Insert(c) PROVE RateInv'
  <2>1. CASE m_stopping
    BY <1>0, <1>4, <2>1, RateFrame DEF Insert, workerVars
  <2>2. CASE ~m_stopping
    <3> DEFINE new == arg[c]
    <3>1. /\ new.id \in TaskIds /\ runs[new.id] = 0 /\ new \in CallTask
          /\ new.id \notin Queued /\ new.id \notin InHand
      BY <1>0, <1>4 DEF Insert, TypeOK, HoldsTask, IdsFresh, Fresh
    <3>2. /\ tasks' = tasks \union {new} /\ runs' = runs /\ now' = now
          /\ wpc' = wpc /\ cur' = cur /\ new' = new
          /\ posted' = [posted EXCEPT ![new.id] = new]
      BY <1>4, <2>2 DEF Insert, workerVars
    <3> HIDE DEF new
    <3>3. /\ posted'[new.id] = new
          /\ \A id \in TaskIds \ {new.id} : posted'[id] = posted[id]
      BY <1>0, <3>1, <3>2 DEF TypeOK
    <3>4. \A t \in tasks : t.id \in TaskIds \ {new.id}
      BY <1>0, <3>1 DEF TypeOK, ScheduledTask, Queued
    <3>5. wpc \in Holding => cur.id \in TaskIds \ {new.id}
      BY <1>0, <3>1 DEF HoldsTask, ScheduledTask, InHand
    <3>6. OnSchedule(new)'
      <4>1. new.next \in Nat /\ (new.period = OneShot \/ new.period \in Nat)
        BY <3>1 DEF CallTask
      <4>2. new.next + 0 * new.period = new.next \/ new.period = OneShot
        BY <4>1
      <4> QED
        BY <3>1, <3>2, <3>3, <4>1, <4>2 DEF OnSchedule
    <3>7. \A t \in tasks' : OnSchedule(t)'
      BY <3>2, <3>3, <3>4, <3>6 DEF RateInv, OnSchedule
    <3>8. /\ wpc' \in {"taken", "start", "requeue"} => OnSchedule(cur)'
          /\ wpc' \in {"taken", "start"} => cur'.next <= now'
          /\ wpc' \in {"run", "finished", "periodic"} => HasRun(cur)'
      BY <3>2, <3>3, <3>5 DEF RateInv, OnSchedule, HasRun, Holding
    <3>9. \A id \in TaskIds : NotEarly(id)'
      BY <3>1, <3>2, <3>3 DEF RateInv, NotEarly
    <3> QED
      BY <3>7, <3>8, <3>9 DEF RateInv
  <2> QED
    BY <2>1, <2>2
<1>5. ASSUME NEW c \in Threads, NEW id \in TaskIds, Cancel(c, id) PROVE RateInv'
  BY <1>0, <1>5, RateFrame DEF Cancel, workerVars, history
<1>6. ASSUME NEW c \in Threads, Notify(c) PROVE RateInv'
  BY <1>0, <1>6, RateFrame DEF Notify, NotifyAll, Asleep, shared, history
<1> USE DEF workerFrame, callVars, DropTask
<1>7. CASE Exit  BY <1>0, <1>7, RateFrame DEF Exit
<1>8. CASE WaitForTask  BY <1>0, <1>8, RateFrame DEF WaitForTask
<1>9. CASE TakeDue
  BY <1>0, <1>9, RateFrame DEF TakeDue, Heads, IsDue
<1>10. CASE WaitUntilDue  BY <1>0, <1>10, RateFrame DEF WaitUntilDue
<1>11. CASE WakeUp(TRUE) \/ WakeUp(FALSE)  BY <1>0, <1>11, RateFrame DEF WakeUp
<1>12. CASE CheckCancelled  BY <1>0, <1>12, RateFrame DEF CheckCancelled
<1>13. CASE StartTask
  <2>1. /\ cur \in ScheduledTask /\ cur.id \in TaskIds
        /\ cur.next \in Nat /\ cur.period \in Nat \union {OneShot}
        /\ cur.id \notin Queued /\ runs[cur.id] \in Nat
        /\ OnSchedule(cur) /\ cur.next <= now
    BY <1>0, <1>13
    DEF StartTask, TypeOK, HoldsTask, Holding, ScheduledTask, IdsUnique, InHand, RateInv
  <2>2. /\ posted' = posted /\ tasks' = tasks /\ cur' = cur /\ now' = now /\ wpc' = "run"
        /\ \A id \in TaskIds \ {cur.id} : runs'[id] = runs[id]
        /\ runs'[cur.id] = IF cur.period = 0 THEN 1 ELSE runs[cur.id] + 1
    BY <1>0, <1>13, <2>1 DEF StartTask, TypeOK
  <2>3. \A t \in tasks : t.id \in TaskIds \ {cur.id}
    BY <1>0, <2>1 DEF TypeOK, ScheduledTask, Queued
  <2>4. \A t \in tasks : OnSchedule(t)'
    BY <2>2, <2>3 DEF RateInv, OnSchedule
  <2>5. HasRun(cur)'
    <3>1. CASE cur.period = OneShot
      BY <2>1, <2>2, <3>1, ArgumentAssumption DEF HasRun, OnSchedule
    <3>2. CASE cur.period = 0
      BY <2>1, <2>2, <3>2, ArgumentAssumption DEF HasRun, OnSchedule
    <3>3. CASE cur.period \in Nat \ {0}
      <4>1. posted[cur.id].next \in Nat
        BY <1>0, <2>1 DEF TypeOK, ScheduledTask, NoTask
      <4>2. posted[cur.id].next + (runs[cur.id] + 1) * cur.period
              = posted[cur.id].next + runs[cur.id] * cur.period + cur.period
        BY <2>1, <3>3, <4>1, OneMoreRun
      <4> QED
        BY <2>1, <2>2, <3>3, <4>1, <4>2, ArgumentAssumption DEF HasRun, OnSchedule
    <3> QED
      BY <2>1, <3>1, <3>2, <3>3
  <2>6. NotEarly(cur.id)'
    <3>1. CASE cur.period = OneShot
      BY <2>1, <2>2, <3>1, ArgumentAssumption DEF NotEarly, OnSchedule
    <3>2. CASE cur.period = 0
      BY <2>1, <2>2, <3>2, ArgumentAssumption DEF NotEarly, OnSchedule
    <3>3. CASE cur.period \in Nat \ {0}
      <4>1. runs'[cur.id] - 1 = runs[cur.id]
        BY <2>1, <2>2, <3>3
      <4> QED
        BY <2>1, <2>2, <3>3, <4>1, ArgumentAssumption DEF NotEarly, OnSchedule
    <3> QED
      BY <2>1, <3>1, <3>2, <3>3
  <2>7. \A id \in TaskIds \ {cur.id} : NotEarly(id)'
    BY <2>2 DEF RateInv, NotEarly
  <2> QED
    BY <2>2, <2>4, <2>5, <2>6, <2>7 DEF RateInv
<1>14. CASE FinishTask  BY <1>0, <1>14, RateFrame DEF FinishTask
<1>15. CASE CheckPeriodic  BY <1>0, <1>15, RateFrame DEF CheckPeriodic
<1>16. CASE CheckReschedule
  <2>1. CASE FlagSet
    BY <1>0, <1>16, <2>1, RateFrame DEF CheckReschedule
  <2>2. CASE ~FlagSet
    <3>1. /\ cur \in ScheduledTask /\ cur.period # OneShot /\ HasRun(cur)
          /\ wpc' = "requeue" /\ cur' = WithNext(cur, cur.next + cur.period)
          /\ posted' = posted /\ runs' = runs /\ tasks' = tasks /\ now' = now
      BY <1>0, <1>16, <2>2
      DEF CheckReschedule, NextRun, TypeOK, HoldsTask, Holding, RateInv
    <3>2. OnSchedule(cur)'
      BY <3>1 DEF HasRun, OnSchedule, WithNext
    <3>3. /\ \A t \in tasks : OnSchedule(t)'
          /\ \A id \in TaskIds : NotEarly(id)'
      BY <3>1 DEF RateInv, OnSchedule, NotEarly
    <3> QED
      BY <3>1, <3>2, <3>3 DEF RateInv
  <2> QED
    BY <2>1, <2>2
<1>17. CASE Requeue
  <2>1. /\ posted' = posted /\ runs' = runs /\ now' = now /\ wpc' = "loop"
        /\ tasks' \subseteq tasks \union {cur} /\ OnSchedule(cur)
    BY <1>17 DEF Requeue, RateInv
  <2>2. \A t \in tasks \union {cur} : OnSchedule(t)'
    BY <2>1 DEF RateInv, OnSchedule
  <2> QED
    BY <2>1, <2>2 DEF RateInv, NotEarly
<1>18. CASE Erase  BY <1>0, <1>18, RateFrame DEF Erase
<1>19. CASE BeginDestroy
  BY <1>0, <1>19, RateFrame DEF BeginDestroy, destructorFrame, shared, history
<1>20. CASE DestructorProceeds
  BY <1>0, <1>20, RateFrame
  DEF DestructorProceeds, RequestStop, NotifyStop, Join, NotifyAll, Asleep,
      destructorFrame, shared, history
<1>21. CASE UNCHANGED vars
  BY <1>0, <1>21, RateFrame DEF vars, shared, workerVars, history
<1> QED
  BY <1>1, <1>2, <1>3, <1>4, <1>5, <1>6, <1>7, <1>8, <1>9, <1>10, <1>11, <1>12,
     <1>13, <1>14, <1>15, <1>16, <1>17, <1>18, <1>19, <1>20, <1>21
  DEF Next, CallBegins, CallProceeds, WorkerProceeds, Post, PostAfter, PostEvery, Destroyed

\* Fixed-rate scheduling neither drifts nor starts early, whatever the delays
\* of the worker.
THEOREM RunsAtFixedRate == Spec => []FixedRate
<1>1. TypeInv /\ RateInv => FixedRate
  BY DEF RateInv, OnSchedule, NotEarly, FixedRate
<1> QED
  BY <1>1, TypeInit, TypeStep, IdsInit, IdsStep, RateInit, RateStep, PTL DEF Spec
=============================================================================
