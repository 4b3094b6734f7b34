--------------------- MODULE BackgroundExecutorRefinement ---------------------
(***************************************************************************)
(* The executor implements TaskLifecycle, for any owners, any numbers of   *)
(* tasks and ticks, any delays and periods.                                *)
(***************************************************************************)
EXTENDS BackgroundExecutorProofs

-----------------------------------------------------------------------------
(* What the mapping needs besides the invariants of the other properties:  *)
(* a task is known from its insertion on, and the worker outlives nobody.  *)

KnownInv ==
  /\ \A id \in TaskIds : id >= nextId => posted[id] = NoTask
  /\ \A c \in Threads : cpc[c] = "insert" => posted[arg[c].id] = NoTask
  /\ \A id \in Queued \union InHand \union registry : posted[id] # NoTask

EndInv ==
  /\ dpc = "destroyed" => wpc = "exited"
  /\ wpc = "erase" /\ cur.period # OneShot => m_stopping

LEMMA KnownInit == Init => KnownInv /\ EndInv
  BY DEF Init, KnownInv, EndInv, Queued, InHand, Holding

\* Only Insert makes a task known, and only AllocateId takes an id.
LEMMA KnownFrame ==
  ASSUME KnownInv, nextId' = nextId, posted' = posted, registry' \subseteq registry,
         Queued' \union InHand' \subseteq Queued \union InHand,
         \A c \in Threads : cpc'[c] = "insert" => cpc[c] = "insert" /\ arg'[c] = arg[c]
  PROVE  KnownInv'
  BY DEF KnownInv

LEMMA KnownStep == TypeInv /\ IdsInv /\ KnownInv /\ [Next]_vars => KnownInv'
<1> SUFFICES ASSUME TypeInv, IdsInv, KnownInv, [Next]_vars PROVE KnownInv'
  OBVIOUS
<1>0. TypeOK /\ HoldsTask /\ IdsUnique /\ IdsFresh /\ TaskIds \subseteq Nat /\ nextId \in Nat
  BY BoundsAssumption DEF TypeInv, TypeOK, IdsInv, TaskIds
<1>1. ASSUME NEW c \in Threads, AllocateId(c) PROVE KnownInv'
  <2>1. /\ nextId \in TaskIds /\ nextId' = nextId + 1
        /\ Queued' = Queued /\ InHand' = InHand /\ registry' = registry /\ posted' = posted
    BY <1>1 DEF AllocateId, TakeId, workerVars, history, Queued, InHand
  <2>2. /\ arg'[c].id = nextId
        /\ \A d \in Threads \ {c} : arg'[d] = arg[d] /\ cpc'[d] = cpc[d]
    BY <1>0, <1>1 DEF AllocateId, WithId, TypeOK
  <2> QED
    BY <1>0, <2>1, <2>2 DEF KnownInv
<1>2. ASSUME NEW c \in Threads, Insert(c) PROVE KnownInv'
  <2>1. /\ cpc[c] = "insert" /\ cpc'[c] # "insert" /\ arg' = arg /\ nextId' = nextId
        /\ \A d \in Threads \ {c} : cpc'[d] = cpc[d]
        /\ arg[c].id \in TaskIds /\ arg[c].id < nextId /\ arg[c] # NoTask
    BY <1>0, <1>2 DEF Insert, TypeOK, HoldsTask, IdsFresh, NoTask, TaskIds
  <2>2. InHand' = InHand
    BY <1>2 DEF Insert, workerVars, InHand
  <2>3. CASE m_stopping
    <3>1. Queued' = Queued /\ registry' = registry /\ posted' = posted
      BY <1>2, <2>3 DEF Insert, Queued
    <3> QED
      BY <2>1, <2>2, <3>1, KnownFrame
  <2>4. CASE ~m_stopping
    <3>1. /\ Queued' = Queued \union {arg[c].id} /\ registry' = registry \union {arg[c].id}
          /\ posted'[arg[c].id] = arg[c]
          /\ \A id \in TaskIds \ {arg[c].id} : posted'[id] = posted[id]
      BY <1>0, <1>2, <2>1, <2>4 DEF Insert, Queued, TypeOK
    <3>2. \A d \in Threads \ {c} : cpc[d] = "insert" => arg[d].id # arg[c].id
      BY <1>0, <2>1 DEF IdsUnique
    <3>3. \A id \in TaskIds : id >= nextId' => posted'[id] = NoTask
      <4>1. ASSUME NEW id \in TaskIds, id >= nextId PROVE id # arg[c].id
        BY <1>0, <2>1, <4>1
      <4> QED
        BY <2>1, <3>1, <4>1 DEF KnownInv
    <3>4. \A d \in Threads : cpc'[d] = "insert" => posted'[arg'[d].id] = NoTask
      BY <1>0, <2>1, <3>1, <3>2 DEF KnownInv, HoldsTask
    <3>5. \A id \in Queued' \union InHand' \union registry' : posted'[id] # NoTask
      <4>1. Queued \subseteq TaskIds /\ registry \subseteq TaskIds
        BY <1>0 DEF Queued, TypeOK, ScheduledTask
      <4>2. InHand \subseteq TaskIds
        BY <1>0 DEF InHand, HoldsTask, ScheduledTask
      <4> QED
        BY <2>1, <2>2, <3>1, <4>1, <4>2 DEF KnownInv
    <3> QED
      BY <3>3, <3>4, <3>5 DEF KnownInv
  <2> QED
    BY <2>3, <2>4
<1>3. ASSUME NEW c \in Threads, NEW id \in TaskIds, Cancel(c, id) PROVE KnownInv'
  <2>1. /\ nextId' = nextId /\ posted' = posted /\ registry' \subseteq registry
        /\ Queued' = Queued /\ InHand' = InHand
    BY <1>3 DEF Cancel, workerVars, history, Queued, InHand
  <2>2. \A d \in Threads : cpc'[d] = "insert" => cpc[d] = "insert" /\ arg'[d] = arg[d]
    BY <1>0, <1>3 DEF Cancel, TypeOK
  <2> QED
    BY <2>1, <2>2, KnownFrame
<1>4. CASE TakeDue
  <2>1. /\ nextId' = nextId /\ posted' = posted /\ registry' = registry
        /\ cpc' = cpc /\ arg' = arg
        /\ Queued' \union InHand' \subseteq Queued \union InHand
    BY <1>4 DEF TakeDue, Heads, workerFrame, callVars, Queued, InHand, Holding
  <2> QED
    BY <2>1, KnownFrame
<1>5. CASE StartTask
  <2>1. /\ nextId' = nextId /\ posted' = posted /\ registry' = registry
        /\ cpc' = cpc /\ arg' = arg /\ Queued' = Queued /\ InHand' = InHand
    BY <1>5 DEF StartTask, workerFrame, callVars, Queued, InHand, Holding
  <2> QED
    BY <2>1, KnownFrame
<1>6. CASE Requeue
  <2>1. /\ nextId' = nextId /\ posted' = posted /\ registry' = registry
        /\ cpc' = cpc /\ arg' = arg
        /\ Queued' \union InHand' \subseteq Queued \union InHand
    BY <1>6 DEF Requeue, DropTask, workerFrame, callVars, Queued, InHand, Holding
  <2> QED
    BY <2>1, KnownFrame
<1>7. CASE Quiet
  <2>1. Queued' = Queued
    BY <1>7 DEF Quiet, Queued
  <2> QED
    BY <1>7, <2>1, KnownFrame DEF Quiet
<1> QED
  BY <1>0, <1>1, <1>2, <1>3, <1>4, <1>5, <1>6, <1>7, QuietOrNot

LEMMA EndStep == EndInv /\ [Next]_vars => EndInv'
<1> SUFFICES ASSUME EndInv, [Next]_vars PROVE EndInv'
  OBVIOUS
<1> USE DEF EndInv, m_stopping
<1>1. CASE Tick
  BY <1>1 DEF Tick, shared, workerVars, callVars, history
<1>2. ASSUME NEW c \in Threads, NEW when, NEW period, ScheduleAt(c, when, period)
      PROVE EndInv'
  BY <1>2 DEF ScheduleAt, workerVars
<1>3. ASSUME NEW c \in Threads, AllocateId(c) \/ Insert(c) PROVE EndInv'
  BY <1>3 DEF AllocateId, Insert, workerVars
<1>4. ASSUME NEW c \in Threads, NEW id \in TaskIds, Cancel(c, id) PROVE EndInv'
  BY <1>4 DEF Cancel, workerVars
<1>5. ASSUME NEW c \in Threads, Notify(c) PROVE EndInv'
  BY <1>5 DEF Notify, NotifyAll, Asleep
<1> USE DEF workerFrame
<1>6. CASE Exit \/ WaitForTask \/ TakeDue \/ WaitUntilDue \/ WakeUp(FALSE) \/ WakeUp(TRUE)
  BY <1>6 DEF Exit, WaitForTask, TakeDue, WaitUntilDue, WakeUp
<1>7. CASE CheckCancelled \/ StartTask \/ FinishTask \/ CheckReschedule \/ Requeue \/ Erase
  BY <1>7 DEF CheckCancelled, StartTask, FinishTask, CheckReschedule, Requeue, Erase, DropTask
<1>8. CASE CheckPeriodic
  BY <1>8 DEF CheckPeriodic, StopSeen, stop_requested
<1>9. CASE BeginDestroy \/ DestructorProceeds
  BY <1>9 DEF BeginDestroy, DestructorProceeds, RequestStop, NotifyStop, Join, NotifyAll,
              Asleep, destructorFrame
<1>10. CASE UNCHANGED vars
  BY <1>10 DEF vars, workerVars
<1> QED
  BY <1>1, <1>2, <1>3, <1>4, <1>5, <1>6, <1>7, <1>8, <1>9, <1>10
  DEF Next, CallBegins, CallProceeds, WorkerProceeds, Post, PostAfter, PostEvery, Destroyed

-----------------------------------------------------------------------------
(* The steps of the executor, as steps of its promise.                     *)

Stage == [id \in TaskIds |-> StageOf(id)]
Periodic == {id \in TaskIds : posted[id].period # OneShot}

\* What a step that starts, ends or loses no task has in common with others.
StageFrame(S) == \A id \in S : StageOf(id)' = StageOf(id)

LEMMA MoveOne ==
  ASSUME NEW t \in TaskIds, NEW to, StageOf(t)' = to, StageFrame(TaskIds \ {t})
  PROVE  Stage' = [Stage EXCEPT ![t] = to]
  BY DEF Stage, StageFrame

LEMMA MoveNone ==
  ASSUME StageFrame(TaskIds)
  PROVE  Stage' = Stage
  BY DEF Stage, StageFrame

\* A step that posts and cancels nothing, and is not the destructor's.
Private == posted' = posted /\ cancelled' = cancelled /\ dpc' = dpc

\* A step of the worker concerns the task in its hands, and leaves the others
\* alone.
LEMMA WorkerFrame ==
  ASSUME NEW t, Private,
         cur.id = t \/ wpc \notin Holding, cur'.id = t \/ wpc' \notin Holding,
         \A id \in TaskIds \ {t} : id \in Queued' <=> id \in Queued
  PROVE  StageFrame(TaskIds \ {t})
  BY DEF StageFrame, StageOf, Holding, Private

\* A step after which the worker, the queue and the posted tasks are as before.
LEMMA SameStages ==
  ASSUME posted' = posted, tasks' = tasks,
         (wpc' = wpc /\ cur' = cur) \/ (wpc \notin Holding /\ wpc' \notin Holding)
  PROVE  Stage' = Stage
<1>1. StageFrame(TaskIds)
  BY DEF StageFrame, StageOf, Queued, Holding
<1> QED
  BY <1>1, MoveNone

RefInv == TypeInv /\ IdsInv /\ RegistryExact /\ RateInv /\ KnownInv /\ EndInv

\* Nothing that the users of the executor can tell.
Unseen == Stage' = Stage /\ Periodic' = Periodic /\ cancelled' = cancelled /\ LifeOf' = LifeOf

LEMMA PrivateIsUnseen == ASSUME Private, Stage' = Stage PROVE Unseen
  BY DEF Private, Unseen, Periodic, LifeOf

LEMMA IdleWorker ==
  ASSUME wpc \notin {"start", "run"} PROVE \A t \in TaskIds : Stage[t] \notin {"chosen", "running"}
  BY DEF Stage, StageOf

-----------------------------------------------------------------------------
(* Calls.                                                                  *)

LEMMA InsertRefines ==
  ASSUME RefInv, NEW c \in Threads, Insert(c)
  PROVE  Unseen \/ Lifecycle!Next
<1>0. TypeOK /\ HoldsTask /\ IdsUnique /\ KnownInv
  BY DEF RefInv, TypeInv, IdsInv
<1>1. CASE m_stopping
  <2>1. Private /\ tasks' = tasks /\ wpc' = wpc /\ cur' = cur
    BY <1>1 DEF Insert, workerVars, Private
  <2>2. Stage' = Stage
    BY <2>1, SameStages DEF Private
  <2> QED
    BY <2>1, <2>2, PrivateIsUnseen
<1>2. CASE ~m_stopping
  <2>0. PICK id \in TaskIds : id = arg[c].id
    BY <1>0 DEF Insert, HoldsTask
  <2>1. /\ posted[id] = NoTask /\ arg[c].id # 0
        /\ id \notin InHand /\ id \notin Queued
    BY <1>0, <2>0 DEF Insert, KnownInv, IdsUnique, TaskIds
  <2>2. /\ posted' = [posted EXCEPT ![id] = arg[c]] /\ posted'[id] = arg[c]
        /\ \A i \in TaskIds \ {id} : posted'[i] = posted[i]
        /\ tasks' = tasks \union {arg[c]} /\ Queued' = Queued \union {id}
        /\ wpc' = wpc /\ cur' = cur /\ cancelled' = cancelled /\ dpc' = dpc
    BY <1>0, <1>2, <2>0 DEF Insert, workerVars, TypeOK, Queued
  <2>3. arg[c] # NoTask
    BY <2>1 DEF NoTask
  <2>4. StageOf(id) = "unknown" /\ StageOf(id)' = "pending"
    BY <2>1, <2>2, <2>3 DEF StageOf, InHand, Holding
  <2>5. StageFrame(TaskIds \ {id})
    BY <2>2 DEF StageFrame, StageOf
  <2>6. Stage' = [Stage EXCEPT ![id] = "pending"] /\ Stage[id] = "unknown"
    BY <2>1, <2>4, <2>5, MoveOne DEF Stage
  <2>7. Periodic' = Periodic \/ Periodic' = Periodic \union {id}
    <3>1. id \notin Periodic
      BY <2>1 DEF Periodic, NoTask
    <3>2. \A i \in TaskIds \ {id} : i \in Periodic' <=> i \in Periodic
      BY <2>2 DEF Periodic
    <3> QED
      BY <2>1, <3>1, <3>2 DEF Periodic
  <2>8. LifeOf = "alive" /\ LifeOf' = LifeOf
    BY <1>2, <2>2 DEF LifeOf, m_stopping
  <2>9. Lifecycle!Post(id)
    BY <2>1, <2>2, <2>6, <2>7, <2>8 DEF Lifecycle!Post, Lifecycle!Move, Stage, Periodic
  <2> QED
    BY <2>1, <2>9 DEF Lifecycle!Next
<1> QED
  BY <1>1, <1>2

LEMMA CancelRefines ==
  ASSUME RefInv, NEW c \in Threads, NEW id \in TaskIds, Cancel(c, id)
  PROVE  Lifecycle!Cancel(id)
<1>1. /\ posted' = posted /\ tasks' = tasks /\ wpc' = wpc /\ cur' = cur /\ dpc' = dpc
      /\ cancelled' = cancelled \union {id} /\ id \in registry
  BY DEF Cancel, workerVars, history
<1>2a. Stage' = Stage
  BY <1>1, SameStages
<1>2b. Periodic' = Periodic /\ LifeOf' = LifeOf
  BY <1>1 DEF Periodic, LifeOf
<1>3. posted[id] # NoTask
  BY <1>1 DEF RefInv, KnownInv
<1>4. StageOf(id) # "unknown"
  BY <1>3 DEF StageOf
<1>5. LifeOf # "gone"
  BY DEF Cancel, MayCall, LifeOf, RefInv, EndInv
<1>6. ASSUME StageOf(id) = "over" PROVE LifeOf = "stopping"
  <2>1. SUFFICES ASSUME ~m_stopping PROVE FALSE
    BY <1>5 DEF LifeOf, m_stopping
  <2>2. id \in Queued \union InHand
    BY <1>1, <2>1 DEF RefInv, RegistryExact
  <2>3. id \notin Queued
    BY <1>3, <1>6 DEF StageOf
  <2>4. cur.id = id /\ wpc \in Holding
    BY <2>2, <2>3 DEF InHand
  <2>5. wpc = "erase" /\ cur.period # OneShot
    BY <1>3, <1>6, <2>3, <2>4 DEF StageOf, Holding, RefInv, TypeInv, HoldsTask
  <2> QED
    BY <2>1, <2>5 DEF RefInv, EndInv
<1> QED
  BY <1>1, <1>2a, <1>2b, <1>4, <1>5, <1>6 DEF Lifecycle!Cancel, Stage, Periodic

-----------------------------------------------------------------------------
(* The worker.                                                             *)

\* What the worker has in hand.
LEMMA CurFacts ==
  ASSUME RefInv, wpc \in Holding
  PROVE  /\ cur.id \in TaskIds /\ cur \in ScheduledTask /\ posted[cur.id] # NoTask
         /\ cur.id \notin Queued
         /\ dpc # "destroyed" /\ LifeOf # "gone"
         /\ m_stopping => LifeOf = "stopping"
<1>1. cur \in ScheduledTask /\ cur.id \in TaskIds /\ cur.id \in InHand
  BY DEF RefInv, TypeInv, HoldsTask, ScheduledTask, InHand
<1>2. posted[cur.id] # NoTask /\ cur.id \notin Queued
  BY <1>1 DEF RefInv, KnownInv, IdsInv, IdsUnique
<1>3. dpc # "destroyed"
  BY DEF RefInv, EndInv, Holding
<1> QED
  BY <1>1, <1>2, <1>3 DEF LifeOf, m_stopping

\* A step of the worker moves the task in its hands, and that one only.
LEMMA WorkerMoves ==
  ASSUME RefInv, wpc \in Holding, Private, cur'.id = cur.id \/ wpc' \notin Holding,
         NEW t, t = cur.id, NEW to, StageOf(t)' = to,
         \A id \in TaskIds \ {t} : id \in Queued' <=> id \in Queued
  PROVE  /\ Stage' = [Stage EXCEPT ![t] = to] /\ Stage[t] = StageOf(t)
         /\ Periodic' = Periodic /\ cancelled' = cancelled /\ LifeOf' = LifeOf
<1>1. t \in TaskIds
  BY CurFacts
<1>2. StageFrame(TaskIds \ {t})
  BY WorkerFrame
<1>3. Stage' = [Stage EXCEPT ![t] = to]
  BY <1>1, <1>2, MoveOne
<1> QED
  BY <1>1, <1>3 DEF Stage, Private, Periodic, LifeOf

LEMMA ChooseRefines ==
  ASSUME RefInv, CheckCancelled
  PROVE  Lifecycle!Next
<1> DEFINE has == cur.id \in TaskIds /\ posted[cur.id] # NoTask /\ cur.id \notin Queued
<1>0. has /\ wpc = "taken" /\ wpc \in Holding /\ LifeOf # "gone"
  BY CurFacts DEF CheckCancelled, Holding
<1>1. PICK t \in TaskIds : t = cur.id
  BY <1>0
<1>2. /\ Private /\ tasks' = tasks /\ Queued' = Queued /\ StageOf(t) = "pending"
      /\ posted' = posted
  BY <1>0, <1>1 DEF CheckCancelled, workerFrame, Private, Queued, StageOf
<1>3. CASE FlagSet
  <2>1. wpc' = "loop" /\ t \in cancelled
    BY <1>1, <1>3 DEF CheckCancelled, DropTask, FlagSet
  <2>2. StageOf(t)' = "over"
    BY <1>0, <1>1, <1>2, <2>1 DEF StageOf
  <2>3. /\ Stage' = [Stage EXCEPT ![t] = "over"] /\ Stage[t] = "pending"
        /\ Periodic' = Periodic /\ cancelled' = cancelled /\ LifeOf' = LifeOf
    BY <1>0, <1>1, <1>2, <2>1, <2>2, WorkerMoves DEF Holding
  <2>4. Lifecycle!Drop(t)
    BY <2>1, <2>3 DEF Lifecycle!Drop, Lifecycle!Move, Stage, Periodic
  <2> QED
    BY <2>4 DEF Lifecycle!Next
<1>4. CASE ~FlagSet
  <2>1. wpc' = "start" /\ cur' = cur /\ t \notin cancelled
    BY <1>1, <1>4 DEF CheckCancelled, FlagSet
  <2>2. StageOf(t)' = "chosen"
    BY <1>0, <1>1, <1>2, <2>1 DEF StageOf
  <2>3. /\ Stage' = [Stage EXCEPT ![t] = "chosen"] /\ Stage[t] = "pending"
        /\ Periodic' = Periodic /\ cancelled' = cancelled /\ LifeOf' = LifeOf
    BY <1>0, <1>1, <1>2, <2>1, <2>2, WorkerMoves
  <2>4. Lifecycle!Choose(t)
    BY <1>0, <2>1, <2>3, IdleWorker
    DEF Lifecycle!Choose, Lifecycle!Move, Lifecycle!Idle, Stage, Periodic
  <2> QED
    BY <2>4 DEF Lifecycle!Next
<1> QED
  BY <1>3, <1>4

LEMMA BeginRefines ==
  ASSUME RefInv, StartTask
  PROVE  Lifecycle!Next
<1>1. PICK t \in TaskIds : t = cur.id
  BY CurFacts DEF StartTask, Holding
<1>2. /\ Private /\ Queued' = Queued /\ cur' = cur /\ posted[t] # NoTask
      /\ wpc = "start" /\ wpc' = "run"
  BY <1>1, CurFacts DEF StartTask, workerFrame, Private, Queued, Holding
<1>3. StageOf(t) = "chosen" /\ StageOf(t)' = "running"
  BY <1>1, <1>2 DEF StageOf, Private
<1>4. /\ Stage' = [Stage EXCEPT ![t] = "running"] /\ Stage[t] = "chosen"
      /\ Periodic' = Periodic /\ cancelled' = cancelled /\ LifeOf' = LifeOf
  BY <1>1, <1>2, <1>3, WorkerMoves DEF Holding
<1>5. Lifecycle!Begin(t)
  BY <1>4 DEF Lifecycle!Begin, Lifecycle!Move, Stage, Periodic
<1> QED
  BY <1>5 DEF Lifecycle!Next

LEMMA FinishRefines ==
  ASSUME RefInv, FinishTask
  PROVE  Lifecycle!Next
<1>1. PICK t \in TaskIds : t = cur.id
  BY CurFacts DEF FinishTask, Holding
<1>2. /\ Private /\ Queued' = Queued /\ cur' = cur /\ posted[t] # NoTask
      /\ t \notin Queued /\ wpc = "run" /\ wpc' = "finished"
  BY <1>1, CurFacts DEF FinishTask, workerFrame, Private, Queued, Holding
<1>3. cur.period = posted[t].period
  BY <1>1, <1>2 DEF RefInv, RateInv, HasRun
<1>4. t \in Periodic <=> cur.period # OneShot
  BY <1>3 DEF Periodic
<1>5. StageOf(t) = "running" /\ StageOf(t)' = IF t \in Periodic THEN "pending" ELSE "ended"
  BY <1>1, <1>2, <1>4 DEF StageOf, Private
<1>6. /\ Stage' = [Stage EXCEPT ![t] = IF t \in Periodic THEN "pending" ELSE "ended"]
      /\ Stage[t] = "running"
      /\ Periodic' = Periodic /\ cancelled' = cancelled /\ LifeOf' = LifeOf
  BY <1>1, <1>2, <1>5, WorkerMoves DEF Holding
<1>7. Lifecycle!End(t)
  BY <1>6 DEF Lifecycle!End, Lifecycle!Move, Stage, Periodic
<1> QED
  BY <1>7 DEF Lifecycle!Next

\* A task that stays what it is, and one that an executor gives up which stops
\* or for which it was cancelled.
LEMMA StaysOrDrops ==
  ASSUME RefInv, wpc \in Holding, Private, cur'.id = cur.id \/ wpc' \notin Holding,
         NEW t \in TaskIds, t = cur.id, StageOf(t) = "pending",
         \A id \in TaskIds \ {t} : id \in Queued' <=> id \in Queued,
         \/ StageOf(t)' = "pending"
         \/ StageOf(t)' = "over" /\ (t \in cancelled \/ m_stopping)
  PROVE  Unseen \/ Lifecycle!Next
<1>1. CASE StageOf(t)' = "pending"
  <2>1. StageFrame(TaskIds)
    BY <1>1, WorkerFrame DEF StageFrame
  <2> QED
    BY <2>1, MoveNone, PrivateIsUnseen
<1>2. CASE StageOf(t)' = "over" /\ (t \in cancelled \/ m_stopping)
  <2>1. /\ Stage' = [Stage EXCEPT ![t] = "over"] /\ Stage[t] = "pending"
        /\ Periodic' = Periodic /\ cancelled' = cancelled /\ LifeOf' = LifeOf
    BY <1>2, WorkerMoves
  <2>2. t \in cancelled \/ LifeOf = "stopping"
    BY <1>2, CurFacts
  <2>3. Lifecycle!Drop(t)
    BY <2>1, <2>2 DEF Lifecycle!Drop, Lifecycle!Move, Stage, Periodic
  <2> QED
    BY <2>3 DEF Lifecycle!Next
<1> QED
  BY <1>1, <1>2

LEMMA PeriodicRefines ==
  ASSUME RefInv, CheckPeriodic \/ CheckReschedule
  PROVE  Unseen \/ Lifecycle!Next
<1>1. PICK t \in TaskIds : t = cur.id
  BY CurFacts DEF CheckPeriodic, CheckReschedule, Holding
<1>2. /\ Private /\ Queued' = Queued /\ posted[t] # NoTask /\ t \notin Queued
      /\ wpc \in {"finished", "periodic"}
  BY <1>1, CurFacts
  DEF CheckPeriodic, CheckReschedule, workerFrame, Private, Queued, Holding
<1>3. CASE CheckPeriodic /\ cur.period = OneShot
  <2>1. wpc = "finished" /\ wpc' = "erase" /\ cur' = cur /\ tasks' = tasks
    BY <1>3 DEF CheckPeriodic
  <2>2. StageOf(t)' = StageOf(t)
    BY <1>1, <1>2, <1>3, <2>1 DEF StageOf, Private
  <2>3. StageFrame(TaskIds \ {t})
    BY <1>1, <1>2, <2>1, WorkerFrame
  <2>4. Stage' = Stage
    BY <2>2, <2>3, MoveNone DEF StageFrame
  <2> QED
    BY <1>2, <2>4, PrivateIsUnseen
<1>4. CASE CheckPeriodic /\ cur.period # OneShot
  <2>1. /\ wpc = "finished" /\ cur' = cur
        /\ wpc' = "periodic" \/ (wpc' = "erase" /\ m_stopping)
    BY <1>4 DEF CheckPeriodic, StopSeen, stop_requested, m_stopping
  <2>2. /\ StageOf(t) = "pending"
        /\ StageOf(t)' = "pending" \/ (StageOf(t)' = "over" /\ m_stopping)
    BY <1>1, <1>2, <1>4, <2>1 DEF StageOf, Private
  <2> QED
    BY <1>1, <1>2, <2>1, <2>2, StaysOrDrops DEF Holding
<1>5. CASE CheckReschedule
  <2>1. /\ wpc = "periodic" /\ cur.period # OneShot
        /\ \/ wpc' = "loop" /\ t \in cancelled
           \/ wpc' = "requeue" /\ cur'.id = cur.id /\ cur'.period = cur.period
    BY <1>1, <1>5
    DEF CheckReschedule, DropTask, FlagSet, WithNext, RefInv, TypeInv, HoldsTask
  <2>2. /\ StageOf(t) = "pending"
        /\ StageOf(t)' = "pending" \/ (StageOf(t)' = "over" /\ t \in cancelled)
    BY <1>1, <1>2, <2>1 DEF StageOf, Private
  <2> QED
    BY <1>1, <1>2, <2>1, <2>2, StaysOrDrops DEF Holding
<1> QED
  BY <1>3, <1>4, <1>5

LEMMA RequeueRefines ==
  ASSUME RefInv, Requeue
  PROVE  Unseen \/ Lifecycle!Next
<1>1. PICK t \in TaskIds : t = cur.id
  BY CurFacts DEF Requeue, Holding
<1>2. /\ Private /\ posted[t] # NoTask /\ t \notin Queued
      /\ wpc = "requeue" /\ wpc' = "loop" /\ cur.period # OneShot
      /\ tasks' = IF m_stopping THEN tasks ELSE tasks \union {cur}
  BY <1>1, CurFacts
  DEF Requeue, DropTask, workerFrame, Private, Holding, RefInv, TypeInv, HoldsTask
<1>3. /\ \A id \in TaskIds \ {t} : id \in Queued' <=> id \in Queued
      /\ t \in Queued' <=> ~m_stopping
  BY <1>1, <1>2 DEF Queued
<1>4. /\ StageOf(t) = "pending"
      /\ StageOf(t)' = "pending" \/ (StageOf(t)' = "over" /\ m_stopping)
  BY <1>1, <1>2, <1>3 DEF StageOf, Private
<1> QED
  BY <1>1, <1>2, <1>3, <1>4, StaysOrDrops DEF Holding

LEMMA EraseRefines ==
  ASSUME RefInv, Erase
  PROVE  Unseen \/ Lifecycle!Next
<1>1. PICK t \in TaskIds : t = cur.id
  BY CurFacts DEF Erase, Holding
<1>2. /\ Private /\ Queued' = Queued /\ posted[t] # NoTask /\ t \notin Queued
      /\ wpc = "erase" /\ wpc' = "loop"
  BY <1>1, CurFacts DEF Erase, DropTask, workerFrame, Private, Queued, Holding
<1>3. /\ StageOf(t) = IF cur.period = OneShot THEN "ended" ELSE "over"
      /\ StageOf(t)' = "over"
  BY <1>1, <1>2 DEF StageOf, Private
<1>4. /\ Stage' = [Stage EXCEPT ![t] = "over"] /\ Stage[t] = StageOf(t)
      /\ Periodic' = Periodic /\ cancelled' = cancelled /\ LifeOf' = LifeOf
  BY <1>1, <1>2, <1>3, WorkerMoves DEF Holding
<1>5. CASE cur.period = OneShot
  <2>1. Lifecycle!Forget(t)
    BY <1>3, <1>4, <1>5 DEF Lifecycle!Forget, Lifecycle!Move, Stage, Periodic
  <2> QED
    BY <2>1 DEF Lifecycle!Next
<1>6. CASE cur.period # OneShot
  <2>1. Stage[t] = "over"
    BY <1>3, <1>4, <1>6
  <2>2. Stage' = Stage
    BY <1>4, <2>1 DEF Stage
  <2> QED
    BY <1>4, <2>2 DEF Unseen
<1> QED
  BY <1>5, <1>6

LEMMA TakeRefines ==
  ASSUME RefInv, TakeDue
  PROVE  Unseen
<1>1. PICK t \in tasks : cur' = t /\ tasks' = tasks \ {t}
  BY DEF TakeDue, Heads
<1>2. /\ Private /\ wpc = "loop" /\ wpc' = "taken" /\ t.id \in TaskIds /\ t.id \in Queued
  BY <1>1 DEF TakeDue, workerFrame, Private, RefInv, TypeInv, TypeOK, ScheduledTask, Queued
<1>3. Queued' = Queued \ {t.id} /\ posted[t.id] # NoTask
  BY <1>1, <1>2 DEF Queued, RefInv, IdsInv, IdsUnique, KnownInv
<1>4. StageOf(t.id) = "pending" /\ StageOf(t.id)' = "pending"
  BY <1>1, <1>2, <1>3 DEF StageOf, Private
<1>5. StageFrame(TaskIds \ {t.id})
  BY <1>1, <1>2, <1>3, WorkerFrame DEF Holding
<1>6. Stage' = Stage
  BY <1>4, <1>5, MoveNone DEF StageFrame
<1> QED
  BY <1>2, <1>6, PrivateIsUnseen

-----------------------------------------------------------------------------
(* The destructor, and all together.                                       *)

LEMMA DestructorRefines ==
  ASSUME RefInv, BeginDestroy \/ DestructorProceeds
  PROVE  Unseen \/ Lifecycle!Next
<1>1. Periodic' = Periodic /\ cancelled' = cancelled /\ posted' = posted /\ tasks' = tasks
  BY DEF BeginDestroy, DestructorProceeds, RequestStop, NotifyStop, Join, destructorFrame,
         shared, history, Periodic
<1>2. cur' = cur /\ (wpc' = wpc \/ (wpc \notin Holding /\ wpc' \notin Holding))
  BY DEF BeginDestroy, DestructorProceeds, RequestStop, NotifyStop, Join, destructorFrame,
         NotifyAll, Asleep, Holding
<1>3. Stage' = Stage
  BY <1>1, <1>2, SameStages
<1>4. CASE BeginDestroy
  <2>1. LifeOf = "alive" /\ LifeOf' = "stopping"
    BY <1>4 DEF BeginDestroy, LifeOf
  <2>2. Lifecycle!Stop
    BY <1>1, <1>3, <2>1 DEF Lifecycle!Stop, Stage, Periodic
  <2> QED
    BY <2>2 DEF Lifecycle!Next
<1>5. CASE RequestStop \/ NotifyStop
  <2>1. LifeOf' = LifeOf
    BY <1>5 DEF RequestStop, NotifyStop, LifeOf
  <2> QED
    BY <1>1, <1>3, <2>1 DEF Unseen
<1>6. CASE Join
  <2>1. LifeOf = "stopping" /\ LifeOf' = "gone" /\ wpc = "exited"
    BY <1>6 DEF Join, LifeOf
  <2>2. Lifecycle!Leave
    BY <1>1, <1>3, <2>1, IdleWorker DEF Lifecycle!Leave, Lifecycle!Idle, Stage, Periodic
  <2> QED
    BY <2>2 DEF Lifecycle!Next
<1> QED
  BY <1>4, <1>5, <1>6 DEF DestructorProceeds

\* The steps in which nothing happens to a task.
LEMMA OthersRefine ==
  ASSUME Private, tasks' = tasks,
         (wpc' = wpc /\ cur' = cur) \/ (wpc \notin Holding /\ wpc' \notin Holding)
  PROVE  Unseen
<1>1. Stage' = Stage
  BY SameStages DEF Private
<1> QED
  BY <1>1, PrivateIsUnseen

LEMMA StepRefines == RefInv /\ [Next]_vars => [Lifecycle!Next]_(Lifecycle!vars)
<1> SUFFICES ASSUME RefInv, [Next]_vars PROVE Unseen \/ Lifecycle!Next
  BY DEF Unseen, Stage, Periodic, Lifecycle!vars
<1> USE DEF Private, Holding
<1>1. CASE Tick
  BY <1>1, OthersRefine DEF Tick, shared, workerVars, history
<1>2. ASSUME NEW c \in Threads, NEW when, NEW period, ScheduleAt(c, when, period)
      PROVE Unseen
  BY <1>2, OthersRefine DEF ScheduleAt, shared, workerVars, history
<1>3. ASSUME NEW c \in Threads, AllocateId(c) PROVE Unseen
  BY <1>3, OthersRefine DEF AllocateId, workerVars, history
<1>4. ASSUME NEW c \in Threads, Insert(c) PROVE Unseen \/ Lifecycle!Next
  BY <1>4, InsertRefines
<1>5. ASSUME NEW c \in Threads, NEW id \in TaskIds, Cancel(c, id) PROVE Lifecycle!Next
  BY <1>5, CancelRefines DEF Lifecycle!Next
<1>6. ASSUME NEW c \in Threads, Notify(c) PROVE Unseen
  BY <1>6, OthersRefine DEF Notify, NotifyAll, Asleep, shared, history
<1>7. CASE Exit \/ WaitForTask \/ WaitUntilDue \/ WakeUp(FALSE) \/ WakeUp(TRUE)
  BY <1>7, OthersRefine DEF Exit, WaitForTask, WaitUntilDue, WakeUp, workerFrame
<1>8. CASE TakeDue  BY <1>8, TakeRefines
<1>9. CASE CheckCancelled  BY <1>9, ChooseRefines
<1>10. CASE StartTask  BY <1>10, BeginRefines
<1>11. CASE FinishTask  BY <1>11, FinishRefines
<1>12. CASE CheckPeriodic \/ CheckReschedule  BY <1>12, PeriodicRefines
<1>13. CASE Requeue  BY <1>13, RequeueRefines
<1>14. CASE Erase  BY <1>14, EraseRefines
<1>15. CASE BeginDestroy \/ DestructorProceeds  BY <1>15, DestructorRefines
<1>16. CASE UNCHANGED vars
  BY <1>16, OthersRefine DEF vars, shared, workerVars, history
<1> QED
  BY <1>1, <1>2, <1>3, <1>4, <1>5, <1>6, <1>7, <1>8, <1>9, <1>10, <1>11, <1>12, <1>13,
     <1>14, <1>15, <1>16
  DEF Next, CallBegins, CallProceeds, WorkerProceeds, Post, PostAfter, PostEvery, Destroyed

LEMMA InitRefines == Init => Lifecycle!Init
  BY DEF Init, Lifecycle!Init, StageOf, LifeOf, NoTask

\* Queue, ids, flags, clock and threads keep the promise of TaskLifecycle: no
\* task is lost or run beside another, none is chosen once it is cancelled, and
\* none runs when the destructor has returned.
THEOREM ExecutorKeepsPromise == Spec => ImplementsLifecycle
<1>1. Spec => []RefInv
  BY TypeInit, TypeStep, IdsInit, IdsStep, RegistryInit, RegistryStep, RateInit, RateStep,
     KnownInit, KnownStep, EndStep, PTL DEF Spec, RefInv
<1> QED
  BY <1>1, InitRefines, StepRefines, PTL DEF Spec, ImplementsLifecycle, Lifecycle!Spec
=============================================================================
