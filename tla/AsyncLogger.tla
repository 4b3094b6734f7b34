------------------------------ MODULE AsyncLogger ------------------------------
(***************************************************************************)
(* log/LoggerAsyncBase.h and its two derived loggers: log() pushes onto a  *)
(* queue, one worker thread (m_worker_) pops and calls emitLog without the *)
(* lock, the destructor waits until the queue is empty and joins.          *)
(* The object's life is modelled too, because the threads depend on it:    *)
(* m_worker_ is declared, hence started, before m_running_; the derived    *)
(* part, emitLog included, is gone when the base destructor runs.          *)
(* Spurious wake-ups are no steps of their own: every wait of this code    *)
(* has a predicate.  "Variant" marks a plausible slip, used by no action.  *)
(***************************************************************************)
EXTENDS Naturals, Sequences

CONSTANTS
  Producers,  \* threads that call log()
  MaxLogs,    \* bound: messages logged; a message is its place in that order
  Sqlite      \* TRUE: SqliteLogger, FALSE: ConsoleLogger, which does no more

ASSUME LoggerAssumption == MaxLogs \in Nat /\ Sqlite \in BOOLEAN

VARIABLES
  running,    \* m_running_
  queue,      \* m_queue_
  wpc,        \* where the worker is in processLogs()
  msg,        \* the message it has popped, 0 for none
  ppc,        \* where each producer is in log()
  life,       \* where the owner is in the object's life
  logged,     \* history: messages pushed
  handled,    \* history: messages emitLog was called for, in that order
  stillborn   \* history: the worker exited before it was told to

owner == <<life, stillborn>>
worker == <<wpc, msg, handled>>
vars == <<running, queue, worker, ppc, owner, logged>>

\* The worker is running already, and m_running_ is not yet initialised.
Init ==
  /\ running \in BOOLEAN
  /\ queue = <<>> /\ wpc = "testRunning" /\ msg = 0
  /\ ppc = [p \in Producers |-> "idle"]
  /\ life = "starting"
  /\ logged = 0 /\ handled = <<>> /\ stillborn = FALSE

\* The constructor initialises m_running_ and returns.
Construct ==
  /\ life = "starting"
  /\ running' = TRUE /\ life' = "alive"
  /\ UNCHANGED <<queue, worker, ppc, logged, stillborn>>

\* m_cv_: only the worker waits on it.  It then tests its predicate again.
WakeNobody == wpc' = wpc                                            \* variant
WakeWorker == wpc' = IF wpc = "asleep" THEN "testWait" ELSE wpc

-----------------------------------------------------------------------------
(* log(), by a producer.                                                   *)

Push(p) ==
  /\ life = "alive" /\ ppc[p] = "idle" /\ logged < MaxLogs
  /\ logged' = logged + 1
  /\ queue' = Append(queue, logged')
  /\ ppc' = [ppc EXCEPT ![p] = "notify"]
  /\ UNCHANGED <<running, worker, owner>>

NotifyOne(p) ==
  /\ ppc[p] = "notify"
  /\ WakeWorker
  /\ ppc' = [ppc EXCEPT ![p] = "idle"]
  /\ UNCHANGED <<running, queue, msg, handled, owner, logged>>

-----------------------------------------------------------------------------
(* processLogs(), by the worker.                                           *)

workerFrame == <<running, ppc, life, logged>>

\* while (m_running_ || !m_queue_.empty()): two reads without the mutex.
TestRunning ==
  /\ wpc = "testRunning"
  /\ wpc' = IF running THEN "testWait" ELSE "testEmpty"
  /\ UNCHANGED <<workerFrame, queue, msg, handled, stillborn>>

LeaveAtOnce == TRUE                                                 \* variant
NothingLeft == queue = <<>>

TestEmpty ==
  /\ wpc = "testEmpty"
  /\ wpc' = IF NothingLeft THEN "exited" ELSE "testWait"
  /\ stillborn' = (NothingLeft /\ life \in {"starting", "alive", "closed", "stop"})
  /\ UNCHANGED <<workerFrame, queue, msg, handled>>

\* Locks, and waits until there is a message or m_running_ is false.
TestWait ==
  /\ wpc = "testWait"
  /\ wpc' = IF queue # <<>> \/ ~running THEN "drain" ELSE "asleep"
  /\ UNCHANGED <<workerFrame, queue, msg, handled, stillborn>>

KeepFront == queue' = queue                                         \* variant
PopFront == queue' = Tail(queue)

\* The inner loop takes a message and unlocks ...
Take ==
  /\ wpc = "drain" /\ queue # <<>>
  /\ msg' = Head(queue) /\ PopFront
  /\ wpc' = "emit"
  /\ UNCHANGED <<workerFrame, handled, stillborn>>

HandleMovedFrom == handled' = Append(handled, 0)                    \* variant
Handle == handled' = Append(handled, msg)

\* ... and emits it, or fails to: SqliteLogger gives up silently.
Emit ==
  /\ wpc = "emit"
  /\ life \in {"alive", "closed"}
  /\ Handle
  /\ wpc' = "drain" /\ msg' = 0
  /\ UNCHANGED <<workerFrame, queue, stillborn>>

\* In the base destructor emitLog is a pure virtual function; before that, a
\* SqliteLogger may find its database closed and freed.
EmitCrashes ==
  /\ wpc = "emit"
  /\ life \notin {"alive", "closed"} \/ (life = "closed" /\ Sqlite)
  /\ wpc' = "crashed"
  /\ UNCHANGED <<workerFrame, queue, msg, handled, stillborn>>

\* m_flush_cv_: only the destructor waits on it.
Flushed ==
  /\ wpc = "drain" /\ queue = <<>>
  /\ wpc' = "testRunning"
  /\ life' = IF life = "flushAsleep" THEN "flush" ELSE life
  /\ UNCHANGED <<running, ppc, logged, queue, msg, handled, stillborn>>

-----------------------------------------------------------------------------
(* The destructors, by the owner; no producer is inside log() any more.    *)

ownerFrame == <<queue, msg, handled, ppc, logged, stillborn>>

\* The derived one: SqliteLogger closes its database, ConsoleLogger does nothing.
CloseDerived ==
  /\ life = "alive" /\ \A p \in Producers : ppc[p] = "idle"
  /\ life' = "closed"
  /\ UNCHANGED <<running, wpc, ownerFrame>>

\* ~LoggerAsyncBase begins: emitLog is no longer overridden.
EnterBase ==
  /\ life = "closed"
  /\ life' = "stop"
  /\ UNCHANGED <<running, wpc, ownerFrame>>

Stop ==
  /\ life = "stop"
  /\ running' = FALSE /\ WakeWorker
  /\ life' = "flush"
  /\ UNCHANGED ownerFrame

TestFlush ==
  /\ life = "flush"
  /\ life' = IF queue = <<>> THEN "join" ELSE "flushAsleep"
  /\ UNCHANGED <<running, wpc, ownerFrame>>

Detach == TRUE                                                      \* variant
WorkerGone == wpc = "exited"

Join ==
  /\ life = "join" /\ WorkerGone
  /\ life' = "destroyed"
  /\ UNCHANGED <<running, wpc, ownerFrame>>

-----------------------------------------------------------------------------
Crashed == wpc = "crashed"

WorkerProceeds ==
  TestRunning \/ TestEmpty \/ TestWait \/ Take \/ Emit \/ EmitCrashes \/ Flushed

\* A crash ends the process, and by then only the owner is still at work.
OwnerProceeds == ~Crashed /\ (Construct \/ EnterBase \/ Stop \/ TestFlush \/ Join)

Next ==
  \/ \E p \in Producers : Push(p) \/ NotifyOne(p)
  \/ WorkerProceeds
  \/ CloseDerived \/ OwnerProceeds

Spec == Init /\ [][Next]_vars

\* Threads inside the code keep running; emitLog returns.  Nobody has to log
\* or to destroy the logger.
Fairness ==
  /\ WF_vars(WorkerProceeds)
  /\ WF_vars(OwnerProceeds)
  /\ \A p \in Producers : WF_vars(NotifyOne(p))

FairSpec == Spec /\ Fairness

-----------------------------------------------------------------------------
(* Properties.                                                             *)

TypeOK ==
  /\ running \in BOOLEAN /\ stillborn \in BOOLEAN
  /\ queue \in Seq(1..MaxLogs) /\ handled \in Seq(1..MaxLogs)
  /\ logged \in 0..MaxLogs /\ msg \in 0..MaxLogs
  /\ wpc \in {"testRunning", "testEmpty", "testWait", "asleep", "drain", "emit",
              "exited", "crashed"}
  /\ ppc \in [Producers -> {"idle", "notify"}]
  /\ life \in {"starting", "alive", "closed", "stop", "flush", "flushAsleep",
               "join", "destroyed"}

\* Although the lock is given up around emitLog, each message is taken once
\* and in the order of the pushes: what was handled, what is in hand and what
\* is queued are together what was logged.
InOrderOnce ==
  LET inHand == IF msg = 0 THEN <<>> ELSE <<msg>>
  IN  handled \o inHand \o queue = [i \in 1..logged |-> i]

\* Nobody sleeps through what it waits for: a sleeping worker has no message
\* and no order to stop, or a producer is about to wake it; a destructor that
\* sleeps while the queue is empty will be woken by the worker's flush.
NoLostWakeup ==
  /\ wpc = "asleep" => running /\ (queue = <<>> \/ \E p \in Producers : ppc[p] = "notify")
  /\ life = "flushAsleep" /\ queue = <<>> => wpc \in {"emit", "drain", "crashed"}

\* The worker leaves messages behind only in a logger whose thread was
\* started on the uninitialised m_running_ and saw FALSE there.
OnlyStillbornStrands == wpc = "exited" /\ queue # <<>> => stillborn

\* When the destructor has returned, the worker no longer touches the object,
\* and every message was handled, stillborn worker or not.
DestroyedIsQuiet ==
  life = "destroyed" => wpc = "exited" /\ queue = <<>> /\ msg = 0 /\ Len(handled) = logged

\* The life of the object as its users see it.
StateOf ==
  IF Crashed THEN "broken"
  ELSE IF life \in {"starting", "alive"} THEN "open"
  ELSE IF life = "destroyed" THEN "closed" ELSE "sealed"

Channel == INSTANCE LogChannel WITH sent <- logged, delivered <- handled, state <- StateOf

\* Queue, flags, two condition variables and the two-part destruction together
\* are the channel of LogChannel: nothing handled out of order or twice, nothing
\* after the destructor, and a crash only over a message left when it began.
ImplementsChannel == Channel!Spec

\* Every logged message is handled, in spite of the destructor, unless the
\* worker is stillborn or the pure call comes first.
LoggedIsHandled ==
  \A m \in 1..MaxLogs :
    logged >= m ~> (Len(handled) >= m \/ stillborn \/ Crashed)

\* The destructor returns, unless messages wait for a stillborn worker or the
\* pure call comes first.
DestructorReturns ==
  life = "closed" ~> (life = "destroyed" \/ (stillborn /\ queue # <<>>) \/ Crashed)
=============================================================================
