----------------------------- MODULE TaskLifecycle -----------------------------
(***************************************************************************)
(* What IBackgroundExecutor (core/IBackGroundExecuter.h) promises of the   *)
(* tasks it is given, without queue, clock, locks or threads: one task runs*)
(* at a time, none is lost, a cancelled one is not chosen any more, and    *)
(* nothing runs once the executor is gone.                                 *)
(***************************************************************************)
CONSTANT Tasks

VARIABLES
  stage,      \* of each task
  periodic,   \* the tasks posted with postEvery
  cancelled,  \* the tasks for which cancel() has been called
  life        \* of the executor

vars == <<stage, periodic, cancelled, life>>

Stages == {"unknown", "pending", "chosen", "running", "ended", "over"}
TypeOK ==
  /\ stage \in [Tasks -> Stages]
  /\ periodic \subseteq Tasks /\ cancelled \subseteq Tasks
  /\ life \in {"alive", "stopping", "gone"}

Init ==
  /\ stage = [t \in Tasks |-> "unknown"]
  /\ periodic = {} /\ cancelled = {} /\ life = "alive"

Move(t, from, to) == stage[t] = from /\ stage' = [stage EXCEPT ![t] = to]
\* No task is running, or about to.
Idle == \A t \in Tasks : stage[t] \notin {"chosen", "running"}

\* post, postAfter and postEvery take tasks until the destructor starts.
Post(t) ==
  /\ life = "alive"
  /\ Move(t, "unknown", "pending")
  /\ periodic' \in {periodic, periodic \cup {t}}
  /\ UNCHANGED <<cancelled, life>>

\* cancel() acts on any task that is not over; in the middle of destruction
\* it may also act on one that is.
Cancel(t) ==
  /\ stage[t] # "unknown" /\ life # "gone"
  /\ stage[t] = "over" => life = "stopping"
  /\ cancelled' = cancelled \cup {t}
  /\ UNCHANGED <<stage, periodic, life>>

\* The last moment at which cancel() can keep a task from running.
Choose(t) ==
  /\ life # "gone" /\ Idle
  /\ t \notin cancelled
  /\ Move(t, "pending", "chosen")
  /\ UNCHANGED <<periodic, cancelled, life>>

Begin(t) == Move(t, "chosen", "running") /\ UNCHANGED <<periodic, cancelled, life>>

\* A periodic task goes on.  Any other has ended, and is soon forgotten: it is
\* over.
End(t) ==
  /\ Move(t, "running", IF t \in periodic THEN "pending" ELSE "ended")
  /\ UNCHANGED <<periodic, cancelled, life>>

Forget(t) == Move(t, "ended", "over") /\ UNCHANGED <<periodic, cancelled, life>>

\* Only a cancelled task is given up, or any task by an executor that stops.
Drop(t) ==
  /\ t \in cancelled \/ life = "stopping"
  /\ Move(t, "pending", "over")
  /\ UNCHANGED <<periodic, cancelled, life>>

Stop == life = "alive" /\ life' = "stopping" /\ UNCHANGED <<stage, periodic, cancelled>>

\* The destructor returns when no task runs.
Leave == life = "stopping" /\ Idle /\ life' = "gone" /\ UNCHANGED <<stage, periodic, cancelled>>

Next ==
  \/ \E t \in Tasks : Post(t) \/ Cancel(t) \/ Choose(t) \/ Begin(t) \/ End(t)
                        \/ Forget(t) \/ Drop(t)
  \/ Stop \/ Leave

Spec == Init /\ [][Next]_vars
=============================================================================
