------------------------- MODULE MCBackgroundExecutor -------------------------
(* BackgroundExecutor on small instances.                                   *)
EXTENDS BackgroundExecutor, TLC

\* Owner threads run the same code; sound for the runs without liveness.
CallerSymmetry == Permutations(Callers)

\* The calls of cancel() that have returned true.
Acknowledged ==
  {id \in cancelled : \A c \in Threads : cpc[c] = "notify" => arg[c].id # id}

\* "Cancels a scheduled / periodic task" (IBackGroundExecuter.h), and the
\* tests read the run count after cancel() has returned true and expect it
\* never to change: no task is started after that.
NoStartAfterCancel ==
  [][wpc = "start" /\ wpc' = "run" => cur.id \notin Acknowledged]_vars

\* FairSpec, and of two tasks due at the same time neither is passed over for
\* ever: what is left is starvation by the due times themselves.
FairTiesSpec ==
  FairSpec /\ \A id \in TaskIds : SF_vars(TakeDue /\ cur'.id = id)
=============================================================================
