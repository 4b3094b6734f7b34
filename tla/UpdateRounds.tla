------------------------------ MODULE UpdateRounds ------------------------------
(***************************************************************************)
(* SilentRequests on the executor's clock: how much of its five seconds a  *)
(* round of update() takes, and so whether the main thread finds           *)
(* airports_mutex_ free between two rounds.  The executor is fixed-rate: a *)
(* round that overruns is followed by the next at once, until the rounds   *)
(* have caught up.  Times are in seconds.                                  *)
(* "Variant" marks a plausible slip, used by no action.                    *)
(***************************************************************************)
EXTENDS SilentRequests

CONSTANT MaxBehind   \* bound: rounds further behind are not told apart

ASSUME MaxBehindAssumption == MaxBehind \in Nat

VARIABLE left        \* time left until the next round is due; below 0, overdue

timedVars == <<vars, left>>

Period == 5
Timeout == 2         \* of a GET

\* postEvery without runImmediately.
TimedInit == Init /\ left = Period

NextRoundAtOnce == left' = (IF left < 0 THEN left ELSE 0)            \* variant
\* The worker sleeps until the round is due; the one after is due a period later.
NextRound == left' = Period + (IF left < 0 THEN left ELSE 0)

BeginRound == StartUpdate /\ NextRound

Passes(seconds) == left' = Max({left - seconds, -MaxBehind})

\* One GET.  While the main thread waits here nobody else uses the handle for
\* GETs; otherwise an introspection may keep the worker waiting, for any time.
AskAirport ==
  /\ Reply
  /\ \E seconds \in 0..(IF mpc = "lock" THEN Timeout ELSE left + MaxBehind) : Passes(seconds)

\* What takes no time worth counting.
LocksOrPublishes == (LockAirports \/ Publish) /\ UNCHANGED left
RunwaysChange == RunwayActivityChanged /\ UNCHANGED left
TakeAirports == OnActiveAirportsChange /\ UNCHANGED left

Round == BeginRound \/ AskAirport \/ LocksOrPublishes

TimedNext == Round \/ RunwaysChange \/ TakeAirports

\* Between two rounds, and the second is not due yet.
Pause == wpc = "idle" /\ left > 0

\* The worker goes on, and a GET ends.  A mutex that rounds take again at once
\* owes the main thread nothing; only in a pause, which lasts a second at least,
\* does it find the mutex free for long enough to be sure to take it.
TimedFairness ==
  /\ WF_timedVars(Round)
  /\ SF_timedVars(Pause /\ TakeAirports)

TimedSpec == TimedInit /\ [][TimedNext]_timedVars /\ TimedFairness

-----------------------------------------------------------------------------
\* Every GET of a round may time out, and the next round is still not due.
MostTimeouts == (Period - 1) \div Timeout
RoundsFit == Len(airports) <= MostTimeouts

\* The airports that the main thread brings are taken over, and it goes on, if
\* rounds about the airports they replace fit into a period: however far behind
\* the rounds are by then, they catch up and pause.  (With three airports and
\* more, rounds may follow each other for ever.)
AirportsArrive == \A i \in 1..Len(Sector) :
  (mpc = "lock" /\ RoundsFit /\ Contains(wanted, FindIcao(Sector[i])))
    ~> (mpc = "idle" /\ Contains(airports, FindIcao(Sector[i])))
=============================================================================
