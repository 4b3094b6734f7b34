------------------------------ MODULE AuthService ------------------------------
(***************************************************************************)
(* auth/AuthService.cpp: the commands "status" (isAuthenticated, then      *)
(* validateToken) and "start" (startAuthFlow), both run by EuroScope's     *)
(* main thread, against the polling threads (pollToken) that they start.   *)
(* m_token and m_pluginTokenStartDTO are shared without a lock; POSTs of   *)
(* all threads take turns on the lock of the one CurlRestClient.           *)
(*                                                                         *)
(* A flow is a number, in the order in which the service opens them; it    *)
(* stands for its start DTO, its polling thread and the token it yields.   *)
(* What the service answers is free.  "Variant" marks a plausible slip,    *)
(* used by no action.                                                      *)
(***************************************************************************)
EXTENDS Naturals

CONSTANT MaxFlows   \* bound: flows the service opens

ASSUME FlowsAssumption == MaxFlows \in Nat

None == 0                      \* std::nullopt, no thread
Flows == 1..MaxFlows
EarlierToken == MaxFlows + 1   \* a device token left by an earlier session
Tokens == Flows \cup {None, EarlierToken}

VARIABLES
  token,     \* m_token
  startDto,  \* m_pluginTokenStartDTO
  device,    \* the device token in the registry (ISystem)
  handle,    \* m_pollingThread, by its flow
  stopReq,   \* the stop tokens that were signalled, by flow
  ppc,       \* where each polling thread is in pollToken
  mpc,       \* where the main thread is in this component
  local,     \* the main thread's local: device token read, token sent, DTO
  result,    \* the AuthFlowResult of the last startAuthFlow
  crashed,   \* the process is gone, or its memory corrupted
  issued,    \* history: flows opened so far
  parsed,    \* history: the last start reply was well formed
  vouched,   \* history: tokens the service handed out or called active
  unparsed   \* history: an introspection reply was malformed

main == <<mpc, local>>
poll == <<ppc, stopReq>>
flow == <<startDto, handle, result, issued, parsed>>
history == <<vouched, unparsed>>
vars == <<token, device, main, poll, flow, history, crashed>>

Init ==
  /\ token = None /\ startDto = None /\ handle = None
  /\ device \in {None, EarlierToken}
  /\ stopReq = {} /\ ppc = [f \in Flows |-> "none"]
  /\ mpc = "idle" /\ local = None
  /\ result = "none" /\ parsed = FALSE /\ issued = 0
  /\ vouched = {} /\ unparsed = FALSE /\ crashed = FALSE

\* An exception that leaves the command handler reaches EuroScope, which
\* survives it or does not.
ThrowToHost == mpc' = "idle" /\ crashed' \in BOOLEAN

-----------------------------------------------------------------------------
(* "status": isAuthenticated, and validateToken when there is no token.    *)
(* The poll thread may store one at any point of it.                       *)

statusFrame == <<device, poll, flow>>

\* ISystem::getDeviceToken: nothing, too, when the registry cannot be read.
GetDeviceToken == {device, None}

\* m_token is empty, so the device token is read ...
ReadDeviceToken ==
  /\ mpc = "idle" /\ token = None
  /\ local' \in GetDeviceToken /\ mpc' = "assign"
  /\ UNCHANGED <<statusFrame, token, history, crashed>>

\* ... assigned ...
AssignToken ==
  /\ mpc = "assign"
  /\ token' = local /\ mpc' = "test"
  /\ UNCHANGED <<statusFrame, local, history, crashed>>

\* ... and, if m_token now has a value, sent to the service.
TestToken ==
  /\ mpc = "test"
  /\ mpc' = IF token = None THEN "idle" ELSE "introspect"
  /\ local' = token
  /\ UNCHANGED <<statusFrame, token, history, crashed>>

KeepToken == token' = token                                         \* variant
ResetToken == token' = None

IntrospectionActive ==
  /\ mpc = "introspect"
  /\ vouched' = vouched \cup {local}
  /\ mpc' = "idle"
  /\ UNCHANGED <<statusFrame, token, local, unparsed, crashed>>

\* Not active, or a status other than 200.  Drops whatever m_token holds by now.
IntrospectionRejects ==
  /\ mpc = "introspect"
  /\ ResetToken
  /\ mpc' = "idle"
  /\ UNCHANGED <<statusFrame, local, history, crashed>>

IntrospectionMalformed ==
  /\ mpc = "introspect"
  /\ unparsed' = TRUE
  /\ ThrowToHost
  /\ UNCHANGED <<statusFrame, token, local, vouched>>

-----------------------------------------------------------------------------
(* "start": startAuthFlow.                                                 *)

\* CurlRestClient::post holds its lock until the service has answered.
PostFree == mpc # "startPosting" /\ \A f \in Flows : ppc[f] # "posting"

startFrame == <<token, device, history>>

CommandStart ==
  /\ mpc = "idle" /\ issued < MaxFlows
  /\ mpc' = "start" /\ result' = "none"
  /\ UNCHANGED <<startFrame, local, poll, startDto, handle, issued, parsed, crashed>>

StartPost ==
  /\ mpc = "start" /\ PostFree
  /\ mpc' = "startPosting"
  /\ UNCHANGED <<startFrame, local, poll, flow, crashed>>

StartRefused ==
  /\ mpc = "startPosting"
  /\ result' = "NetworkError" /\ mpc' = "idle"
  /\ UNCHANGED <<startFrame, local, poll, startDto, handle, issued, parsed, crashed>>

StartMalformed ==
  /\ mpc = "startPosting"
  /\ parsed' = FALSE
  /\ ThrowToHost
  /\ UNCHANGED <<startFrame, local, poll, startDto, handle, result, issued>>

StartGranted ==
  /\ mpc = "startPosting"
  /\ issued' = issued + 1 /\ startDto' = issued' /\ parsed' = TRUE
  /\ mpc' = "check"
  /\ UNCHANGED <<startFrame, local, poll, handle, result, crashed>>

\* if (!m_pluginTokenStartDTO.has_value()) return ParseError
CheckDto ==
  /\ mpc = "check"
  /\ \/ /\ startDto = None
        /\ result' = "ParseError" /\ mpc' = "idle"
     \/ /\ startDto # None
        /\ mpc' = "open" /\ UNCHANGED result
  /\ UNCHANGED <<startFrame, local, poll, startDto, handle, issued, parsed, crashed>>

\* m_pluginTokenStartDTO.value() throws bad_optional_access; then openUrl.
OpenUrl ==
  /\ mpc = "open"
  /\ \/ startDto = None /\ ThrowToHost /\ UNCHANGED local
     \/ /\ startDto # None
        /\ local' = startDto /\ mpc' = "spawn" /\ UNCHANGED crashed
  /\ UNCHANGED <<startFrame, poll, flow>>

\* The temporary jthread runs before it is moved to m_pollingThread ...
Spawn ==
  /\ mpc = "spawn"
  /\ ppc' = [ppc EXCEPT ![local] = "wait"]
  /\ mpc' = "assignThread"
  /\ UNCHANGED <<startFrame, local, stopReq, flow, crashed>>

\* ... whose move assignment first tells the thread it held to stop ...
NoStop == stopReq                                                   \* variant
StopUnowned == stopReq \cup {handle}                                \* variant
WithStop == stopReq \cup ({handle} \ {None})

AssignThread ==
  /\ mpc = "assignThread"
  /\ stopReq' = WithStop
  /\ mpc' = "join"
  /\ UNCHANGED <<startFrame, local, ppc, flow, crashed>>

\* ... and joins it.
JoinNothing == TRUE                                                 \* variant
OldThreadGone == handle # None => ppc[handle] = "done"

JoinThread ==
  /\ mpc = "join" /\ OldThreadGone
  /\ handle' = local /\ result' = "Success" /\ mpc' = "idle"
  /\ UNCHANGED <<startFrame, local, poll, startDto, issued, parsed, crashed>>

-----------------------------------------------------------------------------
(* pollToken, by the polling thread of flow f.                             *)

pollFrame == <<main, stopReq, handle, result, issued, parsed, unparsed>>

Goto(f, pc) == ppc' = [ppc EXCEPT ![f] = pc]

\* Stopped: at the loop's test, during the wait or just after it.
Leave(f) ==
  /\ ppc[f] = "wait" /\ f \in stopReq
  /\ Goto(f, "done")
  /\ UNCHANGED <<pollFrame, token, device, startDto, vouched, crashed>>

\* The polling interval has passed and no stop was seen.
Tick(f) ==
  /\ ppc[f] = "wait" /\ f \notin stopReq
  /\ Goto(f, "post")
  /\ UNCHANGED <<pollFrame, token, device, startDto, vouched, crashed>>

PollPost(f) ==
  /\ ppc[f] = "post" /\ PostFree
  /\ Goto(f, "posting")
  /\ UNCHANGED <<pollFrame, token, device, startDto, vouched, crashed>>

PollPending(f) ==
  /\ ppc[f] = "posting"
  /\ Goto(f, "wait")
  /\ UNCHANGED <<pollFrame, token, device, startDto, vouched, crashed>>

PollReady(f) ==
  /\ ppc[f] = "posting"
  /\ Goto(f, "save")
  /\ vouched' = vouched \cup {f}
  /\ UNCHANGED <<pollFrame, token, device, startDto, crashed>>

\* The status code is not looked at: an error page, or no answer at all, is
\* parsed as JSON, and the exception leaves the thread (std::terminate).
PollMalformed(f) ==
  /\ ppc[f] = "posting"
  /\ Goto(f, "done")
  /\ crashed' = TRUE
  /\ UNCHANGED <<pollFrame, token, device, startDto, vouched>>

\* saveDeviceToken may fail; nobody looks.
SaveToken(f) ==
  /\ ppc[f] = "save"
  /\ device' \in {f, device}
  /\ Goto(f, "store")
  /\ UNCHANGED <<pollFrame, token, startDto, vouched, crashed>>

StoreToken(f) ==
  /\ ppc[f] = "store"
  /\ token' = f
  /\ Goto(f, "reset")
  /\ UNCHANGED <<pollFrame, device, startDto, vouched, crashed>>

KeepDto == startDto' = startDto                                     \* variant
ResetDto == startDto' = None

\* Resets whatever flow m_pluginTokenStartDTO stands for by now.
FinishFlow(f) ==
  /\ ppc[f] = "reset"
  /\ ResetDto
  /\ Goto(f, "done")
  /\ UNCHANGED <<pollFrame, token, device, vouched, crashed>>

-----------------------------------------------------------------------------
\* Two unsynchronised accesses to one std::optional, one of them a write, and
\* both about to happen.  The interleavings above are one outcome, corruption
\* of its string is the other.
DataRace ==
  /\ \E f \in Flows :
       \/ ppc[f] = "store" /\ mpc \in {"assign", "test", "introspect"}
       \/ ppc[f] = "reset" /\ mpc \in {"startPosting", "open"}
       \/ \E g \in Flows \ {f} : ppc[f] = ppc[g] /\ ppc[f] \in {"store", "reset"}
  /\ crashed' = TRUE
  /\ UNCHANGED <<token, device, main, poll, flow, history>>

IntrospectionReply == IntrospectionActive \/ IntrospectionRejects \/ IntrospectionMalformed
StartReply == StartRefused \/ StartMalformed \/ StartGranted
PollReply(f) == PollPending(f) \/ PollReady(f) \/ PollMalformed(f)

MainProceeds ==
  AssignToken \/ TestToken \/ CheckDto \/ OpenUrl \/ Spawn \/ AssignThread \/ JoinThread

PollProceeds(f) == Leave(f) \/ Tick(f) \/ SaveToken(f) \/ StoreToken(f) \/ FinishFlow(f)

Next ==
  /\ ~crashed
  /\ \/ ReadDeviceToken \/ CommandStart
     \/ MainProceeds \/ StartPost \/ StartReply \/ IntrospectionReply
     \/ \E f \in Flows : PollProceeds(f) \/ PollPost(f) \/ PollReply(f)
     \/ DataRace

Spec == Init /\ [][Next]_vars

Alive(A) == ~crashed /\ A

\* Threads keep running.  A GET times out after 2 s, so introspection has a
\* reply once it has the GET handle, which it shares with the rounds of
\* SilentRequests: those are taken to leave pauses (UpdateRounds).  A waiter gets the POST lock when it is free again and again:
\* between two POSTs of a poll thread lies the polling interval.
ThreadFairness ==
  /\ WF_vars(Alive(MainProceeds))
  /\ WF_vars(Alive(IntrospectionReply))
  /\ SF_vars(Alive(StartPost))
  /\ \A f \in Flows : WF_vars(Alive(PollProceeds(f))) /\ SF_vars(Alive(PollPost(f)))

\* The service answers POSTs.  Nothing in the code guarantees it: a POST has
\* no timeout.
PostFairness ==
  /\ WF_vars(Alive(StartReply))
  /\ \A f \in Flows : WF_vars(Alive(PollReply(f)))

FairSpec == Spec /\ ThreadFairness /\ PostFairness

-----------------------------------------------------------------------------
(* Properties.                                                             *)

TypeOK ==
  /\ token \in Tokens /\ device \in Tokens /\ local \in Tokens
  /\ startDto \in Flows \cup {None} /\ handle \in Flows \cup {None}
  /\ stopReq \subseteq Flows /\ issued \in 0..MaxFlows
  /\ ppc \in [Flows -> {"none", "wait", "post", "posting", "save", "store", "reset", "done"}]
  /\ mpc \in {"idle", "assign", "test", "introspect", "start", "startPosting", "check",
              "open", "spawn", "assignThread", "join"}
  /\ result \in {"none", "Success", "NetworkError", "ParseError"}
  /\ crashed \in BOOLEAN /\ parsed \in BOOLEAN /\ unparsed \in BOOLEAN
  /\ vouched \subseteq Flows \cup {EarlierToken}

Running(f) == ppc[f] \notin {"none", "done"}

\* Two flows are polled only while startAuthFlow replaces the one by the
\* other.  At any other time at most the thread of the last flow started runs,
\* so a flow the user has replaced can no longer bring in its token.
OnePoller ==
  mpc \notin {"assignThread", "join"} => \A f \in Flows : Running(f) => f = handle

\* Between two commands a start DTO is kept only for the flow that is still
\* being polled, although another flow's thread may have reset it.
PendingMeansPolling ==
  mpc = "idle" /\ ~crashed /\ startDto # None => startDto = handle /\ Running(handle)

\* Between two commands m_token holds only a token that the service has handed
\* out or called active, however the device token, the reply and a poll thread's
\* store cross; the exception is a malformed introspection reply, whose
\* exception skips the reset.
OnlyVouchedTokens ==
  mpc = "idle" /\ token # None => token \in vouched \/ unparsed

\* If the service answers, and the rounds of update() leave pauses, the command
\* handler returns to EuroScope: the shared POST lock and the join of the
\* replaced thread do not block it.
MainReturns == (mpc # "idle") ~> (mpc = "idle" \/ crashed)
=============================================================================
