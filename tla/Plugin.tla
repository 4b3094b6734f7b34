--------------------------------- MODULE Plugin ---------------------------------
(***************************************************************************)
(* Plugin.cpp, main.cpp: the plugin as a whole.  One main thread, which    *)
(* EuroScope lends, constructs it, runs its callbacks and destroys it; the *)
(* executor's worker runs update(), polling threads wait for tokens, and   *)
(* the logger's worker writes lines.                                       *)
(*                                                                         *)
(* The parts are their own modules: AuthService (A), SilentRequests (S),   *)
(* and, as the executor and the logger, what those promise: TaskLifecycle  *)
(* (E), for one task, and LogChannel (L).  What this module adds is the    *)
(* order in which things come to life, the dispatch of commands, and the   *)
(* order in which members are destroyed under the feet of the threads.     *)
(* "Variant" marks a plausible slip, used by no action.                    *)
(***************************************************************************)
EXTENDS Naturals, Sequences

CONSTANTS
  MaxFlows, Sector, Icaos, Callsigns,   \* of the parts
  Lines,        \* what the user may enter: each a list of words
  Prefixed,     \* the words that start with .vatger or .VATGER
  Lower,        \* from words to the same in lower case, where that differs
  MaxLogs       \* bound: lines logged, later ones are not told apart

ASSUME PartsAssumption ==
  MaxFlows \in Nat /\ MaxLogs \in Nat /\ Sector \in Seq(Seq(STRING)) /\ Icaos \subseteq STRING

VARIABLES
  token, startDto, device, handle, stopReq, ppc, authPc, local, result,
  crashed, issued, parsed, vouched, unparsed,                     \* AuthService
  airports, published, runwayPc, wanted, wpc, requests, replies,  \* SilentRequests
  stage, periodic, cancelled, life,                               \* the executor
  sent, delivered, logger,                                        \* m_logger
  commands,   \* m_compileCommands: from words to modules
  mainPc,     \* where the main thread is in the plugin's life
  fault,      \* a thread has used a destroyed member: what came of it
  updating,   \* history: when cancel() was called an update was under way,
  polling     \* history: and which flows were polled

authVars == <<token, startDto, device, handle, stopReq, ppc, authPc, local, result,
              crashed, issued, parsed, vouched, unparsed>>
srVars == <<airports, published, runwayPc, wanted, wpc, requests, replies>>
executorVars == <<stage, periodic, cancelled, life>>
logVars == <<sent, delivered, logger>>
vars == <<authVars, srVars, executorVars, logVars, commands, mainPc, fault, updating, polling>>

A == INSTANCE AuthService WITH mpc <- authPc
S == INSTANCE SilentRequests WITH mpc <- runwayPc
E == INSTANCE TaskLifecycle WITH Tasks <- {"update"}
L == INSTANCE LogChannel WITH state <- logger

Init ==
  /\ A!Init /\ S!Init /\ E!Init /\ L!Init
  /\ commands = <<>> /\ mainPc = "initLogger" /\ fault = "none"
  /\ updating = FALSE /\ polling = {}

\* What each kind of step leaves alone.
lifeFrame == <<commands, mainPc, fault, updating, polling>>
hostFrame == <<lifeFrame, logVars>>
authFrame == <<srVars, executorVars>>
srFrame == <<authVars, executorVars>>

-----------------------------------------------------------------------------
(* Construction: the logger, module->init for each module, the airports.   *)

\* m_logger->info or error.
Log ==
  \/ sent < MaxLogs /\ L!Send
  \/ sent = MaxLogs /\ UNCHANGED logVars

InitLogger ==
  /\ mainPc = "initLogger"
  /\ Log
  /\ mainPc' = "initAuth"
  /\ UNCHANGED <<authVars, srVars, executorVars, commands, fault, updating, polling>>

LowerCase(word) == IF word \in DOMAIN Lower THEN Lower[word] ELSE word

\* emplace: the first module to take a word keeps it.
RegisterModuleOnCompileCommand(preword, module) ==
  commands' = [w \in DOMAIN commands \cup {LowerCase(preword)} |->
                 IF w \in DOMAIN commands THEN commands[w] ELSE module]

InitAuth ==
  /\ mainPc = "initAuth"
  /\ RegisterModuleOnCompileCommand("auth", "AuthService")
  /\ mainPc' = "initSr"
  /\ UNCHANGED <<authVars, srVars, executorVars, logVars, fault, updating, polling>>

\* postEvery: from now on update() may run.
InitSr ==
  /\ mainPc = "initSr"
  /\ E!Post("update") /\ periodic' = {"update"}
  /\ mainPc' = "firstAirports"
  /\ UNCHANGED <<authVars, srVars, logVars, commands, fault, updating, polling>>

FirstAirports ==
  /\ mainPc = "firstAirports"
  /\ Log /\ S!RunwayActivityChanged
  /\ mainPc' = "loaded"
  /\ UNCHANGED <<srFrame, commands, fault, updating, polling>>

-----------------------------------------------------------------------------
(* EuroScope's callbacks, one at a time.                                   *)

MainIdle == mainPc = "loaded" /\ authPc = "idle" /\ runwayPc = "idle"

\* The module that a line is for, if any, and what it is told.
ModuleFor(line) ==
  IF Len(line) >= 2 /\ line[1] \in Prefixed /\ LowerCase(line[2]) \in DOMAIN commands
  THEN commands[LowerCase(line[2])] ELSE "none"
Remaining(line) == SubSeq(line, 3, Len(line))

\* A line that reaches no module, or tells it nothing, changes no state.
OnCompileCommand ==
  /\ MainIdle
  /\ \E line \in Lines :
       /\ ModuleFor(line) = "AuthService"
       /\ \/ Remaining(line) = <<"start">> /\ A!CommandStart
          \/ Remaining(line) = <<"status">> /\ A!ReadDeviceToken
  /\ UNCHANGED <<authFrame, hostFrame>>

OnAirportRunwayActivityChanged ==
  /\ MainIdle
  /\ Log /\ S!RunwayActivityChanged
  /\ UNCHANGED <<srFrame, lifeFrame>>

\* The handlers go on.
AuthProceeds ==
  /\ A!MainProceeds \/ A!IntrospectionReply \/ A!StartReply
  /\ UNCHANGED <<authFrame, hostFrame>>
AuthPosts == A!StartPost /\ UNCHANGED <<authFrame, hostFrame>>
TakeAirports == S!OnActiveAirportsChange /\ UNCHANGED <<srFrame, hostFrame>>

\* EuroScopePlugInExit does nothing: the callbacks end, the threads go on.
EuroScopePlugInExit ==
  /\ MainIdle
  /\ mainPc' = "exited"
  /\ UNCHANGED <<authVars, srVars, executorVars, logVars, commands, fault, updating, polling>>

-----------------------------------------------------------------------------
(* The other threads, and the members that may be gone.                    *)

Steps == <<"initLogger", "initAuth", "initSr", "firstAirports", "loaded", "exited",
           "srMembers", "executor", "joinWorker", "condition", "stopPolling", "joinPolling",
           "client", "logger", "flush", "gone">>
\* Those after each.
After == [step \in {Steps[i] : i \in DOMAIN Steps} |->
            {Steps[j] : j \in {k \in DOMAIN Steps : \E i \in 1..(k - 1) : Steps[i] = step}}]
Past(step) == mainPc \in After[step]

\* silent_requests_, airports_, their mutexes, rest_client_ of the module.
SrMembersGone == Past("srMembers")
\* m_cvMutex and m_cv, declared after m_pollingThread.
ConditionGone == Past("condition")

\* Using a destroyed member is undefined: the process ends, or the thread goes
\* on as if the member were still there.
Touch(gone) ==
  /\ fault' \in IF gone THEN {"touched", "crashed"} ELSE {fault}
  /\ UNCHANGED <<commands, mainPc, updating, polling>>

ChooseUpdate == E!Choose("update") /\ UNCHANGED <<authVars, srVars, hostFrame>>
DropUpdate == E!Drop("update") /\ UNCHANGED <<authVars, srVars, hostFrame>>

BeginUpdate == E!Begin("update") /\ S!StartUpdate /\ UNCHANGED <<authVars, hostFrame>>

GoOnWithUpdate ==
  /\ S!LockAirports \/ S!ReplyRequests \/ S!ReplyFailed
  /\ Touch(SrMembersGone)
  /\ UNCHANGED <<srFrame, logVars>>

\* It publishes, or throws and the executor logs that; it is the executor's again.
EndUpdate ==
  /\ \/ S!Publish /\ UNCHANGED logVars
     \/ S!ReplyMalformed /\ Log
  /\ E!End("update")
  /\ Touch(SrMembersGone)
  /\ UNCHANGED authVars

\* A polling thread that waits when the condition variable goes will wake up
\* in it, and one that comes to wait afterwards locks a dead mutex.
PollWaits(f) ==
  /\ A!Leave(f) \/ A!Tick(f)
  /\ Touch(ConditionGone)
  /\ UNCHANGED <<authFrame, logVars>>

PollWorks(f) ==
  /\ A!SaveToken(f) \/ A!StoreToken(f) \/ A!FinishFlow(f) \/ A!PollReply(f)
  /\ UNCHANGED <<authFrame, hostFrame>>
PollPosts(f) == A!PollPost(f) /\ UNCHANGED <<authFrame, hostFrame>>

Race == A!DataRace /\ UNCHANGED <<authFrame, hostFrame>>

\* The logger's worker hands a line to emitLog, which may be gone in the end.
WriteLine ==
  /\ L!Deliver \/ L!Break
  /\ UNCHANGED <<authVars, srVars, executorVars, lifeFrame>>

-----------------------------------------------------------------------------
(* Destruction, by the destructor of the static unique_ptr, in the reverse *)
(* order of the members: sr_module_, m_authService, m_logger.              *)

Goto(step) == mainPc' = step /\ UNCHANGED <<commands, fault>>
unloadFrame == <<updating, polling, logVars>>

UpdateRuns == stage["update"] \in {"chosen", "running"}
Polls(f) == ppc[f] \notin {"none", "done"}

CancelNothing == UNCHANGED executorVars                             \* variant
CancelUpdate == E!Cancel("update")

\* ~SilentRequestModule: its body cancels the task, ...
BeginUnload ==
  /\ mainPc = "exited" /\ CancelUpdate
  /\ updating' = UpdateRuns /\ polling' = {f \in A!Flows : Polls(f)}
  /\ Goto("srMembers")
  /\ UNCHANGED <<authVars, srVars, logVars>>

\* ... its members, ...
DestroySrMembers ==
  /\ mainPc = "srMembers"
  /\ Goto("executor")
  /\ UNCHANGED <<authVars, srVars, executorVars, unloadFrame>>

\* ... and last executor_, the only reference left: ~BackgroundExecutor.
StopExecutor ==
  /\ mainPc = "executor" /\ E!Stop
  /\ Goto("joinWorker")
  /\ UNCHANGED <<authVars, srVars, unloadFrame>>

JoinWorker ==
  /\ mainPc = "joinWorker" /\ E!Leave
  /\ Goto("condition")
  /\ UNCHANGED <<authVars, srVars, unloadFrame>>

\* ~AuthService: the condition variable and its mutex ...
DestroyCondition ==
  /\ mainPc = "condition"
  /\ Goto("stopPolling")
  /\ UNCHANGED <<authVars, srVars, executorVars, unloadFrame>>

\* ... and only then m_pollingThread, whose destructor stops ...
StopPolling ==
  /\ mainPc = "stopPolling"
  /\ stopReq' = A!WithStop
  /\ Goto("joinPolling")
  /\ UNCHANGED <<token, startDto, device, handle, ppc, authPc, local, result, crashed,
                 issued, parsed, vouched, unparsed, srVars, executorVars, unloadFrame>>

\* ... and joins.
JoinPolling ==
  /\ mainPc = "joinPolling" /\ A!OldThreadGone
  /\ Goto("client")
  /\ UNCHANGED <<authVars, srVars, executorVars, unloadFrame>>

\* m_restClient is the last reference to the client.
DestroyClient ==
  /\ mainPc = "client"
  /\ Goto("logger")
  /\ UNCHANGED <<authVars, srVars, executorVars, unloadFrame>>

\* m_logger: the executor's reference is gone, so this is the last one; its
\* destructor tells the worker to end ...
SealLogger ==
  /\ mainPc = "logger" /\ L!Seal
  /\ Goto("flush")
  /\ UNCHANGED <<authVars, srVars, executorVars, updating, polling>>

\* ... and waits until every line is written and the worker has ended.
CloseLogger ==
  /\ mainPc = "flush" /\ L!Close
  /\ Goto("gone")
  /\ UNCHANGED <<authVars, srVars, executorVars, updating, polling>>

-----------------------------------------------------------------------------
Constructs == InitLogger \/ InitAuth \/ InitSr \/ FirstAirports
Destructs == DestroySrMembers \/ StopExecutor \/ JoinWorker
             \/ DestroyCondition \/ StopPolling \/ JoinPolling \/ DestroyClient
             \/ SealLogger \/ CloseLogger
Main == Constructs \/ AuthProceeds \/ Destructs
Worker == ChooseUpdate \/ DropUpdate \/ BeginUpdate \/ GoOnWithUpdate \/ EndUpdate

Dead == crashed \/ fault = "crashed" \/ logger = "broken"

Next ==
  /\ ~Dead
  /\ \/ Main \/ AuthPosts \/ TakeAirports
     \/ OnCompileCommand \/ OnAirportRunwayActivityChanged
     \/ EuroScopePlugInExit \/ BeginUnload
     \/ Worker
     \/ \E f \in A!Flows : PollWaits(f) \/ PollWorks(f) \/ PollPosts(f)
     \/ Race \/ WriteLine

Spec == Init /\ [][Next]_vars

Alive(action) == ~Dead /\ action

\* The threads that unloading waits for keep running, a GET ends after 2 s, and
\* the service answers POSTs.  The POST lock needs no more: the last polling
\* thread has it to itself by then.  The logger's worker may be stillborn
\* (AsyncLogger), but one that has written a line goes on.  Nobody has to unload
\* the plugin or to call it back.
Fairness ==
  /\ WF_vars(Alive(Main))
  /\ WF_vars(Alive(Worker))
  /\ WF_vars(Alive(delivered # <<>> /\ WriteLine))
  /\ \A f \in A!Flows : WF_vars(Alive(PollWaits(f) \/ PollWorks(f) \/ PollPosts(f)))

FairSpec == Spec /\ Fairness

-----------------------------------------------------------------------------
(* Properties.                                                             *)

\* Each part has its own type invariant, and the plugin's variables theirs.
TypeOK ==
  /\ A!TypeOK /\ E!TypeOK
  /\ sent \in 0..MaxLogs /\ delivered \in Seq(1..MaxLogs) /\ Len(delivered) <= sent
  /\ logger \in {"open", "sealed", "closed", "broken"}
  /\ runwayPc \in {"idle", "lock"} /\ wpc \in {"idle", "lock", "ask"}
  /\ \A w \in DOMAIN commands : commands[w] = "AuthService"
  /\ \E i \in DOMAIN Steps : Steps[i] = mainPc
  /\ fault \in {"none", "touched", "crashed"}
  /\ updating \in BOOLEAN /\ polling \subseteq A!Flows

\* Only two things can meet a destroyed member: an update that was under way
\* when cancel() was called, since the module is destroyed before the executor
\* has joined; and the polling thread of a flow that was polled then, since its
\* condition variable is destroyed before it is stopped.  A third way does not
\* exist.  (What the logger's own worker meets at its end is AsyncLogger's.)
FaultIsKnown ==
  fault # "none" => updating \/ (ConditionGone /\ handle \in polling)

\* The client goes last: from then on no thread of the plugin is in a request,
\* nor will ever be.
ClientOutlivesRequests ==
  Past("joinPolling") =>
    /\ wpc = "idle" /\ ~UpdateRuns /\ life = "gone"
    /\ \A f \in A!Flows : ~Polls(f)

\* Unloading returns, if the service answers and the logger's worker was not
\* stillborn: the join of the worker waits for one update at most, that of the
\* polling thread for one POST, and the logger's destructor for the lines still
\* to be written.
UnloadReturns ==
  (mainPc = "srMembers" \/ SrMembersGone) /\ delivered # <<>> ~> mainPc = "gone" \/ Dead
=============================================================================
