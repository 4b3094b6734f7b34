----------------------------- MODULE PluginProofs -----------------------------
(***************************************************************************)
(* Theorems about Plugin, for any number of flows, any sector file and any *)
(* lines the user may enter: who can meet a destroyed member, and what     *)
(* outlives what.                                                          *)
(***************************************************************************)
EXTENDS Plugin, TLAPS

\* What is proved of the parts.
AP == INSTANCE AuthServiceProofs WITH mpc <- authPc
SP == INSTANCE SilentRequestsProofs WITH mpc <- runwayPc

\* From some point of the main thread's life on.
WithoutClient == {"logger", "flush", "gone"}
Unloaded == {"condition", "stopPolling", "joinPolling", "client"} \cup WithoutClient
Unloading == {"srMembers", "executor", "joinWorker"} \cup Unloaded
Exited == {"exited"} \cup Unloading
Constructing == {"initLogger", "initAuth", "initSr"}
Places == Constructing \cup {"firstAirports", "loaded"} \cup Exited

AuthSteps == {"none", "wait", "post", "posting", "save", "store", "reset", "done"}

\* The worker is in update() when the executor runs it, and once cancel() was
\* called only an update that was under way then is.
ExecutorInv ==
  /\ stage \in [{"update"} -> E!Stages]
  /\ mainPc \in Constructing => stage["update"] = "unknown"
  /\ stage["update"] = "running" <=> wpc # "idle"
  /\ life = "gone" => ~UpdateRuns
  /\ mainPc \in Unloaded => life = "gone"
  /\ mainPc \in Unloading => "update" \in cancelled
  /\ mainPc \in Unloading /\ UpdateRuns => updating

\* Besides the thread held only one about to be held runs; when the callbacks
\* are over no new one comes, and at the end none is left.
PollInv ==
  /\ ppc \in [A!Flows -> AuthSteps]
  /\ \A f \in A!Flows : Polls(f) =>
       f = handle \/ (authPc \in {"assignThread", "join"} /\ f = local)
  /\ mainPc \in Exited => authPc = "idle"
  /\ mainPc \in Unloading => \A f \in A!Flows : Polls(f) => f \in polling
  /\ mainPc \in {"client"} \cup WithoutClient => \A f \in A!Flows : ~Polls(f)

\* FaultIsKnown, and that nothing is destroyed before the unloading.
FaultInv ==
  /\ fault # "none" => mainPc \in Unloading
  /\ fault # "none" =>
       updating \/ (mainPc \in Unloaded \ {"condition"} /\ handle \in polling)

Inv == mainPc \in Places /\ ExecutorInv /\ PollInv /\ FaultInv

-----------------------------------------------------------------------------
(* The order of the steps, as sets.                                        *)

LEMMA StepsInOrder ==
  /\ DOMAIN Steps = 1..16
  /\ Steps[1] = "initLogger" /\ Steps[2] = "initAuth" /\ Steps[3] = "initSr"
  /\ Steps[4] = "firstAirports" /\ Steps[5] = "loaded" /\ Steps[6] = "exited"
  /\ Steps[7] = "srMembers" /\ Steps[8] = "executor" /\ Steps[9] = "joinWorker"
  /\ Steps[10] = "condition" /\ Steps[11] = "stopPolling" /\ Steps[12] = "joinPolling"
  /\ Steps[13] = "client" /\ Steps[14] = "logger" /\ Steps[15] = "flush"
  /\ Steps[16] = "gone"
  BY DEF Steps

\* What comes after the n-th step comes after it in the list.
LEMMA AfterStep ==
  ASSUME NEW n \in 1..16
  PROVE  After[Steps[n]] = {Steps[k] : k \in (n + 1)..16}
<1>1. \A i, j \in 1..16 : Steps[i] = Steps[j] => i = j
  BY StepsInOrder
<1>2. Steps[n] \in {Steps[i] : i \in DOMAIN Steps}
  BY StepsInOrder
<1>3. After[Steps[n]] =
        {Steps[j] : j \in {k \in DOMAIN Steps : \E i \in 1..(k - 1) : Steps[i] = Steps[n]}}
  BY <1>2 DEF After
<1>4. {k \in DOMAIN Steps : \E i \in 1..(k - 1) : Steps[i] = Steps[n]} = (n + 1)..16
  BY <1>1, StepsInOrder
<1> QED
  BY <1>3, <1>4

LEMMA PastSteps ==
  /\ SrMembersGone <=> mainPc \in Unloading \ {"srMembers"}
  /\ ConditionGone <=> mainPc \in Unloaded \ {"condition"}
  /\ Past("stopPolling") <=> mainPc \in {"joinPolling", "client"} \cup WithoutClient
  /\ Past("joinPolling") <=> mainPc \in {"client"} \cup WithoutClient
<1> USE StepsInOrder DEF Past, Unloading, Unloaded, WithoutClient
<1> HIDE DEF Steps
<1>1. SrMembersGone <=> mainPc \in Unloading \ {"srMembers"}
  <2>1. After[Steps[7]] = {Steps[k] : k \in 8..16}
    BY AfterStep
  <2> QED
    BY <2>1 DEF SrMembersGone
<1>2. ConditionGone <=> mainPc \in Unloaded \ {"condition"}
  <2>1. After[Steps[10]] = {Steps[k] : k \in 11..16}
    BY AfterStep
  <2> QED
    BY <2>1 DEF ConditionGone
<1>3. Past("stopPolling") <=> mainPc \in {"joinPolling", "client"} \cup WithoutClient
  <2>1. After[Steps[11]] = {Steps[k] : k \in 12..16}
    BY AfterStep
  <2> QED
    BY <2>1
<1>4. Past("joinPolling") <=> mainPc \in {"client"} \cup WithoutClient
  <2>1. After[Steps[12]] = {Steps[k] : k \in 13..16}
    BY AfterStep
  <2> QED
    BY <2>1
<1> QED
  BY <1>1, <1>2, <1>3, <1>4

LEMMA InitInv == Init => Inv
  BY DEF Init, A!Init, S!Init, E!Init, Inv, Places, Constructing, Exited, Unloading, Unloaded,
         WithoutClient,
         ExecutorInv, PollInv, FaultInv, UpdateRuns, Polls, AuthSteps, E!Stages

-----------------------------------------------------------------------------
(* The main thread's callbacks.                                            *)

\* A step of the main thread inside AuthService leaves the polling threads
\* alone, but for the one it creates and the handle it assigns.
LEMMA MainAuthStep ==
  ASSUME Inv,
         \/ A!ReadDeviceToken \/ A!CommandStart
         \/ A!MainProceeds \/ A!IntrospectionReply \/ A!StartReply \/ A!StartPost
  PROVE  /\ ppc' \in [A!Flows -> AuthSteps]
         /\ \A f \in A!Flows : Polls(f)' =>
              f = handle' \/ (authPc' \in {"assignThread", "join"} /\ f = local')
         /\ handle' = handle \/ authPc # "idle"
<1> DEFINE Goal == /\ ppc' \in [A!Flows -> AuthSteps]
                   /\ \A f \in A!Flows : Polls(f)' =>
                        f = handle' \/ (authPc' \in {"assignThread", "join"} /\ f = local')
                   /\ handle' = handle \/ authPc # "idle"
<1>0. /\ ppc \in [A!Flows -> AuthSteps]
      /\ \A f \in A!Flows : Polls(f) =>
           f = handle \/ (authPc \in {"assignThread", "join"} /\ f = local)
  BY DEF Inv, PollInv
<1>1. CASE A!ReadDeviceToken \/ A!CommandStart \/ A!StartPost
  BY <1>0, <1>1 DEF A!ReadDeviceToken, A!CommandStart, A!StartPost, A!statusFrame,
                    A!startFrame, A!poll, A!flow, Polls
<1>2. CASE A!AssignToken \/ A!TestToken \/ A!IntrospectionReply
  BY <1>0, <1>2 DEF A!AssignToken, A!TestToken, A!IntrospectionReply, A!IntrospectionActive,
                    A!IntrospectionRejects, A!IntrospectionMalformed, A!ThrowToHost,
                    A!statusFrame, A!poll, A!flow, Polls
<1>3. CASE A!StartReply
  BY <1>0, <1>3 DEF A!StartReply, A!StartRefused, A!StartMalformed, A!StartGranted,
                    A!ThrowToHost, A!startFrame, A!poll, Polls
<1>4. CASE A!CheckDto \/ A!OpenUrl \/ A!AssignThread
  BY <1>0, <1>4 DEF A!CheckDto, A!OpenUrl, A!AssignThread, A!ThrowToHost, A!startFrame,
                    A!poll, A!flow, Polls
<1>5. CASE A!Spawn
  <2>1. /\ ppc' = [ppc EXCEPT ![local] = "wait"] /\ local' = local /\ handle' = handle
        /\ authPc = "spawn" /\ authPc' = "assignThread"
    BY <1>5 DEF A!Spawn, A!flow
  <2>2. ppc' \in [A!Flows -> AuthSteps]
    BY <1>0, <2>1 DEF AuthSteps
  <2>3. \A f \in A!Flows : f # local => ppc'[f] = ppc[f]
    BY <1>0, <2>1
  <2> QED
    BY <1>0, <2>1, <2>2, <2>3 DEF Polls
<1>6. CASE A!JoinThread
  <2>1. /\ ppc' = ppc /\ handle' = local /\ authPc = "join"
        /\ handle # A!None => ppc[handle] = "done"
    BY <1>6 DEF A!JoinThread, A!OldThreadGone, A!poll
  <2>2. \A f \in A!Flows : f # A!None
    BY DEF A!Flows, A!None
  <2>3. \A f \in A!Flows : Polls(f)' => f = local
    BY <1>0, <2>1, <2>2 DEF Polls
  <2> QED
    BY <1>0, <2>1, <2>3
<1> QED
  BY <1>1, <1>2, <1>3, <1>4, <1>5, <1>6 DEF A!MainProceeds

LEMMA CallbackInv ==
  ASSUME Inv, OnCompileCommand \/ OnAirportRunwayActivityChanged \/ AuthProceeds
                \/ AuthPosts \/ TakeAirports
  PROVE  Inv'
<1>1. CASE OnAirportRunwayActivityChanged \/ TakeAirports
  BY <1>1 DEF OnAirportRunwayActivityChanged, TakeAirports, S!RunwayActivityChanged,
              S!OnActiveAirportsChange, S!worker, srFrame, hostFrame, lifeFrame, authVars,
              executorVars,
              Inv, ExecutorInv, PollInv, FaultInv, UpdateRuns, Polls
<1>2. CASE OnCompileCommand \/ AuthProceeds \/ AuthPosts
  <2>1. /\ UNCHANGED <<authFrame, hostFrame>>
        /\ \/ A!ReadDeviceToken \/ A!CommandStart
           \/ A!MainProceeds \/ A!IntrospectionReply \/ A!StartReply \/ A!StartPost
    BY <1>2 DEF OnCompileCommand, AuthProceeds, AuthPosts
  <2>2. mainPc \notin Exited
    <3>1. CASE OnCompileCommand
      BY <3>1 DEF OnCompileCommand, MainIdle, Exited, Unloading, Unloaded, WithoutClient
    <3>2. CASE AuthProceeds \/ AuthPosts
      <4>1. authPc # "idle"
        BY <3>2
        DEF AuthProceeds, AuthPosts, A!MainProceeds, A!AssignToken, A!TestToken, A!CheckDto,
            A!OpenUrl, A!Spawn, A!AssignThread, A!JoinThread, A!IntrospectionReply,
            A!IntrospectionActive, A!IntrospectionRejects, A!IntrospectionMalformed,
            A!StartReply, A!StartRefused, A!StartMalformed, A!StartGranted, A!StartPost
      <4> QED
        BY <4>1 DEF Inv, PollInv
    <3> QED
      BY <1>2, <3>1, <3>2
  <2>3. fault = "none" /\ mainPc \notin Unloading /\ mainPc \notin {"client"} \cup WithoutClient
    BY <2>2 DEF Inv, FaultInv, Exited, Unloading, Unloaded, WithoutClient
  <2>4. UNCHANGED <<stage, life, cancelled, wpc, mainPc, fault, updating, polling>>
    BY <2>1 DEF authFrame, hostFrame, lifeFrame, srVars, executorVars
  <2>5. ExecutorInv' /\ mainPc' \in Places
    BY <2>4 DEF Inv, ExecutorInv, UpdateRuns
  <2>6. PollInv'
    BY <2>1, <2>2, <2>3, <2>4, MainAuthStep DEF PollInv
  <2>7. FaultInv'
    BY <2>3, <2>4 DEF FaultInv
  <2> QED
    BY <2>5, <2>6, <2>7 DEF Inv
<1> QED
  BY <1>1, <1>2

-----------------------------------------------------------------------------
(* Construction and the end of the callbacks.                              *)

LEMMA ConstructsInv ==
  ASSUME Inv, Constructs \/ EuroScopePlugInExit
  PROVE  Inv'
<1> USE DEF Places, Constructing, Exited, Unloading, Unloaded, WithoutClient
<1>0. mainPc \notin Unloading /\ fault = "none"
  BY DEF Constructs, InitLogger, InitAuth, InitSr, FirstAirports, EuroScopePlugInExit, MainIdle,
         Inv, FaultInv
<1>1. UNCHANGED <<authVars, fault, updating, polling, wpc>>
  BY DEF Constructs, InitLogger, InitAuth, InitSr, FirstAirports, EuroScopePlugInExit, srVars,
         srFrame,
         S!RunwayActivityChanged, S!worker
<1>2. mainPc' \in {"initAuth", "initSr", "firstAirports", "loaded", "exited"}
  BY DEF Constructs, InitLogger, InitAuth, InitSr, FirstAirports, EuroScopePlugInExit
<1>3. ExecutorInv'
  <2>1. CASE InitSr
    BY <1>1, <2>1 DEF InitSr, E!Post, E!Move, E!Stages, Inv, ExecutorInv, UpdateRuns
  <2>2. CASE InitLogger \/ InitAuth \/ FirstAirports \/ EuroScopePlugInExit
    <3>1. UNCHANGED executorVars
      BY <2>2 DEF InitLogger, InitAuth, FirstAirports, EuroScopePlugInExit, srFrame
    <3>2. mainPc' \in Constructing => mainPc \in Constructing
      BY <2>2 DEF InitLogger, InitAuth, FirstAirports, EuroScopePlugInExit
    <3> QED
      BY <1>1, <1>2, <3>1, <3>2 DEF executorVars, Inv, ExecutorInv, UpdateRuns
  <2> QED
    BY <2>1, <2>2 DEF Constructs
<1>4. PollInv'
  <2>1. mainPc' = "exited" => authPc = "idle"
    BY DEF Constructs, InitLogger, InitAuth, InitSr, FirstAirports, EuroScopePlugInExit, MainIdle
  <2> QED
    BY <1>1, <1>2, <2>1 DEF authVars, Inv, PollInv, Polls
<1>5. FaultInv'
  BY <1>0, <1>1 DEF FaultInv
<1> QED
  BY <1>2, <1>3, <1>4, <1>5 DEF Inv

-----------------------------------------------------------------------------
(* The executor's worker.                                                  *)

LEMMA WorkerInv ==
  ASSUME Inv, Worker
  PROVE  Inv'
<1> USE DEF Unloading, Unloaded, WithoutClient
<1>1. UNCHANGED <<authVars, mainPc, updating, polling, cancelled, life>>
  BY DEF Worker, ChooseUpdate, DropUpdate, BeginUpdate, GoOnWithUpdate, EndUpdate, hostFrame,
         lifeFrame,
         Touch, srFrame, executorVars, E!Choose, E!Drop, E!Begin, E!End
<1>2. PollInv'
  BY <1>1 DEF authVars, Inv, PollInv, Polls
<1>3. ExecutorInv'
  <2>0. stage \in [{"update"} -> E!Stages] /\ ExecutorInv
    BY DEF Inv, ExecutorInv
  <2>1. CASE ChooseUpdate
    BY <1>1, <2>0, <2>1
    DEF ChooseUpdate, E!Choose, E!Move, E!Stages, srVars, ExecutorInv, Constructing, UpdateRuns
  <2>2. CASE DropUpdate
    BY <1>1, <2>0, <2>2
    DEF DropUpdate, E!Drop, E!Move, E!Stages, srVars, ExecutorInv, Constructing, UpdateRuns
  <2>3. CASE BeginUpdate
    BY <1>1, <2>0, <2>3
    DEF BeginUpdate, E!Begin, E!Move, E!Stages, S!StartUpdate, ExecutorInv, Constructing,
        UpdateRuns
  <2>4. CASE GoOnWithUpdate
    <3>1. wpc # "idle" /\ wpc' # "idle" /\ stage' = stage
      BY <2>4 DEF GoOnWithUpdate, S!LockAirports, S!ReplyRequests, S!ReplyFailed, srFrame,
                  executorVars
    <3> QED
      BY <1>1, <2>0, <3>1 DEF ExecutorInv, UpdateRuns
  <2>5. CASE EndUpdate
    <3>1. /\ wpc' = "idle" /\ stage["update"] = "running"
          /\ stage' = [stage EXCEPT !["update"] = IF "update" \in periodic THEN "pending" ELSE "ended"]
      BY <2>5 DEF EndUpdate, S!Publish, S!ReplyMalformed, E!End, E!Move
    <3> QED
      BY <1>1, <2>0, <3>1 DEF E!Stages, ExecutorInv, Constructing, UpdateRuns
  <2> QED
    BY <2>1, <2>2, <2>3, <2>4, <2>5 DEF Worker
<1>4. FaultInv'
  <2>1. CASE ChooseUpdate \/ DropUpdate \/ BeginUpdate
    BY <1>1, <2>1 DEF ChooseUpdate, DropUpdate, BeginUpdate, hostFrame, lifeFrame, authVars, Inv,
                      FaultInv
  <2>2. CASE GoOnWithUpdate \/ EndUpdate
    <3>1. stage["update"] = "running"
      BY <2>2 DEF GoOnWithUpdate, EndUpdate, S!LockAirports, S!ReplyRequests, S!ReplyFailed,
                  S!Publish, S!ReplyMalformed, Inv, ExecutorInv
    <3>2. CASE SrMembersGone
      <4>1. mainPc \in Unloading /\ updating
        BY <3>1, <3>2, PastSteps DEF Inv, ExecutorInv, UpdateRuns
      <4> QED
        BY <1>1, <4>1 DEF FaultInv
    <3>3. CASE ~SrMembersGone
      <4>1. fault' = fault
        BY <2>2, <3>3 DEF GoOnWithUpdate, EndUpdate, Touch
      <4> QED
        BY <1>1, <4>1 DEF authVars, Inv, FaultInv
    <3> QED
      BY <3>2, <3>3
  <2> QED
    BY <2>1, <2>2 DEF Worker
<1> QED
  BY <1>1, <1>2, <1>3, <1>4 DEF Inv

-----------------------------------------------------------------------------
(* The polling threads.                                                    *)

\* One that has ended polls no more, and its steps move no other.
LEMMA PollStep ==
  ASSUME Inv, NEW f \in A!Flows, PollWaits(f) \/ PollWorks(f) \/ PollPosts(f)
  PROVE  /\ Polls(f) /\ ppc' \in [A!Flows -> AuthSteps]
         /\ \A g \in A!Flows : Polls(g)' => Polls(g)
         /\ UNCHANGED <<authPc, local, handle, mainPc, updating, polling, srVars, executorVars>>
<1>1. /\ Polls(f) /\ \E pc \in AuthSteps : ppc' = [ppc EXCEPT ![f] = pc]
      /\ UNCHANGED <<authPc, local, handle>>
  BY DEF PollWaits, PollWorks, PollPosts, A!Leave, A!Tick, A!SaveToken, A!StoreToken,
         A!FinishFlow, A!PollReply, A!PollPending, A!PollReady, A!PollMalformed, A!PollPost,
         A!Goto, A!pollFrame, A!main, AuthSteps, Polls
<1>2. PICK pc \in AuthSteps : ppc' = [ppc EXCEPT ![f] = pc]
  BY <1>1
<1>3. ppc' \in [A!Flows -> AuthSteps] /\ \A g \in A!Flows \ {f} : ppc'[g] = ppc[g]
  BY <1>2 DEF Inv, PollInv
<1>4. UNCHANGED <<mainPc, updating, polling, srVars, executorVars>>
  BY DEF PollWaits, PollWorks, PollPosts, Touch, authFrame, hostFrame, lifeFrame
<1> QED
  BY <1>1, <1>3, <1>4 DEF Polls

LEMMA PollsInv ==
  ASSUME Inv, NEW f \in A!Flows, PollWaits(f) \/ PollWorks(f) \/ PollPosts(f)
  PROVE  Inv'
<1>1. UNCHANGED <<authPc, local, handle, mainPc, updating, polling, srVars, executorVars>>
  BY PollStep
<1>2. ExecutorInv'
  BY <1>1 DEF srVars, executorVars, Inv, ExecutorInv, UpdateRuns
<1>3. PollInv'
  BY <1>1, PollStep DEF Inv, PollInv
<1>4. FaultInv'
  <2>1. CASE ConditionGone /\ PollWaits(f)
    <3>1. mainPc \in Unloaded \ {"condition"} /\ mainPc \in Unloading /\ mainPc \in Exited
      BY <2>1, PastSteps DEF Exited, Unloading, Unloaded, WithoutClient
    <3>2. f \in polling /\ f = handle
      BY <3>1, PollStep DEF Inv, PollInv
    <3> QED
      BY <1>1, <3>1, <3>2 DEF FaultInv
  <2>2. CASE ~(ConditionGone /\ PollWaits(f))
    <3>1. fault' = fault
      BY <2>2 DEF PollWaits, PollWorks, PollPosts, Touch, hostFrame, lifeFrame
    <3> QED
      BY <1>1, <3>1 DEF Inv, FaultInv
  <2> QED
    BY <2>1, <2>2
<1> QED
  BY <1>1, <1>2, <1>3, <1>4 DEF Inv

LEMMA RaceInv == ASSUME Inv, Race \/ WriteLine PROVE Inv'
<1>1. UNCHANGED <<ppc, authPc, local, handle, srVars, executorVars, lifeFrame>>
  BY DEF Race, WriteLine, A!DataRace, A!main, A!poll, A!flow, authVars, authFrame, hostFrame
<1> QED
  BY <1>1 DEF srVars, executorVars, lifeFrame, Inv, ExecutorInv, PollInv, FaultInv, UpdateRuns,
              Polls

-----------------------------------------------------------------------------
(* The destructors.                                                        *)

LEMMA BeginUnloadInv ==
  ASSUME Inv, BeginUnload
  PROVE  Inv'
<1> USE DEF Places, Constructing, Exited, Unloading, Unloaded, WithoutClient
<1>1. /\ mainPc = "exited" /\ mainPc' = "srMembers" /\ fault' = fault
      /\ cancelled' = cancelled \cup {"update"} /\ UNCHANGED <<authVars, srVars, stage, life>>
      /\ updating' = UpdateRuns /\ polling' = {f \in A!Flows : Polls(f)}
  BY DEF BeginUnload, Goto, CancelUpdate, E!Cancel
<1>2. fault = "none"
  BY <1>1 DEF Inv, FaultInv
<1>3. ExecutorInv'
  BY <1>1 DEF srVars, Inv, ExecutorInv, UpdateRuns
<1>4. PollInv'
  BY <1>1 DEF authVars, Inv, PollInv, Polls
<1>5. FaultInv'
  BY <1>1, <1>2 DEF FaultInv
<1> QED
  BY <1>1, <1>3, <1>4, <1>5 DEF Inv

LEMMA DestructsInv ==
  ASSUME Inv, Destructs
  PROVE  Inv'
<1> USE DEF Places, Constructing, Exited, Unloading, Unloaded, WithoutClient
<1>0. UNCHANGED <<fault, updating, polling, srVars, stage, cancelled, ppc, authPc, local, handle>>
  BY DEF Destructs, DestroySrMembers, StopExecutor, JoinWorker, DestroyCondition, StopPolling,
         JoinPolling, DestroyClient, SealLogger, CloseLogger, Goto, unloadFrame, authVars,
         executorVars, E!Stop, E!Leave
<1>1. /\ mainPc \in Unloading /\ mainPc' \in Unloading \ {"srMembers"}
      /\ mainPc \in Unloaded => mainPc' \in Unloaded \ {"condition"}
      /\ mainPc \in {"client"} \cup WithoutClient => mainPc' \in WithoutClient
      /\ mainPc' \in {"client"} \cup WithoutClient =>
           mainPc \in {"client"} \cup WithoutClient \/ (mainPc = "joinPolling" /\ JoinPolling)
  BY DEF Destructs, DestroySrMembers, StopExecutor, JoinWorker, DestroyCondition, StopPolling,
         JoinPolling, DestroyClient, SealLogger, CloseLogger, Goto, unloadFrame
<1>2. ExecutorInv'
  <2>1. CASE JoinWorker
    <3>1. life' = "gone" /\ ~UpdateRuns
      BY <2>1 DEF JoinWorker, E!Leave, E!Idle, UpdateRuns
    <3> QED
      BY <1>0, <1>1, <3>1 DEF srVars, Inv, ExecutorInv, UpdateRuns
  <2>2. CASE StopExecutor
    <3>1. life' = "stopping" /\ mainPc' = "joinWorker"
      BY <2>2 DEF StopExecutor, E!Stop, Goto
    <3> QED
      BY <1>0, <1>1, <3>1 DEF srVars, Inv, ExecutorInv, UpdateRuns
  <2>3. CASE ~JoinWorker /\ ~StopExecutor
    <3>1. life' = life /\ (mainPc' \in Unloaded => mainPc \in Unloaded)
      BY <2>3 DEF Destructs, DestroySrMembers, DestroyCondition, StopPolling, JoinPolling,
                  DestroyClient, SealLogger, CloseLogger, Goto, executorVars
    <3> QED
      BY <1>0, <1>1, <3>1 DEF srVars, Inv, ExecutorInv, UpdateRuns
  <2> QED
    BY <2>1, <2>2, <2>3
<1>3. PollInv'
  <2>1. ASSUME mainPc' \in {"client"} \cup WithoutClient PROVE \A f \in A!Flows : ~Polls(f)
    <3>1. CASE JoinPolling
      <4>1. \A f \in A!Flows : f # A!None
        BY DEF A!Flows, A!None
      <4>2. \A f \in A!Flows : Polls(f) => f = handle
        BY <1>1 DEF Inv, PollInv
      <4> QED
        BY <3>1, <4>1, <4>2 DEF JoinPolling, A!OldThreadGone, Polls
    <3>2. CASE ~JoinPolling
      BY <1>1, <2>1, <3>2 DEF Inv, PollInv
    <3> QED
      BY <3>1, <3>2
  <2> QED
    BY <1>0, <1>1, <2>1 DEF Inv, PollInv, Polls
<1>4. FaultInv'
  BY <1>0, <1>1 DEF Inv, FaultInv
<1> QED
  BY <1>1, <1>2, <1>3, <1>4 DEF Inv

LEMMA InvIsInvariant == Spec => []Inv
<1>1. Inv /\ [Next]_vars => Inv'
  <2>1. ASSUME Inv, UNCHANGED vars PROVE Inv'
    BY <2>1 DEF vars, authVars, srVars, executorVars, Inv, ExecutorInv, PollInv, FaultInv,
                UpdateRuns, Polls
  <2> QED
    BY <2>1, CallbackInv, ConstructsInv, WorkerInv, PollsInv, RaceInv, BeginUnloadInv, DestructsInv
    DEF Next, Main
<1> QED
  BY <1>1, InitInv, PTL DEF Spec

-----------------------------------------------------------------------------
\* Nothing but an update or a poll that was under way at the unload can meet a
\* destroyed member, for any number of flows.
THEOREM FaultsAreKnown == Spec => []FaultIsKnown
<1>1. Inv => FaultIsKnown
  BY PastSteps DEF Inv, FaultInv, FaultIsKnown
<1> QED
  BY <1>1, InvIsInvariant, PTL

\* When the client is destroyed no thread of the plugin is at work any more.
THEOREM ClientIsLast == Spec => []ClientOutlivesRequests
<1>1. Inv => ClientOutlivesRequests
  BY PastSteps DEF Inv, ExecutorInv, PollInv, Unloaded, WithoutClient, ClientOutlivesRequests,
                   UpdateRuns
<1> QED
  BY <1>1, InvIsInvariant, PTL

-----------------------------------------------------------------------------
(* AuthService inside the plugin: it keeps its own invariant until its     *)
(* destructor tells the polling thread to stop, and its types for ever.    *)

Stopped == {"joinPolling", "client"} \cup WithoutClient

AuthInv == A!TypeOK /\ (mainPc \notin Stopped => AP!Inv)

LEMMA SameTypeOK == (AP!TypeOK => A!TypeOK) /\ (AP!TypeOK' => A!TypeOK')
  BY DEF A!TypeOK, AP!TypeOK, A!Tokens, AP!Tokens, A!Flows, AP!Flows, A!None, AP!None,
         A!EarlierToken, AP!EarlierToken

LEMMA AuthInit == Init => AuthInv
<1>1. A!Init => AP!Init
  BY DEF A!Init, AP!Init, A!None, AP!None, A!EarlierToken, AP!EarlierToken, A!Flows, AP!Flows
<1>2. AP!Init => AP!Inv
  BY AP!InitInv, PartsAssumption
<1>3. AP!Inv => A!TypeOK
  BY SameTypeOK DEF AP!Inv
<1> QED
  BY <1>1, <1>2, <1>3 DEF Init, AuthInv

MainAuth ==
  \/ A!ReadDeviceToken \/ A!CommandStart \/ A!MainProceeds \/ A!StartPost \/ A!StartReply
  \/ A!IntrospectionReply \/ A!DataRace
PollAuth(f) ==
  \/ A!Leave(f) \/ A!Tick(f) \/ A!SaveToken(f) \/ A!StoreToken(f) \/ A!FinishFlow(f)
  \/ A!PollPost(f) \/ A!PollReply(f)

LEMMA MainAuthKeeps == ASSUME AP!Inv, ~crashed, MainAuth PROVE AP!Inv'
<1> USE DEF A!poll, AP!poll, A!flow, AP!flow, A!history, AP!history, A!main, AP!main,
            A!None, AP!None, A!Flows, AP!Flows, A!statusFrame, AP!statusFrame,
            A!startFrame, AP!startFrame, A!ThrowToHost, AP!ThrowToHost
<1>1. A!ReadDeviceToken => AP!ReadDeviceToken
  BY DEF A!ReadDeviceToken, AP!ReadDeviceToken, A!GetDeviceToken, AP!GetDeviceToken
<1>2. A!CommandStart => AP!CommandStart
  BY DEF A!CommandStart, AP!CommandStart
<1>3. A!AssignToken \/ A!TestToken => AP!AssignToken \/ AP!TestToken
  BY DEF A!AssignToken, AP!AssignToken, A!TestToken, AP!TestToken
<1>4. A!CheckDto \/ A!OpenUrl => AP!CheckDto \/ AP!OpenUrl
  BY DEF A!CheckDto, AP!CheckDto, A!OpenUrl, AP!OpenUrl
<1>5. A!Spawn => AP!Spawn
  BY DEF A!Spawn, AP!Spawn
<1>6. A!AssignThread \/ A!JoinThread => AP!AssignThread \/ AP!JoinThread
  BY DEF A!AssignThread, AP!AssignThread, A!WithStop, AP!WithStop,
         A!JoinThread, AP!JoinThread, A!OldThreadGone, AP!OldThreadGone
<1>7. A!StartPost => AP!StartPost
  BY DEF A!StartPost, AP!StartPost, A!PostFree, AP!PostFree
<1>8. A!StartReply => AP!StartReply
  BY DEF A!StartReply, AP!StartReply, A!StartRefused, AP!StartRefused,
         A!StartMalformed, AP!StartMalformed, A!StartGranted, AP!StartGranted
<1>9. A!IntrospectionReply => AP!IntrospectionReply
  BY DEF A!IntrospectionReply, AP!IntrospectionReply, A!IntrospectionActive,
         AP!IntrospectionActive, A!IntrospectionRejects, AP!IntrospectionRejects,
         A!ResetToken, AP!ResetToken, A!IntrospectionMalformed, AP!IntrospectionMalformed
<1>10. A!DataRace => AP!DataRace
  BY DEF A!DataRace, AP!DataRace
<1>11. A!MainProceeds => AP!MainProceeds
  BY <1>3, <1>4, <1>5, <1>6 DEF A!MainProceeds, AP!MainProceeds
<1>12. \/ AP!ReadDeviceToken \/ AP!CommandStart \/ AP!MainProceeds \/ AP!StartPost
       \/ AP!StartReply \/ AP!IntrospectionReply \/ AP!DataRace
  BY <1>1, <1>2, <1>7, <1>8, <1>9, <1>10, <1>11 DEF MainAuth
<1> QED
  BY <1>12, AP!MainStepInv, PartsAssumption

LEMMA PollAuthKeeps ==
  ASSUME AP!Inv, NEW f \in A!Flows, PollAuth(f)
  PROVE  AP!Inv'
<1> USE DEF A!pollFrame, AP!pollFrame, A!main, AP!main, A!Goto, AP!Goto, A!None, AP!None,
            A!Flows, AP!Flows
<1>1. A!Leave(f) => AP!Leave(f)
  BY DEF A!Leave, AP!Leave
<1>2. A!Tick(f) => AP!Tick(f)
  BY DEF A!Tick, AP!Tick
<1>3. A!SaveToken(f) => AP!SaveToken(f)
  BY DEF A!SaveToken, AP!SaveToken
<1>4. A!StoreToken(f) => AP!StoreToken(f)
  BY DEF A!StoreToken, AP!StoreToken
<1>5. A!FinishFlow(f) => AP!FinishFlow(f)
  BY DEF A!FinishFlow, AP!FinishFlow, A!ResetDto, AP!ResetDto
<1>6. A!PollPost(f) => AP!PollPost(f)
  BY DEF A!PollPost, AP!PollPost, A!PostFree, AP!PostFree
<1>7. A!PollReply(f) => AP!PollReply(f)
  BY DEF A!PollReply, AP!PollReply, A!PollPending, AP!PollPending, A!PollReady, AP!PollReady,
         A!PollMalformed, AP!PollMalformed
<1>8. f \in AP!Flows /\ AP!PollStep(f)
  BY <1>1, <1>2, <1>3, <1>4, <1>5, <1>6, <1>7 DEF PollAuth, AP!PollStep, AP!PollProceeds
<1> QED
  BY <1>8, AP!PollStepInv, PartsAssumption

LEMMA AuthTypesKept ==
  ASSUME A!TypeOK,
         A!DataRace \/ \E f \in A!Flows : PollAuth(f)
  PROVE  A!TypeOK'
<1>1. CASE A!DataRace
  BY <1>1 DEF A!DataRace, A!TypeOK, A!main, A!poll, A!flow, A!history
<1>2. ASSUME NEW f \in A!Flows, PollAuth(f) PROVE A!TypeOK'
  <2>0. f \in A!Tokens /\ f \in A!Flows \cup {A!EarlierToken} /\ A!TypeOK
    BY DEF A!Tokens
  <2>1. UNCHANGED <<authPc, local, stopReq, handle, result, issued, parsed, unparsed>>
    BY <1>2 DEF PollAuth, A!Leave, A!Tick, A!SaveToken, A!StoreToken, A!FinishFlow, A!PollPost,
                A!PollReply, A!PollPending, A!PollReady, A!PollMalformed, A!pollFrame, A!main
  <2>2. ppc' \in [A!Flows -> AuthSteps]
    <3>1. \E pc \in AuthSteps : ppc' = [ppc EXCEPT ![f] = pc]
      BY <1>2 DEF PollAuth, A!Leave, A!Tick, A!SaveToken, A!StoreToken, A!FinishFlow, A!PollPost,
                  A!PollReply, A!PollPending, A!PollReady, A!PollMalformed, A!Goto, AuthSteps
    <3> QED
      BY <3>1 DEF A!TypeOK, AuthSteps
  <2>3. /\ token' \in {token, f} /\ device' \in {device, f} /\ startDto' \in {startDto, A!None}
        /\ vouched' \in {vouched, vouched \cup {f}} /\ crashed' \in {crashed, TRUE}
    BY <1>2 DEF PollAuth, A!Leave, A!Tick, A!SaveToken, A!StoreToken, A!FinishFlow, A!PollPost,
                A!PollReply, A!PollPending, A!PollReady, A!PollMalformed, A!ResetDto
  <2>4. /\ token' \in A!Tokens /\ device' \in A!Tokens
        /\ startDto' \in A!Flows \cup {A!None}
    BY <2>0, <2>3 DEF A!TypeOK
  <2>5. vouched' \subseteq A!Flows \cup {A!EarlierToken}
    BY <2>0, <2>3 DEF A!TypeOK
  <2>6. crashed' \in BOOLEAN
    BY <2>0, <2>3 DEF A!TypeOK
  <2> QED
    BY <2>0, <2>1, <2>2, <2>4, <2>5, <2>6 DEF A!TypeOK, AuthSteps
<1> QED
  BY <1>1, <1>2

\* The steps of the plugin that reach into AuthService.
LEMMA AuthIsReached ==
  ASSUME Inv, AuthInv, Next, ~(UNCHANGED authVars)
  PROVE  \/ MainAuth /\ mainPc' = mainPc /\ (A!DataRace \/ mainPc \notin Stopped)
         \/ (\E f \in A!Flows : PollAuth(f)) /\ mainPc' = mainPc
         \/ StopPolling
<1>1. CASE OnCompileCommand \/ AuthProceeds \/ AuthPosts
  <2>1. MainAuth /\ mainPc' = mainPc
    BY <1>1 DEF OnCompileCommand, AuthProceeds, AuthPosts, hostFrame, lifeFrame, MainAuth
  <2>2. mainPc \notin Stopped
    <3>1. CASE OnCompileCommand
      BY <3>1 DEF OnCompileCommand, MainIdle, Stopped, WithoutClient
    <3>2. CASE AuthProceeds \/ AuthPosts
      <4>1. authPc # "idle"
        BY <3>2
        DEF AuthProceeds, AuthPosts, A!MainProceeds, A!AssignToken, A!TestToken, A!CheckDto,
            A!OpenUrl, A!Spawn, A!AssignThread, A!JoinThread, A!IntrospectionReply,
            A!IntrospectionActive, A!IntrospectionRejects, A!IntrospectionMalformed,
            A!StartReply, A!StartRefused, A!StartMalformed, A!StartGranted, A!StartPost
      <4> QED
        BY <4>1 DEF Inv, PollInv, Exited, Unloading, Unloaded, WithoutClient, Stopped
    <3> QED
      BY <1>1, <3>1, <3>2
  <2> QED
    BY <2>1, <2>2
<1>2. CASE \E f \in A!Flows : PollWaits(f) \/ PollWorks(f) \/ PollPosts(f)
  BY <1>2 DEF PollWaits, PollWorks, PollPosts, PollAuth, Touch, hostFrame, lifeFrame
<1>3. CASE Race \/ WriteLine
  BY <1>3 DEF Race, WriteLine, hostFrame, lifeFrame, MainAuth
<1>4. CASE Constructs \/ EuroScopePlugInExit \/ BeginUnload
  BY <1>4 DEF Constructs, InitLogger, InitAuth, InitSr, FirstAirports, srFrame, EuroScopePlugInExit,
              BeginUnload
<1>5. CASE Destructs
  BY <1>5 DEF Destructs, DestroySrMembers, StopExecutor, JoinWorker, DestroyCondition,
              JoinPolling, DestroyClient, SealLogger, CloseLogger
<1>6. CASE Worker
  BY <1>6 DEF Worker, ChooseUpdate, DropUpdate, BeginUpdate, GoOnWithUpdate, EndUpdate, srFrame
<1>7. CASE OnAirportRunwayActivityChanged \/ TakeAirports
  BY <1>7 DEF OnAirportRunwayActivityChanged, TakeAirports, srFrame
<1> QED
  BY <1>1, <1>2, <1>3, <1>4, <1>5, <1>6, <1>7 DEF Next, Main

LEMMA AuthStep ==
  ASSUME Inv, AuthInv, Next
  PROVE  AuthInv'
<1>1. CASE UNCHANGED authVars
  <2>1. AP!Inv /\ ~(mainPc \in Stopped) => AP!Inv'
    <3>1. UNCHANGED AP!vars
      BY <1>1 DEF authVars, AP!vars, AP!main, AP!poll, AP!flow, AP!history
    <3> QED
      BY <3>1, AP!StutterInv, PartsAssumption
  <2>2. A!TypeOK'
    BY <1>1 DEF authVars, AuthInv, A!TypeOK
  <2>3. mainPc \in Stopped => mainPc' \in Stopped
    <3>1. CASE Constructs \/ EuroScopePlugInExit \/ BeginUnload
      BY <3>1 DEF Constructs, InitLogger, InitAuth, InitSr, FirstAirports, EuroScopePlugInExit,
                  BeginUnload,
                  MainIdle, Stopped, WithoutClient
    <3>2. CASE Destructs
      BY <3>2 DEF Destructs, DestroySrMembers, StopExecutor, JoinWorker, DestroyCondition,
                  StopPolling, JoinPolling, DestroyClient, SealLogger, CloseLogger, Goto,
                  unloadFrame, Stopped, WithoutClient
    <3>3. CASE AuthProceeds \/ AuthPosts \/ TakeAirports \/ OnCompileCommand
                 \/ OnAirportRunwayActivityChanged \/ Race \/ WriteLine
      BY <3>3 DEF AuthProceeds, AuthPosts, TakeAirports, OnCompileCommand,
                  OnAirportRunwayActivityChanged, Race, WriteLine, hostFrame, lifeFrame
    <3>4. CASE Worker
      BY <3>4 DEF Worker, ChooseUpdate, DropUpdate, BeginUpdate, GoOnWithUpdate, EndUpdate, Touch,
                  hostFrame, lifeFrame
    <3>5. CASE \E f \in A!Flows : PollWaits(f) \/ PollWorks(f) \/ PollPosts(f)
      BY <3>5 DEF PollWaits, PollWorks, PollPosts, Touch, hostFrame, lifeFrame
    <3> QED
      BY <3>1, <3>2, <3>3, <3>4, <3>5 DEF Next, Main
  <2> QED
    BY <2>1, <2>2, <2>3 DEF AuthInv
<1>2. CASE MainAuth /\ mainPc' = mainPc /\ (A!DataRace \/ mainPc \notin Stopped)
  <2>1. ~crashed
    BY DEF Next, Dead
  <2>2. mainPc \notin Stopped => AP!Inv'
    BY <1>2, <2>1, MainAuthKeeps DEF AuthInv
  <2>3. AP!Inv' => A!TypeOK'
    BY SameTypeOK DEF AP!Inv
  <2>4. mainPc \in Stopped => A!TypeOK'
    BY <1>2, AuthTypesKept DEF AuthInv
  <2> QED
    BY <1>2, <2>2, <2>3, <2>4 DEF AuthInv
<1>3. CASE (\E f \in A!Flows : PollAuth(f)) /\ mainPc' = mainPc
  BY <1>3, AuthTypesKept, PollAuthKeeps DEF AuthInv
<1>4. CASE StopPolling
  <2>1. /\ mainPc' \in Stopped /\ stopReq' = stopReq \cup ({handle} \ {A!None})
        /\ UNCHANGED <<token, startDto, device, handle, ppc, authPc, local, result, crashed,
                       issued, parsed, vouched, unparsed>>
    BY <1>4 DEF StopPolling, Goto, Stopped, WithoutClient, A!WithStop
  <2> QED
    BY <2>1 DEF AuthInv, A!TypeOK
<1> QED
  BY <1>1, <1>2, <1>3, <1>4, AuthIsReached

-----------------------------------------------------------------------------
(* The types of the plugin's own variables.                                *)

LogTypes ==
  /\ sent \in 0..MaxLogs /\ delivered \in Seq(1..MaxLogs) /\ Len(delivered) <= sent
  /\ logger \in {"open", "sealed", "closed", "broken"}

HostTypes ==
  /\ E!TypeOK /\ LogTypes
  /\ runwayPc \in {"idle", "lock"} /\ wpc \in {"idle", "lock", "ask"}
  /\ \A w \in DOMAIN commands : commands[w] = "AuthService"
  /\ fault \in {"none", "touched", "crashed"}
  /\ updating \in BOOLEAN /\ polling \subseteq A!Flows

LEMMA HostTypesInit == Init => HostTypes
<1> SUFFICES ASSUME Init PROVE HostTypes
  OBVIOUS
<1>1. E!TypeOK
  BY DEF Init, E!Init, E!TypeOK, E!Stages
<1>2. DOMAIN commands = {}
  BY DEF Init
<1>3. LogTypes
  BY PartsAssumption DEF Init, L!Init, LogTypes
<1> QED
  BY <1>1, <1>2, <1>3 DEF Init, S!Init, HostTypes

\* The logger's share of a step.
LogStep == Log \/ L!Deliver \/ L!Break \/ L!Seal \/ L!Close \/ UNCHANGED logVars

LEMMA LogStepTypes == ASSUME LogTypes, LogStep PROVE LogTypes'
<1> USE PartsAssumption DEF LogTypes
<1>1. CASE L!Deliver
  <2>1. /\ delivered' = Append(delivered, Len(delivered) + 1) /\ UNCHANGED <<sent, logger>>
        /\ Len(delivered) < sent
    BY <1>1 DEF L!Deliver
  <2>2. Len(delivered) \in Nat /\ Len(delivered) + 1 \in 1..MaxLogs
    BY <2>1
  <2>3. delivered' \in Seq(1..MaxLogs) /\ Len(delivered') = Len(delivered) + 1
    BY <2>1, <2>2
  <2> QED
    BY <2>1, <2>2, <2>3
<1>2. CASE Log
  <2>1. CASE L!Send /\ sent < MaxLogs
    <3>1. sent' = sent + 1 /\ UNCHANGED <<delivered, logger>>
      BY <2>1 DEF L!Send
    <3>2. Len(delivered) \in Nat
      OBVIOUS
    <3> QED
      BY <2>1, <3>1, <3>2
  <2> QED
    BY <1>2, <2>1 DEF Log, logVars
<1>3. CASE L!Break \/ L!Seal \/ L!Close \/ UNCHANGED logVars
  BY <1>3 DEF L!Break, L!Seal, L!Close, logVars
<1> QED
  BY <1>1, <1>2, <1>3 DEF LogStep

\* Every step of the plugin is one of these for the logger.
LEMMA LogIsReached == ASSUME Next PROVE LogStep
<1> USE DEF LogStep
<1>1. CASE OnCompileCommand \/ AuthProceeds \/ AuthPosts \/ Race \/ WriteLine \/ TakeAirports
             \/ OnAirportRunwayActivityChanged \/ EuroScopePlugInExit \/ BeginUnload
  BY <1>1 DEF OnCompileCommand, AuthProceeds, AuthPosts, Race, WriteLine, TakeAirports,
              OnAirportRunwayActivityChanged, EuroScopePlugInExit, BeginUnload, hostFrame
<1>2. CASE \E f \in A!Flows : PollWaits(f) \/ PollWorks(f) \/ PollPosts(f)
  BY <1>2 DEF PollWaits, PollWorks, PollPosts, hostFrame
<1>3. CASE Constructs
  BY <1>3 DEF Constructs, InitLogger, InitAuth, InitSr, FirstAirports
<1>4. CASE Destructs
  BY <1>4 DEF Destructs, DestroySrMembers, StopExecutor, JoinWorker, DestroyCondition, StopPolling,
              JoinPolling, DestroyClient, SealLogger, CloseLogger, unloadFrame
<1>5. CASE Worker
  BY <1>5 DEF Worker, ChooseUpdate, DropUpdate, BeginUpdate, GoOnWithUpdate, EndUpdate, hostFrame
<1> QED
  BY <1>1, <1>2, <1>3, <1>4, <1>5 DEF Next, Main

LEMMA HostTypesStep ==
  ASSUME HostTypes, Next
  PROVE  HostTypes'
<1>0. LogTypes'
  BY LogIsReached, LogStepTypes DEF HostTypes
<1> USE <1>0 DEF HostTypes, E!TypeOK
<1>1. CASE OnCompileCommand \/ AuthProceeds \/ AuthPosts \/ Race \/ WriteLine
  BY <1>1 DEF OnCompileCommand, AuthProceeds, AuthPosts, Race, WriteLine, authFrame, hostFrame,
              lifeFrame, srVars,
              executorVars
<1>2. CASE \E f \in A!Flows : PollWaits(f) \/ PollWorks(f) \/ PollPosts(f)
  BY <1>2 DEF PollWaits, PollWorks, PollPosts, Touch, authFrame, hostFrame, lifeFrame, srVars,
              executorVars
<1>3. CASE InitLogger \/ InitAuth
  BY <1>3 DEF InitLogger, InitAuth, RegisterModuleOnCompileCommand, srVars, executorVars
<1>4. CASE InitSr
  BY <1>4 DEF InitSr, E!Post, E!Move, E!Stages, srVars
<1>5. CASE FirstAirports \/ OnAirportRunwayActivityChanged \/ TakeAirports
  BY <1>5 DEF FirstAirports, OnAirportRunwayActivityChanged, TakeAirports, S!worker,
              S!RunwayActivityChanged, S!OnActiveAirportsChange, srFrame, hostFrame, lifeFrame,
              executorVars
<1>6. CASE EuroScopePlugInExit
  BY <1>6 DEF EuroScopePlugInExit, srVars, executorVars
<1>7. CASE BeginUnload
  BY <1>7 DEF BeginUnload, CancelUpdate, E!Cancel, Goto, UpdateRuns, srVars
<1>8. CASE Destructs
  BY <1>8 DEF Destructs, DestroySrMembers, StopExecutor, JoinWorker, DestroyCondition, StopPolling,
              JoinPolling, DestroyClient, SealLogger, CloseLogger, Goto, unloadFrame, E!Stop,
              E!Leave, srVars, executorVars
<1>9. CASE Worker
  BY <1>9 DEF Worker, ChooseUpdate, DropUpdate, BeginUpdate, GoOnWithUpdate, EndUpdate, Touch,
              hostFrame, lifeFrame, srFrame, srVars, executorVars, E!Choose, E!Drop, E!Begin,
              E!End, E!Move,
              E!Stages, S!StartUpdate, S!LockAirports, S!ReplyRequests, S!ReplyFailed, S!Publish,
              S!ReplyMalformed, S!updateFrame, S!main
<1> QED
  BY <1>1, <1>2, <1>3, <1>4, <1>5, <1>6, <1>7, <1>8, <1>9 DEF Next, Main, Constructs

LEMMA TypesAreInvariant == Spec => [](Inv /\ AuthInv /\ HostTypes)
<1>1. Init => AuthInv /\ HostTypes
  BY AuthInit, HostTypesInit
<1>2. Inv /\ AuthInv /\ HostTypes /\ [Next]_vars => AuthInv' /\ HostTypes'
  <2>1. ASSUME AuthInv, HostTypes, UNCHANGED vars PROVE AuthInv' /\ HostTypes'
    <3>1. UNCHANGED AP!vars
      BY <2>1 DEF vars, authVars, AP!vars, AP!main, AP!poll, AP!flow, AP!history
    <3>2. AP!Inv => AP!Inv'
      BY <3>1, AP!StutterInv, PartsAssumption
    <3>3. AuthInv'
      BY <2>1, <3>2 DEF vars, authVars, AuthInv, A!TypeOK
    <3> QED
      BY <2>1, <3>3 DEF vars, srVars, executorVars, logVars, HostTypes, LogTypes, E!TypeOK
  <2> QED
    BY <2>1, AuthStep, HostTypesStep
<1> QED
  BY <1>1, <1>2, InvIsInvariant, PTL DEF Spec

-----------------------------------------------------------------------------
(* SilentRequests inside the plugin: nothing else moves its variables.     *)

UpdateSteps ==
  S!StartUpdate \/ S!LockAirports \/ S!ReplyRequests \/ S!ReplyFailed \/ S!ReplyMalformed
    \/ S!Publish

LEMMA RequestsAreReached ==
  ASSUME Next, ~(UNCHANGED srVars)
  PROVE  S!RunwayActivityChanged \/ S!OnActiveAirportsChange \/ UpdateSteps
<1>1. CASE OnCompileCommand \/ AuthProceeds \/ AuthPosts \/ Race \/ WriteLine
  BY <1>1 DEF OnCompileCommand, AuthProceeds, AuthPosts, Race, WriteLine, authFrame
<1>2. CASE \E f \in A!Flows : PollWaits(f) \/ PollWorks(f) \/ PollPosts(f)
  BY <1>2 DEF PollWaits, PollWorks, PollPosts, authFrame
<1>3. CASE InitLogger \/ InitAuth \/ InitSr \/ EuroScopePlugInExit \/ BeginUnload \/ Destructs
  BY <1>3 DEF InitLogger, InitAuth, InitSr, EuroScopePlugInExit, BeginUnload, Destructs,
              DestroySrMembers,
              StopExecutor, JoinWorker, DestroyCondition, StopPolling, JoinPolling, DestroyClient,
              SealLogger, CloseLogger
<1>4. CASE FirstAirports \/ OnAirportRunwayActivityChanged \/ TakeAirports
  BY <1>4 DEF FirstAirports, OnAirportRunwayActivityChanged, TakeAirports
<1>5. CASE Worker
  BY <1>5 DEF Worker, ChooseUpdate, DropUpdate, BeginUpdate, GoOnWithUpdate, EndUpdate, UpdateSteps
<1> QED
  BY <1>1, <1>2, <1>3, <1>4, <1>5 DEF Next, Main, Constructs

LEMMA SrImplements == Spec => SP!Spec
<1>1. Init => SP!Init
  BY DEF Init, S!Init, SP!Init
<1>2. [Next]_vars => [SP!Next]_(SP!vars)
  <2>1. ASSUME UNCHANGED srVars PROVE UNCHANGED SP!vars
    BY <2>1 DEF srVars, SP!vars, SP!main, SP!worker
  <2>2. S!RunwayActivityChanged => SP!RunwayActivityChanged
    BY DEF S!RunwayActivityChanged, SP!RunwayActivityChanged, S!worker, SP!worker,
           S!ActiveAirports, SP!ActiveAirports, S!AddNew, SP!AddNew, S!FindIcao, SP!FindIcao,
           S!Min, SP!Min, S!Contains, SP!Contains
  <2>3. S!OnActiveAirportsChange => SP!OnActiveAirportsChange
    BY DEF S!OnActiveAirportsChange, SP!OnActiveAirportsChange, S!worker, SP!worker,
           S!LockAndAssign, SP!LockAndAssign, S!AirportsFree, SP!AirportsFree
  <2>4. UpdateSteps => SP!Update
    <3> USE DEF S!updateFrame, SP!updateFrame, S!main, SP!main, S!MoreAirports, SP!MoreAirports,
                S!Asked, SP!Asked, SP!Update, SP!Reply
    <3>1. S!StartUpdate => SP!StartUpdate
      BY DEF S!StartUpdate, SP!StartUpdate
    <3>2. S!LockAirports => SP!LockAirports
      BY DEF S!LockAirports, SP!LockAirports, S!NewRound, SP!NewRound
    <3>3. S!ReplyRequests => SP!ReplyRequests
      BY DEF S!ReplyRequests, SP!ReplyRequests, S!Emplace, SP!Emplace
    <3>4. S!ReplyFailed => SP!ReplyFailed
      BY DEF S!ReplyFailed, SP!ReplyFailed
    <3>5. S!ReplyMalformed => SP!ReplyMalformed
      BY DEF S!ReplyMalformed, SP!ReplyMalformed
    <3>6. S!Publish => SP!Publish
      BY DEF S!Publish, SP!Publish
    <3> QED
      BY <3>1, <3>2, <3>3, <3>4, <3>5, <3>6 DEF UpdateSteps
  <2>5. UNCHANGED vars => UNCHANGED srVars
    BY DEF vars
  <2> QED
    BY <2>1, <2>2, <2>3, <2>4, <2>5, RequestsAreReached DEF SP!Next
<1> QED
  BY <1>1, <1>2, PTL DEF Spec, SP!Spec

-----------------------------------------------------------------------------
\* Every variable of the plugin and of its parts keeps its type, for any number
\* of flows, any sector file and any lines entered.
THEOREM TypeCorrect == Spec => []TypeOK
<1>1. Inv /\ AuthInv /\ HostTypes => TypeOK
  BY StepsInOrder DEF Inv, Places, Constructing, Exited, Unloading, Unloaded, WithoutClient,
                      AuthInv, HostTypes, LogTypes,
                      TypeOK
<1> QED
  BY <1>1, TypesAreInvariant, PTL

\* Whatever the other parts do and whenever the plugin is unloaded, only the
\* thread of the last flow started runs.
THEOREM OnlyOnePoller == Spec => []A!OnePoller
<1>1. Inv => A!OnePoller
  BY DEF Inv, PollInv, A!OnePoller, A!Running, Polls
<1> QED
  BY <1>1, InvIsInvariant, PTL

\* What AuthService keeps on its own about the start DTO and m_token it keeps in
\* the plugin, until its destructor stops the polling thread.
THEOREM AuthKeepsItsWord ==
  Spec => [](~Past("stopPolling") => A!PendingMeansPolling /\ A!OnlyVouchedTokens)
<1>1. AP!Inv => AP!PendingMeansPolling /\ AP!OnlyVouchedTokens
  BY DEF AP!Inv, AP!TypeOK, AP!ThreadInv, AP!TokenInv, AP!Opening, AP!PendingMeansPolling,
         AP!OnlyVouchedTokens
<1>2. AP!PendingMeansPolling /\ AP!OnlyVouchedTokens
        => A!PendingMeansPolling /\ A!OnlyVouchedTokens
  BY DEF AP!PendingMeansPolling, AP!OnlyVouchedTokens, A!PendingMeansPolling,
         A!OnlyVouchedTokens, A!None, AP!None, A!Running, AP!Running
<1>3. mainPc \in Stopped => Past("stopPolling")
  BY PastSteps DEF Stopped
<1>4. AuthInv => (~Past("stopPolling") => A!PendingMeansPolling /\ A!OnlyVouchedTokens)
  BY <1>1, <1>2, <1>3 DEF AuthInv
<1> QED
  BY <1>4, TypesAreInvariant, PTL

\* Inside the plugin too, logins, commands and destructors included, what a round
\* of update() publishes is what the airports active in it have answered.
THEOREM RoundsPublishAnswers == Spec => S!PublishesFirstAnswers
<1>1. SP!Spec => SP!PublishesFirstAnswers
  BY SP!RoundsPublishAnswers, PartsAssumption
<1>2. SP!PublishesFirstAnswers => S!PublishesFirstAnswers
  BY DEF SP!PublishesFirstAnswers, S!PublishesFirstAnswers, SP!vars, S!vars, SP!main, S!main,
         SP!worker, S!worker, SP!Min, S!Min, SP!Range, S!Range
<1> QED
  BY <1>1, <1>2, SrImplements

\* Inside the plugin too, no airport is asked about twice in a round.
THEOREM AirportsAskedOnce == Spec => []S!AskedOnce
<1>1. SP!Spec => []SP!AskedOnce
  BY SP!AirportsAskedOnce, PartsAssumption
<1>2. SP!AskedOnce => S!AskedOnce
  BY DEF SP!AskedOnce, S!AskedOnce, SP!IsInjective, S!IsInjective
<1> QED
  BY <1>1, <1>2, SrImplements, PTL
=============================================================================
