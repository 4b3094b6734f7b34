--------------------------- MODULE AuthServiceProofs ---------------------------
(***************************************************************************)
(* Proofs about AuthService, for any number of flows.  The theorems rest   *)
(* on three inductive invariants: where flows are in their life (FlowInv), *)
(* which of them has a thread (ThreadInv), where tokens come from          *)
(* (TokenInv).                                                             *)
(***************************************************************************)
EXTENDS AuthService, TLAPS

\* The main thread has opened a flow that m_pollingThread does not hold yet.
Opening == {"check", "open", "spawn", "assignThread", "join"}

\* Room for the flow about to be opened; the flow in hand is the last opened,
\* and neither it nor, outside of the join, the thread held is told to stop.
FlowInv ==
  /\ mpc \in {"start", "startPosting"} => issued < MaxFlows
  /\ mpc \in Opening => issued \in Flows /\ handle < issued /\ issued \notin stopReq
  /\ mpc \in {"spawn", "assignThread", "join"} => local = issued
  /\ startDto <= issued /\ handle <= issued
  /\ \A f \in stopReq : f <= issued
  /\ mpc # "join" => handle \notin stopReq

\* Which threads may run, and whose flow the start DTO is.
ThreadInv ==
  /\ \A f \in Flows : Running(f) => f = handle \/ (mpc \in {"assignThread", "join"} /\ f = issued)
  /\ startDto # None /\ ~crashed =>
       /\ mpc \in Opening => startDto = issued
       /\ mpc \in {"assignThread", "join"} => Running(startDto)
       /\ mpc \notin Opening => startDto = handle /\ Running(startDto)

\* A thread stores what the service handed it; m_token is in doubt only while
\* the main thread is finding out.
TokenInv ==
  /\ \A f \in Flows : ppc[f] \in {"save", "store"} => f \in vouched
  /\ mpc = "introspect" => local # None
  /\ token = None \/ token \in vouched \/ unparsed
       \/ mpc = "test" \/ (mpc = "introspect" /\ token = local)

Inv == TypeOK /\ FlowInv /\ ThreadInv /\ TokenInv

LEMMA InitInv == Init => Inv
<1> SUFFICES ASSUME Init PROVE Inv
  OBVIOUS
<1> USE FlowsAssumption DEF Init, None, Flows
<1>1. TypeOK
  <2>1. token \in Tokens /\ device \in Tokens /\ local \in Tokens
    BY DEF Tokens
  <2>2. issued \in 0..MaxFlows
    OBVIOUS
  <2> QED
    BY <2>1, <2>2 DEF TypeOK
<1>2. FlowInv
  BY DEF FlowInv, Opening
<1>3. ThreadInv
  BY DEF ThreadInv, Running
<1>4. TokenInv
  BY DEF TokenInv
<1> QED
  BY <1>1, <1>2, <1>3, <1>4 DEF Inv

-----------------------------------------------------------------------------
(* The steps of the polling threads.                                       *)

PollStep(f) == PollProceeds(f) \/ PollPost(f) \/ PollReply(f)

\* What all of them have in common.
LEMMA PollFrame ==
  ASSUME Inv, NEW f \in Flows, PollStep(f)
  PROVE  /\ UNCHANGED <<mpc, local, stopReq, handle, result, issued, parsed, unparsed>>
         /\ ppc[f] \notin {"none", "done"}
         /\ (ppc[f] = "wait" => f \notin stopReq) =>
              ppc'[f] # "done" \/ startDto' = None \/ crashed'
         /\ startDto' \in {startDto, None}
         /\ token' = token \/ (ppc[f] = "store" /\ token' = f)
         /\ device' \in {device, f}
         /\ vouched \subseteq vouched' /\ vouched' \subseteq vouched \cup {f}
         /\ crashed' \in BOOLEAN /\ (crashed => crashed')
         /\ \E pc \in {"wait", "post", "posting", "save", "store", "reset", "done"} :
              ppc' = [ppc EXCEPT ![f] = pc] /\ (pc = "save" => f \in vouched')
                       /\ (pc = "store" => ppc[f] = "save")
<1> USE DEF pollFrame, main, Goto, Inv, TypeOK
<1>1. CASE Leave(f)  BY <1>1 DEF Leave
<1>2. CASE Tick(f)  BY <1>2 DEF Tick
<1>3. CASE SaveToken(f)  BY <1>3 DEF SaveToken
<1>4. CASE StoreToken(f)  BY <1>4 DEF StoreToken
<1>5. CASE FinishFlow(f)  BY <1>5 DEF FinishFlow, ResetDto
<1>6. CASE PollPost(f)  BY <1>6 DEF PollPost
<1>7. CASE PollPending(f)  BY <1>7 DEF PollPending
<1>8. CASE PollReady(f)  BY <1>8 DEF PollReady
<1>9. CASE PollMalformed(f)  BY <1>9 DEF PollMalformed
<1> QED
  BY <1>1, <1>2, <1>3, <1>4, <1>5, <1>6, <1>7, <1>8, <1>9
  DEF PollStep, PollProceeds, PollReply

LEMMA PollStepInv ==
  ASSUME Inv, NEW f \in Flows, PollStep(f)
  PROVE  Inv'
<1>0. /\ TypeOK /\ FlowInv /\ ThreadInv /\ TokenInv
      /\ issued \in Nat /\ handle \in Nat /\ f \in Nat /\ f # None
  BY FlowsAssumption DEF Inv, TypeOK, Flows, None
<1>1. /\ UNCHANGED <<mpc, local, stopReq, handle, result, issued, parsed, unparsed>>
      /\ startDto' \in {startDto, None}
      /\ crashed' \in BOOLEAN /\ (crashed => crashed')
  BY PollFrame
<1>2. PICK pc \in {"wait", "post", "posting", "save", "store", "reset", "done"} :
        ppc' = [ppc EXCEPT ![f] = pc] /\ (pc = "save" => f \in vouched')
          /\ (pc = "store" => ppc[f] = "save")
  BY PollFrame
<1>3. /\ ppc'[f] = pc
      /\ \A g \in Flows \ {f} : ppc'[g] = ppc[g]
      /\ ppc' \in [Flows -> {"none", "wait", "post", "posting", "save", "store", "reset", "done"}]
  BY <1>0, <1>2 DEF TypeOK
<1>4. TypeOK'
  <2>1. /\ token' \in Tokens /\ device' \in Tokens
        /\ vouched' \subseteq Flows \cup {EarlierToken}
        /\ startDto' \in Flows \cup {None} /\ crashed' \in BOOLEAN
    <3>1. f \in Tokens /\ f \in Flows \cup {EarlierToken}
      BY DEF Tokens
    <3>2. token' \in {token, f} /\ device' \in {device, f}
      BY PollFrame
    <3>3. vouched' \subseteq vouched \cup {f}
      BY PollFrame
    <3> QED
      BY <1>0, <1>1, <3>1, <3>2, <3>3 DEF TypeOK
  <2> QED
    BY <1>0, <1>1, <1>3, <2>1 DEF TypeOK
<1>5. FlowInv'
  BY <1>0, <1>1 DEF FlowInv, Opening, None
<1>6. ThreadInv'
  <2>1. Running(f) /\ ~(Running(f)' /\ ~Running(f))
    BY PollFrame DEF Running
  <2>2. \A g \in Flows : Running(g)' => Running(g)
    BY <1>3, <2>1 DEF Running
  <2>3. ASSUME startDto' # None, ~crashed' PROVE Running(startDto) => Running(startDto)'
    <3>1. startDto # None /\ ~crashed /\ startDto' = startDto /\ startDto \in Flows
      BY <1>0, <1>1, <2>3 DEF TypeOK
    <3>2. CASE startDto # f
      BY <1>3, <3>1, <3>2 DEF Running
    <3>3. CASE startDto = f
      <4>1. f \notin stopReq
        BY <1>0, <3>1, <3>3 DEF ThreadInv, FlowInv, Opening
      <4>2. ppc'[f] # "done"
        BY <2>3, <4>1, PollFrame
      <4> QED
        BY <1>2, <1>3, <3>1, <3>3, <4>2 DEF Running
    <3> QED
      BY <3>2, <3>3
  <2>4. \A g \in Flows : Running(g)' =>
          g = handle' \/ (mpc' \in {"assignThread", "join"} /\ g = issued')
    BY <1>0, <1>1, <2>2 DEF ThreadInv
  <2>5. ASSUME startDto' # None, ~crashed'
        PROVE  /\ mpc \in Opening => startDto = issued
               /\ mpc \in {"assignThread", "join"} => Running(startDto)'
               /\ mpc \notin Opening => startDto = handle /\ Running(startDto)'
    <3>1. startDto # None /\ ~crashed /\ startDto' = startDto
      BY <1>1, <2>5
    <3>2. startDto \in Flows
      BY <1>0, <3>1 DEF TypeOK
    <3>3. Running(startDto) => Running(startDto)'
      BY <2>3, <2>5, <3>1, <3>2
    <3> QED
      BY <1>0, <3>1, <3>3 DEF ThreadInv
  <2> QED
    BY <1>1, <2>4, <2>5 DEF ThreadInv
<1>7. TokenInv'
  BY <1>0, <1>1, <1>2, <1>3, PollFrame DEF TokenInv
<1> QED
  BY <1>4, <1>5, <1>6, <1>7 DEF Inv

-----------------------------------------------------------------------------
(* The steps of the main thread, and the data race.                        *)

LEMMA MainStepInv ==
  ASSUME Inv, ~crashed,
         ReadDeviceToken \/ CommandStart \/ MainProceeds \/ StartPost \/ StartReply
           \/ IntrospectionReply \/ DataRace
  PROVE  Inv'
<1>0. /\ TypeOK /\ FlowInv /\ ThreadInv /\ TokenInv
      /\ issued \in Nat /\ handle \in Nat /\ startDto \in Nat /\ MaxFlows \in Nat
      /\ Flows \subseteq Nat
  BY FlowsAssumption DEF Inv, TypeOK, Flows, None
<1> DEFINE Goal == TypeOK' /\ FlowInv' /\ ThreadInv' /\ TokenInv'
<1> USE DEF TypeOK, FlowInv, ThreadInv, TokenInv, Running, Opening
<1>1. ASSUME ReadDeviceToken PROVE Goal
  BY <1>0, <1>1 DEF ReadDeviceToken, GetDeviceToken, Tokens, statusFrame, poll, flow, history
<1>2. ASSUME AssignToken PROVE Goal
  BY <1>0, <1>2 DEF AssignToken, statusFrame, poll, flow, history
<1>3. ASSUME TestToken PROVE Goal
  BY <1>0, <1>3 DEF TestToken, statusFrame, poll, flow, history
<1>4. ASSUME IntrospectionActive PROVE Goal
  <2>1. local \in Flows \cup {EarlierToken}
    BY <1>0, <1>4 DEF IntrospectionActive, Tokens
  <2>2. vouched' \subseteq Flows \cup {EarlierToken}
    BY <1>0, <1>4, <2>1 DEF IntrospectionActive
  <2>3. TypeOK'
    BY <1>0, <1>4, <2>2 DEF IntrospectionActive, statusFrame, poll, flow
  <2>4. FlowInv'
    BY <1>0, <1>4 DEF IntrospectionActive, statusFrame, poll, flow
  <2>5. ThreadInv'
    BY <1>0, <1>4 DEF IntrospectionActive, statusFrame, poll, flow
  <2>6. TokenInv'
    BY <1>0, <1>4 DEF IntrospectionActive, statusFrame, poll, flow
  <2> QED
    BY <2>3, <2>4, <2>5, <2>6
<1>5. ASSUME IntrospectionRejects PROVE Goal
  BY <1>0, <1>5 DEF IntrospectionRejects, ResetToken, Tokens, statusFrame, poll, flow, history
<1>6. ASSUME IntrospectionMalformed PROVE Goal
  BY <1>0, <1>6 DEF IntrospectionMalformed, ThrowToHost, statusFrame, poll, flow
<1>7. ASSUME CommandStart PROVE Goal
  BY <1>0, <1>7 DEF CommandStart, startFrame, poll, history
<1>8. ASSUME StartPost PROVE Goal
  BY <1>0, <1>8 DEF StartPost, startFrame, poll, flow, history
<1>9. ASSUME StartRefused PROVE Goal
  BY <1>0, <1>9 DEF StartRefused, startFrame, poll, history
<1>10. ASSUME StartMalformed PROVE Goal
  BY <1>0, <1>10 DEF StartMalformed, ThrowToHost, startFrame, poll, history
<1>11. ASSUME StartGranted PROVE Goal
  BY <1>0, <1>11 DEF StartGranted, startFrame, poll, history, Flows, None
<1>12. ASSUME CheckDto PROVE Goal
  BY <1>0, <1>12 DEF CheckDto, startFrame, poll, history
<1>13. ASSUME OpenUrl PROVE Goal
  <2>1. TypeOK'
    BY <1>0, <1>13 DEF OpenUrl, ThrowToHost, startFrame, poll, flow, history, Tokens
  <2>2. FlowInv'
    BY <1>0, <1>13 DEF OpenUrl, ThrowToHost, startFrame, poll, flow, history, Tokens
  <2>3. ThreadInv'
    BY <1>0, <1>13 DEF OpenUrl, ThrowToHost, startFrame, poll, flow, history, Tokens
  <2>4. TokenInv'
    BY <1>0, <1>13 DEF OpenUrl, ThrowToHost, startFrame, poll, flow, history, Tokens
  <2> QED
    BY <2>1, <2>2, <2>3, <2>4
<1>14. ASSUME Spawn PROVE Goal
  BY <1>0, <1>14 DEF Spawn, startFrame, flow, history, Flows, None
<1>15. ASSUME AssignThread PROVE Goal
  BY <1>0, <1>15 DEF AssignThread, WithStop, startFrame, flow, history, None
<1>16. ASSUME JoinThread PROVE Goal
  <2>1. TypeOK'
    BY <1>0, <1>16 DEF JoinThread, OldThreadGone, startFrame, poll, history
  <2>2. FlowInv'
    BY <1>0, <1>16 DEF JoinThread, OldThreadGone, startFrame, poll, history
  <2>3. ThreadInv'
    <3>1. \A f \in Flows : Running(f) => f = issued
      BY <1>0, <1>16 DEF JoinThread, OldThreadGone, Flows, None
    <3> QED
      BY <1>0, <1>16, <3>1 DEF JoinThread, poll
  <2>4. TokenInv'
    BY <1>0, <1>16 DEF JoinThread, OldThreadGone, startFrame, poll, history
  <2> QED
    BY <2>1, <2>2, <2>3, <2>4
<1>17. ASSUME DataRace PROVE Goal
  BY <1>0, <1>17 DEF DataRace, main, poll, flow, history
<1> QED
  BY <1>1, <1>2, <1>3, <1>4, <1>5, <1>6, <1>7, <1>8, <1>9, <1>10, <1>11, <1>12, <1>13, <1>14, <1>15, <1>16, <1>17
  DEF MainProceeds, StartReply, IntrospectionReply, Inv

LEMMA StutterInv == Inv /\ UNCHANGED vars => Inv'
BY DEF vars, main, poll, flow, history, Inv, TypeOK, FlowInv, ThreadInv, TokenInv, Running

LEMMA InvIsInvariant == Spec => []Inv
<1>1. Inv /\ [Next]_vars => Inv'
  BY PollStepInv, MainStepInv, StutterInv DEF Next, PollStep
<1> QED
  BY InitInv, <1>1, PTL DEF Spec

-----------------------------------------------------------------------------
\* Every variable keeps its type, for any number of flows.
THEOREM TypeCorrect == Spec => []TypeOK
<1>1. Inv => TypeOK
  BY DEF Inv
<1> QED
  BY <1>1, InvIsInvariant, PTL

\* Except inside startAuthFlow, only the thread of the last flow started runs.
THEOREM OnlyOnePoller == Spec => []OnePoller
<1>1. Inv => OnePoller
  BY DEF Inv, ThreadInv, OnePoller
<1> QED
  BY <1>1, InvIsInvariant, PTL

\* A start DTO that is kept belongs to the flow being polled.
THEOREM PendingIsPolled == Spec => []PendingMeansPolling
<1>1. Inv => PendingMeansPolling
  BY DEF Inv, TypeOK, ThreadInv, Opening, PendingMeansPolling
<1> QED
  BY <1>1, InvIsInvariant, PTL

\* Between commands m_token is one that the service stands for.
THEOREM TokensAreVouched == Spec => []OnlyVouchedTokens
<1>1. Inv => OnlyVouchedTokens
  BY DEF Inv, TokenInv, OnlyVouchedTokens
<1> QED
  BY <1>1, InvIsInvariant, PTL
=============================================================================
