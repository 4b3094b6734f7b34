--------------------------- MODULE RestClientProofs ---------------------------
(***************************************************************************)
(* Theorems about RestClient, for any threads and any number of calls,     *)
(* whichever handles the constructor got.                                  *)
(***************************************************************************)
EXTENDS RestClient, TLAPS

InCall(u, m) == pc[u] \in {"locked", "perform"} /\ method[u] = m

\* A lock is held by the one thread that is past it in a call of its method.
LockInv == \A m \in Methods, u \in Users : holder[m] = u <=> InCall(u, m)

\* No two threads are in the same call.
CallInv ==
  /\ \A u \in Users : call[u] <= calls /\ (pc[u] # "idle" => call[u] # 0)
  /\ \A u, v \in Users : call[u] = call[v] => u = v \/ call[u] = 0

\* OwnRequest for one thread.
Own(u) ==
  /\ url[method[u]] = call[u] /\ buffer[method[u]] = call[u]
  /\ headers[method[u]] = IF authorized[u] THEN call[u] ELSE 0
  /\ method[u] \in WithBody => body[method[u]] = call[u]
RequestInv == \A u \in Users : pc[u] = "perform" => Own(u)

\* NoListLeaks, list by list.
ListInv ==
  \A c \in Calls : c \in lists <=>
    \E u \in Users : pc[u] = "perform" /\ authorized[u] /\ call[u] = c

Inv == TypeOK /\ LockInv /\ CallInv /\ RequestInv /\ ListInv /\ OwnAnswer

LEMMA InitInv == Init => Inv
<1> SUFFICES ASSUME Init PROVE Inv
  OBVIOUS
<1>1. 0 \in Pointers
  BY CallsAssumption DEF Pointers
<1>2. TypeOK
  BY <1>1 DEF Init, TypeOK, Methods, NoAnswer
<1> QED
  BY <1>2, UsersAssumption
  DEF Init, Inv, LockInv, InCall, CallInv, RequestInv, ListInv, OwnAnswer

-----------------------------------------------------------------------------
(* One lemma per step of a call.                                           *)

LEMMA BeginInv ==
  ASSUME Inv, NEW u \in Users, NEW m \in Methods, Begin(u, m)
  PROVE  Inv'
<1>1. /\ calls \in Nat /\ calls' = calls + 1 /\ calls' \in Pointers
      /\ call' = [call EXCEPT ![u] = calls'] /\ call \in [Users -> Pointers]
      /\ method' = [method EXCEPT ![u] = m] /\ pc' = [pc EXCEPT ![u] = "lock"]
      /\ pc[u] = "idle" /\ \A v \in Users : call[v] <= calls
  BY CallsAssumption DEF Begin, Inv, TypeOK, CallInv, Pointers
<1>2. TypeOK'
  <2>1. 0 \in Pointers
    BY CallsAssumption DEF Pointers
  <2>2. PICK given \in BOOLEAN : authorized' = [authorized EXCEPT ![u] = given]
    BY DEF Begin
  <2> QED
    BY <1>1, <2>1, <2>2 DEF Begin, Inv, TypeOK, options, NoAnswer
<1>3. \A v \in Users : v # u =>
        /\ call'[v] = call[v] /\ pc'[v] = pc[v] /\ method'[v] = method[v]
        /\ authorized'[v] = authorized[v] /\ status'[v] = status[v] /\ about'[v] = about[v]
  BY DEF Begin, Inv, TypeOK
<1>4. call'[u] = calls' /\ pc'[u] = "lock"
  BY <1>1 DEF Inv, TypeOK
<1>5. LockInv'
  BY <1>1, <1>3, <1>4 DEF Begin, Inv, LockInv, InCall
<1>6. CallInv'
  <2>1. \A v \in Users : call[v] \in Nat
    BY <1>1, CallsAssumption DEF Pointers
  <2> QED
    BY <1>1, <1>3, <1>4, <2>1 DEF Inv, CallInv
<1>7. RequestInv'
  BY <1>3, <1>4 DEF Begin, options, Inv, RequestInv, Own
<1>8. ListInv'
  <2>1. ASSUME NEW v \in Users
        PROVE  (pc'[v] = "perform" /\ authorized'[v])
                 <=> (pc[v] = "perform" /\ authorized[v])
    BY <1>1, <1>3, <1>4
  <2>2. \A v \in Users : pc[v] = "perform" => call'[v] = call[v]
    BY <1>1, <1>3
  <2> QED
    BY <2>1, <2>2 DEF Begin, Inv, ListInv
<1>9. OwnAnswer'
  BY <1>3, <1>4 DEF Inv, OwnAnswer
<1> QED
  BY <1>2, <1>5, <1>6, <1>7, <1>8, <1>9 DEF Inv

LEMMA LockStepInv ==
  ASSUME Inv, NEW u \in Users, NEW m \in Methods, Lock(u, m)
  PROVE  Inv'
<1>1. /\ pc[u] = "lock" /\ method[u] = m /\ holder[m] = NoUser
      /\ holder' = [holder EXCEPT ![m] = u] /\ pc' = [pc EXCEPT ![u] = "locked"]
      /\ UNCHANGED <<handles, url, headers, body, buffer, lists, method, call,
                     authorized, status, about, calls, dead>>
  BY DEF Lock, At, Free, LockOf, Goto, options, callVars, response
<1>2. TypeOK'
  BY <1>1 DEF Inv, TypeOK
<1>3. \A v \in Users : v # u => pc'[v] = pc[v]
  BY <1>1 DEF Inv, TypeOK
<1>4. pc'[u] = "locked" /\ holder'[m] = u /\ u # NoUser
  BY <1>1, UsersAssumption DEF Inv, TypeOK
<1>5. LockInv'
  <2>1. \A n \in Methods : n # m => holder'[n] = holder[n]
    BY <1>1 DEF Inv, TypeOK
  <2>2. \A v \in Users : ~InCall(v, m)
    BY <1>1, UsersAssumption DEF Inv, LockInv
  <2> QED
    BY <1>1, <1>3, <1>4, <2>1, <2>2 DEF Inv, LockInv, InCall
<1>6. CallInv'
  BY <1>1, <1>3, <1>4 DEF Inv, CallInv
<1>7. RequestInv'
  BY <1>1, <1>3, <1>4 DEF Inv, RequestInv, Own
<1>8. ListInv'
  BY <1>1, <1>3, <1>4 DEF Inv, ListInv
<1>9. OwnAnswer'
  BY <1>1, <1>3, <1>4 DEF Inv, OwnAnswer
<1> QED
  BY <1>2, <1>5, <1>6, <1>7, <1>8, <1>9 DEF Inv

LEMMA ConfigureInv ==
  ASSUME Inv, NEW u \in Users, NEW m \in Methods, Configure(u, m)
  PROVE  Inv'
<1>1. /\ pc[u] = "locked" /\ method[u] = m /\ m \in handles
      /\ pc' = [pc EXCEPT ![u] = "perform"]
      /\ UNCHANGED <<handles, holder, method, call, authorized, status, about, calls, dead>>
  BY DEF Configure, At, Goto, callVars, response
<1>2. /\ call[u] \in Calls /\ call[u] \in Pointers
  BY <1>1, CallsAssumption DEF Inv, TypeOK, CallInv, Pointers, Calls
<1>3. TypeOK'
  <2>1. 0 \in Pointers
    BY CallsAssumption DEF Pointers
  <2>2. lists' \subseteq Calls
    BY <1>2 DEF Configure, Inv, TypeOK
  <2>3. /\ url' \in [Methods -> Pointers] /\ headers' \in [Methods -> Pointers]
        /\ body' \in [Methods -> Pointers] /\ buffer' \in [Methods -> Pointers]
    BY <1>2, <2>1 DEF Configure, ApplyHeaders, Inv, TypeOK
  <2> QED
    BY <1>1, <2>2, <2>3 DEF Inv, TypeOK
<1>4. \A v \in Users : v # u => pc'[v] = pc[v]
  BY <1>1 DEF Inv, TypeOK
<1>5. pc'[u] = "perform"
  BY <1>1 DEF Inv, TypeOK
<1>6. LockInv'
  BY <1>1, <1>4, <1>5 DEF Inv, LockInv, InCall
<1>7. CallInv'
  BY <1>1, <1>4, <1>5 DEF Inv, CallInv
<1>8. RequestInv'
  <2>1. ASSUME NEW v \in Users, pc'[v] = "perform", v # u PROVE Own(v)'
    <3>1. method[v] # m /\ method[v] \in Methods
      BY <1>1, <1>4, <2>1 DEF Inv, TypeOK, LockInv, InCall
    <3>2. /\ url'[method[v]] = url[method[v]] /\ buffer'[method[v]] = buffer[method[v]]
          /\ headers'[method[v]] = headers[method[v]] /\ body'[method[v]] = body[method[v]]
      BY <3>1 DEF Configure, ApplyHeaders, Inv, TypeOK
    <3>3. Own(v)
      BY <1>4, <2>1 DEF Inv, RequestInv
    <3> QED
      BY <1>1, <3>2, <3>3 DEF Own
  <2>2. Own(u)'
    BY <1>1 DEF Configure, ApplyHeaders, Inv, TypeOK, Own
  <2> QED
    BY <2>1, <2>2 DEF RequestInv
<1>9. ListInv'
  <2>1. lists' = IF authorized[u] THEN lists \cup {call[u]} ELSE lists
    BY DEF Configure
  <2> QED
    BY <1>1, <1>2, <1>4, <1>5, <2>1 DEF Inv, ListInv
<1>10. OwnAnswer'
  BY <1>1, <1>4, <1>5 DEF Inv, OwnAnswer
<1> QED
  BY <1>3, <1>6, <1>7, <1>8, <1>9, <1>10 DEF Inv

\* The ways a call ends have this in common.
LEMMA ReturnInv ==
  ASSUME Inv, NEW u \in Users, NEW m \in Methods, NEW code \in {-1, 200},
         NEW answered \in Pointers, Return(u, m, code, answered),
         pc[u] \in {"locked", "perform"}, method[u] = m,
         code = 200 => answered = call[u],
         lists' = IF pc[u] = "perform" THEN lists \ {call[u]} ELSE lists,
         UNCHANGED <<handles, url, headers, body, buffer, method, call, authorized, calls, dead>>
  PROVE  Inv'
<1>1. /\ status' = [status EXCEPT ![u] = code] /\ about' = [about EXCEPT ![u] = answered]
      /\ holder' = [holder EXCEPT ![m] = NoUser] /\ pc' = [pc EXCEPT ![u] = "idle"]
  BY DEF Return, LockOf, Goto
<1>2. TypeOK'
  BY <1>1 DEF Inv, TypeOK
<1>3. \A v \in Users : v # u =>
        pc'[v] = pc[v] /\ status'[v] = status[v] /\ about'[v] = about[v]
  BY <1>1 DEF Inv, TypeOK
<1>4. pc'[u] = "idle" /\ status'[u] = code /\ about'[u] = answered
  BY <1>1 DEF Inv, TypeOK
<1>5. LockInv'
  <2>1. holder'[m] = NoUser /\ \A n \in Methods : n # m => holder'[n] = holder[n]
    BY <1>1 DEF Inv, TypeOK
  <2>2. \A v \in Users : v # u => ~InCall(v, m)
    BY DEF Inv, LockInv, InCall
  <2> QED
    BY <1>3, <1>4, <2>1, <2>2, UsersAssumption DEF Inv, LockInv, InCall
<1>6. CallInv'
  BY <1>3, <1>4 DEF Inv, CallInv
<1>7. RequestInv'
  BY <1>3, <1>4 DEF Inv, RequestInv, Own
<1>8. ListInv'
  <2>1. ASSUME NEW c \in Calls, c \in lists'
        PROVE  \E v \in Users : pc'[v] = "perform" /\ authorized'[v] /\ call'[v] = c
    <3>1. c \in lists
      BY <2>1
    <3>2. PICK v \in Users : pc[v] = "perform" /\ authorized[v] /\ call[v] = c
      BY <3>1 DEF Inv, ListInv
    <3>3. v # u
      BY <2>1, <3>2
    <3> QED
      BY <1>3, <3>2, <3>3
  <2>2. ASSUME NEW c \in Calls, NEW v \in Users,
               pc'[v] = "perform", authorized'[v], call'[v] = c
        PROVE  c \in lists'
    <3>1. v # u /\ pc[v] = "perform" /\ authorized[v] /\ call[v] = c
      BY <1>3, <1>4, <2>2
    <3>2. c \in lists /\ call[u] # c
      BY <3>1 DEF Inv, ListInv, CallInv
    <3> QED
      BY <3>2
  <2> QED
    BY <2>1, <2>2 DEF ListInv
<1>9. OwnAnswer'
  BY <1>3, <1>4 DEF Inv, OwnAnswer
<1> QED
  BY <1>2, <1>5, <1>6, <1>7, <1>8, <1>9 DEF Inv

LEMMA AnsweredInv ==
  ASSUME Inv, NEW u \in Users, NEW m \in Methods, Answered(u, m)
  PROVE  Inv'
<1>1. /\ pc[u] = "perform" /\ method[u] = m /\ lists' = lists \ {call[u]}
      /\ UNCHANGED <<handles, url, headers, body, buffer, method, call, authorized, calls, dead>>
  BY DEF Answered, At, FreeList, options, callVars
<1>2. buffer[m] = call[u] /\ url[m] = call[u] /\ call[u] \in Pointers
  BY <1>1 DEF Inv, TypeOK, RequestInv, Own
<1>3. Return(u, m, 200, call[u])
  BY <1>2 DEF Answered
<1> QED
  BY <1>1, <1>2, <1>3, ReturnInv

LEMMA FailedInv ==
  ASSUME Inv, NEW u \in Users, NEW m \in Methods, Failed(u, m) \/ Uninitialized(u, m)
  PROVE  Inv'
<1>1. 0 \in Pointers
  BY CallsAssumption DEF Pointers
<1>2. Return(u, m, -1, 0)
  BY DEF Failed, Uninitialized, ErrorStatus, NoAnswer
<1>3. /\ pc[u] \in {"locked", "perform"} /\ method[u] = m
      /\ lists' = IF pc[u] = "perform" THEN lists \ {call[u]} ELSE lists
      /\ UNCHANGED <<handles, url, headers, body, buffer, method, call, authorized, calls, dead>>
  BY DEF Failed, Uninitialized, At, FreeList, options, callVars
<1> QED
  BY <1>1, <1>2, <1>3, ReturnInv

LEMMA StepInv == Inv /\ [Next]_vars => Inv'
<1> SUFFICES ASSUME Inv, [Next]_vars PROVE Inv'
  OBVIOUS
<1>1. ASSUME NEW u \in Users, NEW m \in Methods, Steps(u, m) PROVE Inv'
  BY <1>1, BeginInv, LockStepInv, ConfigureInv, AnsweredInv, FailedInv DEF Steps, Performed
<1>2. CASE Destroy
  BY <1>2 DEF Destroy, options, callVars, response, Inv, TypeOK, LockInv, InCall, CallInv,
              RequestInv, Own, ListInv, OwnAnswer
<1>3. CASE UNCHANGED vars
  BY <1>3 DEF vars, options, callVars, response, Inv, TypeOK, LockInv, InCall, CallInv,
              RequestInv, Own, ListInv, OwnAnswer
<1> QED
  BY <1>1, <1>2, <1>3 DEF Next, Destroyed, Get, Post, Put, Patch, Del, Methods

LEMMA InvIsInvariant == Spec => []Inv
  BY InitInv, StepInv, PTL DEF Spec

-----------------------------------------------------------------------------
\* The types of all variables; the status is that of an answer, or the error's.
THEOREM TypeCorrect == Spec => []TypeOK
<1>1. Inv => TypeOK
  BY DEF Inv
<1> QED
  BY <1>1, InvIsInvariant, PTL

\* Calls of one method never mix: the reused handle holds nothing of another
\* call, neither one under way nor one that is over.
THEOREM RequestsAreOwn == Spec => []OwnRequest
<1>1. Inv => OwnRequest
  <2> SUFFICES ASSUME Inv, NEW u \in Users, pc[u] = "perform"
               PROVE  Own(u) /\ (headers[method[u]] # 0 => headers[method[u]] \in lists)
    BY DEF OwnRequest, Own
  <2>1. Own(u)
    BY DEF Inv, RequestInv
  <2>2. call[u] \in Calls
    BY CallsAssumption DEF Inv, TypeOK, CallInv, Pointers, Calls
  <2> QED
    BY <2>1, <2>2 DEF Inv, ListInv, Own
<1> QED
  BY <1>1, InvIsInvariant, PTL

\* Who gets an answer gets the one to the call it made.
THEOREM AnswersAreOwn == Spec => []OwnAnswer
<1>1. Inv => OwnAnswer
  BY DEF Inv
<1> QED
  BY <1>1, InvIsInvariant, PTL

\* However calls end, their header lists are freed, once.
THEOREM ListsAreFreed == Spec => []NoListLeaks
<1>1. Inv => NoListLeaks
  <2> SUFFICES ASSUME Inv PROVE NoListLeaks
    OBVIOUS
  <2>1. lists \subseteq Calls
    BY DEF Inv, TypeOK
  <2>2. \A u \in Users : pc[u] = "perform" => call[u] \in Calls
    BY CallsAssumption DEF Inv, TypeOK, CallInv, Pointers, Calls
  <2> QED
    BY <2>1, <2>2 DEF Inv, ListInv, NoListLeaks
<1> QED
  BY <1>1, InvIsInvariant, PTL
=============================================================================
