------------------------------- MODULE RestClient -------------------------------
(***************************************************************************)
(* api/CurlRestClient.cpp: the one client that every component shares.     *)
(* For each HTTP method it keeps one curl handle and one lock; a handle is *)
(* reused for all requests of its method and remembers the pointers it was *)
(* given by the last one: URL, header list, body, response buffer.         *)
(*                                                                         *)
(* A call is a number and stands for its arguments and for its locals, the *)
(* header list and the buffer; 0 is a null pointer.  What the service      *)
(* answers, and whether it does, is free.  "Variant" marks a plausible     *)
(* slip, used by no action.                                                *)
(***************************************************************************)
EXTENDS Integers

CONSTANTS
  Users,     \* threads that call the client
  NoUser,    \* the holder of a free lock
  MaxCalls   \* bound: calls made

ASSUME UsersAssumption == NoUser \notin Users
ASSUME CallsAssumption == MaxCalls \in Nat

Methods == {"get", "post", "put", "patch", "del"}
WithBody == {"post", "put", "patch"}
\* The constructor gives the handles of these two CURLOPT_TIMEOUT.
WithTimeout == {"get", "del"}
Calls == 1..MaxCalls
Pointers == 0..MaxCalls
NoAnswer == 0
CurlCode == 28                                                      \* variant
\* statusCode when curl_easy_perform does not return CURLE_OK, whatever its code.
ErrorStatus == -1

VARIABLES
  handles,   \* the methods whose socket is not null
  holder,    \* who holds each method's lock
  url, headers, body, buffer,   \* what each handle remembers
  lists,     \* the header lists allocated, by their calls
  pc,        \* where each thread is in a call
  method,    \* the method it calls,
  call,      \* that call,
  authorized,\* whether it passes headers
  status,    \* the statusCode of its last response
  about,     \* and what the body of that is the service's answer to
  calls,     \* history: calls made so far
  dead       \* the client has been destroyed

options == <<url, headers, body, buffer>>
callVars == <<method, call, authorized>>
response == <<status, about>>
vars == <<handles, holder, options, lists, pc, callVars, response, calls, dead>>

\* curl_easy_init may return a null pointer for any of the five.
Init ==
  /\ handles \in SUBSET Methods
  /\ holder = [m \in Methods |-> NoUser]
  /\ url = [m \in Methods |-> 0] /\ headers = [m \in Methods |-> 0]
  /\ body = [m \in Methods |-> 0] /\ buffer = [m \in Methods |-> 0]
  /\ lists = {}
  /\ pc = [u \in Users |-> "idle"] /\ method = [u \in Users |-> "get"]
  /\ call = [u \in Users |-> 0] /\ authorized = [u \in Users |-> FALSE]
  /\ status = [u \in Users |-> 0] /\ about = [u \in Users |-> NoAnswer]
  /\ calls = 0 /\ dead = FALSE

-----------------------------------------------------------------------------
(* One call of method m by thread u.                                       *)

Begin(u, m) ==
  /\ pc[u] = "idle" /\ ~dead /\ calls < MaxCalls
  /\ calls' = calls + 1
  /\ call' = [call EXCEPT ![u] = calls + 1]
  /\ method' = [method EXCEPT ![u] = m]
  /\ \E given \in BOOLEAN : authorized' = [authorized EXCEPT ![u] = given]
  /\ pc' = [pc EXCEPT ![u] = "lock"]
  /\ status' = [status EXCEPT ![u] = 0] /\ about' = [about EXCEPT ![u] = NoAnswer]
  /\ UNCHANGED <<handles, holder, options, lists, dead>>

At(u, m, step) == pc[u] = step /\ method[u] = m
Goto(u, step) == pc' = [pc EXCEPT ![u] = step]

LockOf0(m) == "get"                                                 \* variant
\* Each method has a lock of its own.
LockOf(m) == m

IgnoreLock(m) == TRUE                                               \* variant
Free(m) == holder[LockOf(m)] = NoUser

\* std::lock_guard
Lock(u, m) ==
  /\ At(u, m, "lock") /\ Free(m)
  /\ holder' = [holder EXCEPT ![LockOf(m)] = u]
  /\ Goto(u, "locked")
  /\ UNCHANGED <<handles, options, lists, callVars, response, calls, dead>>

Return(u, m, code, answered) ==
  /\ status' = [status EXCEPT ![u] = code]
  /\ about' = [about EXCEPT ![u] = answered]
  /\ holder' = [holder EXCEPT ![LockOf(m)] = NoUser]
  /\ Goto(u, "idle")

\* "CURL handle not initialized."
Uninitialized(u, m) ==
  /\ At(u, m, "locked") /\ m \notin handles
  /\ Return(u, m, ErrorStatus, NoAnswer)
  /\ UNCHANGED <<handles, options, lists, callVars, calls, dead>>

KeepHeaders(u, m) ==                                                \* variant
  headers' = IF authorized[u] THEN [headers EXCEPT ![m] = call[u]] ELSE headers
\* CURLOPT_HTTPHEADER is set in any case, to null when no headers were given.
ApplyHeaders(u, m) ==
  headers' = [headers EXCEPT ![m] = IF authorized[u] THEN call[u] ELSE 0]

\* All the pointers are set anew before curl_easy_perform.
Configure(u, m) ==
  /\ At(u, m, "locked") /\ m \in handles
  /\ lists' = IF authorized[u] THEN lists \cup {call[u]} ELSE lists
  /\ ApplyHeaders(u, m)
  /\ url' = [url EXCEPT ![m] = call[u]]
  /\ body' = IF m \in WithBody THEN [body EXCEPT ![m] = call[u]] ELSE body
  /\ buffer' = [buffer EXCEPT ![m] = call[u]]
  /\ Goto(u, "perform")
  /\ UNCHANGED <<handles, holder, callVars, response, calls, dead>>

KeepList(u) == lists' = lists                                       \* variant
\* curl_slist_free_all(chunk); the handle is not told.
FreeList(u) == lists' = lists \ {call[u]}

\* The service answers the request that the handle holds, into the buffer that
\* the handle holds.  200 stands for every status it may give.
Answered(u, m) ==
  /\ At(u, m, "perform")
  /\ Return(u, m, 200, IF buffer[m] = call[u] THEN url[m] ELSE NoAnswer)
  /\ FreeList(u)
  /\ UNCHANGED <<handles, options, callVars, calls, dead>>

\* curl_easy_perform reports an error, the timeout among them.
Failed(u, m) ==
  /\ At(u, m, "perform")
  /\ Return(u, m, ErrorStatus, NoAnswer)
  /\ FreeList(u)
  /\ UNCHANGED <<handles, options, callVars, calls, dead>>

Performed(u, m) == Answered(u, m) \/ Failed(u, m)

Steps(u, m) == Begin(u, m) \/ Lock(u, m) \/ Uninitialized(u, m) \/ Configure(u, m) \/ Performed(u, m)
Get(u) == Steps(u, "get")
Post(u) == Steps(u, "post")
Put(u) == Steps(u, "put")
Patch(u) == Steps(u, "patch")
Del(u) == Steps(u, "del")

\* The destructor cleans up all five.  The last reference to the client goes
\* when no thread is inside a call: module Plugin shows it.
Destroy ==
  /\ ~dead /\ \A u \in Users : pc[u] = "idle"
  /\ handles' = {} /\ dead' = TRUE
  /\ UNCHANGED <<holder, options, lists, pc, callVars, response, calls>>

Destroyed == dead /\ UNCHANGED vars

-----------------------------------------------------------------------------
Next ==
  \/ \E u \in Users : Get(u) \/ Post(u) \/ Put(u) \/ Patch(u) \/ Del(u)
  \/ Destroy \/ Destroyed

Spec == Init /\ [][Next]_vars

\* Threads keep running, and nothing is assumed of the locks beyond that: the
\* calls of a behaviour are finitely many, so a lock that calls with a timeout
\* compete for is free for good in the end.  Of the transfers only those with a
\* timeout are sure to end.
Fairness == \A u \in Users :
  /\ WF_vars(\E m \in Methods : Uninitialized(u, m) \/ Configure(u, m))
  /\ WF_vars(\E m \in Methods : Lock(u, m))
  /\ WF_vars(\E m \in WithTimeout : Performed(u, m))

FairSpec == Spec /\ Fairness

-----------------------------------------------------------------------------
(* Properties.                                                             *)

TypeOK ==
  /\ handles \subseteq Methods
  /\ holder \in [Methods -> Users \cup {NoUser}]
  /\ url \in [Methods -> Pointers] /\ headers \in [Methods -> Pointers]
  /\ body \in [Methods -> Pointers] /\ buffer \in [Methods -> Pointers]
  /\ lists \subseteq Calls
  /\ pc \in [Users -> {"idle", "lock", "locked", "perform"}]
  /\ method \in [Users -> Methods] /\ call \in [Users -> Pointers]
  /\ authorized \in [Users -> BOOLEAN]
  /\ status \in [Users -> {-1, 0, 200}] /\ about \in [Users -> Pointers]
  /\ calls \in Pointers /\ dead \in BOOLEAN

\* A transfer runs on the arguments and locals of its own call alone.  In
\* particular none of the handle's pointers is that of an earlier call, whose
\* list is freed and whose buffer is gone, and a request made without headers
\* does not carry the Authorization of an earlier one.
OwnRequest ==
  \A u \in Users : pc[u] = "perform" =>
    LET m == method[u]
    IN  /\ url[m] = call[u] /\ buffer[m] = call[u]
        /\ headers[m] = IF authorized[u] THEN call[u] ELSE 0
        /\ m \in WithBody => body[m] = call[u]
        /\ headers[m] # 0 => headers[m] \in lists

\* Whatever other threads request meanwhile, a response without an error is
\* the service's answer to the very call it is returned to.
OwnAnswer ==
  \A u \in Users : pc[u] = "idle" /\ status[u] \notin {-1, 0} => about[u] = call[u]

\* No header list is lost: those allocated are the ones of the calls now in
\* curl_easy_perform, whichever way the calls before them have ended.
NoListLeaks ==
  lists = {call[u] : u \in {v \in Users : pc[v] = "perform" /\ authorized[v]}}

\* A GET or a DELETE returns, although a POST may never: the locks of the
\* methods do not make one wait for the other.
TimedCallsReturn ==
  \A u \in Users : pc[u] # "idle" /\ method[u] \in WithTimeout ~> pc[u] = "idle"
=============================================================================
