-------------------------- MODULE SilentRequestsProofs --------------------------
(***************************************************************************)
(* Proofs about SilentRequests, for any sector file and any callsigns.     *)
(* What the loop over the sector file computes is proved by induction over *)
(* its length, with the least counterexample in place of an induction rule.*)
(***************************************************************************)
EXTENDS SilentRequests, WellFoundedInduction, TLAPS

-----------------------------------------------------------------------------
(* Least elements, and what the helpers return.                            *)

LEMMA Least ==
  ASSUME NEW T, T \subseteq Nat, T # {}
  PROVE  \E m \in T : \A n \in T : m <= n
<1> DEFINE R == OpToRel(<, Nat)
<1>1. IsWellFoundedOn(R, Nat)
  BY NatLessThanWellFounded DEF OpToRel
<1> HIDE DEF R
<1>2. PICK m \in T : \A n \in T : <<n, m>> \notin R
  BY <1>1, WFMin
<1>3. \A n \in T : ~(n < m)
  BY <1>2 DEF R, OpToRel
<1> QED
  BY <1>2, <1>3

LEMMA MinIsLeast ==
  ASSUME NEW T, T \subseteq Nat, T # {}
  PROVE  Min(T) \in T /\ \A n \in T : Min(T) <= n
  BY Least DEF Min

LEMMA MinIsKept ==
  ASSUME NEW n \in Nat, NEW I, NEW J, I \subseteq 1..n, I # {}, I \subseteq J,
         J \subseteq I \cup {n + 1}
  PROVE  Min(J) = Min(I)
<1>1. /\ Min(I) \in I /\ \A i \in I : Min(I) <= i
      /\ Min(J) \in J /\ \A j \in J : Min(J) <= j
  <2>1. I \subseteq Nat
    OBVIOUS
  <2>2. n + 1 \in Nat /\ J \subseteq Nat
    BY <2>1
  <2>3. J # {}
    OBVIOUS
  <2> QED
    BY <2>1, <2>2, <2>3, MinIsLeast
<1> DEFINE a == Min(I)
           b == Min(J)
<1> HIDE DEF a, b
<1>2. /\ a \in I /\ \A i \in I : a <= i
      /\ b \in J /\ \A j \in J : b <= j
  BY <1>1 DEF a, b
<1>3. a = b
  BY <1>2
<1> QED
  BY <1>3 DEF a, b

LEMMA SectorType ==
  Len(Sector) \in Nat /\ \A i \in 1..Len(Sector) : Sector[i] \in Seq(STRING)
  BY SectorAssumption

\* An airport's code, if it has one.
LEMMA IcaoFound ==
  ASSUME NEW name \in Seq(STRING)
  PROVE  FindIcao(name) \in Icaos \cup {""}
<1> DEFINE hits == {i \in DOMAIN name : name[i] \in Icaos}
<1>1. CASE hits = {}
  BY <1>1 DEF FindIcao
<1>2. CASE hits # {}
  <2>1. hits \subseteq Nat
    OBVIOUS
  <2>2. Min(hits) \in hits
    BY <1>2, <2>1, MinIsLeast
  <2> QED
    BY <1>2, <2>2 DEF FindIcao
<1> QED
  BY <1>1, <1>2

\* A list of different airports.
Lists == {l \in Seq(Icaos) : IsInjective(l)}

LEMMA AppendKeeps ==
  ASSUME NEW old \in Lists, NEW icao \in Icaos, ~Contains(old, icao)
  PROVE  Append(old, icao) \in Lists
<1>1. old \in Seq(Icaos) /\ \A i, j \in 1..Len(old) : old[i] = old[j] => i = j
  BY DEF Lists, IsInjective
<1>2. \A i \in 1..Len(old) : old[i] # icao
  BY DEF Contains
<1> DEFINE new == Append(old, icao)
<1>3. new \in Seq(Icaos) /\ DOMAIN new = 1..(Len(old) + 1)
  BY <1>1
<1>4. \A i \in 1..(Len(old) + 1) : new[i] = IF i = Len(old) + 1 THEN icao ELSE old[i]
  BY <1>1
<1>5. \A i, j \in 1..(Len(old) + 1) : new[i] = new[j] => i = j
  BY <1>1, <1>2, <1>4
<1>6. IsInjective(new)
  BY <1>3, <1>5 DEF IsInjective
<1> QED
  BY <1>3, <1>6 DEF Lists

LEMMA AddNewKeeps ==
  ASSUME NEW old \in Lists, NEW icao, icao \in Icaos \cup {""}
  PROVE  AddNew(old, icao) \in Lists
<1>1. CASE icao = "" \/ Contains(old, icao)
  BY <1>1 DEF AddNew
<1>2. CASE ~(icao = "" \/ Contains(old, icao))
  BY <1>2, AppendKeeps DEF AddNew
<1> QED
  BY <1>1, <1>2

-----------------------------------------------------------------------------
(* The loop over the sector file.                                          *)

\* What its turn i leaves, g being what the turns before have left.
Turn(active, g, i) ==
  IF i = 0 THEN <<>>
  ELSE IF i \in active THEN AddNew(g[i - 1], FindIcao(Sector[i])) ELSE g[i - 1]

LEMMA LoopIsDefined ==
  ASSUME NEW active, NEW n \in Nat
  PROVE  \E g : g = [i \in 0..n |-> Turn(active, g, i)]
<1> DEFINE Undefined == {k \in Nat : ~ \E g : g = [i \in 0..k |-> Turn(active, g, i)]}
<1>1. SUFFICES ASSUME Undefined # {} PROVE FALSE
  OBVIOUS
<1>2. PICK m \in Undefined : \A k \in Undefined : m <= k
  BY <1>1, Least
<1>3. m # 0
  <2> DEFINE g == [i \in 0..0 |-> <<>>]
  <2>1. g = [i \in 0..0 |-> Turn(active, g, i)]
    BY DEF Turn
  <2> QED
    BY <2>1
<1>4. m - 1 \in Nat /\ m - 1 \notin Undefined
  BY <1>2, <1>3
<1>5. PICK g : g = [i \in 0..(m - 1) |-> Turn(active, g, i)]
  BY <1>4
<1> DEFINE h == [i \in 0..m |-> IF i = m THEN Turn(active, g, m) ELSE g[i]]
<1>6. \A i \in 0..m : Turn(active, h, i) = Turn(active, g, i)
  BY <1>2 DEF Turn
<1>7. \A i \in 0..(m - 1) : g[i] = Turn(active, g, i)
  BY <1>5
<1>8. \A i \in 0..m : h[i] = Turn(active, h, i)
  BY <1>2, <1>6, <1>7
<1>9. h = [i \in 0..m |-> Turn(active, h, i)]
  BY <1>8
<1> QED
  BY <1>2, <1>9

LEMMA ActiveAirportsType ==
  ASSUME NEW active
  PROVE  ActiveAirports(active) \in Lists
<1> DEFINE N == Len(Sector)
           turns == CHOOSE g : g = [i \in 0..N |-> Turn(active, g, i)]
<1>1. N \in Nat
  BY SectorType
<1>2. turns = [i \in 0..N |-> Turn(active, turns, i)]
  BY <1>1, LoopIsDefined
<1>3. ActiveAirports(active) = turns[N]
  BY DEF ActiveAirports, Turn
<1> HIDE DEF turns
<1> DEFINE Bad == {i \in 0..N : turns[i] \notin Lists}
<1>4. Bad = {}
  <2>1. SUFFICES ASSUME Bad # {} PROVE FALSE
    OBVIOUS
  <2>2. PICK m \in Bad : \A i \in Bad : m <= i
    <3>1. Bad \subseteq Nat
      BY <1>1
    <3> QED
      BY <2>1, <3>1, Least
  <2>3. turns[m] = Turn(active, turns, m)
    BY <1>2
  <2>4. m # 0
    <3>1. <<>> \in Lists
      BY DEF Lists, IsInjective
    <3> QED
      BY <2>2, <2>3, <3>1 DEF Turn
  <2>5. m \in 1..N /\ turns[m - 1] \in Lists
    BY <1>1, <2>2, <2>4
  <2>6. FindIcao(Sector[m]) \in Icaos \cup {""}
    BY <2>5, SectorType, IcaoFound
  <2>7. AddNew(turns[m - 1], FindIcao(Sector[m])) \in Lists
    BY <2>5, <2>6, AddNewKeeps
  <2> QED
    BY <2>2, <2>3, <2>4, <2>5, <2>7 DEF Turn
<1> QED
  BY <1>1, <1>3, <1>4

-----------------------------------------------------------------------------
(* A round: the map of the first answers.                                  *)

FirstAnswers(answers, list) ==
  [c \in UNION Range(answers) |-> list[Min({i \in DOMAIN answers : c \in answers[i]})]]

LEMMA MapIn ==
  ASSUME NEW S \in SUBSET Callsigns, NEW f \in [S -> Icaos]
  PROVE  f \in CallsignMaps
  BY DEF CallsignMaps

LEMMA MapOf ==
  ASSUME NEW f \in CallsignMaps
  PROVE  DOMAIN f \in SUBSET Callsigns /\ f \in [DOMAIN f -> Icaos]
  BY DEF CallsignMaps

LEMMA EmptyMap == <<>> \in CallsignMaps
<1>1. <<>> \in [{} -> Icaos]
  OBVIOUS
<1> QED
  BY <1>1 DEF CallsignMaps

LEMMA EmplaceType ==
  ASSUME NEW f \in CallsignMaps, NEW S \in SUBSET Callsigns, NEW icao \in Icaos
  PROVE  Emplace(f, [c \in S |-> icao]) \in CallsignMaps
<1> DEFINE h == Emplace(f, [c \in S |-> icao])
<1>1. DOMAIN f \in SUBSET Callsigns /\ \A c \in DOMAIN f : f[c] \in Icaos
  BY MapOf
<1>2. h = [c \in DOMAIN f \cup S |-> IF c \in DOMAIN f THEN f[c] ELSE [d \in S |-> icao][c]]
  BY DEF Emplace
<1>3. h \in [DOMAIN f \cup S -> Icaos]
  BY <1>1, <1>2
<1> QED
  BY <1>1, <1>3, MapIn

LEMMA NoAnswers == ASSUME NEW list PROVE FirstAnswers(<<>>, list) = <<>>
<1>1. UNION Range(<<>>) = {}
  BY DEF Range
<1>2. FirstAnswers(<<>>, list) = [c \in {} |-> list[Min({i \in DOMAIN <<>> : c \in <<>>[i]})]]
  BY <1>1 DEF FirstAnswers
<1> QED
  BY <1>2

\* The next answer adds the callsigns that no answer before it named.
LEMMA NextAnswer ==
  ASSUME NEW answers \in Seq(SUBSET Callsigns), NEW S \in SUBSET Callsigns, NEW list
  PROVE  FirstAnswers(Append(answers, S), list)
           = Emplace(FirstAnswers(answers, list), [c \in S |-> list[Len(answers) + 1]])
<1> DEFINE n == Len(answers)
           new == Append(answers, S)
           named(c) == {i \in DOMAIN answers : c \in answers[i]}
           namedNew(c) == {i \in DOMAIN new : c \in new[i]}
           old == FirstAnswers(answers, list)
           U == UNION Range(answers)
           last == list[n + 1]
           both == Emplace(old, [c \in S |-> last])
<1>1. n \in Nat /\ DOMAIN answers = 1..n /\ DOMAIN new = 1..(n + 1)
  OBVIOUS
<1>2. new[n + 1] = S /\ \A i \in 1..n : new[i] = answers[i]
  OBVIOUS
<1>3. UNION Range(new) = U \cup S
  BY <1>1, <1>2 DEF Range
<1>4. ASSUME NEW c \in U PROVE Min(namedNew(c)) = Min(named(c))
  <2>1. named(c) # {} /\ named(c) \subseteq Nat
    BY <1>1 DEF Range
  <2>2. named(c) \subseteq 1..n /\ named(c) \subseteq namedNew(c)
    BY <1>1, <1>2
  <2>3. namedNew(c) \subseteq named(c) \cup {n + 1}
    BY <1>1, <1>2
  <2> HIDE DEF named, namedNew
  <2> QED
    BY <1>1, <2>1, <2>2, <2>3, MinIsKept
<1>5. ASSUME NEW c \in S, c \notin U PROVE Min(namedNew(c)) = n + 1
  <2>1. \A i \in 1..n : c \notin answers[i]
    BY <1>1, <1>5 DEF Range
  <2>2. namedNew(c) = {n + 1}
    BY <1>1, <1>2, <2>1
  <2>3. namedNew(c) # {} /\ namedNew(c) \subseteq Nat
    BY <1>1, <2>2
  <2>4. Min(namedNew(c)) \in namedNew(c)
    BY <2>3, MinIsLeast
  <2> QED
    BY <2>2, <2>4
<1>6. FirstAnswers(new, list) = [c \in U \cup S |-> list[Min(namedNew(c))]]
  BY <1>3 DEF FirstAnswers
<1>7. old = [c \in U |-> list[Min(named(c))]]
  BY DEF FirstAnswers
<1>8. both = [c \in U \cup S |-> IF c \in U THEN old[c] ELSE [d \in S |-> last][c]]
  BY <1>7 DEF Emplace
<1>9. ASSUME NEW c \in U \cup S
      PROVE  list[Min(namedNew(c))] = IF c \in U THEN old[c] ELSE [d \in S |-> last][c]
  <2>1. CASE c \in U
    BY <1>4, <1>7, <2>1
  <2>2. CASE c \notin U
    BY <1>5, <2>2
  <2> QED
    BY <2>1, <2>2
<1> HIDE DEF named, namedNew, old, U, last, both, new
<1>10. FirstAnswers(new, list) = both
  BY <1>6, <1>8, <1>9
<1> QED
  BY <1>10 DEF both, old, last, new, n

-----------------------------------------------------------------------------
(* The invariant.                                                          *)

\* The airports asked about do not change during a round, and its map holds
\* the first answers to it so far.
RoundInv == wpc = "ask" => requests = FirstAnswers(replies, airports)

Inv == TypeOK /\ airports \in Lists /\ wanted \in Lists /\ RoundInv

LEMMA InitInv == Init => Inv
<1> SUFFICES ASSUME Init PROVE Inv
  OBVIOUS
<1>1. <<>> \in Lists
  BY DEF Lists, IsInjective
<1>2. TypeOK
  BY EmptyMap DEF Init, TypeOK
<1> QED
  BY <1>1, <1>2 DEF Init, Inv, RoundInv

LEMMA MainInv ==
  ASSUME Inv, RunwayActivityChanged \/ OnActiveAirportsChange
  PROVE  Inv'
<1>1. CASE RunwayActivityChanged
  <2>1. wanted' \in Lists
    BY <1>1, ActiveAirportsType DEF RunwayActivityChanged
  <2>2. wanted' \in Seq(Icaos)
    BY <2>1 DEF Lists
  <2>3. TypeOK'
    BY <1>1, <2>2 DEF RunwayActivityChanged, worker, Inv, TypeOK
  <2> QED
    BY <1>1, <2>1, <2>3 DEF RunwayActivityChanged, worker, Inv, RoundInv
<1>2. CASE OnActiveAirportsChange
  <2>1. airports' = wanted /\ wpc # "ask" /\ UNCHANGED <<published, wanted, worker>>
    BY <1>2 DEF OnActiveAirportsChange, LockAndAssign, AirportsFree
  <2>2. TypeOK'
    BY <1>2, <2>1 DEF OnActiveAirportsChange, worker, Inv, TypeOK
  <2> QED
    BY <2>1, <2>2 DEF worker, Inv, RoundInv
<1> QED
  BY <1>1, <1>2

LEMMA AskedIsOne ==
  ASSUME Inv, wpc = "ask", MoreAirports
  PROVE  Asked \in Icaos /\ Len(replies) \in Nat
  BY DEF Inv, TypeOK, Asked, MoreAirports

LEMMA ReplyInv == ASSUME Inv, Reply PROVE Inv'
<1>0. wpc = "ask" /\ MoreAirports /\ UNCHANGED <<airports, mpc, wanted, published>>
  BY DEF Reply, ReplyRequests, ReplyFailed, ReplyMalformed, updateFrame, main
<1>1. CASE ReplyRequests
  <2>1. PICK callsigns \in SUBSET Callsigns :
          /\ replies' = Append(replies, callsigns)
          /\ requests' = Emplace(requests, [c \in callsigns |-> Asked])
    BY <1>1 DEF ReplyRequests
  <2>2. requests' \in CallsignMaps
    BY <1>0, <2>1, AskedIsOne, EmplaceType DEF Inv, TypeOK
  <2>3. replies' \in Seq(SUBSET Callsigns) /\ Len(replies') = Len(replies) + 1
    BY <2>1 DEF Inv, TypeOK
  <2>4. Len(airports) \in Nat /\ Len(replies) \in Nat /\ Len(replies) < Len(airports)
    BY <1>0 DEF Inv, TypeOK, MoreAirports
  <2>5. wpc' = wpc
    BY <1>1 DEF ReplyRequests
  <2>6. TypeOK'
    BY <1>0, <2>2, <2>3, <2>4, <2>5 DEF Inv, TypeOK
  <2>7. requests' = FirstAnswers(replies', airports)
    BY <1>0, <2>1, NextAnswer DEF Inv, TypeOK, RoundInv, Asked
  <2> QED
    BY <1>0, <2>6, <2>7 DEF Inv, RoundInv
<1>2. CASE ReplyFailed
  <2>1. replies' = Append(replies, {}) /\ requests' = requests /\ wpc' = wpc
    BY <1>2 DEF ReplyFailed
  <2>2. replies' \in Seq(SUBSET Callsigns) /\ Len(replies') = Len(replies) + 1
    BY <2>1 DEF Inv, TypeOK
  <2>3. Len(airports) \in Nat /\ Len(replies) \in Nat /\ Len(replies) < Len(airports)
    BY <1>0 DEF Inv, TypeOK, MoreAirports
  <2>4. TypeOK'
    BY <1>0, <2>1, <2>2, <2>3 DEF Inv, TypeOK
  <2>5. FirstAnswers(replies', airports) = Emplace(requests, [c \in {} |-> Asked])
    BY <1>0, <2>1, NextAnswer DEF Inv, TypeOK, RoundInv, Asked
  <2>6. Emplace(requests, [c \in {} |-> Asked]) = requests
    <3>1. requests = [c \in DOMAIN requests |-> requests[c]]
      BY MapOf DEF Inv, TypeOK
    <3> QED
      BY <3>1 DEF Emplace
  <2> QED
    BY <1>0, <2>1, <2>4, <2>5, <2>6 DEF Inv, RoundInv
<1>3. CASE ReplyMalformed
  BY <1>0, <1>3 DEF ReplyMalformed, Inv, TypeOK, RoundInv
<1> QED
  BY <1>1, <1>2, <1>3 DEF Reply

LEMMA UpdateInv == ASSUME Inv, Update PROVE Inv'
<1>1. CASE StartUpdate
  BY <1>1 DEF StartUpdate, updateFrame, main, Inv, TypeOK, RoundInv
<1>2. CASE LockAirports
  <2>1. requests' = <<>> /\ replies' = <<>> /\ wpc' = "ask"
        /\ UNCHANGED <<airports, mpc, wanted, published>>
    BY <1>2 DEF LockAirports, NewRound, updateFrame, main
  <2>2. <<>> \in Seq(SUBSET Callsigns) /\ Len(<<>>) = 0 /\ Len(airports) >= 0
    BY DEF Inv, TypeOK
  <2>3. TypeOK'
    BY <2>1, <2>2, EmptyMap DEF Inv, TypeOK
  <2> QED
    BY <2>1, <2>3, NoAnswers DEF Inv, RoundInv
<1>3. CASE Publish
  BY <1>3 DEF Publish, updateFrame, main, Inv, TypeOK, RoundInv
<1> QED
  BY <1>1, <1>2, <1>3, ReplyInv DEF Update

LEMMA InvIsInvariant == Spec => []Inv
<1>1. Inv /\ [Next]_vars => Inv'
  <2>1. ASSUME Inv, UNCHANGED vars PROVE Inv'
    BY <2>1 DEF vars, main, worker, Inv, TypeOK, RoundInv
  <2> QED
    BY <2>1, MainInv, UpdateInv DEF Next
<1> QED
  BY <1>1, InitInv, PTL DEF Spec

-----------------------------------------------------------------------------
\* Every variable keeps its type, for any sector file and any callsigns.
THEOREM TypeCorrect == Spec => []TypeOK
<1>1. Inv => TypeOK
  BY DEF Inv
<1> QED
  BY <1>1, InvIsInvariant, PTL

\* No airport is asked about twice in a round, however the sector file names
\* and repeats them.
THEOREM AirportsAskedOnce == Spec => []AskedOnce
<1>1. Inv => AskedOnce
  BY DEF Inv, Lists, AskedOnce
<1> QED
  BY <1>1, InvIsInvariant, PTL

\* What a round publishes is what the airports active in it have answered, each
\* callsign at the first airport that named it.
THEOREM RoundsPublishAnswers == Spec => PublishesFirstAnswers
<1> DEFINE A == published' # published =>
       LET first(c) == Min({i \in DOMAIN replies : c \in replies[i]})
       IN  /\ Len(replies) = Len(airports)
           /\ published' = [c \in UNION Range(replies) |-> airports[first(c)]]
<1>1. Inv /\ [Next]_vars => [A]_vars
  <2> SUFFICES ASSUME Inv, Next, published' # published PROVE A
    OBVIOUS
  <2>1. Publish
    BY DEF Next, RunwayActivityChanged, OnActiveAirportsChange, Update, StartUpdate,
           LockAirports, Reply, ReplyRequests, ReplyFailed, ReplyMalformed
  <2>2. published' = requests /\ Len(replies) = Len(airports)
    <3>1. wpc = "ask" /\ ~(Len(replies) < Len(airports)) /\ published' = requests
      BY <2>1 DEF Publish, MoreAirports
    <3>2. Len(replies) \in Nat /\ Len(airports) \in Nat /\ Len(replies) <= Len(airports)
      BY <3>1 DEF Inv, TypeOK
    <3> QED
      BY <3>1, <3>2
  <2>3. requests = FirstAnswers(replies, airports)
    BY <2>1 DEF Publish, Inv, RoundInv
  <2> QED
    BY <2>2, <2>3 DEF FirstAnswers
<1> QED
  BY <1>1, InvIsInvariant, PTL DEF Spec, PublishesFirstAnswers
=============================================================================
