---------------------------- MODULE SilentRequests ----------------------------
(***************************************************************************)
(* module/sr/SilentRequestModule.cpp and the airports it is told of by     *)
(* Plugin.cpp's OnAirportRunwayActivityChanged.  EuroScope's main thread   *)
(* replaces airports_; the executor's worker thread runs update(), which   *)
(* asks the service about each airport and publishes silent_requests_.     *)
(* update() keeps airports_mutex_ during all of its GETs; how long that    *)
(* takes, and whether the main thread gets in between, is in UpdateRounds. *)
(*                                                                         *)
(* A request is known by its callsign and the airport whose reply held it. *)
(* "Variant" marks a plausible slip, used by no action.                    *)
(***************************************************************************)
EXTENDS Integers, SequencesExt

CONSTANTS
  Sector,     \* the airports of the sector file: names, each a list of words
  Icaos,      \* the words of four upper-case letters
  Callsigns

ASSUME SectorAssumption == Sector \in Seq(Seq(STRING)) /\ Icaos \subseteq STRING

VARIABLES
  airports,   \* airports_
  published,  \* silent_requests_: from callsigns to airports
  mpc,        \* where the main thread is in OnActiveAirportsChange
  wanted,     \* its argument
  wpc,        \* where the worker is in update()
  requests,   \* update()'s local map
  replies     \* history: the callsigns each airport asked in this round has
              \* replied with, in the order of airports_

main == <<mpc, wanted>>
worker == <<wpc, requests, replies>>
vars == <<airports, published, main, worker>>

-----------------------------------------------------------------------------
(* OnAirportRunwayActivityChanged                                          *)

\* utils::String::FindIcao: the first such word, or nothing.
FindIcao(name) == LET hits == {i \in DOMAIN name : name[i] \in Icaos}
                  IN  IF hits = {} THEN "" ELSE name[Min(hits)]

AddAlways(list, icao) == IF icao = "" THEN list ELSE Append(list, icao)   \* variant
AddNew(list, icao) ==
  IF icao = "" \/ Contains(list, icao) THEN list ELSE Append(list, icao)

\* active: the airports in use for departures or arrivals, by their places.
\* list[i]: activeAirports after the first i of the sector file.
ActiveAirports(active) ==
  LET list[i \in 0..Len(Sector)] ==
        IF i = 0 THEN <<>>
        ELSE IF i \in active THEN AddNew(list[i - 1], FindIcao(Sector[i])) ELSE list[i - 1]
  IN  list[Len(Sector)]

\* The constructor of the plugin posts update() and then tells the airports.
Init ==
  /\ airports = <<>> /\ published = <<>>
  /\ mpc = "idle" /\ wanted = <<>>
  /\ wpc = "idle" /\ requests = <<>> /\ replies = <<>>

\* Closing the runway dialogue starts the handler, which needs the lock ...
RunwayActivityChanged ==
  /\ mpc = "idle"
  /\ \E active \in SUBSET DOMAIN Sector : wanted' = ActiveAirports(active)
  /\ mpc' = "lock"
  /\ UNCHANGED <<airports, published, worker>>

AirportsFree == wpc # "ask"

AssignUnlocked == airports' = wanted                                \* variant
LockAndAssign == AirportsFree /\ airports' = wanted

\* ... to replace the airports.
OnActiveAirportsChange ==
  /\ mpc = "lock" /\ LockAndAssign
  /\ mpc' = "idle"
  /\ UNCHANGED <<published, wanted, worker>>

-----------------------------------------------------------------------------
(* update()                                                                *)

updateFrame == <<airports, main>>

\* The executor runs update() every five seconds, never twice at once.
StartUpdate ==
  /\ wpc = "idle"
  /\ wpc' = "lock"
  /\ UNCHANGED <<updateFrame, published, requests, replies>>

KeepRound == requests' = <<>> /\ replies' = replies                 \* variant
NewRound == requests' = <<>> /\ replies' = <<>>

LockAirports ==
  /\ wpc = "lock"
  /\ NewRound
  /\ wpc' = "ask"
  /\ UNCHANGED <<updateFrame, published>>

\* std::map::emplace keeps what it has.
Emplace(map, new) ==
  [c \in DOMAIN map \cup DOMAIN new |-> IF c \in DOMAIN map THEN map[c] ELSE new[c]]

Asked == airports[Len(replies) + 1]
MoreAirports == Len(replies) < Len(airports)

ReplyRequests ==
  /\ wpc = "ask" /\ MoreAirports
  /\ \E callsigns \in SUBSET Callsigns :
       /\ replies' = Append(replies, callsigns)
       /\ requests' = Emplace(requests, [c \in callsigns |-> Asked])
  /\ UNCHANGED <<updateFrame, published, wpc>>

\* No answer within 2 s, or a status other than 200: continue.
ReplyFailed ==
  /\ wpc = "ask" /\ MoreAirports
  /\ replies' = Append(replies, {})
  /\ UNCHANGED <<updateFrame, published, wpc, requests>>

\* Not the JSON expected: the exception unlocks, and the executor catches it.
ReplyMalformed ==
  /\ wpc = "ask" /\ MoreAirports
  /\ wpc' = "idle"
  /\ UNCHANGED <<updateFrame, published, requests, replies>>

Publish ==
  /\ wpc = "ask" /\ ~MoreAirports
  /\ published' = requests
  /\ wpc' = "idle"
  /\ UNCHANGED <<updateFrame, requests, replies>>

-----------------------------------------------------------------------------
Reply == ReplyRequests \/ ReplyFailed \/ ReplyMalformed
Update == StartUpdate \/ LockAirports \/ Reply \/ Publish

Next == RunwayActivityChanged \/ OnActiveAirportsChange \/ Update

Spec == Init /\ [][Next]_vars

-----------------------------------------------------------------------------
(* Properties.                                                             *)

CallsignMaps == UNION {[S -> Icaos] : S \in SUBSET Callsigns}

TypeOK ==
  /\ airports \in Seq(Icaos) /\ wanted \in Seq(Icaos)
  /\ published \in CallsignMaps /\ requests \in CallsignMaps
  /\ mpc \in {"idle", "lock"} /\ wpc \in {"idle", "lock", "ask"}
  /\ replies \in Seq(SUBSET Callsigns)
  /\ wpc = "ask" => Len(replies) <= Len(airports)

\* However the sector file names and repeats its airports, no airport is
\* asked about twice in a round.
AskedOnce == IsInjective(airports)

\* What a round publishes is exactly what the airports active at that moment
\* have replied with in it: no request of an airport dropped meanwhile, none of
\* an earlier round, each callsign at the first airport that named it, and the
\* failure of one airport does not hide the others.
PublishesFirstAnswers ==
  [][published' # published =>
       LET first(c) == Min({i \in DOMAIN replies : c \in replies[i]})
       IN  /\ Len(replies) = Len(airports)
           /\ published' = [c \in UNION Range(replies) |-> airports[first(c)]]]_vars
=============================================================================
