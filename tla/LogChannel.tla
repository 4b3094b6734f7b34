------------------------------- MODULE LogChannel -------------------------------
(***************************************************************************)
(* What a logger of log/LoggerAsyncBase.h owes the threads that log: a     *)
(* channel that hands on each message once and in the order in which they  *)
(* were accepted, and is closed only when it is empty.  Messages are       *)
(* numbered in that order.                                                 *)
(***************************************************************************)
EXTENDS Naturals, Sequences

VARIABLES
  sent,       \* how many messages were accepted
  delivered,  \* those handed to emitLog
  state       \* of the channel

vars == <<sent, delivered, state>>

Init == sent = 0 /\ delivered = <<>> /\ state = "open"

Send ==
  /\ state = "open"
  /\ sent' = sent + 1
  /\ UNCHANGED <<delivered, state>>

Deliver ==
  /\ state \in {"open", "sealed"}
  /\ Len(delivered) < sent
  /\ delivered' = Append(delivered, Len(delivered) + 1)
  /\ UNCHANGED <<sent, state>>

\* The owner lets go: no message is accepted any more.
Seal == state = "open" /\ state' = "sealed" /\ UNCHANGED <<sent, delivered>>

\* The destructor returns.
Close ==
  /\ state = "sealed" /\ Len(delivered) = sent
  /\ state' = "closed"
  /\ UNCHANGED <<sent, delivered>>

\* emitLog is called on what is left of the object: only a sealed channel that
\* still holds a message can break.
Break ==
  /\ state = "sealed" /\ Len(delivered) < sent
  /\ state' = "broken"
  /\ UNCHANGED <<sent, delivered>>

Next == Send \/ Deliver \/ Seal \/ Close \/ Break

Spec == Init /\ [][Next]_vars
=============================================================================
