--------------------------- MODULE AsyncLoggerProofs ---------------------------
(***************************************************************************)
(* Theorems about AsyncLogger, for any producers and any number of         *)
(* messages, whichever logger it is.                                       *)
(***************************************************************************)
EXTENDS AsyncLogger, SequenceTheorems, TLAPS

InHand == IF msg = 0 THEN 0 ELSE 1

\* InOrderOnce, place by place: the form a step can be checked against.
OrderInv ==
  /\ wpc \in {"emit", "crashed"} <=> msg # 0
  /\ logged = Len(handled) + InHand + Len(queue)
  /\ \A i \in 1..Len(handled) : handled[i] = i
  /\ msg # 0 => msg = Len(handled) + 1
  /\ \A i \in 1..Len(queue) : queue[i] = Len(handled) + InHand + i

\* Who is gone, and what is left then.
LifeInv ==
  /\ wpc = "exited" /\ ~stillborn =>
       queue = <<>> /\ life \in {"flush", "flushAsleep", "join", "destroyed"}
  /\ life \in {"join", "destroyed"} => queue = <<>>
  /\ life = "destroyed" => wpc = "exited"

Inv == TypeOK /\ OrderInv /\ NoLostWakeup /\ LifeInv

LEMMA NoMessages ==
  ASSUME NEW S PROVE <<>> \in Seq(S) /\ Len(<<>>) = 0
BY EmptySeq

LEMMA InitInv == Init => Inv
<1> SUFFICES ASSUME Init PROVE Inv
  OBVIOUS
<1>1. <<>> \in Seq(1..MaxLogs) /\ Len(<<>>) = 0
  BY NoMessages
<1>2. TypeOK
  <2>1. 0 \in 0..MaxLogs
    BY LoggerAssumption
  <2> QED
    BY <1>1, <2>1 DEF Init, TypeOK
<1>3. OrderInv
  BY <1>1 DEF Init, OrderInv, InHand
<1> QED
  BY <1>2, <1>3 DEF Init, Inv, NoLostWakeup, LifeInv

-----------------------------------------------------------------------------
(* The two steps that move messages, and the one that gives them up.       *)

LEMMA PushOrder ==
  ASSUME Inv, NEW p \in Producers, Push(p)
  PROVE  /\ OrderInv' /\ queue' \in Seq(1..MaxLogs) /\ queue' # <<>>
         /\ logged' \in 0..MaxLogs
<1>1. /\ logged' = logged + 1 /\ logged' \in 1..MaxLogs
      /\ queue' = Append(queue, logged')
      /\ queue \in Seq(1..MaxLogs) /\ logged \in Nat
      /\ msg' = msg /\ handled' = handled /\ wpc' = wpc
  BY LoggerAssumption DEF Push, Inv, TypeOK, worker
<1>2. /\ queue' \in Seq(1..MaxLogs) /\ queue' # <<>>
      /\ Len(queue') = Len(queue) + 1 /\ Len(queue) \in Nat
      /\ \A i \in 1..Len(queue) : queue'[i] = queue[i]
      /\ queue'[Len(queue) + 1] = logged'
  BY <1>1, AppendProperties, LenProperties
<1>3. Len(handled) \in Nat /\ InHand \in Nat /\ InHand' = InHand
  BY <1>1, LenProperties DEF Inv, TypeOK, InHand
<1>4. logged' = Len(handled') + InHand' + Len(queue')
  BY <1>1, <1>2, <1>3 DEF Inv, OrderInv
<1>5. ASSUME NEW i \in 1..Len(queue') PROVE queue'[i] = Len(handled') + InHand' + i
  <2>1. CASE i = Len(queue) + 1
    BY <1>1, <1>2, <1>3, <1>4, <2>1
  <2>2. CASE i # Len(queue) + 1
    <3>1. i \in 1..Len(queue)
      BY <1>2, <2>2
    <3>2. queue[i] = Len(handled) + InHand + i
      BY <3>1 DEF Inv, OrderInv
    <3> QED
      BY <1>1, <1>2, <1>3, <3>1, <3>2
  <2> QED
    BY <2>1, <2>2
<1> QED
  BY <1>1, <1>2, <1>4, <1>5 DEF Inv, OrderInv

LEMMA TakeOrder ==
  ASSUME Inv, Take
  PROVE  OrderInv' /\ queue' \in Seq(1..MaxLogs) /\ msg' \in 1..MaxLogs
<1>1. /\ queue \in Seq(1..MaxLogs) /\ queue # <<>> /\ wpc' = "emit"
      /\ msg' = Head(queue) /\ queue' = Tail(queue)
      /\ handled' = handled /\ logged' = logged /\ msg = 0 /\ InHand = 0
  BY DEF Take, PopFront, workerFrame, Inv, TypeOK, OrderInv, InHand
<1>2. /\ Tail(queue) \in Seq(1..MaxLogs) /\ Head(queue) \in 1..MaxLogs
      /\ Len(Tail(queue)) = Len(queue) - 1
      /\ \A i \in 1..Len(Tail(queue)) : Tail(queue)[i] = queue[i + 1]
  BY <1>1, HeadTailProperties
<1>2a. Len(queue) \in Nat \ {0} /\ Head(queue) = queue[1]
  BY <1>1, EmptySeq
<1>3. Len(handled) \in Nat /\ InHand' = 1 /\ Len(queue') = Len(queue) - 1
  BY <1>1, <1>2, LenProperties DEF Inv, TypeOK, InHand
<1>4. msg' = Len(handled') + 1 /\ logged' = Len(handled') + InHand' + Len(queue')
  BY <1>1, <1>2, <1>2a, <1>3 DEF Inv, OrderInv
<1>5. ASSUME NEW i \in 1..Len(queue') PROVE queue'[i] = Len(handled') + InHand' + i
  <2>1. i + 1 \in 1..Len(queue) /\ i \in Nat
    BY <1>2a, <1>3
  <2>2. queue[i + 1] = Len(handled) + 0 + (i + 1)
    BY <1>1, <2>1 DEF Inv, OrderInv
  <2> QED
    BY <1>1, <1>2, <1>3, <2>1, <2>2
<1> QED
  BY <1>1, <1>2, <1>4, <1>5 DEF Inv, OrderInv

LEMMA EmitOrder ==
  ASSUME Inv, Emit
  PROVE  OrderInv' /\ handled' \in Seq(1..MaxLogs)
<1>1. /\ handled' = Append(handled, msg) /\ handled \in Seq(1..MaxLogs)
      /\ msg \in 1..MaxLogs /\ msg = Len(handled) + 1 /\ InHand = 1
      /\ msg' = 0 /\ wpc' = "drain" /\ queue' = queue /\ logged' = logged
  BY DEF Emit, Handle, workerFrame, Inv, TypeOK, OrderInv, InHand
<1>2. /\ handled' \in Seq(1..MaxLogs)
      /\ Len(handled') = Len(handled) + 1 /\ Len(handled) \in Nat
      /\ \A i \in 1..Len(handled) : handled'[i] = handled[i]
      /\ handled'[Len(handled) + 1] = msg
  BY <1>1, AppendProperties, LenProperties
<1>3. InHand' = 0 /\ Len(queue) \in Nat
  BY <1>1, LenProperties DEF Inv, TypeOK, InHand
<1>4. \A i \in 1..Len(handled') : handled'[i] = i
  BY <1>1, <1>2 DEF Inv, OrderInv
<1> QED
  BY <1>1, <1>2, <1>3, <1>4 DEF Inv, OrderInv

-----------------------------------------------------------------------------
LEMMA StepInv == Inv /\ [Next]_vars => Inv'
<1> SUFFICES ASSUME Inv, [Next]_vars PROVE Inv'
  OBVIOUS
<1>0. TypeOK /\ OrderInv /\ NoLostWakeup /\ LifeInv
  BY DEF Inv
<1> USE DEF TypeOK, NoLostWakeup, LifeInv, InHand
<1>1. ASSUME NEW p \in Producers, Push(p) PROVE Inv'
  BY <1>0, <1>1, PushOrder DEF Push, worker, owner, Inv
<1>2. ASSUME NEW p \in Producers, NotifyOne(p) PROVE Inv'
  BY <1>0, <1>2 DEF NotifyOne, WakeWorker, owner, Inv, OrderInv
<1> USE DEF workerFrame
<1>3. CASE TestRunning  BY <1>0, <1>3 DEF TestRunning, Inv, OrderInv
<1>4. CASE TestEmpty  BY <1>0, <1>4 DEF TestEmpty, NothingLeft, Inv, OrderInv
<1>5. CASE TestWait  BY <1>0, <1>5 DEF TestWait, Inv, OrderInv
<1>6. CASE Take
  BY <1>0, <1>6, TakeOrder DEF Take, Inv
<1>7. CASE Emit
  <2>1. OrderInv' /\ handled' \in Seq(1..MaxLogs)
    BY <1>7, EmitOrder
  <2>2. /\ UNCHANGED <<running, queue, logged, ppc, life, stillborn>>
        /\ wpc = "emit" /\ wpc' = "drain" /\ msg' = 0
    BY <1>7 DEF Emit
  <2>3. TypeOK'
    <3> HIDE DEF NoLostWakeup, LifeInv
    <3>1. 0 \in 0..MaxLogs
      BY LoggerAssumption
    <3> QED
      BY <1>0, <2>1, <2>2, <3>1
  <2>4. NoLostWakeup'
    BY <1>0, <2>2
  <2>5. LifeInv'
    BY <1>0, <2>2
  <2> HIDE DEF TypeOK, NoLostWakeup, LifeInv
  <2> QED
    BY <2>1, <2>3, <2>4, <2>5 DEF Inv
<1>8. CASE EmitCrashes  BY <1>0, <1>8 DEF EmitCrashes, Inv, OrderInv
<1>9. CASE Flushed  BY <1>0, <1>9 DEF Flushed, Inv, OrderInv
<1> USE DEF ownerFrame
<1>10. CASE CloseDerived  BY <1>0, <1>10 DEF CloseDerived, Inv, OrderInv
<1>11. CASE Construct  BY <1>0, <1>11 DEF Construct, worker, Inv, OrderInv
<1>12. CASE EnterBase  BY <1>0, <1>12 DEF EnterBase, Inv, OrderInv
<1>13. CASE Stop  BY <1>0, <1>13 DEF Stop, WakeWorker, Inv, OrderInv
<1>14. CASE TestFlush  BY <1>0, <1>14 DEF TestFlush, Inv, OrderInv
<1>15. CASE Join  BY <1>0, <1>15 DEF Join, WorkerGone, Inv, OrderInv
<1>16. CASE UNCHANGED vars
  BY <1>0, <1>16 DEF vars, worker, owner, Inv, OrderInv
<1> QED
  BY <1>1, <1>2, <1>3, <1>4, <1>5, <1>6, <1>7, <1>8, <1>9, <1>10, <1>11, <1>12,
     <1>13, <1>14, <1>15, <1>16
  DEF Next, WorkerProceeds, OwnerProceeds

LEMMA InvIsInvariant == Spec => []Inv
  BY InitInv, StepInv, PTL DEF Spec

-----------------------------------------------------------------------------
\* Sequences pieced together from consecutive numbers.
LEMMA OrderImpliesInOrder == Inv => InOrderOnce
<1> SUFFICES ASSUME Inv PROVE InOrderOnce
  OBVIOUS
<1> DEFINE one == IF msg = 0 THEN <<>> ELSE <<msg>>
           whole == (handled \o one) \o queue
           count == [i \in 1..logged |-> i]
<1>1. /\ handled \in Seq(Nat) /\ queue \in Seq(Nat) /\ msg \in Nat /\ logged \in Nat
  BY LoggerAssumption, SeqMonotonic DEF Inv, TypeOK
<1>2. /\ one \in Seq(Nat) /\ Len(one) = InHand
      /\ \A i \in 1..Len(one) : one[i] = msg
  BY <1>1 DEF InHand
<1> HIDE DEF one
<1>2a. Len(handled) \in Nat /\ Len(queue) \in Nat /\ InHand \in 0..1
  BY <1>1, LenProperties DEF InHand
<1>3. /\ handled \o one \in Seq(Nat)
      /\ Len(handled \o one) = Len(handled) + InHand
      /\ \A i \in 1..(Len(handled) + InHand) :
           (handled \o one)[i] = IF i <= Len(handled) THEN handled[i] ELSE one[i - Len(handled)]
  BY <1>1, <1>2, ConcatProperties
<1>4. \A i \in 1..(Len(handled) + InHand) : (handled \o one)[i] = i
  BY <1>1, <1>2, <1>2a, <1>3 DEF Inv, OrderInv, InHand
<1>5. /\ whole \in Seq(Nat)
      /\ Len(whole) = Len(handled \o one) + Len(queue)
      /\ \A i \in 1..(Len(handled \o one) + Len(queue)) :
           whole[i] = IF i <= Len(handled \o one) THEN (handled \o one)[i]
                      ELSE queue[i - Len(handled \o one)]
  BY <1>1, <1>3, ConcatProperties
<1> HIDE DEF whole
<1>5a. /\ logged = Len(handled) + InHand + Len(queue)
       /\ \A i \in 1..Len(queue) : queue[i] = Len(handled) + InHand + i
  BY DEF Inv, OrderInv
<1>5b. Len(whole) = logged
  BY <1>2a, <1>3, <1>5, <1>5a
<1>5c. ASSUME NEW i \in 1..logged PROVE whole[i] = i
  <2>1. CASE i <= Len(handled) + InHand
    <3>1. i \in 1..(Len(handled) + InHand)
      BY <1>1, <1>2a, <2>1
    <3>2. whole[i] = (handled \o one)[i]
      BY <1>1, <1>2a, <1>3, <1>5, <1>5a, <2>1
    <3> QED
      BY <1>4, <3>1, <3>2
  <2>2. CASE ~(i <= Len(handled) + InHand)
    <3>1. whole[i] = queue[i - (Len(handled) + InHand)]
      BY <1>2a, <1>3, <1>5, <1>5a, <2>2
    <3>2. i - (Len(handled) + InHand) \in 1..Len(queue)
      BY <1>1, <1>2a, <1>5a, <2>2
    <3> QED
      BY <1>1, <1>2a, <1>5a, <3>1, <3>2
  <2> QED
    BY <2>1, <2>2
<1>6. Len(whole) = logged /\ \A i \in 1..logged : whole[i] = i
  BY <1>5b, <1>5c
<1>7. count \in Seq(Nat) /\ Len(count) = logged /\ \A i \in 1..logged : count[i] = i
  BY <1>1
<1> HIDE DEF count
<1>8. whole = count
  BY <1>5, <1>6, <1>7, SeqEqual
<1> QED
  BY <1>8 DEF InOrderOnce, whole, count, one

\* No message is lost, handled twice or overtaken, for any number of them.
THEOREM MessagesInOrder == Spec => []InOrderOnce
  BY InvIsInvariant, OrderImpliesInOrder, PTL

\* Neither the worker nor the destructor sleeps through its wake-up.
THEOREM WakeupsArrive == Spec => []NoLostWakeup
<1>1. Inv => NoLostWakeup
  BY DEF Inv
<1> QED
  BY <1>1, InvIsInvariant, PTL

\* Only a worker misled by the uninitialised m_running_ leaves messages behind.
THEOREM StrandedMeansStillborn == Spec => []OnlyStillbornStrands
<1>1. Inv => OnlyStillbornStrands
  BY DEF Inv, LifeInv, OnlyStillbornStrands
<1> QED
  BY <1>1, InvIsInvariant, PTL

\* A destructor that returns has left nothing behind and nobody at work.
THEOREM ReturnsQuiet == Spec => []DestroyedIsQuiet
<1>1. Inv => DestroyedIsQuiet
  BY LenProperties DEF Inv, TypeOK, LifeInv, OrderInv, InHand, DestroyedIsQuiet
<1> QED
  BY <1>1, InvIsInvariant, PTL

\* The types of all variables; message numbers never exceed the number logged.
THEOREM TypeCorrect == Spec => []TypeOK
<1>1. Inv => TypeOK
  BY DEF Inv
<1> QED
  BY <1>1, InvIsInvariant, PTL

-----------------------------------------------------------------------------
(* The logger is the channel it promises to be.                            *)

\* The worker that starts too early finds nothing to emit, and as long as the
\* object is whole nothing crashes.
NothingYet ==
  /\ life = "starting" => logged = 0
  /\ life \in {"starting", "alive"} => ~Crashed

LEMMA NothingYetStep == Inv /\ NothingYet /\ [Next]_vars => NothingYet'
<1> SUFFICES ASSUME Inv, NothingYet, [Next]_vars PROVE NothingYet'
  OBVIOUS
<1>0. wpc = "emit" => logged # 0
  BY LenProperties DEF Inv, TypeOK, OrderInv, InHand
<1> USE <1>0 DEF NothingYet, Crashed
<1>1. ASSUME NEW p \in Producers, Push(p) \/ NotifyOne(p) PROVE NothingYet'
  BY <1>1 DEF Push, NotifyOne, WakeWorker, worker, owner
<1>2. CASE WorkerProceeds
  BY <1>2 DEF WorkerProceeds, TestRunning, TestEmpty, TestWait, Take, Emit, EmitCrashes,
              Flushed, workerFrame
<1>3. CASE CloseDerived \/ OwnerProceeds
  BY <1>3 DEF CloseDerived, OwnerProceeds, Construct, EnterBase, Stop, TestFlush, Join,
              WakeWorker, worker, ownerFrame
<1>4. CASE UNCHANGED vars
  BY <1>4 DEF vars, worker, owner
<1> QED
  BY <1>1, <1>2, <1>3, <1>4 DEF Next

LEMMA ChannelInit == Init => Channel!Init
  BY DEF Init, Channel!Init, StateOf, Crashed

\* A step that the users of the logger do not see.
Unseen == logged' = logged /\ handled' = handled /\ StateOf' = StateOf

LEMMA ChannelStep == Inv /\ NothingYet /\ [Next]_vars => [Channel!Next]_(Channel!vars)
<1> SUFFICES ASSUME Inv, NothingYet, [Next]_vars
             PROVE  Channel!Next \/ Unseen
  BY DEF Channel!vars, Unseen
<1> USE DEF StateOf, Crashed
<1>1. ASSUME NEW p \in Producers, Push(p) PROVE Channel!Send
  <2>1. wpc # "crashed"
    BY <1>1 DEF Push, NothingYet
  <2> QED
    BY <1>1, <2>1 DEF Push, worker, owner, Channel!Send
<1>2. ASSUME NEW p \in Producers, NotifyOne(p) PROVE Unseen
  BY <1>2 DEF NotifyOne, WakeWorker, owner, Unseen
<1>3. CASE TestRunning \/ TestEmpty \/ TestWait \/ Take \/ Flushed
  BY <1>3 DEF TestRunning, TestEmpty, TestWait, Take, Flushed, workerFrame, Unseen
<1>4. CASE Emit
  <2>1. msg = Len(handled) + 1 /\ Len(handled) < logged
    BY <1>4, LenProperties DEF Emit, Inv, TypeOK, OrderInv, InHand
  <2>2. handled' = Append(handled, Len(handled) + 1)
    BY <1>4, <2>1 DEF Emit, Handle
  <2> QED
    BY <1>4, <2>1, <2>2 DEF Emit, workerFrame, Channel!Next, Channel!Deliver
<1>5. CASE EmitCrashes
  <2>1. Len(handled) < logged
    BY <1>5, LenProperties DEF EmitCrashes, Inv, TypeOK, OrderInv, InHand
  <2>2. life \notin {"starting", "destroyed"}
    BY <1>5, <2>1, LenProperties DEF EmitCrashes, Inv, TypeOK, LifeInv, NothingYet
  <2> QED
    BY <1>5, <2>1, <2>2 DEF EmitCrashes, workerFrame, Channel!Next, Channel!Break
<1>6. CASE CloseDerived
  BY <1>6 DEF CloseDerived, ownerFrame, Channel!Next, Channel!Seal, Unseen
<1>7. CASE Construct \/ EnterBase \/ Stop \/ TestFlush
  BY <1>7 DEF Construct, EnterBase, Stop, TestFlush, WakeWorker, worker, ownerFrame, Unseen
<1>8. CASE Join
  <2>1. Len(handled) = logged
    BY <1>8, LenProperties DEF Join, WorkerGone, Inv, TypeOK, OrderInv, LifeInv, InHand
  <2> QED
    BY <1>8, <2>1 DEF Join, WorkerGone, ownerFrame, Channel!Next, Channel!Close
<1>9. CASE UNCHANGED vars
  BY <1>9 DEF vars, worker, owner, Unseen
<1> QED
  BY <1>1, <1>2, <1>3, <1>4, <1>5, <1>6, <1>7, <1>8, <1>9
  DEF Next, WorkerProceeds, OwnerProceeds, Channel!Next

\* The logger implements LogChannel: whatever its threads do, its users see
\* messages accepted, handed on in order, and a channel that closes empty.
THEOREM LoggerIsChannel == Spec => ImplementsChannel
<1>1. Init => NothingYet
  BY DEF Init, NothingYet, Crashed
<1> QED
  BY <1>1, InitInv, StepInv, NothingYetStep, ChannelInit, ChannelStep, PTL
  DEF Spec, ImplementsChannel, Channel!Spec
=============================================================================
