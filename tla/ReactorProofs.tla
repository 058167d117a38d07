------------------------------ MODULE ReactorProofs -----------------------------
(***************************************************************************)
(* The example reactor loses no wakeup and is a FIFO executor, for any     *)
(* number of events.                                                       *)
(***************************************************************************)
EXTENDS Reactor, TLAPS

Events == [kind : Kinds, id : Nat]

\* The queue holds the events taken + 1 .. emitted, in order.
Ordered ==
  /\ Len(q_) = emitted - taken
  /\ \A i \in 1 .. Len(q_) : q_[i].id = taken + i

Inv ==
  /\ q_ \in Seq(Events)
  /\ at \in {"test", "asleep", "callback", "notify", "returned", "exited"}
  /\ ev \in Events
  /\ notifying \subseteq Sources
  /\ emitted \in Nat /\ taken \in Nat
  /\ Ordered
  /\ NoLostNotify

\* A push, of one of the reactor's events, lengthens the queue by the next number.
LEMMA PushOrdered ==
  ASSUME Inv, NEW kind \in Kinds, push(Event(kind)), UNCHANGED taken
  PROVE  q_' \in Seq(Events) /\ emitted' \in Nat /\ Ordered'
<1> DEFINE e == Event(kind)
<1>1. e \in Events /\ e.id = emitted + 1
  BY DEF Inv, Event, Events
<1>2. q_' = Append(q_, e) /\ emitted' = emitted + 1
  BY DEF push
<1> HIDE DEF e
<1>3. q_' \in Seq(Events) /\ Len(q_') = Len(q_) + 1
  BY <1>1, <1>2 DEF Inv
<1>4. \A i \in 1 .. Len(q_') : q_'[i].id = taken + i
  <2> SUFFICES ASSUME NEW i \in 1 .. Len(q_') PROVE q_'[i].id = taken + i
    OBVIOUS
  <2>1. CASE i \in 1 .. Len(q_)
    BY <2>1, <1>2 DEF Inv, Ordered
  <2>2. CASE i = Len(q_) + 1
    BY <2>2, <1>1, <1>2 DEF Inv, Ordered
  <2> QED BY <2>1, <2>2, <1>3 DEF Inv
<1> QED BY <1>2, <1>3, <1>4 DEF Inv, Ordered

\* Taking the first event, which has the number after the last one taken.
LEMMA TakeOrdered ==
  ASSUME Inv, take
  PROVE  /\ q_' \in Seq(Events) /\ ev' \in Events /\ Ordered'
         /\ taken' = taken + 1 /\ taken < emitted
<1>1. q_ \in Seq(Events) /\ q_ # <<>> /\ Len(q_) \in Nat \ {0}
  BY DEF Inv, take
<1>2. Head(q_) = q_[1] /\ q_[1] \in Events /\ q_[1].id = taken + 1
  BY <1>1 DEF Inv, Ordered
<1>3. ev' = q_[1] /\ q_' = Tail(q_) /\ taken' = taken + 1 /\ UNCHANGED emitted
  BY <1>2 DEF take
<1>4. /\ q_' \in Seq(Events) /\ Len(q_') = Len(q_) - 1
      /\ \A i \in 1 .. Len(q_') : q_'[i] = q_[i + 1]
  BY <1>1, <1>3
<1>5. \A i \in 1 .. Len(q_') : q_'[i].id = taken' + i
  BY <1>1, <1>3, <1>4 DEF Inv, Ordered
<1> QED BY <1>1, <1>2, <1>3, <1>4, <1>5 DEF Inv, Ordered

\* Every step keeps numbers and order; main falls asleep only on an empty queue, and
\* what is pushed after that brings its own notify_one.
LEMMA InvStep == Inv /\ [LoopStep \/ Environment]_vars => Inv'
<1> SUFFICES ASSUME Inv, [LoopStep \/ Environment]_vars PROVE Inv'
  OBVIOUS
<1>1. ASSUME NEW t \in Sources, emit(t) PROVE Inv'
  <2>1. KindOf[t] \in Kinds
    BY DEF Sources, KindOf, Kinds
  <2>2. q_' \in Seq(Events) /\ emitted' \in Nat /\ Ordered'
    BY <1>1, <2>1, PushOrdered DEF emit
  <2> QED BY <1>1, <2>2 DEF emit, Inv, NoLostNotify
<1>2. ASSUME NEW t \in Sources, notify_one(t) PROVE Inv'
  BY <1>2 DEF notify_one, Inv, NoLostNotify, Ordered
<1>3. CASE spuriousWakeup \/ wait \/ notifySelf \/ returnFromMain
  BY <1>3 DEF spuriousWakeup, wait, notifySelf, returnFromMain, Inv, NoLostNotify,
              Ordered
<1>4. CASE take
  BY <1>4, TakeOrdered DEF take, Inv, NoLostNotify
<1>5. CASE callback
  <2>1. CASE ev.kind = "KEY_ENTER"
    <3>1. push(Event("EXIT")) /\ "EXIT" \in Kinds
      BY <1>5, <2>1 DEF callback, Kinds
    <3>2. q_' \in Seq(Events) /\ emitted' \in Nat /\ Ordered'
      BY <1>5, <3>1, PushOrdered DEF callback
    <3> QED BY <1>5, <2>1, <3>2 DEF callback, Inv, NoLostNotify
  <2>2. CASE ev.kind # "KEY_ENTER"
    BY <1>5, <2>2 DEF callback, Inv, NoLostNotify, Ordered
  <2> QED BY <2>1, <2>2
<1>6. CASE UNCHANGED vars
  BY <1>6 DEF vars, Inv, NoLostNotify, Ordered
<1> QED BY <1>1, <1>2, <1>3, <1>4, <1>5, <1>6 DEF LoopStep, Environment

\* The reactor starts with an empty queue and main awake.
LEMMA InvInit == Init => Inv
BY DEF Init, Inv, Events, Kinds, Sources, Ordered, NoLostNotify

THEOREM Invariance == Spec => []Inv
BY InvInit, InvStep, PTL DEF Spec

\* Whatever the ticker and the keyboard push while main tests, sleeps or runs a
\* callback, main never sleeps over an event with no notify_one on its way.
THEOREM WakeupsSuffice == Spec => []NoLostNotify
<1>1. Inv => NoLostNotify
  BY DEF Inv
<1> QED BY <1>1, Invariance, PTL

\* A push submits, taking an event executes, EXIT stops; the rest is not visible.
LEMMA StepRefines == Inv /\ [LoopStep \/ Environment]_vars => [Ex!Next]_Ex!vars
<1> SUFFICES ASSUME Inv, [LoopStep \/ Environment]_vars PROVE [Ex!Next]_Ex!vars
  OBVIOUS
<1> USE DEF Ex!Next, Ex!vars, Ended
<1>1. ASSUME NEW t \in Sources, emit(t) PROVE Ex!Submit
  BY <1>1 DEF emit, push, Ex!Submit
<1>2. ASSUME NEW t \in Sources, notify_one(t) PROVE UNCHANGED Ex!vars
  BY <1>2 DEF notify_one
<1>3. CASE spuriousWakeup \/ wait \/ notifySelf \/ returnFromMain
  BY <1>3 DEF spuriousWakeup, wait, notifySelf, returnFromMain
<1>4. CASE take
  <2>1. taken' = taken + 1 /\ taken < emitted
    BY <1>4, TakeOrdered
  <2> QED BY <1>4, <2>1 DEF take, Ex!Execute
<1>5. CASE callback
  BY <1>5 DEF callback, push, Ex!Submit, Ex!Stop
<1>6. CASE UNCHANGED vars
  BY <1>6 DEF vars
<1> QED BY <1>1, <1>2, <1>3, <1>4, <1>5, <1>6 DEF LoopStep, Environment

\* The reactor implements the Executor: its events are handled in the order in which
\* they were pushed, each once, and none after EXIT.
THEOREM Refinement == Spec => Ex!Spec
<1>1. Init => Ex!Init
  BY DEF Init, Ex!Init, Ended
<1> QED BY <1>1, StepRefines, Invariance, PTL DEF Spec, Ex!Spec
===============================================================================
