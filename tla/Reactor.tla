-------------------------------- MODULE Reactor --------------------------------
(***************************************************************************)
(* loop/EventLoopExample.cpp: a Reactor, whose loop() main runs, and its   *)
(* event sources, the threads ticker and kbd.  Events are numbered in the  *)
(* order in which they are pushed.  A critical section of m_ is one step;  *)
(* notify_one comes after it.                                              *)
(***************************************************************************)
EXTENDS Naturals, Sequences

CONSTANT MaxEvents  \* bound: the sources emit while fewer events have been pushed

VARIABLES
  q_,
  at,        \* main: "test"s and waits in cv_, "asleep" there, in a "callback",
             \* in "notify" of its own emit(), "returned" from loop(), "exited"
  ev,        \* the event whose callbacks main runs
  notifying, \* the sources between their push and their notify_one
  emitted,   \* history: number of events pushed
  taken      \* history: the last event taken out of q_

Kinds == {"TICK", "KEY_ENTER", "EXIT"}

Sources == {"ticker", "kbd"}

\* What each source emits.
KindOf == [ticker |-> "TICK", kbd |-> "KEY_ENTER"]

Event(kind) == [kind |-> kind, id |-> emitted + 1]

Init ==
  /\ q_ = <<>>
  /\ at = "test"
  /\ ev = [kind |-> "TICK", id |-> 0]
  /\ notifying = {}
  /\ emitted = 0
  /\ taken = 0

push(e) ==
  /\ q_' = Append(q_, e)
  /\ emitted' = emitted + 1

-------------------------------------------------------------------------------
(***************************************************************************)
(* emit() of a source: the ticker's on its own, the keyboard's on Enter.   *)
(* The threads go on, detached, until the process ends.                    *)
(***************************************************************************)

emit(t) ==
  /\ at # "exited"
  /\ t \notin notifying
  /\ emitted < MaxEvents
  /\ push(Event(KindOf[t]))
  /\ notifying' = notifying \cup {t}
  /\ UNCHANGED <<at, ev, taken>>

notify_one(t) ==
  /\ at # "exited"
  /\ t \in notifying
  /\ notifying' = notifying \ {t}
  /\ at' = IF at = "asleep" THEN "test" ELSE at
  /\ UNCHANGED <<q_, ev, emitted, taken>>

-------------------------------------------------------------------------------
(***************************************************************************)
(* main: loop() and what follows it.                                       *)
(***************************************************************************)

\* Mutated form of wait: without its predicate.
WaitAtOnce ==
  /\ at = "test"
  /\ at' = "asleep"
  /\ UNCHANGED <<q_, ev, notifying, emitted, taken>>

wait ==
  /\ at = "test"
  /\ q_ = <<>>
  /\ at' = "asleep"
  /\ UNCHANGED <<q_, ev, notifying, emitted, taken>>

spuriousWakeup ==
  /\ at = "asleep"
  /\ at' = "test"
  /\ UNCHANGED <<q_, ev, notifying, emitted, taken>>

\* Mutated form of take: the newest event first.
TakeLast ==
  /\ at = "test"
  /\ q_ # <<>>
  /\ ev' = q_[Len(q_)]
  /\ q_' = SubSeq(q_, 1, Len(q_) - 1)
  /\ taken' = ev'.id
  /\ at' = "callback"
  /\ UNCHANGED <<notifying, emitted>>

take ==
  /\ at = "test"
  /\ q_ # <<>>
  /\ ev' = Head(q_)
  /\ q_' = Tail(q_)
  /\ taken' = ev'.id
  /\ at' = "callback"
  /\ UNCHANGED <<notifying, emitted>>

\* Mutated form of callback: loop() does not end with EXIT.
CallbackOnly ==
  /\ at = "callback"
  /\ IF ev.kind = "KEY_ENTER" THEN push(Event("EXIT")) /\ at' = "notify"
     ELSE at' = "test" /\ UNCHANGED <<q_, emitted>>
  /\ UNCHANGED <<ev, notifying, taken>>

\* KEY_ENTER's callback emits EXIT; EXIT's ends the loop.
callback ==
  /\ at = "callback"
  /\ IF ev.kind = "KEY_ENTER" THEN push(Event("EXIT")) /\ at' = "notify"
     ELSE /\ at' = IF ev.kind = "EXIT" THEN "returned" ELSE "test"
          /\ UNCHANGED <<q_, emitted>>
  /\ UNCHANGED <<ev, notifying, taken>>

\* The notify_one of that emit() finds nobody waiting.
notifySelf ==
  /\ at = "notify"
  /\ at' = "test"
  /\ UNCHANGED <<q_, ev, notifying, emitted, taken>>

\* main detaches the threads and returns; r is gone, and then the process.
returnFromMain ==
  /\ at = "returned"
  /\ at' = "exited"
  /\ UNCHANGED <<q_, ev, notifying, emitted, taken>>

LoopStep == wait \/ take \/ callback \/ notifySelf \/ returnFromMain

\* The condition variable's spurious wakeups, and the sources.
Environment == spuriousWakeup \/ \E t \in Sources : emit(t) \/ notify_one(t)

vars == <<q_, at, ev, notifying, emitted, taken>>

Spec == Init /\ [][LoopStep \/ Environment]_vars

-------------------------------------------------------------------------------
Ended == at \in {"returned", "exited"}

TypeOK ==
  /\ \A i \in DOMAIN q_ : q_[i].kind \in Kinds
  /\ at \in {"test", "asleep", "callback", "notify", "returned", "exited"}
  /\ ev.kind \in Kinds
  /\ notifying \subseteq Sources

\* main does not sleep over an event unless its notify_one is still to come.
NoLostNotify == at = "asleep" /\ q_ # <<>> => notifying # {}

Ex == INSTANCE Executor WITH submitted <- emitted, executed <- taken, stopped <- Ended

\* As long as there are events and the loop has not ended, it goes on taking one.
GoesOn == []<>(q_ = <<>> \/ at = "callback" \/ Ended)

\* Once Enter has been pressed, the program ends.
EnterEnds == (\E i \in DOMAIN q_ : q_[i].kind = "KEY_ENTER") ~> at = "exited"
===============================================================================
