------------------------------- MODULE Executor -------------------------------
(***************************************************************************)
(* What an EventLoop promises to the threads that hand work to it, without *)
(* queue, lock, eventfd or poller: tasks are numbered in the order in      *)
(* which they are submitted and run one at a time in that order, each of   *)
(* them exactly once, until the executor is stopped.  A stopped executor   *)
(* runs nothing more; what it had not run by then is dropped.              *)
(***************************************************************************)
EXTENDS Naturals

VARIABLES
  submitted,  \* number of tasks submitted so far
  executed,   \* the tasks 1..executed have been run, and no other has
  stopped

vars == <<submitted, executed, stopped>>

Init ==
  /\ submitted = 0
  /\ executed = 0
  /\ stopped = FALSE

Submit ==
  /\ submitted' = submitted + 1
  /\ UNCHANGED <<executed, stopped>>

Execute ==
  /\ ~stopped
  /\ executed < submitted
  /\ executed' = executed + 1
  /\ UNCHANGED <<submitted, stopped>>

Stop ==
  /\ ~stopped
  /\ stopped' = TRUE
  /\ UNCHANGED <<submitted, executed>>

Next == Submit \/ Execute \/ Stop

Spec == Init /\ [][Next]_vars
===============================================================================
