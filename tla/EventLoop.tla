------------------------------- MODULE EventLoop -------------------------------
(***************************************************************************)
(* One EventLoop of Netmux/reactor (EventLoop.cc): the thread that runs    *)
(* loop(), and the other threads that hand it work with queueInLoop() or   *)
(* end it with quit().                                                     *)
(*                                                                         *)
(* Functors are numbered in the order in which they enter                  *)
(* pendingFunctors_: mutex_ makes that order total, and every access to    *)
(* pendingFunctors_ is one critical section, hence one atomic step.  The   *)
(* eventfd is the number of wakeups it holds.  User code (the init         *)
(* callback, a channel's callback, a functor's body) is the loop's thread  *)
(* in one of the states UserCode, where it may call queueInLoop and quit   *)
(* any number of times before it returns.                                  *)
(***************************************************************************)
EXTENDS Naturals, Sequences

CONSTANTS
  LoopThread,  \* the thread whose id is threadId_
  Threads,     \* the other threads that hold a pointer to the loop
  MaxTasks,    \* bound: number of functors queued in a behaviour
  EventfdMax   \* the largest count an eventfd holds (2^64 - 2 in the kernel)

ASSUME ThreadAssumption == LoopThread \notin Threads
ASSUME BoundAssumption == MaxTasks \in Nat /\ EventfdMax \in Nat \ {0}

VARIABLES
  pc,                       \* where the loop's thread is
  call,                     \* for each thread, the call it is in the middle of
  quit_,
  callingPendingFunctors_,
  pendingFunctors_,
  functors,                 \* the local vector of doPendingFunctors
  wakeupFd_,                \* the count of the eventfd
  activeChannel_,           \* channels reported by poll and not handled yet
  queued,                   \* history: number of functors queued so far
  ran,                      \* history: the last functor started, 0 for none
  quiet                     \* history: functors the loop's own thread queued
                            \* before loop()

loopVars == <<pc, quit_, callingPendingFunctors_, functors, activeChannel_>>
history == <<queued, ran, quiet>>
vars == <<loopVars, call, pendingFunctors_, wakeupFd_, history>>

AllThreads == Threads \cup {LoopThread}

UserCode == {"setup", "callback", "functor"}

\* The main thread's or threadFunc's view of a loop just constructed.
Init ==
  /\ pc = "setup"
  /\ call = [t \in AllThreads |-> "idle"]
  /\ quit_ = FALSE
  /\ callingPendingFunctors_ = FALSE
  /\ pendingFunctors_ = <<>>
  /\ functors = <<>>
  /\ wakeupFd_ = 0
  /\ activeChannel_ = {}
  /\ queued = 0
  /\ ran = 0
  /\ quiet = {}

-------------------------------------------------------------------------------
(***************************************************************************)
(* Calls into the loop, from any thread.                                   *)
(***************************************************************************)

isInLoopThread(t) == t = LoopThread

\* A thread between two calls; the loop's own thread calls from user code.
MayCall(t) ==
  /\ call[t] = "idle"
  /\ isInLoopThread(t) => pc \in UserCode

\* The count after a write of 1.  At its largest count the non-blocking
\* eventfd refuses the write, which wakeup() only logs.
Wakeup == IF wakeupFd_ < EventfdMax THEN wakeupFd_ + 1 ELSE wakeupFd_

\* Mutated form of NeedsWakeup: without callingPendingFunctors_.
NeedsWakeupOutside(t) == ~isInLoopThread(t)

\* Mutated form of NeedsWakeup: && in place of ||.
NeedsWakeupBoth(t) == ~isInLoopThread(t) /\ callingPendingFunctors_

NeedsWakeup(t) == ~isInLoopThread(t) \/ callingPendingFunctors_

\* queueInLoop up to the unlock: the functor is in the queue.
QueueFunctor(t) ==
  /\ MayCall(t)
  /\ queued < MaxTasks
  /\ pendingFunctors_' = Append(pendingFunctors_, queued + 1)
  /\ queued' = queued + 1
  /\ quiet' = IF isInLoopThread(t) /\ pc = "setup"
              THEN quiet \cup {queued + 1} ELSE quiet
  /\ call' = [call EXCEPT ![t] = "queueing"]
  /\ UNCHANGED <<loopVars, wakeupFd_, ran>>

\* queueInLoop after the unlock.
QueueWakeup(t) ==
  /\ call[t] = "queueing"
  /\ wakeupFd_' = IF NeedsWakeup(t) THEN Wakeup ELSE wakeupFd_
  /\ call' = [call EXCEPT ![t] = "idle"]
  /\ UNCHANGED <<loopVars, pendingFunctors_, history>>

QuitFlag(t) ==
  /\ MayCall(t)
  /\ quit_' = TRUE
  /\ call' = [call EXCEPT ![t] = "quitting"]
  /\ UNCHANGED <<pc, callingPendingFunctors_, functors, activeChannel_,
                 pendingFunctors_, wakeupFd_, history>>

\* Mutated form of QuitWakeup: only the flag is set.
QuitWithoutWakeup(t) ==
  /\ call[t] = "quitting"
  /\ call' = [call EXCEPT ![t] = "idle"]
  /\ UNCHANGED <<loopVars, pendingFunctors_, wakeupFd_, history>>

QuitWakeup(t) ==
  /\ call[t] = "quitting"
  /\ wakeupFd_' = IF isInLoopThread(t) THEN wakeupFd_ ELSE Wakeup
  /\ call' = [call EXCEPT ![t] = "idle"]
  /\ UNCHANGED <<loopVars, pendingFunctors_, history>>

-------------------------------------------------------------------------------
(***************************************************************************)
(* The loop's thread.                                                      *)
(***************************************************************************)

\* The loop's thread goes from one place to another, not out of a call.
Goto(from, to) ==
  /\ pc = from
  /\ call[LoopThread] = "idle"
  /\ pc' = to

\* Entry of loop(): a quit requested earlier is forgotten.
LoopEnter ==
  /\ Goto("setup", "check")
  /\ quit_' = FALSE
  /\ UNCHANGED <<call, callingPendingFunctors_, pendingFunctors_, functors,
                 wakeupFd_, activeChannel_, history>>

\* while(!quit_)
CheckQuit ==
  /\ Goto("check", IF quit_ THEN "stopped" ELSE "poll")
  /\ activeChannel_' = {}
  /\ UNCHANGED <<call, quit_, callingPendingFunctors_, pendingFunctors_,
                 functors, wakeupFd_, history>>

\* poll() returns with ready channels.  The wakeup channel is level triggered,
\* but a full result array may leave it for the next round.
PollReady ==
  /\ Goto("poll", "dispatch")
  /\ activeChannel_' \in (SUBSET {"wakeup", "io"}) \ {{}}
  /\ "wakeup" \in activeChannel_' => wakeupFd_ > 0
  /\ UNCHANGED <<call, quit_, callingPendingFunctors_, pendingFunctors_,
                 functors, wakeupFd_, history>>

\* Mutated form of PollTimeout: poll() without timeout.
PollForever == FALSE /\ UNCHANGED vars

\* poll() returns with nothing: kPollTImeMs have passed, or EINTR.
PollTimeout ==
  /\ Goto("poll", "dispatch")
  /\ wakeupFd_ = 0
  /\ UNCHANGED <<call, quit_, callingPendingFunctors_, pendingFunctors_,
                 functors, activeChannel_, wakeupFd_, history>>

\* handleEvent of the wakeup channel: EventLoop::handleRead empties the eventfd.
HandleRead ==
  /\ Goto("dispatch", "dispatch")
  /\ "wakeup" \in activeChannel_
  /\ activeChannel_' = activeChannel_ \ {"wakeup"}
  /\ wakeupFd_' = 0
  /\ UNCHANGED <<call, quit_, callingPendingFunctors_, pendingFunctors_,
                 functors, history>>

\* handleEvent of any other channel calls user code.
HandleEvent ==
  /\ Goto("dispatch", "callback")
  /\ "io" \in activeChannel_
  /\ activeChannel_' = activeChannel_ \ {"io"}
  /\ UNCHANGED <<call, quit_, callingPendingFunctors_, pendingFunctors_,
                 functors, wakeupFd_, history>>

CallbackReturns ==
  /\ Goto("callback", "dispatch")
  /\ UNCHANGED <<call, quit_, callingPendingFunctors_, pendingFunctors_,
                 functors, wakeupFd_, activeChannel_, history>>

\* Mutated form of SwapPending: the queue is copied and not emptied.
CopyPending ==
  /\ functors' = pendingFunctors_
  /\ pendingFunctors_' = pendingFunctors_

SwapPending ==
  /\ functors' = pendingFunctors_
  /\ pendingFunctors_' = <<>>

\* doPendingFunctors up to the unlock.
DoPendingFunctors ==
  /\ Goto("dispatch", "run")
  /\ activeChannel_ = {}
  /\ callingPendingFunctors_' = TRUE
  /\ SwapPending
  /\ UNCHANGED <<call, quit_, wakeupFd_, activeChannel_, history>>

RunFunctor ==
  /\ Goto("run", "functor")
  /\ functors # <<>>
  /\ ran' = Head(functors)
  /\ functors' = Tail(functors)
  /\ UNCHANGED <<call, quit_, callingPendingFunctors_, pendingFunctors_,
                 wakeupFd_, activeChannel_, queued, quiet>>

FunctorReturns ==
  /\ Goto("functor", "run")
  /\ UNCHANGED <<call, quit_, callingPendingFunctors_, pendingFunctors_,
                 functors, wakeupFd_, activeChannel_, history>>

\* Mutated form of PendingDone: callingPendingFunctors_ is not reset.
CallingKept ==
  /\ Goto("run", "check")
  /\ functors = <<>>
  /\ UNCHANGED <<call, quit_, callingPendingFunctors_, pendingFunctors_, functors,
                 wakeupFd_, activeChannel_, history>>

\* doPendingFunctors after its last functor.
PendingDone ==
  /\ Goto("run", "check")
  /\ functors = <<>>
  /\ callingPendingFunctors_' = FALSE
  /\ UNCHANGED <<call, quit_, pendingFunctors_, functors, wakeupFd_,
                 activeChannel_, history>>

-------------------------------------------------------------------------------
\* What the loop's thread does without waiting for a user or for the kernel.
LoopStep ==
  \/ CheckQuit
  \/ HandleRead
  \/ HandleEvent
  \/ DoPendingFunctors
  \/ RunFunctor
  \/ PendingDone

UserReturns == LoopEnter \/ CallbackReturns \/ FunctorReturns

CallStep(t) ==
  \/ QueueFunctor(t)
  \/ QueueWakeup(t)
  \/ QuitFlag(t)
  \/ QuitWakeup(t)

Next ==
  \/ LoopStep
  \/ UserReturns
  \/ PollReady
  \/ PollTimeout
  \/ \E t \in AllThreads : CallStep(t)

Spec == Init /\ [][Next]_vars

(***************************************************************************)
(* Every thread is scheduled, a call into the loop that was begun is       *)
(* completed, user code returns, and poll() returns when the wakeup        *)
(* channel is readable.  Nobody has to call anything, no other channel     *)
(* has to become ready and, in FairSpec, the 10 s timeout of poll() need   *)
(* never be reached: what FairSpec guarantees, the wakeups guarantee.      *)
(***************************************************************************)
Fairness ==
  /\ WF_vars(LoopStep)
  /\ WF_vars(wakeupFd_ > 0 /\ PollReady)
  /\ SF_vars(LoopEnter)
  /\ SF_vars(CallbackReturns)
  /\ SF_vars(FunctorReturns)
  /\ \A t \in AllThreads : WF_vars(QueueWakeup(t)) /\ WF_vars(QuitWakeup(t))

FairSpec == Spec /\ Fairness

-------------------------------------------------------------------------------
(***************************************************************************)
(* Properties.                                                             *)
(***************************************************************************)

\* Every variable holds a value of its kind, and callingPendingFunctors_, which
\* queueInLoop reads from any thread, is set just while doPendingFunctors runs.
TypeOK ==
  /\ pc \in {"setup", "check", "poll", "dispatch", "callback", "run",
             "functor", "stopped"}
  /\ call \in [AllThreads -> {"idle", "queueing", "quitting"}]
  /\ quit_ \in BOOLEAN
  /\ callingPendingFunctors_ \in BOOLEAN
  /\ pendingFunctors_ \in Seq(Nat)
  /\ functors \in Seq(Nat)
  /\ wakeupFd_ \in 0 .. EventfdMax
  /\ activeChannel_ \subseteq {"wakeup", "io"}
  /\ queued \in Nat
  /\ ran \in Nat
  /\ quiet \subseteq Nat
  /\ callingPendingFunctors_ <=> pc \in {"run", "functor"}

\* A thread has queued a functor and its write to the eventfd is still to come.
Announcing(t) == call[t] = "queueing" /\ NeedsWakeup(t)

Announced == wakeupFd_ > 0 \/ \E t \in AllThreads : Announcing(t)

Pending == {pendingFunctors_[i] : i \in 1 .. Len(pendingFunctors_)}

\* The loop never sleeps in poll() on queued work: while it is there and the
\* queue is not empty, a wakeup is unread or a thread is about to write one.
\* The only exception are functors the loop's own thread queued before it called
\* loop(), for which queueInLoop writes no wakeup.
NoLostWakeup ==
  pc = "poll" => Pending \subseteq quiet \/ Announced

\* The loop never sleeps in poll() through a quit(): while it is there with
\* quit_ set, a wakeup is unread or the thread in quit() is about to write one.
NoLostQuit ==
  pc = "poll" /\ quit_ =>
    wakeupFd_ > 0 \/ \E t \in Threads : call[t] = "quitting"

\* The loop implements the Executor: however threads, callbacks and functors
\* interleave their calls, functors run in the order in which they were queued,
\* each exactly once, until the loop leaves its while.
Exec == INSTANCE Executor
          WITH submitted <- queued, executed <- ran, stopped <- pc = "stopped"

ImplementsExecutor == Exec!Spec

\* A queued functor is run, unless the loop ends: the wakeups alone see to it,
\* without the timeout of poll().
EveryTaskRuns ==
  \A f \in 1 .. MaxTasks :
    (f \in Pending /\ f \notin quiet) ~> (ran >= f \/ pc = "stopped")

\* If poll()'s timeout is reached in the end, also the functors queued by the
\* loop's own thread before loop(), which no wakeup announces, are run.
EveryTaskRunsByTimeout ==
  WF_vars(PollTimeout) =>
  \A f \in 1 .. MaxTasks : (f \in Pending) ~> (ran >= f \/ pc = "stopped")

\* A quit() made once loop() has begun ends the loop.  (One made earlier is
\* forgotten by loop(): see LoopEnter.)
QuitStops == (quit_ /\ pc # "setup") ~> (pc = "stopped")
===============================================================================
