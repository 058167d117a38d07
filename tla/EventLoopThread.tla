---------------------------- MODULE EventLoopThread ----------------------------
(***************************************************************************)
(* An EventLoopThread (Netmux/reactor/EventLoopThread.cc, utils/Thread.cc):*)
(* its owner starts a thread, waits until that thread has published the    *)
(* EventLoop on its stack, uses the loop, and in the destructor quits it   *)
(* and joins the thread.  The loop is the module EventLoop, instance L,    *)
(* here with the life time of a local variable of threadFunc.              *)
(*                                                                         *)
(* Every access to loop_ under mutex_ is one critical section and one      *)
(* step, except the last: threadFunc withdraws loop_ in one step and       *)
(* releases mutex_, a member of the object, in the next.  The two reads of *)
(* loop_ without mutex_, in the return of startLoop and in the destructor, *)
(* are steps of their own.                                                 *)
(***************************************************************************)
EXTENDS Naturals, Sequences

CONSTANTS
  LoopThread,  \* the thread that runs threadFunc, and the loop on its stack
  Threads,     \* the other threads
  Owner,       \* the thread that owns the EventLoopThread
  NoLoop,      \* nullptr
  MaxTasks,    \* bound: number of functors queued in a behaviour
  EventfdMax   \* the largest count an eventfd holds

ASSUME OwnerAssumption == Owner \in Threads /\ LoopThread \notin Threads
ASSUME PointerAssumption == NoLoop # LoopThread
ASSUME BoundAssumption == MaxTasks \in Nat /\ EventfdMax \in Nat \ {0}

VARIABLES
  pc, call, quit_, callingPendingFunctors_, pendingFunctors_, functors,
  wakeupFd_, activeChannel_, queued, ran, quiet,  \* those of the loop
  owner,      \* where the owner is
  thread,     \* where threadFunc is
  sem,        \* the semaphore of Thread::start
  loop_,
  result,     \* what startLoop returned
  overtaken,  \* history: the destructor's quit() came before loop()
  userQuit    \* history: user code has called quit()

loopVars == <<pc, call, quit_, callingPendingFunctors_, pendingFunctors_,
              functors, wakeupFd_, activeChannel_, queued, ran, quiet>>
threadVars == <<owner, thread, sem, loop_, result, overtaken, userQuit>>
vars == <<loopVars, threadVars>>

L == INSTANCE EventLoop

Init ==
  /\ L!Init
  /\ owner = "new"
  /\ thread = "none"
  /\ sem = 0
  /\ loop_ = NoLoop
  /\ result = NoLoop
  /\ overtaken = FALSE
  /\ userQuit = FALSE

-------------------------------------------------------------------------------
(***************************************************************************)
(* startLoop, in the owner's thread.                                       *)
(***************************************************************************)

\* Mutated form of Start: the semaphore is initialised with 1.
StartAtOne ==
  /\ owner = "new"
  /\ owner' = "semwait"
  /\ thread' = "created"
  /\ sem' = 1
  /\ UNCHANGED <<loopVars, loop_, result, overtaken, userQuit>>

\* Thread::start up to sem_wait.
Start ==
  /\ owner = "new"
  /\ owner' = "semwait"
  /\ thread' = "created"
  /\ UNCHANGED <<loopVars, sem, loop_, result, overtaken, userQuit>>

SemWait ==
  /\ owner = "semwait"
  /\ sem > 0
  /\ owner' = "lock"
  /\ sem' = sem - 1
  /\ UNCHANGED <<loopVars, thread, loop_, result, overtaken, userQuit>>

\* while(loop_==nullptr), with the wait releasing mutex_ in the same step.
CheckLoop ==
  /\ owner = "lock"
  /\ thread # "unlock"
  /\ owner' = IF loop_ = NoLoop THEN "asleep" ELSE "return"
  /\ UNCHANGED <<loopVars, thread, sem, loop_, result, overtaken, userQuit>>

\* Mutated form of SpuriousWakeup: if in place of while.
WakeupWithoutRecheck ==
  /\ owner = "asleep"
  /\ owner' = "return"
  /\ UNCHANGED <<loopVars, thread, sem, loop_, result, overtaken, userQuit>>

\* cond_.wait may return without a notification.
SpuriousWakeup ==
  /\ owner = "asleep"
  /\ owner' = "lock"
  /\ UNCHANGED <<loopVars, thread, sem, loop_, result, overtaken, userQuit>>

\* return loop_, read again after the unlock.
ReturnLoop ==
  /\ owner = "return"
  /\ owner' = "running"
  /\ result' = loop_
  /\ UNCHANGED <<loopVars, thread, sem, loop_, overtaken, userQuit>>

-------------------------------------------------------------------------------
(***************************************************************************)
(* threadFunc.                                                             *)
(***************************************************************************)

\* Mutated form of Post: loop_ is published before the init callback.
PostPublished ==
  /\ thread = "created"
  /\ thread' = "callback"
  /\ sem' = sem + 1
  /\ loop_' = LoopThread
  /\ UNCHANGED <<loopVars, owner, result, overtaken, userQuit>>

\* The new thread posts the semaphore, constructs the loop and calls callback_.
Post ==
  /\ thread = "created"
  /\ thread' = "callback"
  /\ sem' = sem + 1
  /\ UNCHANGED <<loopVars, owner, loop_, result, overtaken, userQuit>>

\* Mutated form of Publish: no notify_one.
PublishSilently ==
  /\ thread = "callback"
  /\ call[LoopThread] = "idle"
  /\ thread' = "loop"
  /\ loop_' = LoopThread
  /\ UNCHANGED <<loopVars, owner, sem, result, overtaken, userQuit>>

\* callback_ has returned: the critical section that sets and announces loop_.
Publish ==
  /\ thread = "callback"
  /\ call[LoopThread] = "idle"
  /\ thread' = "loop"
  /\ loop_' = LoopThread
  /\ owner' = IF owner = "asleep" THEN "lock" ELSE owner
  /\ UNCHANGED <<loopVars, sem, result, overtaken, userQuit>>

\* loop.loop()
InLoop ==
  /\ thread = "loop"
  /\ L!LoopStep
  /\ UNCHANGED threadVars

EnterLoop ==
  /\ thread = "loop"
  /\ L!LoopEnter
  /\ UNCHANGED threadVars

CallbackReturns == L!CallbackReturns /\ UNCHANGED threadVars

FunctorReturns == L!FunctorReturns /\ UNCHANGED threadVars

PollReady == L!PollReady /\ UNCHANGED threadVars

PollTimeout == L!PollTimeout /\ UNCHANGED threadVars

\* After loop(): the pointer is withdrawn, with mutex_ held until threadFunc returns.
Withdraw ==
  /\ thread = "loop"
  /\ pc = "stopped"
  /\ thread' = "unlock"
  /\ loop_' = NoLoop
  /\ UNCHANGED <<loopVars, owner, sem, result, overtaken, userQuit>>

\* threadFunc returns: its lock goes first and releases mutex_ ...
Unlock ==
  /\ thread = "unlock"
  /\ thread' = "end"
  /\ UNCHANGED <<loopVars, owner, sem, loop_, result, overtaken, userQuit>>

\* ... then the loop is destroyed, and the thread ends.
ThreadExit ==
  /\ thread = "end"
  /\ thread' = "exited"
  /\ UNCHANGED <<loopVars, owner, sem, loop_, result, overtaken, userQuit>>

-------------------------------------------------------------------------------
(***************************************************************************)
(* Those who use the loop: code on the loop's own thread, which has it from*)
(* callback_ on, and threads that have it from the owner.  They know when  *)
(* not to begin a call any more, but may be caught in the middle of one.   *)
(***************************************************************************)

HasLoop(t) ==
  IF t = LoopThread THEN thread \in {"callback", "loop"}
  ELSE thread = "loop" /\ owner = "running" /\ result = LoopThread

Call(t) ==
  /\ HasLoop(t)
  /\ \/ L!QueueFunctor(t) /\ UNCHANGED userQuit
     \/ L!QuitFlag(t) /\ userQuit' = TRUE
  /\ UNCHANGED <<owner, thread, sem, loop_, result, overtaken>>

FinishCall(t) ==
  /\ L!QueueWakeup(t) \/ L!QuitWakeup(t)
  /\ t = Owner => owner = "running"
  /\ UNCHANGED threadVars

-------------------------------------------------------------------------------
(***************************************************************************)
(* The destructor, in the owner's thread.                                  *)
(***************************************************************************)

\* if(loop_!=nullptr), read without mutex_; ~Thread detaches otherwise.
Destroy ==
  /\ owner \in {"new", "running"}
  /\ call[Owner] = "idle"
  /\ owner' = IF loop_ = NoLoop THEN "gone" ELSE "quit"
  /\ UNCHANGED <<loopVars, thread, sem, loop_, result, overtaken, userQuit>>

\* The two halves of loop_->quit(), on the loop that the destructor has seen in its
\* test: LoopOrUserQuit says when that loop may be gone, here a flag nobody reads.
Quit ==
  /\ owner = "quit"
  /\ L!QuitFlag(Owner)
  /\ owner' = "quitting"
  /\ overtaken' = (pc = "setup")
  /\ UNCHANGED <<thread, sem, loop_, result, userQuit>>

\* Mutated form of QuitWakeup: only the flag is set.
NoWakeup ==
  /\ owner = "quitting"
  /\ owner' = "joining"
  /\ call' = [call EXCEPT ![Owner] = "idle"]
  /\ UNCHANGED <<pc, quit_, callingPendingFunctors_, pendingFunctors_, functors,
                 wakeupFd_, activeChannel_, queued, ran, quiet, thread, sem,
                 loop_, result, overtaken, userQuit>>

QuitWakeup ==
  /\ owner = "quitting"
  /\ L!QuitWakeup(Owner)
  /\ owner' = "joining"
  /\ UNCHANGED <<thread, sem, loop_, result, overtaken, userQuit>>

\* Mutated form of Join: the destructor does not wait for the thread.
LeaveRunning ==
  /\ owner = "joining"
  /\ owner' = "gone"
  /\ UNCHANGED <<loopVars, thread, sem, loop_, result, overtaken, userQuit>>

Join ==
  /\ owner = "joining"
  /\ thread = "exited"
  /\ owner' = "gone"
  /\ UNCHANGED <<loopVars, thread, sem, loop_, result, overtaken, userQuit>>

-------------------------------------------------------------------------------
Gone ==
  /\ owner = "gone"
  /\ UNCHANGED vars

OwnerStep == SemWait \/ CheckLoop \/ ReturnLoop \/ Quit \/ QuitWakeup \/ Join

Next ==
  \/ Start \/ OwnerStep \/ SpuriousWakeup \/ Destroy
  \/ Post \/ Publish \/ Withdraw \/ Unlock \/ ThreadExit
  \/ InLoop \/ EnterLoop \/ CallbackReturns \/ FunctorReturns
  \/ PollReady \/ PollTimeout
  \/ \E t \in L!AllThreads : Call(t) \/ FinishCall(t)
  \/ Gone

Spec == Init /\ [][Next]_vars

(***************************************************************************)
(* The two threads are scheduled, user code returns, begun calls are       *)
(* completed and poll() returns when the eventfd is readable.  Nobody has  *)
(* to start or to destroy the object, and neither a spurious wakeup nor    *)
(* the timeout of poll() has to come.                                      *)
(***************************************************************************)
Fairness ==
  /\ WF_vars(OwnerStep)
  /\ WF_vars(Post) /\ SF_vars(Publish)
  /\ WF_vars(Withdraw) /\ WF_vars(Unlock) /\ WF_vars(ThreadExit)
  /\ WF_vars(InLoop) /\ WF_vars(wakeupFd_ > 0 /\ PollReady)
  /\ SF_vars(EnterLoop) /\ SF_vars(CallbackReturns) /\ SF_vars(FunctorReturns)
  /\ \A t \in L!AllThreads : WF_vars(FinishCall(t))

FairSpec == Spec /\ Fairness

-------------------------------------------------------------------------------
\* Every variable holds a value of its kind.
TypeOK ==
  /\ L!TypeOK
  /\ owner \in {"new", "semwait", "lock", "asleep", "return", "running", "quit",
                "quitting", "joining", "gone"}
  /\ thread \in {"none", "created", "callback", "loop", "unlock", "end", "exited"}
  /\ sem \in {0, 1}
  /\ loop_ \in {LoopThread, NoLoop}
  /\ result \in {LoopThread, NoLoop}
  /\ overtaken \in BOOLEAN /\ userQuit \in BOOLEAN

\* No thread but the loop's own reaches the loop before callback_ has returned:
\* neither through startLoop nor with a functor in the queue.
InitCallbackFirst ==
  thread = "callback" =>
    /\ owner # "running"
    /\ \A t \in Threads : call[t] = "idle"

\* The thread has left its loop and set loop_ to nullptr: it has at most to release
\* mutex_, to destroy the loop and to end.
Withdrawn == thread \in {"unlock", "end", "exited"}

\* The destructor joins the thread, unless user code has quit the loop and its
\* thread has withdrawn loop_ already: then it may destroy the object while the
\* thread still has mutex_, one of its members, to release.
LeftOnlyAtEnd ==
  owner = "gone" => thread \in {"none", "exited"} \/ (userQuit /\ Withdrawn)

\* startLoop returns the loop, and the destructor finds it alive when it calls
\* quit() on it; if not, user code has quit the loop, and in between the test of
\* loop_ and its next read without mutex_ the thread has withdrawn it.
LoopOrUserQuit ==
  /\ owner = "running" =>
       \/ result = LoopThread
       \/ userQuit /\ Withdrawn
  /\ owner = "quit" =>
       \/ thread = "loop"
       \/ userQuit /\ Withdrawn

\* Unless user code quits the loop, startLoop returns.  (If it does, loop_ may be
\* nullptr again before the owner, notified, gets to look at it.)
StartReturns == (owner = "semwait") ~> (owner = "running" \/ userQuit)

\* The destructor returns, unless its quit() overtook the entry of loop(), which
\* clears quit_: then it may wait for good.
JoinReturns == (owner = "joining" /\ ~overtaken) ~> (owner = "gone")
===============================================================================
