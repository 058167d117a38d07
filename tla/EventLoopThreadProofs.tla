------------------------- MODULE EventLoopThreadProofs -------------------------
(***************************************************************************)
(* Proofs about EventLoopThread for any set of threads, any number of      *)
(* functors and any capacity of the eventfd.                               *)
(***************************************************************************)
EXTENDS EventLoopThread, SequenceTheorems, TLAPS

\* The owner has seen loop_ set, and has not begun to destroy the object without it.
HasStarted == owner \in {"return", "running", "quit", "quitting", "joining"}

\* The pairs of places in which owner and thread can be together: the thread exists
\* from start() on, passes its semaphore before the owner does, publishes loop_
\* before the owner goes on, and has withdrawn it when the owner is gone.
Together ==
  /\ owner = "new" => thread = "none"
  /\ thread = "none" => owner \in {"new", "gone"}
  /\ thread = "created" => owner = "semwait"
  /\ HasStarted => thread = "loop" \/ Withdrawn
  /\ owner = "gone" => thread = "none" \/ Withdrawn

\* The semaphore is posted by the new thread and consumed by the owner, once.
SemInv == sem = (IF owner = "semwait" /\ thread # "created" THEN 1 ELSE 0)

\* loop_ points to the loop just while threadFunc is in loop(), and the owner has
\* returned only what it found there.
PointerInv ==
  /\ loop_ = (IF thread = "loop" THEN LoopThread ELSE NoLoop)
  /\ owner \in {"new", "semwait", "lock", "asleep", "return"} => result = NoLoop

\* Before loop() nobody but the thread itself has been at the loop, and once
\* loop_ is withdrawn the loop has stopped.
LoopInv ==
  /\ thread \in {"none", "created", "callback"} =>
       pc = "setup" /\ \A t \in Threads : call[t] = "idle"
  /\ Withdrawn => pc = "stopped"

\* A loop ends because user code or the destructor asked it to.
QuitInv ==
  quit_ \/ pc = "stopped" => userQuit \/ owner \in {"quitting", "joining", "gone"}

IInv ==
  /\ TypeOK
  /\ Together
  /\ SemInv
  /\ PointerInv
  /\ LoopInv
  /\ QuitInv
  /\ LoopOrUserQuit
  /\ LeftOnlyAtEnd

USE OwnerAssumption, PointerAssumption, BoundAssumption

-------------------------------------------------------------------------------
(***************************************************************************)
(* The loop inside.                                                        *)
(***************************************************************************)

\* Whatever the steps of the two threads and of the users do to the loop is a step
\* of the module EventLoop.
LEMMA NextLoop == [Next]_vars => [L!Next]_L!vars
<1> SUFFICES ASSUME [Next]_vars
             PROVE  [L!Next]_L!vars
  OBVIOUS
<1>1. CASE UNCHANGED loopVars
  BY <1>1 DEF loopVars, L!vars, L!loopVars, L!history
<1>2. CASE InLoop \/ EnterLoop \/ CallbackReturns \/ FunctorReturns \/ PollReady
            \/ PollTimeout
  BY <1>2 DEF InLoop, EnterLoop, CallbackReturns, FunctorReturns, PollReady,
              PollTimeout, L!Next, L!UserReturns
<1>3. ASSUME NEW t \in L!AllThreads, Call(t) \/ FinishCall(t)
      PROVE  L!Next
  BY <1>3 DEF Call, FinishCall, L!Next, L!CallStep
<1>4. CASE Quit \/ QuitWakeup
  <2>1. Owner \in L!AllThreads
    BY DEF L!AllThreads
  <2>2. QED
    BY <1>4, <2>1 DEF Quit, QuitWakeup, L!Next, L!CallStep
<1>5. QED
  BY <1>1, <1>2, <1>3, <1>4
     DEF Next, OwnerStep, Start, SemWait, CheckLoop, ReturnLoop, Join,
         SpuriousWakeup, Destroy, Post, Publish, Withdraw, Unlock, ThreadExit, Gone,
         vars

\* The loop of an EventLoopThread is an EventLoop: what is proved of that module
\* (wakeups that suffice, a quit() never missed once in the loop, functors in order)
\* holds of it here, with the life that threadFunc and the destructor give it.
THEOREM LoopIsEventLoop == Spec => L!Spec
<1>1. Init => L!Init
  BY DEF Init
<1>2. QED
  BY <1>1, NextLoop, PTL DEF Spec, L!Spec

\* Writing to the eventfd keeps its count in range.
LEMMA WakeupCounts ==
  ASSUME wakeupFd_ \in 0 .. EventfdMax
  PROVE  L!Wakeup \in 0 .. EventfdMax
BY DEF L!Wakeup

\* Every step of the loop keeps its types.
LEMMA LoopTypeOK == L!TypeOK /\ [L!Next]_L!vars => L!TypeOK'
<1> SUFFICES ASSUME L!TypeOK, [L!Next]_L!vars
             PROVE  L!TypeOK'
  OBVIOUS
<1> USE DEF L!TypeOK, L!loopVars, L!history
<1>1. CASE L!DoPendingFunctors
  BY <1>1, EmptySeq DEF L!DoPendingFunctors, L!SwapPending, L!Goto
<1>2. CASE L!RunFunctor
  <2>1. Head(functors) \in Nat /\ Tail(functors) \in Seq(Nat)
    BY <1>2, HeadTailProperties DEF L!RunFunctor
  <2>2. QED
    BY <1>2, <2>1 DEF L!RunFunctor, L!Goto
<1>3. CASE L!CheckQuit
  BY <1>3 DEF L!CheckQuit, L!Goto
<1>4. CASE L!HandleRead
  BY <1>4 DEF L!HandleRead, L!Goto
<1>5. CASE L!HandleEvent
  BY <1>5 DEF L!HandleEvent, L!Goto
<1>6. CASE L!PendingDone
  BY <1>6 DEF L!PendingDone, L!Goto
<1>7. CASE L!UserReturns
  <2>1. CASE L!LoopEnter
    BY <2>1 DEF L!LoopEnter, L!Goto
  <2>2. CASE L!CallbackReturns
    BY <2>2 DEF L!CallbackReturns, L!Goto
  <2>3. CASE L!FunctorReturns
    BY <2>3 DEF L!FunctorReturns, L!Goto
  <2>4. QED
    BY <1>7, <2>1, <2>2, <2>3 DEF L!UserReturns
<1>8. CASE L!PollReady
  BY <1>8 DEF L!PollReady, L!Goto
<1>9. CASE L!PollTimeout
  BY <1>9 DEF L!PollTimeout, L!Goto
<1>10. ASSUME NEW t \in L!AllThreads, L!QueueFunctor(t)
       PROVE  L!TypeOK'
  <2>1. queued + 1 \in Nat /\ pendingFunctors_' \in Seq(Nat)
    BY <1>10, AppendProperties DEF L!QueueFunctor
  <2>2. quiet' \subseteq Nat
    BY <1>10, <2>1 DEF L!QueueFunctor
  <2>3. QED
    BY <1>10, <2>1, <2>2 DEF L!QueueFunctor
<1>11. ASSUME NEW t \in L!AllThreads, L!QueueWakeup(t)
       PROVE  L!TypeOK'
  BY <1>11, WakeupCounts DEF L!QueueWakeup
<1>12. ASSUME NEW t \in L!AllThreads, L!QuitFlag(t)
       PROVE  L!TypeOK'
  BY <1>12 DEF L!QuitFlag
<1>13. ASSUME NEW t \in L!AllThreads, L!QuitWakeup(t)
       PROVE  L!TypeOK'
  BY <1>13, WakeupCounts DEF L!QuitWakeup
<1>14. CASE UNCHANGED L!vars
  BY <1>14 DEF L!vars
<1>15. QED
  BY <1>1, <1>2, <1>3, <1>4, <1>5, <1>6, <1>7, <1>8, <1>9, <1>10, <1>11, <1>12,
     <1>13, <1>14
     DEF L!Next, L!LoopStep, L!CallStep

-------------------------------------------------------------------------------
(***************************************************************************)
(* The inductive invariant.                                                *)
(***************************************************************************)

\* An object just constructed: no thread, no loop, nothing called.
LEMMA InitIInv == Init => IInv
<1> SUFFICES ASSUME Init PROVE IInv
  OBVIOUS
<1>1. <<>> \in Seq(Nat)
  BY EmptySeq
<1>2. L!TypeOK
  <2>1. pendingFunctors_ \in Seq(Nat) /\ functors \in Seq(Nat)
    BY <1>1, Zenon DEF Init, L!Init
  <2>2. wakeupFd_ \in 0 .. EventfdMax /\ queued \in Nat /\ ran \in Nat
    BY DEF Init, L!Init
  <2>3. QED
    BY <2>1, <2>2 DEF Init, L!Init, L!TypeOK
<1>3. TypeOK
  BY <1>2 DEF Init, TypeOK
<1>4. Together /\ SemInv /\ PointerInv
  BY DEF Init, Together, HasStarted, Withdrawn, SemInv, PointerInv
<1>5. LoopInv /\ QuitInv /\ LoopOrUserQuit /\ LeftOnlyAtEnd
  <2>1. Threads \subseteq L!AllThreads
    BY DEF L!AllThreads
  <2>2. QED
    BY <2>1
       DEF Init, L!Init, LoopInv, QuitInv, LoopOrUserQuit, LeftOnlyAtEnd, Withdrawn
<1>6. QED
  BY <1>3, <1>4, <1>5 DEF IInv

\* The steps that move neither owner nor thread.
LEMMA OtherSteps ==
  ASSUME [Next]_vars,
         ~Start, ~OwnerStep, ~SpuriousWakeup, ~Destroy, ~Post, ~Publish, ~Withdraw,
         ~Unlock, ~ThreadExit
  PROVE  UNCHANGED <<owner, thread, sem, loop_, result, overtaken>>
BY DEF Next, InLoop, EnterLoop, CallbackReturns, FunctorReturns, PollReady,
       PollTimeout, Call, FinishCall, Gone, threadVars, vars

\* Owner and thread pass their places in step.
LEMMA NextTogether ==
  TypeOK /\ Together /\ SemInv /\ PointerInv /\ [Next]_vars
    => Together' /\ SemInv' /\ PointerInv'
<1> SUFFICES ASSUME TypeOK, Together, SemInv, PointerInv, [Next]_vars
             PROVE  Together' /\ SemInv' /\ PointerInv'
  OBVIOUS
<1> USE DEF Together, HasStarted, Withdrawn, SemInv, PointerInv
<1>1. CASE Start \/ SpuriousWakeup \/ Destroy
  BY <1>1 DEF TypeOK, Start, SpuriousWakeup, Destroy
<1>2. CASE SemWait \/ CheckLoop \/ ReturnLoop
  BY <1>2 DEF TypeOK, SemWait, CheckLoop, ReturnLoop
<1>3. CASE Quit \/ QuitWakeup \/ Join
  BY <1>3 DEF TypeOK, Quit, QuitWakeup, Join
<1>4. CASE Post \/ Publish \/ Withdraw \/ Unlock \/ ThreadExit
  BY <1>4 DEF TypeOK, Post, Publish, Withdraw, Unlock, ThreadExit
<1>5. CASE UNCHANGED <<owner, thread, sem, loop_, result>>
  BY <1>5
<1>6. QED
  BY <1>1, <1>2, <1>3, <1>4, <1>5, OtherSteps DEF OwnerStep

\* Types: the loop's by LoopTypeOK, the semaphore's because it is posted once.
LEMMA NextTypeOK ==
  TypeOK /\ Together /\ SemInv /\ PointerInv /\ [Next]_vars => TypeOK'
<1> SUFFICES ASSUME TypeOK, Together, SemInv, PointerInv, [Next]_vars
             PROVE  TypeOK'
  OBVIOUS
<1>1. L!TypeOK'
  BY NextLoop, LoopTypeOK DEF TypeOK
<1>2. sem' \in {0, 1} /\ loop_' \in {LoopThread, NoLoop}
  BY NextTogether DEF SemInv, PointerInv
<1>3. thread' \in {"none", "created", "callback", "loop", "unlock", "end", "exited"}
  <2>1. CASE Start \/ Post \/ Publish \/ Withdraw \/ Unlock \/ ThreadExit
    BY <2>1 DEF Start, Post, Publish, Withdraw, Unlock, ThreadExit
  <2>2. CASE OwnerStep \/ SpuriousWakeup \/ Destroy
    BY <2>2 DEF TypeOK, OwnerStep, SemWait, CheckLoop, ReturnLoop, Quit, QuitWakeup,
                Join, SpuriousWakeup, Destroy
  <2>3. CASE UNCHANGED thread
    BY <2>3 DEF TypeOK
  <2>4. QED
    BY <2>1, <2>2, <2>3, OtherSteps
<1>4. /\ owner' \in {"new", "semwait", "lock", "asleep", "return", "running", "quit",
                     "quitting", "joining", "gone"}
      /\ result' \in {LoopThread, NoLoop}
      /\ overtaken' \in BOOLEAN
  <2>1. CASE Start \/ Post \/ Publish \/ Withdraw \/ Unlock \/ ThreadExit
    BY <2>1 DEF TypeOK, Start, Post, Publish, Withdraw, Unlock, ThreadExit
  <2>2. CASE OwnerStep \/ SpuriousWakeup \/ Destroy
    BY <2>2 DEF TypeOK, OwnerStep, SemWait, CheckLoop, ReturnLoop, Quit, QuitWakeup,
                Join, SpuriousWakeup, Destroy
  <2>3. CASE UNCHANGED <<owner, result, overtaken>>
    BY <2>3 DEF TypeOK
  <2>4. QED
    BY <2>1, <2>2, <2>3, OtherSteps
<1>5. userQuit' \in BOOLEAN
  BY DEF TypeOK, Next, OwnerStep, Start, SemWait, CheckLoop, ReturnLoop, Quit,
         QuitWakeup, Join, SpuriousWakeup, Destroy, Post, Publish, Withdraw, Unlock,
         ThreadExit, InLoop, EnterLoop, CallbackReturns, FunctorReturns, PollReady,
         PollTimeout, Call, FinishCall, Gone, threadVars, vars
<1>6. QED
  BY <1>1, <1>2, <1>3, <1>4, <1>5 DEF TypeOK

\* The steps of the loop's thread leave the calls of all threads as they are, and
\* none leaves "stopped".
LEMMA LoopThreadSteps ==
  ASSUME InLoop \/ EnterLoop \/ CallbackReturns \/ FunctorReturns \/ PollReady
           \/ PollTimeout
  PROVE  /\ pc # "stopped"
         /\ pc = "setup" => thread = "loop"
         /\ UNCHANGED <<call, threadVars>>
         /\ quit_' => quit_
         /\ pc' = "stopped" => quit_
<1>1. CASE InLoop
  BY <1>1 DEF InLoop, L!LoopStep, L!CheckQuit, L!HandleRead, L!HandleEvent,
              L!DoPendingFunctors, L!RunFunctor, L!PendingDone, L!Goto
<1>2. CASE EnterLoop
  BY <1>2 DEF EnterLoop, L!LoopEnter, L!Goto
<1>3. CASE CallbackReturns \/ FunctorReturns
  BY <1>3 DEF CallbackReturns, FunctorReturns, L!CallbackReturns, L!FunctorReturns,
              L!Goto
<1>4. CASE PollReady \/ PollTimeout
  BY <1>4 DEF PollReady, PollTimeout, L!PollReady, L!PollTimeout, L!Goto
<1>5. QED
  BY <1>1, <1>2, <1>3, <1>4

\* A thread other than the loop's reaches the loop only once threadFunc is in
\* loop(), and the loop ends only there.
LEMMA NextLoopInv ==
  TypeOK /\ Together /\ LoopInv /\ [Next]_vars => LoopInv'
<1> SUFFICES ASSUME TypeOK, Together, LoopInv, [Next]_vars
             PROVE  LoopInv'
  OBVIOUS
<1> USE DEF LoopInv, Withdrawn, threadVars
<1>1. CASE InLoop \/ EnterLoop \/ CallbackReturns \/ FunctorReturns \/ PollReady
            \/ PollTimeout
  BY <1>1, LoopThreadSteps
<1>2. ASSUME NEW t \in L!AllThreads, Call(t)
      PROVE  LoopInv'
  <2>1. UNCHANGED <<pc, thread>>
    BY <1>2 DEF Call, L!QueueFunctor, L!QuitFlag, L!loopVars
  <2>2. CASE t = LoopThread
    <3>1. \A u \in Threads : call'[u] = call[u]
      BY <1>2, <2>2
         DEF Call, L!QueueFunctor, L!QuitFlag, TypeOK, L!TypeOK, L!AllThreads
    <3>2. QED
      BY <2>1, <3>1
  <2>3. CASE t # LoopThread
    BY <1>2, <2>1, <2>3 DEF Call, HasLoop
  <2>4. QED
    BY <2>2, <2>3
<1>3. ASSUME NEW t \in L!AllThreads, FinishCall(t)
      PROVE  LoopInv'
  <2>1. UNCHANGED <<pc, thread>> /\ call' = [call EXCEPT ![t] = "idle"]
    BY <1>3 DEF FinishCall, L!QueueWakeup, L!QuitWakeup, L!loopVars
  <2>2. \A u \in Threads : call[u] = "idle" => call'[u] = "idle"
    BY <2>1 DEF TypeOK, L!TypeOK, L!AllThreads
  <2>3. QED
    BY <2>1, <2>2
<1>4. CASE Quit \/ QuitWakeup
  <2>1. UNCHANGED <<pc, thread>> /\ (thread = "loop" \/ Withdrawn)
    BY <1>4 DEF Quit, QuitWakeup, L!QuitFlag, L!QuitWakeup, L!loopVars, Together,
                HasStarted
  <2>2. QED
    BY <2>1
<1>5. CASE Start \/ Post \/ Publish \/ Withdraw \/ Unlock \/ ThreadExit
  BY <1>5 DEF Start, Post, Publish, Withdraw, Unlock, ThreadExit, loopVars, Together
<1>6. CASE UNCHANGED <<pc, call, thread>>
  BY <1>6
<1>7. QED
  BY <1>1, <1>2, <1>3, <1>4, <1>5, <1>6
     DEF Next, OwnerStep, SemWait, CheckLoop, ReturnLoop, Join, SpuriousWakeup,
         Destroy, Gone, loopVars, vars

\* quit_ is set by user code, which userQuit remembers, or by the destructor.
LEMMA NextQuitInv == QuitInv /\ [Next]_vars => QuitInv'
<1> SUFFICES ASSUME QuitInv, [Next]_vars
             PROVE  QuitInv'
  OBVIOUS
<1> USE DEF QuitInv, threadVars
<1>1. CASE InLoop \/ EnterLoop \/ CallbackReturns \/ FunctorReturns \/ PollReady
            \/ PollTimeout
  BY <1>1, LoopThreadSteps
<1>2. ASSUME NEW t \in L!AllThreads, Call(t) \/ FinishCall(t)
      PROVE  QuitInv'
  BY <1>2 DEF Call, FinishCall, L!QueueFunctor, L!QueueWakeup, L!QuitFlag,
              L!QuitWakeup, L!loopVars
<1>3. CASE Quit \/ QuitWakeup
  BY <1>3 DEF Quit, QuitWakeup
<1>4. CASE Start \/ SemWait \/ CheckLoop \/ ReturnLoop \/ Join \/ SpuriousWakeup
             \/ Destroy \/ Post \/ Publish \/ Withdraw \/ Unlock \/ ThreadExit
  BY <1>4 DEF Start, SemWait, CheckLoop, ReturnLoop, Join, SpuriousWakeup, Destroy,
              Post, Publish, Withdraw, Unlock, ThreadExit, loopVars
<1>5. CASE UNCHANGED vars
  BY <1>5 DEF vars, loopVars
<1>6. QED
  BY <1>1, <1>2, <1>3, <1>4, <1>5 DEF Next, OwnerStep, Gone

\* User code cannot take a quit() back.
LEMMA UserQuitStays == userQuit /\ [Next]_vars => userQuit'
BY DEF Next, OwnerStep, Start, SemWait, CheckLoop, ReturnLoop, Quit, QuitWakeup, Join,
       SpuriousWakeup, Destroy, Post, Publish, Withdraw, Unlock, ThreadExit, InLoop,
       EnterLoop, CallbackReturns, FunctorReturns, PollReady, PollTimeout, Call,
       FinishCall, Gone, threadVars, vars

\* As long as the destructor has not called quit(), a loop that is stopped was quit
\* by user code.
LEMMA StoppedByUser ==
  QuitInv /\ pc = "stopped" /\ owner \notin {"quitting", "joining", "gone"} => userQuit
BY DEF QuitInv

\* The owner finds the loop it has waited for, and the destructor joins, as the loop
\* has no reason to end but the user's.
LEMMA NextOwner == IInv /\ [Next]_vars => LoopOrUserQuit' /\ LeftOnlyAtEnd'
<1> SUFFICES ASSUME IInv, [Next]_vars
             PROVE  LoopOrUserQuit' /\ LeftOnlyAtEnd'
  OBVIOUS
<1> USE UserQuitStays, StoppedByUser
    DEF IInv, LoopOrUserQuit, LeftOnlyAtEnd, Together, HasStarted, Withdrawn,
        PointerInv, LoopInv
<1>1. CASE ReturnLoop
  BY <1>1 DEF ReturnLoop, TypeOK
<1>2. CASE Destroy
  BY <1>2 DEF Destroy, TypeOK
<1>3. CASE Start \/ SemWait \/ CheckLoop \/ SpuriousWakeup \/ Quit \/ QuitWakeup
             \/ Join
  BY <1>3 DEF Start, SemWait, CheckLoop, SpuriousWakeup, Quit, QuitWakeup, Join
<1>4. CASE Withdraw
  BY <1>4 DEF Withdraw
<1>5. CASE Post \/ Publish \/ Unlock \/ ThreadExit
  BY <1>5 DEF Post, Publish, Unlock, ThreadExit, TypeOK
<1>6. CASE UNCHANGED <<owner, thread, result>>
  BY <1>6
<1>7. QED
  BY <1>1, <1>2, <1>3, <1>4, <1>5, <1>6, OtherSteps DEF OwnerStep

\* The invariant is inductive.
LEMMA NextIInv == IInv /\ [Next]_vars => IInv'
BY NextTypeOK, NextTogether, NextLoopInv, NextQuitInv, NextOwner DEF IInv

\* IInv holds in every state of the composition.
THEOREM Invariance == Spec => []IInv
BY InitIInv, NextIInv, PTL DEF Spec

\* Type correctness, of the object and of the loop inside; in particular its
\* semaphore is never posted twice nor waited for below zero.
THEOREM TypeCorrect == Spec => []TypeOK
<1>1. IInv => TypeOK
  BY DEF IInv
<1>2. QED
  BY Invariance, <1>1, PTL

\* For any number of threads: none but the loop's own reaches the loop before the
\* init callback has returned.
THEOREM CallbackIsFirst == Spec => []InitCallbackFirst
<1>1. IInv => InitCallbackFirst
  BY DEF IInv, InitCallbackFirst, Together, HasStarted, LoopInv
<1>2. QED
  BY Invariance, <1>1, PTL

\* The destructor leaves no thread behind it that has anything to do but to release
\* mutex_ and to end, and leaves even such a thread only if user code has quit the
\* loop.
THEOREM JoinsUnlessUserQuit == Spec => []LeftOnlyAtEnd
<1>1. IInv => LeftOnlyAtEnd
  BY DEF IInv
<1>2. QED
  BY Invariance, <1>1, PTL

\* The reads of loop_ without mutex_ miss a loop only if user code has quit it and
\* its thread has withdrawn it: there is no other way to a startLoop that returns
\* nullptr or to a quit() of the destructor on a loop that is gone.
THEOREM LoopIsGiven == Spec => []LoopOrUserQuit
<1>1. IInv => LoopOrUserQuit
  BY DEF IInv
<1>2. QED
  BY Invariance, <1>1, PTL
================================================================================
