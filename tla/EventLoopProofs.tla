---------------------------- MODULE EventLoopProofs ----------------------------
(***************************************************************************)
(* Proofs about EventLoop for any set of threads, any number of functors   *)
(* and any capacity of the eventfd.                                        *)
(***************************************************************************)
EXTENDS EventLoop, SequenceTheorems, TLAPS

\* The loop's own thread is in the middle of a call only inside user code.
LoopIdle == pc \notin UserCode => call[LoopThread] = "idle"

\* callingPendingFunctors_ is set exactly while doPendingFunctors runs its
\* local vector, and there is something in that vector only then.
CallingInv ==
  /\ callingPendingFunctors_ <=> pc \in {"run", "functor"}
  /\ pc \notin {"run", "functor"} => functors = <<>>

\* The wakeup of queued work is not lost anywhere but between poll() and the
\* swap, where it has been or is being consumed.
WakeInv ==
  pc \notin {"dispatch", "callback"} => Pending \subseteq quiet \/ Announced

\* The local vector of doPendingFunctors and then the queue hold the functors
\* ran + 1 .. queued in this order.
OrderInv ==
  /\ \A i \in 1 .. Len(functors) : functors[i] = ran + i
  /\ \A i \in 1 .. Len(pendingFunctors_) :
       pendingFunctors_[i] = ran + Len(functors) + i
  /\ queued = ran + Len(functors) + Len(pendingFunctors_)

IInv ==
  /\ TypeOK
  /\ LoopIdle
  /\ CallingInv
  /\ WakeInv
  /\ OrderInv
  /\ NoLostQuit

USE ThreadAssumption, BoundAssumption

\* Writing to the eventfd keeps its count in range and makes it positive.
LEMMA WakeupCounts ==
  ASSUME wakeupFd_ \in 0 .. EventfdMax
  PROVE  Wakeup \in 1 .. EventfdMax
BY DEF Wakeup

-------------------------------------------------------------------------------
(***************************************************************************)
(* Type correctness.                                                       *)
(***************************************************************************)

\* Every initial state is typed.
LEMMA InitTypeOK == Init => TypeOK
<1>1. <<>> \in Seq(Nat)
  BY EmptySeq
<1> SUFFICES ASSUME Init PROVE TypeOK
  OBVIOUS
<1>2. pendingFunctors_ \in Seq(Nat) /\ functors \in Seq(Nat)
  BY <1>1, Zenon DEF Init
<1>3. wakeupFd_ \in 0 .. EventfdMax /\ queued \in Nat /\ ran \in Nat
  BY DEF Init
<1>4. /\ call \in [AllThreads -> {"idle", "queueing", "quitting"}]
      /\ quit_ \in BOOLEAN /\ callingPendingFunctors_ \in BOOLEAN
      /\ activeChannel_ \subseteq {"wakeup", "io"} /\ quiet \subseteq Nat
  BY DEF Init
<1>5. QED
  BY <1>2, <1>3, <1>4 DEF Init, TypeOK

\* Every step keeps the types; only the steps that touch a sequence need more
\* than their own assignments.
LEMMA NextTypeOK == TypeOK /\ [Next]_vars => TypeOK'
<1> SUFFICES ASSUME TypeOK, [Next]_vars
             PROVE  TypeOK'
  OBVIOUS
<1> USE DEF TypeOK, loopVars, history
<1>1. CASE CheckQuit
  BY <1>1 DEF CheckQuit, Goto
<1>2. CASE HandleRead
  BY <1>2 DEF HandleRead, Goto
<1>3. CASE HandleEvent
  BY <1>3 DEF HandleEvent, Goto
<1>4. CASE DoPendingFunctors
  BY <1>4, EmptySeq DEF DoPendingFunctors, SwapPending, Goto
<1>5. CASE RunFunctor
  <2>1. Head(functors) \in Nat /\ Tail(functors) \in Seq(Nat)
    BY <1>5, HeadTailProperties DEF RunFunctor
  <2>2. QED
    BY <1>5, <2>1 DEF RunFunctor, Goto
<1>6. CASE PendingDone
  BY <1>6 DEF PendingDone, Goto
<1>7. CASE LoopEnter
  BY <1>7 DEF LoopEnter, Goto
<1>8. CASE CallbackReturns
  BY <1>8 DEF CallbackReturns, Goto
<1>9. CASE FunctorReturns
  BY <1>9 DEF FunctorReturns, Goto
<1>10. CASE PollReady
  BY <1>10 DEF PollReady, Goto
<1>11. CASE PollTimeout
  BY <1>11 DEF PollTimeout, Goto
<1>12. ASSUME NEW t \in AllThreads, QueueFunctor(t)
       PROVE  TypeOK'
  <2>1. queued + 1 \in Nat /\ pendingFunctors_' \in Seq(Nat)
    BY <1>12, AppendProperties DEF QueueFunctor
  <2>2. quiet' \subseteq Nat
    BY <1>12, <2>1 DEF QueueFunctor
  <2>3. QED
    BY <1>12, <2>1, <2>2 DEF QueueFunctor
<1>13. ASSUME NEW t \in AllThreads, QueueWakeup(t)
       PROVE  TypeOK'
  BY <1>13, WakeupCounts DEF QueueWakeup
<1>14. ASSUME NEW t \in AllThreads, QuitFlag(t)
       PROVE  TypeOK'
  BY <1>14 DEF QuitFlag
<1>15. ASSUME NEW t \in AllThreads, QuitWakeup(t)
       PROVE  TypeOK'
  BY <1>15, WakeupCounts DEF QuitWakeup
<1>16. CASE UNCHANGED vars
  BY <1>16 DEF vars
<1>17. QED
  BY <1>1, <1>2, <1>3, <1>4, <1>5, <1>6, <1>7, <1>8, <1>9, <1>10, <1>11,
     <1>12, <1>13, <1>14, <1>15, <1>16
     DEF Next, LoopStep, UserReturns, CallStep

\* Type correctness: whatever threads, callbacks and functors do, the variables
\* keep their kinds, and the eventfd never exceeds its capacity.
THEOREM TypeCorrect == Spec => []TypeOK
BY InitTypeOK, NextTypeOK, PTL DEF Spec

-------------------------------------------------------------------------------
(***************************************************************************)
(* The inductive invariant.                                                *)
(***************************************************************************)

\* Nothing is queued, running or being called in a loop just constructed.
LEMMA InitIInv == Init => IInv
<1> SUFFICES ASSUME Init PROVE IInv
  OBVIOUS
<1>1. TypeOK
  BY InitTypeOK
<1>2. Len(functors) = 0 /\ Len(pendingFunctors_) = 0
  BY EmptySeq DEF Init
<1>3. LoopIdle /\ CallingInv /\ NoLostQuit
  BY DEF Init, LoopIdle, CallingInv, NoLostQuit, UserCode
<1>4. OrderInv
  BY <1>2 DEF Init, OrderInv
<1>5. WakeInv
  BY <1>2 DEF Init, WakeInv, Pending
<1>6. QED
  BY <1>1, <1>3, <1>4, <1>5 DEF IInv

\* The steps that read or write neither queue nor history.
LEMMA OtherSteps ==
  ASSUME [Next]_vars,
         ~DoPendingFunctors, ~RunFunctor, \A t \in AllThreads : ~QueueFunctor(t)
  PROVE  UNCHANGED <<functors, pendingFunctors_, queued, ran, quiet>>
BY DEF Next, LoopStep, UserReturns, CallStep, CheckQuit, HandleRead,
       HandleEvent, PendingDone, LoopEnter, CallbackReturns, FunctorReturns,
       PollReady, PollTimeout, QueueWakeup, QuitFlag, QuitWakeup, loopVars,
       history, vars

\* A thread of the loop leaves user code only between two calls, and calls only
\* from user code.
LEMMA NextLoopIdle == TypeOK /\ LoopIdle /\ [Next]_vars => LoopIdle'
<1> SUFFICES ASSUME TypeOK, LoopIdle, [Next]_vars
             PROVE  LoopIdle'
  OBVIOUS
<1> USE DEF TypeOK, LoopIdle, UserCode, Goto, AllThreads
<1>1. CASE LoopStep \/ UserReturns \/ PollReady \/ PollTimeout
  BY <1>1 DEF LoopStep, UserReturns, CheckQuit, HandleRead, HandleEvent,
              DoPendingFunctors, RunFunctor, PendingDone, LoopEnter,
              CallbackReturns, FunctorReturns, PollReady, PollTimeout
<1>2. ASSUME NEW t \in AllThreads, CallStep(t)
      PROVE  LoopIdle'
  BY <1>2 DEF CallStep, QueueFunctor, QueueWakeup, QuitFlag, QuitWakeup,
              MayCall, isInLoopThread, loopVars
<1>3. CASE UNCHANGED vars
  BY <1>3 DEF vars, loopVars
<1>4. QED
  BY <1>1, <1>2, <1>3 DEF Next

\* doPendingFunctors sets the flag before its first functor and clears it after
\* its last one, and nothing else writes it.
LEMMA NextCallingInv == CallingInv /\ [Next]_vars => CallingInv'
<1> SUFFICES ASSUME CallingInv, [Next]_vars
             PROVE  CallingInv'
  OBVIOUS
<1> USE DEF CallingInv, Goto
<1>1. CASE LoopStep
  BY <1>1 DEF LoopStep, CheckQuit, HandleRead, HandleEvent,
              DoPendingFunctors, RunFunctor, PendingDone
<1>2. CASE UserReturns \/ PollReady \/ PollTimeout
  BY <1>2 DEF UserReturns, LoopEnter, CallbackReturns, FunctorReturns,
              PollReady, PollTimeout
<1>3. ASSUME NEW t \in AllThreads, CallStep(t)
      PROVE  CallingInv'
  BY <1>3 DEF CallStep, QueueFunctor, QueueWakeup, QuitFlag, QuitWakeup,
              loopVars
<1>4. CASE UNCHANGED vars
  BY <1>4 DEF vars, loopVars
<1>5. QED
  BY <1>1, <1>2, <1>3, <1>4 DEF Next

\* The order of the queue survives the append of queueInLoop, the swap, which
\* finds the local vector empty, and the start of the first functor.
LEMMA NextOrderInv == TypeOK /\ CallingInv /\ OrderInv /\ [Next]_vars => OrderInv'
<1> SUFFICES ASSUME TypeOK, CallingInv, OrderInv, [Next]_vars
             PROVE  OrderInv'
  OBVIOUS
<1>1. Len(functors) \in Nat /\ Len(pendingFunctors_) \in Nat
      /\ queued \in Nat /\ ran \in Nat
  BY LenProperties DEF TypeOK
<1>2. CASE DoPendingFunctors
  <2>1. functors = <<>> /\ Len(functors) = 0
    BY <1>2, EmptySeq DEF DoPendingFunctors, Goto, CallingInv
  <2>2. /\ functors' = pendingFunctors_
        /\ Len(pendingFunctors_') = 0
        /\ UNCHANGED <<queued, ran>>
    BY <1>2, EmptySeq DEF DoPendingFunctors, SwapPending, history
  <2>3. QED
    BY <1>1, <2>1, <2>2 DEF OrderInv
<1>3. CASE RunFunctor
  <2>1. /\ Len(functors') = Len(functors) - 1
        /\ \A i \in 1 .. Len(functors') : functors'[i] = functors[i + 1]
    BY <1>3, HeadTailProperties DEF RunFunctor, TypeOK
  <2>2. Len(functors) # 0
    BY <1>3, EmptySeq DEF RunFunctor, TypeOK
  <2>3. functors[1] = ran + 1
    BY <1>1, <2>2 DEF OrderInv
  <2>4. ran' = ran + 1 /\ UNCHANGED <<queued, pendingFunctors_>>
    BY <1>3, <2>3 DEF RunFunctor
  <2>5. QED
    BY <1>1, <2>1, <2>2, <2>4 DEF OrderInv
<1>4. ASSUME NEW t \in AllThreads, QueueFunctor(t)
      PROVE  OrderInv'
  <2>1. /\ Len(pendingFunctors_') = Len(pendingFunctors_) + 1
        /\ \A i \in 1 .. Len(pendingFunctors_) :
             pendingFunctors_'[i] = pendingFunctors_[i]
        /\ pendingFunctors_'[Len(pendingFunctors_) + 1] = queued + 1
    BY <1>1, <1>4, AppendProperties DEF QueueFunctor, TypeOK
  <2>2. queued' = queued + 1 /\ UNCHANGED <<ran, functors>>
    BY <1>4 DEF QueueFunctor, loopVars
  <2>3. QED
    BY <1>1, <2>1, <2>2 DEF OrderInv
<1>5. QED
  BY <1>2, <1>3, <1>4, OtherSteps DEF OrderInv

\* A write to the eventfd, or a thread about to write it, covers queued work: it
\* comes with every append, and is consumed only on the way to the next swap.
LEMMA NextWakeInv ==
  TypeOK /\ LoopIdle /\ CallingInv /\ WakeInv /\ [Next]_vars => WakeInv'
<1> SUFFICES ASSUME TypeOK, LoopIdle, CallingInv, WakeInv, [Next]_vars,
                    pc' \notin {"dispatch", "callback"}
             PROVE  Pending' \subseteq quiet' \/ Announced'
  BY DEF WakeInv
<1>1. CASE DoPendingFunctors
  <2>1. Len(pendingFunctors_') = 0
    BY <1>1, EmptySeq DEF DoPendingFunctors, SwapPending
  <2>2. QED
    BY <2>1 DEF Pending
<1>2. CASE RunFunctor \/ PendingDone \/ FunctorReturns \/ LoopEnter \/ CheckQuit
  <2>1. /\ pc \notin {"dispatch", "callback"}
        /\ call[LoopThread] = "idle"
        /\ UNCHANGED <<call, wakeupFd_, pendingFunctors_, quiet>>
    BY <1>2 DEF RunFunctor, PendingDone, FunctorReturns, LoopEnter, CheckQuit,
                Goto, history
  <2>2. \A t \in AllThreads : Announcing(t) => Announcing(t)'
    BY <2>1 DEF Announcing, NeedsWakeup, isInLoopThread
  <2>3. QED
    BY <2>1, <2>2 DEF WakeInv, Announced, Pending
<1>3. CASE HandleRead \/ HandleEvent \/ CallbackReturns \/ PollReady \/ PollTimeout
  BY <1>3 DEF HandleRead, HandleEvent, CallbackReturns, PollReady, PollTimeout,
              Goto
<1>4. ASSUME NEW t \in AllThreads, QueueFunctor(t)
      PROVE  Pending' \subseteq quiet' \/ Announced'
  <2>1. /\ pc' = pc
        /\ call' = [call EXCEPT ![t] = "queueing"]
        /\ UNCHANGED <<callingPendingFunctors_, wakeupFd_>>
    BY <1>4 DEF QueueFunctor, loopVars
  <2>2. CASE NeedsWakeup(t)
    BY <2>1, <2>2 DEF TypeOK, Announced, Announcing, NeedsWakeup
  <2>3. CASE ~NeedsWakeup(t)
    <3>1. t = LoopThread /\ pc = "setup"
      BY <1>4, <2>1, <2>3 DEF NeedsWakeup, isInLoopThread, QueueFunctor, MayCall,
                              UserCode, CallingInv
    <3>2. Pending' = Pending \cup {queued + 1}
      <4>1. /\ Len(pendingFunctors_) \in Nat
            /\ Len(pendingFunctors_') = Len(pendingFunctors_) + 1
            /\ \A i \in 1 .. Len(pendingFunctors_) :
                 pendingFunctors_'[i] = pendingFunctors_[i]
            /\ pendingFunctors_'[Len(pendingFunctors_) + 1] = queued + 1
        BY <1>4, LenProperties, AppendProperties DEF QueueFunctor, TypeOK
      <4>2. QED
        BY <4>1 DEF Pending
    <3>3. quiet' = quiet \cup {queued + 1}
      BY <1>4, <3>1 DEF QueueFunctor, isInLoopThread
    <3>4. \A u \in AllThreads : Announcing(u) => Announcing(u)'
      BY <2>1, <3>1, <1>4
         DEF TypeOK, Announcing, NeedsWakeup, QueueFunctor, MayCall
    <3>5. QED
      BY <2>1, <3>1, <3>2, <3>3, <3>4 DEF WakeInv, Announced
  <2>4. QED
    BY <2>2, <2>3
<1>5. ASSUME NEW t \in AllThreads, QueueWakeup(t)
      PROVE  Pending' \subseteq quiet' \/ Announced'
  <2>1. /\ UNCHANGED <<pc, callingPendingFunctors_, pendingFunctors_, quiet>>
        /\ call[t] = "queueing"
        /\ call' = [call EXCEPT ![t] = "idle"]
    BY <1>5 DEF QueueWakeup, loopVars, history
  <2>2. CASE NeedsWakeup(t)
    BY <1>5, <2>2, WakeupCounts DEF QueueWakeup, TypeOK, Announced
  <2>3. CASE ~NeedsWakeup(t)
    <3>1. wakeupFd_' = wakeupFd_
      BY <1>5, <2>3 DEF QueueWakeup
    <3>2. \A u \in AllThreads : Announcing(u) => Announcing(u)'
      BY <2>1, <2>3 DEF TypeOK, Announcing, NeedsWakeup
    <3>3. QED
      BY <2>1, <3>1, <3>2 DEF WakeInv, Announced, Pending
  <2>4. QED
    BY <2>2, <2>3
<1>6. ASSUME NEW t \in AllThreads, QuitFlag(t) \/ QuitWakeup(t)
      PROVE  Pending' \subseteq quiet' \/ Announced'
  <2>1. /\ UNCHANGED <<pc, callingPendingFunctors_, pendingFunctors_, quiet>>
        /\ call[t] # "queueing"
        /\ \A u \in AllThreads \ {t} : call'[u] = call[u]
        /\ wakeupFd_ > 0 => wakeupFd_' > 0
    BY <1>6, WakeupCounts
       DEF TypeOK, QuitFlag, QuitWakeup, MayCall, loopVars, history
  <2>2. \A u \in AllThreads : Announcing(u) => Announcing(u)'
    BY <2>1 DEF Announcing, NeedsWakeup
  <2>3. QED
    BY <2>1, <2>2 DEF WakeInv, Announced, Pending
<1>7. CASE UNCHANGED vars
  BY <1>7 DEF vars, loopVars, history, WakeInv, Announced, Announcing, NeedsWakeup,
              Pending
<1>8. QED
  BY <1>1, <1>2, <1>3, <1>4, <1>5, <1>6, <1>7
     DEF Next, LoopStep, UserReturns, CallStep

\* The loop enters poll() only with quit_ clear; a quit() made while it is there
\* comes from another thread, whose wakeup nobody consumes before poll() returns.
LEMMA NextNoLostQuit == TypeOK /\ NoLostQuit /\ [Next]_vars => NoLostQuit'
<1> SUFFICES ASSUME TypeOK, NoLostQuit, [Next]_vars, pc' = "poll", quit_'
             PROVE  wakeupFd_' > 0 \/ \E t \in Threads : call'[t] = "quitting"
  BY DEF NoLostQuit
<1>1. CASE LoopStep \/ UserReturns \/ PollReady \/ PollTimeout
  BY <1>1 DEF LoopStep, UserReturns, CheckQuit, HandleRead, HandleEvent,
              DoPendingFunctors, RunFunctor, PendingDone, LoopEnter,
              CallbackReturns, FunctorReturns, PollReady, PollTimeout, Goto, TypeOK
<1>2. ASSUME NEW t \in AllThreads, QueueFunctor(t)
      PROVE  wakeupFd_' > 0 \/ \E u \in Threads : call'[u] = "quitting"
  BY <1>2 DEF QueueFunctor, MayCall, loopVars, NoLostQuit, TypeOK, AllThreads
<1>3. ASSUME NEW t \in AllThreads, QueueWakeup(t)
      PROVE  wakeupFd_' > 0 \/ \E u \in Threads : call'[u] = "quitting"
  <2>1. UNCHANGED <<pc, quit_>>
    BY <1>3 DEF QueueWakeup, loopVars
  <2>2. wakeupFd_ > 0 => wakeupFd_' > 0
    BY <1>3, WakeupCounts DEF QueueWakeup, TypeOK
  <2>3. \A u \in Threads : call[u] = "quitting" => call'[u] = "quitting"
    BY <1>3 DEF QueueWakeup, TypeOK, AllThreads
  <2>4. QED
    BY <2>1, <2>2, <2>3 DEF NoLostQuit
<1>4. ASSUME NEW t \in AllThreads, QuitFlag(t)
      PROVE  wakeupFd_' > 0 \/ \E u \in Threads : call'[u] = "quitting"
  <2>1. t \in Threads
    BY <1>4 DEF QuitFlag, MayCall, isInLoopThread, UserCode, AllThreads
  <2>2. QED
    BY <1>4, <2>1 DEF QuitFlag, TypeOK, AllThreads
<1>5. ASSUME NEW t \in AllThreads, QuitWakeup(t)
      PROVE  wakeupFd_' > 0 \/ \E u \in Threads : call'[u] = "quitting"
  <2>1. CASE isInLoopThread(t)
    <3>1. /\ UNCHANGED <<pc, quit_, wakeupFd_>>
          /\ \A u \in Threads : call'[u] = call[u]
      BY <1>5, <2>1
         DEF QuitWakeup, loopVars, isInLoopThread, TypeOK, AllThreads
    <3>2. QED
      BY <3>1 DEF NoLostQuit
  <2>2. CASE ~isInLoopThread(t)
    BY <1>5, <2>2, WakeupCounts DEF QuitWakeup, TypeOK
  <2>3. QED
    BY <2>1, <2>2
<1>6. CASE UNCHANGED vars
  BY <1>6 DEF vars, loopVars, NoLostQuit
<1>7. QED
  BY <1>1, <1>2, <1>3, <1>4, <1>5, <1>6 DEF Next, CallStep

\* The invariant is inductive.
LEMMA NextIInv == IInv /\ [Next]_vars => IInv'
BY NextTypeOK, NextLoopIdle, NextCallingInv, NextOrderInv, NextWakeInv,
   NextNoLostQuit DEF IInv

\* IInv holds in every state of the loop.
THEOREM Invariance == Spec => []IInv
BY InitIInv, NextIInv, PTL DEF Spec

\* For any number of threads and functors: the loop never sleeps in poll() on
\* queued work that no unread wakeup and no thread in queueInLoop announces.
THEOREM WakeupsSuffice == Spec => []NoLostWakeup
<1>1. IInv => NoLostWakeup
  BY DEF IInv, WakeInv, NoLostWakeup
<1>2. QED
  BY Invariance, <1>1, PTL

\* For any number of threads: the loop never sleeps in poll() through a quit().
THEOREM QuitNeverMissed == Spec => []NoLostQuit
<1>1. IInv => NoLostQuit
  BY DEF IInv
<1>2. QED
  BY Invariance, <1>1, PTL

-------------------------------------------------------------------------------
(***************************************************************************)
(* Refinement.                                                             *)
(***************************************************************************)

\* A loop just constructed has no task submitted or executed.
LEMMA InitRefines == Init => Exec!Init
BY DEF Init, Exec!Init

\* queueInLoop submits, the start of a functor executes, the exit of the while
\* stops, and nothing else is visible to those who use the loop.
LEMMA NextRefines == IInv /\ [Next]_vars => [Exec!Next]_Exec!vars
<1> SUFFICES ASSUME IInv, [Next]_vars
             PROVE  [Exec!Next]_Exec!vars
  OBVIOUS
<1> USE DEF Exec!Next, Exec!vars
<1>1. ASSUME NEW t \in AllThreads, QueueFunctor(t)
      PROVE  Exec!Submit
  BY <1>1 DEF QueueFunctor, loopVars, Exec!Submit
<1>2. CASE RunFunctor
  <2>1. /\ Len(functors) \in Nat \ {0}
        /\ Len(pendingFunctors_) \in Nat
        /\ Head(functors) = functors[1]
        /\ ran \in Nat
    BY <1>2, EmptySeq, LenProperties DEF RunFunctor, IInv, TypeOK
  <2>2. functors[1] = ran + 1 /\ ran < queued
    BY <2>1 DEF IInv, OrderInv
  <2>3. Exec!Execute
    BY <1>2, <2>1, <2>2 DEF RunFunctor, Goto, Exec!Execute
  <2>4. QED
    BY <2>3
<1>3. CASE CheckQuit
  BY <1>3 DEF CheckQuit, Goto, history, Exec!Stop
<1>4. CASE LoopStep /\ ~RunFunctor /\ ~CheckQuit
  BY <1>4 DEF LoopStep, HandleRead, HandleEvent, DoPendingFunctors, PendingDone,
              Goto, history
<1>5. CASE UserReturns \/ PollReady \/ PollTimeout
  BY <1>5 DEF UserReturns, LoopEnter, CallbackReturns, FunctorReturns, PollReady,
              PollTimeout, Goto, history
<1>6. ASSUME NEW t \in AllThreads, QueueWakeup(t) \/ QuitFlag(t) \/ QuitWakeup(t)
      PROVE  UNCHANGED Exec!vars
  BY <1>6 DEF QueueWakeup, QuitFlag, QuitWakeup, loopVars, history
<1>7. CASE UNCHANGED vars
  BY <1>7 DEF vars, loopVars, history
<1>8. QED
  BY <1>1, <1>2, <1>3, <1>4, <1>5, <1>6, <1>7 DEF Next, CallStep

\* The loop implements the Executor: functors run in the order in which they were
\* queued, each exactly once, until the loop leaves its while.
THEOREM Refinement == Spec => ImplementsExecutor
BY InitRefines, NextRefines, Invariance, PTL DEF Spec, ImplementsExecutor, Exec!Spec
================================================================================
