------------------------------ MODULE PollerProofs ------------------------------
(***************************************************************************)
(* Proofs about Poller for any channels and descriptors, and any size of   *)
(* the result array.                                                       *)
(***************************************************************************)
EXTENDS Poller, TLAPS

\* No two channels share a descriptor.
Distinct ==
  \A c, d \in Channels : Exists(c) /\ fd_[c] = fd_[d] => c = d

IInv ==
  /\ TypeOK
  /\ Distinct
  /\ Coherent
  /\ NoDanglingPointer
  /\ NoCtlError

USE NullAssumption, SizeAssumption

-------------------------------------------------------------------------------
\* There is no channel and no registration at first.
LEMMA InitIInv == Init => IInv
<1> SUFFICES ASSUME Init PROVE IInv
  OBVIOUS
<1>1. TypeOK
  BY DEF Init, TypeOK, kNoneEvent
<1>2. Distinct /\ Coherent /\ NoDanglingPointer /\ NoCtlError
  BY DEF Init, Distinct, Coherent, NoDanglingPointer, NoCtlError, Exists, Registered
<1>3. QED
  BY <1>1, <1>2 DEF IInv

\* What updateChannel does to the registry when status_ is truthful: the kernel
\* accepts the operation, and knows the channel afterwards exactly if its status_
\* is kAdded; no other channel and no other descriptor is touched.
LEMMA UpdateCorrect ==
  ASSUME IInv, NEW c \in Channels, Exists(c), NEW ev \in SUBSET AllEvents,
         updateChannel(c, ev)
  PROVE  /\ ctlFailed' = FALSE
         /\ status_' \in [Channels -> {"kNew", "kAdded", "kDeleted"}]
         /\ channelHash_' \in [Fds -> Channels \cup {NoChannel}]
         /\ ptr' \in [Fds -> Channels \cup {NoChannel}]
         /\ mask' \in [Fds -> SUBSET AllEvents]
         /\ \A d \in Channels \ {c} : status_'[d] = status_[d]
         /\ \A f \in Fds \ {fd_[c]} : ptr'[f] = ptr[f] /\ mask'[f] = mask[f]
         /\ IF status_'[c] = "kAdded" THEN ptr'[fd_[c]] = c /\ mask'[fd_[c]] = ev
            ELSE ptr'[fd_[c]] = NoChannel
<1> USE DEF IInv, TypeOK, Coherent, NoCtlError, Exists, Registered, Ctl
<1>1. fd_[c] \in Fds
  OBVIOUS
<1>2. CASE Add(c, ev)
  <2>1. ~Registered(fd_[c])
    BY <1>2 DEF Add
  <2>2. /\ ptr' = [ptr EXCEPT ![fd_[c]] = c]
        /\ mask' = [mask EXCEPT ![fd_[c]] = ev]
        /\ ctlFailed' = FALSE
        /\ status_' = [status_ EXCEPT ![c] = "kAdded"]
    BY <1>2, <2>1 DEF Add
  <2>3. channelHash_' \in [Fds -> Channels \cup {NoChannel}]
    BY <1>1, <1>2 DEF Add
  <2>4. QED
    BY <1>1, <2>2, <2>3
<1>3. CASE Del(c, ev)
  <2>1. Registered(fd_[c])
    BY <1>3 DEF Del
  <2>2. /\ ptr' = [ptr EXCEPT ![fd_[c]] = NoChannel]
        /\ mask' = [mask EXCEPT ![fd_[c]] = {}]
        /\ ctlFailed' = FALSE
        /\ status_' = [status_ EXCEPT ![c] = "kDeleted"]
        /\ channelHash_' = channelHash_
    BY <1>3, <2>1 DEF Del
  <2>3. QED
    BY <1>1, <2>2
<1>4. CASE Mod(c, ev)
  <2>1. Registered(fd_[c])
    BY <1>4 DEF Mod
  <2>2. /\ ptr' = [ptr EXCEPT ![fd_[c]] = c]
        /\ mask' = [mask EXCEPT ![fd_[c]] = ev]
        /\ ctlFailed' = FALSE
        /\ UNCHANGED <<status_, channelHash_>>
    BY <1>4, <2>1 DEF Mod
  <2>3. status_[c] = "kAdded"
    BY <1>4 DEF Mod
  <2>4. QED
    BY <1>1, <2>2, <2>3
<1>5. QED
  BY <1>2, <1>3, <1>4 DEF updateChannel

\* A method of a channel keeps the invariant.
LEMMA MethodIInv ==
  ASSUME IInv, NEW c \in Channels, Exists(c), NEW ev \in SUBSET AllEvents,
         updateChannel(c, ev), events_' = [events_ EXCEPT ![c] = ev],
         removed' \subseteq Channels, UNCHANGED <<fd_, activeChannels, eventListSize>>
  PROVE  IInv'
<1>1. TypeOK'
  <2>1. /\ status_' \in [Channels -> {"kNew", "kAdded", "kDeleted"}]
        /\ channelHash_' \in [Fds -> Channels \cup {NoChannel}]
        /\ ptr' \in [Fds -> Channels \cup {NoChannel}]
        /\ mask' \in [Fds -> SUBSET AllEvents]
        /\ ctlFailed' \in BOOLEAN
    BY UpdateCorrect
  <2>2. events_' \in [Channels -> SUBSET AllEvents]
    BY DEF IInv, TypeOK
  <2>3. QED
    BY <2>1, <2>2 DEF IInv, TypeOK
<1>2. Distinct'
  BY DEF IInv, Distinct, Exists
<1>3. Coherent'
  <2> SUFFICES ASSUME NEW d \in Channels, Exists(d)
               PROVE  IF status_'[d] = "kAdded"
                      THEN ptr'[fd_[d]] = d /\ mask'[fd_[d]] = events_'[d]
                      ELSE ptr'[fd_[d]] = NoChannel
    BY DEF Coherent, Exists
  <2>1. CASE d = c
    BY <2>1, UpdateCorrect DEF IInv, TypeOK
  <2>2. CASE d # c
    <3>1. fd_[d] # fd_[c] /\ fd_[d] \in Fds
      BY <2>2 DEF IInv, Distinct, Exists, TypeOK
    <3>2. /\ ptr'[fd_[d]] = ptr[fd_[d]] /\ mask'[fd_[d]] = mask[fd_[d]]
          /\ status_'[d] = status_[d]
      <4>1. /\ \A e \in Channels \ {c} : status_'[e] = status_[e]
            /\ \A f \in Fds \ {fd_[c]} : ptr'[f] = ptr[f] /\ mask'[f] = mask[f]
        BY UpdateCorrect
      <4>2. QED
        BY <2>2, <3>1, <4>1
    <3>3. events_'[d] = events_[d]
      BY <2>2 DEF IInv, TypeOK
    <3>4. QED
      BY <3>2, <3>3 DEF IInv, Coherent
  <2>3. QED
    BY <2>1, <2>2
<1>4. NoDanglingPointer'
  <2> SUFFICES ASSUME NEW f \in Fds, ptr'[f] # NoChannel
               PROVE  fd_[ptr'[f]] = f
    BY DEF NoDanglingPointer, Registered
  <2>1. CASE f = fd_[c]
    <3>1. ptr'[fd_[c]] \in {c, NoChannel}
      BY UpdateCorrect, Zenon
    <3>2. QED
      BY <2>1, <3>1
  <2>2. CASE f # fd_[c]
    <3>1. ptr'[f] = ptr[f]
      BY <2>2, UpdateCorrect
    <3>2. QED
      BY <3>1 DEF IInv, NoDanglingPointer, Registered
  <2>3. QED
    BY <2>1, <2>2
<1>5. NoCtlError'
  BY UpdateCorrect DEF NoCtlError
<1>6. QED
  BY <1>1, <1>2, <1>3, <1>4, <1>5 DEF IInv

\* Each step keeps the invariant: methods by MethodIInv, and a descriptor is free
\* of registrations when a channel gets it and when it is given back.
LEMMA NextIInv == IInv /\ [Next]_vars => IInv'
<1> SUFFICES ASSUME IInv, [Next]_vars
             PROVE  IInv'
  OBVIOUS
<1>1. ASSUME NEW c \in Channels, NEW ev \in SUBSET AllEvents, SetEvents(c, ev)
      PROVE  IInv'
  <2>1. removed' \subseteq Channels
    BY <1>1 DEF SetEvents, IInv, TypeOK
  <2>2. QED
    BY <1>1, <2>1, MethodIInv DEF SetEvents
<1>2. ASSUME NEW c \in Channels, remove(c)
      PROVE  IInv'
  <2>1. /\ events_[c] \in SUBSET AllEvents
        /\ events_' = [events_ EXCEPT ![c] = events_[c]]
        /\ removed' \subseteq Channels
    BY <1>2 DEF remove, IInv, TypeOK
  <2>2. QED
    BY <1>2, <2>1, MethodIInv DEF remove
<1>3. ASSUME NEW c \in Channels, Method(c)
      PROVE  IInv'
  <2>1. /\ events_[c] \cup kReadEvent \in SUBSET AllEvents
        /\ events_[c] \ kReadEvent \in SUBSET AllEvents
        /\ events_[c] \cup kWriteEvent \in SUBSET AllEvents
        /\ events_[c] \ kWriteEvent \in SUBSET AllEvents
        /\ kNoneEvent \in SUBSET AllEvents
    BY DEF IInv, TypeOK, AllEvents, kNoneEvent
  <2>2. QED
    BY <1>1, <1>2, <1>3, <2>1
       DEF Method, enableReading, disenableReading, enableWriting,
           disenableWriting, disableAll
<1>4. ASSUME NEW c \in Channels, NEW f \in Fds, Construct(c, f)
      PROVE  IInv'
  <2> USE DEF Construct, IInv, TypeOK
  <2>1. /\ fd_' = [fd_ EXCEPT ![c] = f]
        /\ \A d \in Channels \ {c} :
             fd_'[d] = fd_[d] /\ events_'[d] = events_[d] /\ status_'[d] = status_[d]
        /\ fd_'[c] = f /\ status_'[c] = "kNew"
    BY <1>4
  <2>2. ptr[f] = NoChannel
    BY <1>4 DEF NoDanglingPointer, Registered
  <2>3. TypeOK'
    BY <1>4 DEF kNoneEvent
  <2>4. Distinct'
    BY <1>4, <2>1 DEF Distinct, Exists
  <2>5. Coherent'
    BY <1>4, <2>1, <2>2 DEF Coherent, Exists
  <2>6. NoDanglingPointer'
    BY <1>4, <2>1 DEF NoDanglingPointer, Registered, Exists
  <2>7. QED
    BY <1>4, <2>3, <2>4, <2>5, <2>6 DEF NoCtlError
<1>5. ASSUME NEW c \in Channels, Destroy(c)
      PROVE  IInv'
  <2> USE DEF Destroy, IInv, TypeOK
  <2>1. /\ fd_[c] \in Fds
        /\ fd_'[c] = NoFd
        /\ \A d \in Channels \ {c} : fd_'[d] = fd_[d]
        /\ ptr'[fd_[c]] = NoChannel
        /\ \A f \in Fds \ {fd_[c]} : ptr'[f] = ptr[f] /\ mask'[f] = mask[f]
    BY <1>5 DEF Exists
  <2>2. TypeOK'
    BY <1>5
  <2>3. Distinct'
    BY <2>1 DEF Distinct, Exists
  <2>4. Coherent'
    BY <1>5, <2>1 DEF Coherent, Distinct, Exists
  <2>5. NoDanglingPointer'
    BY <2>1 DEF NoDanglingPointer, Registered
  <2>6. QED
    BY <1>5, <2>2, <2>3, <2>4, <2>5 DEF NoCtlError
<1>6. CASE poll
  <2> USE DEF poll, registry
  <2>1. PICK ready \in SUBSET {f \in Fds : Registered(f)} :
          /\ \E revents \in [ready -> SUBSET (AllEvents \cup {"HUP", "ERR"})] :
               activeChannels' = {<<ptr[f], revents[f]>> : f \in ready}
          /\ eventListSize' \in {Grown, eventListSize}
    BY <1>6
  <2>2. activeChannels' \subseteq Channels \X SUBSET (AllEvents \cup {"HUP", "ERR"})
    BY <2>1 DEF IInv, TypeOK, Registered
  <2>3. eventListSize' \in Nat \ {0}
    BY <2>1 DEF Grown, IInv, TypeOK
  <2>4. QED
    BY <1>6, <2>2, <2>3
       DEF IInv, TypeOK, Distinct, Coherent, NoDanglingPointer, NoCtlError, Exists,
           Registered
<1>7. ASSUME NEW c \in Channels, handleEvent(c)
      PROVE  IInv'
  <2>1. activeChannels' \subseteq activeChannels
    BY <1>7 DEF handleEvent
  <2>2. QED
    BY <1>7, <2>1
       DEF handleEvent, registry, IInv, TypeOK, Distinct, Coherent,
           NoDanglingPointer, NoCtlError, Exists, Registered
<1>8. CASE UNCHANGED vars
  BY <1>8 DEF vars, registry, IInv, TypeOK, Distinct, Coherent, NoDanglingPointer,
              NoCtlError, Exists, Registered
<1>9. QED
  BY <1>3, <1>4, <1>5, <1>6, <1>7, <1>8 DEF Next

\* IInv holds in every state.
THEOREM Invariance == Spec => []IInv
BY InitIInv, NextIInv, PTL DEF Spec

\* Type correctness of the poller.
THEOREM TypeCorrect == Spec => []TypeOK
<1>1. IInv => TypeOK
  BY DEF IInv
<1>2. QED
  BY Invariance, <1>1, PTL

\* status_ always tells the truth, for any number of channels and descriptors:
\* updateChannel never asks the kernel for something it refuses.
THEOREM StatusCoherent == Spec => [](Coherent /\ NoCtlError)
<1>1. IInv => Coherent /\ NoCtlError
  BY DEF IInv
<1>2. QED
  BY Invariance, <1>1, PTL

\* epoll never reports the address of a channel that has been destroyed.
THEOREM PointersLive == Spec => []NoDanglingPointer
<1>1. IInv => NoDanglingPointer
  BY DEF IInv
<1>2. QED
  BY Invariance, <1>1, PTL
===============================================================================
