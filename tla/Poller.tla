--------------------------------- MODULE Poller ---------------------------------
(***************************************************************************)
(* The channels of one loop, its EPollPoller and the epoll instance of the *)
(* kernel (Netmux/reactor/Channel.cc, EPollPoller.cc).  The code keeps in  *)
(* status_ what it believes the kernel to know of a channel, and chooses   *)
(* the epoll_ctl operation by it; the kernel knows file descriptors, which *)
(* a closed socket gives back for the next one to reuse.                   *)
(*                                                                         *)
(* All of it runs on the loop's thread: a method of a channel is one step. *)
(***************************************************************************)
EXTENDS Naturals, FiniteSets

CONSTANTS
  Channels,           \* the Channel objects
  Fds,                \* the file descriptors
  NoFd,               \* the fd_ of an object that does not exist
  NoChannel,          \* nullptr
  kInitEventListSize,
  MaxEventListSize    \* bound: Resultevents_ is not grown past it

ASSUME NullAssumption == NoFd \notin Fds /\ NoChannel \notin Channels
ASSUME SizeAssumption ==
  /\ kInitEventListSize \in Nat \ {0}
  /\ MaxEventListSize \in Nat

VARIABLES
  fd_, events_, status_,  \* of each channel
  channelHash_,
  activeChannels,  \* channels reported by poll and not handled yet, each with
                   \* its revents_
  eventListSize,   \* Resultevents_.size()
  ptr, mask,       \* epoll: data.ptr and events of each descriptor
  ctlFailed,       \* history: an epoll_ctl has failed
  removed          \* history: channels whose last call was remove()

registry == <<status_, channelHash_, ptr, mask, ctlFailed>>
vars == <<fd_, events_, activeChannels, eventListSize, removed, registry>>

\* "IN" is EPOLLIN or EPOLLPRI: the code always asks for both together.
kReadEvent == {"IN"}
kWriteEvent == {"OUT"}
kNoneEvent == {}
AllEvents == kReadEvent \cup kWriteEvent

Exists(c) == fd_[c] # NoFd

Init ==
  /\ fd_ = [c \in Channels |-> NoFd]
  /\ events_ = [c \in Channels |-> kNoneEvent]
  /\ status_ = [c \in Channels |-> "kNew"]
  /\ channelHash_ = [f \in Fds |-> NoChannel]
  /\ activeChannels = {}
  /\ eventListSize = kInitEventListSize
  /\ ptr = [f \in Fds |-> NoChannel]
  /\ mask = [f \in Fds |-> {}]
  /\ ctlFailed = FALSE
  /\ removed = {}

-------------------------------------------------------------------------------
(***************************************************************************)
(* EPollPoller::updateChannel of a channel c whose events_ are ev.         *)
(***************************************************************************)

Registered(f) == ptr[f] # NoChannel

\* epoll_ctl with EPOLL_CTL_ADD or _MOD; a failure is only logged.
Ctl(f, p, ev, ok) ==
  /\ ptr' = IF ok THEN [ptr EXCEPT ![f] = p] ELSE ptr
  /\ mask' = IF ok THEN [mask EXCEPT ![f] = ev] ELSE mask
  /\ ctlFailed' = (ctlFailed \/ ~ok)

\* Mutated form of Add: status_ is not set.
AddForgetful(c, ev) ==
  /\ status_[c] \in {"kNew", "kDeleted"}
  /\ channelHash_' = IF status_[c] = "kNew"
                     THEN [channelHash_ EXCEPT ![fd_[c]] = c] ELSE channelHash_
  /\ Ctl(fd_[c], c, ev, ~Registered(fd_[c]))
  /\ UNCHANGED status_

Add(c, ev) ==
  /\ status_[c] \in {"kNew", "kDeleted"}
  /\ channelHash_' = IF status_[c] = "kNew"
                     THEN [channelHash_ EXCEPT ![fd_[c]] = c] ELSE channelHash_
  /\ status_' = [status_ EXCEPT ![c] = "kAdded"]
  /\ Ctl(fd_[c], c, ev, ~Registered(fd_[c]))

Del(c, ev) ==
  /\ status_[c] = "kAdded"
  /\ ev = kNoneEvent
  /\ status_' = [status_ EXCEPT ![c] = "kDeleted"]
  /\ Ctl(fd_[c], NoChannel, {}, Registered(fd_[c]))
  /\ UNCHANGED channelHash_

Mod(c, ev) ==
  /\ status_[c] = "kAdded"
  /\ ev # kNoneEvent
  /\ Ctl(fd_[c], c, ev, Registered(fd_[c]))
  /\ UNCHANGED <<status_, channelHash_>>

updateChannel(c, ev) == Add(c, ev) \/ Del(c, ev) \/ Mod(c, ev)

-------------------------------------------------------------------------------
(***************************************************************************)
(* The methods of a channel that reach the poller.                         *)
(***************************************************************************)

\* A method that sets events_ to ev and then calls update().
SetEvents(c, ev) ==
  /\ Exists(c)
  /\ events_' = [events_ EXCEPT ![c] = ev]
  /\ updateChannel(c, ev)
  /\ removed' = removed \ {c}
  /\ UNCHANGED <<fd_, activeChannels, eventListSize>>

enableReading(c) == SetEvents(c, events_[c] \cup kReadEvent)
disenableReading(c) == SetEvents(c, events_[c] \ kReadEvent)
enableWriting(c) == SetEvents(c, events_[c] \cup kWriteEvent)
disenableWriting(c) == SetEvents(c, events_[c] \ kWriteEvent)
disableAll(c) == SetEvents(c, kNoneEvent)

\* remove(): EventLoop::removeChannel calls poller_->updateChannel.
remove(c) ==
  /\ Exists(c)
  /\ updateChannel(c, events_[c])
  /\ removed' = removed \cup {c}
  /\ UNCHANGED <<fd_, events_, activeChannels, eventListSize>>

\* A socket has been opened at a free descriptor, and a channel made for it.
Construct(c, f) ==
  /\ ~Exists(c)
  /\ \A d \in Channels : fd_[d] # f
  /\ fd_' = [fd_ EXCEPT ![c] = f]
  /\ events_' = [events_ EXCEPT ![c] = kNoneEvent]
  /\ status_' = [status_ EXCEPT ![c] = "kNew"]
  /\ UNCHANGED <<channelHash_, ptr, mask, ctlFailed, activeChannels,
                 eventListSize, removed>>

\* Mutated form of Destroy: the descriptor stays open.
DestroyWithoutClose(c) ==
  /\ Exists(c)
  /\ activeChannels = {}
  /\ fd_' = [fd_ EXCEPT ![c] = NoFd]
  /\ removed' = removed \ {c}
  /\ UNCHANGED <<events_, registry, activeChannels, eventListSize>>

\* The channel and then its socket are destroyed, after the handlers of this
\* iteration; close() takes the descriptor out of epoll.
Destroy(c) ==
  /\ Exists(c)
  /\ activeChannels = {}
  /\ fd_' = [fd_ EXCEPT ![c] = NoFd]
  /\ ptr' = [ptr EXCEPT ![fd_[c]] = NoChannel]
  /\ mask' = [mask EXCEPT ![fd_[c]] = {}]
  /\ removed' = removed \ {c}
  /\ UNCHANGED <<events_, status_, channelHash_, ctlFailed,
                 activeChannels, eventListSize>>

-------------------------------------------------------------------------------
(***************************************************************************)
(* EPollPoller::poll and the calls of handleEvent in loop().               *)
(***************************************************************************)

\* What epoll_wait may report of descriptor f: events asked for, and hang-up and
\* error whether asked for or not.
Reportable(f) == SUBSET (mask[f] \cup {"HUP", "ERR"}) \ {{}}

\* Mutated form of Grown: the array of results is halved.
Shrunk == eventListSize \div 2

Grown == IF 2 * eventListSize <= MaxEventListSize
         THEN 2 * eventListSize ELSE eventListSize

\* epoll_wait reports some descriptors, at most as many as fit, and
\* fillActiveChannels stores what it reports in their channels.
poll ==
  /\ activeChannels = {}
  /\ \E ready \in SUBSET {f \in Fds : Registered(f)} \ {{}} :
       /\ Cardinality(ready) <= eventListSize
       /\ \E revents \in [ready -> SUBSET (AllEvents \cup {"HUP", "ERR"})] :
            /\ \A f \in ready : revents[f] \in Reportable(f)
            /\ activeChannels' = {<<ptr[f], revents[f]>> : f \in ready}
       /\ eventListSize' = IF Cardinality(ready) = eventListSize
                           THEN Grown ELSE eventListSize
  /\ UNCHANGED <<fd_, events_, registry, removed>>

handleEvent(c) ==
  /\ \E report \in activeChannels :
       /\ report[1] = c
       /\ activeChannels' = activeChannels \ {report}
  /\ UNCHANGED <<fd_, events_, registry, eventListSize, removed>>

-------------------------------------------------------------------------------
Method(c) ==
  \/ enableReading(c) \/ disenableReading(c)
  \/ enableWriting(c) \/ disenableWriting(c)
  \/ disableAll(c)
  \/ remove(c)

Next ==
  \/ \E c \in Channels : Method(c) \/ Destroy(c) \/ handleEvent(c)
  \/ \E c \in Channels, f \in Fds : Construct(c, f)
  \/ poll

Spec == Init /\ [][Next]_vars

-------------------------------------------------------------------------------
\* Every variable holds a value of its kind.
TypeOK ==
  /\ fd_ \in [Channels -> Fds \cup {NoFd}]
  /\ events_ \in [Channels -> SUBSET AllEvents]
  /\ status_ \in [Channels -> {"kNew", "kAdded", "kDeleted"}]
  /\ channelHash_ \in [Fds -> Channels \cup {NoChannel}]
  /\ activeChannels \subseteq Channels \X SUBSET (AllEvents \cup {"HUP", "ERR"})
  /\ eventListSize \in Nat \ {0}
  /\ ptr \in [Fds -> Channels \cup {NoChannel}]
  /\ mask \in [Fds -> SUBSET AllEvents]
  /\ ctlFailed \in BOOLEAN
  /\ removed \subseteq Channels

\* status_ tells the truth: the kernel has the descriptor of a channel, with that
\* channel's address and events, exactly while its status_ is kAdded.
Coherent ==
  \A c \in Channels : Exists(c) =>
    IF status_[c] = "kAdded"
    THEN ptr[fd_[c]] = c /\ mask[fd_[c]] = events_[c]
    ELSE ptr[fd_[c]] = NoChannel

\* Whatever is called in whatever order, and however descriptors are reused, no
\* epoll_ctl is made that the kernel refuses.
NoCtlError == ~ctlFailed

\* epoll never hands the loop the address of a channel that no longer exists.
NoDanglingPointer ==
  \A f \in Fds : Registered(f) => fd_[ptr[f]] = f

\* remove() takes a channel out of the poller.
RemovedFromPoll ==
  \A c \in removed : ptr[fd_[c]] # c /\ channelHash_[fd_[c]] # c
===============================================================================
