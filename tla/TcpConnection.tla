----------------------------- MODULE TcpConnection -----------------------------
(***************************************************************************)
(* One TcpConnection (Netmux/TcpConnection.cc): its handlers on the loop's *)
(* thread, send() and shutdown() from any thread, the user's callbacks and *)
(* the peer.  Its input buffer and the receiving side of its socket are    *)
(* the module Buffer, instance B.                                          *)
(*                                                                         *)
(* What the module EventLoop shows of a loop is used here: functors run in *)
(* the order in which they are queued, in batches between two calls of     *)
(* poll().  What the module Poller shows is used too: the kernel has the   *)
(* channel, with events_, exactly while status_ is kAdded.                 *)
(*                                                                         *)
(* The threads share state_ and the queue; every access to one of the two  *)
(* is a step of its own.  User code holds the connection as long as it     *)
(* likes, so the object outlives every call; it makes no calls any more    *)
(* when the server's destructor has stopped the loop.                      *)
(***************************************************************************)
EXTENDS Integers, Sequences

CONSTANTS
  LoopThread,     \* the thread of loop_
  Threads,        \* other threads that hold the connection
  Callers,        \* the threads that call send and shutdown
  highWaterMark_,
  MaxSends,       \* bound: no send() begins after so many messages
  MaxLen,         \* bound: length of a message
  kCheapPrepend, kInitialSize, ExtraSize, MaxBytes  \* see Buffer

AllThreads == Threads \cup {LoopThread}

ASSUME CallerAssumption == LoopThread \notin Threads /\ Callers \subseteq AllThreads
ASSUME MarkAssumption == highWaterMark_ \in Nat
ASSUME SizeAssumption ==
  /\ kCheapPrepend \in Nat /\ kInitialSize \in Nat
  /\ ExtraSize \in Nat \ {0} /\ MaxBytes \in Nat

VARIABLES
  buffer, inbox, eof, n, produced, consumed,  \* inputBuffer_ and socket, see Buffer
  state_,
  events_,           \* of channel_
  polled,            \* status_ of channel_ is kAdded
  pendingFunctors_,  \* of loop_
  functors,          \* the local vector of doPendingFunctors
  pc,                \* where the loop's thread is with this connection
  after,             \* where it goes when user code returns
  revents,           \* what poll reported of channel_
  call,              \* for each thread, the call it is in the middle of
  shutBy,            \* the threads whose shutdown() has shut the sending side of
                     \* the socket
  reset,             \* the peer has reset the connection
  error,             \* the reset is still to be reported, by SO_ERROR, a read or a
                     \* write (POLLERR)
  wire,              \* history: the write() calls made, with the part of the
                     \* message the kernel has taken
  sent,              \* history: number of messages sent or queued
  told,              \* history: callbacks made, repeated "message" left out
  destroyed,         \* the server is being destroyed: no, posted or done
  quit_              \* of loop_: the server's destructor stops the loop

input == <<buffer, inbox, eof, n, produced, consumed>>
channel == <<events_, polled>>
queue == <<pendingFunctors_, functors>>
fault == <<reset, error>>
server == <<destroyed, quit_>>
vars == <<input, state_, channel, queue, pc, after, revents, call, shutBy,
          fault, wire, sent, told, server>>

B == INSTANCE Buffer

Call(f, t) == [kind |-> f, by |-> t, id |-> 0, len |-> 0]

\* The connection as newConnection leaves it: constructed, in connections_, and
\* with connectEstablished queued in its loop.
Init ==
  /\ B!Init
  /\ state_ = "kConnecting"
  /\ events_ = {}
  /\ polled = FALSE
  /\ pendingFunctors_ = <<Call("connectEstablished", LoopThread)>>
  /\ functors = <<>>
  /\ pc = "poll"
  /\ after = "run"
  /\ revents = {}
  /\ call = [t \in AllThreads |-> "idle"]
  /\ shutBy = {}
  /\ reset = FALSE
  /\ error = FALSE
  /\ wire = <<>>
  /\ sent = 0
  /\ told = <<>>
  /\ destroyed = "no"
  /\ quit_ = FALSE

-------------------------------------------------------------------------------
(***************************************************************************)
(* What the handlers are made of.                                          *)
(***************************************************************************)

\* A callback to the user, from which the loop's thread goes on to next.
Tell(what, next) ==
  /\ told' = IF told # <<>> /\ told[Len(told)] = what /\ what = "message"
             THEN told ELSE Append(told, what)
  /\ pc' = "user"
  /\ after' = next

\* events_ become ev: updateChannel takes the descriptor out of epoll if it was in
\* and nothing is wanted any more, and puts or keeps it in otherwise.
update(ev) ==
  /\ events_' = ev
  /\ polled' = ~(polled /\ ev = {})

isWriting == events_ = {"OUT"}

\* Mutated form of handleClose: state_ is left as it is.
CloseKeepsState ==
  /\ UNCHANGED state_
  /\ update({})
  /\ Tell("down", "close")

handleClose ==
  /\ state_' = "kDisconnected"
  /\ update({})
  /\ Tell("down", "close")

\* The sending side of the socket is shut down.
finSent == shutBy # {}

\* What write() may do with len bytes, and whether it fails for good.
Written(len) == IF finSent \/ reset THEN {0} ELSE 0 .. len

\* Mutated form of sendInLoop: the remainder is queued behind what is queued.
SendRemainderLater(m) ==
  IF state_ = "kDisconnected" \/ isWriting
  THEN UNCHANGED <<wire, pendingFunctors_, error>>
  ELSE \E k \in Written(m.len) :
         /\ error' = FALSE
         /\ wire' = Append(wire, [m EXCEPT !.len = k])
         /\ pendingFunctors_' =
              IF k < m.len
              THEN Append(pendingFunctors_, [m EXCEPT !.len = m.len - k])
              ELSE pendingFunctors_

\* sendInLoop of message m.  Nothing is ever put into outputBuffer_: what write()
\* does not take is lost.
sendInLoop(m) ==
  IF state_ = "kDisconnected" \/ isWriting
  THEN UNCHANGED <<wire, pendingFunctors_, error>>
  ELSE \E k \in Written(m.len) :
         /\ error' = FALSE
         /\ wire' = Append(wire, [m EXCEPT !.len = k])
         /\ pendingFunctors_' =
              IF k = m.len
              THEN Append(pendingFunctors_, Call("writeComplete", LoopThread))
              ELSE IF ~(finSent \/ reset) /\ highWaterMark_ \in 1 .. m.len - k
              THEN Append(pendingFunctors_, Call("highWaterMark", LoopThread))
              ELSE pendingFunctors_

\* shutdownInLoop, for a shutdown() of thread t.
shutdownInLoop(t) == shutBy' = IF isWriting THEN shutBy ELSE shutBy \cup {t}

-------------------------------------------------------------------------------
(***************************************************************************)
(* The loop's thread: poll, the channel's event, the queued functors.      *)
(***************************************************************************)

Goto(from, to) ==
  /\ pc = from
  /\ pc' = to

\* What epoll has to report of the channel; hang-up and error whether asked for or not.
Ready ==
  (IF inbox > 0 \/ eof THEN events_ \cap {"IN"} ELSE {}) \cup
  (IF reset \/ (finSent /\ eof) THEN {"HUP"} ELSE {}) \cup
  (IF error THEN {"ERR"} ELSE {})

\* poll() returns, because of this channel or of something else.
Poll ==
  /\ Goto("poll", "dispatch")
  /\ \/ polled /\ Ready # {} /\ revents' = Ready
     \/ revents' = {}
  /\ UNCHANGED <<input, state_, channel, queue, after, call, shutBy, fault,
                 wire, sent, told, server>>

Hangup == "HUP" \in revents /\ "IN" \notin revents

\* handleEventWithGuard: the close callback.  (The error callback may follow, but
\* nobody is left to miss the error it takes.)
HandleHangup ==
  /\ pc = "dispatch"
  /\ Hangup
  /\ handleClose
  /\ revents' = {}
  /\ UNCHANGED <<input, queue, call, shutBy, fault, wire, sent, server>>

\* The error callback comes before the read callback, and getsockopt takes the error.
handleError ==
  /\ pc = "dispatch"
  /\ "ERR" \in revents /\ ~Hangup
  /\ revents' = revents \ {"ERR"}
  /\ error' = FALSE
  /\ UNCHANGED <<input, state_, channel, queue, pc, after, call, shutBy, reset,
                 wire, sent, told, server>>

\* readFd; once what the socket has is read, it takes an error nobody has taken.
Read ==
  /\ pc = "dispatch"
  /\ "IN" \in revents /\ "ERR" \notin revents
  /\ revents' = {}
  /\ B!readFd
  /\ (n' = -1 /\ eof) <=> (error /\ inbox = 0 /\ B!Room > 0)
  /\ error' = (error /\ n' # -1)
  /\ UNCHANGED <<queue, call, shutBy, reset, wire, sent, server>>

\* Mutated form of handleRead: nothing is done at 0.
ReadZeroAsError ==
  /\ Read
  /\ IF n' > 0 THEN Tell("message", "dispatch") /\ UNCHANGED <<state_, channel>>
     ELSE UNCHANGED <<state_, channel, told, pc, after>>

\* handleEventWithGuard: the read callback.  (Its handleError takes no error: at -1
\* there is none, or read has taken it.)
handleRead ==
  /\ Read
  /\ IF n' > 0 THEN Tell("message", "dispatch") /\ UNCHANGED <<state_, channel>>
     ELSE IF n' = 0 THEN handleClose
     ELSE UNCHANGED <<state_, channel, told, pc, after>>

\* The end of handleClose: closeCallback_, which only posts to the server's loop.
closeCallback ==
  /\ Goto("close", "dispatch")
  /\ UNCHANGED <<input, state_, channel, queue, after, revents, call, shutBy,
                 fault, wire, sent, told, server>>

doPendingFunctors ==
  /\ Goto("dispatch", "run")
  /\ revents = {}
  /\ functors' = pendingFunctors_
  /\ pendingFunctors_' = <<>>
  /\ UNCHANGED <<input, state_, channel, after, revents, call, shutBy, fault,
                 wire, sent, told, server>>

\* doPendingFunctors ends, and with it the round: while(!quit_)
pendingDone ==
  /\ Goto("run", IF quit_ THEN "stopped" ELSE "poll")
  /\ functors = <<>>
  /\ UNCHANGED <<input, state_, channel, queue, after, revents, call, shutBy,
                 fault, wire, sent, told, server>>

\* The next functor of the batch is a call of f.
NextIs(f) ==
  /\ pc = "run"
  /\ functors # <<>>
  /\ Head(functors).kind = f
  /\ functors' = Tail(functors)
  /\ UNCHANGED <<input, revents, call, reset, sent, quit_>>

connectEstablished ==
  /\ NextIs("connectEstablished")
  /\ state_' = "kConnected"
  /\ update(events_ \cup {"IN"})
  /\ Tell("up", "run")
  /\ UNCHANGED <<pendingFunctors_, shutBy, error, wire, destroyed>>

RunSend ==
  /\ NextIs("send")
  /\ sendInLoop(Head(functors))
  /\ UNCHANGED <<state_, channel, pc, after, shutBy, told, destroyed>>

RunShutdown ==
  /\ NextIs("shutdown")
  /\ shutdownInLoop(Head(functors).by)
  /\ UNCHANGED <<state_, channel, pc, after, error, wire, pendingFunctors_, told,
                 destroyed>>

\* writeCompleteCallback_ and highWaterMarkCallback_ are user code like any other.
RunUserFunctor ==
  /\ NextIs("writeComplete") \/ NextIs("highWaterMark")
  /\ pc' = "user"
  /\ after' = "run"
  /\ UNCHANGED <<state_, channel, shutBy, error, wire, pendingFunctors_, told,
                 destroyed>>

\* Mutated form of connectDestroyed: state_ is not looked at.
DestroyUnchecked ==
  /\ NextIs("connectDestroyed")
  /\ pc' = "destroy"
  /\ UNCHANGED <<state_, channel, told, after, pendingFunctors_, shutBy, error, wire,
                 destroyed>>

\* connectDestroyed finds the connection connected, or only removes its channel ...
connectDestroyed ==
  /\ NextIs("connectDestroyed")
  /\ pc' = IF state_ = "kConnected" THEN "destroy" ELSE "remove"
  /\ UNCHANGED <<state_, channel, told, after, pendingFunctors_, shutBy, error, wire,
                 destroyed>>

\* ... and takes it down, whatever its state has become in the meantime.
setDisconnected ==
  /\ pc = "destroy"
  /\ state_' = "kDisconnected"
  /\ update({})
  /\ Tell("down", "remove")
  /\ UNCHANGED <<input, queue, revents, call, shutBy, fault, wire, sent, server>>

\* channel_->remove(), which updates the channel.
remove ==
  /\ Goto("remove", "run")
  /\ update(events_)
  /\ destroyed' = "done"
  /\ UNCHANGED <<input, state_, queue, after, revents, call, shutBy, fault,
                 wire, sent, told, quit_>>

-------------------------------------------------------------------------------
(***************************************************************************)
(* User code, in a callback on the loop's thread or in a thread that has   *)
(* the connection from the first callback on.                              *)
(***************************************************************************)

isInLoopThread(t) == t = LoopThread

MayCall(t) ==
  /\ t \in Callers
  /\ call[t] = "idle"
  /\ told # <<>> /\ pc # "stopped"
  /\ isInLoopThread(t) => pc = "user"

Enter(t, place) == call' = [call EXCEPT ![t] = place]

\* send() finds the connection connected.
send(t) ==
  /\ MayCall(t)
  /\ state_ = "kConnected"
  /\ sent < MaxSends
  /\ Enter(t, "sending")
  /\ UNCHANGED <<input, state_, channel, queue, pc, after, revents, shutBy,
                 fault, wire, sent, told, server>>

\* ... and sends at once in the loop's thread, or queues sendInLoop.
postSend(t) ==
  /\ call[t] = "sending"
  /\ Enter(t, "idle")
  /\ sent' = sent + 1
  /\ \E len \in 1 .. MaxLen :
       LET m == [kind |-> "send", by |-> t, id |-> sent, len |-> len]
       IN  IF isInLoopThread(t) THEN sendInLoop(m)
           ELSE /\ pendingFunctors_' = Append(pendingFunctors_, m)
                /\ UNCHANGED <<wire, error>>
  /\ UNCHANGED <<input, state_, channel, functors, pc, after, revents, shutBy,
                 reset, told, server>>

\* shutdown() finds the connection connected, ...
shutdown(t) ==
  /\ MayCall(t)
  /\ state_ = "kConnected"
  /\ Enter(t, "shutting")
  /\ UNCHANGED <<input, state_, channel, queue, pc, after, revents, shutBy,
                 fault, wire, sent, told, server>>

\* ... sets its state, whatever it has become in the meantime, ...
setDisconnecting(t) ==
  /\ call[t] = "shutting"
  /\ state_' = "kDisconnecting"
  /\ Enter(t, "posting")
  /\ UNCHANGED <<input, channel, queue, pc, after, revents, shutBy, fault,
                 wire, sent, told, server>>

\* Mutated form of postShutdown: shutdownInLoop in the caller's thread.
ShutdownAtOnce(t) ==
  /\ call[t] = "posting"
  /\ Enter(t, "idle")
  /\ shutdownInLoop(t)
  /\ UNCHANGED <<input, state_, channel, queue, pc, after, revents, fault,
                 wire, sent, told, server>>

\* ... and posts shutdownInLoop.
postShutdown(t) ==
  /\ call[t] = "posting"
  /\ Enter(t, "idle")
  /\ IF isInLoopThread(t)
     THEN shutdownInLoop(t) /\ UNCHANGED pendingFunctors_
     ELSE /\ pendingFunctors_' = Append(pendingFunctors_, Call("shutdown", t))
          /\ UNCHANGED shutBy
  /\ UNCHANGED <<input, state_, channel, functors, pc, after, revents, fault,
                 wire, sent, told, server>>

\* The user takes bytes out of the input buffer.
retrieve ==
  /\ pc = "user"
  /\ \E len \in 1 .. MaxBytes : B!retrieve(len)
  /\ UNCHANGED <<state_, channel, queue, pc, after, revents, call, shutBy,
                 fault, wire, sent, told, server>>

UserReturns ==
  /\ Goto("user", after)
  /\ call[LoopThread] = "idle"
  /\ UNCHANGED <<input, state_, channel, queue, after, revents, call, shutBy,
                 fault, wire, sent, told, server>>

-------------------------------------------------------------------------------
\* The peer sends, closes or resets the connection.  A reset is an error only to one
\* who has not read the end of the peer's bytes before it.
Peer ==
  /\ \/ (B!PeerSends \/ B!PeerCloses) /\ UNCHANGED fault
     \/ /\ ~reset
        /\ reset' = TRUE
        /\ error' = ~eof
        /\ eof' = TRUE
        /\ UNCHANGED <<buffer, inbox, n, produced, consumed>>
  /\ UNCHANGED <<state_, channel, queue, pc, after, revents, call, shutBy,
                 wire, sent, told, server>>

\* The server's destructor posts connectDestroyed, ...
destroyServer ==
  /\ destroyed = "no"
  /\ destroyed' = "posted"
  /\ pendingFunctors_' =
       Append(pendingFunctors_, Call("connectDestroyed", LoopThread))
  /\ UNCHANGED <<input, state_, channel, functors, pc, after, revents, call,
                 shutBy, fault, wire, sent, told, quit_>>

\* ... and then destroys the thread pool, which quits the loop.
quit ==
  /\ destroyed # "no"
  /\ quit_' = TRUE
  /\ UNCHANGED <<input, state_, channel, queue, pc, after, revents, call, shutBy,
                 fault, wire, sent, told, destroyed>>

\* The loop's thread has ended, and what is left in the queue is never run.
Stopped ==
  /\ pc = "stopped"
  /\ UNCHANGED vars

LoopStep ==
  \/ Poll \/ HandleHangup \/ handleError \/ handleRead \/ closeCallback
  \/ doPendingFunctors \/ pendingDone
  \/ connectEstablished \/ RunSend \/ RunShutdown \/ RunUserFunctor
  \/ connectDestroyed \/ setDisconnected \/ remove

FinishCall(t) == postSend(t) \/ setDisconnecting(t) \/ postShutdown(t)

Next ==
  \/ LoopStep
  \/ UserReturns \/ retrieve
  \/ \E t \in AllThreads : send(t) \/ shutdown(t) \/ FinishCall(t)
  \/ Peer \/ destroyServer \/ quit \/ Stopped

Spec == Init /\ [][Next]_vars

(***************************************************************************)
(* The loop runs (EventLoop), poll() reports a channel that stays ready,   *)
(* begun calls are finished and user code returns.  Nobody has to call     *)
(* anything, neither peer nor server have to do anything, and the server,  *)
(* once it is being destroyed, need not come to stop the loop.             *)
(***************************************************************************)
Fairness ==
  /\ WF_vars(LoopStep)
  /\ SF_vars(Poll /\ revents' # {})
  /\ SF_vars(UserReturns)
  /\ \A t \in AllThreads : WF_vars(FinishCall(t))

FairSpec == Spec /\ Fairness

-------------------------------------------------------------------------------
(***************************************************************************)
(* Properties.                                                             *)
(***************************************************************************)

Functor(f) ==
  /\ f.kind \in {"connectEstablished", "connectDestroyed", "send", "shutdown",
                 "writeComplete", "highWaterMark"}
  /\ f.by \in AllThreads

\* Every variable holds a value of its kind; the input buffer is well formed.
TypeOK ==
  /\ B!TypeOK
  /\ state_ \in {"kConnecting", "kConnected", "kDisconnecting", "kDisconnected"}
  /\ events_ \subseteq {"IN", "OUT"}
  /\ polled \in BOOLEAN
  /\ \A i \in DOMAIN pendingFunctors_ : Functor(pendingFunctors_[i])
  /\ \A i \in DOMAIN functors : Functor(functors[i])
  /\ pc \in {"poll", "dispatch", "close", "user", "run", "destroy", "remove",
             "stopped"}
  /\ after \in {"dispatch", "close", "run", "remove"}
  /\ revents \subseteq {"IN", "HUP", "ERR"}
  /\ call \in [AllThreads -> {"idle", "sending", "shutting", "posting"}]
  /\ shutBy \subseteq AllThreads
  /\ reset \in BOOLEAN /\ error \in BOOLEAN
  /\ \A i \in DOMAIN wire : Functor(wire[i])
  /\ sent \in Nat
  /\ destroyed \in {"no", "posted", "done"}
  /\ quit_ \in BOOLEAN

\* While the server lives, the user hears of the connection first that it is up,
\* then of its messages, then once that it is down, and of nothing after that.
ToldInOrder ==
  destroyed # "done" =>
    told \in {<<>>, <<"up">>, <<"up", "message">>, <<"up", "down">>,
              <<"up", "message", "down">>}

\* Each thread's messages reach the kernel in the order in which the thread sent
\* them, each at most once and in one piece, whichever of them are sent from the
\* loop's thread, and whatever other threads send in between.
MessagesInOrder ==
  \A i, j \in DOMAIN wire :
    i < j /\ wire[i].by = wire[j].by => wire[i].id < wire[j].id

\* A thread's shutdown() lets what the thread has sent go first: once it has shut
\* the socket, no message of that thread is written any more.  (A send() accepted
\* before another thread's shutdown() may be queued behind it.)
NoWriteAfterShutdown ==
  [][\A i \in DOMAIN wire' \ DOMAIN wire : wire'[i].by \notin shutBy]_vars

Down == \E i \in DOMAIN told : told[i] = "down"

\* Once the user was told that the connection is down, writing is given up, of what
\* is queued, what another thread is sending and what the user sends from the
\* callback.  The exception is the code's: a shutdown() that found the connection
\* connected puts kDisconnecting over kDisconnected, and writing goes on.
GivesUpWriting == [][Down /\ state_ # "kDisconnecting" => wire' = wire]_vars

\* The end of the connection, whether the peer closes or resets it and whenever it
\* does, is reported to the user, unless the server's destructor stops the loop first.
EndReported == eof ~> (Down \/ (destroyed # "no" /\ pc = "stopped"))
===============================================================================
