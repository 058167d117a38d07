------------------------------- MODULE EchoServer -------------------------------
(***************************************************************************)
(* The echo server (Netmux/Test/echoServer.cpp) on one TcpConnection: its  *)
(* onMessage is the only user code, and the loop's thread the only caller. *)
(***************************************************************************)
EXTENDS TcpConnection, SequencesExt

\* onMessage: takes everything out of the input buffer and sends it back.
onMessage ==
  LET size == B!readableBytes(buffer)
      msg  == [kind |-> "send", by |-> LoopThread, id |-> sent, len |-> size]
  IN  /\ pc = "user"
      /\ size > 0
      /\ B!retrieve(size)
      /\ IF state_ = "kConnected" THEN sendInLoop(msg) /\ sent' = sent + 1
         ELSE UNCHANGED <<wire, pendingFunctors_, sent, error>>
      /\ UNCHANGED <<state_, channel, functors, pc, after, revents, call, shutBy,
                     reset, told, server>>

\* A callback returns when it has nothing left to do.
callbackReturns == UserReturns /\ B!readableBytes(buffer) = 0

EchoNext == LoopStep \/ onMessage \/ callbackReturns \/ Peer

EchoSpec == Init /\ [][EchoNext]_vars

Echoed == FoldSeq(LAMBDA m, total : m.len + total, 0, wire)

\* Between two events of a connection that is up, everything that was received has
\* been sent back.
EchoesAll == pc = "poll" /\ state_ = "kConnected" => Echoed = consumed
===============================================================================
