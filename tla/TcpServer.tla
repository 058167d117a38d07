------------------------------- MODULE TcpServer -------------------------------
(***************************************************************************)
(* A TcpServer with its Acceptor and its EventLoopThreadPool               *)
(* (Netmux/TcpServer.cc, Acceptor/Acceptor.cc,                             *)
(* reactor/EventLoopThreadPool.cc): the base loop accepts clients and deals*)
(* their connections out to the loops of the pool, which tell it when one  *)
(* closes.  Of a connection, only what the server does with it is here; its*)
(* own life is the module TcpConnection.                                   *)
(*                                                                         *)
(* Loop 0 is the base loop, loops 1 .. threadNum_ are those of the pool.   *)
(* They behave as the module EventLoop shows: batches of queued functors,  *)
(* in order, between two polls.  Connections are numbered by nextConnId_,  *)
(* which makes their names distinct.                                       *)
(***************************************************************************)
EXTENDS Naturals, Sequences, FiniteSets

CONSTANTS
  MaxThreads,  \* bound: number of threads of the pool
  BaseThread,  \* the thread of the base loop
  Users,       \* other threads that may call start()
  MaxFds,      \* number of descriptors the process has for connections
  MaxClients   \* bound: number of clients that connect

ASSUME ThreadNumAssumption == MaxThreads \in Nat
ASSUME UserAssumption == BaseThread \notin Users
ASSUME LimitAssumption == MaxFds \in Nat

VARIABLES
  threadNum_,
  started_,
  call,          \* for each thread, where it is in start()
  loops_,        \* number of loops the pool has started
  next_,
  listenning_,   \* of the acceptor
  backlog,       \* clients that wait to be accepted
  connections_,  \* the loop of each connection made so far
  pc,            \* where each loop is
  quit,          \* loops asked to end
  pending,       \* queued functors of each loop
  batch,         \* functors each loop is running
  established,   \* history: connections whose connectEstablished has run
  closed,        \* history: connections closed by their peer
  destroyed,     \* history: connections whose connectDestroyed has run
  dtor,          \* where the destructor is
  remaining      \* connections the destructor has still to visit

poolVars == <<threadNum_, started_, call, loops_, next_>>
loopVars == <<pc, quit, batch>>
connVars == <<connections_, established, closed, destroyed>>
vars == <<poolVars, listenning_, backlog, loopVars, pending, connVars, dtor,
          remaining>>

Loops == 0 .. MaxThreads
AllUsers == Users \cup {BaseThread}

Init ==
  /\ threadNum_ = 0
  /\ started_ = 0
  /\ call = [t \in AllUsers |-> "idle"]
  /\ loops_ = 0
  /\ next_ = 0
  /\ listenning_ = FALSE
  /\ backlog = 0
  /\ connections_ = <<>>
  /\ pc = [l \in Loops |-> "off"]
  /\ quit = {}
  /\ pending = [l \in Loops |-> <<>>]
  /\ batch = [l \in Loops |-> <<>>]
  /\ established = {} /\ closed = {} /\ destroyed = {}
  /\ dtor = "no"
  /\ remaining = {}

Post(l, f) == pending' = [pending EXCEPT ![l] = Append(pending[l], f)]

-------------------------------------------------------------------------------
(***************************************************************************)
(* start(), in any thread.                                                 *)
(***************************************************************************)

\* setThreadNum(), before start().
setThreadNum ==
  /\ started_ = 0
  /\ threadNum_' \in 1 .. MaxThreads
  /\ UNCHANGED <<started_, call, loops_, next_, listenning_, backlog, loopVars,
                 pending, connVars, dtor, remaining>>

\* The base thread calls start() before it calls loop().
MayStart(t) ==
  /\ call[t] = "idle"
  /\ dtor = "no"
  /\ t = BaseThread => pc[0] = "off"

\* Mutated form of start: ++started_==0.
StartPreIncrement(t) ==
  /\ MayStart(t)
  /\ started_ < 2
  /\ started_' = started_ + 1
  /\ call' = [call EXCEPT ![t] = IF started_ + 1 = 0 THEN "pool" ELSE "idle"]
  /\ UNCHANGED <<threadNum_, loops_, next_, listenning_, backlog, loopVars,
                 pending, connVars, dtor, remaining>>

\* if(started_++==0).  Two calls are enough to see a second one.
start(t) ==
  /\ MayStart(t)
  /\ started_ < 2
  /\ started_' = started_ + 1
  /\ call' = [call EXCEPT ![t] = IF started_ = 0 THEN "pool" ELSE "idle"]
  /\ UNCHANGED <<threadNum_, loops_, next_, listenning_, backlog, loopVars,
                 pending, connVars, dtor, remaining>>

\* EventLoopThreadPool::start: one more loop runs.
startLoop(t) ==
  /\ call[t] = "pool"
  /\ loops_ < threadNum_
  /\ loops_' = loops_ + 1
  /\ pc' = [pc EXCEPT ![loops_ + 1] = "poll"]
  /\ UNCHANGED <<threadNum_, started_, call, next_, listenning_, backlog, quit,
                 pending, batch, connVars, dtor, remaining>>

\* Acceptor::listen is posted to the base loop, or run at once by its thread.
postListen(t) ==
  /\ call[t] = "pool"
  /\ loops_ = threadNum_
  /\ call' = [call EXCEPT ![t] = "idle"]
  /\ IF t = BaseThread
     THEN listenning_' = TRUE /\ UNCHANGED pending
     ELSE Post(0, [run |-> "listen"]) /\ UNCHANGED listenning_
  /\ UNCHANGED <<threadNum_, started_, loops_, next_, backlog, loopVars,
                 connVars, dtor, remaining>>

-------------------------------------------------------------------------------
(***************************************************************************)
(* The base loop accepts.                                                  *)
(***************************************************************************)

\* Mutated form of NextLoop: next_ does not move.
SameLoopAgain == next_

\* Mutated form of NextLoop: one too far.
NextLoopBeyond == (next_ + 1) % (loops_ + 1)

NextLoop == (next_ + 1) % loops_

\* getNextLoop: its result, and the step of next_.
nextLoop == IF loops_ = 0 THEN 0 ELSE next_ + 1

advance == next_' = IF loops_ = 0 THEN next_ ELSE NextLoop

\* connectEstablished is posted to the connection's loop, or run at once if that
\* is the base loop.
Establish ==
  LET c == Len(connections_) + 1
  IN  IF nextLoop = 0
      THEN established' = established \cup {c} /\ UNCHANGED pending
      ELSE /\ Post(nextLoop, [run |-> "connectEstablished", conn |-> c])
           /\ UNCHANGED established

\* accept() succeeds.  connections_ holds every connection, closed or not, and with
\* it its descriptor, until the server is destroyed.
HasFd == Len(connections_) < MaxFds

\* Acceptor::handleRead accepts one client and calls newConnection.  A failed
\* accept() leaves everything as it is: the socket stays readable.
newConnection ==
  /\ pc[0] = "poll"
  /\ listenning_
  /\ backlog > 0
  /\ HasFd
  /\ backlog' = backlog - 1
  /\ connections_' = Append(connections_, nextLoop)
  /\ advance
  /\ Establish
  /\ UNCHANGED <<threadNum_, started_, call, loops_, listenning_, loopVars,
                 closed, destroyed, dtor, remaining>>

-------------------------------------------------------------------------------
(***************************************************************************)
(* The loops.                                                              *)
(***************************************************************************)

\* main calls loop() of the base loop.
enterLoop ==
  /\ pc[0] = "off"
  /\ call[BaseThread] = "idle"
  /\ dtor = "no"
  /\ pc' = [pc EXCEPT ![0] = "poll"]
  /\ UNCHANGED <<poolVars, listenning_, backlog, quit, batch, pending, connVars,
                 dtor, remaining>>

\* removeConnection: the base loop's thread calls it again from within itself, and
\* never gets out; another thread posts it to the base loop.
removeConnection(l, c) ==
  IF l = 0
  THEN pc' = [pc EXCEPT ![0] = "removing"] /\ UNCHANGED pending
  ELSE Post(0, [run |-> "removeConnection", conn |-> c]) /\ UNCHANGED pc

removeAgain == pc[0] = "removing" /\ UNCHANGED vars

\* handleClose of a connection of loop l.
handleClose(l) ==
  /\ pc[l] = "poll"
  /\ \E c \in established \ (closed \cup destroyed) :
       /\ connections_[c] = l
       /\ closed' = closed \cup {c}
       /\ removeConnection(l, c)
  /\ UNCHANGED <<poolVars, listenning_, backlog, quit, batch, connections_,
                 established, destroyed, dtor, remaining>>

doPendingFunctors(l) ==
  /\ pc[l] = "poll"
  /\ pc' = [pc EXCEPT ![l] = "run"]
  /\ batch' = [batch EXCEPT ![l] = pending[l]]
  /\ pending' = [pending EXCEPT ![l] = <<>>]
  /\ UNCHANGED <<poolVars, listenning_, backlog, quit, connVars, dtor, remaining>>

\* The next functor of loop l is a call of f.
NextIs(l, f) ==
  /\ pc[l] = "run"
  /\ batch[l] # <<>>
  /\ Head(batch[l]).run = f
  /\ batch' = [batch EXCEPT ![l] = Tail(batch[l])]
  /\ UNCHANGED <<poolVars, backlog, quit, connections_, closed, dtor, remaining>>

runListen ==
  /\ NextIs(0, "listen")
  /\ listenning_' = TRUE
  /\ UNCHANGED <<pc, pending, established, destroyed>>

runEstablished(l) ==
  /\ NextIs(l, "connectEstablished")
  /\ established' = established \cup {Head(batch[l]).conn}
  /\ UNCHANGED <<pc, pending, listenning_, destroyed>>

runDestroyed(l) ==
  /\ NextIs(l, "connectDestroyed")
  /\ destroyed' = destroyed \cup {Head(batch[l]).conn}
  /\ UNCHANGED <<pc, pending, listenning_, established>>

runRemove ==
  /\ NextIs(0, "removeConnection")
  /\ removeConnection(0, Head(batch[0]).conn)
  /\ UNCHANGED <<listenning_, established, destroyed>>

\* The batch is done: while(!quit_).
endBatch(l) ==
  /\ pc[l] = "run"
  /\ batch[l] = <<>>
  /\ pc' = [pc EXCEPT ![l] = IF l \in quit THEN "stopped" ELSE "poll"]
  /\ UNCHANGED <<poolVars, listenning_, backlog, quit, batch, pending, connVars,
                 dtor, remaining>>

-------------------------------------------------------------------------------
(***************************************************************************)
(* The destructor, in the base thread once it is out of loop().            *)
(***************************************************************************)

leaveLoop ==
  /\ pc[0] = "run"
  /\ batch[0] = <<>>
  /\ \A t \in AllUsers : call[t] = "idle"
  /\ dtor = "no"
  /\ dtor' = "connections"
  /\ pc' = [pc EXCEPT ![0] = "stopped"]
  /\ remaining' = DOMAIN connections_
  /\ UNCHANGED <<poolVars, listenning_, backlog, quit, batch, pending, connVars>>

\* Mutated form of postDestroyed: connectDestroyed in the destructor's thread.
DestroyAtOnce ==
  /\ dtor = "connections"
  /\ \E c \in remaining :
       /\ remaining' = remaining \ {c}
       /\ destroyed' = destroyed \cup {c}
  /\ UNCHANGED <<poolVars, listenning_, backlog, loopVars, pending, connections_,
                 established, closed, dtor>>

\* Mutated form of postDestroyed: connections that have closed are passed over.
DestroyOpenOnly ==
  /\ dtor = "connections"
  /\ \E c \in remaining :
       /\ remaining' = remaining \ {c}
       /\ IF connections_[c] = 0 \/ c \in closed
          THEN destroyed' = destroyed \cup ({c} \ closed) /\ UNCHANGED pending
          ELSE /\ Post(connections_[c], [run |-> "connectDestroyed", conn |-> c])
               /\ UNCHANGED destroyed
  /\ UNCHANGED <<poolVars, listenning_, backlog, loopVars, connections_,
                 established, closed, dtor>>

\* connectDestroyed of one connection is posted to its loop, or run at once.
postDestroyed ==
  /\ dtor = "connections"
  /\ \E c \in remaining :
       /\ remaining' = remaining \ {c}
       /\ IF connections_[c] = 0
          THEN destroyed' = destroyed \cup {c} /\ UNCHANGED pending
          ELSE /\ Post(connections_[c], [run |-> "connectDestroyed", conn |-> c])
               /\ UNCHANGED destroyed
  /\ UNCHANGED <<poolVars, listenning_, backlog, loopVars, connections_,
                 established, closed, dtor>>

\* The pool's threads are asked to quit and joined, one after the other.
quitLoop ==
  /\ dtor = "connections"
  /\ remaining = {}
  /\ \E l \in 1 .. loops_ :
       /\ l \notin quit
       /\ \A k \in 1 .. l - 1 : pc[k] = "stopped"
       /\ quit' = quit \cup {l}
  /\ UNCHANGED <<poolVars, listenning_, backlog, pc, batch, pending, connVars,
                 dtor, remaining>>

destructed ==
  /\ dtor = "connections"
  /\ remaining = {}
  /\ \A l \in 1 .. loops_ : pc[l] = "stopped"
  /\ dtor' = "done"
  /\ UNCHANGED <<poolVars, listenning_, backlog, loopVars, pending, connVars,
                 remaining>>

-------------------------------------------------------------------------------
Connect ==
  /\ backlog + Len(connections_) < MaxClients
  /\ backlog' = backlog + 1
  /\ UNCHANGED <<poolVars, listenning_, loopVars, pending, connVars, dtor,
                 remaining>>

Finished == dtor = "done" /\ UNCHANGED vars

\* What a loop does without a client.
LoopStep(l) ==
  \/ doPendingFunctors(l)
  \/ runEstablished(l) \/ runDestroyed(l)
  \/ endBatch(l)

BaseStep == runListen \/ runRemove \/ removeAgain

StartStep(t) == startLoop(t) \/ postListen(t)

DestructorStep == postDestroyed \/ quitLoop \/ destructed

Next ==
  \/ setThreadNum
  \/ \E t \in AllUsers : start(t) \/ StartStep(t)
  \/ enterLoop \/ newConnection \/ BaseStep
  \/ \E l \in Loops : LoopStep(l) \/ handleClose(l)
  \/ leaveLoop \/ DestructorStep
  \/ Connect \/ Finished

Spec == Init /\ [][Next]_vars

(***************************************************************************)
(* Every thread runs: a start() that was begun goes on, the loops run their*)
(* functors, poll() reports the listening socket while clients wait (a     *)
(* batch may come first any number of times), and the destructor goes on.  *)
(***************************************************************************)
Fairness ==
  /\ \A t \in AllUsers : WF_vars(StartStep(t))
  /\ WF_vars(enterLoop)
  /\ SF_vars(newConnection)
  /\ WF_vars(BaseStep)
  /\ \A l \in Loops : WF_vars(LoopStep(l))
  /\ WF_vars(DestructorStep)

FairSpec == Spec /\ Fairness

-------------------------------------------------------------------------------
(***************************************************************************)
(* Properties.                                                             *)
(***************************************************************************)

IsFunctor(f) ==
  f.run \in {"listen", "connectEstablished", "removeConnection",
            "connectDestroyed"}

\* Every variable holds a value of its kind.
TypeOK ==
  /\ threadNum_ \in 0 .. MaxThreads
  /\ started_ \in Nat
  /\ call \in [AllUsers -> {"idle", "pool"}]
  /\ loops_ \in 0 .. threadNum_
  /\ next_ \in 0 .. threadNum_
  /\ listenning_ \in BOOLEAN
  /\ backlog \in Nat
  /\ connections_ \in Seq(Loops)
  /\ pc \in [Loops -> {"off", "poll", "run", "removing", "stopped"}]
  /\ quit \subseteq Loops
  /\ \A l \in Loops : \A i \in DOMAIN pending[l] : IsFunctor(pending[l][i])
  /\ \A l \in Loops : \A i \in DOMAIN batch[l] : IsFunctor(batch[l][i])
  /\ established \cup closed \cup destroyed \cup remaining
       \subseteq DOMAIN connections_
  /\ dtor \in {"no", "connections", "done"}

Load(l) == Cardinality({c \in DOMAIN connections_ : connections_[c] = l})

\* The connections are dealt out evenly over the loops of the pool, all of which
\* run before the first one is accepted, whichever threads call start() when.
Balanced ==
  connections_ # <<>> =>
    /\ threadNum_ > 0 => Load(0) = 0
    /\ \A k, l \in 1 .. threadNum_ : Load(k) <= Load(l) + 1
    /\ \A l \in 1 .. threadNum_ : pc[l] # "off"

\* The destructor's connectDestroyed never overtakes connectEstablished, although
\* other threads run both.
DestroyedAfterEstablished == destroyed \subseteq established

\* The functor f is in the queue of loop l, which has ended and will not run it.
LeftBehind(l, f) ==
  pc[l] = "stopped" /\ \E i \in DOMAIN pending[l] : pending[l][i] = f

\* The destructor forgets no connection, whether it was up, closed or not yet set
\* up: each has been destroyed, or its connectDestroyed is what its loop left behind
\* because it read quit_ first.
NoneForgotten ==
  dtor = "done" =>
    \A c \in DOMAIN connections_ :
      \/ c \in destroyed
      \/ LeftBehind(connections_[c], [run |-> "connectDestroyed", conn |-> c])

\* As long as no connection closes and the server is not destroyed, every client
\* that comes once the server has been started is accepted and its connection set
\* up, or the descriptors have run out; and even then, with the base loop spinning on
\* the listening socket, those accepted are set up.
ClientsServed ==
  (backlog > 0 /\ started_ > 0) ~>
    \/ (backlog = 0 \/ ~HasFd) /\ established = DOMAIN connections_
    \/ closed # {}
    \/ dtor # "no"

\* A client that comes to a running server is accepted.
ClientsAccepted ==
  (backlog > 0 /\ listenning_) ~> (backlog = 0 \/ dtor # "no")
===============================================================================
