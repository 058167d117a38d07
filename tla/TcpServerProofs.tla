---------------------------- MODULE TcpServerProofs ----------------------------
(***************************************************************************)
(* Proofs about TcpServer for any number of loops in the pool, of threads  *)
(* that call start(), of clients and of descriptors.                       *)
(***************************************************************************)
EXTENDS TcpServer, SequenceTheorems, FiniteSetTheorems, TLAPS

Kinds == {"connectEstablished", "removeConnection", "connectDestroyed"}

Functors == [run : {"listen"}] \cup [run : Kinds, conn : Nat]

\* The two functors that cross from the base thread to the loop of connection c.
EstablishOf(c) == [run |-> "connectEstablished", conn |-> c]
DestroyOf(c) == [run |-> "connectDestroyed", conn |-> c]

InPending(l, f) == \E i \in 1 .. Len(pending[l]) : pending[l][i] = f
InBatch(l, f) == \E i \in 1 .. Len(batch[l]) : batch[l][i] = f

Queues ==
  /\ pending \in [Loops -> Seq(Functors)]
  /\ batch \in [Loops -> Seq(Functors)]

\* start() has come to its end: the pool is complete.
Ready == started_ > 0 /\ loops_ = threadNum_

\* What may be queued in loop l: listening and removals in the base loop, once the
\* pool is complete, and what concerns a connection in that connection's loop.
Belongs(f, l) ==
  \/ l = 0 /\ f.run = "listen" /\ Ready
  \/ l = 0 /\ f.run = "removeConnection"
  \/ /\ l # 0
     /\ f.run \in {"connectEstablished", "connectDestroyed"}
     /\ f.conn \in DOMAIN connections_
     /\ connections_[f.conn] = l

Located ==
  \A l \in Loops : \A f \in Functors :
    InPending(l, f) \/ InBatch(l, f) => Belongs(f, l)

\* Nothing is accepted before the pool is complete, and of its loops just those that
\* have been started are not off.
StartInv ==
  /\ started_ = 0 => loops_ = 0 /\ \A t \in AllUsers : call[t] = "idle"
  /\ listenning_ \/ connections_ # <<>> => Ready
  /\ \A l \in Loops \ {0} : pc[l] = "off" <=> l > loops_

\* Functors are taken out of the queue only to be run.
BatchInv ==
  \A l \in Loops : pc[l] \in {"off", "poll", "stopped"} => batch[l] = <<>>

\* The pool's loops before next_ have one connection more than those from next_ on,
\* and the base loop has connections only if there is no pool.
Extra(l) == IF l <= next_ THEN 1 ELSE 0

DealtInv ==
  /\ next_ = 0 \/ next_ < loops_
  /\ connections_ = <<>> => next_ = 0
  /\ \A c \in DOMAIN connections_ :
       connections_[c] \in IF loops_ = 0 THEN {0} ELSE 1 .. loops_
  /\ \A k, l \in 1 .. loops_ : Load(k) - Extra(k) = Load(l) - Extra(l)

\* The connectEstablished of a connection has run or is on its way, ...
EstablishInv ==
  \A c \in DOMAIN connections_ :
    LET l == connections_[c]
    IN  c \in established \/ InBatch(l, EstablishOf(c)) \/ InPending(l, EstablishOf(c))

\* ... always ahead of its connectDestroyed.
OrderInv ==
  \A c \in DOMAIN connections_ \ established : \A l \in Loops :
    /\ \A i \in 1 .. Len(batch[l]) :
         batch[l][i] = DestroyOf(c) =>
           \E j \in 1 .. i - 1 : batch[l][j] = EstablishOf(c)
    /\ \A i \in 1 .. Len(pending[l]) :
         pending[l][i] = DestroyOf(c) =>
           \/ InBatch(l, EstablishOf(c))
           \/ \E j \in 1 .. i - 1 : pending[l][j] = EstablishOf(c)

\* The destructor runs after everything the base thread did, and what it has gone
\* past is destroyed or on its way.
DtorInv ==
  /\ dtor # "no" => pc[0] = "stopped" /\ \A t \in AllUsers : call[t] = "idle"
  /\ dtor # "no" =>
       \A c \in DOMAIN connections_ \ (remaining \cup destroyed) :
         LET l == connections_[c]
         IN  InBatch(l, DestroyOf(c)) \/ InPending(l, DestroyOf(c))
  /\ dtor = "done" => remaining = {} /\ \A l \in 1 .. loops_ : pc[l] = "stopped"

IInv ==
  /\ TypeOK
  /\ Queues
  /\ Located
  /\ StartInv
  /\ BatchInv
  /\ DealtInv
  /\ EstablishInv
  /\ OrderInv
  /\ DestroyedAfterEstablished
  /\ DtorInv

USE ThreadNumAssumption, UserAssumption

-------------------------------------------------------------------------------
(***************************************************************************)
(* Functors and queues.                                                    *)
(***************************************************************************)

\* The functors there are, taken apart.
LEMMA FunctorForms ==
  /\ [run |-> "listen"] \in Functors
  /\ \A c \in Nat : \A r \in Kinds : [run |-> r, conn |-> c] \in Functors
  /\ \A f \in Functors :
       /\ f.run = "listen" \/ f.run \in Kinds
       /\ f.run \in Kinds => f.conn \in Nat /\ f = [run |-> f.run, conn |-> f.conn]
BY DEF Functors, Kinds

\* A post adds one functor at the end of one queue.
LEMMA PostEffect ==
  ASSUME Queues, NEW l \in Loops, NEW f \in Functors, Post(l, f)
  PROVE  /\ pending' \in [Loops -> Seq(Functors)]
         /\ \A k \in Loops \ {l} : pending'[k] = pending[k]
         /\ Len(pending[l]) \in Nat
         /\ Len(pending'[l]) = Len(pending[l]) + 1
         /\ \A i \in 1 .. Len(pending[l]) : pending'[l][i] = pending[l][i]
         /\ pending'[l][Len(pending[l]) + 1] = f
<1>1. pending[l] \in Seq(Functors)
  BY DEF Queues
<1>2. pending' = [pending EXCEPT ![l] = Append(pending[l], f)]
  BY DEF Post
<1>3. pending'[l] = Append(pending[l], f)
  BY <1>2 DEF Queues
<1>4. /\ Append(pending[l], f) \in Seq(Functors)
      /\ Len(Append(pending[l], f)) = Len(pending[l]) + 1
      /\ \A i \in 1 .. Len(pending[l]) : Append(pending[l], f)[i] = pending[l][i]
      /\ Append(pending[l], f)[Len(pending[l]) + 1] = f
  BY <1>1, AppendProperties
<1>5. Len(pending[l]) \in Nat
  BY <1>1, LenProperties
<1>6. QED
  BY <1>2, <1>3, <1>4, <1>5 DEF Queues

\* A post of f leaves a functor where it is in the queue, and the queue has f.
LEMMA PostKeeps ==
  ASSUME Queues, NEW l \in Loops, NEW f \in Functors, Post(l, f)
  PROVE  /\ \A k \in Loops : \A g : InPending(k, g) => InPending(k, g)'
         /\ InPending(l, f)'
         /\ \A k \in Loops : \A i \in 1 .. Len(pending'[k]) :
              \/ i \in 1 .. Len(pending[k]) /\ pending'[k][i] = pending[k][i]
              \/ k = l /\ i = Len(pending[k]) + 1 /\ pending'[k][i] = f
<1>1. \A k \in Loops : Len(pending[k]) \in Nat
  BY LenProperties DEF Queues
<1>2. \A k \in Loops : \A i \in 1 .. Len(pending[k]) :
        i \in 1 .. Len(pending'[k]) /\ pending'[k][i] = pending[k][i]
  BY <1>1, PostEffect
<1>3. \A k \in Loops : \A g : InPending(k, g) => InPending(k, g)'
  BY <1>2 DEF InPending
<1>4. InPending(l, f)'
  BY <1>1, PostEffect DEF InPending
<1>5. \A k \in Loops : \A i \in 1 .. Len(pending'[k]) :
        \/ i \in 1 .. Len(pending[k]) /\ pending'[k][i] = pending[k][i]
        \/ k = l /\ i = Len(pending[k]) + 1 /\ pending'[k][i] = f
  BY <1>1, PostEffect
<1>6. QED
  BY <1>3, <1>4, <1>5

\* doPendingFunctors empties one queue into the batch of its loop.
LEMMA SwapEffect ==
  ASSUME Queues, NEW l \in Loops, doPendingFunctors(l)
  PROVE  /\ Queues'
         /\ \A k \in Loops \ {l} : pending'[k] = pending[k] /\ batch'[k] = batch[k]
         /\ batch'[l] = pending[l]
         /\ pending'[l] = <<>> /\ Len(pending'[l]) = 0
<1>1. <<>> \in Seq(Functors) /\ Len(<<>>) = 0
  BY EmptySeq
<1>2. QED
  BY <1>1 DEF Queues, doPendingFunctors

\* A functor that starts leaves the batch at its head.
LEMMA NextIsEffect ==
  ASSUME Queues, NEW l \in Loops, NEW f, NextIs(l, f)
  PROVE  /\ batch' \in [Loops -> Seq(Functors)]
         /\ \A k \in Loops \ {l} : batch'[k] = batch[k]
         /\ Len(batch[l]) \in Nat \ {0}
         /\ Len(batch'[l]) = Len(batch[l]) - 1
         /\ \A i \in 1 .. Len(batch'[l]) : batch'[l][i] = batch[l][i + 1]
         /\ Head(batch[l]) = batch[l][1]
         /\ batch[l][1] \in Functors
         /\ batch[l][1].run = f
         /\ pc[l] = "run"
<1>1. batch[l] \in Seq(Functors) /\ batch[l] # <<>>
  BY DEF Queues, NextIs
<1>2. batch' = [batch EXCEPT ![l] = Tail(batch[l])]
  BY DEF NextIs
<1>3. /\ Head(batch[l]) \in Functors
      /\ Tail(batch[l]) \in Seq(Functors)
      /\ Len(Tail(batch[l])) = Len(batch[l]) - 1
      /\ \A i \in 1 .. Len(Tail(batch[l])) : Tail(batch[l])[i] = batch[l][i + 1]
  BY <1>1, HeadTailProperties
<1>4. Len(batch[l]) \in Nat \ {0} /\ Head(batch[l]) = batch[l][1]
  BY <1>1, EmptySeq
<1>5. batch'[l] = Tail(batch[l])
  BY <1>2 DEF Queues
<1>6. Head(batch[l]).run = f /\ pc[l] = "run"
  BY DEF NextIs
<1>7. QED
  BY <1>2, <1>3, <1>4, <1>5, <1>6 DEF Queues

-------------------------------------------------------------------------------
(***************************************************************************)
(* Types.                                                                  *)
(***************************************************************************)

\* The next loop is one of the pool, or the base loop if there is no pool, and next_
\* comes round to 0 after the last one.
LEMMA NextLoopRange ==
  ASSUME TypeOK, DealtInv
  PROVE  /\ nextLoop \in Loops
         /\ IF loops_ = 0 THEN nextLoop = 0
            ELSE nextLoop = next_ + 1 /\ nextLoop \in 1 .. loops_
         /\ loops_ # 0 => NextLoop = IF next_ + 1 = loops_ THEN 0 ELSE next_ + 1
<1>1. loops_ \in 0 .. threadNum_ /\ threadNum_ \in 0 .. MaxThreads /\ next_ \in Nat
  BY DEF TypeOK
<1>2. next_ = 0 \/ next_ < loops_
  BY DEF DealtInv
<1>3. nextLoop \in Loops
  BY <1>1, <1>2 DEF nextLoop, Loops
<1>4. \A n \in Nat \ {0} : n % n = 0 /\ \A x \in 0 .. n - 1 : x % n = x
  OBVIOUS
<1>5. loops_ # 0 => NextLoop = IF next_ + 1 = loops_ THEN 0 ELSE next_ + 1
  BY <1>1, <1>2, <1>4 DEF NextLoop
<1>6. QED
  BY <1>1, <1>2, <1>3, <1>5 DEF nextLoop

\* A new connection is appended to those there are.
LEMMA ConnectionAdded ==
  ASSUME TypeOK, DealtInv, newConnection
  PROVE  /\ Len(connections_) \in Nat
         /\ DOMAIN connections_ = 1 .. Len(connections_)
         /\ connections_' \in Seq(Loops)
         /\ DOMAIN connections_' = 1 .. Len(connections_) + 1
         /\ \A c \in DOMAIN connections_ : connections_'[c] = connections_[c]
         /\ connections_'[Len(connections_) + 1] = nextLoop
         /\ connections_' # <<>>
<1>1. connections_ \in Seq(Loops) /\ nextLoop \in Loops
  BY NextLoopRange DEF TypeOK
<1>2. connections_' = Append(connections_, nextLoop)
  BY DEF newConnection
<1>3. /\ connections_' \in Seq(Loops) /\ connections_' # <<>>
      /\ Len(connections_') = Len(connections_) + 1
      /\ \A i \in 1 .. Len(connections_) : connections_'[i] = connections_[i]
      /\ connections_'[Len(connections_) + 1] = nextLoop
  BY <1>1, <1>2, AppendProperties
<1>4. /\ Len(connections_) \in Nat /\ DOMAIN connections_ = 1 .. Len(connections_)
      /\ DOMAIN connections_' = 1 .. Len(connections_')
  BY <1>1, <1>3, LenProperties
<1>5. QED
  BY <1>3, <1>4

\* The steps that make no connection.
LEMMA NoNewConnection ==
  ASSUME [Next]_vars, ~newConnection
  PROVE  connections_' = connections_
BY DEF Next, StartStep, BaseStep, LoopStep, DestructorStep, setThreadNum, start,
       startLoop, postListen, enterLoop, runListen, runRemove, removeAgain,
       doPendingFunctors, runEstablished, runDestroyed, endBatch, NextIs, handleClose,
       leaveLoop, postDestroyed, quitLoop, destructed, Connect, Finished, vars,
       connVars, poolVars

\* The functors that are posted.
LEMMA Posted ==
  ASSUME TypeOK, DealtInv
  PROVE  /\ 0 \in Loops
         /\ [run |-> "listen"] \in Functors
         /\ EstablishOf(Len(connections_) + 1) \in Functors
         /\ \A c \in DOMAIN connections_ :
              /\ c \in Nat
              /\ DestroyOf(c) \in Functors
              /\ [run |-> "removeConnection", conn |-> c] \in Functors
              /\ connections_[c] \in Loops
<1>1. Len(connections_) \in Nat /\ DOMAIN connections_ = 1 .. Len(connections_)
      /\ \A c \in 1 .. Len(connections_) : connections_[c] \in Loops
  BY LenProperties, ElementOfSeq DEF TypeOK
<1>2. 0 \in Loops
  BY DEF Loops
<1>3. \A c \in Nat : /\ EstablishOf(c) \in Functors
                     /\ DestroyOf(c) \in Functors
                     /\ [run |-> "removeConnection", conn |-> c] \in Functors
  BY FunctorForms DEF Kinds, EstablishOf, DestroyOf
<1>4. [run |-> "listen"] \in Functors
  BY FunctorForms
<1>5. Len(connections_) + 1 \in Nat /\ DOMAIN connections_ \subseteq Nat
  BY <1>1
<1>6. EstablishOf(Len(connections_) + 1) \in Functors
  BY <1>3, <1>5
<1>7. QED
  BY <1>1, <1>2, <1>3, <1>4, <1>5, <1>6

\* The four steps that post a functor f to the queue of loop l.
Posts(l, f) ==
  /\ Post(l, f)
  /\ UNCHANGED batch
  /\ \/ f = [run |-> "listen"] /\ l = 0 /\ \E t \in AllUsers : postListen(t)
     \/ f.run = "removeConnection" /\ l = 0 /\ \E k \in Loops : handleClose(k)
     \/ f = EstablishOf(Len(connections_) + 1) /\ l = nextLoop /\ l # 0 /\ newConnection
     \/ /\ postDestroyed
        /\ \E c \in remaining : /\ f = DestroyOf(c) /\ l = connections_[c] /\ l # 0
                                /\ remaining' = remaining \ {c}

\* The steps that run a functor f of loop l.
Runs(l, f) ==
  /\ NextIs(l, f)
  /\ UNCHANGED pending
  /\ f = "connectEstablished" => runEstablished(l)
  /\ f = "connectDestroyed" => runDestroyed(l)

\* Every step leaves the queues as they are, empties one, starts a functor, or posts
\* one.
LEMMA QueueSteps ==
  ASSUME TypeOK, DealtInv, [Next]_vars
  PROVE  \/ UNCHANGED <<pending, batch>>
         \/ \E l \in Loops : doPendingFunctors(l)
         \/ \E l \in Loops, f \in Kinds \cup {"listen"} : Runs(l, f)
         \/ \E l \in Loops, f \in Functors : Posts(l, f)
<1> USE Posted DEF loopVars
<1>1. ASSUME NEW t \in AllUsers, start(t) \/ StartStep(t)
      PROVE  UNCHANGED <<pending, batch>> \/ Posts(0, [run |-> "listen"])
  BY <1>1 DEF start, StartStep, startLoop, postListen, Posts
<1>2. CASE newConnection
  <2>1. CASE nextLoop = 0
    BY <1>2, <2>1 DEF newConnection, Establish
  <2>2. CASE nextLoop # 0
    <3>1. Posts(nextLoop, EstablishOf(Len(connections_) + 1))
      BY <1>2, <2>2 DEF newConnection, Establish, EstablishOf, Posts
    <3>2. QED
      BY <3>1, NextLoopRange
  <2>3. QED
    BY <2>1, <2>2
<1>3. CASE runListen \/ runRemove
  BY <1>3 DEF runListen, runRemove, removeConnection, Kinds, Runs
<1>4. ASSUME NEW l \in Loops, runEstablished(l) \/ runDestroyed(l)
      PROVE  \E f \in Kinds \cup {"listen"} : Runs(l, f)
  <2>1. CASE runEstablished(l)
    <3>1. Runs(l, "connectEstablished")
      BY <2>1 DEF runEstablished, Runs
    <3>2. QED
      BY <3>1 DEF Kinds
  <2>2. CASE runDestroyed(l)
    <3>1. Runs(l, "connectDestroyed")
      BY <2>2 DEF runDestroyed, Runs
    <3>2. QED
      BY <3>1 DEF Kinds
  <2>3. QED
    BY <1>4, <2>1, <2>2
<1>5. ASSUME NEW l \in Loops, handleClose(l)
      PROVE  UNCHANGED <<pending, batch>> \/ \E f \in Functors : Posts(0, f)
  BY <1>5 DEF handleClose, removeConnection, TypeOK, Posts
<1>6. CASE postDestroyed
  <2>1. PICK c \in remaining :
          /\ remaining' = remaining \ {c}
          /\ IF connections_[c] = 0 THEN UNCHANGED pending
             ELSE Post(connections_[c], DestroyOf(c))
    BY <1>6 DEF postDestroyed, DestroyOf
  <2>2. UNCHANGED batch /\ c \in DOMAIN connections_
    BY <1>6 DEF postDestroyed, TypeOK
  <2>3. connections_[c] # 0 => Posts(connections_[c], DestroyOf(c))
    BY <1>6, <2>1, <2>2 DEF Posts
  <2>4. QED
    BY <2>1, <2>2, <2>3
<1>7. CASE setThreadNum \/ enterLoop \/ removeAgain \/ leaveLoop \/ quitLoop
             \/ destructed \/ Connect \/ Finished
  BY <1>7 DEF setThreadNum, enterLoop, removeAgain, leaveLoop, quitLoop, destructed,
              Connect, Finished, vars
<1>8. ASSUME NEW l \in Loops, endBatch(l)
      PROVE  UNCHANGED <<pending, batch>>
  BY <1>8 DEF endBatch
<1>9. CASE UNCHANGED vars
  BY <1>9 DEF vars
<1>10. QED
  BY <1>1, <1>2, <1>3, <1>4, <1>5, <1>6, <1>7, <1>8, <1>9
     DEF Next, BaseStep, LoopStep, DestructorStep

\* The queues hold functors.
LEMMA NextQueues == TypeOK /\ DealtInv /\ Queues /\ [Next]_vars => Queues'
<1> SUFFICES ASSUME TypeOK, DealtInv, Queues, [Next]_vars
             PROVE  Queues'
  OBVIOUS
<1>1. CASE UNCHANGED <<pending, batch>>
  BY <1>1 DEF Queues
<1>2. ASSUME NEW l \in Loops, doPendingFunctors(l)
      PROVE  Queues'
  BY <1>2, SwapEffect
<1>3. ASSUME NEW l \in Loops, NEW f, Runs(l, f)
      PROVE  Queues'
  BY <1>3, NextIsEffect DEF Queues, Runs
<1>4. ASSUME NEW l \in Loops, NEW f \in Functors, Posts(l, f)
      PROVE  Queues'
  BY <1>4, PostEffect DEF Queues, Posts
<1>5. QED
  BY <1>1, <1>2, <1>3, <1>4, QueueSteps

\* What a queue of functors holds are functors.
LEMMA QueueTyped ==
  ASSUME NEW q \in Seq(Functors)
  PROVE  \A i \in DOMAIN q : IsFunctor(q[i])
<1>1. \A f \in Functors : IsFunctor(f)
  BY FunctorForms DEF IsFunctor, Kinds
<1>2. \A i \in DOMAIN q : q[i] \in Functors
  BY LenProperties
<1>3. QED
  BY <1>1, <1>2

\* The functors a loop other than the base loop runs are of its own connections.
LEMMA HeadBelongs ==
  ASSUME Queues, Located, NEW l \in Loops, NEW f, NextIs(l, f)
  PROVE  Belongs(batch[l][1], l)
<1>1. InBatch(l, batch[l][1]) /\ batch[l][1] \in Functors
  BY NextIsEffect DEF InBatch
<1>2. QED
  BY <1>1 DEF Located

\* The histories hold numbers of connections.
LEMMA NextHistories ==
  TypeOK /\ DealtInv /\ Queues /\ Located /\ [Next]_vars
    => (established \cup closed \cup destroyed \cup remaining
          \subseteq DOMAIN connections_)'
<1> SUFFICES ASSUME TypeOK, DealtInv, Queues, Located, [Next]_vars
             PROVE  established' \cup closed' \cup destroyed' \cup remaining'
                      \subseteq DOMAIN connections_'
  OBVIOUS
<1>1. established \cup closed \cup destroyed \cup remaining \subseteq DOMAIN connections_
  BY DEF TypeOK
<1>2. CASE newConnection
  BY <1>1, <1>2, ConnectionAdded DEF newConnection, Establish
<1>3. ASSUME NEW l \in Loops, runEstablished(l) \/ runDestroyed(l)
      PROVE  established' \cup closed' \cup destroyed' \cup remaining'
               \subseteq DOMAIN connections_'
  <2>1. Head(batch[l]) = batch[l][1]
        /\ batch[l][1].run \in {"connectEstablished", "connectDestroyed"}
    BY <1>3, NextIsEffect DEF runEstablished, runDestroyed
  <2>2. Head(batch[l]).conn \in DOMAIN connections_
    BY <1>3, <2>1, HeadBelongs DEF Belongs, runEstablished, runDestroyed
  <2>3. QED
    BY <1>1, <1>3, <2>2 DEF runEstablished, runDestroyed, NextIs
<1>4. CASE runListen \/ runRemove
  BY <1>1, <1>4 DEF runListen, runRemove, NextIs
<1>5. CASE leaveLoop
  BY <1>1, <1>5 DEF leaveLoop, connVars
<1>6. CASE postDestroyed
  BY <1>1, <1>6 DEF postDestroyed
<1>7. ASSUME NEW l \in Loops, handleClose(l)
      PROVE  established' \cup closed' \cup destroyed' \cup remaining'
               \subseteq DOMAIN connections_'
  BY <1>1, <1>7 DEF handleClose
<1>8. CASE UNCHANGED <<connections_, established, closed, destroyed, remaining>>
  BY <1>1, <1>8
<1>9. QED
  BY <1>2, <1>3, <1>4, <1>5, <1>6, <1>7, <1>8
     DEF Next, StartStep, BaseStep, LoopStep, DestructorStep, setThreadNum, start,
         startLoop, postListen, enterLoop, removeAgain, doPendingFunctors, endBatch,
         quitLoop, destructed, Connect, Finished, vars, connVars

\* Every variable keeps its kind.
LEMMA NextTypeOK ==
  TypeOK /\ DealtInv /\ Queues /\ Located /\ StartInv /\ [Next]_vars => TypeOK'
<1> SUFFICES ASSUME TypeOK, DealtInv, Queues, Located, StartInv, [Next]_vars
             PROVE  TypeOK'
  OBVIOUS
<1>1. (\A l \in Loops : /\ \A i \in DOMAIN pending[l] : IsFunctor(pending[l][i])
                        /\ \A i \in DOMAIN batch[l] : IsFunctor(batch[l][i]))'
  BY NextQueues, QueueTyped DEF Queues
<1>2. (established \cup closed \cup destroyed \cup remaining
         \subseteq DOMAIN connections_)'
  BY NextHistories
<1>3. connections_' \in Seq(Loops)
  BY ConnectionAdded, NoNewConnection DEF TypeOK
<1>4. /\ threadNum_' \in 0 .. MaxThreads
      /\ started_' \in Nat
      /\ call' \in [AllUsers -> {"idle", "pool"}]
      /\ loops_' \in 0 .. threadNum_'
      /\ next_' \in 0 .. threadNum_'
      /\ listenning_' \in BOOLEAN
      /\ backlog' \in Nat
      /\ pc' \in [Loops -> {"off", "poll", "run", "removing", "stopped"}]
      /\ quit' \subseteq Loops
      /\ dtor' \in {"no", "connections", "done"}
  <2> DEFINE Kept == /\ UNCHANGED <<threadNum_, loops_, next_>>
                     /\ started_' \in Nat
                     /\ call' \in [AllUsers -> {"idle", "pool"}]
                     /\ listenning_' \in BOOLEAN
                     /\ backlog' \in Nat
                     /\ pc' \in [Loops -> {"off", "poll", "run", "removing", "stopped"}]
                     /\ quit' \subseteq Loops
                     /\ dtor' \in {"no", "connections", "done"}
  <2> USE DEF TypeOK, poolVars, loopVars
  <2>1. CASE setThreadNum
    BY <2>1 DEF setThreadNum, StartInv, DealtInv
  <2>2. ASSUME NEW t \in AllUsers, startLoop(t)
        PROVE  /\ loops_' \in 0 .. threadNum_
               /\ pc' \in [Loops -> {"off", "poll", "run", "removing", "stopped"}]
               /\ UNCHANGED <<threadNum_, started_, call, next_, listenning_, backlog,
                              quit, dtor>>
    BY <2>2 DEF startLoop, Loops
  <2>3. CASE newConnection
    <3>1. next_' \in 0 .. threadNum_
      BY <2>3, NextLoopRange DEF newConnection, advance
    <3>2. backlog' \in Nat
      BY <2>3 DEF newConnection
    <3>3. QED
      BY <2>3, <3>1, <3>2 DEF newConnection
  <2>4. ASSUME NEW t \in AllUsers, start(t) \/ postListen(t)
        PROVE  Kept
    <3>1. CASE start(t)
      BY <3>1 DEF start
    <3>2. CASE postListen(t)
      BY <3>2 DEF postListen
    <3>3. QED
      BY <2>4, <3>1, <3>2
  <2>5. CASE enterLoop \/ BaseStep \/ leaveLoop \/ DestructorStep \/ Connect \/ Finished
    <3>1. 0 \in Loops /\ 1 .. loops_ \subseteq Loops
      BY DEF Loops
    <3>2. CASE enterLoop \/ leaveLoop \/ Connect \/ Finished
      BY <3>1, <3>2 DEF enterLoop, leaveLoop, Connect, Finished, vars
    <3>3. CASE BaseStep
      BY <3>1, <3>3 DEF BaseStep, runListen, runRemove, removeAgain, removeConnection,
                        NextIs, vars
    <3>4. CASE DestructorStep
      BY <3>1, <3>4 DEF DestructorStep, postDestroyed, quitLoop, destructed
    <3>5. QED
      BY <2>5, <3>2, <3>3, <3>4
  <2>6. ASSUME NEW l \in Loops, LoopStep(l)
        PROVE  Kept
    <3>1. CASE doPendingFunctors(l)
      BY <3>1 DEF doPendingFunctors
    <3>2. CASE runEstablished(l) \/ runDestroyed(l)
      BY <3>2 DEF runEstablished, runDestroyed, NextIs
    <3>3. CASE endBatch(l)
      BY <3>3 DEF endBatch
    <3>4. QED
      BY <2>6, <3>1, <3>2, <3>3 DEF LoopStep
  <2>7. ASSUME NEW l \in Loops, handleClose(l)
        PROVE  Kept
    BY <2>7 DEF handleClose, removeConnection, Loops
  <2>8. CASE UNCHANGED vars
    BY <2>8 DEF vars
  <2>9. QED
    BY <2>1, <2>2, <2>3, <2>4, <2>5, <2>6, <2>7, <2>8 DEF Next, StartStep
<1>5. QED
  BY <1>1, <1>2, <1>3, <1>4 DEF TypeOK

-------------------------------------------------------------------------------
(***************************************************************************)
(* The start, and what is queued where.                                    *)
(***************************************************************************)

\* The steps outside start() leave the pool as it is.
LEMMA PoolSteps ==
  ASSUME [Next]_vars, ~setThreadNum, \A t \in AllUsers : ~start(t) /\ ~StartStep(t)
  PROVE  UNCHANGED <<threadNum_, started_, call, loops_>>
BY DEF Next, BaseStep, LoopStep, DestructorStep, newConnection, enterLoop, runListen,
       runRemove, removeAgain, doPendingFunctors, runEstablished, runDestroyed,
       endBatch, NextIs, handleClose, leaveLoop, postDestroyed, quitLoop, destructed,
       Connect, Finished, vars, poolVars

\* A complete pool stays complete.
LEMMA ReadyStays ==
  ASSUME TypeOK, [Next]_vars, Ready
  PROVE  Ready'
<1>1. CASE setThreadNum
  BY <1>1 DEF setThreadNum, Ready
<1>2. ASSUME NEW t \in AllUsers, start(t) \/ StartStep(t)
      PROVE  Ready'
  BY <1>2 DEF start, StartStep, startLoop, postListen, Ready, TypeOK
<1>3. CASE UNCHANGED <<threadNum_, started_, call, loops_>>
  BY <1>3 DEF Ready
<1>4. QED
  BY <1>1, <1>2, <1>3, PoolSteps

\* The steps that do not start listening.
LEMMA ListenSteps ==
  ASSUME [Next]_vars, ~runListen, \A t \in AllUsers : ~postListen(t)
  PROVE  listenning_' = listenning_
BY DEF Next, StartStep, BaseStep, LoopStep, DestructorStep, setThreadNum, start,
       startLoop, newConnection, enterLoop, runRemove, removeAgain, doPendingFunctors,
       runEstablished, runDestroyed, endBatch, NextIs, handleClose, leaveLoop,
       postDestroyed, quitLoop, destructed, Connect, Finished, vars, poolVars

\* A loop that runs is never off again, and those of the pool are started by start().
LEMMA OnAndOff ==
  ASSUME TypeOK, [Next]_vars, NEW l \in Loops
  PROVE  /\ pc[l] # "off" => pc'[l] # "off"
         /\ pc[l] = "off" /\ l # 0 /\ (\A t \in AllUsers : ~startLoop(t)) => pc'[l] = "off"
<1> USE DEF TypeOK, loopVars
<1>1. CASE setThreadNum \/ newConnection \/ runListen \/ removeAgain \/ DestructorStep
             \/ Connect \/ Finished
  BY <1>1 DEF setThreadNum, newConnection, runListen, removeAgain, DestructorStep,
              postDestroyed, quitLoop, destructed, Connect, Finished, vars
<1>2. ASSUME NEW t \in AllUsers, start(t) \/ postListen(t)
      PROVE  pc' = pc
  BY <1>2 DEF start, postListen
<1>3. ASSUME NEW t \in AllUsers, startLoop(t)
      PROVE  pc[l] # "off" => pc'[l] # "off"
  BY <1>3 DEF startLoop
<1>4. CASE enterLoop \/ leaveLoop \/ runRemove
  BY <1>4 DEF enterLoop, leaveLoop, runRemove, removeConnection
<1>5. ASSUME NEW k \in Loops, LoopStep(k)
      PROVE  pc[l] = "off" <=> pc'[l] = "off"
  BY <1>5 DEF LoopStep, doPendingFunctors, runEstablished, runDestroyed, endBatch, NextIs
<1>6. ASSUME NEW k \in Loops, handleClose(k)
      PROVE  pc[l] = "off" <=> pc'[l] = "off"
  BY <1>6 DEF handleClose, removeConnection
<1>7. CASE UNCHANGED vars
  BY <1>7 DEF vars
<1>8. QED
  BY <1>1, <1>2, <1>3, <1>4, <1>5, <1>6, <1>7 DEF Next, BaseStep, StartStep

\* start() completes the pool before it listens, whichever thread calls it.
LEMMA NextStartInv ==
  TypeOK /\ DealtInv /\ Queues /\ Located /\ StartInv /\ [Next]_vars => StartInv'
<1> SUFFICES ASSUME TypeOK, DealtInv, Queues, Located, StartInv, [Next]_vars
             PROVE  StartInv'
  OBVIOUS
<1>1. started_' = 0 => loops_' = 0 /\ \A t \in AllUsers : call'[t] = "idle"
  <2>1. CASE setThreadNum
    BY <2>1 DEF setThreadNum, StartInv
  <2>2. ASSUME NEW t \in AllUsers, start(t) \/ StartStep(t)
        PROVE  started_' # 0
    BY <2>2 DEF start, StartStep, startLoop, postListen, StartInv, TypeOK
  <2>3. CASE UNCHANGED <<threadNum_, started_, call, loops_>>
    BY <2>3 DEF StartInv
  <2>4. QED
    BY <2>1, <2>2, <2>3, PoolSteps
<1>2. listenning_' => Ready'
  <2>1. CASE listenning_
    BY <2>1, ReadyStays DEF StartInv
  <2>2. CASE runListen
    <3>1. 0 \in Loops /\ batch[0][1].run = "listen"
      BY <2>2, NextIsEffect DEF runListen, Loops
    <3>2. Ready
      BY <2>2, <3>1, HeadBelongs DEF runListen, Belongs
    <3>3. QED
      BY <3>2, ReadyStays
  <2>3. ASSUME NEW t \in AllUsers, postListen(t)
        PROVE  Ready'
    BY <2>3 DEF postListen, Ready, StartInv, TypeOK
  <2>4. QED
    BY <2>1, <2>2, <2>3, ListenSteps
<1>3. connections_' # <<>> => Ready'
  BY NoNewConnection, ReadyStays DEF StartInv, newConnection
<1>4. \A l \in Loops \ {0} : pc'[l] = "off" <=> l > loops_'
  <2>1. ASSUME NEW t \in AllUsers, startLoop(t), NEW l \in Loops \ {0}
        PROVE  pc'[l] = "off" <=> l > loops_'
    BY <2>1 DEF startLoop, StartInv, TypeOK, Loops
  <2>2. CASE loops_' = loops_ /\ \A t \in AllUsers : ~startLoop(t)
    BY <2>2, OnAndOff DEF StartInv
  <2>3. QED
    BY <2>1, <2>2, PoolSteps DEF setThreadNum, start, StartStep, postListen
<1>5. QED
  BY <1>1, <1>2, <1>3, <1>4 DEF StartInv

\* Once queued, a functor belongs where it is.
LEMMA BelongsStays ==
  ASSUME TypeOK, DealtInv, [Next]_vars, NEW f \in Functors, NEW l \in Loops,
         Belongs(f, l)
  PROVE  Belongs(f, l)'
<1>1. \A c \in DOMAIN connections_ :
        c \in DOMAIN connections_' /\ connections_'[c] = connections_[c]
  BY ConnectionAdded, NoNewConnection
<1>2. Ready => Ready'
  BY ReadyStays
<1>3. QED
  BY <1>1, <1>2 DEF Belongs

\* What the steps post belongs where it is posted.
LEMMA PostsBelong ==
  ASSUME TypeOK, DealtInv, StartInv, [Next]_vars,
         NEW l \in Loops, NEW f \in Functors, Posts(l, f)
  PROVE  Belongs(f, l)'
<1>1. CASE f = [run |-> "listen"] /\ l = 0 /\ \E t \in AllUsers : postListen(t)
  <2>1. Ready'
    BY <1>1 DEF postListen, Ready, StartInv, TypeOK
  <2>2. QED
    BY <1>1, <2>1 DEF Belongs
<1>2. CASE f.run = "removeConnection" /\ l = 0
  BY <1>2 DEF Belongs
<1>3. CASE f = EstablishOf(Len(connections_) + 1) /\ l = nextLoop /\ l # 0 /\ newConnection
  BY <1>3, ConnectionAdded DEF Belongs, EstablishOf
<1>4. ASSUME NEW c \in remaining, f = DestroyOf(c), l = connections_[c], l # 0,
             postDestroyed
      PROVE  Belongs(f, l)'
  BY <1>4 DEF Belongs, DestroyOf, postDestroyed, TypeOK
<1>5. QED
  BY <1>1, <1>2, <1>3, <1>4 DEF Posts

\* A functor that is queued or about to be run was so before, or is posted now.
LEMMA QueuedBefore ==
  ASSUME TypeOK, DealtInv, Queues, [Next]_vars, NEW l \in Loops, NEW f \in Functors,
         InPending(l, f)' \/ InBatch(l, f)'
  PROVE  InPending(l, f) \/ InBatch(l, f) \/ Posts(l, f)
<1> USE DEF InPending, InBatch
<1>1. CASE UNCHANGED <<pending, batch>>
  BY <1>1
<1>2. ASSUME NEW k \in Loops, doPendingFunctors(k)
      PROVE  InPending(l, f) \/ InBatch(l, f)
  BY <1>2, SwapEffect
<1>3. ASSUME NEW k \in Loops, NEW r, Runs(k, r)
      PROVE  InPending(l, f) \/ InBatch(l, f)
  <2>1. \A i \in 1 .. Len(batch'[l]) :
          \E j \in 1 .. Len(batch[l]) : batch'[l][i] = batch[l][j]
    BY <1>3, NextIsEffect DEF Runs
  <2>2. QED
    BY <1>3, <2>1 DEF Runs
<1>4. ASSUME NEW k \in Loops, NEW g \in Functors, Posts(k, g)
      PROVE  InPending(l, f) \/ InBatch(l, f) \/ Posts(l, f)
  BY <1>4, PostKeeps DEF Posts
<1>5. QED
  BY <1>1, <1>2, <1>3, <1>4, QueueSteps

\* Functors are in the queues where they belong.
LEMMA NextLocated ==
  TypeOK /\ DealtInv /\ Queues /\ Located /\ StartInv /\ [Next]_vars => Located'
<1> SUFFICES ASSUME TypeOK, DealtInv, Queues, Located, StartInv, [Next]_vars,
                    NEW l \in Loops, NEW f \in Functors,
                    InPending(l, f)' \/ InBatch(l, f)'
             PROVE  Belongs(f, l)'
  BY DEF Located
<1>1. CASE InPending(l, f) \/ InBatch(l, f)
  BY <1>1, BelongsStays DEF Located
<1>2. CASE Posts(l, f)
  BY <1>2, PostsBelong
<1>3. QED
  BY <1>1, <1>2, QueuedBefore

\* A loop that polls, or is not in its loop, has run all it took out of the queue.
LEMMA NextBatchInv ==
  TypeOK /\ Queues /\ StartInv /\ BatchInv /\ [Next]_vars => BatchInv'
<1> SUFFICES ASSUME TypeOK, Queues, StartInv, BatchInv, [Next]_vars, NEW l \in Loops,
                    pc'[l] \in {"off", "poll", "stopped"}
             PROVE  batch'[l] = <<>>
  BY DEF BatchInv
<1> USE DEF TypeOK, BatchInv, loopVars
<1>1. CASE setThreadNum \/ newConnection \/ removeAgain \/ DestructorStep \/ Connect
             \/ Finished
  BY <1>1 DEF setThreadNum, newConnection, removeAgain, DestructorStep, postDestroyed,
              quitLoop, destructed, Connect, Finished, vars
<1>2. ASSUME NEW t \in AllUsers, start(t) \/ postListen(t)
      PROVE  UNCHANGED <<pc, batch>>
  BY <1>2 DEF start, postListen
<1>3. ASSUME NEW t \in AllUsers, startLoop(t)
      PROVE  batch'[l] = <<>>
  <2>1. loops_ + 1 \in Loops \ {0} /\ pc[loops_ + 1] = "off"
    BY <1>3 DEF startLoop, StartInv, Loops
  <2>2. QED
    BY <1>3, <2>1 DEF startLoop
<1>4. CASE enterLoop \/ leaveLoop
  BY <1>4 DEF enterLoop, leaveLoop, Loops
<1>5. CASE runListen \/ runRemove
  <2>1. 0 \in Loops
    BY DEF Loops
  <2>2. /\ pc[0] = "run" /\ pc'[0] \in {"run", "removing"}
        /\ \A k \in Loops \ {0} : pc'[k] = pc[k]
    BY <1>5, <2>1 DEF runListen, runRemove, removeConnection, NextIs
  <2>3. \A k \in Loops \ {0} : batch'[k] = batch[k]
    BY <1>5, <2>1, NextIsEffect DEF runListen, runRemove
  <2>4. l # 0
    BY <2>2
  <2>5. QED
    BY <2>2, <2>3, <2>4
<1>6. ASSUME NEW k \in Loops, runEstablished(k) \/ runDestroyed(k)
      PROVE  batch'[l] = <<>>
  BY <1>6, NextIsEffect DEF runEstablished, runDestroyed
<1>7. ASSUME NEW k \in Loops, doPendingFunctors(k) \/ endBatch(k)
      PROVE  batch'[l] = <<>>
  <2>1. CASE doPendingFunctors(k)
    <3>1. l # k
      BY <2>1 DEF doPendingFunctors
    <3>2. QED
      BY <2>1, <3>1, SwapEffect DEF doPendingFunctors
  <2>2. CASE endBatch(k)
    BY <2>2 DEF endBatch
  <2>3. QED
    BY <1>7, <2>1, <2>2
<1>8. ASSUME NEW k \in Loops, handleClose(k)
      PROVE  batch'[l] = <<>>
  <2>1. batch' = batch /\ pc[l] \in {"off", "poll", "stopped"}
    BY <1>8 DEF handleClose, removeConnection, Loops
  <2>2. QED
    BY <2>1
<1>9. CASE UNCHANGED vars
  BY <1>9 DEF vars
<1>10. QED
  BY <1>1, <1>2, <1>3, <1>4, <1>5, <1>6, <1>7, <1>8, <1>9
     DEF Next, BaseStep, StartStep, LoopStep

-------------------------------------------------------------------------------
(***************************************************************************)
(* Dealing out.                                                            *)
(***************************************************************************)

\* The load of a loop is a number, and a new connection counts for its own loop.
LEMMA LoadGrows ==
  ASSUME TypeOK, DealtInv, newConnection, NEW l \in Loops
  PROVE  Load(l) \in Nat /\ Load(l)' = Load(l) + (IF l = nextLoop THEN 1 ELSE 0)
<1> DEFINE Mine == {c \in DOMAIN connections_ : connections_[c] = l}
           new == Len(connections_) + 1
<1>1. IsFiniteSet(DOMAIN connections_)
  BY ConnectionAdded, FS_Interval
<1>2. IsFiniteSet(Mine)
  BY <1>1, FS_Subset
<1>3. Cardinality(Mine) \in Nat
  BY <1>2, FS_CardinalityType
<1>4. new \notin Mine
  BY ConnectionAdded
<1>5. Mine' = IF l = nextLoop THEN Mine \cup {new} ELSE Mine
  BY ConnectionAdded
<1>6. Cardinality(Mine \cup {new}) = Cardinality(Mine) + 1
  BY <1>2, <1>4, FS_AddElement
<1>7. Load(l) = Cardinality(Mine) /\ Load(l)' = Cardinality(Mine')
  BY DEF Load
<1> HIDE DEF Mine
<1>8. QED
  BY <1>3, <1>5, <1>6, <1>7

\* Without connections there is no load.
LEMMA NoLoad == connections_ = <<>> => \A l : Load(l) = 0
<1> SUFFICES ASSUME connections_ = <<>>, NEW l
             PROVE  Load(l) = 0
  OBVIOUS
<1>1. {c \in DOMAIN connections_ : connections_[c] = l} = {}
  OBVIOUS
<1>2. QED
  BY <1>1, FS_EmptySet DEF Load

\* Each connection goes to the loop at next_, which moves on.
LEMMA NextDealtInv ==
  TypeOK /\ StartInv /\ DealtInv /\ [Next]_vars => DealtInv'
<1> SUFFICES ASSUME TypeOK, StartInv, DealtInv, [Next]_vars
             PROVE  DealtInv'
  OBVIOUS
<1>1. CASE newConnection
  <2>1. /\ loops_' = loops_ /\ loops_ \in Nat /\ next_ \in Nat
        /\ next_' = IF loops_ = 0 THEN next_ ELSE NextLoop
    BY <1>1 DEF newConnection, advance, TypeOK
  <2>2. /\ next_' = 0 \/ next_' < loops_'
        /\ connections_' = <<>> => next_' = 0
    BY <1>1, <2>1, NextLoopRange, ConnectionAdded DEF DealtInv
  <2>3. \A c \in DOMAIN connections_' :
          connections_'[c] \in IF loops_' = 0 THEN {0} ELSE 1 .. loops_'
    BY <1>1, <2>1, NextLoopRange, ConnectionAdded DEF DealtInv
  <2>4. ASSUME NEW k \in 1 .. loops_, NEW l \in 1 .. loops_
        PROVE  Load(k)' - Extra(k)' = Load(l)' - Extra(l)'
    <3>1. \A m \in 1 .. loops_ : m \in Loops
      BY <2>1 DEF TypeOK, Loops
    <3>2. \A m \in 1 .. loops_ :
            /\ Load(m) \in Nat
            /\ Load(m)' = Load(m) + (IF m = next_ + 1 THEN 1 ELSE 0)
      BY <1>1, <2>1, <3>1, LoadGrows, NextLoopRange
    <3>3. next_' = IF next_ + 1 = loops_ THEN 0 ELSE next_ + 1
      <4>1. loops_ # 0
        BY <2>1
      <4>2. QED
        BY <2>1, <4>1, NextLoopRange
    <3>4. Load(k) - Extra(k) = Load(l) - Extra(l)
      BY DEF DealtInv
    <3>5. next_ < loops_
      BY <2>1 DEF DealtInv
    <3>6. QED
      BY <2>1, <3>2, <3>3, <3>4, <3>5 DEF Extra
  <2>5. QED
    BY <2>1, <2>2, <2>3, <2>4 DEF DealtInv
<1>2. ASSUME NEW t \in AllUsers, startLoop(t)
      PROVE  DealtInv'
  <2>1. connections_' = <<>> /\ connections_ = <<>> /\ next_' = 0
    BY <1>2 DEF startLoop, StartInv, Ready, DealtInv, connVars, TypeOK
  <2>2. \A l : Load(l)' = 0
    BY <2>1, NoLoad DEF Load
  <2>3. \A l \in 1 .. loops_' : Extra(l)' = 0
    BY <2>1 DEF Extra
  <2>4. QED
    BY <2>1, <2>2, <2>3 DEF DealtInv
<1>3. CASE UNCHANGED <<connections_, loops_, next_>>
  BY <1>3 DEF DealtInv, Load, Extra
<1>4. CASE setThreadNum
  BY <1>4 DEF setThreadNum, DealtInv, Load, Extra, connVars
<1>5. QED
  BY <1>1, <1>2, <1>3, <1>4
     DEF Next, StartStep, BaseStep, LoopStep, DestructorStep, start, postListen,
         enterLoop, runListen, runRemove, removeAgain, doPendingFunctors,
         runEstablished, runDestroyed, endBatch, NextIs, handleClose, leaveLoop,
         postDestroyed, quitLoop, destructed, Connect, Finished, vars, connVars, poolVars

-------------------------------------------------------------------------------
(***************************************************************************)
(* The order of connectEstablished and connectDestroyed.                   *)
(***************************************************************************)

\* A functor that is queued stays so until it is run.
LEMMA StillQueued ==
  ASSUME TypeOK, DealtInv, Queues, BatchInv, [Next]_vars,
         NEW l \in Loops, NEW f \in Functors, InPending(l, f) \/ InBatch(l, f)
  PROVE  \/ InPending(l, f)' \/ InBatch(l, f)'
         \/ Runs(l, f.run) /\ batch[l][1] = f
<1>1. CASE UNCHANGED <<pending, batch>>
  BY <1>1 DEF InPending, InBatch
<1>2. ASSUME NEW k \in Loops, doPendingFunctors(k)
      PROVE  InPending(l, f)' \/ InBatch(l, f)'
  <2>1. CASE k = l
    <3>1. ~InBatch(l, f)
      BY <1>2, <2>1, EmptySeq DEF doPendingFunctors, BatchInv, InBatch
    <3>2. QED
      BY <1>2, <2>1, <3>1, SwapEffect DEF InPending, InBatch
  <2>2. CASE k # l
    BY <1>2, <2>2, SwapEffect DEF InPending, InBatch
  <2>3. QED
    BY <2>1, <2>2
<1>3. ASSUME NEW k \in Loops, NEW r, Runs(k, r), ~InPending(l, f)'
      PROVE  InBatch(l, f)' \/ (Runs(l, f.run) /\ batch[l][1] = f)
  <2>1. PICK i \in 1 .. Len(batch[l]) : batch[l][i] = f
    BY <1>3 DEF Runs, InPending, InBatch
  <2>2. CASE k # l
    BY <1>3, <2>1, <2>2, NextIsEffect DEF Runs, InBatch
  <2>3. CASE k = l /\ i = 1
    BY <1>3, <2>1, <2>3, NextIsEffect DEF Runs
  <2>4. CASE k = l /\ i # 1
    <3>1. i - 1 \in 1 .. Len(batch'[l]) /\ batch'[l][i - 1] = f
      BY <1>3, <2>1, <2>4, NextIsEffect DEF Runs
    <3>2. QED
      BY <3>1 DEF InBatch
  <2>5. QED
    BY <2>2, <2>3, <2>4
<1>4. ASSUME NEW k \in Loops, NEW g \in Functors, Posts(k, g)
      PROVE  InPending(l, f)' \/ InBatch(l, f)'
  BY <1>4, PostKeeps DEF Posts, InBatch
<1>5. QED
  BY <1>1, <1>2, <1>3, <1>4, QueueSteps

\* Nothing is taken back: connections stay where they are, established and destroyed.
LEMMA HistoriesGrow ==
  ASSUME TypeOK, DealtInv, [Next]_vars
  PROVE  /\ established \subseteq established'
         /\ destroyed \subseteq destroyed'
         /\ \A c \in DOMAIN connections_ :
              c \in DOMAIN connections_' /\ connections_'[c] = connections_[c]
<1>1. \A c \in DOMAIN connections_ :
        c \in DOMAIN connections_' /\ connections_'[c] = connections_[c]
  BY ConnectionAdded, NoNewConnection
<1>2. established \subseteq established'
  BY DEF Next, StartStep, BaseStep, LoopStep, DestructorStep, newConnection, Establish,
         setThreadNum, start, startLoop, postListen, enterLoop, runListen, runRemove,
         removeAgain, doPendingFunctors, runEstablished, runDestroyed, endBatch, NextIs,
         handleClose, leaveLoop, postDestroyed, quitLoop, destructed, Connect, Finished,
         vars, connVars
<1>3. destroyed \subseteq destroyed'
  BY DEF Next, StartStep, BaseStep, LoopStep, DestructorStep, newConnection,
         setThreadNum, start, startLoop, postListen, enterLoop, runListen, runRemove,
         removeAgain, doPendingFunctors, runEstablished, runDestroyed, endBatch, NextIs,
         handleClose, leaveLoop, postDestroyed, quitLoop, destructed, Connect, Finished,
         vars, connVars
<1>4. QED
  BY <1>1, <1>2, <1>3

\* The functors of a connection are recognised.
LEMMA OwnFunctors ==
  /\ \A c : EstablishOf(c).run = "connectEstablished" /\ EstablishOf(c).conn = c
  /\ \A c : DestroyOf(c).run = "connectDestroyed" /\ DestroyOf(c).conn = c
  /\ \A c \in Nat : EstablishOf(c) \in Functors /\ DestroyOf(c) \in Functors
BY FunctorForms DEF EstablishOf, DestroyOf, Kinds

\* A connection's connectEstablished is posted, or run at once, when it is made.
LEMMA NextEstablishInv ==
  TypeOK /\ DealtInv /\ Queues /\ BatchInv /\ EstablishInv /\ [Next]_vars
    => EstablishInv'
<1> SUFFICES ASSUME TypeOK, DealtInv, Queues, BatchInv, EstablishInv, [Next]_vars,
                    NEW c \in DOMAIN connections_', NEW l, l = connections_'[c],
                    c \notin established'
             PROVE  InBatch(l, EstablishOf(c))' \/ InPending(l, EstablishOf(c))'
  BY DEF EstablishInv
<1>1. CASE c \in DOMAIN connections_
  <2>1. l = connections_[c] /\ l \in Loops /\ c \in Nat /\ c \notin established
    BY <1>1, HistoriesGrow, Posted
  <2>2. InBatch(l, EstablishOf(c)) \/ InPending(l, EstablishOf(c))
    BY <1>1, <2>1 DEF EstablishInv
  <2>3. ~(Runs(l, "connectEstablished") /\ batch[l][1] = EstablishOf(c))
    BY <2>1, NextIsEffect, OwnFunctors DEF Runs, runEstablished
  <2>4. QED
    BY <2>1, <2>2, <2>3, StillQueued, OwnFunctors
<1>2. CASE c \notin DOMAIN connections_
  <2>1. newConnection /\ c = Len(connections_) + 1 /\ l = nextLoop /\ l \in Loops
    BY <1>2, ConnectionAdded, NoNewConnection, NextLoopRange
  <2>2. Post(l, EstablishOf(c)) /\ EstablishOf(c) \in Functors
    BY <2>1, Posted DEF newConnection, Establish, EstablishOf
  <2>3. QED
    BY <2>1, <2>2, PostKeeps
<1>3. QED
  BY <1>1, <1>2


\* What is posted to destroy a connection is posted by the destructor, to its loop.
LEMMA DestroyPosted ==
  ASSUME TypeOK, NEW l \in Loops, NEW c, Posts(l, DestroyOf(c))
  PROVE  c \in DOMAIN connections_ /\ connections_[c] = l
<1>1. DestroyOf(c).run = "connectDestroyed" /\ DestroyOf(c).conn = c
  BY OwnFunctors
<1>2. \E d \in remaining : DestroyOf(c) = DestroyOf(d) /\ l = connections_[d]
  BY <1>1, OwnFunctors DEF Posts
<1>3. QED
  BY <1>1, <1>2, OwnFunctors DEF TypeOK

\* A loop comes to connectDestroyed after connectEstablished.
LEMMA NextOrderInv ==
  /\ TypeOK /\ Queues /\ Located /\ BatchInv /\ DealtInv /\ EstablishInv
  /\ OrderInv /\ [Next]_vars
  => OrderInv'
<1> SUFFICES ASSUME TypeOK, Queues, Located, BatchInv, DealtInv, EstablishInv,
                    OrderInv, [Next]_vars,
                    NEW c \in DOMAIN connections_' \ established', NEW l \in Loops
             PROVE  /\ \A i \in 1 .. Len(batch'[l]) :
                         batch'[l][i] = DestroyOf(c) =>
                           \E j \in 1 .. i - 1 : batch'[l][j] = EstablishOf(c)
                    /\ \A i \in 1 .. Len(pending'[l]) :
                         pending'[l][i] = DestroyOf(c) =>
                           \/ InBatch(l, EstablishOf(c))'
                           \/ \E j \in 1 .. i - 1 : pending'[l][j] = EstablishOf(c)
  BY DEF OrderInv
<1>1. CASE c \notin DOMAIN connections_
  <2>1. c \in Nat
    BY <1>1, ConnectionAdded, NoNewConnection
  <2>2. DestroyOf(c) \in Functors /\ DestroyOf(c).run = "connectDestroyed"
        /\ DestroyOf(c).conn = c
    BY <2>1, OwnFunctors
  <2>3. ~(InPending(l, DestroyOf(c)) \/ InBatch(l, DestroyOf(c)))
    BY <1>1, <2>2 DEF Located, Belongs
  <2>4. ~(InPending(l, DestroyOf(c))' \/ InBatch(l, DestroyOf(c))')
    BY <1>1, <2>2, <2>3, QueuedBefore, DestroyPosted
  <2>5. QED
    BY <2>4 DEF InPending, InBatch
<1>2. CASE c \in DOMAIN connections_
  <2>1. c \notin established /\ c \in Nat
    BY <1>2, HistoriesGrow, Posted
  <2>2. \A i \in 1 .. Len(batch[l]) :
          batch[l][i] = DestroyOf(c) =>
            \E j \in 1 .. i - 1 : batch[l][j] = EstablishOf(c)
    BY <1>2, <2>1 DEF OrderInv
  <2>3. \A i \in 1 .. Len(pending[l]) :
          pending[l][i] = DestroyOf(c) =>
            \/ InBatch(l, EstablishOf(c))
            \/ \E j \in 1 .. i - 1 : pending[l][j] = EstablishOf(c)
    BY <1>2, <2>1 DEF OrderInv
  <2> DEFINE Good == /\ \A i \in 1 .. Len(batch'[l]) :
                          batch'[l][i] = DestroyOf(c) =>
                            \E j \in 1 .. i - 1 : batch'[l][j] = EstablishOf(c)
                     /\ \A i \in 1 .. Len(pending'[l]) :
                          pending'[l][i] = DestroyOf(c) =>
                            \/ InBatch(l, EstablishOf(c))'
                            \/ \E j \in 1 .. i - 1 : pending'[l][j] = EstablishOf(c)
  <2>4. CASE UNCHANGED <<pending, batch>>
    BY <2>2, <2>3, <2>4 DEF InBatch
  <2>5. ASSUME NEW k \in Loops, doPendingFunctors(k)
        PROVE  Good
    <3>1. CASE k = l
      <4>1. ~InBatch(l, EstablishOf(c))
        BY <2>5, <3>1, EmptySeq DEF doPendingFunctors, BatchInv, InBatch
      <4>2. QED
        BY <2>3, <2>5, <3>1, <4>1, SwapEffect
    <3>2. CASE k # l
      BY <2>2, <2>3, <2>5, <3>2, SwapEffect DEF InBatch
    <3>3. QED
      BY <3>1, <3>2
  <2>6. ASSUME NEW k \in Loops, NEW r, Runs(k, r)
        PROVE  Good
    <3>1. pending' = pending
      BY <2>6 DEF Runs
    <3>2. CASE k = l
      <4>1. NextIs(l, r)
        BY <2>6, <3>2 DEF Runs
      <4>2. batch[l][1] # EstablishOf(c)
        <5>1. SUFFICES ASSUME batch[l][1] = EstablishOf(c)
                       PROVE  FALSE
          OBVIOUS
        <5>2. r = "connectEstablished" /\ Head(batch[l]).conn = c
          BY <4>1, <5>1, NextIsEffect, OwnFunctors
        <5>3. QED
          BY <2>6, <3>2, <5>2 DEF Runs, runEstablished
      <4>3. /\ Len(batch[l]) \in Nat \ {0} /\ Len(batch'[l]) = Len(batch[l]) - 1
            /\ \A i \in 1 .. Len(batch'[l]) : batch'[l][i] = batch[l][i + 1]
        BY <4>1, NextIsEffect
      <4>4. \A j \in 1 .. Len(batch[l]) :
              batch[l][j] = EstablishOf(c) =>
                j - 1 \in 1 .. Len(batch'[l]) /\ batch'[l][j - 1] = EstablishOf(c)
        BY <4>2, <4>3
      <4>5. ASSUME NEW i \in 1 .. Len(batch'[l]), batch'[l][i] = DestroyOf(c)
            PROVE  \E j \in 1 .. i - 1 : batch'[l][j] = EstablishOf(c)
        <5>1. i + 1 \in 1 .. Len(batch[l]) /\ batch[l][i + 1] = DestroyOf(c)
          BY <4>3, <4>5
        <5>2. PICK j \in 1 .. (i + 1) - 1 : batch[l][j] = EstablishOf(c)
          BY <2>2, <5>1
        <5>3. j \in 1 .. Len(batch[l])
          BY <4>3, <5>1
        <5>4. j - 1 \in 1 .. i - 1 /\ batch'[l][j - 1] = EstablishOf(c)
          BY <4>3, <4>4, <5>2, <5>3
        <5>5. QED
          BY <5>4
      <4>6. InBatch(l, EstablishOf(c)) => InBatch(l, EstablishOf(c))'
        BY <4>4 DEF InBatch
      <4>7. QED
        BY <2>3, <3>1, <4>5, <4>6
    <3>3. CASE k # l
      <4>1. batch'[l] = batch[l]
        BY <2>6, <3>3, NextIsEffect DEF Runs
      <4>2. QED
        BY <2>2, <2>3, <3>1, <4>1 DEF InBatch
    <3>4. QED
      BY <3>2, <3>3
  <2>7. ASSUME NEW k \in Loops, NEW g \in Functors, Posts(k, g)
        PROVE  Good
    <3>1. batch' = batch /\ Post(k, g)
      BY <2>7 DEF Posts
    <3>2. Len(pending[l]) \in Nat
      BY LenProperties DEF Queues
    <3>3. \A i \in 1 .. Len(pending[l]) :
            i \in 1 .. Len(pending'[l]) /\ pending'[l][i] = pending[l][i]
      BY <3>1, <3>2, PostEffect
    <3>4. ASSUME NEW i \in 1 .. Len(pending'[l]), pending'[l][i] = DestroyOf(c)
          PROVE  \/ InBatch(l, EstablishOf(c))
                 \/ \E j \in 1 .. i - 1 : pending'[l][j] = EstablishOf(c)
      <4>1. CASE i \in 1 .. Len(pending[l])
        BY <2>3, <3>2, <3>3, <3>4, <4>1
      <4>2. CASE k = l /\ i = Len(pending[l]) + 1 /\ g = DestroyOf(c)
        <5>1. connections_[c] = l
          BY <2>7, <4>2, DestroyPosted
        <5>2. InBatch(l, EstablishOf(c)) \/ InPending(l, EstablishOf(c))
          BY <1>2, <2>1, <5>1 DEF EstablishInv
        <5>3. CASE InPending(l, EstablishOf(c))
          <6>1. PICK j \in 1 .. Len(pending[l]) : pending[l][j] = EstablishOf(c)
            BY <5>3 DEF InPending
          <6>2. j \in 1 .. i - 1 /\ pending'[l][j] = EstablishOf(c)
            BY <3>2, <3>3, <4>2, <6>1
          <6>3. QED
            BY <6>2
        <5>4. QED
          BY <5>2, <5>3
      <4>3. QED
        BY <3>1, <3>4, <4>1, <4>2, PostKeeps
    <3>5. QED
      BY <2>2, <3>1, <3>4 DEF InBatch
  <2>8. QED
    BY <2>4, <2>5, <2>6, <2>7, QueueSteps
<1>3. QED
  BY <1>1, <1>2


\* The steps that destroy no connection.
LEMMA DestroySteps ==
  ASSUME [Next]_vars, ~postDestroyed, \A l \in Loops : ~runDestroyed(l)
  PROVE  destroyed' = destroyed
BY DEF Next, StartStep, BaseStep, LoopStep, DestructorStep, newConnection,
       setThreadNum, start, startLoop, postListen, enterLoop, runListen, runRemove,
       removeAgain, doPendingFunctors, runEstablished, endBatch, NextIs, handleClose,
       leaveLoop, quitLoop, destructed, Connect, Finished, vars, connVars

\* A connection that is destroyed has been established.
LEMMA NextDestroyed ==
  /\ TypeOK /\ Queues /\ Located /\ DealtInv /\ EstablishInv /\ OrderInv
  /\ DestroyedAfterEstablished /\ [Next]_vars
  => DestroyedAfterEstablished'
<1> SUFFICES ASSUME TypeOK, Queues, Located, DealtInv, EstablishInv, OrderInv,
                    DestroyedAfterEstablished, [Next]_vars
             PROVE  destroyed' \subseteq established'
  BY DEF DestroyedAfterEstablished
<1>1. destroyed \subseteq established /\ established \subseteq established'
  BY HistoriesGrow DEF DestroyedAfterEstablished
<1>2. ASSUME NEW l \in Loops, runDestroyed(l)
      PROVE  destroyed' \subseteq established'
  <2> DEFINE c == Head(batch[l]).conn
  <2>1. NextIs(l, "connectDestroyed") /\ destroyed' = destroyed \cup {c}
    BY <1>2 DEF runDestroyed
  <2>2. /\ Head(batch[l]) = batch[l][1] /\ batch[l][1] \in Functors
        /\ batch[l][1].run = "connectDestroyed"
        /\ 1 \in 1 .. Len(batch[l])
    BY <2>1, NextIsEffect
  <2>3. batch[l][1] = DestroyOf(c)
    BY <2>2, FunctorForms DEF DestroyOf, Kinds
  <2>4. c \in DOMAIN connections_
    BY <2>1, <2>2, HeadBelongs DEF Belongs
  <2>5. c \in established
    BY <2>2, <2>3, <2>4 DEF OrderInv
  <2>6. QED
    BY <1>1, <2>1, <2>5
<1>3. CASE postDestroyed
  <2>1. ASSUME NEW c \in remaining, connections_[c] = 0
        PROVE  c \in established
    <3>1. c \in DOMAIN connections_ /\ EstablishOf(c) \in Functors /\ 0 \in Loops
      BY Posted, OwnFunctors DEF TypeOK
    <3>2. ~Belongs(EstablishOf(c), 0)
      BY OwnFunctors DEF Belongs
    <3>3. QED
      BY <2>1, <3>1, <3>2 DEF EstablishInv, Located
  <2>2. QED
    BY <1>1, <1>3, <2>1 DEF postDestroyed
<1>4. QED
  BY <1>1, <1>2, <1>3, DestroySteps

-------------------------------------------------------------------------------
(***************************************************************************)
(* The destructor.                                                         *)
(***************************************************************************)

\* A loop that has ended does not start again.
LEMMA StoppedStays ==
  ASSUME TypeOK, StartInv, [Next]_vars, NEW l \in Loops, pc[l] = "stopped"
  PROVE  pc'[l] = "stopped"
<1> USE DEF TypeOK, loopVars
<1>1. CASE setThreadNum \/ newConnection \/ runListen \/ removeAgain \/ DestructorStep
             \/ Connect \/ Finished
  BY <1>1 DEF setThreadNum, newConnection, runListen, removeAgain, DestructorStep,
              postDestroyed, quitLoop, destructed, Connect, Finished, vars
<1>2. ASSUME NEW t \in AllUsers, start(t) \/ StartStep(t)
      PROVE  pc'[l] = "stopped"
  <2>1. CASE startLoop(t)
    <3>1. loops_ + 1 \in Loops \ {0} /\ pc[loops_ + 1] = "off"
      BY <2>1 DEF startLoop, StartInv, Loops
    <3>2. QED
      BY <2>1, <3>1 DEF startLoop
  <2>2. CASE start(t) \/ postListen(t)
    BY <2>2 DEF start, postListen
  <2>3. QED
    BY <1>2, <2>1, <2>2 DEF StartStep
<1>3. CASE enterLoop \/ leaveLoop
  BY <1>3 DEF enterLoop, leaveLoop
<1>4. CASE runRemove
  <2>1. 0 \in Loops /\ pc[0] = "run"
    BY <1>4 DEF runRemove, NextIs, Loops
  <2>2. QED
    BY <1>4, <2>1 DEF runRemove, removeConnection
<1>5. ASSUME NEW k \in Loops, LoopStep(k)
      PROVE  pc'[l] = "stopped"
  BY <1>5 DEF LoopStep, doPendingFunctors, runEstablished, runDestroyed, endBatch, NextIs
<1>6. ASSUME NEW k \in Loops, handleClose(k)
      PROVE  pc'[l] = "stopped"
  BY <1>6 DEF handleClose, removeConnection
<1>7. CASE UNCHANGED vars
  BY <1>7 DEF vars
<1>8. QED
  BY <1>1, <1>2, <1>3, <1>4, <1>5, <1>6, <1>7 DEF Next, BaseStep

\* The destructor is in the base thread, which calls nothing else any more.
LEMMA DestructorSteps ==
  ASSUME TypeOK, [Next]_vars, dtor # "no"
  PROVE  /\ dtor' # "no"
         /\ dtor = "done" => dtor' = "done"
         /\ dtor' # dtor => destructed
         /\ ~leaveLoop
         /\ \A t \in AllUsers : ~start(t)
         /\ UNCHANGED remaining \/ postDestroyed
BY DEF Next, StartStep, BaseStep, LoopStep, DestructorStep, newConnection,
       setThreadNum, start, MayStart, startLoop, postListen, enterLoop, runListen,
       runRemove, removeAgain, doPendingFunctors, runEstablished, runDestroyed,
       endBatch, NextIs, handleClose, leaveLoop, postDestroyed, quitLoop, destructed,
       Connect, Finished, vars, connVars, TypeOK

\* Only leaving the base loop begins the destructor.
LEMMA DestructorBegins ==
  ASSUME [Next]_vars, dtor = "no", dtor' # "no"
  PROVE  leaveLoop
BY DEF Next, StartStep, BaseStep, LoopStep, DestructorStep, newConnection,
       setThreadNum, start, startLoop, postListen, enterLoop, runListen,
       runRemove, removeAgain, doPendingFunctors, runEstablished, runDestroyed,
       endBatch, NextIs, handleClose, leaveLoop, postDestroyed, quitLoop, destructed,
       Connect, Finished, vars, connVars


\* While the destructor runs, nobody is in start() and nothing is accepted.
LEMMA DestructorAlone ==
  ASSUME TypeOK, DtorInv, [Next]_vars, dtor # "no"
  PROVE  /\ UNCHANGED <<call, loops_, connections_>>
         /\ remaining' \subseteq remaining
<1>1. pc[0] = "stopped" /\ \A t \in AllUsers : call[t] = "idle"
  BY DEF DtorInv
<1>2. \A t \in AllUsers : ~start(t) /\ ~StartStep(t)
  BY <1>1, DestructorSteps DEF StartStep, startLoop, postListen
<1>3. UNCHANGED <<call, loops_>>
  BY <1>2, PoolSteps DEF setThreadNum
<1>4. connections_' = connections_
  BY <1>1, NoNewConnection DEF newConnection
<1>5. QED
  BY <1>3, <1>4, DestructorSteps DEF postDestroyed

\* Each connection the destructor has gone past is destroyed or about to be.
LEMMA NextDtorInv ==
  /\ TypeOK /\ Queues /\ StartInv /\ BatchInv /\ DealtInv /\ DtorInv /\ [Next]_vars
  => DtorInv'
<1> SUFFICES ASSUME TypeOK, Queues, StartInv, BatchInv, DealtInv, DtorInv,
                    [Next]_vars, dtor' # "no"
             PROVE  DtorInv'
  BY DEF DtorInv
<1>1. CASE dtor = "no"
  <2>1. leaveLoop
    BY <1>1, DestructorBegins
  <2>2. pc'[0] = "stopped" /\ \A t \in AllUsers : call'[t] = "idle"
    BY <2>1 DEF leaveLoop, poolVars, TypeOK, Loops
  <2>3. dtor' = "connections" /\ remaining' = DOMAIN connections_'
    BY <2>1 DEF leaveLoop, connVars
  <2>4. QED
    BY <2>2, <2>3 DEF DtorInv
<1>2. CASE dtor # "no"
  <2>1. 0 \in Loops
    BY DEF Loops
  <2>2. pc'[0] = "stopped" /\ \A t \in AllUsers : call'[t] = "idle"
    BY <1>2, <2>1, StoppedStays, DestructorAlone DEF DtorInv
  <2>3. ASSUME NEW c \in DOMAIN connections_', c \notin remaining' \cup destroyed',
               NEW l, l = connections_'[c]
        PROVE  InBatch(l, DestroyOf(c))' \/ InPending(l, DestroyOf(c))'
    <3>1. /\ c \in DOMAIN connections_ /\ l = connections_[c] /\ l \in Loops
          /\ c \notin destroyed /\ DestroyOf(c) \in Functors
      BY <1>2, <2>3, DestructorAlone, HistoriesGrow, Posted
    <3>2. CASE c \notin remaining
      <4>1. InBatch(l, DestroyOf(c)) \/ InPending(l, DestroyOf(c))
        BY <1>2, <3>1, <3>2 DEF DtorInv
      <4>2. ~(Runs(l, "connectDestroyed") /\ batch[l][1] = DestroyOf(c))
        BY <2>3, <3>1, NextIsEffect, OwnFunctors DEF Runs, runDestroyed
      <4>3. QED
        BY <3>1, <4>1, <4>2, StillQueued, OwnFunctors
    <3>3. CASE c \in remaining
      <4>1. postDestroyed
        BY <1>2, <2>3, <3>3, DestructorSteps
      <4>2. IF connections_[c] = 0 THEN destroyed' = destroyed \cup {c}
            ELSE Post(connections_[c], DestroyOf(c))
        BY <2>3, <3>3, <4>1 DEF postDestroyed, DestroyOf
      <4>3. Post(l, DestroyOf(c))
        BY <2>3, <3>1, <4>2
      <4>4. QED
        BY <3>1, <4>3, PostKeeps
    <3>4. QED
      BY <3>2, <3>3
  <2>4. dtor' = "done" => remaining' = {} /\ \A l \in 1 .. loops_' : pc'[l] = "stopped"
    <3>1. CASE destructed
      BY <3>1 DEF destructed, poolVars, loopVars
    <3>2. CASE ~destructed /\ dtor' = "done"
      <4>1. dtor = "done" /\ remaining' = {} /\ loops_' = loops_
        BY <1>2, <3>2, DestructorSteps, DestructorAlone DEF DtorInv
      <4>2. \A l \in 1 .. loops_ : l \in Loops /\ pc[l] = "stopped"
        BY <4>1 DEF DtorInv, TypeOK, Loops
      <4>3. QED
        BY <4>1, <4>2, StoppedStays
    <3>3. QED
      BY <3>1, <3>2
  <2>5. QED
    BY <2>2, <2>3, <2>4 DEF DtorInv
<1>3. QED
  BY <1>1, <1>2

-------------------------------------------------------------------------------
(***************************************************************************)
(* The invariant and what follows from it.                                 *)
(***************************************************************************)

\* Before anything runs.
LEMMA InitIInv == Init => IInv
<1> SUFFICES ASSUME Init
             PROVE  IInv
  OBVIOUS
<1>1. <<>> \in Seq(Functors) /\ <<>> \in Seq(Loops) /\ Len(<<>>) = 0
      /\ DOMAIN <<>> = {}
  BY EmptySeq
<1>2. Queues
  BY <1>1 DEF Init, Queues
<1>3. \A l \in Loops : pending[l] = <<>> /\ batch[l] = <<>>
  BY DEF Init
<1>4. TypeOK
  <2>1. /\ call \in [AllUsers -> {"idle", "pool"}]
        /\ pc \in [Loops -> {"off", "poll", "run", "removing", "stopped"}]
    BY DEF Init
  <2>2. \A l \in Loops : /\ \A i \in DOMAIN pending[l] : IsFunctor(pending[l][i])
                         /\ \A i \in DOMAIN batch[l] : IsFunctor(batch[l][i])
    BY <1>1, <1>3
  <2>3. connections_ \in Seq(Loops)
    BY <1>1 DEF Init
  <2>4. /\ threadNum_ \in 0 .. MaxThreads /\ started_ \in Nat
        /\ loops_ \in 0 .. threadNum_ /\ next_ \in 0 .. threadNum_
        /\ backlog \in Nat
    BY DEF Init
  <2>5. /\ listenning_ \in BOOLEAN /\ quit \subseteq Loops
        /\ dtor \in {"no", "connections", "done"}
    BY DEF Init
  <2>6. established \cup closed \cup destroyed \cup remaining \subseteq DOMAIN connections_
    BY DEF Init
  <2>7. QED
    BY <2>1, <2>2, <2>3, <2>4, <2>5, <2>6 DEF TypeOK
<1>5. Located
  BY <1>1, <1>3 DEF Located, InPending, InBatch
<1>6. StartInv /\ BatchInv
  BY DEF Init, StartInv, BatchInv, Loops
<1>7. DealtInv /\ EstablishInv /\ OrderInv
  BY <1>1 DEF Init, DealtInv, EstablishInv, OrderInv
<1>8. DestroyedAfterEstablished /\ DtorInv
  BY DEF Init, DestroyedAfterEstablished, DtorInv
<1>9. QED
  BY <1>2, <1>4, <1>5, <1>6, <1>7, <1>8 DEF IInv

\* Each part is kept with the help of the others.
LEMMA NextIInv == IInv /\ [Next]_vars => IInv'
BY NextQueues, NextTypeOK, NextStartInv, NextLocated, NextBatchInv, NextDealtInv,
   NextEstablishInv, NextOrderInv, NextDestroyed, NextDtorInv
   DEF IInv

\* The inductive invariant holds throughout.
THEOREM Invariance == Spec => []IInv
BY InitIInv, NextIInv, PTL DEF Spec

\* Every variable of the server holds a value of its kind, for any number of loops,
\* callers of start(), clients and descriptors: no loop index ever leaves the pool.
THEOREM TypeCorrect == Spec => []TypeOK
<1>1. IInv => TypeOK
  BY DEF IInv
<1>2. QED
  BY <1>1, Invariance, PTL

\* getNextLoop deals the connections out evenly, to loops that run, whatever thread
\* calls start() and whenever: the base loop gets none if there is a pool.
THEOREM DealtEvenly == Spec => []Balanced
<1>1. IInv => Balanced
  <2> SUFFICES ASSUME TypeOK, StartInv, DealtInv, connections_ # <<>>
               PROVE  /\ threadNum_ > 0 => Load(0) = 0
                      /\ \A k, l \in 1 .. threadNum_ : Load(k) <= Load(l) + 1
                      /\ \A l \in 1 .. threadNum_ : pc[l] # "off"
    BY DEF IInv, Balanced
  <2>1. loops_ = threadNum_ /\ threadNum_ \in 0 .. MaxThreads
    BY DEF StartInv, Ready, TypeOK
  <2>2. threadNum_ > 0 => Load(0) = 0
    <3>1. SUFFICES ASSUME threadNum_ > 0
                   PROVE  Load(0) = 0
      OBVIOUS
    <3>2. {c \in DOMAIN connections_ : connections_[c] = 0} = {}
      BY <2>1, <3>1 DEF DealtInv
    <3>3. QED
      BY <3>2, FS_EmptySet DEF Load
  <2>3. \A l : Load(l) \in Nat
    <3>1. IsFiniteSet(DOMAIN connections_)
      BY LenProperties, FS_Interval DEF TypeOK
    <3>2. \A l : IsFiniteSet({c \in DOMAIN connections_ : connections_[c] = l})
      BY <3>1, FS_Subset
    <3>3. QED
      BY <3>2, FS_CardinalityType DEF Load
  <2>4. ASSUME NEW k \in 1 .. threadNum_, NEW l \in 1 .. threadNum_
        PROVE  Load(k) <= Load(l) + 1
    <3>1. Load(k) - Extra(k) = Load(l) - Extra(l)
      BY <2>1 DEF DealtInv
    <3>2. Extra(k) \in {0, 1} /\ Extra(l) \in {0, 1}
      BY DEF Extra
    <3>3. QED
      BY <2>3, <3>1, <3>2
  <2>5. ASSUME NEW l \in 1 .. threadNum_
        PROVE  pc[l] # "off"
    <3>1. l \in Loops \ {0} /\ ~(l > loops_)
      BY <2>1 DEF Loops
    <3>2. QED
      BY <3>1 DEF StartInv
  <2>6. QED
    BY <2>2, <2>4, <2>5
<1>2. QED
  BY <1>1, Invariance, PTL

\* The destructor's connectDestroyed never overtakes connectEstablished, although the
\* pool's loops run both and the base thread only queues them.
THEOREM NeverOvertakes == Spec => []DestroyedAfterEstablished
<1>1. IInv => DestroyedAfterEstablished
  BY DEF IInv
<1>2. QED
  BY <1>1, Invariance, PTL

\* When the server is gone each of its connections has been destroyed, or its
\* connectDestroyed is in the queue of its loop, which ended without running it.
THEOREM AllAccountedFor == Spec => []NoneForgotten
<1>1. IInv => NoneForgotten
  <2> SUFFICES ASSUME TypeOK, Queues, Located, BatchInv, DealtInv, DtorInv,
                      dtor = "done",
                      NEW c \in DOMAIN connections_, c \notin destroyed
               PROVE  LeftBehind(connections_[c], DestroyOf(c))
    BY DEF IInv, NoneForgotten, DestroyOf
  <2> DEFINE l == connections_[c]
  <2>1. l \in Loops /\ DestroyOf(c) \in Functors
    BY Posted
  <2>2. InBatch(l, DestroyOf(c)) \/ InPending(l, DestroyOf(c))
    BY DEF DtorInv
  <2>3. l # 0
    BY <2>1, <2>2, OwnFunctors DEF Located, Belongs
  <2>4. l \in 1 .. loops_
    BY <2>3 DEF DealtInv
  <2>5. pc[l] = "stopped"
    BY <2>4 DEF DtorInv
  <2>6. ~InBatch(l, DestroyOf(c))
    BY <2>1, <2>5, EmptySeq DEF BatchInv, InBatch
  <2>7. DOMAIN pending[l] = 1 .. Len(pending[l])
    BY <2>1, LenProperties DEF Queues
  <2>8. QED
    BY <2>2, <2>5, <2>6, <2>7 DEF LeftBehind, InPending
<1>2. QED
  BY <1>1, Invariance, PTL
================================================================================
