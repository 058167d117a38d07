-------------------------- MODULE TcpConnectionProofs --------------------------
(***************************************************************************)
(* Proofs about TcpConnection for any number of threads, of messages and of*)
(* bytes, and for any sizes of the input buffer.                           *)
(***************************************************************************)
EXTENDS TcpConnection, SequenceTheorems, TLAPS

Kinds == {"connectEstablished", "connectDestroyed", "send", "shutdown",
          "writeComplete", "highWaterMark"}

Functors == [kind : Kinds, by : AllThreads, id : Nat, len : Int]

\* What the loop has still to run, oldest first: the rest of the batch, then the queue.
Queue == functors \o pendingFunctors_

Queues ==
  /\ pendingFunctors_ \in Seq(Functors)
  /\ functors \in Seq(Functors)
  /\ wire \in Seq(Functors)
  /\ told \in Seq({"up", "message", "down"})

\* Events are dispatched while nothing is left of the batch, and poll reports only
\* what is registered.
PhaseInv ==
  /\ pc \in {"poll", "dispatch", "close"} => functors = <<>>
  /\ pc = "user" /\ after \in {"dispatch", "close"} => functors = <<>>
  /\ revents # {} => pc = "dispatch" /\ polled
  /\ "IN" \in revents => "IN" \in events_
  /\ events_ \subseteq {"IN"}

\* Before connectEstablished, the first functor there is, nothing happens.
Untold ==
  /\ state_ = "kConnecting" /\ events_ = {} /\ ~polled
  /\ pc \in {"poll", "dispatch", "run", "stopped"}
  /\ \A t \in AllThreads : call[t] = "idle"
  /\ shutBy = {} /\ wire = <<>>
  /\ destroyed # "done"
  /\ Len(Queue) # 0 /\ Queue[1].kind = "connectEstablished"
  /\ \A i \in 2 .. Len(Queue) : Queue[i].kind = "connectDestroyed"

\* The connection is up: it is watched for reading until it is down or destroyed, ...
Up ==
  /\ told \in {<<"up">>, <<"up", "message">>}
  /\ state_ \in {"kConnected", "kDisconnecting"}
  /\ events_ = {"IN"} /\ polled

\* ... and then taken out of epoll.
IsDown ==
  /\ told \in {<<"up", "down">>, <<"up", "message", "down">>}
  /\ events_ = {} /\ ~polled

\* The life of the connection.
LifeInv ==
  /\ told = <<>> => Untold
  /\ told # <<>> =>
       /\ state_ # "kConnecting"
       /\ \A i \in 1 .. Len(Queue) : Queue[i].kind # "connectEstablished"
       /\ destroyed = "done" \/ Up \/ IsDown
  /\ pc = "destroy" => destroyed = "done" \/ Up
  /\ Down => state_ \in {"kDisconnecting", "kDisconnected"}

\* Queued messages are in the order of their numbers, and those of a thread come after
\* what it has written.
OrderInv ==
  /\ \A i \in 1 .. Len(Queue) :
       Queue[i].kind = "send" => Queue[i].by # LoopThread /\ Queue[i].id < sent
  /\ \A i \in 1 .. Len(wire) : wire[i].id < sent
  /\ \A i, j \in 1 .. Len(Queue) :
       i < j /\ Queue[i].kind = "send" /\ Queue[j].kind = "send" =>
         Queue[i].id < Queue[j].id
  /\ \A i \in 1 .. Len(wire) : \A j \in 1 .. Len(Queue) :
       Queue[j].kind = "send" /\ wire[i].by = Queue[j].by => wire[i].id < Queue[j].id
  /\ \A i, j \in 1 .. Len(wire) :
       i < j /\ wire[i].by = wire[j].by => wire[i].id < wire[j].id

ShutdownQueued(t) ==
  \E i \in 1 .. Len(Queue) : Queue[i].kind = "shutdown" /\ Queue[i].by = t

\* Thread t has shut the connection down, as far as it is concerned.
Shut(t) == t \in shutBy \/ ShutdownQueued(t) \/ call[t] = "posting"

\* It can send no more then, and nothing of what it has sent is behind its shutdown.
ShutInv ==
  \A t \in AllThreads :
    /\ Shut(t) => state_ \in {"kDisconnecting", "kDisconnected"} /\ call[t] # "sending"
    /\ t \in shutBy =>
         \A j \in 1 .. Len(Queue) : ~(Queue[j].kind = "send" /\ Queue[j].by = t)
    /\ \A i, j \in 1 .. Len(Queue) :
         i < j /\ Queue[i].kind = "shutdown" /\ Queue[i].by = t =>
           ~(Queue[j].kind = "send" /\ Queue[j].by = t)

IInv ==
  /\ TypeOK
  /\ Queues
  /\ PhaseInv
  /\ LifeInv
  /\ OrderInv
  /\ ShutInv


USE CallerAssumption

-------------------------------------------------------------------------------
(***************************************************************************)
(* The queue.                                                              *)
(***************************************************************************)

\* The queue r is the queue q without its first s functors, and with a functor in F
\* added at its end, or none.
Follows(q, r, s, F) ==
  \A i \in 1 .. Len(r) :
    \/ i + s \in 1 .. Len(q) /\ r[i] = q[i + s]
    \/ i + s = Len(q) + 1 /\ r[i] \in F

\* Putting a functor at the end of the queue.
LEMMA Appending ==
  ASSUME NEW a \in Seq(Functors), NEW p \in Seq(Functors), NEW g \in Functors
  PROVE  /\ a \o p \in Seq(Functors)
         /\ a \o Append(p, g) \in Seq(Functors)
         /\ Len(a \o p) \in Nat
         /\ Len(a \o Append(p, g)) = Len(a \o p) + 1
         /\ \A i \in 1 .. Len(a \o p) : (a \o Append(p, g))[i] = (a \o p)[i]
         /\ (a \o Append(p, g))[Len(a \o p) + 1] = g
<1>1. /\ Append(p, g) \in Seq(Functors) /\ Len(Append(p, g)) = Len(p) + 1
      /\ \A i \in 1 .. Len(p) : Append(p, g)[i] = p[i]
      /\ Append(p, g)[Len(p) + 1] = g
  BY AppendProperties
<1>2. Len(a) \in Nat /\ Len(p) \in Nat
  BY LenProperties
<1>3. /\ a \o p \in Seq(Functors)
      /\ Len(a \o p) = Len(a) + Len(p)
      /\ \A i \in 1 .. Len(a) + Len(p) :
           (a \o p)[i] = IF i <= Len(a) THEN a[i] ELSE p[i - Len(a)]
  BY ConcatProperties
<1> DEFINE r == a \o Append(p, g)
<1>4. /\ r \in Seq(Functors)
      /\ Len(r) = Len(a) + Len(p) + 1
      /\ \A i \in 1 .. Len(a) + Len(p) + 1 :
           r[i] = IF i <= Len(a) THEN a[i] ELSE Append(p, g)[i - Len(a)]
  <2>1. /\ r \in Seq(Functors)
        /\ Len(r) = Len(a) + Len(Append(p, g))
        /\ \A i \in 1 .. Len(a) + Len(Append(p, g)) :
             r[i] = IF i <= Len(a) THEN a[i] ELSE Append(p, g)[i - Len(a)]
    BY <1>1, ConcatProperties
  <2>2. Len(a) + Len(Append(p, g)) = Len(a) + Len(p) + 1
    BY <1>1, <1>2
  <2>3. QED
    BY <2>1, <2>2
<1> HIDE DEF r
<1>5. \A i \in 1 .. Len(a) + Len(p) : r[i] = (a \o p)[i]
  BY <1>1, <1>2, <1>3, <1>4
<1>6. r[Len(a) + Len(p) + 1] = g
  <2>1. /\ Len(a) + Len(p) + 1 \in 1 .. Len(a) + Len(p) + 1
        /\ ~(Len(a) + Len(p) + 1 <= Len(a))
        /\ Len(a) + Len(p) + 1 - Len(a) = Len(p) + 1
    BY <1>2
  <2>2. QED
    BY <1>1, <1>4, <2>1
<1>7. QED
  BY <1>2, <1>3, <1>4, <1>5, <1>6 DEF r

\* Taking the first functor out of the queue.
LEMMA Tailing ==
  ASSUME NEW a \in Seq(Functors), NEW p \in Seq(Functors), a # <<>>
  PROVE  /\ Tail(a) \in Seq(Functors)
         /\ Len(a \o p) \in Nat \ {0}
         /\ (a \o p)[1] = Head(a) /\ Head(a) \in Functors
         /\ Len(Tail(a) \o p) = Len(a \o p) - 1
         /\ \A i \in 1 .. Len(Tail(a) \o p) : (Tail(a) \o p)[i] = (a \o p)[i + 1]
<1>1. /\ Tail(a) \in Seq(Functors) /\ Len(Tail(a)) = Len(a) - 1
      /\ \A i \in 1 .. Len(Tail(a)) : Tail(a)[i] = a[i + 1]
      /\ Head(a) \in Functors
  BY HeadTailProperties
<1>2. Len(a) \in Nat \ {0} /\ Len(p) \in Nat
  BY LenProperties, EmptySeq
<1>3. Head(a) = a[1]
  OBVIOUS
<1>4. /\ Len(a \o p) = Len(a) + Len(p)
      /\ \A i \in 1 .. Len(a) + Len(p) :
           (a \o p)[i] = IF i <= Len(a) THEN a[i] ELSE p[i - Len(a)]
  BY ConcatProperties
<1> DEFINE r == Tail(a) \o p
<1>5. /\ Len(r) = Len(a) + Len(p) - 1
      /\ \A i \in 1 .. Len(a) + Len(p) - 1 :
           r[i] = IF i <= Len(a) - 1 THEN Tail(a)[i] ELSE p[i - (Len(a) - 1)]
  <2>1. /\ Len(r) = Len(Tail(a)) + Len(p)
        /\ \A i \in 1 .. Len(Tail(a)) + Len(p) :
             r[i] = IF i <= Len(Tail(a)) THEN Tail(a)[i] ELSE p[i - Len(Tail(a))]
    BY <1>1, ConcatProperties
  <2>2. Len(Tail(a)) + Len(p) = Len(a) + Len(p) - 1
    BY <1>1, <1>2
  <2>3. QED
    BY <1>1, <2>1, <2>2
<1> HIDE DEF r
<1>6. ASSUME NEW i \in 1 .. Len(a) + Len(p) - 1
      PROVE  r[i] = (a \o p)[i + 1]
  <2>1. i + 1 \in 1 .. Len(a) + Len(p)
    BY <1>2
  <2>2. CASE i <= Len(a) - 1
    <3>1. i \in 1 .. Len(Tail(a)) /\ i + 1 <= Len(a)
      BY <1>1, <1>2, <2>2
    <3>2. QED
      BY <1>1, <1>4, <1>5, <2>1, <2>2, <3>1
  <2>3. CASE ~(i <= Len(a) - 1)
    <3>1. ~(i + 1 <= Len(a)) /\ i - (Len(a) - 1) = i + 1 - Len(a)
      BY <1>2, <2>3
    <3>2. QED
      BY <1>4, <1>5, <2>1, <2>3, <3>1
  <2>4. QED
    BY <2>2, <2>3
<1>7. (a \o p)[1] = Head(a)
  <2>1. 1 \in 1 .. Len(a) + Len(p) /\ 1 <= Len(a)
    BY <1>2
  <2>2. QED
    BY <1>3, <1>4, <2>1
<1>8. QED
  BY <1>1, <1>2, <1>4, <1>5, <1>6, <1>7 DEF r


\* The functors the connection queues.
LEMMA CallForms ==
  /\ \A k \in Kinds : \A t \in AllThreads :
       /\ Call(k, t) \in Functors
       /\ Call(k, t).kind = k /\ Call(k, t).by = t
  /\ LoopThread \in AllThreads
BY DEF Call, Functors, AllThreads

\* doPendingFunctors takes the whole queue over, and changes nothing of its order.
LEMMA SwapEffect ==
  ASSUME Queues, PhaseInv, doPendingFunctors
  PROVE  Queue' = Queue /\ pendingFunctors_' \in Seq(Functors) /\ functors' \in Seq(Functors)
<1>1. functors = <<>> /\ functors' = pendingFunctors_ /\ pendingFunctors_' = <<>>
  BY DEF PhaseInv, doPendingFunctors, Goto
<1>2. pendingFunctors_ \o <<>> = pendingFunctors_ /\ <<>> \o pendingFunctors_ = pendingFunctors_
  BY ConcatEmptySeq DEF Queues
<1>3. <<>> \in Seq(Functors)
  BY EmptySeq
<1>4. QED
  BY <1>1, <1>2, <1>3 DEF Queue, Queues

\* What a post does to the queue.
LEMMA PostEffect ==
  ASSUME Queues, NEW g \in Functors, functors' = functors,
         pendingFunctors_' = Append(pendingFunctors_, g)
  PROVE  /\ pendingFunctors_' \in Seq(Functors) /\ functors' \in Seq(Functors)
         /\ Len(Queue) \in Nat /\ Len(Queue') = Len(Queue) + 1
         /\ \A i \in 1 .. Len(Queue) : Queue'[i] = Queue[i]
         /\ Queue'[Len(Queue) + 1] = g
         /\ Follows(Queue, Queue', 0, {g})
<1>1. pendingFunctors_ \in Seq(Functors) /\ functors \in Seq(Functors)
  BY DEF Queues
<1>2. /\ Len(Queue) \in Nat /\ Len(Queue') = Len(Queue) + 1
      /\ \A i \in 1 .. Len(Queue) : Queue'[i] = Queue[i]
      /\ Queue'[Len(Queue) + 1] = g
  BY <1>1, Appending DEF Queue
<1>3. Follows(Queue, Queue', 0, {g})
  BY <1>2 DEF Follows
<1>4. QED
  BY <1>1, <1>2, <1>3, AppendProperties

\* What running a functor does to the queue, if it posts at most a functor in F.
LEMMA RunEffect ==
  ASSUME Queues, NEW f, NextIs(f), NEW F \in SUBSET Functors,
         \/ pendingFunctors_' = pendingFunctors_
         \/ \E g \in F : pendingFunctors_' = Append(pendingFunctors_, g)
  PROVE  /\ pendingFunctors_' \in Seq(Functors) /\ functors' \in Seq(Functors)
         /\ Len(Queue) \in Nat \ {0}
         /\ Queue[1] = Head(functors) /\ Queue[1] \in Functors /\ Queue[1].kind = f
         /\ Follows(Queue, Queue', 1, F)
<1>1. pendingFunctors_ \in Seq(Functors) /\ functors \in Seq(Functors) /\ functors # <<>>
      /\ Head(functors).kind = f /\ functors' = Tail(functors)
  BY DEF Queues, NextIs
<1> DEFINE r == Tail(functors) \o pendingFunctors_
<1>2. /\ Len(Queue) \in Nat \ {0}
      /\ Queue[1] = Head(functors) /\ Head(functors) \in Functors
      /\ functors' \in Seq(Functors)
      /\ Len(r) = Len(Queue) - 1
      /\ \A i \in 1 .. Len(r) : r[i] = Queue[i + 1]
  BY <1>1, Tailing DEF Queue
<1>3. CASE pendingFunctors_' = pendingFunctors_
  <2>1. Queue' = r
    BY <1>1, <1>3 DEF Queue
  <2> HIDE DEF r
  <2>2. Follows(Queue, Queue', 1, F)
    BY <1>2, <2>1 DEF Follows
  <2>3. QED
    BY <1>1, <1>2, <1>3, <2>2
<1>4. ASSUME NEW g \in F, pendingFunctors_' = Append(pendingFunctors_, g)
      PROVE  pendingFunctors_' \in Seq(Functors) /\ Follows(Queue, Queue', 1, F)
  <2>1. Queue' = Tail(functors) \o Append(pendingFunctors_, g)
    BY <1>1, <1>4 DEF Queue
  <2>2. /\ Len(Queue') = Len(r) + 1
        /\ \A i \in 1 .. Len(r) : Queue'[i] = r[i]
        /\ Queue'[Len(r) + 1] = g
        /\ pendingFunctors_' \in Seq(Functors)
    <3> DEFINE q == Tail(functors)
    <3>1. q \in Seq(Functors) /\ pendingFunctors_ \in Seq(Functors) /\ g \in Functors
      BY <1>1
    <3>2. r = q \o pendingFunctors_ /\ Queue' = q \o Append(pendingFunctors_, g)
      BY <2>1
    <3> HIDE DEF q, r
    <3>3. /\ Len(Queue') = Len(r) + 1
          /\ \A i \in 1 .. Len(r) : Queue'[i] = r[i]
          /\ Queue'[Len(r) + 1] = g
      BY <3>1, <3>2, Appending
    <3>4. QED
      BY <1>4, <3>1, <3>3, AppendProperties
  <2> HIDE DEF r
  <2>3. Follows(Queue, Queue', 1, F)
    BY <1>2, <2>2 DEF Follows
  <2>4. QED
    BY <2>2, <2>3
<1>5. QED
  BY <1>1, <1>2, <1>3, <1>4

\* The functors that call user code.
UserFunctors ==
  {Call("writeComplete", LoopThread), Call("highWaterMark", LoopThread)}

\* sendInLoop writes the message, as one piece, or writes nothing.
Writes(m) ==
  /\ state_ # "kDisconnected"
  /\ wire' \in Seq(Functors)
  /\ Len(wire) \in Nat /\ Len(wire') = Len(wire) + 1
  /\ \A i \in 1 .. Len(wire) : wire'[i] = wire[i]
  /\ wire'[Len(wire) + 1].by = m.by /\ wire'[Len(wire) + 1].id = m.id

\* What sendInLoop writes and queues.
LEMMA SendEffect ==
  ASSUME Queues, NEW m \in Functors, sendInLoop(m)
  PROVE  /\ Writes(m) \/ wire' = wire
         /\ \/ pendingFunctors_' = pendingFunctors_
            \/ \E g \in UserFunctors : pendingFunctors_' = Append(pendingFunctors_, g)
<1>1. CASE state_ = "kDisconnected" \/ isWriting
  BY <1>1 DEF sendInLoop
<1>2. CASE ~(state_ = "kDisconnected" \/ isWriting)
  <2>1. PICK k \in Written(m.len) :
          /\ error' = FALSE
          /\ wire' = Append(wire, [m EXCEPT !.len = k])
          /\ pendingFunctors_' =
               IF k = m.len
               THEN Append(pendingFunctors_, Call("writeComplete", LoopThread))
               ELSE IF ~(finSent \/ reset) /\ highWaterMark_ \in 1 .. m.len - k
               THEN Append(pendingFunctors_, Call("highWaterMark", LoopThread))
               ELSE pendingFunctors_
    BY <1>2 DEF sendInLoop
  <2>2. k \in Int
    BY DEF Written, Functors
  <2> DEFINE w == [m EXCEPT !.len = k]
  <2>3. w \in Functors /\ w.by = m.by /\ w.id = m.id
    BY <2>2 DEF Functors
  <2>4. wire \in Seq(Functors) /\ Len(wire) \in Nat
    BY LenProperties DEF Queues
  <2>5. Writes(m)
    <3> HIDE DEF w
    <3>1. /\ Append(wire, w) \in Seq(Functors)
          /\ Len(Append(wire, w)) = Len(wire) + 1
          /\ \A i \in 1 .. Len(wire) : Append(wire, w)[i] = wire[i]
          /\ Append(wire, w)[Len(wire) + 1] = w
      BY <2>3, <2>4, AppendProperties
    <3>2. wire' = Append(wire, w)
      BY <2>1 DEF w
    <3>3. QED
      BY <1>2, <2>3, <2>4, <3>1, <3>2 DEF Writes
  <2>6. QED
    BY <2>1, <2>5 DEF UserFunctors
<1>3. QED
  BY <1>1, <1>2

\* They are functors, and neither send nor shut anything.
LEMMA UserFunctorForms ==
  /\ UserFunctors \in SUBSET Functors
  /\ \A g \in UserFunctors : g.kind \in {"writeComplete", "highWaterMark"}
BY CallForms DEF UserFunctors, Kinds


\* Steps that leave the queue in its order, and what is written as it is.
Quiet ==
  /\ Queue' = Queue
  /\ pendingFunctors_' \in Seq(Functors) /\ functors' \in Seq(Functors)
  /\ UNCHANGED <<wire, sent, shutBy>>

\* Steps that run a functor of kind f.
Runs(f) ==
  /\ Len(Queue) \in Nat \ {0}
  /\ Queue[1] = Head(functors) /\ Queue[1] \in Functors /\ Queue[1].kind = f
  /\ Follows(Queue, Queue', 1, UserFunctors)
  /\ pendingFunctors_' \in Seq(Functors) /\ functors' \in Seq(Functors)
  /\ wire' = wire \/ (f = "send" /\ Writes(Queue[1]))
  /\ shutBy' = shutBy \/ (f = "shutdown" /\ shutBy' \subseteq shutBy \cup {Queue[1].by})
  /\ UNCHANGED <<call, sent>>

\* Steps that post at most a functor in F.
Posts(F) ==
  /\ Follows(Queue, Queue', 0, F)
  /\ pendingFunctors_' \in Seq(Functors) /\ functors' \in Seq(Functors)

\* The messages thread t may send now.
Messages(t) == {m \in Functors : m.kind = "send" /\ m.by = t /\ m.id = sent}

\* What the end of a send() of thread t does, ...
Sends(t) ==
  /\ postSend(t)
  /\ IF t = LoopThread
     THEN Posts(UserFunctors) /\ (wire' = wire \/ \E m \in Messages(t) : Writes(m))
     ELSE Posts(Messages(t)) /\ wire' = wire

\* ... and of a shutdown().
Shuts(t) ==
  /\ postShutdown(t)
  /\ IF t = LoopThread
     THEN Posts({}) /\ shutBy' \subseteq shutBy \cup {t}
     ELSE Posts({Call("shutdown", t)}) /\ shutBy' = shutBy

\* The queue holds functors.
LEMMA QueueTyped ==
  ASSUME NEW a \in Seq(Functors), NEW p \in Seq(Functors)
  PROVE  /\ Len(a \o p) \in Nat
         /\ \A i \in 1 .. Len(a \o p) : (a \o p)[i] \in Functors
         /\ Follows(a \o p, a \o p, 0, {})
<1>1. a \o p \in Seq(Functors)
  BY ConcatProperties
<1>2. Len(a \o p) \in Nat
  BY <1>1, LenProperties
<1>3. \A i \in 1 .. Len(a \o p) : (a \o p)[i] \in Functors
  BY <1>1, ElementOfSeq
<1>4. Follows(a \o p, a \o p, 0, {})
  BY <1>2 DEF Follows
<1>5. QED
  BY <1>2, <1>3, <1>4

\* Each step that runs a functor is one of the kind it has.
LEMMA RunSteps ==
  ASSUME Queues, connectEstablished \/ RunSend \/ RunShutdown \/ RunUserFunctor
                   \/ connectDestroyed
  PROVE  \E f \in Kinds : NextIs(f) /\ Runs(f)
<1> USE UserFunctorForms
<1>1. ASSUME NEW f \in {"connectEstablished", "writeComplete", "highWaterMark",
                       "connectDestroyed"},
             NextIs(f), UNCHANGED <<pendingFunctors_, wire, shutBy>>
      PROVE  f \in Kinds /\ Runs(f)
  BY <1>1, RunEffect DEF Runs, Kinds, NextIs
<1>2. CASE connectEstablished
  BY <1>1, <1>2 DEF connectEstablished
<1>3. CASE connectDestroyed
  BY <1>1, <1>3 DEF connectDestroyed
<1>4. CASE RunUserFunctor
  BY <1>1, <1>4 DEF RunUserFunctor
<1>5. CASE RunShutdown
  <2>1. NextIs("shutdown") /\ UNCHANGED <<pendingFunctors_, wire>>
        /\ shutdownInLoop(Head(functors).by)
    BY <1>5 DEF RunShutdown
  <2>2. shutBy' \subseteq shutBy \cup {Head(functors).by}
    BY <2>1 DEF shutdownInLoop
  <2>3. Runs("shutdown")
    BY <2>1, <2>2, RunEffect DEF Runs, NextIs
  <2>4. QED
    BY <2>1, <2>3 DEF Kinds
<1>6. CASE RunSend
  <2>1. NextIs("send") /\ UNCHANGED shutBy /\ sendInLoop(Head(functors))
    BY <1>6 DEF RunSend
  <2>2. functors \in Seq(Functors) /\ functors # <<>>
    BY <2>1 DEF NextIs, Queues
  <2>3. Head(functors) \in Functors
    BY <2>2, HeadTailProperties
  <2>4. /\ Writes(Head(functors)) \/ wire' = wire
        /\ \/ pendingFunctors_' = pendingFunctors_
           \/ \E g \in UserFunctors : pendingFunctors_' = Append(pendingFunctors_, g)
    BY <2>1, <2>3, SendEffect
  <2>5. Runs("send")
    BY <2>1, <2>4, RunEffect DEF Runs, NextIs
  <2>6. QED
    BY <2>1, <2>5 DEF Kinds
<1>7. QED
  BY <1>2, <1>3, <1>4, <1>5, <1>6

\* The end of a send() queues the message, or what comes of writing it.
LEMMA SendSteps ==
  ASSUME TypeOK, Queues, NEW t \in AllThreads, postSend(t)
  PROVE  Sends(t)
<1>1. PICK len \in 1 .. MaxLen :
        LET m == [kind |-> "send", by |-> t, id |-> sent, len |-> len]
        IN  IF isInLoopThread(t) THEN sendInLoop(m)
            ELSE /\ pendingFunctors_' = Append(pendingFunctors_, m)
                 /\ UNCHANGED <<wire, error>>
  BY DEF postSend
<1> DEFINE m == [kind |-> "send", by |-> t, id |-> sent, len |-> len]
<1>2. m \in Messages(t)
  BY DEF Messages, Functors, Kinds, TypeOK
<1>3. functors' = functors
  BY DEF postSend
<1> HIDE DEF m
<1>4. CASE t = LoopThread
  <2>1. sendInLoop(m) /\ m \in Functors
    BY <1>1, <1>2, <1>4 DEF isInLoopThread, m, Messages
  <2>2. \/ pendingFunctors_' = pendingFunctors_
        \/ \E g \in UserFunctors : pendingFunctors_' = Append(pendingFunctors_, g)
    BY <2>1, SendEffect
  <2>3. Posts(UserFunctors)
    <3>1. CASE pendingFunctors_' = pendingFunctors_
      <4>1. Queue' = Queue
        BY <1>3, <3>1 DEF Queue
      <4>2. Follows(Queue, Queue, 0, {})
        BY QueueTyped DEF Queue, Queues
      <4>3. QED
        BY <1>3, <3>1, <4>1, <4>2 DEF Posts, Follows, Queues
    <3>2. ASSUME NEW g \in UserFunctors, pendingFunctors_' = Append(pendingFunctors_, g)
          PROVE  Posts(UserFunctors)
      BY <1>3, <3>2, UserFunctorForms, PostEffect DEF Posts, Follows
    <3>3. QED
      BY <2>2, <3>1, <3>2
  <2>4. QED
    BY <1>2, <1>4, <2>1, <2>3, SendEffect DEF Sends
<1>5. CASE t # LoopThread
  <2>1. pendingFunctors_' = Append(pendingFunctors_, m) /\ wire' = wire /\ m \in Functors
    BY <1>1, <1>2, <1>5 DEF isInLoopThread, m, Messages
  <2>2. Posts(Messages(t))
    BY <1>2, <1>3, <2>1, PostEffect DEF Posts, Follows
  <2>3. QED
    BY <1>5, <2>1, <2>2 DEF Sends
<1>6. QED
  BY <1>4, <1>5

\* The end of a shutdown() shuts at once, or queues it.
LEMMA ShutdownSteps ==
  ASSUME Queues, NEW t \in AllThreads, postShutdown(t)
  PROVE  Shuts(t)
<1>1. functors' = functors
  BY DEF postShutdown
<1>2. CASE t = LoopThread
  <2>1. pendingFunctors_' = pendingFunctors_ /\ shutBy' \subseteq shutBy \cup {t}
    BY <1>2 DEF postShutdown, isInLoopThread, shutdownInLoop
  <2>2. Queue' = Queue /\ Follows(Queue, Queue, 0, {})
    BY <1>1, <2>1, QueueTyped DEF Queue, Queues
  <2>3. Posts({})
    BY <1>1, <2>1, <2>2 DEF Posts, Queues
  <2>4. QED
    BY <1>2, <2>1, <2>3 DEF Shuts
<1>3. CASE t # LoopThread
  <2>1. pendingFunctors_' = Append(pendingFunctors_, Call("shutdown", t)) /\ shutBy' = shutBy
    BY <1>3 DEF postShutdown, isInLoopThread
  <2>2. Posts({Call("shutdown", t)})
    BY <1>1, <2>1, CallForms, PostEffect DEF Posts, Kinds
  <2>3. QED
    BY <1>3, <2>1, <2>2 DEF Shuts
<1>4. QED
  BY <1>2, <1>3

\* Every step is quiet, runs a functor, or posts one.
LEMMA QueueSteps ==
  ASSUME TypeOK, Queues, PhaseInv, [Next]_vars
  PROVE  \/ Quiet
         \/ \E f \in Kinds : Runs(f)
         \/ \E t \in AllThreads : Sends(t) \/ Shuts(t)
         \/ destroyServer /\ Posts({Call("connectDestroyed", LoopThread)})
<1>1. CASE UNCHANGED <<queue, wire, sent, shutBy>>
  BY <1>1 DEF Quiet, Queues, Queue, queue
<1>2. CASE doPendingFunctors
  BY <1>2, SwapEffect DEF Quiet, doPendingFunctors
<1>3. CASE destroyServer
  <2>1. /\ pendingFunctors_' = Append(pendingFunctors_, Call("connectDestroyed", LoopThread))
        /\ functors' = functors
    BY <1>3 DEF destroyServer
  <2>2. QED
    BY <1>3, <2>1, CallForms, PostEffect DEF Posts, Kinds
<1>4. CASE connectEstablished \/ RunSend \/ RunShutdown \/ RunUserFunctor \/ connectDestroyed
  BY <1>4, RunSteps
<1>5. ASSUME NEW t \in AllThreads, postSend(t) \/ postShutdown(t)
      PROVE  Sends(t) \/ Shuts(t)
  BY <1>5, SendSteps, ShutdownSteps
<1>6. CASE Poll \/ HandleHangup \/ handleError \/ handleRead \/ closeCallback \/ pendingDone
             \/ setDisconnected \/ remove \/ UserReturns \/ retrieve \/ Peer \/ quit
  BY <1>6, <1>1 DEF Poll, HandleHangup, handleError, handleRead, Read, closeCallback,
                    pendingDone, setDisconnected, remove, UserReturns, retrieve, Peer,
                    quit
<1>7. ASSUME NEW t \in AllThreads, send(t) \/ shutdown(t) \/ setDisconnecting(t)
      PROVE  UNCHANGED <<queue, wire, sent, shutBy>>
  BY <1>7 DEF send, shutdown, setDisconnecting, queue
<1>8. CASE UNCHANGED vars
  BY <1>1, <1>8 DEF vars
<1>9. QED
  BY <1>1, <1>2, <1>3, <1>4, <1>5, <1>6, <1>7, <1>8
     DEF Next, LoopStep, FinishCall, Stopped


-------------------------------------------------------------------------------
(***************************************************************************)
(* The order of messages.                                                  *)
(***************************************************************************)

\* All functors of kind k in r come from q, whose first s functors are gone.
Old(q, r, s, k) ==
  \A i \in 1 .. Len(r) : r[i].kind = k => i + s \in 1 .. Len(q) /\ r[i] = q[i + s]

\* Functors of a kind that is not posted were in the queue before.
LEMMA Earlier ==
  ASSUME NEW q, NEW r, NEW s, NEW F, Follows(q, r, s, F), NEW k, \A g \in F : g.kind # k
  PROVE  Old(q, r, s, k)
BY DEF Follows, Old

\* No step sends a message before one that was sent earlier by the same thread.
LEMMA NextOrderInv ==
  TypeOK /\ Queues /\ PhaseInv /\ OrderInv /\ [Next]_vars => OrderInv'
<1> SUFFICES ASSUME TypeOK, Queues, PhaseInv, OrderInv, [Next]_vars
             PROVE  OrderInv'
  OBVIOUS
<1>1. /\ Len(Queue) \in Nat
      /\ \A i \in 1 .. Len(Queue) : Queue[i].id \in Nat
  <2>1. \A f \in Functors : f.id \in Nat
    BY DEF Functors
  <2>2. QED
    BY <2>1, QueueTyped DEF Queue, Queues
<1>2. /\ Len(wire) \in Nat /\ sent \in Nat
      /\ \A i \in 1 .. Len(wire) : wire[i].id \in Nat
  <2>1. \A i \in 1 .. Len(wire) : wire[i] \in Functors
    BY ElementOfSeq DEF Queues
  <2>2. QED
    BY <2>1, LenProperties DEF Queues, TypeOK, Functors
<1>3. ASSUME NEW s \in {0, 1}, Old(Queue, Queue', s, "send"), UNCHANGED <<wire, sent>>
      PROVE  OrderInv'
  <2>1. \A i \in 1 .. Len(Queue') :
          Queue'[i].kind = "send" => i + s \in 1 .. Len(Queue) /\ Queue'[i] = Queue[i + s]
    BY <1>3 DEF Old
  <2>2. ASSUME NEW i \in 1 .. Len(Queue'), NEW j \in 1 .. Len(Queue'), i < j,
               Queue'[i].kind = "send", Queue'[j].kind = "send"
        PROVE  Queue'[i].id < Queue'[j].id
    <3>1. i + s < j + s
      BY <2>2
    <3>2. QED
      BY <2>1, <2>2, <3>1 DEF OrderInv
  <2>3. \A i \in 1 .. Len(Queue') : Queue'[i].kind = "send" =>
          Queue'[i].by # LoopThread /\ Queue'[i].id < sent'
    BY <1>3, <2>1 DEF OrderInv
  <2>4. ASSUME NEW i \in 1 .. Len(wire'), NEW j \in 1 .. Len(Queue'),
               Queue'[j].kind = "send", wire'[i].by = Queue'[j].by
        PROVE  wire'[i].id < Queue'[j].id
    <3>1. j + s \in 1 .. Len(Queue) /\ Queue'[j] = Queue[j + s]
      BY <2>1, <2>4
    <3>2. i \in 1 .. Len(wire) /\ wire'[i] = wire[i]
      BY <1>3
    <3>3. QED
      BY <2>4, <3>1, <3>2 DEF OrderInv
  <2>5. /\ \A i \in 1 .. Len(wire') : wire'[i].id < sent'
        /\ \A i, j \in 1 .. Len(wire') :
             i < j /\ wire'[i].by = wire'[j].by => wire'[i].id < wire'[j].id
    BY <1>3 DEF OrderInv
  <2>6. QED
    BY <2>2, <2>3, <2>4, <2>5 DEF OrderInv
<1>4. CASE Quiet
  <2>1. Old(Queue, Queue', 0, "send")
    BY <1>4 DEF Quiet, Old
  <2>2. QED
    BY <1>3, <1>4, <2>1 DEF Quiet
<1>5. ASSUME NEW f \in Kinds, Runs(f)
      PROVE  OrderInv'
  <2>1. Old(Queue, Queue', 1, "send")
    BY <1>5, Earlier, UserFunctorForms DEF Runs
  <2>2. CASE wire' = wire
    BY <1>3, <1>5, <2>1, <2>2 DEF Runs
  <2>3. CASE f = "send" /\ Writes(Queue[1])
    <3>1. Queue[1].kind = "send" /\ 1 \in 1 .. Len(Queue) /\ sent' = sent
      BY <1>5, <2>3 DEF Runs
    <3>2. \A i \in 1 .. Len(wire') :
            \/ i \in 1 .. Len(wire) /\ wire'[i] = wire[i]
            \/ i = Len(wire) + 1 /\ wire'[i].by = Queue[1].by /\ wire'[i].id = Queue[1].id
      BY <1>2, <2>3 DEF Writes
    <3>3. \A i \in 1 .. Len(wire) : wire[i].by = Queue[1].by => wire[i].id < Queue[1].id
      BY <3>1 DEF OrderInv
    <3>4. \A j \in 1 .. Len(Queue) :
            Queue[j].kind = "send" /\ 1 < j => Queue[1].id < Queue[j].id
      BY <3>1 DEF OrderInv
    <3>5. \A i \in 1 .. Len(wire') : wire'[i].id < sent'
      BY <3>1, <3>2 DEF OrderInv
    <3>6. ASSUME NEW i \in 1 .. Len(wire'), NEW j \in 1 .. Len(Queue'),
                 Queue'[j].kind = "send", wire'[i].by = Queue'[j].by
          PROVE  wire'[i].id < Queue'[j].id
      <4>1. j + 1 \in 1 .. Len(Queue) /\ Queue'[j] = Queue[j + 1] /\ 1 < j + 1
        BY <2>1, <3>6 DEF Old
      <4>2. QED
        BY <3>2, <3>4, <3>6, <4>1 DEF OrderInv
    <3>7. ASSUME NEW i \in 1 .. Len(wire'), NEW j \in 1 .. Len(wire'), i < j,
                 wire'[i].by = wire'[j].by
          PROVE  wire'[i].id < wire'[j].id
      <4>1. i \in 1 .. Len(wire) /\ wire'[i] = wire[i]
        BY <1>2, <3>2, <3>7
      <4>2. CASE j \in 1 .. Len(wire) /\ wire'[j] = wire[j]
        BY <3>7, <4>1, <4>2 DEF OrderInv
      <4>3. CASE wire'[j].by = Queue[1].by /\ wire'[j].id = Queue[1].id
        BY <3>3, <3>7, <4>1, <4>3
      <4>4. QED
        BY <3>2, <4>2, <4>3
    <3>8. \A i \in 1 .. Len(Queue') : Queue'[i].kind = "send" =>
            i + 1 \in 1 .. Len(Queue) /\ Queue'[i] = Queue[i + 1]
      BY <2>1 DEF Old
    <3>9. \A i \in 1 .. Len(Queue') :
            Queue'[i].kind = "send" => Queue'[i].by # LoopThread /\ Queue'[i].id < sent'
      BY <3>1, <3>8 DEF OrderInv
    <3>10. ASSUME NEW i \in 1 .. Len(Queue'), NEW j \in 1 .. Len(Queue'), i < j,
                  Queue'[i].kind = "send", Queue'[j].kind = "send"
           PROVE  Queue'[i].id < Queue'[j].id
      <4>1. i + 1 < j + 1
        BY <3>10
      <4>2. QED
        BY <3>8, <3>10, <4>1 DEF OrderInv
    <3>11. QED
      BY <3>5, <3>6, <3>7, <3>9, <3>10 DEF OrderInv
  <2>4. QED
    BY <1>5, <2>2, <2>3 DEF Runs
<1>6. ASSUME NEW t \in AllThreads, Sends(t), t = LoopThread
      PROVE  OrderInv'
  <2>1. \A i \in 1 .. Len(Queue') :
          Queue'[i].kind = "send" => i \in 1 .. Len(Queue) /\ Queue'[i] = Queue[i]
    <3>1. Old(Queue, Queue', 0, "send")
      BY <1>6, Earlier, UserFunctorForms DEF Sends, Posts
    <3>2. QED
      BY <3>1 DEF Old
  <2>2. sent' = sent + 1
    BY <1>6 DEF Sends, postSend
  <2>3. \A i \in 1 .. Len(wire') :
          \/ i \in 1 .. Len(wire) /\ wire'[i] = wire[i]
          \/ i = Len(wire) + 1 /\ wire'[i].by = LoopThread /\ wire'[i].id = sent
    BY <1>2, <1>6 DEF Sends, Writes, Messages
  <2>4. \A i \in 1 .. Len(wire') : wire'[i].id < sent'
    BY <1>2, <2>2, <2>3 DEF OrderInv
  <2>5. \A i \in 1 .. Len(Queue') :
          Queue'[i].kind = "send" => Queue'[i].by # LoopThread /\ Queue'[i].id < sent'
    BY <1>1, <1>2, <2>1, <2>2 DEF OrderInv
  <2>6. ASSUME NEW i \in 1 .. Len(wire'), NEW j \in 1 .. Len(wire'), i < j,
               wire'[i].by = wire'[j].by
        PROVE  wire'[i].id < wire'[j].id
    <3>1. i \in 1 .. Len(wire) /\ wire'[i] = wire[i]
      BY <1>2, <2>3, <2>6
    <3>2. wire[i].id < sent
      BY <3>1 DEF OrderInv
    <3>3. CASE j \in 1 .. Len(wire) /\ wire'[j] = wire[j]
      BY <2>6, <3>1, <3>3 DEF OrderInv
    <3>4. CASE wire'[j].id = sent
      BY <3>1, <3>2, <3>4
    <3>5. QED
      BY <2>3, <3>3, <3>4
  <2>7. QED
    BY <2>1, <2>3, <2>4, <2>5, <2>6 DEF OrderInv
<1>7. ASSUME NEW t \in AllThreads, Sends(t), t # LoopThread
      PROVE  OrderInv'
  <2>1. \A i \in 1 .. Len(Queue') :
          \/ i \in 1 .. Len(Queue) /\ Queue'[i] = Queue[i]
          \/ i = Len(Queue) + 1 /\ Queue'[i].by = t /\ Queue'[i].id = sent
    BY <1>1, <1>7 DEF Sends, Posts, Follows, Messages
  <2>2. sent' = sent + 1 /\ wire' = wire
    BY <1>7 DEF Sends, postSend
  <2>3. \A i \in 1 .. Len(Queue') :
          Queue'[i].kind = "send" => Queue'[i].by # LoopThread /\ Queue'[i].id < sent'
    BY <1>1, <1>2, <1>7, <2>1, <2>2 DEF OrderInv
  <2>4. ASSUME NEW i \in 1 .. Len(Queue'), NEW j \in 1 .. Len(Queue'), i < j,
               Queue'[i].kind = "send", Queue'[j].kind = "send"
        PROVE  Queue'[i].id < Queue'[j].id
    <3>1. i \in 1 .. Len(Queue) /\ Queue'[i] = Queue[i]
      BY <1>1, <1>7, <2>1, <2>4 DEF Sends, Posts, Follows
    <3>2. Queue[i].id < sent
      BY <2>4, <3>1 DEF OrderInv
    <3>3. CASE j \in 1 .. Len(Queue) /\ Queue'[j] = Queue[j]
      BY <2>4, <3>1, <3>3 DEF OrderInv
    <3>4. CASE Queue'[j].id = sent
      BY <3>1, <3>2, <3>4
    <3>5. QED
      BY <2>1, <3>3, <3>4
  <2>5. \A i \in 1 .. Len(wire) : wire[i].id < sent'
    BY <1>2, <2>2 DEF OrderInv
  <2>6. \A i \in 1 .. Len(wire) : \A j \in 1 .. Len(Queue') :
          Queue'[j].kind = "send" /\ wire[i].by = Queue'[j].by => wire[i].id < Queue'[j].id
    BY <2>1 DEF OrderInv
  <2>7. QED
    BY <2>2, <2>3, <2>4, <2>5, <2>6 DEF OrderInv
<1>8. ASSUME NEW F, Posts(F), \A g \in F : g.kind # "send", UNCHANGED <<wire, sent>>
      PROVE  OrderInv'
  <2>1. Old(Queue, Queue', 0, "send")
    BY <1>8, Earlier DEF Posts
  <2>2. QED
    BY <1>3, <1>8, <2>1
<1>9. ASSUME NEW t \in AllThreads, Shuts(t)
      PROVE  OrderInv'
  BY <1>8, <1>9, CallForms DEF Shuts, postShutdown, Kinds
<1>10. CASE destroyServer /\ Posts({Call("connectDestroyed", LoopThread)})
  BY <1>8, <1>10, CallForms DEF destroyServer, Kinds
<1>11. QED
  BY <1>4, <1>5, <1>6, <1>7, <1>9, <1>10, QueueSteps

-------------------------------------------------------------------------------
(***************************************************************************)
(* Shutting down.                                                          *)
(***************************************************************************)

Closing == {"kDisconnecting", "kDisconnected"}

\* connectEstablished runs only once, at the beginning.
LEMMA EstablishedOnce ==
  ASSUME Queues, LifeInv, connectEstablished
  PROVE  told = <<>> /\ Untold
<1>1. NextIs("connectEstablished") /\ pendingFunctors_' = pendingFunctors_
  BY DEF connectEstablished
<1>2. Len(Queue) \in Nat \ {0} /\ Queue[1].kind = "connectEstablished"
  BY <1>1, RunEffect
<1>3. QED
  BY <1>2 DEF LifeInv

\* A connection that closes is never connected again.
LEMMA ClosingStays ==
  ASSUME Queues, LifeInv, [Next]_vars, state_ \in Closing
  PROVE  state_' \in Closing
<1>1. ~connectEstablished
  BY EstablishedOnce DEF Untold, Closing
<1>2. QED
  BY <1>1 DEF Closing, Next, LoopStep, FinishCall, Poll, HandleHangup, handleRead,
         handleClose, closeCallback, doPendingFunctors, pendingDone, RunSend,
         RunShutdown, RunUserFunctor, connectDestroyed, remove, UserReturns, retrieve,
         send, shutdown, postSend, setDisconnecting, postShutdown, Peer, destroyServer,
         vars, Read, handleError, setDisconnected, quit, Stopped

\* Calls are made and finished by their own thread.
LEMMA CallSteps ==
  ASSUME TypeOK, [Next]_vars, NEW t \in AllThreads
  PROVE  /\ call'[t] = "sending" => call[t] = "sending" \/ state_ = "kConnected"
         /\ call'[t] = "posting" => call[t] = "posting" \/ setDisconnecting(t)
<1>1. CASE UNCHANGED call
  BY <1>1
<1>2. ASSUME NEW u \in AllThreads, send(u) \/ shutdown(u)
      PROVE  /\ call'[t] = "sending" => call[t] = "sending" \/ state_ = "kConnected"
             /\ call'[t] = "posting" => call[t] = "posting"
  BY <1>2 DEF send, shutdown, Enter, TypeOK
<1>3. ASSUME NEW u \in AllThreads, postSend(u) \/ postShutdown(u)
      PROVE  /\ call'[t] = "sending" => call[t] = "sending"
             /\ call'[t] = "posting" => call[t] = "posting"
  BY <1>3 DEF postSend, postShutdown, Enter, TypeOK
<1>4. ASSUME NEW u \in AllThreads, setDisconnecting(u)
      PROVE  /\ call'[t] = "sending" => call[t] = "sending"
             /\ call'[t] = "posting" => call[t] = "posting" \/ setDisconnecting(t)
  BY <1>4 DEF setDisconnecting, Enter, TypeOK
<1>5. QED
  BY <1>1, <1>2, <1>3, <1>4
     DEF Next, LoopStep, FinishCall, Poll, HandleHangup, handleRead, closeCallback,
         doPendingFunctors, pendingDone, connectEstablished, NextIs, RunSend,
         RunShutdown, RunUserFunctor, connectDestroyed, remove, UserReturns, retrieve,
         Peer, destroyServer, vars, Read, handleError, setDisconnected, quit, Stopped

\* Who has shut the connection down had done so before, or does so now.
LEMMA ShutBefore ==
  ASSUME TypeOK, Queues, PhaseInv, [Next]_vars, NEW t \in AllThreads, Shut(t)'
  PROVE  Shut(t) \/ setDisconnecting(t)
<1>1. CASE call'[t] = "posting"
  BY <1>1, CallSteps DEF Shut
<1>2. CASE t \in shutBy'
  <2>1. ASSUME NEW f \in Kinds, Runs(f)
        PROVE  Shut(t)
    <3>1. CASE t \in shutBy
      BY <3>1 DEF Shut
    <3>2. CASE Queue[1].kind = "shutdown" /\ Queue[1].by = t /\ 1 \in 1 .. Len(Queue)
      BY <3>2 DEF Shut, ShutdownQueued
    <3>3. QED
      BY <1>2, <2>1, <3>1, <3>2 DEF Runs
  <2>2. ASSUME NEW u \in AllThreads, Sends(u) \/ Shuts(u)
        PROVE  Shut(t)
    BY <1>2, <2>2 DEF Sends, postSend, Shuts, postShutdown, Shut
  <2>3. QED
    BY <1>2, <2>1, <2>2, QueueSteps DEF Quiet, destroyServer, Shut
<1>3. CASE ShutdownQueued(t)'
  <2>1. PICK i \in 1 .. Len(Queue') : Queue'[i].kind = "shutdown" /\ Queue'[i].by = t
    BY <1>3 DEF ShutdownQueued
  <2>2. ASSUME NEW s \in {0, 1}, i + s \in 1 .. Len(Queue), Queue'[i] = Queue[i + s]
        PROVE  Shut(t)
    BY <2>1, <2>2 DEF Shut, ShutdownQueued
  <2>3. ASSUME NEW s \in {0, 1}, NEW F, Follows(Queue, Queue', s, F),
               \A g \in F : g.kind # "shutdown"
        PROVE  Shut(t)
    <3>1. Old(Queue, Queue', s, "shutdown")
      BY <2>3, Earlier
    <3>2. QED
      BY <2>1, <2>2, <3>1 DEF Old
  <2>4. CASE Quiet
    BY <1>3, <2>4 DEF Quiet, Shut, ShutdownQueued
  <2>5. ASSUME NEW f \in Kinds, Runs(f)
        PROVE  Shut(t)
    BY <2>3, <2>5, UserFunctorForms DEF Runs
  <2>6. ASSUME NEW u \in AllThreads, Sends(u)
        PROVE  Shut(t)
    BY <2>3, <2>6, UserFunctorForms DEF Sends, Posts, Messages
  <2>7. ASSUME NEW u \in AllThreads, Shuts(u)
        PROVE  Shut(t)
    <3>1. CASE u = LoopThread
      BY <2>3, <2>7, <3>1 DEF Shuts, Posts
    <3>2. CASE u # LoopThread
      <4>1. \/ i + 0 \in 1 .. Len(Queue) /\ Queue'[i] = Queue[i + 0]
            \/ Queue'[i] = Call("shutdown", u)
        BY <2>1, <2>7, <3>2 DEF Shuts, Posts, Follows
      <4>2. Queue'[i] = Call("shutdown", u) => u = t /\ call[t] = "posting"
        BY <2>1, <2>7, CallForms DEF Kinds, Shuts, postShutdown
      <4>3. QED
        BY <2>2, <4>1, <4>2 DEF Shut
    <3>3. QED
      BY <3>1, <3>2
  <2>8. CASE destroyServer /\ Posts({Call("connectDestroyed", LoopThread)})
    BY <2>3, <2>8, CallForms DEF Kinds, Posts
  <2>9. QED
    BY <2>4, <2>5, <2>6, <2>7, <2>8, QueueSteps
<1>4. QED
  BY <1>1, <1>2, <1>3 DEF Shut


\* A thread that has shut the connection down sends nothing after that.
LEMMA NextShutInv ==
  /\ TypeOK /\ Queues /\ PhaseInv /\ LifeInv /\ OrderInv /\ ShutInv /\ [Next]_vars
  => ShutInv'
<1> SUFFICES ASSUME TypeOK, Queues, PhaseInv, LifeInv, OrderInv, ShutInv, [Next]_vars,
                    NEW t \in AllThreads
             PROVE  /\ Shut(t)' => state_' \in Closing /\ call'[t] # "sending"
                    /\ t \in shutBy' =>
                         \A j \in 1 .. Len(Queue') :
                           ~(Queue'[j].kind = "send" /\ Queue'[j].by = t)
                    /\ \A i, j \in 1 .. Len(Queue') :
                         i < j /\ Queue'[i].kind = "shutdown" /\ Queue'[i].by = t =>
                           ~(Queue'[j].kind = "send" /\ Queue'[j].by = t)
  BY DEF ShutInv, Closing
<1>1. /\ Shut(t) => state_ \in Closing /\ call[t] # "sending"
      /\ t \in shutBy =>
           \A j \in 1 .. Len(Queue) : ~(Queue[j].kind = "send" /\ Queue[j].by = t)
      /\ \A i, j \in 1 .. Len(Queue) :
           i < j /\ Queue[i].kind = "shutdown" /\ Queue[i].by = t =>
             ~(Queue[j].kind = "send" /\ Queue[j].by = t)
  BY DEF ShutInv, Closing
<1>2. Shut(t)' => state_' \in Closing /\ call'[t] # "sending"
  <2> SUFFICES ASSUME Shut(t)'
               PROVE  state_' \in Closing /\ call'[t] # "sending"
    OBVIOUS
  <2>1. CASE Shut(t)
    <3>1. state_ \in Closing /\ call[t] # "sending" /\ state_' \in Closing
      BY <1>1, <2>1, ClosingStays
    <3>2. QED
      BY <3>1, CallSteps DEF Closing
  <2>2. CASE setDisconnecting(t)
    BY <2>2 DEF setDisconnecting, Enter, TypeOK, Closing
  <2>3. QED
    BY <2>1, <2>2, ShutBefore
<1> DEFINE Silent == \A j \in 1 .. Len(Queue') :
                       ~(Queue'[j].kind = "send" /\ Queue'[j].by = t)
           Ordered == \A i, j \in 1 .. Len(Queue') :
                        i < j /\ Queue'[i].kind = "shutdown" /\ Queue'[i].by = t =>
                          ~(Queue'[j].kind = "send" /\ Queue'[j].by = t)
<1>3. Len(Queue) \in Nat
  BY QueueTyped DEF Queue, Queues
<1>4. ASSUME NEW s \in {0, 1}, Old(Queue, Queue', s, "send")
      PROVE  t \in shutBy => Silent
  BY <1>1, <1>4 DEF Old
<1>5. ASSUME NEW s \in {0, 1}, Old(Queue, Queue', s, "send"),
             Old(Queue, Queue', s, "shutdown")
      PROVE  Ordered
  <2> SUFFICES ASSUME NEW i \in 1 .. Len(Queue'), NEW j \in 1 .. Len(Queue'), i < j,
                      Queue'[i].kind = "shutdown", Queue'[i].by = t,
                      Queue'[j].kind = "send", Queue'[j].by = t
               PROVE  FALSE
    OBVIOUS
  <2>1. /\ i + s \in 1 .. Len(Queue) /\ Queue'[i] = Queue[i + s]
        /\ j + s \in 1 .. Len(Queue) /\ Queue'[j] = Queue[j + s]
    BY <1>5 DEF Old
  <2>2. i + s < j + s
    OBVIOUS
  <2>3. QED
    BY <1>1, <2>1, <2>2
<1>6. CASE Quiet
  <2>1. Old(Queue, Queue', 0, "send") /\ Old(Queue, Queue', 0, "shutdown")
    BY <1>6 DEF Quiet, Old
  <2>2. shutBy' = shutBy
    BY <1>6 DEF Quiet
  <2>3. QED
    BY <1>2, <1>4, <1>5, <2>1, <2>2
<1>7. ASSUME NEW f \in Kinds, Runs(f)
      PROVE  (t \in shutBy' => Silent) /\ Ordered
  <2>1. Old(Queue, Queue', 1, "send") /\ Old(Queue, Queue', 1, "shutdown")
    BY <1>7, Earlier, UserFunctorForms DEF Runs
  <2>2. CASE t \in shutBy \/ t \notin shutBy'
    BY <1>4, <1>5, <2>1, <2>2
  <2>3. CASE 1 \in 1 .. Len(Queue) /\ Queue[1].kind = "shutdown" /\ Queue[1].by = t
    <3>1. \A j \in 1 .. Len(Queue) :
            1 < j => ~(Queue[j].kind = "send" /\ Queue[j].by = t)
      BY <1>1, <2>3
    <3>2. Silent
      <4> SUFFICES ASSUME NEW j \in 1 .. Len(Queue'),
                          Queue'[j].kind = "send", Queue'[j].by = t
                   PROVE  FALSE
        OBVIOUS
      <4>1. j + 1 \in 1 .. Len(Queue) /\ 1 < j + 1 /\ Queue'[j] = Queue[j + 1]
        BY <2>1 DEF Old
      <4>2. QED
        BY <3>1, <4>1
    <3>3. QED
      BY <1>5, <2>1, <3>2
  <2>4. QED
    BY <1>7, <2>2, <2>3 DEF Runs
<1>8. ASSUME NEW u \in AllThreads, Sends(u)
      PROVE  (t \in shutBy' => Silent) /\ Ordered
  <2>1. shutBy' = shutBy /\ call[u] = "sending"
    BY <1>8 DEF Sends, postSend
  <2>2. CASE u = LoopThread
    <3>1. Old(Queue, Queue', 0, "send") /\ Old(Queue, Queue', 0, "shutdown")
      BY <1>8, <2>2, Earlier, UserFunctorForms DEF Sends, Posts
    <3>2. QED
      BY <1>4, <1>5, <2>1, <3>1
  <2>3. CASE u # LoopThread
    <3>1. Follows(Queue, Queue', 0, Messages(u))
      BY <1>8, <2>3 DEF Sends, Posts
    <3>2. Old(Queue, Queue', 0, "shutdown")
      BY <3>1, Earlier DEF Messages
    <3>3. \A j \in 1 .. Len(Queue') :
            \/ j \in 1 .. Len(Queue) /\ Queue'[j] = Queue[j]
            \/ j = Len(Queue) + 1 /\ Queue'[j].by = u
      BY <1>3, <3>1 DEF Follows, Messages
    <3>4. CASE u # t
      <4>1. Silent \/ t \notin shutBy
        BY <1>1, <3>3, <3>4
      <4>2. Ordered
        BY <1>1, <1>3, <3>2, <3>3, <3>4 DEF Old
      <4>3. QED
        BY <2>1, <4>1, <4>2
    <3>5. CASE u = t
      <4>1. ~Shut(t)
        BY <1>1, <2>1, <3>5
      <4>2. \A i \in 1 .. Len(Queue) : ~(Queue[i].kind = "shutdown" /\ Queue[i].by = t)
        BY <4>1 DEF Shut, ShutdownQueued
      <4>3. Ordered
        BY <1>3, <3>2, <4>2 DEF Old
      <4>4. t \notin shutBy
        BY <4>1 DEF Shut
      <4>5. QED
        BY <2>1, <4>3, <4>4
    <3>6. QED
      BY <3>4, <3>5
  <2>4. QED
    BY <2>2, <2>3
<1>9. ASSUME NEW u \in AllThreads, Shuts(u)
      PROVE  (t \in shutBy' => Silent) /\ Ordered
  <2>1. CASE u = LoopThread
    <3>1. Old(Queue, Queue', 0, "send") /\ Old(Queue, Queue', 0, "shutdown")
      BY <1>9, <2>1, Earlier DEF Shuts, Posts
    <3>2. CASE t = LoopThread
      BY <1>5, <3>1, <3>2 DEF Old, OrderInv
    <3>3. CASE t # LoopThread
      BY <1>4, <1>5, <1>9, <2>1, <3>1, <3>3 DEF Shuts
    <3>4. QED
      BY <3>2, <3>3
  <2>2. CASE u # LoopThread
    <3>1. Follows(Queue, Queue', 0, {Call("shutdown", u)}) /\ shutBy' = shutBy
      BY <1>9, <2>2 DEF Shuts, Posts
    <3>2. Call("shutdown", u).kind = "shutdown"
      BY CallForms DEF Kinds
    <3>3. Old(Queue, Queue', 0, "send")
      BY <3>1, <3>2, Earlier
    <3>4. Ordered
      <4> SUFFICES ASSUME NEW i \in 1 .. Len(Queue'), NEW j \in 1 .. Len(Queue'), i < j,
                          Queue'[i].kind = "shutdown", Queue'[i].by = t,
                          Queue'[j].kind = "send", Queue'[j].by = t
                   PROVE  FALSE
        OBVIOUS
      <4>1. j \in 1 .. Len(Queue) /\ Queue'[j] = Queue[j]
        BY <3>3 DEF Old
      <4>2. i \in 1 .. Len(Queue) /\ Queue'[i] = Queue[i]
        BY <1>3, <3>1, <4>1 DEF Follows
      <4>3. QED
        BY <1>1, <4>1, <4>2
    <3>5. QED
      BY <1>4, <3>1, <3>3, <3>4
  <2>3. QED
    BY <2>1, <2>2
<1>10. CASE destroyServer /\ Posts({Call("connectDestroyed", LoopThread)})
  <2>1. Old(Queue, Queue', 0, "send") /\ Old(Queue, Queue', 0, "shutdown")
    BY <1>10, Earlier, CallForms DEF Posts, Kinds
  <2>2. shutBy' = shutBy
    BY <1>10 DEF destroyServer
  <2>3. QED
    BY <1>2, <1>4, <1>5, <2>1, <2>2
<1>11. QED
  BY <1>2, <1>6, <1>7, <1>8, <1>9, <1>10, QueueSteps

-------------------------------------------------------------------------------
(***************************************************************************)
(* The phases of the loop, and types.                                      *)
(***************************************************************************)

\* What the loop's thread does with functors, it does in its turn.
LEMMA NextPhaseInv == TypeOK /\ Queues /\ PhaseInv /\ [Next]_vars => PhaseInv'
<1> SUFFICES ASSUME TypeOK, Queues, PhaseInv, [Next]_vars
             PROVE  PhaseInv'
  OBVIOUS
<1> USE DEF PhaseInv, queue, channel
<1>1. CASE Poll
  BY <1>1 DEF Poll, Goto, Ready
<1>2. CASE HandleHangup
  BY <1>2 DEF HandleHangup, handleClose, update, Tell
<1>3. CASE handleRead \/ handleError
  BY <1>3 DEF handleRead, Read, handleError, handleClose, update, Tell
<1>4. CASE closeCallback \/ pendingDone \/ doPendingFunctors
  BY <1>4 DEF closeCallback, pendingDone, doPendingFunctors, Goto
<1>5. CASE connectEstablished
  BY <1>5 DEF connectEstablished, NextIs, update, Tell
<1>6. CASE RunSend \/ RunShutdown \/ RunUserFunctor
  BY <1>6 DEF RunSend, RunShutdown, RunUserFunctor, NextIs
<1>7. CASE connectDestroyed \/ setDisconnected
  BY <1>7 DEF connectDestroyed, setDisconnected, NextIs, update, Tell
<1>8. CASE remove
  BY <1>8 DEF remove, Goto, update
<1>9. CASE UserReturns
  BY <1>9 DEF UserReturns, Goto, TypeOK
<1>10. CASE retrieve \/ Peer \/ destroyServer \/ quit
  BY <1>10 DEF retrieve, Peer, destroyServer, quit
<1>11. ASSUME NEW t \in AllThreads, send(t) \/ shutdown(t) \/ FinishCall(t)
       PROVE  PhaseInv'
  BY <1>11 DEF send, shutdown, FinishCall, postSend, setDisconnecting, postShutdown
<1>12. CASE UNCHANGED vars
  BY <1>12 DEF vars
<1>13. QED
  BY <1>1, <1>2, <1>3, <1>4, <1>5, <1>6, <1>7, <1>8, <1>9, <1>10, <1>11, <1>12
     DEF Next, LoopStep, Stopped


\* The input buffer stays well formed.  (readv is never given more than one entry, so
\* that readFd never appends.)
LEMMA InputSteps ==
  ASSUME B!TypeOK,
         \/ B!readFd \/ B!PeerSends \/ B!PeerCloses
         \/ \E len \in 1 .. MaxBytes : B!retrieve(len)
         \/ eof' = TRUE /\ UNCHANGED <<buffer, inbox, n, produced, consumed>>
         \/ UNCHANGED input
  PROVE  B!TypeOK'
<1> USE SizeAssumption
<1>1. /\ buffer.size \in Nat /\ buffer.bytes \in [0 .. buffer.size - 1 -> Nat]
      /\ buffer.writer \in kCheapPrepend .. buffer.size
      /\ buffer.reader \in kCheapPrepend .. buffer.writer
      /\ inbox \in Nat /\ eof \in BOOLEAN /\ n \in Int
      /\ produced \in Nat /\ consumed \in Nat
  BY DEF B!TypeOK, B!WellFormed
<1>2. CASE UNCHANGED input
  BY <1>2 DEF input, B!TypeOK, B!WellFormed
<1>3. CASE B!PeerSends \/ B!PeerCloses
             \/ (eof' = TRUE /\ UNCHANGED <<buffer, inbox, n, produced, consumed>>)
  <2>1. UNCHANGED <<buffer, n, produced, consumed>>
    BY <1>3 DEF B!PeerSends, B!PeerCloses
  <2>2. inbox' \in Nat
    BY <1>1, <1>3 DEF B!PeerSends, B!PeerCloses
  <2>3. eof' \in BOOLEAN
    BY <1>1, <1>3, Zenon DEF B!PeerSends, B!PeerCloses
  <2>4. QED
    BY <1>1, <2>1, <2>2, <2>3 DEF B!TypeOK, B!WellFormed
<1>4. ASSUME NEW len \in 1 .. MaxBytes, B!retrieve(len)
      PROVE  B!TypeOK'
  <2>1. UNCHANGED <<inbox, eof, n, produced>>
    BY <1>4 DEF B!retrieve
  <2>2. CASE len < B!readableBytes(buffer)
    <3>1. buffer' = B!Indices(buffer, buffer.reader + len, buffer.writer)
          /\ consumed' = consumed + len
      <4> HIDE SizeAssumption
      <4>1. QED
        BY <1>4, <2>2, Zenon DEF B!retrieve
    <3>2. buffer.reader + len \in kCheapPrepend .. buffer.writer /\ consumed + len \in Nat
      <4>1. len \in Nat /\ len < buffer.writer - buffer.reader
        BY <1>1, <2>2 DEF B!readableBytes
      <4>2. /\ kCheapPrepend \in Nat /\ buffer.writer \in Int /\ consumed \in Nat
            /\ buffer.reader \in kCheapPrepend .. buffer.writer
        BY <1>1
      <4>3. buffer.reader \in Int /\ buffer.reader + len \in kCheapPrepend .. buffer.writer
        BY <4>1, <4>2
      <4>4. QED
        BY <4>1, <4>2, <4>3
    <3>3. QED
      BY <1>1, <2>1, <3>1, <3>2 DEF B!TypeOK, B!WellFormed, B!Indices
  <2>3. CASE ~(len < B!readableBytes(buffer))
    <3>1. buffer' = B!Indices(buffer, kCheapPrepend, kCheapPrepend) /\ consumed' = produced
      BY <1>4, <2>3, Zenon DEF B!retrieve, B!retrieveAll
    <3>2. /\ buffer'.size = buffer.size /\ buffer'.bytes = buffer.bytes
          /\ buffer'.reader = kCheapPrepend /\ buffer'.writer = kCheapPrepend
      BY <3>1 DEF B!Indices
    <3>3. kCheapPrepend \in kCheapPrepend .. buffer.size /\ kCheapPrepend \in kCheapPrepend .. kCheapPrepend
      BY <1>1
    <3>4. B!WellFormed(buffer)'
      BY <1>1, <3>2, <3>3 DEF B!WellFormed
    <3>5. QED
      BY <1>1, <2>1, <3>1, <3>4 DEF B!TypeOK
  <2>4. QED
    BY <2>2, <2>3
<1>5. CASE B!readFd
  <2>1. PICK got \in B!ReadvReturns :
          /\ n' = got
          /\ IF got <= 0
             THEN UNCHANGED <<buffer, inbox, produced>>
             ELSE /\ buffer' = B!Received(buffer, produced + 1, got)
                  /\ inbox' = inbox - got
                  /\ produced' = produced + got
          /\ UNCHANGED <<eof, consumed>>
    BY <1>5 DEF B!readFd
  <2>2. CASE got <= 0
    <3>1. got \in Int
      BY <1>1 DEF B!ReadvReturns
    <3>2. QED
      BY <1>1, <2>1, <2>2, <3>1 DEF B!TypeOK, B!WellFormed
  <2>3. CASE ~(got <= 0)
    <3>1. /\ got \in 1 .. inbox /\ got <= buffer.size - buffer.writer
      BY <1>1, <2>3 DEF B!ReadvReturns, B!Room, B!iovcnt, B!writableBytes
    <3>2. buffer' = B!Store(buffer, produced + 1, got)
      BY <2>1, <2>3, <3>1 DEF B!Received, B!writableBytes
    <3>3. /\ buffer'.reader = buffer.reader /\ buffer'.writer = buffer.writer + got
          /\ buffer'.size = buffer.size
          /\ buffer'.bytes = [i \in 0 .. buffer.size - 1 |->
                                IF i \in buffer.writer .. buffer.writer + got - 1
                                THEN produced + 1 + i - buffer.writer
                                ELSE buffer.bytes[i]]
      BY <3>2 DEF B!Store
    <3>4. \A i \in 0 .. buffer.size - 1 :
            (IF i \in buffer.writer .. buffer.writer + got - 1
             THEN produced + 1 + i - buffer.writer ELSE buffer.bytes[i]) \in Nat
      <4> TAKE i \in 0 .. buffer.size - 1
      <4>1. buffer.bytes[i] \in Nat
        BY <1>1
      <4>2. i \in buffer.writer .. buffer.writer + got - 1 =>
              produced + 1 + i - buffer.writer \in Nat
        <5>1. produced \in Nat /\ buffer.writer \in Int /\ i \in Int
          BY <1>1
        <5>2. QED
          BY <5>1
      <4>3. QED
        BY <4>1, <4>2
    <3>5. buffer'.bytes \in [0 .. buffer.size - 1 -> Nat]
      BY <3>3, <3>4, Zenon
    <3>6. /\ buffer.writer + got \in kCheapPrepend .. buffer.size
          /\ buffer.reader \in kCheapPrepend .. buffer.writer + got
          /\ inbox - got \in Nat /\ produced + got \in Nat /\ got \in Int
      <4>1. /\ buffer.size \in Nat /\ produced \in Nat /\ inbox \in Nat /\ kCheapPrepend \in Nat
            /\ buffer.writer \in kCheapPrepend .. buffer.size
            /\ buffer.reader \in kCheapPrepend .. buffer.writer
        BY <1>1
      <4>2. got \in Nat
        BY <3>1, <4>1
      <4>3. QED
        BY <3>1, <4>1, <4>2
    <3>7. B!WellFormed(buffer)'
      BY <1>1, <3>3, <3>5, <3>6 DEF B!WellFormed
    <3>8. QED
      BY <1>1, <2>1, <2>3, <3>6, <3>7 DEF B!TypeOK
  <2>4. QED
    BY <2>2, <2>3
<1>6. QED
  BY <1>2, <1>3, <1>4, <1>5

\* Every step does to the input buffer what Buffer has, or nothing.
LEMMA NextInput == TypeOK /\ [Next]_vars => B!TypeOK'
<1> SUFFICES ASSUME TypeOK, [Next]_vars
             PROVE  B!TypeOK'
  OBVIOUS
<1>1. B!TypeOK
  BY DEF TypeOK
<1>2. CASE UNCHANGED input
  BY <1>1, <1>2, InputSteps
<1>3. CASE handleRead \/ retrieve
  BY <1>1, <1>3, InputSteps DEF handleRead, retrieve, Read
<1>4. CASE Peer
  BY <1>1, <1>4, InputSteps DEF Peer
<1>5. QED
  BY <1>2, <1>3, <1>4
     DEF Next, LoopStep, FinishCall, Poll, HandleHangup, closeCallback,
         doPendingFunctors, pendingDone, connectEstablished, NextIs, RunSend,
         RunShutdown, RunUserFunctor, connectDestroyed, remove, UserReturns, send,
         shutdown, postSend, setDisconnecting, postShutdown, destroyServer, vars,
         handleError, setDisconnected, quit, Stopped

\* The callbacks are recorded in order.
LEMMA TellEffect ==
  ASSUME Queues, NEW what \in {"up", "message", "down"}, NEW next, Tell(what, next)
  PROVE  told' \in Seq({"up", "message", "down"})
BY AppendProperties DEF Queues, Tell

\* The queues hold functors.
LEMMA NextQueues == TypeOK /\ Queues /\ PhaseInv /\ [Next]_vars => Queues'
<1> SUFFICES ASSUME TypeOK, Queues, PhaseInv, [Next]_vars
             PROVE  Queues'
  OBVIOUS
<1>1. pendingFunctors_' \in Seq(Functors) /\ functors' \in Seq(Functors)
      /\ wire' \in Seq(Functors)
  BY QueueSteps DEF Queues, Quiet, Runs, Posts, Sends, Shuts, Writes, destroyServer,
                    postShutdown
<1>2. told' \in Seq({"up", "message", "down"})
  <2>1. CASE UNCHANGED told
    BY <2>1 DEF Queues
  <2>2. CASE HandleHangup \/ handleRead \/ connectEstablished \/ setDisconnected
    BY <2>1, <2>2, TellEffect DEF HandleHangup, handleRead, handleClose,
                                  connectEstablished, setDisconnected, Read
  <2>3. QED
    BY <2>1, <2>2
       DEF Next, LoopStep, FinishCall, Poll, closeCallback, doPendingFunctors,
           pendingDone, RunSend, RunShutdown, RunUserFunctor, connectDestroyed, remove,
           UserReturns, retrieve, send, shutdown, postSend, setDisconnecting,
           postShutdown, Peer,
           destroyServer, vars, handleError, setDisconnected, quit, Stopped
<1>3. QED
  BY <1>1, <1>2 DEF Queues

\* What a sequence of functors holds are functors.
LEMMA FunctorTyped ==
  ASSUME NEW q \in Seq(Functors)
  PROVE  \A i \in DOMAIN q : Functor(q[i])
<1>1. \A f \in Functors : Functor(f)
  BY DEF Functors, Functor, Kinds
<1>2. \A i \in DOMAIN q : q[i] \in Functors
  BY LenProperties
<1>3. QED
  BY <1>1, <1>2


\* Every variable keeps its kind.
LEMMA NextTypeOK == TypeOK /\ Queues /\ PhaseInv /\ [Next]_vars => TypeOK'
<1> SUFFICES ASSUME TypeOK, Queues, PhaseInv, [Next]_vars
             PROVE  TypeOK'
  OBVIOUS
<1>1. B!TypeOK'
  BY NextInput
<1>2. (/\ \A i \in DOMAIN pendingFunctors_ : Functor(pendingFunctors_[i])
       /\ \A i \in DOMAIN functors : Functor(functors[i])
       /\ \A i \in DOMAIN wire : Functor(wire[i]))'
  BY NextQueues, FunctorTyped DEF Queues
<1>3. shutBy' \subseteq AllThreads
  BY QueueSteps DEF TypeOK, Functors, Quiet, Runs, Sends, postSend, Shuts, postShutdown,
                    destroyServer
<1> DEFINE Kept ==
             /\ state_' \in {"kConnecting", "kConnected", "kDisconnecting", "kDisconnected"}
             /\ pc' \in {"poll", "dispatch", "close", "user", "run", "destroy", "remove",
                        "stopped"}
             /\ after' \in {"dispatch", "close", "run", "remove"}
             /\ revents' \subseteq {"IN", "HUP", "ERR"}
             /\ call' \in [AllThreads -> {"idle", "sending", "shutting", "posting"}]
             /\ reset' \in BOOLEAN /\ quit_' \in BOOLEAN
             /\ sent' \in Nat
             /\ destroyed' \in {"no", "posted", "done"}
<1>4. polled' \in BOOLEAN
  <2>1. CASE UNCHANGED polled
    BY <2>1 DEF TypeOK
  <2>2. CASE HandleHangup \/ handleRead \/ connectEstablished \/ setDisconnected \/ remove
    BY <2>1, <2>2, Zenon DEF HandleHangup, handleRead, handleClose, connectEstablished,
                             setDisconnected, remove, update, channel, Read
  <2>3. QED
    BY <2>1, <2>2
       DEF Next, LoopStep, FinishCall, Poll, closeCallback, doPendingFunctors,
           pendingDone, RunSend, RunShutdown, RunUserFunctor, connectDestroyed,
           UserReturns, retrieve, send, shutdown, postSend, setDisconnecting,
           postShutdown, Peer,
           destroyServer, vars, channel, handleError, setDisconnected, quit, Stopped
<1>5. Kept
  <2>0. /\ state_ \in {"kConnecting", "kConnected", "kDisconnecting", "kDisconnected"}
        /\ pc \in {"poll", "dispatch", "close", "user", "run", "destroy", "remove",
                  "stopped"}
        /\ after \in {"dispatch", "close", "run", "remove"}
        /\ revents \subseteq {"IN", "HUP", "ERR"}
        /\ call \in [AllThreads -> {"idle", "sending", "shutting", "posting"}]
        /\ reset \in BOOLEAN /\ quit_ \in BOOLEAN
        /\ sent \in Nat
        /\ destroyed \in {"no", "posted", "done"}
    BY DEF TypeOK
  <2> USE <2>0 DEF channel, fault, server
  <2>1. CASE Poll
    BY <2>1 DEF Poll, Goto, Ready
  <2>2. CASE HandleHangup
    BY <1>4, <2>2 DEF HandleHangup, handleClose, Tell
  <2>3. CASE handleRead \/ handleError
    BY <1>4, <2>3 DEF handleRead, Read, handleError, handleClose, Tell
  <2>4. CASE closeCallback \/ pendingDone \/ doPendingFunctors
    BY <2>4 DEF closeCallback, pendingDone, doPendingFunctors, Goto
  <2>5. CASE connectEstablished
    BY <1>4, <2>5 DEF connectEstablished, NextIs, Tell
  <2>6. CASE RunSend \/ RunShutdown \/ RunUserFunctor
    <3>1. /\ pc' \in {"poll", "run", "user", "close"} /\ after' \in {after, "run"}
          /\ UNCHANGED <<state_, revents, call, reset, quit_, sent, destroyed>>
      BY <2>6 DEF RunSend, RunShutdown, RunUserFunctor, NextIs
    <3>2. QED
      BY <3>1
  <2>7. CASE connectDestroyed \/ setDisconnected
    BY <1>4, <2>7 DEF connectDestroyed, setDisconnected, NextIs, Tell
  <2>8. CASE remove
    BY <1>4, <2>8 DEF remove, Goto
  <2>9. CASE UserReturns
    BY <2>9 DEF UserReturns, Goto
  <2>10. CASE retrieve \/ destroyServer \/ quit
    <3>1. /\ UNCHANGED <<state_, pc, after, revents, call, sent>>
          /\ destroyed' \in {destroyed, "posted"}
      BY <2>10 DEF retrieve, destroyServer, quit
    <3>2. reset' \in BOOLEAN /\ quit_' \in BOOLEAN
      BY <2>10, Zenon DEF retrieve, destroyServer, quit
    <3>3. QED
      BY <3>1, <3>2, Zenon
  <2>11. CASE Peer
    <3>1. UNCHANGED <<state_, pc, after, revents, call, sent, destroyed, quit_>>
      BY <2>11 DEF Peer
    <3>2. reset' \in BOOLEAN
      BY <2>11, Zenon DEF Peer
    <3>3. QED
      BY <3>1, <3>2, Zenon
  <2>12. ASSUME NEW t \in AllThreads, send(t) \/ shutdown(t) \/ setDisconnecting(t)
         PROVE  Kept
    <3>1. /\ UNCHANGED <<pc, after, revents, reset, quit_, sent, destroyed>>
          /\ state_' \in {state_, "kDisconnecting"}
      BY <2>12 DEF send, shutdown, setDisconnecting, Enter
    <3>2. PICK x \in {"idle", "sending", "shutting", "posting"} :
            call' = [call EXCEPT ![t] = x]
      BY <2>12 DEF send, shutdown, setDisconnecting, Enter
    <3>3. QED
      BY <3>1, <3>2
  <2>13. ASSUME NEW t \in AllThreads, postSend(t) \/ postShutdown(t)
         PROVE  Kept
    <3>1. CASE postSend(t)
      BY <3>1 DEF postSend, Enter
    <3>2. CASE postShutdown(t)
      BY <3>2 DEF postShutdown, Enter
    <3>3. QED
      BY <2>13, <3>1, <3>2
  <2>14. CASE UNCHANGED vars
    BY <2>14 DEF vars
  <2>15. QED
    BY <2>1, <2>2, <2>3, <2>4, <2>5, <2>6, <2>7, <2>8, <2>9, <2>10, <2>11, <2>12,
       <2>13, <2>14 DEF Next, LoopStep, FinishCall, Stopped
<1>6. error' \in BOOLEAN
  <2>1. CASE UNCHANGED error
    BY <2>1 DEF TypeOK
  <2>2. CASE HandleHangup \/ handleError \/ Read
    BY <2>1, <2>2, Zenon DEF HandleHangup, handleError, Read, fault
  <2>3. ASSUME NEW m, sendInLoop(m)
        PROVE  error' \in BOOLEAN
    BY <2>1, <2>3 DEF sendInLoop
  <2>4. ASSUME NEW t \in AllThreads, postSend(t)
        PROVE  error' \in BOOLEAN
    BY <2>1, <2>3, <2>4 DEF postSend
  <2>5. CASE Peer
    BY <2>1, <2>5, Zenon DEF Peer, fault
  <2>6. CASE RunSend
    BY <2>3, <2>6 DEF RunSend
  <2>7. QED
    BY <2>1, <2>2, <2>4, <2>5, <2>6
       DEF Next, LoopStep, FinishCall, Poll, handleRead, closeCallback,
           doPendingFunctors, pendingDone, connectEstablished, RunShutdown,
           RunUserFunctor, connectDestroyed, setDisconnected, remove, UserReturns,
           retrieve, send, shutdown, setDisconnecting, postShutdown, destroyServer,
           quit, Stopped, vars, fault, Read, handleError
<1>7. QED
  BY <1>1, <1>2, <1>3, <1>4, <1>5, <1>6, NextPhaseInv DEF TypeOK, PhaseInv

-------------------------------------------------------------------------------
(***************************************************************************)
(* The life of the connection.                                             *)
(***************************************************************************)

\* What happens to the connection is told: the steps that tell nothing leave it as it
\* is, but for a shutdown().
LEMMA TellSteps ==
  ASSUME [Next]_vars, ~HandleHangup, ~handleRead, ~connectEstablished, ~setDisconnected,
         ~remove
  PROVE  /\ UNCHANGED <<told, events_, polled>>
         /\ destroyed' = destroyed \/ destroyServer
         /\ state_' = state_ \/ \E t \in AllThreads : setDisconnecting(t)
BY DEF Next, LoopStep, FinishCall, Poll, closeCallback, doPendingFunctors, pendingDone,
       RunSend, RunShutdown, RunUserFunctor, connectDestroyed, UserReturns, retrieve,
       send, shutdown, postSend, setDisconnecting, postShutdown, Peer, destroyServer,
       vars, channel, server, handleError, setDisconnected, quit, Stopped

\* What an Append comes to.
LEMMA AppendEqual ==
  ASSUME NEW S, NEW a \in Seq(S), NEW w \in S, NEW b \in Seq(S), Len(b) = Len(a) + 1,
         \A i \in 1 .. Len(a) : b[i] = a[i], b[Len(a) + 1] = w
  PROVE  Append(a, w) = b
<1>1. /\ Append(a, w) \in Seq(S) /\ Len(Append(a, w)) = Len(a) + 1
      /\ \A i \in 1 .. Len(a) : Append(a, w)[i] = a[i]
      /\ Append(a, w)[Len(a) + 1] = w
  BY AppendProperties
<1>2. Len(a) \in Nat
  BY LenProperties
<1>3. \A i \in 1 .. Len(b) : Append(a, w)[i] = b[i]
  BY <1>1, <1>2
<1>4. QED
  BY <1>1, <1>3, SeqEqual

\* The reports of a connection that is up.
LEMMA Reports ==
  /\ \A w \in {"up", "message", "down"} : Append(<<>>, w) = <<w>>
  /\ Append(<<"up">>, "message") = <<"up", "message">>
  /\ Append(<<"up">>, "down") = <<"up", "down">>
  /\ Append(<<"up", "message">>, "down") = <<"up", "message", "down">>
  /\ <<"up">> # <<>> /\ <<"up", "message">> # <<>>
<1> DEFINE S == {"up", "message", "down"}
<1>1. /\ <<>> \in Seq(S) /\ <<"up">> \in Seq(S) /\ <<"up", "message">> \in Seq(S)
      /\ <<"up", "down">> \in Seq(S) /\ <<"up", "message", "down">> \in Seq(S)
      /\ \A w \in S : <<w>> \in Seq(S)
  OBVIOUS
<1>2. \A w \in S : Append(<<>>, w) = <<w>>
  BY <1>1, AppendProperties, SeqEqual
<1>3. Append(<<"up">>, "message") = <<"up", "message">>
  <2> DEFINE a == <<"up">>
             b == <<"up", "message">>
  <2>1. /\ a \in Seq(S) /\ b \in Seq(S) /\ "message" \in S
        /\ Len(a) = 1 /\ Len(b) = 2 /\ b[2] = "message"
        /\ \A i \in 1 .. 1 : b[i] = a[i]
    BY <1>1
  <2> HIDE DEF a, b, S
  <2>2. Len(b) = Len(a) + 1 /\ b[Len(a) + 1] = "message" /\ \A i \in 1 .. Len(a) : b[i] = a[i]
    BY <2>1
  <2>3. Append(a, "message") = b
    BY <2>1, <2>2, AppendEqual
  <2>4. QED
    BY <2>3 DEF a, b
<1>4. Append(<<"up">>, "down") = <<"up", "down">>
  <2> DEFINE a == <<"up">>
             b == <<"up", "down">>
  <2>1. /\ a \in Seq(S) /\ b \in Seq(S) /\ "down" \in S
        /\ Len(a) = 1 /\ Len(b) = 2 /\ b[2] = "down"
        /\ \A i \in 1 .. 1 : b[i] = a[i]
    BY <1>1
  <2> HIDE DEF a, b, S
  <2>2. Len(b) = Len(a) + 1 /\ b[Len(a) + 1] = "down" /\ \A i \in 1 .. Len(a) : b[i] = a[i]
    BY <2>1
  <2>3. Append(a, "down") = b
    BY <2>1, <2>2, AppendEqual
  <2>4. QED
    BY <2>3 DEF a, b
<1>5. Append(<<"up", "message">>, "down") = <<"up", "message", "down">>
  <2> DEFINE a == <<"up", "message">>
             b == <<"up", "message", "down">>
  <2>1. /\ a \in Seq(S) /\ b \in Seq(S) /\ "down" \in S
        /\ Len(a) = 2 /\ Len(b) = 3 /\ b[3] = "down"
        /\ \A i \in 1 .. 2 : b[i] = a[i]
    BY <1>1
  <2> HIDE DEF a, b, S
  <2>2. Len(b) = Len(a) + 1 /\ b[Len(a) + 1] = "down" /\ \A i \in 1 .. Len(a) : b[i] = a[i]
    BY <2>1
  <2>3. Append(a, "down") = b
    BY <2>1, <2>2, AppendEqual
  <2>4. QED
    BY <2>3 DEF a, b
<1>6. QED
  BY <1>2, <1>3, <1>4, <1>5

\* Being told that the connection is down, while it is up.
LEMMA ClosesUp ==
  ASSUME Up, NEW next, Tell("down", next), update({})
  PROVE  IsDown'
<1>1. told' = Append(told, "down")
  BY DEF Tell
<1>2. told' \in {<<"up", "down">>, <<"up", "message", "down">>}
  BY <1>1, Reports DEF Up
<1>3. QED
  BY <1>2 DEF Up, IsDown, update

\* Who was told once is not told nothing again.
LEMMA ToldStays ==
  ASSUME Queues, [Next]_vars, told # <<>>
  PROVE  told' # <<>>
<1>1. ASSUME NEW what \in {"up", "message", "down"}, NEW next, Tell(what, next)
      PROVE  told' # <<>>
  BY <1>1, AppendProperties DEF Tell, Queues
<1>2. CASE HandleHangup \/ handleRead \/ connectEstablished \/ setDisconnected
  BY <1>1, <1>2 DEF HandleHangup, handleRead, handleClose, connectEstablished,
                    setDisconnected, Read
<1>3. CASE remove
  BY <1>3 DEF remove
<1>4. QED
  BY <1>2, <1>3, TellSteps

\* Before connectEstablished, only the loop's empty rounds, the peer and the server's
\* destructor take steps.
LEMMA UntoldSteps ==
  ASSUME TypeOK, Queues, PhaseInv, told = <<>>, Untold, [Next]_vars
  PROVE  \/ Quiet /\ UNCHANGED <<state_, channel, told, destroyed, call>>
                  /\ pc' \in {"poll", "dispatch", "run", "stopped"}
         \/ connectEstablished
         \/ destroyServer
<1>1. revents = {} /\ pc \in {"poll", "dispatch", "run", "stopped"}
  BY DEF PhaseInv, Untold
<1>2. ~(HandleHangup \/ handleError \/ handleRead \/ closeCallback \/ setDisconnected
          \/ remove \/ UserReturns \/ retrieve)
  BY <1>1 DEF HandleHangup, Hangup, handleError, handleRead, Read, closeCallback,
              setDisconnected, remove, UserReturns, retrieve, Goto
<1>3. \A t \in AllThreads : ~(send(t) \/ shutdown(t) \/ FinishCall(t))
  BY DEF Untold, send, shutdown, MayCall, FinishCall, postSend, setDisconnecting,
         postShutdown
<1>4. ASSUME NEW f, NextIs(f), f # "connectEstablished",
             RunSend \/ RunShutdown \/ RunUserFunctor \/ connectDestroyed
      PROVE  FALSE
  <2>1. PICK g \in Kinds : NextIs(g) /\ Runs(g)
    BY <1>4, RunSteps
  <2>2. f = g
    BY <1>4, <2>1 DEF NextIs
  <2>3. QED
    BY <1>4, <2>1, <2>2 DEF Runs, Untold
<1>5. ~(RunSend \/ RunShutdown \/ RunUserFunctor \/ connectDestroyed)
  BY <1>4 DEF RunSend, RunShutdown, RunUserFunctor, connectDestroyed
<1>6. CASE Poll \/ pendingDone
  BY <1>6 DEF Poll, pendingDone, Goto, Quiet, Queues, Queue, queue, server
<1>7. CASE doPendingFunctors
  BY <1>7, SwapEffect DEF doPendingFunctors, Goto, Quiet, server
<1>8. CASE Peer \/ quit
  BY <1>1, <1>8 DEF Peer, quit, Quiet, Queues, Queue, queue, server
<1>9. CASE UNCHANGED vars
  BY <1>1, <1>9 DEF vars, Quiet, Queues, Queue, queue, server
<1>10. QED
  BY <1>2, <1>3, <1>5, <1>6, <1>7, <1>8, <1>9 DEF Next, LoopStep, Stopped


\* connectEstablished is not queued again.
LEMMA NotEstablishedAgain ==
  ASSUME TypeOK, Queues, PhaseInv, [Next]_vars,
         \A i \in 1 .. Len(Queue) : i # 1 => Queue[i].kind # "connectEstablished",
         connectEstablished \/ (\A i \in 1 .. Len(Queue) : Queue[i].kind # "connectEstablished")
  PROVE  \A i \in 1 .. Len(Queue') : Queue'[i].kind # "connectEstablished"
<1> DEFINE k == "connectEstablished"
<1>1. Len(Queue) \in Nat
  BY QueueTyped DEF Queue, Queues
<1>2. ASSUME Old(Queue, Queue', 1, k)
      PROVE  \A i \in 1 .. Len(Queue') : Queue'[i].kind # k
  <2> SUFFICES ASSUME NEW i \in 1 .. Len(Queue'), Queue'[i].kind = k
               PROVE  FALSE
    OBVIOUS
  <2>1. i + 1 \in 1 .. Len(Queue) /\ i + 1 # 1 /\ Queue'[i] = Queue[i + 1]
    BY <1>2 DEF Old
  <2>2. QED
    BY <2>1
<1>3. CASE connectEstablished
  <2>1. PICK f \in Kinds : NextIs(f) /\ Runs(f)
    BY <1>3, RunSteps
  <2>2. Old(Queue, Queue', 1, k)
    BY <2>1, Earlier, UserFunctorForms DEF Runs
  <2>3. QED
    BY <1>2, <2>2
<1>4. CASE \A i \in 1 .. Len(Queue) : Queue[i].kind # k
  <2>1. ASSUME Old(Queue, Queue', 0, k)
        PROVE  \A i \in 1 .. Len(Queue') : Queue'[i].kind # k
    <3> SUFFICES ASSUME NEW i \in 1 .. Len(Queue'), Queue'[i].kind = k
                 PROVE  FALSE
      OBVIOUS
    <3>1. i + 0 \in 1 .. Len(Queue) /\ Queue'[i] = Queue[i + 0]
      BY <2>1 DEF Old
    <3>2. QED
      BY <1>4, <3>1
  <2>2. ASSUME NEW f \in Kinds, Runs(f)
        PROVE  Old(Queue, Queue', 1, k)
    BY <2>2, Earlier, UserFunctorForms DEF Runs
  <2>3. CASE Quiet
    BY <1>4, <2>3 DEF Quiet
  <2>4. ASSUME NEW t \in AllThreads, Sends(t)
        PROVE  Old(Queue, Queue', 0, k)
    <3>1. CASE t = LoopThread
      BY <2>4, <3>1, Earlier, UserFunctorForms DEF Sends, Posts
    <3>2. CASE t # LoopThread
      <4>1. Follows(Queue, Queue', 0, Messages(t))
        BY <2>4, <3>2 DEF Sends, Posts
      <4>2. QED
        BY <4>1, Earlier DEF Messages
    <3>3. QED
      BY <3>1, <3>2
  <2>5. ASSUME NEW t \in AllThreads, Shuts(t)
        PROVE  Old(Queue, Queue', 0, k)
    <3>1. CASE t = LoopThread
      BY <2>5, <3>1, Earlier DEF Shuts, Posts
    <3>2. CASE t # LoopThread
      <4>1. Follows(Queue, Queue', 0, {Call("shutdown", t)})
        BY <2>5, <3>2 DEF Shuts, Posts
      <4>2. Call("shutdown", t).kind = "shutdown"
        BY CallForms DEF Kinds
      <4>3. QED
        BY <4>1, <4>2, Earlier
    <3>3. QED
      BY <3>1, <3>2
  <2>6. CASE destroyServer /\ Posts({Call("connectDestroyed", LoopThread)})
    <3>1. Old(Queue, Queue', 0, k)
      BY <2>6, Earlier, CallForms DEF Posts, Kinds
    <3>2. QED
      BY <2>1, <3>1
  <2>7. QED
    BY <1>2, <2>1, <2>2, <2>3, <2>4, <2>5, <2>6, QueueSteps
<1>5. QED
  BY <1>3, <1>4

\* The connection comes up when connectEstablished runs.
LEMMA ComesUp ==
  ASSUME TypeOK, Queues, told = <<>>, Untold, connectEstablished
  PROVE  /\ told' # <<>> /\ Up' /\ ~Down' /\ state_' = "kConnected"
<1>1. told' = Append(told, "up")
  BY DEF connectEstablished, Tell
<1>2. told' = <<"up">>
  BY <1>1, Reports
<1>3. events_' = {"IN"} /\ polled' /\ state_' = "kConnected"
  BY DEF connectEstablished, update, Untold
<1>4. ~Down'
  BY <1>2 DEF Down
<1>5. QED
  BY <1>2, <1>3, <1>4 DEF Up

\* Up to connectEstablished, everything is as newConnection left it.
LEMMA UntoldStays ==
  ASSUME TypeOK, Queues, PhaseInv, told = <<>>, Untold, [Next]_vars, ~connectEstablished
  PROVE  told' = <<>> /\ Untold'
<1>1. CASE /\ Quiet /\ UNCHANGED <<state_, channel, told, destroyed, call>>
           /\ pc' \in {"poll", "dispatch", "run", "stopped"}
  BY <1>1 DEF Quiet, Untold, channel
<1>2. CASE destroyServer
  <2>1. /\ pendingFunctors_' = Append(pendingFunctors_, Call("connectDestroyed", LoopThread))
        /\ functors' = functors /\ destroyed' = "posted"
        /\ UNCHANGED <<state_, events_, polled, pc, call, shutBy, wire, told>>
    BY <1>2 DEF destroyServer, channel
  <2>2. /\ Call("connectDestroyed", LoopThread) \in Functors
        /\ Call("connectDestroyed", LoopThread).kind = "connectDestroyed"
    BY CallForms DEF Kinds
  <2>3. /\ Len(Queue) \in Nat /\ Len(Queue') = Len(Queue) + 1
        /\ \A i \in 1 .. Len(Queue) : Queue'[i] = Queue[i]
        /\ Queue'[Len(Queue) + 1] = Call("connectDestroyed", LoopThread)
    BY <2>1, <2>2, PostEffect
  <2>4. Len(Queue') # 0 /\ Queue'[1].kind = "connectEstablished"
    BY <2>3 DEF Untold
  <2>5. \A i \in 2 .. Len(Queue') : Queue'[i].kind = "connectDestroyed"
    <3> TAKE i \in 2 .. Len(Queue')
    <3>1. i \in 2 .. Len(Queue) \/ i = Len(Queue) + 1
      BY <2>3
    <3>2. CASE i \in 2 .. Len(Queue)
      BY <2>3, <3>2 DEF Untold
    <3>3. CASE i = Len(Queue) + 1
      BY <2>2, <2>3, <3>3
    <3>4. QED
      BY <3>1, <3>2, <3>3
  <2>6. QED
    BY <2>1, <2>4, <2>5 DEF Untold
<1>3. QED
  BY <1>1, <1>2, UntoldSteps

\* A connection that is up stays up until it is told to be down; it is down for good.
LEMMA LifeSteps ==
  ASSUME TypeOK, Queues, PhaseInv, LifeInv, told # <<>>, [Next]_vars
  PROVE  destroyed' = "done" \/ Up' \/ IsDown'
<1>1. ~connectEstablished
  BY EstablishedOnce
<1>2. CASE ~HandleHangup /\ ~handleRead /\ ~setDisconnected /\ ~remove
  <2>1. UNCHANGED <<told, events_, polled>>
        /\ (destroyed' = destroyed \/ destroyServer)
        /\ (state_' = state_ \/ \E t \in AllThreads : setDisconnecting(t))
    BY <1>1, <1>2, TellSteps
  <2>2. destroyed = "done" => destroyed' = "done"
    BY <2>1 DEF destroyServer
  <2>3. state_' = state_ \/ state_' = "kDisconnecting"
    BY <2>1 DEF setDisconnecting
  <2>4. Up => Up'
    BY <2>1, <2>3 DEF Up
  <2>5. IsDown => IsDown'
    BY <2>1 DEF IsDown
  <2>6. QED
    BY <2>2, <2>4, <2>5 DEF LifeInv
<1>3. CASE remove
  BY <1>3 DEF remove
<1>4. CASE destroyed = "done" /\ (HandleHangup \/ handleRead \/ setDisconnected)
  BY <1>4 DEF HandleHangup, handleRead, Read, setDisconnected, server
<1>5. CASE Up /\ (HandleHangup \/ handleRead)
  <2>1. CASE handleClose
    BY <1>5, <2>1, ClosesUp DEF handleClose
  <2>2. CASE Tell("message", "dispatch") /\ UNCHANGED <<state_, channel>>
    <3>1. told' = told \/ (told = <<"up">> /\ told' = Append(told, "message"))
      <4>1. CASE told = <<"up">>
        BY <2>2, <4>1 DEF Tell
      <4>2. CASE told = <<"up", "message">>
        BY <2>2, <4>2 DEF Tell
      <4>3. QED
        BY <1>5, <4>1, <4>2 DEF Up
    <3>2. told' \in {<<"up">>, <<"up", "message">>}
      BY <1>5, <3>1, Reports DEF Up
    <3>3. QED
      BY <1>5, <2>2, <3>2 DEF Up, channel
  <2>3. CASE UNCHANGED <<state_, channel, told>>
    BY <1>5, <2>3 DEF Up, channel
  <2>4. QED
    BY <1>5, <2>1, <2>2, <2>3 DEF HandleHangup, handleRead, Read
<1>6. CASE setDisconnected /\ destroyed # "done"
  <2>1. Up
    BY <1>6 DEF setDisconnected, LifeInv
  <2>2. QED
    BY <1>6, <2>1, ClosesUp DEF setDisconnected
<1>7. CASE IsDown
  <2>1. revents = {}
    BY <1>7 DEF IsDown, PhaseInv
  <2>2. ~HandleHangup /\ ~handleRead
    BY <2>1 DEF HandleHangup, Hangup, handleRead, Read
  <2>3. QED
    BY <1>2, <1>3, <1>4, <1>6, <2>2
<1>8. QED
  BY <1>2, <1>3, <1>4, <1>5, <1>6, <1>7 DEF LifeInv

\* Once the user was told that it is down, the connection closes.
LEMMA DownCloses ==
  ASSUME TypeOK, Queues, PhaseInv, LifeInv, told # <<>>, [Next]_vars, Down'
  PROVE  state_' \in Closing
<1>1. ~connectEstablished
  BY EstablishedOnce
<1>2. CASE Down
  BY <1>2, ClosingStays DEF LifeInv, Closing
<1>3. ASSUME NEW what \in {"up", "message"}, NEW next, Tell(what, next), ~Down
      PROVE  FALSE
  <2>1. told' = told \/ told' = Append(told, what)
    BY <1>3 DEF Tell
  <2>2. told' = Append(told, what)
    BY <1>3, <2>1 DEF Down
  <2>3. told \in Seq({"up", "message", "down"})
    BY DEF Queues
  <2>4. /\ Len(told') = Len(told) + 1
        /\ \A i \in 1 .. Len(told) : told'[i] = told[i]
        /\ told'[Len(told) + 1] = what
    BY <2>2, <2>3, AppendProperties
  <2>5. Len(told) \in Nat /\ DOMAIN told = 1 .. Len(told) /\ DOMAIN told' = 1 .. Len(told')
    BY <2>2, <2>3, AppendProperties, LenProperties
  <2>6. QED
    BY <1>3, <2>4, <2>5 DEF Down
<1>4. CASE ~Down /\ UNCHANGED told
  BY <1>4 DEF Down
<1>5. CASE ~Down /\ (HandleHangup \/ handleRead \/ setDisconnected)
  BY <1>3, <1>4, <1>5 DEF HandleHangup, handleRead, setDisconnected, handleClose,
     Closing, Read
<1>6. CASE remove
  BY <1>2, <1>4, <1>6 DEF remove
<1>7. QED
  BY <1>1, <1>2, <1>4, <1>5, <1>6, TellSteps

\* A connection that connectDestroyed has found connected is up until it is taken down.
LEMMA DestroySteps ==
  ASSUME TypeOK, Queues, PhaseInv, LifeInv, told # <<>>, [Next]_vars, pc' = "destroy"
  PROVE  destroyed' = "done" \/ Up'
<1>1. ~connectEstablished
  BY EstablishedOnce
<1>2. ~HandleHangup /\ ~handleRead /\ ~setDisconnected /\ ~remove
  <2>1. ~handleClose /\ \A what, next : ~Tell(what, next)
    BY DEF handleClose, Tell
  <2>2. ~(handleRead /\ UNCHANGED pc)
    BY DEF handleRead, Read
  <2>3. QED
    BY <2>1, <2>2 DEF HandleHangup, handleRead, setDisconnected, remove, Goto, Read
<1>3. UNCHANGED <<told, events_, polled>>
      /\ (destroyed' = destroyed \/ destroyServer)
      /\ (state_' = state_ \/ \E t \in AllThreads : setDisconnecting(t))
  BY <1>1, <1>2, TellSteps
<1>4. destroyed = "done" => destroyed' = "done"
  BY <1>3 DEF destroyServer
<1>5. Up => Up'
  BY <1>3 DEF Up, setDisconnecting
<1>6. CASE connectDestroyed
  <2>1. state_ = "kConnected"
    BY <1>6 DEF connectDestroyed
  <2>2. ~IsDown
    BY <2>1 DEF IsDown, Down, LifeInv
  <2>3. QED
    BY <1>4, <1>5, <2>2 DEF LifeInv
<1>7. CASE pc = "destroy"
  BY <1>4, <1>5, <1>7 DEF LifeInv
<1>8. CASE UserReturns
  BY <1>8 DEF UserReturns, Goto, TypeOK
<1>9. QED
  BY <1>1, <1>2, <1>6, <1>7, <1>8
     DEF Next, LoopStep, FinishCall, Poll, handleError, closeCallback,
         doPendingFunctors, pendingDone, RunSend, RunShutdown, RunUserFunctor, retrieve,
         send, shutdown, postSend, setDisconnecting, postShutdown, Peer, destroyServer,
         quit, Stopped, Goto, vars, setDisconnected, connectDestroyed

\* The connection goes through its life in order.
LEMMA NextLifeInv == TypeOK /\ Queues /\ PhaseInv /\ LifeInv /\ [Next]_vars => LifeInv'
<1> SUFFICES ASSUME TypeOK, Queues, PhaseInv, LifeInv, [Next]_vars
             PROVE  LifeInv'
  OBVIOUS
<1> DEFINE NoneAgain == \A i \in 1 .. Len(Queue') : Queue'[i].kind # "connectEstablished"
<1>1. Len(Queue) \in Nat
  BY QueueTyped DEF Queue, Queues
<1>2. CASE told = <<>> /\ ~connectEstablished
  <2>1. told' = <<>> /\ Untold'
    BY <1>2, UntoldStays DEF LifeInv
  <2>2. ~Down'
    BY <2>1 DEF Down
  <2>3. pc' # "destroy"
    BY <2>1 DEF Untold
  <2>4. QED
    BY <2>1, <2>2, <2>3 DEF LifeInv
<1>3. CASE connectEstablished
  <2>1. told = <<>> /\ Untold
    BY <1>3, EstablishedOnce
  <2>2. NoneAgain
    <3>1. \A i \in 1 .. Len(Queue) : i # 1 => Queue[i].kind # "connectEstablished"
      BY <1>1, <2>1 DEF Untold
    <3>2. QED
      BY <1>3, <3>1, NotEstablishedAgain
  <2>3. QED
    BY <1>3, <2>1, <2>2, ComesUp DEF LifeInv, connectEstablished, Tell
<1>4. CASE told # <<>>
  <2>1. ~connectEstablished
    BY <1>4, EstablishedOnce
  <2>2. NoneAgain
    BY <1>4, NotEstablishedAgain DEF LifeInv
  <2>3. state_' # "kConnecting"
    BY <1>4, <2>1 DEF LifeInv, Next, LoopStep, FinishCall, Poll, HandleHangup, handleRead,
         handleClose, closeCallback, doPendingFunctors, pendingDone, RunSend,
         RunShutdown, RunUserFunctor, connectDestroyed, remove, UserReturns, retrieve,
         send, shutdown, postSend, setDisconnecting, postShutdown, Peer, destroyServer,
         vars, Read, handleError, setDisconnected, quit, Stopped
  <2>4. QED
    BY <1>4, <2>2, <2>3, LifeSteps, DestroySteps, DownCloses, ToldStays DEF LifeInv,
       Closing
<1>5. QED
  BY <1>2, <1>3, <1>4


-------------------------------------------------------------------------------
(***************************************************************************)
(* The invariant and what follows from it.                                 *)
(***************************************************************************)

\* The connection starts as the invariant says.
LEMMA InitIInv == Init => IInv
<1> SUFFICES ASSUME Init
             PROVE  IInv
  OBVIOUS
<1> DEFINE f == Call("connectEstablished", LoopThread)
<1>1. f \in Functors /\ f.kind = "connectEstablished"
  BY CallForms DEF Kinds
<1>2. pendingFunctors_ = <<f>> /\ functors = <<>>
  BY DEF Init
<1> HIDE DEF f
<1>3. <<>> \in Seq(Functors) /\ Append(<<>>, f) = <<f>> /\ Len(<<>>) = 0
  <2>1. <<>> \in Seq(Functors) /\ Len(<<>>) = 0
    BY EmptySeq
  <2>2. QED
    BY <1>1, <2>1, AppendProperties, SeqEqual
<1>4. /\ <<f>> \in Seq(Functors) /\ Len(<<f>>) = 1 /\ <<f>>[1] = f
  BY <1>1
<1>5. Queue = <<f>>
  BY <1>2, <1>4, ConcatEmptySeq DEF Queue
<1>6. Queues
  <2>1. wire = <<>> /\ told = <<>>
    BY DEF Init
  <2>2. QED
    BY <1>2, <1>3, <1>4, <2>1, EmptySeq DEF Queues
<1>7. TypeOK
  <2>1. B!TypeOK
    <3>1. /\ buffer.reader = kCheapPrepend /\ buffer.writer = kCheapPrepend
          /\ buffer.size = kCheapPrepend + kInitialSize
          /\ buffer.bytes = [i \in 0 .. kCheapPrepend + kInitialSize - 1 |-> 0]
      BY DEF Init, B!Init
    <3>2. inbox = 0 /\ n = -1 /\ produced = 0 /\ consumed = 0
      BY DEF Init, B!Init
    <3>3. eof \in BOOLEAN
      BY Zenon DEF Init, B!Init
    <3>4. [i \in 0 .. kCheapPrepend + kInitialSize - 1 |-> 0]
            \in [0 .. kCheapPrepend + kInitialSize - 1 -> Nat]
      BY SizeAssumption
    <3>5. B!WellFormed(buffer)
      BY <3>1, <3>4, SizeAssumption DEF B!WellFormed
    <3>6. QED
      BY <3>2, <3>3, <3>5 DEF B!TypeOK
  <2>2. /\ \A i \in DOMAIN pendingFunctors_ : Functor(pendingFunctors_[i])
        /\ \A i \in DOMAIN functors : Functor(functors[i])
        /\ \A i \in DOMAIN wire : Functor(wire[i])
    BY <1>6, FunctorTyped DEF Queues
  <2>3. QED
    BY <2>1, <2>2 DEF Init, TypeOK
<1>8. PhaseInv
  BY DEF Init, PhaseInv
<1>9. Untold
  BY <1>1, <1>4, <1>5 DEF Init, Untold
<1>10. LifeInv
  BY <1>9 DEF Init, LifeInv, Down
<1>11. wire = <<>> /\ Len(wire) = 0 /\ shutBy = {} /\ \A t \in AllThreads : call[t] = "idle"
  BY <1>3 DEF Init
<1>12. OrderInv
  BY <1>1, <1>4, <1>5, <1>11 DEF OrderInv
<1>13. ShutInv
  BY <1>1, <1>4, <1>5, <1>11 DEF ShutInv, Shut, ShutdownQueued
<1>14. QED
  BY <1>6, <1>7, <1>8, <1>10, <1>12, <1>13 DEF IInv

\* Every step keeps the invariant.
LEMMA NextIInv == IInv /\ [Next]_vars => IInv'
BY NextTypeOK, NextQueues, NextPhaseInv, NextLifeInv, NextOrderInv, NextShutInv DEF IInv

\* The inductive invariant of the connection: the queue with the rest of the batch, the
\* life of the connection as the user was told of it, the order of messages in the queue
\* and on the wire, and what each thread's shutdown() has behind it.
THEOREM Invariance == Spec => []IInv
<1>1. Init => IInv
  BY InitIInv
<1>2. IInv /\ [Next]_vars => IInv'
  BY NextIInv
<1>3. QED
  BY <1>1, <1>2, PTL DEF Spec

\* Every variable holds a value of its kind, and the input buffer, which the handlers and
\* the user share, is well formed (TypeOK includes Buffer's).
THEOREM TypeCorrect == Spec => []TypeOK
<1>1. IInv => TypeOK
  BY DEF IInv
<1>2. QED
  BY <1>1, Invariance, PTL

\* However the peer's closing, the handlers, shutdown() and the server's destructor meet,
\* the user is told up, then of messages, then down once, and nothing after that
\* (handleRead, handleClose, connectEstablished, connectDestroyed).
THEOREM ReportedInOrder == Spec => []ToldInOrder
<1>1. IInv => ToldInOrder
  BY DEF IInv, LifeInv, Up, IsDown, ToldInOrder
<1>2. QED
  BY <1>1, Invariance, PTL

\* Messages of a thread are written in the order in which it sent them (send, sendInLoop).
THEOREM WrittenInOrder == Spec => []MessagesInOrder
<1>1. ASSUME IInv
      PROVE  MessagesInOrder
  <2>1. DOMAIN wire = 1 .. Len(wire)
    BY <1>1, LenProperties DEF IInv, Queues
  <2>2. QED
    BY <1>1, <2>1 DEF IInv, OrderInv, MessagesInOrder
<1>2. QED
  BY <1>1, Invariance, PTL

\* What is written is what a thread sends at once, from the loop's thread, or the message
\* at the head of the queue.
LEMMA WriteSteps ==
  ASSUME IInv, [Next]_vars, wire' # wire
  PROVE  /\ state_ # "kDisconnected"
         /\ \E m \in Functors :
              /\ Writes(m)
              /\ \/ m = Queue[1] /\ m.kind = "send" /\ Len(Queue) \in Nat \ {0}
                 \/ m.by = LoopThread /\ call[LoopThread] = "sending"
<1>1. ASSUME NEW f \in Kinds, Runs(f)
      PROVE  /\ Queue[1] \in Functors /\ Writes(Queue[1]) /\ Queue[1].kind = "send"
             /\ Len(Queue) \in Nat \ {0}
  BY <1>1 DEF Runs
<1>2. ASSUME NEW t \in AllThreads, Sends(t) \/ Shuts(t)
      PROVE  \E m \in Functors :
               Writes(m) /\ m.by = LoopThread /\ call[LoopThread] = "sending"
  <2>1. t = LoopThread /\ call[LoopThread] = "sending" /\ \E m \in Messages(t) : Writes(m)
    BY <1>2 DEF Sends, Shuts, postSend, postShutdown
  <2>2. QED
    BY <2>1 DEF Messages
<1>3. \E m \in Functors :
        /\ Writes(m)
        /\ \/ m = Queue[1] /\ m.kind = "send" /\ Len(Queue) \in Nat \ {0}
           \/ m.by = LoopThread /\ call[LoopThread] = "sending"
  BY <1>1, <1>2, QueueSteps DEF IInv, Quiet, destroyServer
<1>4. QED
  BY <1>3 DEF Writes

\* A thread's shutdown() never overtakes what it has sent: none of its messages is written
\* once it has shut the socket (shutdown, shutdownInLoop behind sendInLoop in the queue).
THEOREM ShutsLast == Spec => NoWriteAfterShutdown
<1>1. ASSUME IInv, [Next]_vars
      PROVE  [\A i \in DOMAIN wire' \ DOMAIN wire : wire'[i].by \notin shutBy]_vars
  <2>1. CASE wire' = wire
    BY <2>1
  <2>2. CASE wire' # wire
    <3>1. PICK m \in Functors :
            /\ Writes(m)
            /\ \/ m = Queue[1] /\ m.kind = "send" /\ Len(Queue) \in Nat \ {0}
               \/ m.by = LoopThread /\ call[LoopThread] = "sending"
      BY <1>1, <2>2, WriteSteps
    <3>2. DOMAIN wire = 1 .. Len(wire) /\ DOMAIN wire' = 1 .. Len(wire')
      BY <1>1, <3>1, LenProperties DEF IInv, Queues, Writes
    <3>3. \A i \in DOMAIN wire' \ DOMAIN wire : wire'[i].by = m.by
      BY <3>1, <3>2 DEF Writes
    <3>4. m.by \in AllThreads
      BY DEF Functors
    <3>5. m.by \notin shutBy
      <4>1. CASE m = Queue[1] /\ m.kind = "send" /\ Len(Queue) \in Nat \ {0}
        <5>1. 1 \in 1 .. Len(Queue)
          BY <4>1
        <5>2. QED
          BY <1>1, <3>4, <4>1, <5>1 DEF IInv, ShutInv
      <4>2. CASE m.by = LoopThread /\ call[LoopThread] = "sending"
        BY <1>1, <3>4, <4>2 DEF IInv, ShutInv, Shut
      <4>3. QED
        BY <3>1, <4>1, <4>2
    <3>6. QED
      BY <3>3, <3>5
  <2>3. QED
    BY <2>1, <2>2
<1>2. QED
  BY <1>1, Invariance, PTL DEF Spec, NoWriteAfterShutdown

\* After the user was told that the connection is down, nothing is written, unless a
\* late shutdown() has made a disconnecting connection of it again (sendInLoop).
THEOREM WritingEnds == Spec => GivesUpWriting
<1>1. ASSUME IInv, [Next]_vars
      PROVE  [Down /\ state_ # "kDisconnecting" => wire' = wire]_vars
  BY <1>1, WriteSteps DEF IInv, LifeInv
<1>2. QED
  BY <1>1, Invariance, PTL DEF Spec, GivesUpWriting


\* The input buffer is a Buffer: whatever handlers, user code and the peer do to it is a
\* step of that module, so that what is proved there holds of the connection's bytes: they
\* reach the user as the peer sent them, none lost, none twice (handleRead, readFd, retrieve).
THEOREM InputIsBuffer == Spec => B!Spec
<1>1. Init => B!Init
  BY DEF Init
<1>2. ASSUME IInv, [Next]_vars
      PROVE  [B!Next]_B!vars
  <2>1. CASE UNCHANGED input
    BY <2>1 DEF input, B!vars
  <2>2. CASE handleRead \/ retrieve
    BY <2>2 DEF handleRead, retrieve, B!Next, Read
  <2>3. CASE Peer
    <3>1. CASE B!PeerSends \/ B!PeerCloses
      BY <3>1 DEF B!Next
    <3>2. CASE eof' = TRUE /\ UNCHANGED <<buffer, inbox, n, produced, consumed>>
      <4>1. eof \/ ~eof
        OBVIOUS
      <4>2. CASE ~eof
        BY <3>2, <4>2 DEF B!Next, B!PeerCloses
      <4>3. CASE eof
        <5>1. eof = TRUE
          BY <1>2, <4>3, Zenon DEF IInv, TypeOK, B!TypeOK
        <5>2. QED
          BY <3>2, <5>1, Zenon DEF B!vars
      <4>4. QED
        BY <4>2, <4>3
    <3>3. QED
      BY <2>3, <3>1, <3>2 DEF Peer
  <2>4. QED
    BY <1>2, <2>1, <2>2, <2>3
       DEF Next, LoopStep, FinishCall, Poll, HandleHangup, closeCallback,
           doPendingFunctors, pendingDone, connectEstablished, NextIs, RunSend,
           RunShutdown, RunUserFunctor, connectDestroyed, remove, UserReturns, send,
           shutdown, postSend, setDisconnecting, postShutdown, destroyServer, vars,
           handleError, setDisconnected, quit, Stopped
<1>3. QED
  BY <1>1, <1>2, Invariance, PTL DEF Spec, B!Spec
================================================================================
