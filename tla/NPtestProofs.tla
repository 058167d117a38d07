------------------------------ MODULE NPtestProofs ------------------------------
(***************************************************************************)
(* Proofs about the programs of NPtest, composed with their environment,   *)
(* for any number of clients, descriptors, slots, events and socket        *)
(* objects.  The reactor's are those of ReactorProofs.                     *)
(***************************************************************************)
EXTENDS NPtest, SequenceTheorems, FiniteSetTheorems, WellFoundedInduction, TLAPS

Reacts == INSTANCE ReactorProofs WITH at <- reactorAt

\* The last request of c.
Latest(c) == <<c, number[c] - 1>>

\* A client has at most one request that is not answered, in its inbox or in the
\* server, or one answer that it has not read: always its own last request.
Conversation(c) ==
  /\ inbox[c] # <<>> => inbox[c] = <<Latest(c)>> /\ outbox[c] = <<>>
  /\ outbox[c] # <<>> => outbox[c] = <<Latest(c)>>
  /\ at[c] \in {"absent", "new", "send"} => inbox[c] = <<>> /\ outbox[c] = <<>>

Conversations == \A c \in Clients : Conversation(c)

\* The client has connected, and is known to the server's side of the sockets.
Present(c) == c \in Clients /\ at[c] \in {"send", "recv", "gone"}

\* A client is in the backlog once, or has one descriptor, or none.
Placed ==
  /\ \A i \in 1 .. Len(backlog) : Present(backlog[i])
  /\ \A i, j \in 1 .. Len(backlog) : backlog[i] = backlog[j] => i = j
  /\ \A f \in OpenFds : f <= limit /\ Present(peer[f]) /\ ~Queued(peer[f])
  /\ \A f, g \in OpenFds : peer[f] = peer[g] => f = g

\* The descriptors of the set readfds are the open ones, and the round visits only
\* those that can be read.
SelectInv ==
  program = "select" =>
    /\ readfds = OpenFds
    /\ \A f \in readfds : f <= maxFd
    /\ selectPc = "scan" => tmp \ {0} \subseteq ReadableFds

\* The table's entries are open descriptors, each once and below maxPos, all of them
\* if it is large enough.
Table ==
  /\ fds \in [1 .. slots -> Fds \cup {-1}] /\ maxPos \in 0 .. slots
  /\ \A s \in 1 .. slots : fds[s] # -1 => s <= maxPos /\ fds[s] \in OpenFds
  /\ \A r, s \in 1 .. slots : fds[r] = fds[s] /\ fds[r] # -1 => r = s
  /\ limit <= slots => \A f \in OpenFds : \E s \in 1 .. slots : fds[s] = f

\* The entries that poll() has reported can be read.
PollInv ==
  program = "poll" =>
    /\ Table
    /\ pollPc = "new" => \A s \in 1 .. polled : revents[s] => fds[s] \in ReadableFds
    /\ pollPc = "scan" => \A s \in todo : s <= polled => fds[s] \in ReadableFds

EpollInv ==
  program = "epoll" =>
    /\ interest = OpenFds
    /\ epollPc = "scan" => events \ {0} \subseteq ReadableFds

Threads == {c \in Clients : thread[c].at # "none"}

SlotOf(c) == thread[c].slot

\* Each thread of mulServer.c has a slot of its own with the descriptor of its client in
\* it, and the request it holds is the one its client waits for.
Slotted ==
  /\ \A c \in Threads : SlotOf(c) \in 1 .. slots /\ infos[SlotOf(c)] \in Fds
  /\ \A c \in Threads : Present(c) /\ ~Queued(c)
  /\ \A c, d \in Threads : SlotOf(c) = SlotOf(d) => c = d
  /\ \A c \in Mul!Talking : peer[infos[SlotOf(c)]] = c
  /\ \A f \in OpenFds : peer[f] \in Mul!Talking
  /\ \A c \in Clients : thread[c].on = IF thread[c].at = "recv" THEN c ELSE NoClient
  /\ \A c \in Clients :
       thread[c].at = "send" /\ at[c] # "gone" =>
         /\ at[c] = "recv" /\ inbox[c] = <<>> /\ outbox[c] = <<>>
         /\ thread[c].request = Latest(c)
  /\ mainPc = "accept" => next \in 1 .. limit /\ peer[next] = NoClient /\ pinfo # 0
  /\ pinfo = 0 => \A s \in 1 .. slots : infos[s] = -1

\* It is so until main overruns a slot.
MulInv == program = "mul" /\ ~overrun => Slotted

\* A slot that is in use is that of a thread, and main's is not in use.
Occupied ==
  /\ mainPc # "stopped" =>
       \A s \in 1 .. slots : infos[s] # -1 => \E c \in Threads : SlotOf(c) = s
  /\ mainPc = "accept" => infos[pinfo] = -1

\* With fewer clients than slots none is ever overrun.
RoomInv ==
  program = "mul" /\ Cardinality(Clients) < slots => ~overrun /\ Occupied

Places == {"none", "call", "recv", "send", "close", "free"}

\* What a thread's buffer holds.
Requests == Messages \cup {Mul!NoRequest}

\* A thread's state.
ThreadStates ==
  [at : Places, slot : 0 .. slots, on : Clients \cup {NoClient}, request : Requests]

MulTyped ==
  /\ infos \in [1 .. slots -> Fds \cup {-1}]
  /\ mainPc \in {"search", "accept", "stopped"}
  /\ pinfo \in 0 .. slots
  /\ next \in Fds \cup {0}
  /\ thread \in [Clients -> ThreadStates]
  /\ overrun \in BOOLEAN
  /\ slots \in Nat \ {0}

SocketInv == SocketsTypeOK /\ Conversations /\ Placed

HandleInv == Handle!TypeOK /\ Handle!OneOwner

IInv ==
  /\ program \in Programs
  /\ SocketInv
  /\ Select!TypeOK /\ SelectInv
  /\ Poll!TypeOK /\ PollInv
  /\ Epoll!TypeOK /\ EpollInv
  /\ MulTyped /\ MulInv
  /\ Simple!TypeOK
  /\ Reacts!Inv
  /\ HandleInv

USE NoClientAssumption, LimitAssumption

-------------------------------------------------------------------------------
(***************************************************************************)
(* Least elements.                                                         *)
(***************************************************************************)

\* A nonempty set of natural numbers has a least element, and it is Min.
LEMMA MinIn ==
  ASSUME NEW S \in SUBSET Nat, S # {}
  PROVE  Min(S) \in S
<1> DEFINE F == {0 .. x : x \in S}
<1>1. F \subseteq FiniteSubsetsOf(Nat) /\ F # {}
  <2>1. \A x \in S : IsFiniteSet(0 .. x) /\ 0 .. x \subseteq Nat
    BY FS_Interval
  <2>2. QED
    BY <2>1 DEF FiniteSubsetsOf
<1>2. PICK X \in F : \A Y \in F : ~(<<Y, X>> \in StrictSubsetOrdering(Nat))
  <2> HIDE DEF F
  <2>1. QED
    BY <1>1, FS_StrictSubsetOrderingWellFounded, WFMin
<1>3. PICK x \in S : X = 0 .. x
  BY <1>2
<1>4. ASSUME NEW y \in S, y < x
      PROVE  FALSE
  <2>1. 0 .. y \in F /\ 0 .. y \subseteq 0 .. x
    BY <1>4
  <2>2. x \in 0 .. x /\ x \notin 0 .. y
    BY <1>4
  <2>3. <<0 .. y, X>> \in StrictSubsetOrdering(Nat)
    BY <1>1, <1>3, <2>1, <2>2 DEF StrictSubsetOrdering, FiniteSubsetsOf
  <2>4. QED
    BY <1>2, <2>1, <2>3
<1>5. \A y \in S : x <= y
  BY <1>4
<1>6. QED
  BY <1>5 DEF Min

-------------------------------------------------------------------------------
(***************************************************************************)
(* The names of Sockets in the servers' modules.                           *)
(***************************************************************************)

\* The select server's system calls are those of Sockets.
LEMMA SelectNames ==
  /\ Select!accepted = accepted
  /\ Select!accept <=> accept
  /\ Select!exit <=> exit
  /\ \A f : (Select!echo(f) <=> echo(f)) /\ (Select!close(f) <=> close(f))
  /\ \A c : Select!Finds(c) = Finds(c) /\ (Select!Readable(c) <=> Readable(c))
  /\ Select!ReadableFds = ReadableFds
  /\ Select!Turn = Min(tmp)
<1>1. Select!accepted = accepted /\ Select!Turn = Min(tmp)
  BY DEF Select!accepted, accepted, Select!Available, Available, Select!Min, Min,
         Select!Turn
<1>2. /\ Select!accept <=> accept
      /\ Select!exit <=> exit
  BY <1>1 DEF Select!accept, accept, Select!exit, exit, Select!clientVars, clientVars,
              Select!Fds, Fds
<1>3. \A c : Select!Finds(c) = Finds(c) /\ (Select!Readable(c) <=> Readable(c))
  BY DEF Select!Finds, Finds, Select!Readable, Readable
<1>4. \A f : (Select!echo(f) <=> echo(f)) /\ (Select!close(f) <=> close(f))
  BY <1>3 DEF Select!echo, echo, Select!close, close, Select!receive, receive,
              Select!deliver, deliver
<1>5. Select!ReadableFds = ReadableFds
  BY <1>3 DEF Select!ReadableFds, ReadableFds, Select!Fds, Fds
<1>6. QED
  BY <1>1, <1>2, <1>3, <1>4, <1>5

\* The poll server's are, too ...
LEMMA PollNames ==
  /\ Poll!accepted = accepted
  /\ Poll!accept <=> accept
  /\ Poll!exit <=> exit
  /\ \A f : (Poll!echo(f) <=> echo(f)) /\ (Poll!close(f) <=> close(f))
  /\ \A c : Poll!Finds(c) = Finds(c) /\ (Poll!Readable(c) <=> Readable(c))
  /\ Poll!ReadableFds = ReadableFds
  /\ Poll!Turn = Min(todo)
<1>1. Poll!accepted = accepted
  BY DEF Poll!accepted, accepted, Poll!Available, Available, Poll!Min, Min
<1>2. /\ Poll!accept <=> accept
      /\ Poll!exit <=> exit
  BY <1>1 DEF Poll!accept, accept, Poll!exit, exit, Poll!clientVars, clientVars,
              Poll!Fds, Fds
<1>3. \A c : Poll!Finds(c) = Finds(c) /\ (Poll!Readable(c) <=> Readable(c))
  BY DEF Poll!Finds, Finds, Poll!Readable, Readable
<1>4. \A f : (Poll!echo(f) <=> echo(f)) /\ (Poll!close(f) <=> close(f))
  BY <1>3 DEF Poll!echo, echo, Poll!close, close, Poll!receive, receive,
              Poll!deliver, deliver
<1>5. Poll!ReadableFds = ReadableFds
  BY <1>3 DEF Poll!ReadableFds, ReadableFds, Poll!Fds, Fds
<1>6. Poll!Turn = Min(todo)
  BY DEF Poll!Turn, Poll!Min, Min
<1>7. QED
  BY <1>1, <1>2, <1>3, <1>4, <1>5, <1>6

\* ... and the epoll server's ...
LEMMA EpollNames ==
  /\ Epoll!accepted = accepted
  /\ Epoll!accept <=> accept
  /\ Epoll!exit <=> exit
  /\ \A f : (Epoll!echo(f) <=> echo(f)) /\ (Epoll!close(f) <=> close(f))
  /\ \A c : Epoll!Finds(c) = Finds(c) /\ (Epoll!Readable(c) <=> Readable(c))
  /\ Epoll!ReadableFds = ReadableFds
<1>1. Epoll!accepted = accepted
  BY DEF Epoll!accepted, accepted, Epoll!Available, Available, Epoll!Min, Min
<1>2. /\ Epoll!accept <=> accept
      /\ Epoll!exit <=> exit
  BY <1>1 DEF Epoll!accept, accept, Epoll!exit, exit, Epoll!clientVars, clientVars,
              Epoll!Fds, Fds
<1>3. \A c : Epoll!Finds(c) = Finds(c) /\ (Epoll!Readable(c) <=> Readable(c))
  BY DEF Epoll!Finds, Finds, Epoll!Readable, Readable
<1>4. \A f : (Epoll!echo(f) <=> echo(f)) /\ (Epoll!close(f) <=> close(f))
  BY <1>3 DEF Epoll!echo, echo, Epoll!close, close, Epoll!receive, receive,
              Epoll!deliver, deliver
<1>5. Epoll!ReadableFds = ReadableFds
  BY <1>3 DEF Epoll!ReadableFds, ReadableFds, Epoll!Fds, Fds
<1>6. QED
  BY <1>1, <1>2, <1>3, <1>4, <1>5

\* ... and those of server.c.
LEMMA SimpleNames ==
  /\ Simple!accepted = accepted
  /\ Simple!accept <=> accept
  /\ Simple!exit <=> exit
  /\ \A f : (Simple!echo(f) <=> echo(f)) /\ (Simple!close(f) <=> close(f))
  /\ \A c : Simple!Finds(c) = Finds(c) /\ (Simple!Readable(c) <=> Readable(c))
  /\ Simple!ReadableFds = ReadableFds
<1>1. Simple!accepted = accepted
  BY DEF Simple!accepted, accepted, Simple!Available, Available, Simple!Min, Min
<1>2. /\ Simple!accept <=> accept
      /\ Simple!exit <=> exit
  BY <1>1 DEF Simple!accept, accept, Simple!exit, exit, Simple!clientVars, clientVars,
              Simple!Fds, Fds
<1>3. \A c : Simple!Finds(c) = Finds(c) /\ (Simple!Readable(c) <=> Readable(c))
  BY DEF Simple!Finds, Finds, Simple!Readable, Readable
<1>4. \A f : (Simple!echo(f) <=> echo(f)) /\ (Simple!close(f) <=> close(f))
  BY <1>3 DEF Simple!echo, echo, Simple!close, close, Simple!receive, receive,
              Simple!deliver, deliver
<1>5. Simple!ReadableFds = ReadableFds
  BY <1>3 DEF Simple!ReadableFds, ReadableFds, Simple!Fds, Fds
<1>6. QED
  BY <1>1, <1>2, <1>3, <1>4, <1>5

\* And so are those of mulServer.c.
LEMMA MulNames ==
  /\ Mul!accepted = accepted
  /\ Mul!exit <=> exit
  /\ \A f : Mul!close(f) <=> close(f)
  /\ \A c : Mul!Finds(c) = Finds(c) /\ (Mul!Readable(c) <=> Readable(c))
  /\ \A c : Mul!receive(c) <=> receive(c)
  /\ \A c, x : Mul!deliver(c, x) <=> deliver(c, x)
  /\ Mul!Min(Mul!FreeSlots) = Min(Mul!FreeSlots)
<1>1. Mul!accepted = accepted
  BY DEF Mul!accepted, accepted, Mul!Available, Available, Mul!Min, Min
<1>2. Mul!exit <=> exit
  BY DEF Mul!exit, exit, Mul!clientVars, clientVars, Mul!Fds, Fds
<1>3. \A c : Mul!Finds(c) = Finds(c) /\ (Mul!Readable(c) <=> Readable(c))
  BY DEF Mul!Finds, Finds, Mul!Readable, Readable
<1>4. /\ \A f : Mul!close(f) <=> close(f)
      /\ \A c : Mul!receive(c) <=> receive(c)
      /\ \A c, x : Mul!deliver(c, x) <=> deliver(c, x)
  BY DEF Mul!close, close, Mul!receive, receive, Mul!deliver, deliver
<1>5. Mul!Min(Mul!FreeSlots) = Min(Mul!FreeSlots)
  BY DEF Mul!Min, Min
<1>6. QED
  BY <1>1, <1>2, <1>3, <1>4, <1>5

-------------------------------------------------------------------------------
(***************************************************************************)
(* What the steps of servers and clients do to the sockets.                *)
(***************************************************************************)

\* The facts that SocketsTypeOK gives of a client.
LEMMA ClientFacts ==
  ASSUME SocketsTypeOK, NEW c \in Clients
  PROVE  /\ at[c] \in {"absent", "new", "send", "recv", "gone"}
         /\ number[c] \in Nat
         /\ inbox[c] \in Seq(Messages) /\ outbox[c] \in Seq(Messages)
BY DEF SocketsTypeOK

\* The facts that it gives of a descriptor.
LEMMA FdFacts ==
  ASSUME SocketsTypeOK
  PROVE  /\ \A f \in Fds : peer[f] \in Clients \cup {NoClient}
         /\ \A f \in OpenFds : f \in Fds /\ peer[f] \in Clients /\ peer[f] # NoClient
         /\ OpenFds \subseteq Nat /\ Fds \subseteq Nat \ {0}
         /\ limit \in Nat \ {0} /\ 1 .. limit \subseteq Fds
         /\ ReadableFds = {f \in OpenFds : Readable(peer[f])}
BY DEF SocketsTypeOK, OpenFds, Fds, ReadableFds

\* A sequence of one element.
LEMMA Single ==
  ASSUME NEW S, NEW x \in S
  PROVE  /\ Append(<<>>, x) = <<x>> /\ <<x>> \in Seq(S) /\ <<>> \in Seq(S)
         /\ Head(<<x>>) = x /\ Tail(<<x>>) = <<>> /\ <<x>> # <<>>
OBVIOUS

\* Descriptor f becomes the first client's of the backlog.
Accepts(f) ==
  /\ backlog # <<>>
  /\ peer' = [peer EXCEPT ![f] = Head(backlog)]
  /\ backlog' = Tail(backlog)
  /\ UNCHANGED <<clientVars, limit, listening>>

\* accept() takes a descriptor that is not open, and fails only if there is none.
LEMMA AcceptEffect ==
  ASSUME SocketsTypeOK
  PROVE  /\ accepted = -1 <=> Available = {}
         /\ accepted = -1 \/ (accepted \in 1 .. limit /\ accepted \in Fds \ OpenFds)
         /\ accept => \/ accepted = -1 /\ UNCHANGED sockets
                      \/ accepted # -1 /\ Accepts(accepted)
<1>1. Available \subseteq 1 .. limit /\ Available \subseteq Nat
  BY FdFacts DEF Available
<1>2. ASSUME Available # {}
      PROVE  accepted \in Available
  BY <1>1, <1>2, MinIn DEF accepted
<1>3. accepted = -1 <=> Available = {}
  BY <1>1, <1>2 DEF accepted
<1>4. accepted = -1 \/ (accepted \in 1 .. limit /\ accepted \in Fds \ OpenFds)
  BY <1>1, <1>2, <1>3, FdFacts DEF Available, OpenFds
<1>5. accept => \/ accepted = -1 /\ UNCHANGED sockets
                \/ accepted # -1 /\ Accepts(accepted)
  BY DEF accept, Accepts, sockets
<1>6. QED
  BY <1>3, <1>4, <1>5

\* The client that was accepted is in the backlog no more, and has one descriptor.
LEMMA AcceptsKeeps ==
  ASSUME SocketInv, NEW f \in 1 .. limit, f \notin OpenFds, Accepts(f),
         NEW c, c = Head(backlog)
  PROVE  /\ SocketInv'
         /\ c \in Clients /\ Present(c) /\ Queued(c)
         /\ OpenFds' = OpenFds \cup {f} /\ peer'[f] = c
         /\ \A g \in OpenFds : peer'[g] = peer[g]
         /\ ReadableFds \subseteq ReadableFds'
         /\ \A d : Queued(d)' => Queued(d) /\ d # c
<1>1. /\ SocketsTypeOK /\ Conversations /\ Placed
      /\ f \in Fds /\ peer[f] = NoClient
  BY FdFacts DEF SocketInv, OpenFds
<1>2. /\ backlog \in Seq(Clients) /\ backlog # <<>> /\ Len(backlog) \in Nat \ {0}
      /\ c \in Clients /\ c = backlog[1]
      /\ backlog' \in Seq(Clients) /\ Len(backlog') = Len(backlog) - 1
      /\ \A i \in 1 .. Len(backlog') : backlog'[i] = backlog[i + 1]
  BY <1>1, EmptySeq, HeadTailProperties DEF Accepts, SocketsTypeOK
<1>3. /\ \A g \in Fds : peer'[g] = IF g = f THEN c ELSE peer[g]
      /\ peer' \in [Fds -> Clients \cup {NoClient}]
      /\ UNCHANGED <<at, number, inbox, outbox, aborted, limit, listening>>
  BY <1>1, <1>2 DEF Accepts, SocketsTypeOK, clientVars
<1>4. Present(c) /\ Queued(c)
  BY <1>1, <1>2 DEF Placed, Queued
<1>5. \A i \in 1 .. Len(backlog') :
        i + 1 \in 1 .. Len(backlog) /\ backlog'[i] = backlog[i + 1] /\ backlog'[i] # c
  BY <1>1, <1>2 DEF Placed
<1>6. \A d : Queued(d)' => Queued(d) /\ d # c
  <2>1. SUFFICES ASSUME NEW d, NEW i \in DOMAIN backlog', backlog'[i] = d
                 PROVE  Queued(d) /\ d # c
    BY DEF Queued
  <2>2. DOMAIN backlog = 1 .. Len(backlog) /\ DOMAIN backlog' = 1 .. Len(backlog')
    BY <1>2, LenProperties
  <2>3. i + 1 \in DOMAIN backlog /\ backlog[i + 1] = d /\ d # c
    BY <1>5, <2>1, <2>2
  <2>4. QED
    BY <2>3 DEF Queued
<1>7. OpenFds' = OpenFds \cup {f} /\ \A g \in OpenFds : peer'[g] = peer[g]
  BY <1>1, <1>2, <1>3 DEF OpenFds
<1>8. SocketsTypeOK'
  BY <1>1, <1>2, <1>3 DEF SocketsTypeOK
<1>9. Conversations'
  BY <1>1, <1>3 DEF Conversations, Conversation, Latest
<1>10. Placed'
  <2>1. \A i \in 1 .. Len(backlog') :
          backlog'[i] \in Clients /\ at'[backlog'[i]] \in {"send", "recv", "gone"}
    BY <1>1, <1>3, <1>5 DEF Placed, Present
  <2>2. ASSUME NEW i \in 1 .. Len(backlog'), NEW j \in 1 .. Len(backlog'),
               backlog'[i] = backlog'[j]
        PROVE  i = j
    <3>1. i + 1 = j + 1
      BY <1>1, <1>5, <2>2 DEF Placed
    <3>2. QED
      BY <3>1
  <2>3. ASSUME NEW g \in OpenFds'
        PROVE  /\ g <= limit'
               /\ peer'[g] \in Clients /\ at'[peer'[g]] \in {"send", "recv", "gone"}
               /\ \A i \in DOMAIN backlog' : backlog'[i] # peer'[g]
    <3>1. CASE g = f
      <4>1. peer'[g] = c /\ g <= limit' /\ at' = at
        BY <1>1, <1>3, <3>1
      <4>2. \A i \in DOMAIN backlog' : backlog'[i] # c
        BY <1>6 DEF Queued
      <4>3. QED
        BY <1>4, <4>1, <4>2 DEF Present
    <3>2. CASE g \in OpenFds
      <4>1. g <= limit /\ Present(peer[g]) /\ ~Queued(peer[g])
        BY <1>1, <3>2 DEF Placed
      <4>2. peer'[g] = peer[g] /\ limit' = limit /\ at' = at
        BY <1>3, <1>7, <3>2
      <4>3. \A i \in DOMAIN backlog' : backlog'[i] # peer[g]
        BY <1>6, <4>1 DEF Queued
      <4>4. QED
        BY <4>1, <4>2, <4>3 DEF Present
    <3>3. QED
      BY <1>7, <3>1, <3>2
  <2>4. ASSUME NEW g \in OpenFds', NEW h \in OpenFds', peer'[g] = peer'[h]
        PROVE  g = h
    <3>1. \A k \in OpenFds : peer[k] # c
      BY <1>1, <1>4 DEF Placed
    <3>2. QED
      BY <1>1, <1>3, <1>7, <2>4, <3>1 DEF Placed
  <2>5. QED
    BY <2>1, <2>2, <2>3, <2>4 DEF Placed, Present, Queued
<1>11. ReadableFds \subseteq ReadableFds'
  BY <1>1, <1>3 DEF ReadableFds, Readable
<1>12. QED
  BY <1>1, <1>2, <1>3, <1>4, <1>6, <1>7, <1>8, <1>9, <1>10, <1>11 DEF SocketInv

\* Descriptors may be closed, and the backlog emptied.
LEMMA ClosingKeeps ==
  ASSUME SocketsTypeOK, Placed,
         backlog' = backlog \/ backlog' = <<>>,
         \A f \in Fds : peer'[f] \in {peer[f], NoClient}, UNCHANGED <<at, limit>>
  PROVE  Placed' /\ OpenFds' \subseteq OpenFds
<1>1. OpenFds' \subseteq OpenFds /\ \A f \in OpenFds' : peer'[f] = peer[f]
  BY DEF OpenFds, SocketsTypeOK
<1>2. \A d : Present(d)' <=> Present(d)
  BY DEF Present
<1>3. Len(backlog) \in Nat /\ Len(<<>>) = 0
  BY EmptySeq, LenProperties DEF SocketsTypeOK
<1>4. CASE backlog' = backlog
  BY <1>1, <1>4 DEF Placed, Present, Queued
<1>5. CASE backlog' = <<>>
  BY <1>1, <1>3, <1>5 DEF Placed, Present, Queued
<1>6. QED
  BY <1>1, <1>4, <1>5

\* The server's process ends.
LEMMA ExitKeeps ==
  ASSUME SocketInv, exit
  PROVE  SocketInv' /\ OpenFds' = {} /\ ReadableFds' = {}
<1>1. /\ SocketsTypeOK /\ Conversations /\ Placed
      /\ peer' = [f \in Fds |-> NoClient] /\ backlog' = <<>> /\ listening' = FALSE
      /\ UNCHANGED <<at, number, inbox, outbox, aborted, limit>>
  BY DEF exit, clientVars, SocketInv
<1>2. SocketsTypeOK'
  BY <1>1, EmptySeq DEF SocketsTypeOK
<1>3. Conversations'
  BY <1>1 DEF Conversations, Conversation, Latest
<1>4. Placed'
  BY <1>1, ClosingKeeps
<1>5. OpenFds' = {} /\ ReadableFds' = {}
  BY <1>1 DEF OpenFds, ReadableFds, SocketsTypeOK
<1>6. QED
  BY <1>2, <1>3, <1>4, <1>5 DEF SocketInv

\* A request is taken out of a client's inbox, and may be answered at once.
LEMMA TalkingKeeps ==
  ASSUME SocketsTypeOK, Conversations, NEW c \in Clients, Readable(c), receive(c),
         UNCHANGED <<at, number>>,
         \/ UNCHANGED outbox
         \/ inbox[c] # <<>> /\ deliver(c, Head(inbox[c]))
  PROVE  /\ Conversations' /\ aborted' \subseteq Clients
         /\ inbox' \in [Clients -> Seq(Messages)]
         /\ outbox' \in [Clients -> Seq(Messages)]
         /\ \A d \in Clients \ {c} : inbox'[d] = inbox[d]
<1>1. /\ inbox' = [inbox EXCEPT ![c] = <<>>] /\ aborted' \subseteq aborted
      /\ inbox \in [Clients -> Seq(Messages)]
      /\ outbox \in [Clients -> Seq(Messages)]
  BY DEF receive, SocketsTypeOK
<1>2. inbox' \in [Clients -> Seq(Messages)]
  BY <1>1, EmptySeq
<1>3. inbox'[c] = <<>> /\ \A d \in Clients \ {c} : inbox'[d] = inbox[d]
  BY <1>1
<1>4. CASE UNCHANGED outbox
  <2>1. Conversations'
    BY <1>3, <1>4 DEF Conversations, Conversation, Latest
  <2>2. QED
    BY <1>1, <1>2, <1>3, <1>4, <2>1 DEF SocketsTypeOK
<1>5. CASE inbox[c] # <<>> /\ deliver(c, Head(inbox[c])) /\ ~UNCHANGED outbox
  <2> DEFINE x == Latest(c)
  <2>1. /\ inbox[c] = <<x>> /\ outbox[c] = <<>> /\ at[c] \notin {"absent", "new", "send"}
        /\ x \in Messages
    <3>1. /\ inbox[c] = <<x>> /\ outbox[c] = <<>>
          /\ at[c] \notin {"absent", "new", "send"}
      BY <1>5 DEF Conversations, Conversation
    <3> HIDE DEF x
    <3>2. inbox[c] \in Seq(Messages)
      BY <1>1
    <3>3. Head(inbox[c]) = x
      BY <3>1, x \in {x}, Single
    <3>4. x \in Messages
      BY <1>5, <3>2, <3>3, HeadTailProperties
    <3>5. QED
      BY <3>1, <3>4
  <2>2. outbox' = [outbox EXCEPT ![c] = <<x>>]
    <3> HIDE DEF x
    <3>1. Head(inbox[c]) = x /\ Append(outbox[c], x) = <<x>>
      BY <2>1, Single
    <3>2. QED
      BY <1>5, <3>1 DEF deliver
  <2>3. <<x>> \in Seq(Messages)
    BY <2>1, Single
  <2>4. outbox' \in [Clients -> Seq(Messages)]
    BY <1>1, <2>2, <2>3
  <2>5. outbox'[c] = <<x>> /\ \A d \in Clients \ {c} : outbox'[d] = outbox[d]
    BY <1>1, <2>2
  <2>6. Conversation(c)'
    BY <1>3, <2>1, <2>5 DEF Conversation, Latest
  <2>7. \A d \in Clients \ {c} : Conversation(d)'
    BY <1>3, <2>5 DEF Conversations, Conversation, Latest
  <2>8. QED
    BY <1>1, <1>2, <1>3, <2>4, <2>6, <2>7 DEF Conversations, SocketsTypeOK
<1>6. QED
  BY <1>4, <1>5

\* A server talks to the client of f, and may close f.
LEMMA EchoKeeps ==
  ASSUME SocketInv, NEW f \in ReadableFds, echo(f), close(f) \/ UNCHANGED peer
  PROVE  /\ SocketInv'
         /\ close(f) => OpenFds' = OpenFds \ {f}
         /\ UNCHANGED peer => OpenFds' = OpenFds
         /\ \A g \in OpenFds \ {f} : peer'[g] = peer[g]
         /\ ReadableFds \ {f} \subseteq ReadableFds'
         /\ UNCHANGED backlog
<1> DEFINE c == peer[f]
<1>1. /\ SocketsTypeOK /\ Conversations /\ Placed
      /\ f \in Fds /\ f \in OpenFds /\ c \in Clients /\ c # NoClient /\ Readable(c)
  BY FdFacts DEF SocketInv
<1>2. /\ receive(c)
      /\ UNCHANGED <<at, number, backlog, limit, listening>>
      /\ UNCHANGED outbox \/ (inbox[c] # <<>> /\ deliver(c, Head(inbox[c])))
  BY DEF echo, Finds
<1>3. /\ Conversations' /\ aborted' \subseteq Clients
      /\ inbox' \in [Clients -> Seq(Messages)]
      /\ outbox' \in [Clients -> Seq(Messages)]
      /\ \A d \in Clients \ {c} : inbox'[d] = inbox[d]
  <2> HIDE DEF c
  <2>1. QED
    BY <1>1, <1>2, TalkingKeeps
<1>4. peer \in [Fds -> Clients \cup {NoClient}]
  BY <1>1 DEF SocketsTypeOK
<1>5. /\ peer' \in [Fds -> Clients \cup {NoClient}]
      /\ \A g \in Fds : peer'[g] \in {peer[g], NoClient}
      /\ \A g \in Fds \ {f} : peer'[g] = peer[g]
      /\ close(f) => peer'[f] = NoClient
  BY <1>1, <1>4 DEF close
<1>6. SocketsTypeOK'
  BY <1>1, <1>2, <1>3, <1>5 DEF SocketsTypeOK
<1>7. Placed'
  BY <1>1, <1>2, <1>5, ClosingKeeps
<1>8. /\ close(f) => OpenFds' = OpenFds \ {f}
      /\ UNCHANGED peer => OpenFds' = OpenFds
      /\ \A g \in OpenFds \ {f} : peer'[g] = peer[g]
  BY <1>1, <1>4, <1>5 DEF OpenFds
<1>9. ASSUME NEW g \in ReadableFds \ {f}
      PROVE  g \in ReadableFds'
  <2>1. g \in OpenFds /\ g \in Fds /\ peer[g] \in Clients /\ Readable(peer[g])
    BY <1>1, FdFacts
  <2>2. peer[g] # c
    BY <1>1, <2>1 DEF Placed
  <2>3. inbox'[peer[g]] = inbox[peer[g]] /\ peer'[g] = peer[g]
    BY <1>3, <1>5, <2>1, <2>2
  <2>4. QED
    BY <1>1, <1>2, <2>1, <2>3 DEF ReadableFds, Readable
<1>10. QED
  BY <1>2, <1>3, <1>6, <1>7, <1>8, <1>9 DEF SocketInv

\* What a client c does to its own side of the conversation.
LEMMA ClientTalks ==
  ASSUME SocketsTypeOK, Conversations, NEW c \in Clients, NEW H,
         ClientStep(c, H) \/ connect(c) \/ kill(c) \/ restart(c, H)
  PROVE  /\ at' \in [Clients -> {"absent", "new", "send", "recv", "gone"}]
         /\ number' \in [Clients -> Nat]
         /\ inbox' \in [Clients -> Seq(Messages)]
         /\ outbox' \in [Clients -> Seq(Messages)]
         /\ aborted' \subseteq Clients
         /\ \A d \in Clients \ {c} : /\ at'[d] = at[d] /\ number'[d] = number[d]
                                     /\ inbox'[d] = inbox[d] /\ outbox'[d] = outbox[d]
         /\ Conversation(c)'
<1>1. /\ at \in [Clients -> {"absent", "new", "send", "recv", "gone"}]
      /\ number \in [Clients -> Nat]
      /\ inbox \in [Clients -> Seq(Messages)]
      /\ outbox \in [Clients -> Seq(Messages)]
      /\ aborted \subseteq Clients
  BY DEF SocketsTypeOK
<1>2. Conversation(c)
  BY DEF Conversations
<1>3. CASE connect(c) \/ disconnected(c, H)
  BY <1>1, <1>2, <1>3 DEF connect, disconnected, Conversation, Latest
<1>4. CASE kill(c)
  BY <1>1, <1>2, <1>4 DEF kill, Conversation, Latest
<1>5. CASE restart(c, H)
  <2>1. <<>> \in Seq(Messages)
    BY EmptySeq
  <2>2. /\ at' = [at EXCEPT ![c] = "new"] /\ number' = [number EXCEPT ![c] = 0]
        /\ inbox' = [inbox EXCEPT ![c] = <<>>] /\ outbox' = [outbox EXCEPT ![c] = <<>>]
        /\ aborted' \subseteq aborted
    BY <1>5 DEF restart
  <2>3. 0 \in Nat
    OBVIOUS
  <2>4. QED
    BY <1>1, <2>1, <2>2, <2>3 DEF Conversation
<1>6. CASE request(c)
  <2> DEFINE k == number[c]
  <2> DEFINE x == <<c, k>>
  <2>1. /\ k \in Nat /\ k + 1 \in Nat /\ (k + 1) - 1 = k
        /\ x \in Messages
        /\ at[c] = "send" /\ inbox[c] = <<>> /\ outbox[c] = <<>>
    BY <1>1, <1>2, <1>6 DEF request, Conversation, Messages
  <2>2. /\ at' = [at EXCEPT ![c] = "recv"] /\ number' = [number EXCEPT ![c] = k + 1]
        /\ inbox' = [inbox EXCEPT ![c] = <<x>>] /\ UNCHANGED <<outbox, aborted>>
    <3>1. /\ inbox' = [inbox EXCEPT ![c] = Append(inbox[c], x)]
          /\ number' = [number EXCEPT ![c] = k + 1]
          /\ at' = [at EXCEPT ![c] = "recv"] /\ UNCHANGED <<outbox, aborted>>
      BY <1>6 DEF request
    <3> HIDE DEF x
    <3>2. Append(inbox[c], x) = <<x>>
      BY <2>1, Single
    <3>3. QED
      BY <3>1, <3>2
  <2>3. Latest(c)' = x
    BY <1>1, <2>1, <2>2 DEF Latest
  <2> HIDE DEF x
  <2>4. <<x>> \in Seq(Messages)
    BY <2>1, Single
  <2> HIDE DEF k
  <2>5. Conversation(c)'
    BY <1>1, <2>1, <2>2, <2>3 DEF Conversation
  <2>6. QED
    BY <1>1, <2>1, <2>2, <2>4, <2>5
<1>7. CASE reply(c)
  <2>1. outbox[c] = <<Latest(c)>> /\ inbox[c] = <<>>
    BY <1>2, <1>7 DEF reply, Conversation
  <2>2. Tail(outbox[c]) = <<>> /\ <<>> \in Seq(Messages)
    <3> DEFINE x == Latest(c)
    <3>1. outbox[c] = <<x>>
      BY <2>1
    <3> HIDE DEF x
    <3>2. Tail(outbox[c]) = <<>>
      BY <3>1, x \in {x}, Single
    <3>3. QED
      BY <3>2, EmptySeq
  <2>3. /\ at' = [at EXCEPT ![c] = "send"] /\ outbox' = [outbox EXCEPT ![c] = <<>>]
        /\ UNCHANGED <<number, inbox, aborted>>
    BY <1>7, <2>2 DEF reply
  <2>4. QED
    BY <1>1, <2>1, <2>2, <2>3 DEF Conversation
<1>8. QED
  BY <1>3, <1>4, <1>5, <1>6, <1>7 DEF ClientStep

\* What clients do leaves the connections alone; H are the clients that the server has
\* not let go.
LEMMA ClientKeeps ==
  ASSUME SocketInv, NEW H, \A f \in OpenFds : peer[f] \in H, ClientNext(H)
  PROVE  /\ SocketInv' /\ UNCHANGED <<peer, limit, listening>>
         /\ OpenFds' = OpenFds /\ ReadableFds \subseteq ReadableFds'
         /\ \A d \in H : Present(d) => Present(d)'
         /\ \A d : Present(d) /\ Queued(d)' => Queued(d)
         /\ \A d \in H \cap Clients :
              at[d] = "recv" /\ inbox[d] = <<>> /\ outbox[d] = <<>> /\ at'[d] # "gone" =>
                /\ at'[d] = "recv" /\ inbox'[d] = <<>> /\ outbox'[d] = <<>>
                /\ number'[d] = number[d]
         /\ \A d \in H \cap Clients : at[d] = "gone" => at'[d] = "gone"
<1>1. SocketsTypeOK /\ Conversations /\ Placed
  BY DEF SocketInv
<1>2. PICK c \in Clients : ClientStep(c, H) \/ connect(c) \/ kill(c) \/ restart(c, H)
  BY DEF ClientNext
<1>3. /\ at' \in [Clients -> {"absent", "new", "send", "recv", "gone"}]
      /\ number' \in [Clients -> Nat]
      /\ inbox' \in [Clients -> Seq(Messages)]
      /\ outbox' \in [Clients -> Seq(Messages)]
      /\ aborted' \subseteq Clients
      /\ \A d \in Clients \ {c} : /\ at'[d] = at[d] /\ number'[d] = number[d]
                                  /\ inbox'[d] = inbox[d] /\ outbox'[d] = outbox[d]
      /\ Conversation(c)'
  BY <1>1, <1>2, ClientTalks
<1>4. UNCHANGED <<peer, limit, listening>>
  BY <1>2 DEF ClientStep, request, reply, disconnected, connect, kill, restart
<1>5. \/ UNCHANGED backlog
      \/ backlog' = Append(backlog, c) /\ at[c] = "new" /\ at'[c] = "send"
  BY <1>1, <1>2 DEF ClientStep, request, reply, disconnected, connect, kill, restart,
                    SocketsTypeOK
<1>6. c \in H \/ Queued(c) \/ at'[c] = at[c] =>
        (at[c] \in {"send", "recv", "gone"} => at'[c] \in {"send", "recv", "gone"})
  BY <1>1, <1>2 DEF ClientStep, request, reply, disconnected, connect, kill, restart,
                    SocketsTypeOK
<1>7. \A d : Present(d) /\ (d \in H \/ Queued(d)) => Present(d)'
  BY <1>3, <1>6 DEF Present
<1>8. /\ backlog' \in Seq(Clients) /\ Len(backlog) \in Nat
      /\ DOMAIN backlog = 1 .. Len(backlog) /\ DOMAIN backlog' = 1 .. Len(backlog')
      /\ \/ UNCHANGED backlog
         \/ /\ Len(backlog') = Len(backlog) + 1
            /\ \A i \in 1 .. Len(backlog) : backlog'[i] = backlog[i]
            /\ backlog'[Len(backlog) + 1] = c
            /\ ~Present(c) /\ at'[c] = "send"
  <2>1. backlog \in Seq(Clients)
    BY <1>1 DEF SocketsTypeOK
  <2>2. CASE UNCHANGED backlog
    BY <2>1, <2>2, LenProperties
  <2>3. CASE backlog' = Append(backlog, c) /\ at[c] = "new" /\ at'[c] = "send"
    BY <2>1, <2>3, AppendProperties, LenProperties DEF Present
  <2>4. QED
    BY <1>5, <2>2, <2>3
<1>9. ASSUME NEW i \in 1 .. Len(backlog')
      PROVE  \/ i \in 1 .. Len(backlog) /\ backlog'[i] = backlog[i]
             \/ i = Len(backlog) + 1 /\ backlog'[i] = c /\ ~Present(c) /\ at'[c] = "send"
  <2>1. CASE UNCHANGED backlog
    BY <1>8, <2>1
  <2>2. CASE ~UNCHANGED backlog
    <3>1. /\ Len(backlog') = Len(backlog) + 1 /\ Len(backlog) \in Nat
          /\ \A k \in 1 .. Len(backlog) : backlog'[k] = backlog[k]
          /\ backlog'[Len(backlog) + 1] = c /\ ~Present(c) /\ at'[c] = "send"
      BY <1>8, <2>2
    <3>2. CASE i = Len(backlog) + 1
      BY <3>1, <3>2
    <3>3. CASE i # Len(backlog) + 1
      BY <3>1, <3>3
    <3>4. QED
      BY <3>2, <3>3
  <2>3. QED
    BY <2>1, <2>2
<1>10. \A d : Present(d) /\ Queued(d)' => Queued(d)
  BY <1>8, <1>9 DEF Queued
<1>11. OpenFds' = OpenFds
  BY <1>4 DEF OpenFds
<1>12. SocketsTypeOK'
  BY <1>1, <1>3, <1>4, <1>8 DEF SocketsTypeOK
<1>13. Conversations'
  BY <1>1, <1>3 DEF Conversations, Conversation, Latest
<1>14. Placed'
  <2>1. ASSUME NEW i \in 1 .. Len(backlog')
        PROVE  /\ backlog'[i] \in Clients /\ at'[backlog'[i]] \in {"send", "recv", "gone"}
               /\ \/ i \in 1 .. Len(backlog) /\ backlog'[i] = backlog[i]
                  \/ backlog'[i] = c /\ i = Len(backlog) + 1 /\ ~Present(c)
    <3>1. CASE i \in 1 .. Len(backlog) /\ backlog'[i] = backlog[i]
      <4>1. Present(backlog[i]) /\ Queued(backlog[i])
        BY <1>1, <1>8, <3>1 DEF Placed, Queued
      <4>2. \A d : Present(d) /\ Queued(d) =>
                    d \in Clients /\ at'[d] \in {"send", "recv", "gone"}
        BY <1>7 DEF Present
      <4>3. QED
        BY <3>1, <4>1, <4>2
    <3>2. CASE backlog'[i] = c /\ i = Len(backlog) + 1 /\ ~Present(c) /\ at'[c] = "send"
      BY <3>2
    <3>3. QED
      BY <1>9, <3>1, <3>2
  <2>2. ASSUME NEW i \in 1 .. Len(backlog'), NEW j \in 1 .. Len(backlog'),
               backlog'[i] = backlog'[j]
        PROVE  i = j
    BY <1>1, <2>1, <2>2 DEF Placed
  <2>3. ASSUME NEW f \in OpenFds'
        PROVE  /\ f <= limit'
               /\ peer'[f] \in Clients /\ at'[peer'[f]] \in {"send", "recv", "gone"}
               /\ \A i \in DOMAIN backlog' : backlog'[i] # peer'[f]
    <3>1. f \in OpenFds /\ Present(peer[f]) /\ ~Queued(peer[f]) /\ f <= limit
      BY <1>1, <1>11 DEF Placed
    <3>2. peer'[f] = peer[f] /\ limit' = limit
      BY <1>4
    <3>3. at'[peer[f]] \in {"send", "recv", "gone"} /\ peer[f] \in Clients
      BY <1>7, <3>1 DEF Present
    <3>4. \A i \in DOMAIN backlog' : backlog'[i] # peer[f]
      BY <1>10, <3>1 DEF Queued
    <3>5. QED
      BY <3>1, <3>2, <3>3, <3>4
  <2>4. \A f, g \in OpenFds' : peer'[f] = peer'[g] => f = g
    BY <1>1, <1>4, <1>11 DEF Placed
  <2>5. QED
    BY <2>1, <2>2, <2>3, <2>4 DEF Placed, Present, Queued
<1>15. c \in H => /\ at[c] = "gone" => at'[c] = "gone"
                  /\ inbox[c] # <<>> => inbox'[c] # <<>>
                  /\ at[c] = "recv" /\ outbox[c] = <<>> /\ at'[c] # "gone" =>
                       /\ at'[c] = "recv"
                       /\ UNCHANGED <<inbox, outbox, number>>
  <2>1. CASE request(c)
    <3>1. inbox[c] = <<>>
      BY <1>1, <2>1 DEF Conversations, Conversation, request
    <3>2. QED
      BY <2>1, <3>1 DEF request
  <2>2. CASE ~request(c)
    BY <1>1, <1>2, <2>2 DEF ClientStep, reply, disconnected, connect, kill, restart,
                            SocketsTypeOK
  <2>3. QED
    BY <2>1, <2>2
<1>16. ReadableFds \subseteq ReadableFds'
  <2> SUFFICES ASSUME NEW f \in ReadableFds
               PROVE  f \in ReadableFds'
    OBVIOUS
  <2>1. f \in Fds /\ peer[f] # NoClient /\ peer[f] \in Clients /\ Readable(peer[f])
        /\ peer[f] \in H
    BY <1>1, FdFacts
  <2>2. peer'[f] = peer[f]
    BY <1>4
  <2>3. inbox'[peer[f]] # <<>> \/ at'[peer[f]] = "gone"
    BY <1>3, <1>15, <2>1 DEF Readable
  <2>4. QED
    BY <2>1, <2>2, <2>3 DEF ReadableFds, Readable
<1>17. ASSUME NEW d \in H \cap Clients
       PROVE  /\ at[d] = "gone" => at'[d] = "gone"
              /\ at[d] = "recv" /\ inbox[d] = <<>> /\ outbox[d] = <<>> /\ at'[d] # "gone" =>
                   /\ at'[d] = "recv" /\ inbox'[d] = <<>> /\ outbox'[d] = <<>>
                   /\ number'[d] = number[d]
  BY <1>3, <1>15
<1>18. QED
  BY <1>4, <1>7, <1>10, <1>11, <1>12, <1>13, <1>14, <1>16, <1>17 DEF SocketInv

\* What depends on the sockets does not change when they do not.
LEMMA SameSockets ==
  ASSUME UNCHANGED sockets
  PROVE  /\ OpenFds' = OpenFds /\ ReadableFds' = ReadableFds
         /\ SocketInv' <=> SocketInv
         /\ \A d : (Present(d)' <=> Present(d)) /\ (Queued(d)' <=> Queued(d))
<1>1. UNCHANGED <<at, number, inbox, outbox, aborted, backlog, peer, limit, listening>>
  BY DEF sockets, clientVars
<1>2. OpenFds' = OpenFds /\ ReadableFds' = ReadableFds
  BY <1>1 DEF OpenFds, ReadableFds, Readable
<1>3. \A d : (Present(d)' <=> Present(d)) /\ (Queued(d)' <=> Queued(d))
  BY <1>1 DEF Present, Queued
<1>4. SocketsTypeOK' <=> SocketsTypeOK
  BY <1>1 DEF SocketsTypeOK
<1>5. Conversations' <=> Conversations
  BY <1>1 DEF Conversations, Conversation, Latest
<1>6. Placed' <=> Placed
  BY <1>1, <1>2 DEF Placed, Present, Queued
<1>7. QED
  BY <1>2, <1>3, <1>4, <1>5, <1>6 DEF SocketInv

-------------------------------------------------------------------------------
(***************************************************************************)
(* select_server.c.                                                        *)
(***************************************************************************)

\* Its steps keep readfds equal to the open descriptors, and what is left of a round
\* readable.
LEMMA SelectSteps ==
  ASSUME SocketInv, Select!TypeOK, SelectInv, program = "select", UNCHANGED program,
         Select!Step
  PROVE  SocketInv' /\ Select!TypeOK' /\ SelectInv'
<1>1. /\ readfds = OpenFds /\ \A f \in readfds : f <= maxFd
      /\ selectPc = "scan" => tmp \ {0} \subseteq ReadableFds
      /\ selectPc \in {"wait", "scan", "stopped"} /\ maxFd \in 0 .. MaxFd
      /\ tmp \subseteq Fds \cup {0} /\ readfds \subseteq Fds
  BY DEF SelectInv, Select!TypeOK, Select!Fds, Fds
<1>2. /\ Fds \subseteq Nat \ {0} /\ ReadableFds \subseteq OpenFds
      /\ \A f \in OpenFds : f \in Fds /\ peer[f] # NoClient
      /\ Fds = 1 .. MaxFd
  BY FdFacts DEF SocketInv, Fds
<1>3. CASE Select!select
  <2>1. Select!Detected = OpenFds
    BY <1>1 DEF Select!Detected
  <2>2. /\ UNCHANGED <<sockets, readfds, maxFd>> /\ selectPc' = "scan"
        /\ tmp' = (OpenFds \cap ReadableFds) \cup (IF backlog = <<>> THEN {} ELSE {0})
    BY <1>2, <1>3, <2>1, SelectNames DEF Select!select, Select!sockets, sockets,
       Select!clientVars, clientVars
  <2>3. QED
    BY <1>1, <1>2, <2>2, SameSockets DEF SelectInv, Select!TypeOK, Select!Fds, Fds
<1>4. CASE Select!newClient
  <2>1. /\ accept /\ selectPc = "scan" /\ selectPc' = "scan" /\ tmp' = tmp \ {0}
        /\ readfds' = readfds \cup ({accepted} \ {-1})
        /\ maxFd' = IF maxFd > accepted THEN maxFd ELSE accepted
    BY <1>4, SelectNames DEF Select!newClient
  <2>2. CASE accepted = -1
    <3>1. UNCHANGED sockets /\ readfds' = readfds /\ maxFd' = maxFd
      BY <1>1, <2>1, <2>2, AcceptEffect DEF SocketInv
    <3>2. QED
      BY <1>1, <2>1, <3>1, SameSockets DEF SelectInv, Select!TypeOK, Select!Fds, Fds
  <2>3. CASE accepted # -1
    <3>1. Accepts(accepted) /\ accepted \in 1 .. limit /\ accepted \in Fds \ OpenFds
      BY <2>1, <2>3, AcceptEffect DEF SocketInv
    <3>2. /\ SocketInv' /\ OpenFds' = OpenFds \cup {accepted}
          /\ ReadableFds \subseteq ReadableFds'
      BY <3>1, AcceptsKeeps
    <3>3. /\ readfds' = OpenFds' /\ readfds' \subseteq Fds
          /\ maxFd' \in 0 .. MaxFd /\ \A f \in readfds' : f <= maxFd'
      BY <1>1, <1>2, <2>1, <3>1, <3>2
    <3>4. tmp' \ {0} \subseteq ReadableFds' /\ tmp' \subseteq Fds \cup {0}
      BY <1>1, <2>1, <3>2
    <3>5. QED
      BY <2>1, <3>2, <3>3, <3>4 DEF SelectInv, Select!TypeOK, Select!Fds, Fds
  <2>4. QED
    BY <2>2, <2>3
<1>5. CASE Select!talk
  <2> DEFINE f == Min(tmp)
  <2>1. /\ selectPc = "scan" /\ selectPc' = "scan" /\ tmp # {} /\ 0 \notin tmp
        /\ echo(f) /\ maxFd' = maxFd
        /\ \/ readfds' = readfds \ {f} /\ close(f) /\ tmp' = {}
           \/ UNCHANGED <<readfds, peer>> /\ tmp' \subseteq tmp \ {f}
    BY <1>5, SelectNames DEF Select!talk
  <2>2. f \in ReadableFds
    <3>1. tmp \subseteq Nat
      BY <1>1, <1>2
    <3>2. f \in tmp
      BY <2>1, <3>1, MinIn
    <3>3. QED
      BY <1>1, <2>1, <3>2
  <2> HIDE DEF f
  <2>3. /\ SocketInv'
        /\ close(f) => OpenFds' = OpenFds \ {f}
        /\ UNCHANGED peer => OpenFds' = OpenFds
        /\ ReadableFds \ {f} \subseteq ReadableFds'
    BY <2>1, <2>2, EchoKeeps
  <2>4. readfds' = OpenFds' /\ readfds' \subseteq readfds
    BY <1>1, <2>1, <2>3
  <2>5. tmp' \ {0} \subseteq ReadableFds' /\ tmp' \subseteq Fds \cup {0}
    BY <1>1, <2>1, <2>3
  <2>6. QED
    BY <1>1, <2>1, <2>3, <2>4, <2>5 DEF SelectInv, Select!TypeOK, Select!Fds, Fds
<1>6. CASE Select!scanned
  <2>1. UNCHANGED <<sockets, readfds, maxFd, tmp>> /\ selectPc' = "wait"
    BY <1>6 DEF Select!scanned, Select!sockets, sockets, Select!clientVars, clientVars
  <2>2. QED
    BY <1>1, <2>1, SameSockets DEF SelectInv, Select!TypeOK, Select!Fds, Fds
<1>7. QED
  BY <1>3, <1>4, <1>5, <1>6 DEF Select!Step

-------------------------------------------------------------------------------
(***************************************************************************)
(* epoll_server.c.                                                         *)
(***************************************************************************)

\* Its steps keep the interest list equal to the open descriptors, and what is left of
\* the reported ones readable.
LEMMA EpollSteps ==
  ASSUME SocketInv, Epoll!TypeOK, EpollInv, program = "epoll", UNCHANGED program,
         Epoll!Step
  PROVE  SocketInv' /\ Epoll!TypeOK' /\ EpollInv'
<1>1. /\ interest = OpenFds
      /\ epollPc = "scan" => events \ {0} \subseteq ReadableFds
      /\ epollPc \in {"wait", "scan", "stopped"}
      /\ events \subseteq Fds \cup {0} /\ interest \subseteq Fds
  BY DEF EpollInv, Epoll!TypeOK, Epoll!Fds, Fds
<1>2. /\ Fds \subseteq Nat \ {0} /\ ReadableFds \subseteq OpenFds /\ OpenFds \subseteq Fds
  BY FdFacts DEF SocketInv
<1>3. CASE Epoll!epoll_wait
  <2>1. /\ UNCHANGED <<sockets, interest>> /\ epollPc' = "scan"
        /\ events' = (OpenFds \cap ReadableFds) \cup (IF backlog = <<>> THEN {} ELSE {0})
    BY <1>1, <1>3, EpollNames DEF Epoll!epoll_wait, Epoll!sockets, sockets,
       Epoll!clientVars, clientVars
  <2>2. QED
    BY <1>1, <1>2, <2>1, SameSockets DEF EpollInv, Epoll!TypeOK, Epoll!Fds, Fds
<1>4. CASE Epoll!newClient
  <2>1. /\ accept /\ epollPc = "scan" /\ epollPc' = "scan" /\ events' = events \ {0}
        /\ interest' = interest \cup ({accepted} \ {-1})
    BY <1>4, EpollNames DEF Epoll!newClient
  <2>2. CASE accepted = -1
    <3>1. UNCHANGED sockets /\ interest' = interest
      BY <2>1, <2>2, AcceptEffect DEF SocketInv
    <3>2. QED
      BY <1>1, <2>1, <3>1, SameSockets DEF EpollInv, Epoll!TypeOK, Epoll!Fds, Fds
  <2>3. CASE accepted # -1
    <3>1. Accepts(accepted) /\ accepted \in 1 .. limit /\ accepted \in Fds \ OpenFds
      BY <2>1, <2>3, AcceptEffect DEF SocketInv
    <3>2. /\ SocketInv' /\ OpenFds' = OpenFds \cup {accepted}
          /\ ReadableFds \subseteq ReadableFds'
      BY <3>1, AcceptsKeeps
    <3>3. interest' = OpenFds' /\ interest' \subseteq Fds
      BY <1>1, <1>2, <2>1, <2>3, <3>1, <3>2
    <3>4. events' \ {0} \subseteq ReadableFds' /\ events' \subseteq Fds \cup {0}
      BY <1>1, <2>1, <3>2
    <3>5. QED
      BY <2>1, <3>2, <3>3, <3>4 DEF EpollInv, Epoll!TypeOK, Epoll!Fds, Fds
  <2>4. QED
    BY <2>2, <2>3
<1>5. ASSUME NEW f \in Fds, Epoll!talk(f)
      PROVE  SocketInv' /\ Epoll!TypeOK' /\ EpollInv'
  <2>1. /\ epollPc = "scan" /\ epollPc' = "scan" /\ f \in ReadableFds /\ echo(f)
        /\ events' = events \ {f}
        /\ \/ interest' = interest \ {f} /\ close(f)
           \/ UNCHANGED <<interest, peer>>
    BY <1>5, EpollNames DEF Epoll!talk
  <2>2. /\ SocketInv'
        /\ close(f) => OpenFds' = OpenFds \ {f}
        /\ UNCHANGED peer => OpenFds' = OpenFds
        /\ ReadableFds \ {f} \subseteq ReadableFds'
    BY <2>1, EchoKeeps
  <2>3. interest' = OpenFds' /\ interest' \subseteq interest
    BY <1>1, <2>1, <2>2
  <2>4. events' \ {0} \subseteq ReadableFds' /\ events' \subseteq Fds \cup {0}
    BY <1>1, <2>1, <2>2
  <2>5. QED
    BY <1>1, <2>1, <2>2, <2>3, <2>4 DEF EpollInv, Epoll!TypeOK, Epoll!Fds, Fds
<1>6. CASE Epoll!scanned
  <2>1. UNCHANGED <<sockets, interest, events>> /\ epollPc' = "wait"
    BY <1>6 DEF Epoll!scanned, Epoll!sockets, sockets, Epoll!clientVars, clientVars
  <2>2. QED
    BY <1>1, <2>1, SameSockets DEF EpollInv, Epoll!TypeOK, Epoll!Fds, Fds
<1>7. QED
  BY <1>3, <1>4, <1>5, <1>6 DEF Epoll!Step, Epoll!Fds, Fds

-------------------------------------------------------------------------------
(***************************************************************************)
(* server.c.                                                               *)
(***************************************************************************)

\* It accepts once, and ends with its client.
LEMMA SimpleSteps ==
  ASSUME SocketInv, Simple!TypeOK, Simple!Step
  PROVE  SocketInv' /\ Simple!TypeOK'
<1>1. simplePc \in {"accept", "talk", "stopped"} /\ cfd \in Fds \cup {-1, 0}
  BY DEF Simple!TypeOK, Simple!Fds, Fds
<1>2. CASE Simple!serve
  <2>1. accept /\ cfd' = accepted /\ simplePc' \in {"stopped", "talk"}
    BY <1>2, SimpleNames DEF Simple!serve
  <2>2. cfd' \in Fds \cup {-1, 0}
    BY <2>1, AcceptEffect DEF SocketInv
  <2>3. CASE UNCHANGED sockets
    BY <2>1, <2>2, <2>3, SameSockets DEF Simple!TypeOK, Simple!Fds, Fds
  <2>4. CASE accepted # -1 /\ Accepts(accepted)
    <3>1. accepted \in 1 .. limit /\ accepted \in Fds \ OpenFds
      BY <2>4, AcceptEffect DEF SocketInv
    <3>2. SocketInv'
      BY <2>4, <3>1, AcceptsKeeps
    <3>3. QED
      BY <2>1, <2>2, <3>2 DEF Simple!TypeOK, Simple!Fds, Fds
  <2>5. QED
    BY <2>1, <2>3, <2>4, AcceptEffect DEF SocketInv
<1>3. CASE Simple!talk
  <2>1. /\ simplePc' \in {"talk", "stopped"} /\ cfd' = cfd /\ cfd \in ReadableFds
        /\ exit \/ (echo(cfd) /\ UNCHANGED peer)
    BY <1>3, SimpleNames DEF Simple!talk
  <2>2. SocketInv'
    BY <2>1, ExitKeeps, EchoKeeps
  <2>3. QED
    BY <1>1, <2>1, <2>2 DEF Simple!TypeOK, Simple!Fds, Fds
<1>4. QED
  BY <1>2, <1>3 DEF Simple!Step

-------------------------------------------------------------------------------
(***************************************************************************)
(* poll_server.c.                                                          *)
(***************************************************************************)

\* A table as long as the number of descriptors is not full while accept() succeeds.
LEMMA TableNotFull ==
  ASSUME SocketInv, Table, slots \in Nat \ {0}, limit <= slots, accepted # -1,
         \A s \in 1 .. slots : fds[s] # -1
  PROVE  FALSE
<1> DEFINE T == (1 .. limit) \ {accepted}
<1>1. /\ accepted \in 1 .. limit /\ accepted \notin OpenFds /\ limit \in Nat \ {0}
      /\ \A f \in OpenFds : f \in Nat \ {0} /\ f <= limit
  BY AcceptEffect, FdFacts DEF SocketInv, Placed
<1>2. IsFiniteSet(T) /\ Cardinality(T) = limit - 1
  <2> DEFINE I == 1 .. limit
  <2>1. limit \in Int /\ 1 \in Int /\ ~(1 > limit) /\ limit - 1 + 1 = limit
    BY <1>1
  <2>2. IsFiniteSet(I) /\ Cardinality(I) = limit
    BY <2>1, FS_Interval
  <2>3. accepted \in I /\ T = I \ {accepted}
    BY <1>1
  <2> HIDE DEF I, T
  <2>4. QED
    BY <2>2, <2>3, FS_RemoveElement
<1>3. IsFiniteSet(1 .. slots) /\ Cardinality(1 .. slots) = slots
  BY FS_Interval
<1>4. fds \in [1 .. slots -> T]
  BY <1>1 DEF Table
<1>5. Cardinality(T) < Cardinality(1 .. slots)
  BY <1>1, <1>2, <1>3
<1> HIDE DEF T
<1>6. \E r, s \in 1 .. slots : r # s /\ fds[r] = fds[s]
  BY <1>2, <1>3, <1>4, <1>5, FS_PigeonHole
<1>7. QED
  BY <1>6 DEF Table

\* The entry for a new client is free; 0 means that none is.
LEMMA EntryFree ==
  ASSUME slots \in Nat \ {0}
  PROVE  \/ Poll!Entry = 0 /\ \A s \in 1 .. slots : fds[s] # -1
         \/ Poll!Entry \in 1 .. slots /\ fds[Poll!Entry] = -1
<1> DEFINE free == {s \in 1 .. slots : fds[s] = -1}
<1>1. Poll!Entry = IF free = {} THEN 0 ELSE Min(free)
  BY DEF Poll!Entry, Poll!Min, Min
<1>2. ASSUME free # {}
      PROVE  Min(free) \in free
  <2>1. free \subseteq Nat
    OBVIOUS
  <2> HIDE DEF free
  <2>2. QED
    BY <1>2, <2>1, MinIn
<1>3. QED
  BY <1>1, <1>2

\* Accepting a client and storing its descriptor keeps the table, and the entries that
\* were in use.
LEMMA StoreKeeps ==
  ASSUME SocketInv, Table, slots \in Nat \ {0}, UNCHANGED slots, accept, Poll!store
  PROVE  /\ SocketInv' /\ Table' /\ maxPos <= maxPos'
         /\ ReadableFds \subseteq ReadableFds'
         /\ \A s \in 1 .. slots : fds[s] # -1 => fds'[s] = fds[s]
<1> DEFINE e == Poll!Entry
<1>1. /\ fds \in [1 .. slots -> Fds \cup {-1}] /\ maxPos \in 0 .. slots
      /\ \A s \in 1 .. slots : fds[s] # -1 => s <= maxPos /\ fds[s] \in OpenFds
      /\ \A r, s \in 1 .. slots : fds[r] = fds[s] /\ fds[r] # -1 => r = s
      /\ limit <= slots => \A f \in OpenFds : \E s \in 1 .. slots : fds[s] = f
      /\ limit \in Nat
  BY FdFacts DEF Table, SocketInv
<1>2. IF e = 0 THEN UNCHANGED <<fds, maxPos>>
      ELSE /\ fds' = [fds EXCEPT ![e] = accepted]
           /\ maxPos' = IF maxPos > e THEN maxPos ELSE e
  BY PollNames DEF Poll!store
<1>3. \/ e = 0 /\ \A s \in 1 .. slots : fds[s] # -1
      \/ e \in 1 .. slots /\ fds[e] = -1
  BY EntryFree
<1> HIDE DEF e
<1>4. /\ maxPos' \in 0 .. slots /\ maxPos <= maxPos'
      /\ e # 0 => e <= maxPos'
      /\ \A s \in 1 .. slots : fds[s] # -1 => fds'[s] = fds[s] /\ s <= maxPos'
      /\ \A s \in 1 .. slots : s # e => fds'[s] = fds[s]
      /\ e # 0 => e \in 1 .. slots /\ fds'[e] = accepted
  BY <1>1, <1>2, <1>3
<1>5. CASE accepted = -1
  <2>1. UNCHANGED <<sockets, fds>>
    BY <1>1, <1>2, <1>3, <1>5, AcceptEffect DEF SocketInv
  <2>2. /\ SocketInv' /\ OpenFds' = OpenFds /\ ReadableFds' = ReadableFds /\ limit' = limit
    BY <2>1, SameSockets DEF sockets
  <2>3. \A s \in 1 .. slots : fds[s] # -1 => s <= maxPos' /\ fds[s] \in OpenFds
    BY <1>1, <1>4
  <2>4. Table'
    BY <1>1, <1>4, <2>1, <2>2, <2>3 DEF Table
  <2>5. QED
    BY <1>4, <2>1, <2>2, <2>4
<1>6. CASE accepted # -1
  <2>1. Accepts(accepted) /\ accepted \in 1 .. limit /\ accepted \in Fds \ OpenFds
    BY <1>6, AcceptEffect DEF SocketInv
  <2>2. /\ SocketInv' /\ OpenFds' = OpenFds \cup {accepted} /\ limit' = limit
        /\ ReadableFds \subseteq ReadableFds'
    BY <2>1, AcceptsKeeps DEF Accepts
  <2>3. fds' \in [1 .. slots -> Fds \cup {-1}]
    BY <1>1, <1>2, <2>1
  <2>4. ASSUME NEW s \in 1 .. slots, fds'[s] # -1
        PROVE  s <= maxPos' /\ fds'[s] \in OpenFds'
    <3>1. CASE s = e
      BY <1>4, <2>2, <3>1
    <3>2. CASE s # e
      <4>1. fds'[s] = fds[s]
        BY <1>4, <3>2
      <4>2. QED
        BY <1>1, <1>4, <2>2, <2>4, <4>1
    <3>3. QED
      BY <3>1, <3>2
  <2>5. ASSUME NEW r \in 1 .. slots, NEW s \in 1 .. slots,
               fds'[r] = fds'[s], fds'[r] # -1
        PROVE  r = s
    <3>1. \A k \in 1 .. slots : k # e => fds'[k] # accepted
      BY <1>1, <1>4, <1>6, <2>1
    <3>2. QED
      BY <1>1, <1>4, <2>5, <3>1
  <2>6. ASSUME limit <= slots, NEW f \in OpenFds'
        PROVE  \E s \in 1 .. slots : fds'[s] = f
    <3>1. e # 0
      BY <1>1, <1>3, <1>6, <2>6, TableNotFull
    <3>2. CASE f = accepted
      BY <1>4, <3>1, <3>2
    <3>3. CASE f \in OpenFds
      <4>1. PICK s \in 1 .. slots : fds[s] = f
        BY <1>1, <2>6, <3>3
      <4>2. fds[s] # -1
        BY <3>3, <4>1, FdFacts DEF SocketInv
      <4>3. QED
        BY <1>4, <4>1, <4>2
    <3>4. QED
      BY <2>2, <2>6, <3>2, <3>3
  <2>7. Table'
    BY <1>4, <2>2, <2>3, <2>4, <2>5, <2>6 DEF Table
  <2>8. QED
    BY <1>4, <2>2, <2>7
<1>7. QED
  BY <1>5, <1>6

\* The steps of the poll server keep its table, and what poll() has reported readable
\* until its turn.
LEMMA PollSteps ==
  ASSUME SocketInv, Poll!TypeOK, PollInv, program = "poll", UNCHANGED program,
         slots \in Nat \ {0}, Poll!Step
  PROVE  SocketInv' /\ Poll!TypeOK' /\ PollInv' /\ UNCHANGED slots
<1>1. /\ Table
      /\ pollPc = "new" => \A s \in 1 .. polled : revents[s] => fds[s] \in ReadableFds
      /\ pollPc = "scan" => \A s \in todo : s <= polled => fds[s] \in ReadableFds
      /\ pollPc \in {"wait", "new", "scan", "stopped"}
      /\ revents \in [0 .. slots -> BOOLEAN]
      /\ todo \subseteq 1 .. maxPos /\ polled \in 0 .. maxPos
  BY DEF PollInv, Poll!TypeOK
<1>2. /\ fds \in [1 .. slots -> Fds \cup {-1}] /\ maxPos \in 0 .. slots
      /\ \A s \in 1 .. slots : fds[s] # -1 => s <= maxPos /\ fds[s] \in OpenFds
      /\ \A r, s \in 1 .. slots : fds[r] = fds[s] /\ fds[r] # -1 => r = s
      /\ limit <= slots => \A f \in OpenFds : \E s \in 1 .. slots : fds[s] = f
  BY <1>1 DEF Table
<1>3. /\ ReadableFds \subseteq OpenFds /\ OpenFds \subseteq Fds
      /\ Fds \subseteq Nat \ {0} /\ -1 \notin OpenFds
  BY FdFacts DEF SocketInv
<1>4. CASE Poll!poll
  <2>1. /\ UNCHANGED <<sockets, slots, fds, maxPos, todo>>
        /\ pollPc' = "new" /\ polled' = maxPos
        /\ revents' = [s \in 0 .. slots |-> IF s <= maxPos THEN Poll!Ready(s)
                                            ELSE revents[s]]
    BY <1>4 DEF Poll!poll, Poll!sockets, sockets, Poll!clientVars, clientVars
  <2>2. /\ SocketInv' /\ OpenFds' = OpenFds /\ ReadableFds' = ReadableFds /\ limit' = limit
    BY <2>1, SameSockets DEF sockets
  <2>3. \A s \in 0 .. slots : Poll!Ready(s) \in BOOLEAN
    <3> TAKE s \in 0 .. slots
    <3>1. CASE s = 0
      BY <3>1 DEF Poll!Ready
    <3>2. CASE s # 0
      BY <3>2 DEF Poll!Ready
    <3>3. QED
      BY <3>1, <3>2
  <2>4. revents' \in [0 .. slots -> BOOLEAN]
    BY <1>1, <2>1, <2>3
  <2>5. \A s \in 1 .. maxPos : revents'[s] => fds[s] \in ReadableFds
    <3> TAKE s \in 1 .. maxPos
    <3>1. s \in 0 .. slots /\ s <= maxPos /\ s # 0
      BY <1>2
    <3>2. revents'[s] = Poll!Ready(s)
      BY <2>1, <3>1
    <3>3. Poll!Ready(s) <=> fds[s] \in ReadableFds
      BY <3>1, PollNames, Zenon DEF Poll!Ready
    <3>4. QED
      BY <3>2, <3>3, Zenon
  <2>6. Table'
    BY <1>2, <2>1, <2>2 DEF Table
  <2>7. PollInv'
    BY <2>1, <2>2, <2>5, <2>6 DEF PollInv
  <2>8. Poll!TypeOK'
    BY <1>1, <1>2, <2>1, <2>4 DEF Poll!TypeOK, Poll!Fds, Fds
  <2>9. QED
    BY <2>1, <2>2, <2>7, <2>8
<1>5. CASE Poll!newClient
  <2>1. /\ IF revents[0] THEN accept /\ Poll!store ELSE UNCHANGED <<sockets, fds, maxPos>>
        /\ pollPc = "new" /\ pollPc' = "scan" /\ UNCHANGED <<slots, revents, polled>>
        /\ todo' = {s \in 1 .. maxPos' : fds'[s] # -1 /\ revents[s]}
    BY <1>5, PollNames
       DEF Poll!newClient, Poll!sockets, sockets, Poll!clientVars, clientVars
  <2>2. /\ SocketInv' /\ Table' /\ maxPos <= maxPos'
        /\ ReadableFds \subseteq ReadableFds'
        /\ \A s \in 1 .. slots : fds[s] # -1 => fds'[s] = fds[s]
    <3>1. CASE revents[0]
      BY <1>1, <2>1, <3>1, StoreKeeps
    <3>2. CASE ~revents[0]
      <4>1. UNCHANGED <<sockets, fds, maxPos, slots>>
        BY <2>1, <3>2
      <4>2. OpenFds' = OpenFds /\ limit' = limit
        BY <4>1, SameSockets DEF sockets
      <4>3. Table'
        BY <1>2, <4>1, <4>2 DEF Table
      <4>4. QED
        BY <1>2, <4>1, <4>3, SameSockets
    <3>3. QED
      BY <3>1, <3>2
  <2>3. fds' \in [1 .. slots -> Fds \cup {-1}] /\ maxPos' \in 0 .. slots
    BY <2>1, <2>2 DEF Table
  <2>4. ASSUME NEW s \in todo', s <= polled
        PROVE  fds'[s] \in ReadableFds'
    <3>1. s \in 1 .. slots /\ s \in 1 .. polled /\ revents[s]
      BY <1>1, <1>2, <2>1, <2>3, <2>4
    <3>2. fds[s] \in ReadableFds
      BY <1>1, <2>1, <3>1
    <3>3. QED
      BY <1>3, <2>2, <3>1, <3>2
  <2>5. todo' \subseteq 1 .. maxPos' /\ polled' \in 0 .. maxPos'
    BY <1>1, <1>2, <2>1, <2>2, <2>3
  <2>6. QED
    BY <1>1, <2>1, <2>2, <2>3, <2>4, <2>5 DEF PollInv, Poll!TypeOK, Poll!Fds, Fds
<1>6. CASE Poll!talk
  <2> DEFINE t == Min(todo)
  <2> DEFINE f == fds[t]
  <2>1. /\ pollPc = "scan" /\ pollPc' = "scan" /\ todo # {}
        /\ UNCHANGED <<slots, revents, maxPos, polled>>
        /\ f \in ReadableFds /\ echo(f)
        /\ \/ close(f) /\ fds' = [fds EXCEPT ![t] = -1]
           \/ UNCHANGED <<peer, fds>>
        /\ todo' \subseteq todo \ {t}
    BY <1>6, PollNames DEF Poll!talk
  <2>2. t \in todo /\ t \in 1 .. slots
    <3>1. todo \subseteq Nat /\ todo \subseteq 1 .. slots
      BY <1>1, <1>2
    <3>2. t \in todo
      BY <2>1, <3>1, MinIn
    <3> HIDE DEF t
    <3>3. QED
      BY <3>1, <3>2
  <2> HIDE DEF t
  <2>3. /\ SocketInv'
        /\ close(f) => OpenFds' = OpenFds \ {f}
        /\ UNCHANGED peer => OpenFds' = OpenFds
        /\ ReadableFds \ {f} \subseteq ReadableFds'
        /\ limit' = limit
    BY <2>1, EchoKeeps DEF echo
  <2>4. \A s \in 1 .. slots : s # t /\ fds[s] # -1 => fds[s] # f
    BY <1>2, <2>2
  <2>5. /\ \A s \in 1 .. slots : s # t => fds'[s] = fds[s]
        /\ fds' \in [1 .. slots -> Fds \cup {-1}]
        /\ fds'[t] = -1 \/ (fds'[t] = f /\ UNCHANGED <<peer, fds>>)
    BY <1>2, <2>1, <2>2
  <2>6. Table'
    <3>1. CASE UNCHANGED <<peer, fds>>
      BY <1>2, <2>1, <2>3, <3>1 DEF Table
    <3>2. CASE close(f) /\ fds' = [fds EXCEPT ![t] = -1]
      <4>1. OpenFds' = OpenFds \ {f} /\ fds'[t] = -1
        BY <1>2, <2>2, <2>3, <3>2
      <4>2. \A s \in 1 .. slots : fds'[s] # -1 => s <= maxPos /\ fds'[s] \in OpenFds'
        BY <1>2, <2>4, <2>5, <4>1
      <4>3. \A r, s \in 1 .. slots : fds'[r] = fds'[s] /\ fds'[r] # -1 => r = s
        BY <1>2, <2>5, <4>1
      <4>4. ASSUME limit <= slots, NEW g \in OpenFds'
            PROVE  \E s \in 1 .. slots : fds'[s] = g
        <5>1. PICK s \in 1 .. slots : fds[s] = g
          BY <1>2, <4>1, <4>4
        <5>2. s # t
          BY <4>1, <5>1
        <5>3. QED
          BY <2>5, <5>1, <5>2
      <4>5. QED
        BY <1>2, <2>1, <2>3, <2>5, <4>2, <4>3, <4>4 DEF Table
    <3>3. QED
      BY <2>1, <3>1, <3>2
  <2>7. ASSUME NEW s \in todo', s <= polled
        PROVE  fds'[s] \in ReadableFds'
    <3>1. s \in todo /\ s # t /\ s \in 1 .. slots
      BY <1>1, <1>2, <2>1
    <3>2. fds[s] \in ReadableFds /\ fds[s] # f
      BY <1>1, <1>3, <2>1, <2>4, <2>7, <3>1
    <3>3. QED
      BY <2>3, <2>5, <3>1, <3>2
  <2>8. todo' \subseteq 1 .. maxPos
    BY <1>1, <2>1
  <2>9. QED
    BY <1>1, <1>2, <2>1, <2>3, <2>5, <2>6, <2>7, <2>8
       DEF PollInv, Poll!TypeOK, Poll!Fds, Fds
<1>7. CASE Poll!scanned
  <2>1. UNCHANGED <<sockets, slots, fds, revents, maxPos, todo, polled>> /\ pollPc' = "wait"
    BY <1>7 DEF Poll!scanned, Poll!sockets, sockets, Poll!clientVars, clientVars
  <2>2. SocketInv' /\ OpenFds' = OpenFds /\ limit' = limit
    BY <2>1, SameSockets DEF sockets
  <2>3. Table'
    BY <1>2, <2>1, <2>2 DEF Table
  <2>4. QED
    BY <1>1, <1>2, <2>1, <2>2, <2>3 DEF PollInv, Poll!TypeOK, Poll!Fds, Fds
<1>8. QED
  BY <1>4, <1>5, <1>6, <1>7 DEF Poll!Step

-------------------------------------------------------------------------------
(***************************************************************************)
(* mulServer.c.                                                            *)
(***************************************************************************)

\* main's search for a slot and a descriptor.
LEMMA SearchKeeps ==
  ASSUME SocketInv, MulTyped, Slotted, Mul!search
  PROVE  SocketInv' /\ MulTyped' /\ Slotted'
<1>1. UNCHANGED <<slots, infos, overrun>>
  BY DEF Mul!search
<1>2. CASE accepted = -1
  <2>1. /\ exit /\ mainPc' = "stopped" /\ UNCHANGED <<pinfo, next, limit>>
        /\ thread' = [c \in Clients |->
                        [at |-> "none", slot |-> 0, on |-> NoClient,
                         request |-> Mul!NoRequest]]
    BY <1>2, MulNames DEF Mul!search, Mul!NoThread, exit
  <2>2. SocketInv' /\ OpenFds' = {}
    BY <2>1, ExitKeeps
  <2>3. [at |-> "none", slot |-> 0, on |-> NoClient,
         request |-> Mul!NoRequest] \in ThreadStates
    BY DEF ThreadStates, Places, MulTyped, Requests
  <2>4. MulTyped'
    BY <1>1, <2>1, <2>3 DEF MulTyped, ThreadStates
  <2>5. /\ \A c \in Clients : thread'[c].at = "none" /\ thread'[c].on = NoClient
    BY <2>1
  <2>6. Threads' = {} /\ Mul!Talking' = {}
    BY <2>5 DEF Threads, Mul!Talking
  <2>7. Slotted'
    BY <1>1, <2>1, <2>2, <2>5, <2>6 DEF Slotted
  <2>8. QED
    BY <2>2, <2>4, <2>7
<1>3. CASE accepted # -1
  <2>1. /\ UNCHANGED <<sockets, thread>> /\ mainPc' = "accept"
        /\ pinfo' = IF Mul!FreeSlots = {} THEN pinfo ELSE Min(Mul!FreeSlots)
        /\ next' = accepted
    BY <1>3, MulNames DEF Mul!search, Mul!sockets, sockets, Mul!clientVars, clientVars
  <2>2. accepted \in 1 .. limit /\ accepted \in Fds \ OpenFds
    BY <1>3, AcceptEffect DEF SocketInv
  <2>3. Mul!FreeSlots = {s \in 1 .. slots : infos[s] = -1}
    BY DEF Mul!FreeSlots
  <2>4. Mul!FreeSlots # {} => Min(Mul!FreeSlots) \in Mul!FreeSlots
    <3>1. Mul!FreeSlots \in SUBSET Nat
      BY <2>3 DEF MulTyped
    <3>2. QED
      BY <3>1, MinIn, Zenon
  <2>5. pinfo' \in 1 .. slots
    <3>1. CASE Mul!FreeSlots = {}
      <4>1. pinfo # 0
        BY <2>3, <3>1 DEF Slotted, MulTyped
      <4>2. QED
        BY <2>1, <3>1, <4>1 DEF MulTyped
    <3>2. CASE Mul!FreeSlots # {}
      BY <2>1, <2>3, <2>4, <3>2
    <3>3. QED
      BY <3>1, <3>2
  <2>6. MulTyped'
    BY <1>1, <2>1, <2>2, <2>5 DEF MulTyped, ThreadStates
  <2>7. /\ SocketInv' /\ OpenFds' = OpenFds
        /\ \A d : (Present(d)' <=> Present(d)) /\ (Queued(d)' <=> Queued(d))
    BY <2>1, SameSockets
  <2>8. UNCHANGED <<at, number, inbox, outbox, peer, limit>>
    BY <2>1 DEF sockets, clientVars
  <2>9. Threads' = Threads /\ Mul!Talking' = Mul!Talking /\ \A c : SlotOf(c)' = SlotOf(c)
    BY <2>1 DEF Threads, Mul!Talking, SlotOf
  <2>10. peer'[accepted] = NoClient
    BY <2>2, <2>8 DEF OpenFds
  <2>11. pinfo' # 0
    BY <2>5
  <2>12. Slotted'
    BY <1>1, <2>1, <2>2, <2>7, <2>8, <2>9, <2>10, <2>11 DEF Slotted, Latest
  <2>13. QED
    BY <2>6, <2>7, <2>12
<1>4. QED
  BY <1>2, <1>3

\* The thread of a new client.
LEMMA NewThread ==
  [Mul!NoThread EXCEPT !.at = "call", !.slot = pinfo] =
    [at |-> "call", slot |-> pinfo, on |-> NoClient, request |-> Mul!NoRequest]
<1> DEFINE m == [Mul!NoThread EXCEPT !.at = "call"]
<1>1. m = [at |-> "call", slot |-> 0, on |-> NoClient, request |-> Mul!NoRequest]
  BY DEF Mul!NoThread
<1>2. [Mul!NoThread EXCEPT !.at = "call", !.slot = pinfo] = [m EXCEPT !.slot = pinfo]
  OBVIOUS
<1> HIDE DEF m
<1>3. [m EXCEPT !.slot = pinfo] =
        [at |-> "call", slot |-> pinfo, on |-> NoClient, request |-> Mul!NoRequest]
  BY <1>1
<1>4. QED
  BY <1>2, <1>3, Zenon

\* A new client's slot was free, or is overrun.
LEMMA ServeKeeps ==
  ASSUME SocketInv, MulTyped, Slotted, ~overrun, Mul!serve
  PROVE  SocketInv' /\ MulTyped' /\ (~overrun' => Slotted')
<1> DEFINE c == Head(backlog)
<1> DEFINE r == [at |-> "call", slot |-> pinfo, on |-> NoClient, request |-> Mul!NoRequest]
<1>1. /\ mainPc = "accept" /\ backlog # <<>>
      /\ peer' = [peer EXCEPT ![next] = c] /\ backlog' = Tail(backlog)
      /\ infos' = [infos EXCEPT ![pinfo] = next]
      /\ overrun' = (overrun \/ infos[pinfo] # -1)
      /\ thread' = [thread EXCEPT ![c] = r]
      /\ mainPc' = "search"
      /\ UNCHANGED <<clientVars, limit, listening, slots, pinfo, next>>
  <2>1. [Mul!NoThread EXCEPT !.at = "call", !.slot = pinfo] = r
    BY NewThread, Zenon
  <2> HIDE DEF r
  <2>2. QED
    BY <2>1, Zenon DEF Mul!serve, Mul!clientVars, clientVars
<1>2. /\ next \in 1 .. limit /\ next \notin OpenFds /\ pinfo \in 1 .. slots
      /\ next \in Fds
  BY <1>1, FdFacts DEF Slotted, MulTyped, OpenFds, SocketInv
<1>3. Accepts(next)
  BY <1>1 DEF Accepts
<1> HIDE DEF c
<1>4. /\ SocketInv'
      /\ c \in Clients /\ Present(c) /\ Queued(c)
      /\ OpenFds' = OpenFds \cup {next} /\ peer'[next] = c
      /\ \A g \in OpenFds : peer'[g] = peer[g]
      /\ \A d : Queued(d)' => Queued(d) /\ d # c
  BY <1>2, <1>3, AcceptsKeeps DEF c
<1>5. c \notin Threads /\ thread[c].at = "none"
  BY <1>4 DEF Slotted, Threads
<1>6. r \in ThreadStates
  BY <1>2 DEF ThreadStates, Places, MulTyped, Requests
<1>7. /\ thread'[c] = r /\ \A d \in Clients \ {c} : thread'[d] = thread[d]
      /\ thread' \in [Clients -> ThreadStates]
  BY <1>1, <1>4, <1>6 DEF MulTyped
<1>8. /\ infos' \in [1 .. slots -> Fds \cup {-1}]
      /\ infos'[pinfo] = next /\ \A s \in 1 .. slots : s # pinfo => infos'[s] = infos[s]
  BY <1>1, <1>2 DEF MulTyped
<1>9. overrun' \in BOOLEAN
  BY <1>1, Zenon
<1>10. MulTyped'
  BY <1>1, <1>7, <1>8, <1>9 DEF MulTyped, ThreadStates
<1>11. /\ r.at = "call" /\ r.slot = pinfo /\ r.on = NoClient
  OBVIOUS
<1> HIDE DEF r
<1>12. /\ Threads' = Threads \cup {c} /\ Mul!Talking' = Mul!Talking \cup {c}
       /\ \A d \in Threads : d \in Clients /\ thread'[d] = thread[d]
       /\ Mul!Talking \subseteq Threads
  BY <1>4, <1>5, <1>7, <1>11 DEF Threads, Mul!Talking
<1>13. UNCHANGED <<at, number, inbox, outbox, limit>>
  BY <1>1 DEF clientVars
<1>14. ASSUME ~overrun'
       PROVE  Slotted'
  <2>1. infos[pinfo] = -1
    BY <1>1, <1>14
  <2>2. \A d \in Threads : thread[d].slot \in 1 .. slots /\ infos[thread[d].slot] \in Fds
                           /\ thread[d].slot # pinfo /\ d # c
    BY <1>5, <2>1, FdFacts DEF Slotted, SlotOf, SocketInv
  <2>3. \A d \in Threads' :
          thread'[d].slot \in 1 .. slots /\ infos'[thread'[d].slot] \in Fds
    BY <1>2, <1>7, <1>8, <1>11, <1>12, <2>2
  <2>4. \A d \in Threads' : d \in Clients /\ at'[d] \in {"send", "recv", "gone"}
                            /\ \A i \in DOMAIN backlog' : backlog'[i] # d
    BY <1>4, <1>12, <1>13 DEF Slotted, Present, Queued
  <2>5. ASSUME NEW d \in Threads', NEW e \in Threads', thread'[d].slot = thread'[e].slot
        PROVE  d = e
    BY <1>7, <1>11, <1>12, <2>2, <2>5 DEF Slotted, SlotOf
  <2>6. ASSUME NEW d \in Mul!Talking'
        PROVE  peer'[infos'[thread'[d].slot]] = d
    <3>1. CASE d = c
      BY <1>4, <1>7, <1>8, <1>11, <3>1
    <3>2. CASE d \in Mul!Talking
      <4>1. peer[infos[thread[d].slot]] = d /\ d # NoClient /\ d \in Threads
        BY <1>12, <3>2 DEF Slotted, SlotOf
      <4>2. infos[thread[d].slot] \in OpenFds
        BY <2>2, <4>1 DEF OpenFds, SocketInv, SocketsTypeOK
      <4>3. infos'[thread'[d].slot] = infos[thread[d].slot]
        BY <1>8, <1>12, <2>2, <4>1
      <4>4. QED
        BY <1>4, <4>1, <4>2, <4>3
    <3>3. QED
      BY <1>12, <3>1, <3>2
  <2>7. \A f \in OpenFds' : peer'[f] \in Mul!Talking'
    BY <1>4, <1>12 DEF Slotted
  <2>8. \A d \in Clients : thread'[d].on = IF thread'[d].at = "recv" THEN d ELSE NoClient
    BY <1>7, <1>11 DEF Slotted
  <2>9. \A d \in Clients :
          thread'[d].at = "send" /\ at'[d] # "gone" =>
            /\ at'[d] = "recv" /\ inbox'[d] = <<>> /\ outbox'[d] = <<>>
            /\ thread'[d].request = Latest(d)'
    BY <1>7, <1>11, <1>13 DEF Slotted, Latest
  <2>10. pinfo' # 0 /\ mainPc' # "accept"
    BY <1>1, <1>2
  <2>11. QED
    BY <1>1, <2>3, <2>4, <2>5, <2>6, <2>7, <2>8, <2>9, <2>10
       DEF Slotted, SlotOf, Present, Queued
<1>15. QED
  BY <1>4, <1>10, <1>14

\* A thread goes from one place to another ...
LEMMA PlaceSet ==
  ASSUME NEW r \in ThreadStates, NEW p \in Places
  PROVE  [r EXCEPT !.at = p] =
           [at |-> p, slot |-> r.slot, on |-> r.on, request |-> r.request]
BY DEF ThreadStates

\* ... and enters or leaves a recv() ...
LEMMA PlaceOnSet ==
  ASSUME NEW r \in ThreadStates, NEW p \in Places, NEW o
  PROVE  [r EXCEPT !.at = p, !.on = o] =
           [at |-> p, slot |-> r.slot, on |-> o, request |-> r.request]
<1> DEFINE a == [r EXCEPT !.at = p]
<1>1. a = [at |-> p, slot |-> r.slot, on |-> r.on, request |-> r.request]
  BY PlaceSet
<1>2. [r EXCEPT !.at = p, !.on = o] = [a EXCEPT !.on = o]
  OBVIOUS
<1> HIDE DEF a
<1>3. [a EXCEPT !.on = o] = [at |-> p, slot |-> r.slot, on |-> o, request |-> r.request]
  BY <1>1
<1>4. QED
  BY <1>2, <1>3, Zenon

\* ... with a request.
LEMMA RequestSet ==
  ASSUME NEW r \in ThreadStates, NEW q
  PROVE  [r EXCEPT !.at = "send", !.on = NoClient, !.request = q] =
           [at |-> "send", slot |-> r.slot, on |-> NoClient, request |-> q]
<1> DEFINE a == [r EXCEPT !.at = "send", !.on = NoClient]
<1>1. a = [at |-> "send", slot |-> r.slot, on |-> NoClient, request |-> r.request]
  <2>1. "send" \in Places /\ NoClient \in Clients \cup {NoClient}
    BY DEF Places
  <2>2. QED
    BY <2>1, PlaceOnSet, Zenon
<1>2. [r EXCEPT !.at = "send", !.on = NoClient, !.request = q] = [a EXCEPT !.request = q]
  OBVIOUS
<1> HIDE DEF a
<1>3. [a EXCEPT !.request = q] =
        [at |-> "send", slot |-> r.slot, on |-> NoClient, request |-> q]
  BY <1>1
<1>4. QED
  BY <1>2, <1>3, Zenon

\* A step of thread t that goes on talking to its own client.
LEMMA TalkOn ==
  ASSUME MulTyped, Slotted, NEW t \in Mul!Talking, NEW x \in ThreadStates,
         thread' = [thread EXCEPT ![t] = x],
         x.slot = SlotOf(t), x.at \in {"call", "recv", "send", "close"},
         x.on = IF x.at = "recv" THEN t ELSE NoClient,
         x.at = "send" /\ at[t] # "gone" =>
           /\ at'[t] = "recv" /\ inbox'[t] = <<>> /\ outbox'[t] = <<>>
           /\ x.request = Latest(t)',
         \A d \in Clients \ {t} : inbox'[d] = inbox[d] /\ outbox'[d] = outbox[d],
         UNCHANGED <<at, number, backlog, peer, limit, infos, mainPc, pinfo, next, slots,
                     overrun>>
  PROVE  MulTyped' /\ Slotted'
<1>1. t \in Clients /\ t \in Threads
  BY DEF Mul!Talking, Threads
<1>2. /\ thread'[t] = x /\ \A d \in Clients \ {t} : thread'[d] = thread[d]
      /\ thread' \in [Clients -> ThreadStates]
  BY <1>1 DEF MulTyped
<1>3. MulTyped'
  BY <1>2 DEF MulTyped, ThreadStates
<1>4. Threads' = Threads /\ Mul!Talking' = Mul!Talking
  BY <1>1, <1>2 DEF Threads, Mul!Talking
<1>5. \A d \in Clients : thread'[d].slot = thread[d].slot
  BY <1>2 DEF SlotOf
<1>6. OpenFds' = OpenFds
  BY DEF OpenFds
<1>7. \A d \in Threads : d \in Clients
  BY DEF Threads
<1>8. Mul!Talking \subseteq Threads
  BY DEF Mul!Talking, Threads
<1>9. \A d \in Clients : thread'[d].on = IF thread'[d].at = "recv" THEN d ELSE NoClient
  BY <1>2 DEF Slotted
<1>10. \A d \in Clients :
         thread'[d].at = "send" /\ at'[d] # "gone" =>
           /\ at'[d] = "recv" /\ inbox'[d] = <<>> /\ outbox'[d] = <<>>
           /\ thread'[d].request = Latest(d)'
  BY <1>2 DEF Slotted, Latest
<1>11. /\ \A d \in Threads : /\ thread'[d].slot \in 1 .. slots
                             /\ infos[thread'[d].slot] \in Fds
       /\ \A d \in Threads : Present(d)' /\ ~Queued(d)'
       /\ \A d, e \in Threads : thread'[d].slot = thread'[e].slot => d = e
       /\ \A d \in Mul!Talking : peer[infos[thread'[d].slot]] = d
  BY <1>5, <1>7, <1>8 DEF Slotted, SlotOf, Present, Queued
<1>12. Slotted'
  BY <1>4, <1>6, <1>9, <1>10, <1>11 DEF Slotted, SlotOf
<1>13. QED
  BY <1>3, <1>12

\* A thread that talks finds its client's open descriptor in its slot.
LEMMA OwnCfd ==
  ASSUME SocketInv, MulTyped, Slotted, NEW t \in Mul!Talking
  PROVE  /\ t \in Clients /\ SlotOf(t) \in 1 .. slots /\ Mul!cfd(t) = infos[SlotOf(t)]
         /\ Mul!cfd(t) \in Fds /\ Mul!cfd(t) \in OpenFds /\ peer[Mul!cfd(t)] = t
         /\ Mul!Open(Mul!cfd(t))
         /\ thread[t] \in ThreadStates /\ thread[t].slot = SlotOf(t)
<1>1. t \in Clients /\ t \in Threads
  BY DEF Mul!Talking, Threads
<1>2. /\ SlotOf(t) \in 1 .. slots /\ Mul!cfd(t) = infos[SlotOf(t)] /\ Mul!cfd(t) \in Fds
      /\ peer[Mul!cfd(t)] = t /\ t # NoClient
  BY <1>1 DEF Mul!cfd, SlotOf, Slotted
<1>3. Mul!cfd(t) # -1
  BY <1>2, FdFacts DEF SocketInv
<1>4. QED
  BY <1>1, <1>2, <1>3 DEF OpenFds, Mul!Open, MulTyped, SlotOf, SocketInv, SocketsTypeOK

\* recv() is called ...
LEMMA CallKeeps ==
  ASSUME SocketInv, MulTyped, Slotted, NEW t \in Clients, Mul!call(t)
  PROVE  SocketInv' /\ MulTyped' /\ Slotted'
<1>1. t \in Mul!Talking /\ thread[t].at = "call"
  BY DEF Mul!call, Mul!Talking
<1> DEFINE x == [thread[t] EXCEPT !.at = "recv", !.on = t]
<1>2. /\ thread' = [thread EXCEPT ![t] = x]
      /\ UNCHANGED <<sockets, slots, infos, mainPc, pinfo, next, overrun>>
  BY <1>1, OwnCfd DEF Mul!call, Mul!sockets, sockets, Mul!clientVars, clientVars
<1>3. /\ x \in ThreadStates /\ x.at = "recv" /\ x.on = t /\ x.slot = SlotOf(t)
  <2>1. /\ thread[t] \in ThreadStates /\ thread[t].request \in Requests
        /\ "recv" \in Places /\ thread[t].slot = SlotOf(t)
    BY <1>1, OwnCfd DEF ThreadStates, Places
  <2>2. x = [at |-> "recv", slot |-> thread[t].slot, on |-> t,
             request |-> thread[t].request]
    BY <2>1, PlaceOnSet, Zenon
  <2> HIDE DEF x
  <2>3. QED
    BY <2>1, <2>2 DEF ThreadStates
<1> HIDE DEF x
<1>4. UNCHANGED <<at, number, inbox, outbox, backlog, peer, limit>>
  BY <1>2 DEF sockets, clientVars
<1>5. MulTyped' /\ Slotted'
  BY <1>1, <1>2, <1>3, <1>4, TalkOn
<1>6. QED
  BY <1>2, <1>5, SameSockets

\* ... and returns, with the request of the thread's own client if there is one ...
LEMMA RecvKeeps ==
  ASSUME SocketInv, MulTyped, Slotted, NEW t \in Clients, Mul!recv(t)
  PROVE  SocketInv' /\ MulTyped' /\ Slotted'
<1>1. t \in Mul!Talking /\ thread[t].at = "recv" /\ thread[t].on = t
  BY DEF Mul!recv, Mul!Talking, Slotted
<1> DEFINE got == inbox[t] # <<>>
<1> DEFINE x == IF got THEN [thread[t] EXCEPT !.at = "send", !.on = NoClient,
                                              !.request = Head(inbox[t])]
                ELSE [thread[t] EXCEPT !.at = "close", !.on = NoClient]
<1>2. /\ Readable(t) /\ receive(t)
      /\ UNCHANGED <<at, number, outbox, backlog, peer, limit, listening,
                     slots, infos, mainPc, pinfo, next, overrun>>
  BY <1>1, MulNames DEF Mul!recv
<1>3. thread' = [thread EXCEPT ![t] = x]
  <2>1. Finds(t) = "request" <=> got
    BY DEF Finds
  <2>2. CASE got
    BY <1>1, <2>1, <2>2, MulNames DEF Mul!recv
  <2>3. CASE ~got
    BY <1>1, <2>1, <2>3, MulNames DEF Mul!recv
  <2>4. QED
    BY <2>2, <2>3
<1>4. SocketsTypeOK /\ Conversations /\ Placed /\ inbox[t] \in Seq(Messages)
  BY DEF SocketInv, SocketsTypeOK
<1>5. got => /\ inbox[t] = <<Latest(t)>> /\ outbox[t] = <<>>
             /\ at[t] \in {"recv", "gone"} /\ Head(inbox[t]) = Latest(t)
             /\ Head(inbox[t]) \in Messages
  <2> SUFFICES ASSUME got
               PROVE  /\ inbox[t] = <<Latest(t)>> /\ outbox[t] = <<>>
                      /\ at[t] \in {"recv", "gone"} /\ Head(inbox[t]) = Latest(t)
                      /\ Head(inbox[t]) \in Messages
    OBVIOUS
  <2>1. /\ inbox[t] = <<Latest(t)>> /\ outbox[t] = <<>>
        /\ at[t] \in {"recv", "gone"}
    BY <1>4, ClientFacts DEF Conversations, Conversation
  <2>2. Head(inbox[t]) = Latest(t)
    <3> DEFINE y == Latest(t)
    <3>1. inbox[t] = <<y>>
      BY <2>1
    <3> HIDE DEF y
    <3>2. Head(inbox[t]) = y
      BY <3>1, y \in {y}, Single
    <3>3. QED
      BY <3>2 DEF y
  <2>3. Head(inbox[t]) \in Messages
    BY <1>4, HeadTailProperties
  <2>4. QED
    BY <2>1, <2>2, <2>3
<1>6. /\ x \in ThreadStates /\ x.at = (IF got THEN "send" ELSE "close") /\ x.on = NoClient
      /\ x.slot = SlotOf(t)
      /\ got => x.request = Head(inbox[t])
  <2>1. /\ thread[t] \in ThreadStates /\ thread[t].request \in Requests
        /\ "send" \in Places /\ "close" \in Places /\ thread[t].slot = SlotOf(t)
    BY <1>1, OwnCfd DEF ThreadStates, Places
  <2>2. CASE got
    <3> DEFINE q == Head(inbox[t])
    <3>1. q \in Requests
      BY <1>5, <2>2 DEF Requests
    <3>2. x = [at |-> "send", slot |-> thread[t].slot, on |-> NoClient, request |-> q]
      <4>1. x = [thread[t] EXCEPT !.at = "send", !.on = NoClient, !.request = q]
        BY <2>2, Zenon
      <4> HIDE DEF x, q, got
      <4>2. ASSUME NEW r \in ThreadStates
            PROVE  [r EXCEPT !.at = "send", !.on = NoClient, !.request = q] =
                     [at |-> "send", slot |-> r.slot, on |-> NoClient, request |-> q]
        BY <3>1, RequestSet, Zenon
      <4>3. QED
        BY <2>1, <4>1, <4>2, Zenon
    <3> HIDE DEF x, q
    <3>3. /\ x \in ThreadStates /\ x.at = "send" /\ x.on = NoClient
          /\ x.slot = thread[t].slot /\ x.request = q
      BY <2>1, <3>1, <3>2 DEF ThreadStates
    <3>4. QED
      BY <2>1, <2>2, <3>3 DEF q
  <2>3. CASE ~got
    <3>1. x = [at |-> "close", slot |-> thread[t].slot, on |-> NoClient,
               request |-> thread[t].request]
      BY <2>1, <2>3, PlaceOnSet, Zenon
    <3> HIDE DEF x
    <3>2. /\ x \in ThreadStates /\ x.at = "close" /\ x.on = NoClient
          /\ x.slot = thread[t].slot
      BY <2>1, <3>1 DEF ThreadStates
    <3>3. QED
      BY <2>1, <2>3, <3>2
  <2>4. QED
    BY <2>2, <2>3
<1> HIDE DEF x
<1>7. /\ Conversations' /\ aborted' \subseteq Clients
      /\ inbox' \in [Clients -> Seq(Messages)]
      /\ \A d \in Clients \ {t} : inbox'[d] = inbox[d]
      /\ inbox'[t] = <<>>
  BY <1>2, <1>4, TalkingKeeps DEF receive, SocketsTypeOK
<1>8. MulTyped' /\ Slotted'
  <2>1. x.at = "send" /\ at[t] # "gone" =>
          /\ at'[t] = "recv" /\ inbox'[t] = <<>> /\ outbox'[t] = <<>>
          /\ x.request = Latest(t)'
    BY <1>2, <1>5, <1>6, <1>7 DEF Latest
  <2>2. x.at \in {"send", "close"}
    BY <1>6
  <2>3. QED
    BY <1>1, <1>2, <1>3, <1>6, <1>7, <2>1, <2>2, TalkOn
<1>9. SocketsTypeOK'
  BY <1>2, <1>4, <1>7 DEF SocketsTypeOK
<1>10. Placed'
  BY <1>2, <1>4, ClosingKeeps
<1>11. QED
  BY <1>7, <1>8, <1>9, <1>10 DEF SocketInv


\* ... which the thread's own client gets back.
LEMMA SendKeeps ==
  ASSUME SocketInv, MulTyped, Slotted, NEW t \in Clients, Mul!send(t)
  PROVE  SocketInv' /\ MulTyped' /\ Slotted'
<1>1. t \in Mul!Talking /\ thread[t].at = "send"
  BY DEF Mul!send, Mul!Goto, Mul!Talking
<1> DEFINE x == [thread[t] EXCEPT !.at = "call"]
<1>2. /\ thread' = [thread EXCEPT ![t] = x]
      /\ deliver(t, thread[t].request)
      /\ UNCHANGED <<at, number, inbox, aborted, backlog, peer, limit, listening,
                     slots, infos, mainPc, pinfo, next, overrun>>
  <2>1. /\ Mul!Goto(t, "send", "call")
        /\ Mul!deliver(t, thread[t].request)
        /\ UNCHANGED <<at, number, inbox, aborted, backlog, peer, limit, listening, infos>>
    BY <1>1, OwnCfd DEF Mul!send
  <2>2. QED
    BY <2>1, MulNames DEF Mul!Goto
<1>3. /\ x \in ThreadStates /\ x.at = "call" /\ x.on = NoClient /\ x.slot = SlotOf(t)
  <2>1. /\ thread[t] \in ThreadStates /\ thread[t].slot = SlotOf(t)
        /\ thread[t].on = NoClient /\ "call" \in Places
    BY <1>1, OwnCfd DEF Slotted, Places
  <2>2. x = [at |-> "call", slot |-> thread[t].slot, on |-> thread[t].on,
             request |-> thread[t].request]
    BY <2>1, PlaceSet, Zenon
  <2> HIDE DEF x
  <2>3. QED
    BY <2>1, <2>2 DEF ThreadStates
<1> HIDE DEF x
<1>4. SocketsTypeOK /\ Conversations /\ Placed /\ thread[t].request \in Requests
  BY <1>1, OwnCfd DEF SocketInv, ThreadStates
<1>5. /\ outbox' \in [Clients -> Seq(Messages)]
      /\ \A d \in Clients \ {t} : outbox'[d] = outbox[d]
      /\ Conversation(t)'
  <2>1. outbox \in [Clients -> Seq(Messages)] /\ Conversation(t)
    BY <1>4 DEF SocketsTypeOK, Conversations
  <2>2. CASE at[t] = "gone"
    BY <1>2, <2>1, <2>2 DEF deliver, Conversation, Latest
  <2>3. CASE at[t] # "gone"
    <3> DEFINE q == thread[t].request
    <3>1. at[t] = "recv" /\ inbox[t] = <<>> /\ outbox[t] = <<>> /\ q = Latest(t)
      BY <1>1, <2>3 DEF Slotted
    <3>2. q \in Messages /\ outbox' = [outbox EXCEPT ![t] = Append(outbox[t], q)]
      <4>1. q # Mul!NoRequest
        BY <3>1 DEF Latest, Mul!NoRequest
      <4>2. QED
        BY <1>2, <1>4, <2>3, <4>1 DEF deliver, Requests
    <3> HIDE DEF q
    <3>3. outbox' = [outbox EXCEPT ![t] = <<q>>] /\ <<q>> \in Seq(Messages)
      BY <3>1, <3>2, Single
    <3>4. /\ outbox' \in [Clients -> Seq(Messages)] /\ outbox'[t] = <<q>>
          /\ \A d \in Clients \ {t} : outbox'[d] = outbox[d]
      BY <2>1, <3>3
    <3>5. QED
      BY <1>2, <3>1, <3>4 DEF Conversation, Latest
  <2>4. QED
    BY <2>2, <2>3
<1>6. MulTyped' /\ Slotted'
  BY <1>1, <1>2, <1>3, <1>5, TalkOn
<1>7. SocketsTypeOK'
  BY <1>2, <1>4, <1>5 DEF SocketsTypeOK
<1>8. Conversations'
  BY <1>2, <1>4, <1>5 DEF Conversations, Conversation, Latest
<1>9. Placed'
  BY <1>2, <1>4, ClosingKeeps
<1>10. QED
  BY <1>6, <1>7, <1>8, <1>9 DEF SocketInv

\* The thread closes the descriptor of its own client ...
LEMMA CloseKeeps ==
  ASSUME SocketInv, MulTyped, Slotted, NEW t \in Clients, Mul!closeCfd(t)
  PROVE  SocketInv' /\ MulTyped' /\ Slotted'
<1>1. t \in Mul!Talking /\ thread[t].at = "close" /\ t \in Threads
  BY DEF Mul!closeCfd, Mul!Goto, Mul!Talking, Threads
<1> DEFINE x == [thread[t] EXCEPT !.at = "free"]
<1> DEFINE f == infos[thread[t].slot]
<1>2. f \in OpenFds /\ f \in Fds /\ peer[f] = t /\ Mul!cfd(t) = f /\ Mul!Open(f)
  BY <1>1, OwnCfd
<1>3. /\ thread' = [thread EXCEPT ![t] = x]
      /\ close(f)
      /\ UNCHANGED <<clientVars, backlog, limit, listening,
                     slots, infos, mainPc, pinfo, next, overrun>>
  <2>1. /\ Mul!Goto(t, "close", "free")
        /\ Mul!close(f)
        /\ UNCHANGED <<clientVars, backlog, limit, listening, infos>>
    BY <1>2 DEF Mul!closeCfd, Mul!clientVars, clientVars
  <2>2. QED
    BY <2>1, MulNames DEF Mul!Goto
<1> HIDE DEF f
<1>4. /\ x \in ThreadStates /\ x.at = "free" /\ x.on = NoClient /\ x.slot = thread[t].slot
  <2>1. /\ thread[t] \in ThreadStates
        /\ thread[t].on = NoClient /\ "free" \in Places
    BY <1>1, OwnCfd DEF Slotted, Places
  <2>2. x = [at |-> "free", slot |-> thread[t].slot, on |-> thread[t].on,
             request |-> thread[t].request]
    BY <2>1, PlaceSet, Zenon
  <2> HIDE DEF x
  <2>3. QED
    BY <2>1, <2>2 DEF ThreadStates
<1> HIDE DEF x
<1>5. SocketsTypeOK /\ Conversations /\ Placed
  BY DEF SocketInv
<1>6. UNCHANGED <<at, number, inbox, outbox, aborted>>
  BY <1>3 DEF clientVars
<1>7. /\ peer' \in [Fds -> Clients \cup {NoClient}]
      /\ peer'[f] = NoClient /\ \A g \in Fds : g # f => peer'[g] = peer[g]
  BY <1>2, <1>3, <1>5 DEF close, SocketsTypeOK
<1>8. SocketInv'
  <2>1. SocketsTypeOK'
    BY <1>3, <1>5, <1>6, <1>7 DEF SocketsTypeOK
  <2>2. Conversations'
    BY <1>5, <1>6 DEF Conversations, Conversation, Latest
  <2>3. Placed'
    BY <1>3, <1>5, <1>6, <1>7, ClosingKeeps
  <2>4. QED
    BY <2>1, <2>2, <2>3 DEF SocketInv
<1>9. /\ thread'[t] = x /\ \A d \in Clients \ {t} : thread'[d] = thread[d]
      /\ thread' \in [Clients -> ThreadStates]
  BY <1>3, <1>4 DEF MulTyped
<1>10. MulTyped'
  BY <1>3, <1>9 DEF MulTyped, ThreadStates
<1>11. Slotted'
  <2>1. /\ Threads' = Threads /\ Mul!Talking' = Mul!Talking \ {t}
        /\ Mul!Talking \subseteq Threads
    BY <1>1, <1>4, <1>9 DEF Threads, Mul!Talking
  <2>2. \A d \in Clients : thread'[d].slot = thread[d].slot
    BY <1>4, <1>9
  <2>3. \A d \in Threads : d \in Clients
    BY DEF Threads
  <2>4. \A d \in Clients : thread'[d].on = IF thread'[d].at = "recv" THEN d ELSE NoClient
    BY <1>4, <1>9 DEF Slotted
  <2>5. \A d \in Clients :
          thread'[d].at = "send" /\ at'[d] # "gone" =>
            /\ at'[d] = "recv" /\ inbox'[d] = <<>> /\ outbox'[d] = <<>>
            /\ thread'[d].request = Latest(d)'
    BY <1>4, <1>6, <1>9 DEF Slotted, Latest
  <2>6. /\ \A d \in Threads : /\ thread'[d].slot \in 1 .. slots
                              /\ infos[thread'[d].slot] \in Fds
        /\ \A d \in Threads : Present(d)' /\ ~Queued(d)'
        /\ \A d, e \in Threads : thread'[d].slot = thread'[e].slot => d = e
    BY <1>3, <1>6, <2>2, <2>3 DEF Slotted, SlotOf, Present, Queued
  <2>7. ASSUME NEW d \in Mul!Talking'
        PROVE  peer'[infos'[thread'[d].slot]] = d
    <3>1. d \in Mul!Talking /\ d # t /\ d \in Clients
      BY <2>1, <2>3, <2>7
    <3>2. Mul!cfd(d) = infos[thread[d].slot] /\ Mul!cfd(d) \in Fds /\ peer[Mul!cfd(d)] = d
      BY <3>1, OwnCfd DEF SlotOf
    <3>3. Mul!cfd(d) # f
      BY <1>2, <3>1, <3>2
    <3>4. QED
      BY <1>3, <1>7, <2>2, <3>1, <3>2, <3>3
  <2>8. \A g \in OpenFds' : peer'[g] \in Mul!Talking'
    <3>1. ASSUME NEW g \in OpenFds'
          PROVE  peer'[g] \in Mul!Talking'
      <4>1. g \in Fds /\ g # f /\ peer'[g] = peer[g] /\ g \in OpenFds
        BY <1>7 DEF OpenFds
      <4>2. peer[g] # t
        BY <1>2, <1>5, <4>1 DEF Placed
      <4>3. QED
        BY <2>1, <4>1, <4>2 DEF Slotted
    <3>2. QED
      BY <3>1
  <2>9. mainPc' = "accept" => /\ next' \in 1 .. limit' /\ peer'[next'] = NoClient
                              /\ pinfo' # 0
    BY <1>3, <1>5, <1>7, FdFacts DEF Slotted
  <2>10. QED
    BY <1>3, <2>1, <2>4, <2>5, <2>6, <2>7, <2>8, <2>9 DEF Slotted, SlotOf
<1>12. QED
  BY <1>8, <1>10, <1>11

\* ... and frees its slot.
LEMMA FreeKeeps ==
  ASSUME SocketInv, MulTyped, Slotted, NEW t \in Clients, Mul!free(t)
  PROVE  SocketInv' /\ MulTyped' /\ Slotted'
<1> DEFINE n == [at |-> "none", slot |-> 0, on |-> NoClient,
                 request |-> Mul!NoRequest]
<1>1. /\ thread[t].at = "free" /\ t \in Threads /\ t \notin Mul!Talking
      /\ infos' = [infos EXCEPT ![thread[t].slot] = -1]
      /\ thread' = [thread EXCEPT ![t] = n]
      /\ UNCHANGED <<sockets, slots, mainPc, pinfo, next, overrun>>
  BY DEF Mul!free, Mul!NoThread, Threads, Mul!Talking, Mul!sockets, sockets,
         Mul!clientVars, clientVars
<1>2. /\ n \in ThreadStates /\ n.at = "none" /\ n.slot = 0 /\ n.on = NoClient
  BY DEF ThreadStates, Places, MulTyped, Requests
<1> HIDE DEF n
<1>3. thread[t].slot \in 1 .. slots
  BY <1>1 DEF Slotted, SlotOf
<1>4. /\ thread'[t] = n /\ \A d \in Clients \ {t} : thread'[d] = thread[d]
      /\ thread' \in [Clients -> ThreadStates]
  BY <1>1, <1>2 DEF MulTyped
<1>5. /\ infos' \in [1 .. slots -> Fds \cup {-1}]
      /\ infos'[thread[t].slot] = -1
      /\ \A s \in 1 .. slots : s # thread[t].slot => infos'[s] = infos[s]
  BY <1>1, <1>3 DEF MulTyped
<1>6. MulTyped'
  BY <1>1, <1>4, <1>5 DEF MulTyped, ThreadStates
<1>7. /\ SocketInv' /\ OpenFds' = OpenFds
      /\ \A d : (Present(d)' <=> Present(d)) /\ (Queued(d)' <=> Queued(d))
  BY <1>1, SameSockets
<1>8. UNCHANGED <<at, number, inbox, outbox, peer, limit>>
  BY <1>1 DEF sockets, clientVars
<1>9. /\ Threads' = Threads \ {t} /\ Mul!Talking' = Mul!Talking
      /\ Mul!Talking \subseteq Threads /\ \A d \in Threads : d \in Clients
  BY <1>1, <1>2, <1>4 DEF Threads, Mul!Talking
<1>10. ASSUME NEW d \in Threads'
       PROVE  /\ d \in Threads /\ d \in Clients /\ d # t /\ thread'[d] = thread[d]
              /\ thread[d].slot \in 1 .. slots /\ thread[d].slot # thread[t].slot
              /\ infos'[thread[d].slot] = infos[thread[d].slot]
              /\ infos[thread[d].slot] \in Fds
  <2>1. d \in Threads /\ d \in Clients /\ d # t
    BY <1>9
  <2>2. /\ thread[d].slot \in 1 .. slots /\ thread[d].slot # thread[t].slot
        /\ infos[thread[d].slot] \in Fds
    BY <1>1, <2>1 DEF Slotted, SlotOf
  <2>3. QED
    BY <1>4, <1>5, <2>1, <2>2
<1>11. Slotted'
  <2>1. \A d \in Threads' : /\ thread'[d].slot \in 1 .. slots
                            /\ infos'[thread'[d].slot] \in Fds
                            /\ Present(d)' /\ ~Queued(d)'
    BY <1>7, <1>10 DEF Slotted
  <2>2. \A d, e \in Threads' : thread'[d].slot = thread'[e].slot => d = e
    BY <1>10 DEF Slotted, SlotOf
  <2>3. \A d \in Mul!Talking' : peer'[infos'[thread'[d].slot]] = d
    BY <1>1, <1>8, <1>9, <1>10 DEF Slotted, SlotOf
  <2>4. \A f \in OpenFds' : peer'[f] \in Mul!Talking'
    BY <1>7, <1>8, <1>9 DEF Slotted
  <2>5. \A d \in Clients : thread'[d].on = IF thread'[d].at = "recv" THEN d ELSE NoClient
    BY <1>2, <1>4 DEF Slotted
  <2>6. \A d \in Clients :
          thread'[d].at = "send" /\ at'[d] # "gone" =>
            /\ at'[d] = "recv" /\ inbox'[d] = <<>> /\ outbox'[d] = <<>>
            /\ thread'[d].request = Latest(d)'
    BY <1>2, <1>4, <1>8 DEF Slotted, Latest
  <2>7. \A s \in 1 .. slots : pinfo = 0 => infos'[s] = -1
    BY <1>3, <1>5 DEF Slotted
  <2>8. QED
    BY <1>1, <1>8, <2>1, <2>2, <2>3, <2>4, <2>5, <2>6, <2>7 DEF Slotted, SlotOf
<1>12. QED
  BY <1>6, <1>7, <1>11


\* Clients let a mulServer.c that has overrun no slot alone.
LEMMA WaitingKeeps ==
  ASSUME SocketInv, MulTyped, Slotted, ClientNext(Held), UNCHANGED <<slots, mulVars>>
  PROVE  Slotted'
<1>1. /\ UNCHANGED <<slots, infos, mainPc, pinfo, next, thread, overrun>>
      /\ \A c \in Threads : c \in Clients
  BY DEF mulVars, Threads
<1>2. /\ \A f \in OpenFds : peer[f] \in Held
      /\ \A c \in Threads : c \in Held
  BY Zenon, FdFacts DEF Held, OpenFds, Threads, SocketInv, Range, SocketsTypeOK
<1>3. /\ UNCHANGED <<peer, limit>> /\ OpenFds' = OpenFds
      /\ \A d \in Held : Present(d) => Present(d)'
      /\ \A d : Present(d) /\ Queued(d)' => Queued(d)
      /\ \A d \in Held \cap Clients :
           at[d] = "recv" /\ inbox[d] = <<>> /\ outbox[d] = <<>> /\ at'[d] # "gone" =>
             /\ at'[d] = "recv" /\ inbox'[d] = <<>> /\ outbox'[d] = <<>>
             /\ number'[d] = number[d]
      /\ \A d \in Held \cap Clients : at[d] = "gone" => at'[d] = "gone"
  <2> SUFFICES ASSUME NEW H, H = Held
               PROVE  /\ UNCHANGED <<peer, limit>> /\ OpenFds' = OpenFds
                      /\ \A d \in H : Present(d) => Present(d)'
                      /\ \A d : Present(d) /\ Queued(d)' => Queued(d)
                      /\ \A d \in H \cap Clients :
                           /\ at[d] = "recv" /\ inbox[d] = <<>> /\ outbox[d] = <<>>
                           /\ at'[d] # "gone"
                           => /\ at'[d] = "recv" /\ inbox'[d] = <<>>
                              /\ outbox'[d] = <<>> /\ number'[d] = number[d]
                      /\ \A d \in H \cap Clients : at[d] = "gone" => at'[d] = "gone"
    OBVIOUS
  <2>1. ClientNext(H) /\ \A f \in OpenFds : peer[f] \in H
    BY <1>2
  <2>2. QED
    BY <2>1, ClientKeeps
<1>4. /\ Threads' = Threads /\ Mul!Talking' = Mul!Talking
      /\ \A c : SlotOf(c)' = SlotOf(c)
  BY <1>1 DEF Threads, Mul!Talking, SlotOf
<1>5. \A c \in Threads : Present(c)' /\ ~Queued(c)'
  BY <1>2, <1>3 DEF Slotted
<1>6. ASSUME NEW c \in Clients, thread'[c].at = "send", at'[c] # "gone"
      PROVE  /\ at'[c] = "recv" /\ inbox'[c] = <<>> /\ outbox'[c] = <<>>
             /\ thread'[c].request = Latest(c)'
  <2>1. c \in Threads /\ c \in Held \cap Clients /\ thread[c].at = "send"
    BY <1>1, <1>2, <1>6 DEF Threads
  <2>2. at[c] # "gone"
    BY <1>3, <1>6, <2>1
  <2>3. /\ at[c] = "recv" /\ inbox[c] = <<>> /\ outbox[c] = <<>>
        /\ thread[c].request = Latest(c)
    BY <2>1, <2>2 DEF Slotted
  <2>4. QED
    BY <1>1, <1>3, <1>6, <2>1, <2>3 DEF Latest
<1>7. /\ \A c \in Threads' : SlotOf(c)' \in 1 .. slots' /\ infos'[SlotOf(c)'] \in Fds
      /\ \A c, d \in Threads' : SlotOf(c)' = SlotOf(d)' => c = d
      /\ \A c \in Mul!Talking' : peer'[infos'[SlotOf(c)']] = c
      /\ \A f \in OpenFds' : peer'[f] \in Mul!Talking'
  BY <1>1, <1>3, <1>4 DEF Slotted
<1>8. /\ \A c \in Clients : thread'[c].on = IF thread'[c].at = "recv" THEN c ELSE NoClient
      /\ mainPc' = "accept" => /\ next' \in 1 .. limit' /\ peer'[next'] = NoClient
                               /\ pinfo' # 0
      /\ pinfo' = 0 => \A s \in 1 .. slots' : infos'[s] = -1
  BY <1>1, <1>3 DEF Slotted
<1>9. QED
  BY <1>4, <1>5, <1>6, <1>7, <1>8 DEF Slotted, SlotOf

\* With fewer clients than slots one is free.
LEMMA SlotFree ==
  ASSUME MulTyped, Occupied, mainPc # "stopped", Cardinality(Clients) < slots
  PROVE  Mul!FreeSlots # {}
<1> SUFFICES ASSUME \A s \in 1 .. slots : infos[s] # -1
             PROVE  FALSE
  BY DEF Mul!FreeSlots
<1> DEFINE f == [s \in 1 .. slots |-> CHOOSE c \in Threads : SlotOf(c) = s]
<1>1. \A s \in 1 .. slots : f[s] \in Clients /\ SlotOf(f[s]) = s
  <2>1. \A s \in 1 .. slots : \E c \in Threads : SlotOf(c) = s
    BY DEF Occupied
  <2>2. Threads \subseteq Clients
    BY DEF Threads
  <2>3. QED
    BY <2>1, <2>2
<1>2. IsFiniteSet(1 .. slots) /\ Cardinality(1 .. slots) = slots
  BY FS_Interval DEF MulTyped
<1>3. f \in [1 .. slots -> Clients]
  BY <1>1
<1> HIDE DEF f
<1>4. PICK r, s \in 1 .. slots : r # s /\ f[r] = f[s]
  BY <1>2, <1>3, FiniteAssumption, FS_PigeonHole
<1>5. QED
  BY <1>1, <1>4

\* A step of a thread that keeps its slot.
LEMMA SlotsKept ==
  ASSUME MulTyped, Occupied, NEW t \in Threads, NEW y,
         thread' = [thread EXCEPT ![t] = y], y.slot = SlotOf(t), y.at # "none",
         UNCHANGED <<slots, infos, mainPc, pinfo>>
  PROVE  Occupied'
<1>1. t \in Clients
  BY DEF Threads
<1>2. /\ Threads' = Threads
      /\ \A c \in Threads : SlotOf(c)' = SlotOf(c)
  BY <1>1 DEF Threads, SlotOf, MulTyped
<1>3. QED
  BY <1>2 DEF Occupied

\* With fewer clients than slots, main and the threads leave it so that no slot is
\* overrun.
LEMMA RoomKept ==
  ASSUME SocketInv, MulTyped, Slotted, ~overrun, Occupied, Cardinality(Clients) < slots,
         Mul!Main \/ \E c \in Clients : Mul!working(c)
  PROVE  ~overrun' /\ Occupied'
<1>1. CASE Mul!search
  <2>1. UNCHANGED <<slots, infos, overrun>> /\ mainPc = "search"
    BY <1>1 DEF Mul!search
  <2>2. CASE accepted = -1
    <3>1. mainPc' = "stopped"
      BY <1>1, <2>2, MulNames DEF Mul!search
    <3>2. QED
      BY <2>1, <3>1 DEF Occupied
  <2>3. CASE accepted # -1
    <3>1. /\ thread' = thread
          /\ pinfo' = IF Mul!FreeSlots = {} THEN pinfo ELSE Min(Mul!FreeSlots)
      BY <1>1, <2>3, MulNames DEF Mul!search
    <3>2. Mul!FreeSlots # {} /\ Mul!FreeSlots \in SUBSET Nat
      BY <2>1, SlotFree DEF Mul!FreeSlots, MulTyped
    <3>3. Min(Mul!FreeSlots) \in Mul!FreeSlots
      BY <3>2, MinIn, Zenon
    <3>4. infos[pinfo'] = -1
      BY <3>1, <3>2, <3>3 DEF Mul!FreeSlots
    <3>5. Threads' = Threads /\ \A c : SlotOf(c)' = SlotOf(c)
      BY <3>1 DEF Threads, SlotOf
    <3>6. QED
      BY <2>1, <3>4, <3>5 DEF Occupied
  <2>4. QED
    BY <2>2, <2>3
<1>2. CASE Mul!serve
  <2>1. PICK c :
        /\ c = Head(backlog)
        /\ mainPc = "accept" /\ mainPc' = "search" /\ UNCHANGED <<slots, pinfo>>
        /\ infos' = [infos EXCEPT ![pinfo] = next]
        /\ overrun' = (overrun \/ infos[pinfo] # -1)
        /\ thread' = [thread EXCEPT ![c] = [at |-> "call", slot |-> pinfo,
                                            on |-> NoClient, request |-> Mul!NoRequest]]
    BY <1>2, NewThread, Zenon DEF Mul!serve
  <2>2. ~overrun'
    BY <2>1 DEF Occupied
  <2>3. c \in Clients /\ c \notin Threads
    <3>1. backlog # <<>> /\ backlog \in Seq(Clients)
      BY <1>2 DEF Mul!serve, SocketInv, SocketsTypeOK
    <3>2. Len(backlog) > 0 /\ c = backlog[1] /\ 1 \in DOMAIN backlog /\ c \in Clients
      BY <2>1, <3>1, HeadTailProperties
    <3>3. Queued(c)
      BY <3>2 DEF Queued
    <3>4. QED
      BY <3>2, <3>3 DEF Slotted
  <2>4. /\ c \in Threads' /\ SlotOf(c)' = pinfo
        /\ \A d \in Threads : d \in Threads' /\ SlotOf(d)' = SlotOf(d)
    <3>1. /\ thread'[c].at = "call" /\ thread'[c].slot = pinfo
          /\ \A d \in Clients \ {c} : thread'[d] = thread[d]
      BY <2>1, <2>3 DEF MulTyped
    <3>2. QED
      BY <2>3, <3>1 DEF Threads, SlotOf
  <2>5. \A s \in 1 .. slots : s # pinfo => infos'[s] = infos[s]
    BY <2>1 DEF MulTyped
  <2>6. \A s \in 1 .. slots : infos'[s] # -1 => \E d \in Threads' : SlotOf(d)' = s
    <3>1. ASSUME NEW s \in 1 .. slots, infos'[s] # -1, s # pinfo
          PROVE  \E d \in Threads' : SlotOf(d)' = s
      <4>1. PICK d \in Threads : SlotOf(d) = s
        BY <2>1, <2>5, <3>1 DEF Occupied
      <4>2. QED
        BY <2>4, <4>1
    <3>2. QED
      BY <2>4, <3>1
  <2>7. QED
    BY <2>1, <2>2, <2>6 DEF Occupied
<1>3. ASSUME NEW t \in Clients, Mul!working(t), ~Mul!free(t)
      PROVE  ~overrun' /\ Occupied'
  <2>1. t \in Threads /\ UNCHANGED <<slots, infos, mainPc, pinfo, overrun>>
    BY <1>3 DEF Mul!working, Mul!call, Mul!recv, Mul!send, Mul!closeCfd, Mul!Goto, Threads
  <2>2. thread[t] \in ThreadStates
    BY DEF MulTyped
  <2>3. PICK y : /\ thread' = [thread EXCEPT ![t] = y]
                 /\ y.slot = SlotOf(t) /\ y.at # "none"
    <3> DEFINE goes(p) == [thread[t] EXCEPT !.at = p]
    <3> DEFINE talks(p, o) == [thread[t] EXCEPT !.at = p, !.on = o]
    <3> DEFINE sends(q) == [thread[t] EXCEPT !.at = "send", !.on = NoClient, !.request = q]
    <3>1. \A p \in Places :
            /\ goes(p).slot = SlotOf(t) /\ goes(p).at = p
            /\ \A o : talks(p, o).slot = SlotOf(t) /\ talks(p, o).at = p
      <4> SUFFICES ASSUME NEW p \in Places
                   PROVE  /\ goes(p).slot = SlotOf(t) /\ goes(p).at = p
                          /\ \A o : talks(p, o).slot = SlotOf(t) /\ talks(p, o).at = p
        OBVIOUS
      <4>1. goes(p) = [at |-> p, slot |-> thread[t].slot, on |-> thread[t].on,
                       request |-> thread[t].request]
        BY <2>2, PlaceSet, Zenon
      <4>2. \A o : talks(p, o) = [at |-> p, slot |-> thread[t].slot, on |-> o,
                                  request |-> thread[t].request]
        BY <2>2, PlaceOnSet, Zenon
      <4> HIDE DEF goes, talks
      <4>3. QED
        BY <4>1, <4>2 DEF SlotOf
    <3>2. \A q : sends(q).slot = SlotOf(t) /\ sends(q).at = "send"
      BY <2>2, RequestSet DEF SlotOf
    <3>3. \/ \E p \in Places : /\ p # "none"
                               /\ \/ thread' = [thread EXCEPT ![t] = goes(p)]
                                  \/ \E o : thread' = [thread EXCEPT ![t] = talks(p, o)]
          \/ \E q : thread' = [thread EXCEPT ![t] = sends(q)]
      BY <1>3 DEF Mul!working, Mul!call, Mul!recv, Mul!send, Mul!closeCfd, Mul!Goto, Places
    <3> HIDE DEF goes, talks, sends
    <3>4. QED
      BY <3>1, <3>2, <3>3
  <2>4. QED
    BY <2>1, <2>3, SlotsKept
<1>4. ASSUME NEW t \in Clients, Mul!free(t)
      PROVE  ~overrun' /\ Occupied'
  <2>1. /\ t \in Threads /\ UNCHANGED <<slots, mainPc, pinfo, overrun>>
        /\ infos' = [infos EXCEPT ![SlotOf(t)] = -1]
        /\ \A d \in Clients \ {t} : thread'[d] = thread[d]
    BY <1>4 DEF Mul!free, Threads, SlotOf, MulTyped
  <2>2. infos'[SlotOf(t)] = -1 /\ \A s \in 1 .. slots : infos'[s] \in {infos[s], -1}
    BY <2>1 DEF MulTyped, Slotted
  <2>3. \A d \in Threads \ {t} : d \in Threads' /\ SlotOf(d)' = SlotOf(d)
    BY <2>1 DEF Threads, SlotOf
  <2>4. mainPc = "accept" => pinfo \in 1 .. slots
    BY DEF Slotted, MulTyped
  <2>5. \A s \in 1 .. slots :
          mainPc # "stopped" /\ infos'[s] # -1 => \E d \in Threads' : SlotOf(d)' = s
    BY <2>2, <2>3 DEF Occupied
  <2>6. mainPc = "accept" => infos'[pinfo] = -1
    BY <2>2, <2>4 DEF Occupied
  <2>7. QED
    BY <2>1, <2>5, <2>6 DEF Occupied
<1>5. QED
  BY <1>1, <1>2, <1>3, <1>4 DEF Mul!Main

-------------------------------------------------------------------------------
(***************************************************************************)
(* The class Socket: a socket object owns its descriptor alone.            *)
(***************************************************************************)

USE BoundAssumption

\* An object that had no descriptor and is given a new one, or none, leaves the
\* descriptors with one owner each.
LEMMA HandleGiven ==
  ASSUME HandleInv, NEW o \in Objects, ~Handle!Lives(o),
         Handle!Socket(o) \/ Handle!construct(o)
  PROVE  HandleInv'
<1>1. CASE Handle!Socket(o)
  BY <1>1 DEF HandleInv, Handle!TypeOK, Handle!OneOwner, Handle!Socket, Handle!Lives
<1>2. CASE Handle!construct(o)
  <2>1. PICK f \in (1 .. MaxHandle) \ open :
          fd' = [fd EXCEPT ![o] = f] /\ open' = open \cup {f}
    BY <1>2 DEF Handle!construct
  <2>2. Handle!TypeOK'
    BY <2>1 DEF HandleInv, Handle!TypeOK
  <2>3. \A p \in Objects : fd'[p] = IF p = o THEN f ELSE fd[p]
    BY <2>1 DEF HandleInv, Handle!TypeOK
  <2>4. (\A g \in open : \E p \in Objects : fd[p] = g)'
    <3> SUFFICES ASSUME NEW g \in open' PROVE \E p \in Objects : fd'[p] = g
      OBVIOUS
    <3>1. CASE g = f
      BY <3>1, <2>3
    <3>2. CASE g \in open
      <4>1. PICK p \in Objects : fd[p] = g
        BY <3>2 DEF HandleInv, Handle!OneOwner
      <4>2. p # o
        BY <4>1, <3>2 DEF Handle!Lives, HandleInv, Handle!TypeOK
      <4> QED BY <4>1, <4>2, <2>3
    <3> QED BY <3>1, <3>2, <2>1
  <2>5. (\A p \in Objects : fd[p] > 0 => fd[p] \in open)'
    BY <2>1, <2>3 DEF HandleInv, Handle!OneOwner
  <2>6. (\A p, q \in Objects : fd[p] = fd[q] /\ fd[p] > 0 => p = q)'
    <3> SUFFICES ASSUME NEW p \in Objects, NEW q \in Objects,
                        fd'[p] = fd'[q], fd'[p] > 0
                 PROVE  p = q
      OBVIOUS
    <3>1. ASSUME NEW r \in Objects, r # o, fd'[r] > 0 PROVE fd'[r] # f
      BY <3>1, <2>3, <2>1 DEF HandleInv, Handle!OneOwner
    <3> QED BY <3>1, <2>3 DEF HandleInv, Handle!OneOwner
  <2> QED BY <2>2, <2>4, <2>5, <2>6 DEF HandleInv, Handle!OneOwner
<1> QED BY <1>1, <1>2

\* What moves and the destructor have in common: some objects change their fd, and
\* what is no longer owned is closed.
LEMMA HandlePassed ==
  ASSUME HandleInv, NEW o \in Objects, NEW other \in Objects,
         Handle!moveConstruct(o, other) \/ Handle!moveAssign(o, other) \/ Handle!destroy(o)
  PROVE  HandleInv'
<1> USE DEF HandleInv, Handle!TypeOK, Handle!OneOwner, Handle!Lives
<1>1. CASE Handle!moveConstruct(o, other)
  <2>1. o # other
    BY <1>1 DEF Handle!moveConstruct
  <2>2. \A p \in Objects : fd'[p] = IF p = other THEN -1 ELSE
                                    IF p = o THEN fd[other] ELSE fd[p]
    BY <1>1, <2>1 DEF Handle!moveConstruct
  <2>3. Handle!TypeOK' /\ open' = open
    BY <1>1 DEF Handle!moveConstruct
  <2>4. \A g \in open : \E p \in Objects : fd'[p] = g
    <3> SUFFICES ASSUME NEW g \in open PROVE \E p \in Objects : fd'[p] = g
      OBVIOUS
    <3>1. PICK p \in Objects : fd[p] = g
      OBVIOUS
    <3>2. p # o
      BY <3>1, <1>1 DEF Handle!moveConstruct
    <3> QED BY <3>1, <3>2, <2>2
  <2>5. \A p \in Objects : fd'[p] > 0 => fd'[p] \in open
    BY <2>2
  <2>6. \A p, q \in Objects : fd'[p] = fd'[q] /\ fd'[p] > 0 => p = q
    BY <2>2
  <2> QED BY <2>3, <2>4, <2>5, <2>6
<1>2. CASE Handle!moveAssign(o, other) /\ o # other
  <2>1. \A p \in Objects : fd'[p] = IF p = other THEN -1 ELSE
                                    IF p = o THEN fd[other] ELSE fd[p]
    BY <1>2 DEF Handle!moveAssign
  <2>2. Handle!TypeOK' /\ open' = open \ {fd[o]}
    <3>1. open' = open \ {fd[o]}
      BY <1>2 DEF Handle!moveAssign
    <3>2. fd' = [fd EXCEPT ![o] = fd[other], ![other] = -1]
      BY <1>2 DEF Handle!moveAssign
    <3>3. fd' \in [Objects -> -1 .. MaxHandle]
      BY <3>2
    <3>4. open' \subseteq 1 .. MaxHandle
      BY <3>1
    <3> QED BY <3>1, <3>3, <3>4
  <2>3. \A g \in open' : \E p \in Objects : fd'[p] = g
    <3> SUFFICES ASSUME NEW g \in open' PROVE \E p \in Objects : fd'[p] = g
      OBVIOUS
    <3>1. PICK p \in Objects : fd[p] = g
      BY <2>2
    <3>2. p # o
      BY <3>1, <2>2
    <3> QED BY <3>1, <3>2, <2>1, <1>2
  <2>4. \A p \in Objects : fd'[p] > 0 => fd'[p] \in open'
    <3> SUFFICES ASSUME NEW p \in Objects, fd'[p] > 0 PROVE fd'[p] \in open'
      OBVIOUS
    <3>1. PICK q \in Objects : q # o /\ fd'[p] = fd[q]
      BY <2>1, <1>2
    <3> QED BY <3>1, <2>2
  <2>5. \A p, q \in Objects : fd'[p] = fd'[q] /\ fd'[p] > 0 => p = q
    BY <2>1
  <2> QED BY <2>2, <2>3, <2>4, <2>5
<1>3. CASE Handle!moveAssign(o, other) /\ o = other
  BY <1>3 DEF Handle!moveAssign
<1>4. CASE Handle!destroy(o)
  <2>1. \A p \in Objects : fd'[p] = IF p = o THEN 0 ELSE fd[p]
    BY <1>4 DEF Handle!destroy
  <2>2. Handle!TypeOK' /\ open' = open \ {fd[o]}
    <3>1. open' = open \ {fd[o]}
      BY <1>4 DEF Handle!destroy
    <3>2. fd' \in [Objects -> -1 .. MaxHandle]
      BY <1>4 DEF Handle!destroy
    <3>3. open' \subseteq 1 .. MaxHandle
      BY <3>1
    <3> QED BY <3>1, <3>2, <3>3
  <2>3. \A g \in open' : \E p \in Objects : fd'[p] = g
    <3> SUFFICES ASSUME NEW g \in open' PROVE \E p \in Objects : fd'[p] = g
      OBVIOUS
    <3>1. PICK p \in Objects : fd[p] = g
      BY <2>2
    <3> QED BY <3>1, <2>1, <2>2
  <2>4. \A p \in Objects : fd'[p] > 0 => fd'[p] \in open'
    BY <2>1, <2>2
  <2>5. \A p, q \in Objects : fd'[p] = fd'[q] /\ fd'[p] > 0 => p = q
    BY <2>1
  <2> QED BY <2>2, <2>3, <2>4, <2>5
<1> QED BY <1>1, <1>2, <1>3, <1>4

\* Every constructor, move and destructor keeps the invariant.
LEMMA HandleSteps ==
  ASSUME HandleInv, Handle!Next
  PROVE  HandleInv'
<1>1. PICK o \in Objects :
        \/ Handle!Socket(o) \/ Handle!construct(o) \/ Handle!destroy(o)
        \/ \E other \in Objects : \/ Handle!construct(o)
                                  \/ Handle!moveConstruct(o, other)
                                  \/ Handle!moveAssign(o, other)
  BY DEF Handle!Next, Handle!TcpClient, Handle!TcpServer, Handle!acceptClient
<1>2. CASE Handle!Socket(o) \/ Handle!construct(o)
  BY <1>2, HandleGiven DEF Handle!Socket, Handle!construct
<1>3. CASE Handle!destroy(o)
  BY <1>3, HandlePassed
<1>4. CASE \E other \in Objects : \/ Handle!moveConstruct(o, other)
                                  \/ Handle!moveAssign(o, other)
  BY <1>4, HandlePassed
<1> QED BY <1>1, <1>2, <1>3, <1>4

-------------------------------------------------------------------------------
(***************************************************************************)
(* All programs.                                                           *)
(***************************************************************************)

\* Who does not take part in a step keeps its state: the select server, whose
\* descriptors only become readable, ...
LEMMA SelectIdle ==
  ASSUME Select!TypeOK, SelectInv, UNCHANGED <<fixed, selectVars>>,
         program = "select" => OpenFds' = OpenFds /\ ReadableFds \subseteq ReadableFds'
  PROVE  Select!TypeOK' /\ SelectInv'
<1>1. UNCHANGED <<program, selectPc, readfds, maxFd, tmp>>
  BY DEF fixed, selectVars
<1>2. QED
  BY <1>1 DEF Select!TypeOK, SelectInv, Select!Fds

\* ... the poll server, ...
LEMMA PollIdle ==
  ASSUME Poll!TypeOK, PollInv, UNCHANGED <<fixed, pollVars>>,
         program = "poll" => /\ OpenFds' = OpenFds /\ ReadableFds \subseteq ReadableFds'
                             /\ UNCHANGED limit
  PROVE  Poll!TypeOK' /\ PollInv'
<1>1. UNCHANGED <<program, slots, pollPc, fds, revents, maxPos, todo, polled>>
  BY DEF fixed, pollVars
<1>2. Poll!TypeOK'
  BY <1>1 DEF Poll!TypeOK, Poll!Fds
<1>3. CASE program = "poll"
  <2>1. Table'
    BY <1>1, <1>3 DEF PollInv, Table
  <2>2. QED
    BY <1>1, <1>2, <1>3, <2>1 DEF PollInv, Poll!TypeOK
<1>4. CASE program # "poll"
  BY <1>1, <1>2, <1>4 DEF PollInv
<1>5. QED
  BY <1>3, <1>4

\* ... the epoll server, ...
LEMMA EpollIdle ==
  ASSUME Epoll!TypeOK, EpollInv, UNCHANGED <<fixed, epollVars>>,
         program = "epoll" => OpenFds' = OpenFds /\ ReadableFds \subseteq ReadableFds'
  PROVE  Epoll!TypeOK' /\ EpollInv'
<1>1. UNCHANGED <<program, epollPc, interest, events>>
  BY DEF fixed, epollVars
<1>2. QED
  BY <1>1 DEF Epoll!TypeOK, EpollInv, Epoll!Fds

\* ... mulServer.c, ...
LEMMA MulIdle ==
  ASSUME MulTyped, MulInv, UNCHANGED <<fixed, mulVars>>, SocketInv,
         program = "mul" /\ ~overrun => UNCHANGED sockets \/ ClientNext(Held)
  PROVE  MulTyped' /\ MulInv'
<1>1. UNCHANGED <<program, slots, infos, mainPc, pinfo, next, thread, overrun>>
  BY DEF fixed, mulVars
<1>2. MulTyped'
  BY <1>1 DEF MulTyped, ThreadStates
<1>3. ASSUME program = "mul", ~overrun
      PROVE  Slotted'
  <2>1. Slotted
    BY <1>3 DEF MulInv
  <2>2. CASE UNCHANGED sockets
    <3>1. /\ OpenFds' = OpenFds
          /\ \A d : (Present(d)' <=> Present(d)) /\ (Queued(d)' <=> Queued(d))
      BY <2>2, SameSockets
    <3>2. UNCHANGED <<at, number, inbox, outbox, peer, limit>>
      BY <2>2 DEF sockets, clientVars
    <3>3. /\ Threads' = Threads /\ Mul!Talking' = Mul!Talking
          /\ \A c : SlotOf(c)' = SlotOf(c)
      BY <1>1 DEF Threads, Mul!Talking, SlotOf
    <3>4. QED
      BY <1>1, <2>1, <3>1, <3>2, <3>3 DEF Slotted, Latest
  <2>3. CASE ClientNext(Held)
    BY <1>1, <2>1, <2>3, WaitingKeeps DEF mulVars
  <2>4. QED
    BY <1>3, <2>2, <2>3
<1>4. QED
  BY <1>1, <1>2, <1>3 DEF MulInv

\* ... server.c, the reactor, and the user of the class Socket.
LEMMA OthersIdle ==
  /\ Simple!TypeOK /\ UNCHANGED simpleVars => Simple!TypeOK'
  /\ Reacts!Inv /\ UNCHANGED reactorVars => Reacts!Inv'
  /\ HandleInv /\ UNCHANGED handles => HandleInv'
<1>1. Simple!TypeOK /\ UNCHANGED simpleVars => Simple!TypeOK'
  BY DEF Simple!TypeOK, simpleVars, Simple!Fds
<1>2. Reacts!Inv /\ UNCHANGED reactorVars => Reacts!Inv'
  BY Reacts!InvStep DEF Reacts!vars, reactorVars
<1>3. HandleInv /\ UNCHANGED handles => HandleInv'
  BY DEF HandleInv, Handle!TypeOK, Handle!OneOwner, handles
<1>4. QED
  BY <1>1, <1>2, <1>3

\* mulServer.c's steps.
LEMMA MulSteps ==
  ASSUME SocketInv, MulTyped, MulInv, program = "mul", ~overrun, UNCHANGED program,
         Mul!Main \/ \E c \in Clients : Mul!working(c)
  PROVE  SocketInv' /\ MulTyped' /\ MulInv'
<1>1. Slotted
  BY DEF MulInv
<1>2. CASE Mul!search
  BY <1>1, <1>2, SearchKeeps DEF MulInv
<1>3. CASE Mul!serve
  BY <1>1, <1>3, ServeKeeps DEF MulInv
<1>4. ASSUME NEW c \in Clients, Mul!working(c)
      PROVE  SocketInv' /\ MulTyped' /\ Slotted'
  BY <1>1, <1>4, CallKeeps, RecvKeeps, SendKeeps, CloseKeeps, FreeKeeps DEF Mul!working
<1>5. QED
  BY <1>2, <1>3, <1>4 DEF Mul!Main, MulInv

\* The invariant holds at the start.
LEMMA InvInit == Init => IInv
<1> SUFFICES ASSUME Init
             PROVE  IInv
  OBVIOUS
<1>1. PICK s \in Setups : /\ program = s.program /\ SocketsInit(s.clients)
                          /\ slots = s.slots
  BY DEF Init
<1>2. program \in Programs /\ slots \in Nat \ {0}
  BY <1>1, SetupAssumption
<1>3. /\ OpenFds = {}
      /\ backlog = <<>> /\ backlog \in Seq(Clients) /\ Len(backlog) = 0
      /\ at \in [Clients -> {"new", "absent"}]
      /\ number = [c \in Clients |-> 0]
      /\ inbox = [c \in Clients |-> <<>>] /\ outbox = [c \in Clients |-> <<>>]
      /\ \A f \in Fds : peer[f] = NoClient
  BY <1>1, EmptySeq DEF SocketsInit, OpenFds
<1>4. SocketInv
  <2>1. <<>> \in Seq(Messages)
    BY EmptySeq
  <2>2. SocketsTypeOK
    BY <1>1, <1>3, <2>1 DEF SocketsInit, SocketsTypeOK
  <2>3. Conversations
    BY <1>3 DEF Conversations, Conversation
  <2>4. Placed
    BY <1>3 DEF Placed
  <2>5. QED
    BY <2>2, <2>3, <2>4 DEF SocketInv
<1>5. Select!TypeOK /\ SelectInv
  BY <1>3 DEF Init, Select!Init, Select!TypeOK, SelectInv, Select!Started, Select!Fds
<1>6. Poll!TypeOK /\ PollInv
  BY <1>2, <1>3 DEF Init, Poll!Init, Poll!TypeOK, PollInv, Table, Poll!Started, Poll!Fds
<1>7. Epoll!TypeOK /\ EpollInv
  BY <1>3 DEF Init, Epoll!Init, Epoll!TypeOK, EpollInv, Epoll!Started, Epoll!Fds
<1>8. MulTyped /\ MulInv
  <2>1. /\ infos = [r \in 1 .. slots |-> -1] /\ mainPc \in {"search", "stopped"}
        /\ pinfo = 0 /\ next = 0 /\ overrun = FALSE
        /\ thread = [c \in Clients |->
                       [at |-> "none", slot |-> 0, on |-> NoClient,
                        request |-> Mul!NoRequest]]
    BY DEF Init, Mul!Init, Mul!NoThread, Mul!Started
  <2>2. [at |-> "none", slot |-> 0, on |-> NoClient,
         request |-> Mul!NoRequest] \in ThreadStates
    BY <1>2 DEF ThreadStates, Places, Requests
  <2>3. MulTyped
    <3>1. thread \in [Clients -> ThreadStates]
      BY <2>1, <2>2
    <3>2. infos \in [1 .. slots -> Fds \cup {-1}] /\ pinfo \in 0 .. slots
      BY <1>2, <2>1
    <3>3. QED
      BY <1>2, <2>1, <3>1, <3>2 DEF MulTyped
  <2>4. \A c \in Clients : thread[c].at = "none" /\ thread[c].on = NoClient
    BY <2>1
  <2>5. Threads = {} /\ Mul!Talking = {}
    BY <2>4 DEF Threads, Mul!Talking
  <2>6. Slotted
    BY <1>3, <2>1, <2>4, <2>5 DEF Slotted
  <2>7. QED
    BY <2>3, <2>6 DEF MulInv
<1>9. Simple!TypeOK
  BY DEF Init, Simple!Init, Simple!TypeOK, Simple!Started, Simple!Fds
<1>10. Reacts!Inv
  BY Reacts!InvInit DEF Init, React!Init, Reacts!Init
<1>11. HandleInv
  BY DEF Init, Handle!Init, HandleInv, Handle!TypeOK, Handle!OneOwner
<1>12. QED
  BY <1>2, <1>4, <1>5, <1>6, <1>7, <1>8, <1>9, <1>10, <1>11 DEF IInv

\* What the reactor's module and that of its proofs call by the same name.
LEMMA ReactNames ==
  /\ React!LoopStep <=> Reacts!LoopStep
  /\ React!Environment <=> Reacts!Environment
<1> USE DEF Reacts!Sources, React!Sources, Reacts!KindOf, React!KindOf,
            Reacts!Event, React!Event, Reacts!push, React!push
<1>1. /\ React!wait <=> Reacts!wait
      /\ React!take <=> Reacts!take
      /\ React!callback <=> Reacts!callback
      /\ React!notifySelf <=> Reacts!notifySelf
      /\ React!returnFromMain <=> Reacts!returnFromMain
      /\ React!spuriousWakeup <=> Reacts!spuriousWakeup
  BY DEF React!wait, Reacts!wait, React!take, Reacts!take, React!callback,
         Reacts!callback, React!notifySelf, Reacts!notifySelf,
         React!returnFromMain, Reacts!returnFromMain, React!spuriousWakeup,
         Reacts!spuriousWakeup
<1>2. \A t : /\ React!emit(t) <=> Reacts!emit(t)
             /\ React!notify_one(t) <=> Reacts!notify_one(t)
  BY DEF React!emit, Reacts!emit, React!notify_one, Reacts!notify_one
<1>3. QED
  BY <1>1, <1>2 DEF React!LoopStep, Reacts!LoopStep, React!Environment,
                    Reacts!Environment

\* Every step is one of the reactor's, or leaves it alone.
LEMMA ReactorSteps ==
  [Next]_vars => [Reacts!LoopStep \/ Reacts!Environment]_(Reacts!vars)
<1> SUFFICES ASSUME [Next]_vars
             PROVE  \/ Reacts!LoopStep \/ Reacts!Environment
                    \/ UNCHANGED Reacts!vars
  OBVIOUS
<1> USE DEF Reacts!vars, reactorVars, others
<1>1. CASE SelectStep \/ PollStep \/ EpollStep \/ SimpleStep
  BY <1>1 DEF SelectStep, PollStep, EpollStep, SimpleStep
<1>2. CASE InMul(Mul!Main) \/ \E c \in Clients : InMul(Mul!working(c))
  BY <1>2 DEF InMul
<1>3. CASE InReactor(React!LoopStep) \/ InReactor(React!Environment)
  BY <1>3, ReactNames DEF InReactor
<1>4. CASE InClients(ClientNext(Held))
  BY <1>4 DEF InClients
<1>5. CASE HandleStep
  BY <1>5 DEF HandleStep
<1>6. CASE Done \/ UNCHANGED vars
  BY <1>6 DEF Done, vars
<1>7. QED
  BY <1>1, <1>2, <1>3, <1>4, <1>5, <1>6 DEF Next, MainStep

\* A step of one of the multiplexing servers, or of server.c.
LEMMA ServerStep ==
  ASSUME IInv, SelectStep \/ PollStep \/ EpollStep \/ SimpleStep
  PROVE  IInv'
<1>1. /\ program \in Programs /\ SocketInv /\ Select!TypeOK /\ SelectInv
      /\ Poll!TypeOK /\ PollInv /\ Epoll!TypeOK /\ EpollInv /\ MulTyped /\ MulInv
      /\ Simple!TypeOK /\ Reacts!Inv /\ HandleInv /\ slots \in Nat \ {0}
  BY DEF IInv, MulTyped
<1>2. CASE SelectStep
  <2>1. /\ program = "select" /\ Select!Step /\ UNCHANGED program
        /\ UNCHANGED <<fixed, pollVars, epollVars, mulVars, simpleVars>>
        /\ UNCHANGED <<reactorVars, handles>>
    BY <1>2 DEF SelectStep, others, fixed
  <2>2. SocketInv' /\ Select!TypeOK' /\ SelectInv'
    BY <1>1, <2>1, SelectSteps
  <2>3. Poll!TypeOK' /\ PollInv' /\ Epoll!TypeOK' /\ EpollInv'
    BY <1>1, <2>1, PollIdle, EpollIdle
  <2>4. MulTyped' /\ MulInv'
    BY <1>1, <2>1, MulIdle
  <2>5. QED
    BY <1>1, <2>1, <2>2, <2>3, <2>4, OthersIdle DEF IInv
<1>3. CASE PollStep
  <2>1. /\ program = "poll" /\ Poll!Step /\ UNCHANGED program
        /\ UNCHANGED <<fixed, selectVars, epollVars, mulVars, simpleVars>>
        /\ UNCHANGED <<reactorVars, handles>>
    BY <1>3 DEF PollStep, others, fixed
  <2>2. SocketInv' /\ Poll!TypeOK' /\ PollInv'
    BY <1>1, <2>1, PollSteps
  <2>3. Select!TypeOK' /\ SelectInv' /\ Epoll!TypeOK' /\ EpollInv'
    BY <1>1, <2>1, SelectIdle, EpollIdle
  <2>4. MulTyped' /\ MulInv'
    BY <1>1, <2>1, MulIdle
  <2>5. QED
    BY <1>1, <2>1, <2>2, <2>3, <2>4, OthersIdle DEF IInv
<1>4. CASE EpollStep
  <2>1. /\ program = "epoll" /\ Epoll!Step /\ UNCHANGED program
        /\ UNCHANGED <<fixed, selectVars, pollVars, mulVars, simpleVars>>
        /\ UNCHANGED <<reactorVars, handles>>
    BY <1>4 DEF EpollStep, others, fixed
  <2>2. SocketInv' /\ Epoll!TypeOK' /\ EpollInv'
    BY <1>1, <2>1, EpollSteps
  <2>3. Select!TypeOK' /\ SelectInv' /\ Poll!TypeOK' /\ PollInv'
    BY <1>1, <2>1, SelectIdle, PollIdle
  <2>4. MulTyped' /\ MulInv'
    BY <1>1, <2>1, MulIdle
  <2>5. QED
    BY <1>1, <2>1, <2>2, <2>3, <2>4, OthersIdle DEF IInv
<1>5. CASE SimpleStep
  <2>1. /\ program = "simple" /\ Simple!Step /\ UNCHANGED program
        /\ UNCHANGED <<fixed, selectVars, pollVars, epollVars, mulVars>>
        /\ UNCHANGED <<reactorVars, handles>>
    BY <1>5 DEF SimpleStep, others, fixed
  <2>2. SocketInv' /\ Simple!TypeOK'
    BY <1>1, <2>1, SimpleSteps
  <2>3. /\ Select!TypeOK' /\ SelectInv' /\ Poll!TypeOK' /\ PollInv'
        /\ Epoll!TypeOK' /\ EpollInv'
    BY <1>1, <2>1, SelectIdle, PollIdle, EpollIdle
  <2>4. MulTyped' /\ MulInv'
    BY <1>1, <2>1, MulIdle
  <2>5. QED
    BY <1>1, <2>1, <2>2, <2>3, <2>4, OthersIdle DEF IInv
<1>6. QED
  BY <1>2, <1>3, <1>4, <1>5

\* A step of main or of a thread of mulServer.c.
LEMMA MulStep ==
  ASSUME IInv, InMul(Mul!Main) \/ \E c \in Clients : InMul(Mul!working(c))
  PROVE  IInv'
<1>1. /\ program \in Programs /\ SocketInv /\ Select!TypeOK /\ SelectInv
      /\ Poll!TypeOK /\ PollInv /\ Epoll!TypeOK /\ EpollInv /\ MulTyped /\ MulInv
      /\ Simple!TypeOK /\ Reacts!Inv /\ HandleInv
  BY DEF IInv
<1>2. /\ program = "mul" /\ ~overrun /\ UNCHANGED program
      /\ Mul!Main \/ \E c \in Clients : Mul!working(c)
      /\ UNCHANGED <<fixed, selectVars, pollVars, epollVars, simpleVars>>
      /\ UNCHANGED <<reactorVars, handles>>
  BY DEF InMul, others, fixed
<1>3. SocketInv' /\ MulTyped' /\ MulInv'
  BY <1>1, <1>2, MulSteps
<1>4. /\ Select!TypeOK' /\ SelectInv' /\ Poll!TypeOK' /\ PollInv'
      /\ Epoll!TypeOK' /\ EpollInv'
  BY <1>1, <1>2, SelectIdle, PollIdle, EpollIdle
<1>5. QED
  BY <1>1, <1>2, <1>3, <1>4, OthersIdle DEF IInv

\* A step of a client.
LEMMA ClientsStep ==
  ASSUME IInv, InClients(ClientNext(Held))
  PROVE  IInv'
<1>1. /\ program \in Programs /\ SocketInv /\ Select!TypeOK /\ SelectInv
      /\ Poll!TypeOK /\ PollInv /\ Epoll!TypeOK /\ EpollInv /\ MulTyped /\ MulInv
      /\ Simple!TypeOK /\ Reacts!Inv /\ HandleInv
  BY DEF IInv
<1>2. /\ ClientNext(Held) /\ UNCHANGED program
      /\ UNCHANGED <<fixed, selectVars, pollVars, epollVars, mulVars, simpleVars>>
      /\ UNCHANGED <<reactorVars, handles>>
  BY DEF InClients, servers, others, fixed
<1>3. /\ SocketInv' /\ UNCHANGED limit
      /\ OpenFds' = OpenFds /\ ReadableFds \subseteq ReadableFds'
  <2> SUFFICES ASSUME NEW H, H = Held
               PROVE  /\ SocketInv' /\ UNCHANGED limit /\ OpenFds' = OpenFds
                      /\ ReadableFds \subseteq ReadableFds'
    OBVIOUS
  <2>1. \A f \in OpenFds : peer[f] \in H
    BY <1>1, Zenon, FdFacts DEF Held, OpenFds, SocketInv, Range, SocketsTypeOK
  <2>2. ClientNext(H)
    BY <1>2
  <2>3. QED
    BY <1>1, <2>1, <2>2, ClientKeeps
<1>4. /\ Select!TypeOK' /\ SelectInv' /\ Poll!TypeOK' /\ PollInv'
      /\ Epoll!TypeOK' /\ EpollInv'
  BY <1>1, <1>2, <1>3, SelectIdle, PollIdle, EpollIdle
<1>5. MulTyped' /\ MulInv'
  BY <1>1, <1>2, MulIdle
<1>6. QED
  BY <1>1, <1>2, <1>3, <1>4, <1>5, OthersIdle DEF IInv

\* A step that no server and no client takes part in.
LEMMA OtherStep ==
  ASSUME IInv, UNCHANGED <<fixed, sockets, servers>>, Reacts!Inv', HandleInv'
  PROVE  IInv'
<1>1. /\ program \in Programs /\ SocketInv /\ Select!TypeOK /\ SelectInv
      /\ Poll!TypeOK /\ PollInv /\ Epoll!TypeOK /\ EpollInv /\ MulTyped /\ MulInv
      /\ Simple!TypeOK
  BY DEF IInv
<1>2. /\ UNCHANGED <<fixed, sockets, program>>
      /\ UNCHANGED <<selectVars, pollVars, epollVars, mulVars, simpleVars>>
  BY DEF servers, fixed
<1>3. SocketInv' /\ UNCHANGED limit /\ OpenFds' = OpenFds /\ ReadableFds' = ReadableFds
  BY <1>1, <1>2, SameSockets DEF sockets
<1>4. /\ Select!TypeOK' /\ SelectInv' /\ Poll!TypeOK' /\ PollInv'
      /\ Epoll!TypeOK' /\ EpollInv'
  BY <1>1, <1>2, <1>3, SelectIdle, PollIdle, EpollIdle
<1>5. MulTyped' /\ MulInv'
  BY <1>1, <1>2, MulIdle
<1>6. QED
  BY <1>1, <1>2, <1>3, <1>4, <1>5, OthersIdle DEF IInv

\* Every step keeps the invariant.
LEMMA InvStep == IInv /\ [Next]_vars => IInv'
<1> SUFFICES ASSUME IInv, [Next]_vars
             PROVE  IInv'
  OBVIOUS
<1>1. Reacts!Inv'
  BY ReactorSteps, Reacts!InvStep DEF IInv
<1>2. CASE SelectStep \/ PollStep \/ EpollStep \/ SimpleStep
  BY <1>2, ServerStep
<1>3. CASE InMul(Mul!Main) \/ \E c \in Clients : InMul(Mul!working(c))
  BY <1>3, MulStep
<1>4. CASE InReactor(React!LoopStep) \/ InReactor(React!Environment)
  <2>1. UNCHANGED <<fixed, sockets, servers>> /\ UNCHANGED handles
    BY <1>4 DEF InReactor
  <2>2. HandleInv'
    BY <2>1, OthersIdle DEF IInv
  <2>3. QED
    BY <1>1, <2>1, <2>2, OtherStep
<1>5. CASE InClients(ClientNext(Held))
  BY <1>5, ClientsStep
<1>6. CASE HandleStep
  <2>1. UNCHANGED <<fixed, sockets, servers>> /\ Handle!Next
    BY <1>6 DEF HandleStep
  <2>2. HandleInv'
    BY <2>1, HandleSteps DEF IInv
  <2>3. QED
    BY <1>1, <2>1, <2>2, OtherStep
<1>7. CASE Done \/ UNCHANGED vars
  <2>1. UNCHANGED <<fixed, sockets, servers>> /\ UNCHANGED handles
    BY <1>7 DEF Done, vars, others
  <2>2. HandleInv'
    BY <2>1, OthersIdle DEF IInv
  <2>3. QED
    BY <1>1, <2>1, <2>2, OtherStep
<1>8. QED
  BY <1>2, <1>3, <1>4, <1>5, <1>6, <1>7 DEF Next, MainStep

THEOREM Invariance == Spec => []IInv
BY InvInit, InvStep, PTL DEF Spec

-------------------------------------------------------------------------------
(***************************************************************************)
(* The properties.                                                         *)
(***************************************************************************)

\* Whatever the programs, their clients and threads do, every variable holds a value of
\* its kind: descriptors, slots, positions and requests stay in their bounds.
THEOREM TypeCorrect == Spec => []TypeOK
<1>1. IInv => TypeOK
  <2> SUFFICES ASSUME IInv
               PROVE  TypeOK
    OBVIOUS
  <2>1. Mul!TypeOK
    BY DEF IInv, MulTyped, ThreadStates, Places, Requests, Messages, Mul!TypeOK, Mul!Fds,
           Mul!Messages, Fds
  <2>2. React!TypeOK
    <3>1. q_ \in Seq(Reacts!Events) /\ Reacts!Inv
      BY DEF IInv, Reacts!Inv
    <3>2. \A i \in DOMAIN q_ : q_[i].kind \in React!Kinds
      <4>1. ASSUME NEW i \in DOMAIN q_
            PROVE  q_[i] \in Reacts!Events
        BY <3>1
      <4>2. \A e \in Reacts!Events : e.kind \in React!Kinds
        BY DEF Reacts!Events, Reacts!Kinds, React!Kinds
      <4>3. QED
        BY <4>1, <4>2
    <3>3. QED
      BY <3>1, <3>2
         DEF Reacts!Inv, Reacts!Events, React!TypeOK, Reacts!Kinds, React!Kinds,
             Reacts!Sources, React!Sources
  <2>3. QED
    BY <2>1, <2>2 DEF IInv, TypeOK, SocketInv, HandleInv
<1> QED BY <1>1, Invariance, PTL

\* However accepts, closes and reused descriptors have followed each other,
\* select_server.c (below FD_SETSIZE) and epoll_server.c wait for exactly the connections
\* they have; poll_server.c for no closed one, and for all it has if its table is as long
\* as the process's limit.
THEOREM Watched == Spec => []EveryConnectionWatched
<1>1. IInv => EveryConnectionWatched
  <2> SUFFICES ASSUME IInv
               PROVE  EveryConnectionWatched
    OBVIOUS
  <2>1. ASSUME program = "select"
        PROVE  Select!Watched = OpenFds
    BY <2>1 DEF IInv, SelectInv, Select!Watched, Select!Detected
  <2>2. ASSUME program = "epoll"
        PROVE  Epoll!Watched = OpenFds
    BY <2>2 DEF IInv, EpollInv, Epoll!Watched
  <2>3. ASSUME program = "poll"
        PROVE  /\ Poll!Watched \subseteq OpenFds
               /\ limit <= slots => Poll!Watched = OpenFds
    <3>1. Table /\ maxPos \in 0 .. slots /\ slots \in Nat
      BY <2>3 DEF IInv, PollInv, Table, MulTyped
    <3>2. Poll!Watched \subseteq OpenFds
      BY <3>1 DEF Table, Poll!Watched
    <3>3. ASSUME limit <= slots, NEW f \in OpenFds
          PROVE  f \in Poll!Watched
      <4>1. PICK s \in 1 .. slots : fds[s] = f
        BY <3>1, <3>3 DEF Table
      <4>2. f # -1
        BY <3>3, FdFacts DEF IInv, SocketInv
      <4>3. s \in 1 .. maxPos
        BY <3>1, <4>1, <4>2 DEF Table
      <4>4. QED
        BY <4>1, <4>2, <4>3 DEF Poll!Watched
    <3>4. QED
      BY <3>2, <3>3
  <2>4. QED
    BY <2>1, <2>2, <2>3 DEF EveryConnectionWatched
<1> QED BY <1>1, Invariance, PTL

\* No client makes select_server.c or epoll_server.c wait in a recv(), whatever it does
\* between the wait that found it readable and its turn in the round, and none makes
\* poll_server.c wait there in an entry that a poll() has looked at; in one that no poll()
\* has, poll_server.c may wait.
THEOREM StuckAtNewEntry == Spec => []StuckOnlyAtNewEntry
<1>1. IInv => StuckOnlyAtNewEntry
  <2> SUFFICES ASSUME IInv
               PROVE  StuckOnlyAtNewEntry
    OBVIOUS
  <2>1. ASSUME program = "select"
        PROVE  ~Select!MayBlock
    <3> SUFFICES ASSUME selectPc = "scan", tmp # {}, 0 \notin tmp
                 PROVE  Min(tmp) \in ReadableFds
      BY SelectNames DEF Select!MayBlock
    <3>1. tmp \subseteq Nat /\ tmp \ {0} \subseteq ReadableFds
      BY <2>1 DEF IInv, SelectInv, Select!TypeOK, Select!Fds
    <3>2. QED
      BY <3>1, MinIn
  <2>2. ASSUME program = "epoll"
        PROVE  ~Epoll!MayBlock
    BY <2>2, EpollNames DEF IInv, EpollInv, Epoll!MayBlock
  <2>3. ASSUME program = "poll", Poll!MayBlock
        PROVE  Poll!Turn > polled
    <3> SUFFICES ASSUME pollPc = "scan", todo # {}, fds[Min(todo)] \notin ReadableFds
                 PROVE  Min(todo) > polled
      BY <2>3, PollNames DEF Poll!MayBlock
    <3>1. /\ todo \subseteq Nat /\ polled \in Nat
          /\ \A s \in todo : s <= polled => fds[s] \in ReadableFds
      BY <2>3 DEF IInv, PollInv, Table, Poll!TypeOK
    <3>2. Min(todo) \in todo
      BY <3>1, MinIn
    <3>3. ASSUME NEW m \in todo, fds[m] \notin ReadableFds
          PROVE  m > polled
      BY <3>1, <3>3
    <3>4. QED
      BY <3>2, <3>3
  <2>4. QED
    BY <2>1, <2>2, <2>3 DEF StuckOnlyAtNewEntry
<1> QED BY <1>1, Invariance, PTL

\* Whichever server it talks to, what a client finds is one reply, and to its own last
\* request: never another client's, and never an earlier one.
THEOREM Replies == Spec => []OwnReplies
<1>1. IInv => OwnReplies
  BY DEF IInv, SocketInv, Conversations, Conversation, OwnReplies, Latest
<1> QED BY <1>1, Invariance, PTL

\* In spite of cfd being read and written without a lock, each thread of mulServer.c
\* finds its own client's open descriptor, until main has overrun a slot.
THEOREM Slots == Spec => []OwnSlots
<1>1. IInv => OwnSlots
  <2> SUFFICES ASSUME IInv, program = "mul", ~overrun
               PROVE  /\ \A c \in Mul!Talking : /\ Mul!Open(Mul!cfd(c))
                                                /\ peer[Mul!cfd(c)] = c
                      /\ \A f \in OpenFds : peer[f] \in Mul!Talking
    BY DEF OwnSlots
  <2>1. SocketInv /\ MulTyped /\ Slotted
    BY DEF IInv, MulInv
  <2>2. QED
    BY <2>1, OwnCfd DEF Slotted
<1> QED BY <1>1, Invariance, PTL

\* However late the threads of mulServer.c free their slots, main never puts a client
\* into one that is in use, as long as there are fewer clients than slots.
THEOREM Overruns == Spec => []OverrunOnlyIfFull
<1>1. Init => RoomInv
  <2> SUFFICES ASSUME Init
               PROVE  ~overrun /\ Occupied
    BY DEF RoomInv
  <2>1. overrun = FALSE /\ mainPc # "accept" /\ infos = [s \in 1 .. slots |-> -1]
    BY DEF Init, Mul!Init, Mul!Started
  <2>2. QED
    BY <2>1 DEF Occupied
<1>2. IInv /\ RoomInv /\ [Next]_vars => RoomInv'
  <2> SUFFICES ASSUME IInv, RoomInv, [Next]_vars,
                      program' = "mul", Cardinality(Clients) < slots'
               PROVE  ~overrun' /\ Occupied'
    BY DEF RoomInv
  <2>1. UNCHANGED <<program, slots>>
    BY DEF Next, MainStep, SelectStep, PollStep, EpollStep, SimpleStep, InMul, InClients,
           InReactor, HandleStep, Done, vars, fixed
  <2>2. ~overrun /\ Occupied
    BY <2>1 DEF RoomInv
  <2>3. CASE InMul(Mul!Main) \/ \E c \in Clients : InMul(Mul!working(c))
    <3>1. SocketInv /\ MulTyped /\ Slotted
      BY <2>1, <2>2 DEF IInv, MulInv
    <3>2. Mul!Main \/ \E c \in Clients : Mul!working(c)
      BY <2>3 DEF InMul
    <3>3. QED
      BY <2>1, <2>2, <3>1, <3>2, RoomKept
  <2>4. CASE UNCHANGED <<infos, mainPc, pinfo, thread, overrun>>
    BY <2>1, <2>2, <2>4 DEF Occupied, Threads, SlotOf
  <2>5. QED
    BY <2>1, <2>3, <2>4
       DEF Next, MainStep, SelectStep, PollStep, EpollStep, SimpleStep, InClients,
           InReactor, HandleStep, Done, vars, servers, mulVars
<1>3. RoomInv => OverrunOnlyIfFull
  BY DEF RoomInv, OverrunOnlyIfFull
<1> QED BY <1>1, <1>2, <1>3, Invariance, PTL DEF Spec

\* Whatever the ticker and the keyboard push while main tests, sleeps or runs a
\* callback, main never sleeps over an event with no notify_one on its way.
THEOREM Wakeups == Spec => []NoLostNotify
<1>1. IInv => NoLostNotify
  BY DEF IInv, Reacts!Inv, Reacts!NoLostNotify, NoLostNotify, React!NoLostNotify
<1> QED BY <1>1, Invariance, PTL

\* The reactor's events are handled in the order in which they were pushed, each once,
\* and none after EXIT.
THEOREM Executes == Spec => ReactorIsExecutor
<1>1. Init => React!Ex!Init
  BY DEF Init, React!Init, React!Ex!Init, React!Ended
<1>2. IInv /\ [Next]_vars => [React!Ex!Next]_(React!Ex!vars)
  <2> SUFFICES ASSUME IInv, [Next]_vars
               PROVE  [React!Ex!Next]_(React!Ex!vars)
    OBVIOUS
  <2>1. [Reacts!Ex!Next]_(Reacts!Ex!vars)
    BY ReactorSteps, Reacts!StepRefines DEF IInv
  <2>2. QED
    BY <2>1 DEF Reacts!Ex!Next, React!Ex!Next, Reacts!Ex!vars, React!Ex!vars,
                Reacts!Ex!Submit, React!Ex!Submit, Reacts!Ex!Execute, React!Ex!Execute,
                Reacts!Ex!Stop, React!Ex!Stop, Reacts!Ended, React!Ended
<1> QED BY <1>1, <1>2, Invariance, PTL DEF Spec, ReactorIsExecutor, React!Ex!Spec

\* However sockets are made, moved and destroyed, every open descriptor has exactly
\* one owner, and none is closed under an object that has it: no leak, and no
\* descriptor closed twice.
THEOREM Ownership == Spec => []OneOwner
<1>1. IInv => OneOwner
  BY DEF IInv, HandleInv, OneOwner
<1> QED BY <1>1, Invariance, PTL
================================================================================
