--------------------------------- MODULE NPtest ---------------------------------
(***************************************************************************)
(* The programs of NPtest, one at a time: program says which of them a     *)
(* behaviour is of, and the variables of the others do not change.  The    *)
(* servers run with up to all Clients; Reactor and the user of the class   *)
(* Socket run on their own.                                                *)
(***************************************************************************)
EXTENDS Sockets, Functions

CONSTANTS
  Setups,  \* what a behaviour may start with: a program and, for a server, its
           \* clients, its limit of descriptors and the length of its table;
           \* select_server.c's is its fd_set, with room for FD_SETSIZE descriptors
  MaxEvents, Objects, MaxHandle  \* see Reactor and SocketHandle

ASSUME BoundAssumption == MaxEvents \in Nat /\ MaxHandle \in Nat
ASSUME FiniteAssumption == IsFiniteSet(Clients)

VARIABLES
  program, slots,
  selectPc, readfds, maxFd, tmp,
  pollPc, fds, revents, maxPos, todo, polled,
  epollPc, interest, events,
  infos, mainPc, pinfo, next, thread, overrun,
  simplePc, cfd,
  q_, reactorAt, ev, notifying, emitted, taken,
  fd, open

Select == INSTANCE SelectServer WITH pc <- selectPc
Poll == INSTANCE PollServer WITH pc <- pollPc
Epoll == INSTANCE EpollServer WITH pc <- epollPc
Mul == INSTANCE MulServer WITH pc <- mainPc
Simple == INSTANCE SimpleServer WITH pc <- simplePc
React == INSTANCE Reactor WITH at <- reactorAt
Handle == INSTANCE SocketHandle

selectVars == <<selectPc, readfds, maxFd, tmp>>
pollVars == <<pollPc, fds, revents, maxPos, todo, polled>>
epollVars == <<epollPc, interest, events>>
mulVars == <<infos, mainPc, pinfo, next, thread, overrun>>
simpleVars == <<simplePc, cfd>>
servers == <<selectVars, pollVars, epollVars, mulVars, simpleVars>>
reactorVars == <<q_, reactorAt, ev, notifying, emitted, taken>>
handles == <<fd, open>>
others == <<reactorVars, handles>>
fixed == <<program, slots>>
vars == <<fixed, sockets, servers, others>>

IoMux == {"select", "poll", "epoll"}
Servers == IoMux \cup {"mul", "simple"}
Programs == Servers \cup {"reactor", "handle"}

ASSUME SetupAssumption ==
  \A s \in Setups : s.program \in Programs /\ s.slots \in Nat \ {0}

\* select_server.c is run where no descriptor reaches FD_SETSIZE: what its FD_SET does
\* with one that does is undefined.
ASSUME SetSizeAssumption ==
  \A s \in Setups : s.program = "select" => s.limit <= s.slots

Init ==
  /\ \E s \in Setups : /\ program = s.program
                       /\ SocketsInit(s.clients)
                       /\ limit = s.limit
                       /\ slots = s.slots
  /\ program \notin Servers => listening
  /\ Select!Init /\ Epoll!Init /\ Mul!Init /\ Simple!Init
  /\ program # "poll" => revents = [s \in 0 .. slots |-> FALSE]
  /\ Poll!Init
  /\ React!Init /\ Handle!Init

\* The clients whose connection the server has not let go.
Held ==
  (Range(peer) \cup Mul!HeldByCalls \cup {c \in Clients : thread[c].at # "none"})
  \ {NoClient}

SelectStep ==
  /\ program = "select" /\ Select!Step
  /\ UNCHANGED <<fixed, pollVars, epollVars, mulVars, simpleVars, others>>

PollStep ==
  /\ program = "poll" /\ Poll!Step
  /\ UNCHANGED <<fixed, selectVars, epollVars, mulVars, simpleVars, others>>

EpollStep ==
  /\ program = "epoll" /\ Epoll!Step
  /\ UNCHANGED <<fixed, selectVars, pollVars, mulVars, simpleVars, others>>

InMul(A) ==
  /\ program = "mul" /\ ~overrun /\ A
  /\ UNCHANGED <<fixed, selectVars, pollVars, epollVars, simpleVars, others>>

SimpleStep ==
  /\ program = "simple" /\ Simple!Step
  /\ UNCHANGED <<fixed, selectVars, pollVars, epollVars, mulVars, others>>

InClients(A) ==
  /\ program \in Servers /\ ~overrun /\ A
  /\ UNCHANGED <<fixed, servers, others>>

InReactor(A) ==
  /\ program = "reactor" /\ A
  /\ UNCHANGED <<fixed, sockets, servers, handles>>

HandleStep ==
  /\ program = "handle" /\ Handle!Next
  /\ UNCHANGED <<fixed, sockets, servers, reactorVars>>

\* A reactor that has ended; and a mulServer.c that has overrun a slot, whose
\* behaviours are not followed any further.
Done == (reactorAt = "exited" \/ overrun) /\ UNCHANGED vars

\* A step of the program's main thread.
MainStep ==
  \/ SelectStep \/ PollStep \/ EpollStep \/ SimpleStep
  \/ InMul(Mul!Main) \/ InReactor(React!LoopStep)

Next ==
  \/ MainStep
  \/ \E c \in Clients : InMul(Mul!working(c))
  \/ InClients(ClientNext(Held))
  \/ InReactor(React!Environment)
  \/ HandleStep \/ Done

Spec == Init /\ [][Next]_vars

(***************************************************************************)
(* Threads run, and clients go on as client.c does, unless they are        *)
(* killed.  Nobody has to connect, to press Enter or to be killed.         *)
(***************************************************************************)
Fairness ==
  /\ WF_vars(MainStep)
  /\ \A c \in Clients : /\ WF_vars(InMul(Mul!working(c)))
                        /\ WF_vars(InClients(ClientStep(c, Held)))
  /\ \A t \in React!Sources : WF_vars(InReactor(React!notify_one(t)))

FairSpec == Spec /\ Fairness

-------------------------------------------------------------------------------
(***************************************************************************)
(* Properties.                                                             *)
(***************************************************************************)

\* Every variable holds a value of its kind.
TypeOK ==
  /\ program \in Programs
  /\ SocketsTypeOK
  /\ Select!TypeOK /\ Poll!TypeOK /\ Epoll!TypeOK /\ Mul!TypeOK /\ Simple!TypeOK
  /\ React!TypeOK /\ Handle!TypeOK

OpenFds == {f \in Fds : peer[f] # NoClient}

\* When select_server.c (below FD_SETSIZE) or epoll_server.c waits, it waits for
\* exactly the connections it has, and so does poll_server.c if its table has an entry
\* for each descriptor it can get: none is forgotten and none that is closed is waited
\* for, however accepts, closes and reused descriptors have followed each other.  With
\* a shorter table poll_server.c forgets clients, but waits for no closed connection.
EveryConnectionWatched ==
  /\ program = "select" /\ selectPc # "scan" => Select!Watched = OpenFds
  /\ program = "epoll" /\ epollPc = "wait" => Epoll!Watched = OpenFds
  /\ program = "poll" /\ pollPc = "wait" =>
       /\ Poll!Watched \subseteq OpenFds
       /\ limit <= slots => Poll!Watched = OpenFds

\* select_server.c and epoll_server.c, one thread for all clients, never get stuck in
\* the recv() of one of them, and poll_server.c only in that of an entry that poll()
\* has not looked at yet, whose revents is what the stack held: never for a stale
\* event of an entry that was freed or filled again.
StuckOnlyAtNewEntry ==
  /\ program = "select" => ~Select!MayBlock
  /\ program = "epoll" => ~Epoll!MayBlock
  /\ program = "poll" /\ Poll!MayBlock => Poll!Turn > polled

\* A client finds one reply to each of its requests, and it is its own, although
\* descriptors and slots are reused for other clients, unless mulServer.c has
\* put a client into a slot that was still in use.
OwnReplies ==
  ~overrun => \A c \in Clients :
    outbox[c] # <<>> =>
      /\ at[c] # "send" /\ inbox[c] = <<>>
      /\ outbox[c] = << <<c, number[c] - 1>> >>

\* As long as no slot was overrun, each thread of mulServer.c finds its own
\* client's open descriptor in its slot, and a descriptor without a thread is
\* not left open, in spite of cfd being shared without a lock.
OwnSlots ==
  program = "mul" /\ ~overrun =>
    /\ \A c \in Mul!Talking : Mul!Open(Mul!cfd(c)) /\ peer[Mul!cfd(c)] = c
    /\ \A f \in OpenFds : peer[f] \in Mul!Talking

\* mulServer.c puts a client into a slot that is still in use only if there are as many
\* clients as slots, those counted whose threads have not ended, however late these free
\* theirs: with more slots main's search finds one, and it is free until the client comes.
OverrunOnlyIfFull ==
  program = "mul" /\ Cardinality(Clients) < slots => ~overrun

\* The server has the client's connection and will look at it again.
Served(c) ==
  \E f \in OpenFds : /\ peer[f] = c
                     /\ program = "poll" => f \in Range(fds)
                     /\ ~overrun

\* A request on a served connection is answered, whatever the other clients do.
\* In select_server.c, where an end of a connection ends the round, this needs the
\* clients to stop leaving: low descriptors that end in every round starve the rest.
Answered(c) ==
  \/ program = "select" /\ []<><<\E d \in Clients : kill(d)>>_vars
  \/ Served(c) /\ at[c] = "recv" ~> at[c] # "recv" \/ ~Served(c)

\* The reactor is an executor of its events, and FIFO.
ReactorIsExecutor == React!Ex!Spec

\* main does not sleep over an event unless a notify_one is still to come.
NoLostNotify == React!NoLostNotify

\* The loop goes on as long as there are events, and Enter ends the program,
\* whatever the ticker emits in between.
EventsHandled == React!GoesOn /\ React!EnterEnds

\* Every open descriptor has exactly one owner, and no object has a closed one,
\* whatever is moved where.
OneOwner == Handle!OneOwner
===============================================================================
