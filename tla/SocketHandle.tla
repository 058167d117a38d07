------------------------------ MODULE SocketHandle -----------------------------
(***************************************************************************)
(* The class Socket of simple/TcpSocket.h, which owns a descriptor, can be *)
(* moved and not copied, and the ways to make one: TcpClient, TcpServer,   *)
(* acceptClient.                                                           *)
(***************************************************************************)
EXTENDS Integers

CONSTANTS
  Objects,   \* places for objects of these classes
  MaxHandle  \* the descriptors are 1 .. MaxHandle, a natural number

VARIABLES
  fd,    \* for each object, its fd; 0 where no object lives
  open   \* the open descriptors

Init ==
  /\ fd = [o \in Objects |-> 0]
  /\ open = {}

Lives(o) == fd[o] # 0

\* Socket(): no descriptor.
Socket(o) ==
  /\ ~Lives(o)
  /\ fd' = [fd EXCEPT ![o] = -1]
  /\ UNCHANGED open

\* The object gets a new descriptor; when there is none the constructor throws, and
\* there is no object.
construct(o) ==
  /\ ~Lives(o)
  /\ \E f \in (1 .. MaxHandle) \ open :
       /\ fd' = [fd EXCEPT ![o] = f]
       /\ open' = open \cup {f}

TcpClient(o) == construct(o)

TcpServer(o) == construct(o)

\* The socket of a client; accept() fails on a server that was moved from.
acceptClient(o, server) == fd[server] > 0 /\ construct(o)

\* Mutated form of moveConstruct: the other object keeps its descriptor.
MoveCopies(o, other) ==
  /\ ~Lives(o) /\ Lives(other)
  /\ fd' = [fd EXCEPT ![o] = fd[other]]
  /\ UNCHANGED open

\* The move constructor.
moveConstruct(o, other) ==
  /\ ~Lives(o) /\ Lives(other)
  /\ fd' = [fd EXCEPT ![o] = fd[other], ![other] = -1]
  /\ UNCHANGED open

\* Move assignment; a socket that is assigned to itself stays as it is.
moveAssign(o, other) ==
  /\ Lives(o) /\ Lives(other)
  /\ IF o = other THEN UNCHANGED <<fd, open>>
     ELSE /\ fd' = [fd EXCEPT ![o] = fd[other], ![other] = -1]
          /\ open' = open \ {fd[o]}

\* The destructor.
destroy(o) ==
  /\ Lives(o)
  /\ open' = open \ {fd[o]}
  /\ fd' = [fd EXCEPT ![o] = 0]

Next ==
  \E o \in Objects :
    \/ Socket(o) \/ TcpClient(o) \/ TcpServer(o) \/ destroy(o)
    \/ \E other \in Objects :
         acceptClient(o, other) \/ moveConstruct(o, other) \/ moveAssign(o, other)

Spec == Init /\ [][Next]_<<fd, open>>

TypeOK == fd \in [Objects -> -1 .. MaxHandle] /\ open \subseteq 1 .. MaxHandle

\* Every open descriptor has exactly one owner, and no object has a closed one.
OneOwner ==
  /\ \A f \in open : \E o \in Objects : fd[o] = f
  /\ \A o \in Objects : fd[o] > 0 => fd[o] \in open
  /\ \A o, other \in Objects : fd[o] = fd[other] /\ fd[o] > 0 => o = other
===============================================================================
