-------------------------------- MODULE Sockets --------------------------------
(***************************************************************************)
(* What the demo servers of NPtest share: the kernel's side of their       *)
(* sockets, and their clients, each a process that runs simple/client.c    *)
(* and may be killed at any time.  When a client has gone and its          *)
(* connection too, a new client may take its place.                        *)
(*                                                                         *)
(* A request or a reply is the client whose request it is with its number, *)
(* and short enough to be received in one piece.  SIGPIPE is taken as      *)
(* ignored.                                                                *)
(***************************************************************************)
EXTENDS Integers, Sequences, FiniteSetsExt

CONSTANTS
  Clients,
  NoClient,
  MaxFd,      \* the descriptors a server can get for its clients are 1 .. MaxFd
  MaxNumber   \* bound: for each client, requests of one life

ASSUME NoClientAssumption == NoClient \notin Clients
ASSUME LimitAssumption == MaxFd \in Nat /\ MaxNumber \in [Clients -> Nat]

VARIABLES
  at,         \* for each client, where it is in client.c
  number,     \* for each client, number of requests it has sent
  inbox,      \* for each client, the requests the server has not received
  outbox,     \* for each client, the replies it has not received
  aborted,    \* clients whose connection the server will find reset
  backlog,    \* clients connected and not accepted
  peer,       \* for each descriptor, the client it is a connection to
  limit,      \* the number of these descriptors the process is allowed to have
  listening   \* the server has not ended

clientVars == <<at, number, inbox, outbox, aborted>>
sockets == <<clientVars, backlog, peer, limit, listening>>

Fds == 1 .. MaxFd

Messages == Clients \X Nat

\* A server has called socket(), bind() and listen(), and has ended if one of them
\* failed; the clients in present come to it.
SocketsInit(present) ==
  /\ at = [c \in Clients |-> IF c \in present THEN "new" ELSE "absent"]
  /\ number = [c \in Clients |-> 0]
  /\ inbox = [c \in Clients |-> <<>>]
  /\ outbox = [c \in Clients |-> <<>>]
  /\ aborted = {}
  /\ backlog = <<>>
  /\ peer = [f \in Fds |-> NoClient]
  /\ limit \in Fds
  /\ listening \in BOOLEAN

\* Where a server is after that.
Started(place) == IF listening THEN place ELSE "stopped"

Queued(c) == \E i \in DOMAIN backlog : backlog[i] = c

-------------------------------------------------------------------------------
(***************************************************************************)
(* The clients.  Held are those whose connection the server still has.     *)
(***************************************************************************)

connect(c) ==
  /\ at[c] = "new"
  /\ IF listening THEN /\ at' = [at EXCEPT ![c] = "send"]
                       /\ backlog' = Append(backlog, c)
     ELSE at' = [at EXCEPT ![c] = "gone"] /\ UNCHANGED backlog
  /\ UNCHANGED <<number, inbox, outbox, aborted, peer, limit, listening>>

request(c) ==
  /\ at[c] = "send"
  /\ number[c] < MaxNumber[c]
  /\ at' = [at EXCEPT ![c] = "recv"]
  /\ number' = [number EXCEPT ![c] = @ + 1]
  /\ inbox' = [inbox EXCEPT ![c] = Append(@, <<c, number[c]>>)]
  /\ UNCHANGED <<outbox, aborted, backlog, peer, limit, listening>>

reply(c) ==
  /\ at[c] = "recv"
  /\ outbox[c] # <<>>
  /\ at' = [at EXCEPT ![c] = "send"]
  /\ outbox' = [outbox EXCEPT ![c] = Tail(@)]
  /\ UNCHANGED <<number, inbox, aborted, backlog, peer, limit, listening>>

\* recv() finds that the server has closed the connection.
disconnected(c, Held) ==
  /\ at[c] = "recv"
  /\ outbox[c] = <<>>
  /\ ~Queued(c) /\ c \notin Held
  /\ at' = [at EXCEPT ![c] = "gone"]
  /\ UNCHANGED <<number, inbox, outbox, aborted, backlog, peer, limit, listening>>

\* The kernel closes the connection of a killed client, or resets it when the
\* client leaves replies behind.
kill(c) ==
  /\ at[c] \in {"send", "recv"}
  /\ at' = [at EXCEPT ![c] = "gone"]
  /\ aborted' = IF outbox[c] = <<>> THEN aborted ELSE aborted \cup {c}
  /\ UNCHANGED <<number, inbox, outbox, backlog, peer, limit, listening>>

restart(c, Held) ==
  /\ at[c] = "gone"
  /\ ~Queued(c) /\ c \notin Held
  /\ at' = [at EXCEPT ![c] = "new"]
  /\ number' = [number EXCEPT ![c] = 0]
  /\ inbox' = [inbox EXCEPT ![c] = <<>>]
  /\ outbox' = [outbox EXCEPT ![c] = <<>>]
  /\ aborted' = aborted \ {c}
  /\ UNCHANGED <<backlog, peer, limit, listening>>

\* What client.c does of its own accord.
ClientStep(c, Held) == request(c) \/ reply(c) \/ disconnected(c, Held)

ClientNext(Held) ==
  \E c \in Clients : \/ ClientStep(c, Held)
                     \/ connect(c) \/ kill(c) \/ restart(c, Held)

-------------------------------------------------------------------------------
(***************************************************************************)
(* System calls of a server.                                               *)
(***************************************************************************)

\* The descriptors the next accept() may return; it returns the lowest.
Available == {f \in 1 .. limit : peer[f] = NoClient}

\* accept() takes the first client of the backlog, or fails and returns -1.
accepted == IF Available = {} THEN -1 ELSE Min(Available)

accept ==
  /\ backlog # <<>>
  /\ IF accepted = -1 THEN UNCHANGED <<peer, backlog>>
     ELSE /\ peer' = [peer EXCEPT ![accepted] = Head(backlog)]
          /\ backlog' = Tail(backlog)
  /\ UNCHANGED <<clientVars, limit, listening>>

\* recv() from c does not block.
Readable(c) == inbox[c] # <<>> \/ at[c] = "gone"

ReadableFds == {f \in Fds : peer[f] # NoClient /\ Readable(peer[f])}

\* What recv() from c finds: a request, an error (once), or the end.
Finds(c) == IF inbox[c] # <<>> THEN "request"
            ELSE IF c \in aborted THEN "error" ELSE "end"

\* recv() from c.
receive(c) ==
  /\ inbox' = [inbox EXCEPT ![c] = <<>>]
  /\ aborted' = IF inbox[c] = <<>> THEN aborted \ {c} ELSE aborted

\* The reply x reaches c, unless the client has gone.
deliver(c, x) ==
  outbox' = IF at[c] = "gone" THEN outbox ELSE [outbox EXCEPT ![c] = Append(@, x)]

\* recv() on f, and send() of the same buffer if there was a request.
echo(f) ==
  LET c == peer[f]
  IN  /\ receive(c)
      /\ IF Finds(c) = "request" THEN deliver(c, Head(inbox[c]))
         ELSE UNCHANGED outbox
      /\ UNCHANGED <<at, number, backlog, limit, listening>>

close(f) == peer' = [peer EXCEPT ![f] = NoClient]

\* The server's process ends, and the kernel closes what it had open.
exit ==
  /\ listening' = FALSE
  /\ backlog' = <<>>
  /\ peer' = [f \in Fds |-> NoClient]
  /\ UNCHANGED <<clientVars, limit>>

SocketsTypeOK ==
  /\ at \in [Clients -> {"absent", "new", "send", "recv", "gone"}]
  /\ number \in [Clients -> Nat]
  /\ inbox \in [Clients -> Seq(Messages)]
  /\ outbox \in [Clients -> Seq(Messages)]
  /\ aborted \subseteq Clients
  /\ backlog \in Seq(Clients)
  /\ peer \in [Fds -> Clients \cup {NoClient}]
  /\ limit \in Fds
  /\ listening \in BOOLEAN
===============================================================================
