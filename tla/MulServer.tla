------------------------------- MODULE MulServer -------------------------------
(***************************************************************************)
(* simple/mulServer.c: main accepts clients into the slots of infos, and a *)
(* thread per client, named here by that client, talks through the slot it *)
(* was given and frees it.  main and threads read and write cfd of a slot  *)
(* without a lock.                                                         *)
(***************************************************************************)
EXTENDS Sockets

VARIABLES
  slots,   \* the length of infos: 512
  infos,   \* for each slot, its cfd
  pc,      \* main: "search"ing a slot, in "accept", or "stopped"
  pinfo,   \* main's slot; 0 before the first search
  next,    \* the descriptor that main's accept() has been given
  thread,  \* for each client, the state of its thread
  overrun  \* history: main has used a slot that was not free

NoRequest == <<NoClient, 0>>

\* A thread: where it is in working, its pinfo, the client whose connection its
\* recv() is on, the request in its buffer.
NoThread == [at |-> "none", slot |-> 0, on |-> NoClient, request |-> NoRequest]

Init ==
  /\ infos = [s \in 1 .. slots |-> -1]
  /\ pc = Started("search")
  /\ pinfo = 0
  /\ next = 0
  /\ thread = [c \in Clients |-> NoThread]
  /\ overrun = FALSE

-------------------------------------------------------------------------------
\* Mutated form of FreeSlots: the search is made once, before the loop.
FoundOnce == IF pinfo = 0 THEN {1} ELSE {pinfo}

FreeSlots == {s \in 1 .. slots : infos[s] = -1}

\* main looks for a free slot, keeps the one it used last when there is none,
\* and calls accept(), which takes its descriptor before it waits for a client,
\* and fails at once, which ends the program, when there is none.
search ==
  /\ pc = "search"
  /\ IF accepted = -1
     THEN /\ pc' = "stopped"
          /\ exit
          /\ thread' = [c \in Clients |-> NoThread]
          /\ UNCHANGED <<pinfo, next>>
     ELSE /\ pc' = "accept"
          /\ pinfo' = IF FreeSlots = {} THEN pinfo ELSE Min(FreeSlots)
          /\ next' = accepted
          /\ UNCHANGED <<sockets, thread>>
  /\ UNCHANGED <<slots, infos, overrun>>

\* accept() returns, and the new client has a slot and a thread.
serve ==
  /\ pc = "accept"
  /\ backlog # <<>>
  /\ peer' = [peer EXCEPT ![next] = Head(backlog)]
  /\ backlog' = Tail(backlog)
  /\ infos' = [infos EXCEPT ![pinfo] = next]
  /\ overrun' = (overrun \/ infos[pinfo] # -1)
  /\ thread' = [thread EXCEPT ![Head(backlog)] =
                  [NoThread EXCEPT !.at = "call", !.slot = pinfo]]
  /\ pc' = "search"
  /\ UNCHANGED <<clientVars, limit, listening, slots, pinfo, next>>

-------------------------------------------------------------------------------
\* The thread goes from one place to another, by a step of its loop.
Goto(t, from, to) ==
  /\ thread[t].at = from
  /\ thread' = [thread EXCEPT ![t].at = to]
  /\ UNCHANGED <<slots, pc, pinfo, next, overrun>>

\* The descriptor that thread t finds in its slot, and whether it is open.
cfd(t) == infos[thread[t].slot]

Open(f) == f # -1 /\ peer[f] # NoClient

\* recv() is called, and fails when the slot's descriptor is not open.
call(t) ==
  /\ thread[t].at = "call"
  /\ thread' = [thread EXCEPT ![t] =
                  IF Open(cfd(t)) THEN [@ EXCEPT !.at = "recv", !.on = peer[cfd(t)]]
                  ELSE [@ EXCEPT !.at = "close"]]
  /\ UNCHANGED <<sockets, slots, infos, pc, pinfo, next, overrun>>

\* Mutated form of recv: the threads share the buffer.
RecvShared(t) ==
  LET c == thread[t].on
      Got(u) == [thread[u] EXCEPT !.request = Head(inbox[c])]
  IN  /\ thread[t].at = "recv"
      /\ Readable(c)
      /\ receive(c)
      /\ thread' = IF Finds(c) = "request"
                   THEN [[u \in Clients |-> Got(u)] EXCEPT
                           ![t] = [@ EXCEPT !.at = "send", !.on = NoClient]]
                   ELSE [thread EXCEPT ![t] = [@ EXCEPT !.at = "close", !.on = NoClient]]
      /\ UNCHANGED <<at, number, outbox, backlog, peer, limit, listening,
                     slots, infos, pc, pinfo, next, overrun>>

\* ... and returns; a request is in the buffer then.
recv(t) ==
  LET c == thread[t].on
  IN  /\ thread[t].at = "recv"
      /\ Readable(c)
      /\ receive(c)
      /\ thread' = [thread EXCEPT ![t] =
                      IF Finds(c) = "request"
                      THEN [@ EXCEPT !.at = "send", !.on = NoClient,
                                     !.request = Head(inbox[c])]
                      ELSE [@ EXCEPT !.at = "close", !.on = NoClient]]
      /\ UNCHANGED <<at, number, outbox, backlog, peer, limit, listening,
                     slots, infos, pc, pinfo, next, overrun>>

send(t) ==
  /\ Goto(t, "send", "call")
  /\ IF Open(cfd(t)) THEN deliver(peer[cfd(t)], thread[t].request)
     ELSE UNCHANGED outbox
  /\ UNCHANGED <<at, number, inbox, aborted, backlog, peer, limit, listening, infos>>

\* Mutated form of closeCfd: the slot is freed first, and -1 is closed.
FreeFirst(t) ==
  /\ Goto(t, "close", "free")
  /\ infos' = [infos EXCEPT ![thread[t].slot] = -1]
  /\ UNCHANGED sockets

closeCfd(t) ==
  /\ Goto(t, "close", "free")
  /\ IF Open(cfd(t)) THEN close(cfd(t)) ELSE UNCHANGED peer
  /\ UNCHANGED <<clientVars, backlog, limit, listening, infos>>

\* Mutated form of free: the slot is cleared with zeros.
FreeZero(t) ==
  /\ thread[t].at = "free"
  /\ infos' = [infos EXCEPT ![thread[t].slot] = 0]
  /\ thread' = [thread EXCEPT ![t] = NoThread]
  /\ UNCHANGED <<sockets, slots, pc, pinfo, next, overrun>>

\* The slot is free again, and the thread ends.
free(t) ==
  /\ thread[t].at = "free"
  /\ infos' = [infos EXCEPT ![thread[t].slot] = -1]
  /\ thread' = [thread EXCEPT ![t] = NoThread]
  /\ UNCHANGED <<sockets, slots, pc, pinfo, next, overrun>>

Main == search \/ serve

working(t) == call(t) \/ recv(t) \/ send(t) \/ closeCfd(t) \/ free(t)

-------------------------------------------------------------------------------
TypeOK ==
  /\ infos \in [1 .. slots -> Fds \cup {-1}]
  /\ pc \in {"search", "accept", "stopped"}
  /\ pinfo \in 0 .. slots
  /\ next \in Fds \cup {0}
  /\ thread \in [Clients ->
       [at : {"none", "call", "recv", "send", "close", "free"}, slot : 0 .. slots,
        on : Clients \cup {NoClient}, request : Messages \cup {NoRequest}]]
  /\ overrun \in BOOLEAN

\* The threads that still talk.
Talking == {c \in Clients : thread[c].at \in {"call", "recv", "send", "close"}}

\* A blocked recv() keeps its connection, even if another thread closes it.
HeldByCalls == {thread[t].on : t \in Clients} \ {NoClient}
===============================================================================
