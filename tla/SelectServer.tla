----------------------------- MODULE SelectServer ------------------------------
(***************************************************************************)
(* iomux/select_server.c.  The listening socket is descriptor 0 here: like *)
(* there it is lower than that of any client and always in readfds.        *)
(***************************************************************************)
EXTENDS Sockets

VARIABLES
  pc,       \* "wait" in select, "scan" in the for loop, "stopped"
  readfds,  \* without the listening socket
  maxFd,
  tmp       \* what select() has left in tmp and the for loop has still to visit

Init ==
  /\ pc = Started("wait")
  /\ readfds = {}
  /\ maxFd = 0
  /\ tmp = {}

Detected == {f \in readfds : f <= maxFd}

\* Mutated form of select: the for loop tests readfds in place of tmp.
SelectUntested ==
  /\ pc = "wait"
  /\ tmp' = Detected \cup (IF backlog = <<>> THEN {} ELSE {0})
  /\ tmp' # {}
  /\ pc' = "scan"
  /\ UNCHANGED <<sockets, readfds, maxFd>>

\* select() fails when readfds holds a descriptor that is not open.
select ==
  /\ pc = "wait"
  /\ IF \E f \in Detected : peer[f] = NoClient
     THEN pc' = "stopped" /\ tmp' = {} /\ exit
     ELSE /\ tmp' = (Detected \cap ReadableFds) \cup
                    (IF backlog = <<>> THEN {} ELSE {0})
          /\ tmp' # {}
          /\ pc' = "scan"
          /\ UNCHANGED sockets
  /\ UNCHANGED <<readfds, maxFd>>

\* FD_SET of a failed accept's -1 sets a bit no descriptor of the instance has.
newClient ==
  /\ pc = "scan"
  /\ 0 \in tmp
  /\ accept
  /\ readfds' = readfds \cup ({accepted} \ {-1})
  /\ maxFd' = IF maxFd > accepted THEN maxFd ELSE accepted
  /\ tmp' = tmp \ {0}
  /\ UNCHANGED pc

\* The descriptor whose turn it is.
Turn == Min(tmp)

\* Mutated form of talk: FD_CLR is missing.
TalkNoClear ==
  /\ pc = "scan"
  /\ tmp # {} /\ 0 \notin tmp
  /\ Readable(peer[Turn])
  /\ echo(Turn)
  /\ IF Finds(peer[Turn]) = "end"
     THEN /\ close(Turn)
          /\ tmp' = {}
     ELSE /\ tmp' = IF Finds(peer[Turn]) = "error" THEN {} ELSE tmp \ {Turn}
          /\ UNCHANGED peer
  /\ UNCHANGED <<pc, readfds, maxFd>>

\* Both break statements leave the for loop: what is left of tmp is dropped.
talk ==
  /\ pc = "scan"
  /\ tmp # {} /\ 0 \notin tmp
  /\ Readable(peer[Turn])
  /\ echo(Turn)
  /\ IF Finds(peer[Turn]) = "end"
     THEN /\ readfds' = readfds \ {Turn}
          /\ close(Turn)
          /\ tmp' = {}
     ELSE /\ tmp' = IF Finds(peer[Turn]) = "error" THEN {} ELSE tmp \ {Turn}
          /\ UNCHANGED <<peer, readfds>>
  /\ UNCHANGED <<pc, maxFd>>

scanned ==
  /\ pc = "scan"
  /\ tmp = {}
  /\ pc' = "wait"
  /\ UNCHANGED <<sockets, readfds, maxFd, tmp>>

Step == select \/ newClient \/ talk \/ scanned

-------------------------------------------------------------------------------
TypeOK ==
  /\ pc \in {"wait", "scan", "stopped"}
  /\ readfds \subseteq Fds
  /\ maxFd \in 0 .. MaxFd
  /\ tmp \subseteq Fds \cup {0}

\* The descriptors that select() will detect.
Watched == Detected

\* A recv() is about to be called that may block.
MayBlock == pc = "scan" /\ tmp # {} /\ 0 \notin tmp /\ Turn \notin ReadableFds
===============================================================================
