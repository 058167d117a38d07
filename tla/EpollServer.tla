------------------------------ MODULE EpollServer ------------------------------
(***************************************************************************)
(* iomux/epoll_server.c.  The listening socket, always in the interest     *)
(* list, is descriptor 0 here.  The array of results is as large as any    *)
(* number of descriptors the program can have.                             *)
(***************************************************************************)
EXTENDS Sockets

VARIABLES
  pc,        \* "wait" in epoll_wait, "scan" in the for loop, "stopped"
  interest,  \* the descriptors in epfd, without the listening socket
  events     \* the reported descriptors the for loop has still to visit

Init ==
  /\ pc = Started("wait")
  /\ interest = {}
  /\ events = {}

epoll_wait ==
  /\ pc = "wait"
  /\ events' = (interest \cap ReadableFds) \cup
               (IF backlog = <<>> THEN {} ELSE {0})
  /\ events' # {}
  /\ pc' = "scan"
  /\ UNCHANGED <<sockets, interest>>

\* Adding the -1 of a failed accept() fails.
newClient ==
  /\ pc = "scan"
  /\ 0 \in events
  /\ accept
  /\ interest' = interest \cup ({accepted} \ {-1})
  /\ events' = events \ {0}
  /\ UNCHANGED pc

\* The events come in any order.  An error is only reported.
talk(f) ==
  /\ pc = "scan"
  /\ f \in events \cap ReadableFds
  /\ echo(f)
  /\ IF Finds(peer[f]) = "end"
     THEN interest' = interest \ {f} /\ close(f)
     ELSE UNCHANGED <<interest, peer>>
  /\ events' = events \ {f}
  /\ UNCHANGED pc

scanned ==
  /\ pc = "scan"
  /\ events = {}
  /\ pc' = "wait"
  /\ UNCHANGED <<sockets, interest, events>>

Step == epoll_wait \/ newClient \/ (\E f \in Fds : talk(f)) \/ scanned

-------------------------------------------------------------------------------
TypeOK ==
  /\ pc \in {"wait", "scan", "stopped"}
  /\ interest \subseteq Fds
  /\ events \subseteq Fds \cup {0}

Watched == interest

\* A recv() is about to be called that may block.
MayBlock == pc = "scan" /\ ~(events \subseteq ReadableFds \cup {0})
===============================================================================
