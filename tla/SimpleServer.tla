------------------------------ MODULE SimpleServer -----------------------------
(***************************************************************************)
(* simple/server.c: accepts one client, talks to it, and ends with it.     *)
(* Clients that connect besides it stay in the backlog until then.         *)
(***************************************************************************)
EXTENDS Sockets

VARIABLES
  pc,  \* "accept", "talk" or "stopped"
  cfd

Init == pc = Started("accept") /\ cfd = 0

serve ==
  /\ pc = "accept"
  /\ accept
  /\ cfd' = accepted
  /\ pc' = IF accepted = -1 THEN "stopped" ELSE "talk"

talk ==
  /\ pc = "talk"
  /\ cfd \in ReadableFds
  /\ IF Finds(peer[cfd]) = "request" THEN echo(cfd) /\ UNCHANGED <<pc, peer>>
     ELSE exit /\ pc' = "stopped"
  /\ UNCHANGED cfd

Step == serve \/ talk

TypeOK == pc \in {"accept", "talk", "stopped"} /\ cfd \in Fds \cup {-1, 0}
===============================================================================
