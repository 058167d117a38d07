------------------------------ MODULE PollServer -------------------------------
(***************************************************************************)
(* iomux/poll_server.c.  fds is the array without its entry 0, which is    *)
(* the listening socket's.  No entry's revents is initialised, but poll()  *)
(* sets that of entry 0 before it is read.                                 *)
(***************************************************************************)
EXTENDS Sockets

VARIABLES
  slots,    \* the number of entries for clients: 1023
  pc,       \* "wait" in poll, "new" at the test of fds[0], "scan" in the for loop,
            \* "stopped"
  fds,      \* for each entry, its descriptor or -1
  revents,  \* for each entry and the 0th, whether POLLIN is set in its revents
  maxPos,
  todo,     \* the entries the for loop has still to visit and will receive from
  polled    \* history: poll() has set revents of the entries 0 .. polled

Init ==
  /\ pc = Started("wait")
  /\ fds = [s \in 1 .. slots |-> -1]
  /\ revents \in [0 .. slots -> BOOLEAN]
  /\ ~revents[0]
  /\ maxPos = 0
  /\ todo = {}
  /\ polled = 0

Ready(s) == IF s = 0 THEN backlog # <<>> ELSE fds[s] \in ReadableFds

poll ==
  /\ pc = "wait"
  /\ \E s \in 0 .. maxPos : Ready(s)
  /\ revents' = [s \in 0 .. slots |-> IF s <= maxPos THEN Ready(s) ELSE revents[s]]
  /\ polled' = maxPos
  /\ pc' = "new"
  /\ UNCHANGED <<sockets, slots, fds, maxPos, todo>>

\* The entry a new client gets; 0 when the table is full.
Entry == LET free == {s \in 1 .. slots : fds[s] = -1}
         IN  IF free = {} THEN 0 ELSE Min(free)

\* Mutated form of store: maxPos stays as it is.
StoreOnly ==
  IF Entry = 0 THEN UNCHANGED <<fds, maxPos>>
  ELSE fds' = [fds EXCEPT ![Entry] = accepted] /\ UNCHANGED maxPos

\* What accept() returned goes into the table, -1 too, if the table has room.
store ==
  IF Entry = 0 THEN UNCHANGED <<fds, maxPos>>
  ELSE /\ fds' = [fds EXCEPT ![Entry] = accepted]
       /\ maxPos' = IF maxPos > Entry THEN maxPos ELSE Entry

\* The test of fds[0]; the for loop then visits the entries up to maxPos.
newClient ==
  /\ pc = "new"
  /\ IF revents[0] THEN accept /\ store ELSE UNCHANGED <<sockets, fds, maxPos>>
  /\ todo' = {s \in 1 .. maxPos' : fds'[s] # -1 /\ revents[s]}
  /\ pc' = "scan"
  /\ UNCHANGED <<slots, revents, polled>>

\* The entry whose turn it is.
Turn == Min(todo)

\* recv() blocks as long as there is nothing to receive; an error ends the for.
talk ==
  /\ pc = "scan"
  /\ todo # {}
  /\ fds[Turn] \in ReadableFds
  /\ LET f == fds[Turn]
     IN  /\ echo(f)
         /\ IF Finds(peer[f]) = "end"
            THEN close(f) /\ fds' = [fds EXCEPT ![Turn] = -1]
            ELSE UNCHANGED <<peer, fds>>
         /\ todo' = IF Finds(peer[f]) = "error" THEN {} ELSE todo \ {Turn}
  /\ UNCHANGED <<pc, slots, revents, maxPos, polled>>

scanned ==
  /\ pc = "scan"
  /\ todo = {}
  /\ pc' = "wait"
  /\ UNCHANGED <<sockets, slots, fds, revents, maxPos, todo, polled>>

Step == poll \/ newClient \/ talk \/ scanned

-------------------------------------------------------------------------------
TypeOK ==
  /\ pc \in {"wait", "new", "scan", "stopped"}
  /\ fds \in [1 .. slots -> Fds \cup {-1}]
  /\ revents \in [0 .. slots -> BOOLEAN]
  /\ maxPos \in 0 .. slots
  /\ todo \subseteq 1 .. maxPos
  /\ polled \in 0 .. maxPos

\* The descriptors that the next poll() looks at.
Watched == {fds[s] : s \in 1 .. maxPos} \ {-1}

\* A recv() is about to be called that may block.
MayBlock == pc = "scan" /\ todo # {} /\ fds[Turn] \notin ReadableFds
===============================================================================
