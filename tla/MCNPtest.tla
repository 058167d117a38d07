-------------------------------- MODULE MCNPtest --------------------------------
EXTENDS NPtest

CONSTANTS c1, c2, c3, c4, o1, o2, o3

Server(name, clients, n, table) ==
  [program |-> name, clients |-> clients, limit |-> n, slots |-> table]

\* Two clients: descriptors and tables that are too small for them, large enough, and
\* larger than any number of clients needs.  Three clients: c1 may be starved by the
\* two others.
MCSetups ==
  {Server(p, {c1, c2}, n, 2) : p \in IoMux \cup {"mul"}, n \in 1 .. 2} \cup
  {Server(p, {c1, c2}, 2, 1) : p \in {"poll", "mul"}} \cup
  {Server("mul", {c1, c2}, 1, 5)} \cup
  {Server("select", {c1, c3, c4}, 3, 3)} \cup
  {Server(p, {c1, c2}, 1, 1) : p \in {"simple", "reactor", "handle"}}

\* One of two clients may send a second request on its connection.
MCMaxNumber == [c \in Clients |-> IF c = c2 THEN 2 ELSE 1]

\* A request of c1 on a served connection is answered.
AnsweredC1 == Answered(c1)
===============================================================================
