-------------------------- MODULE MCServerTransfer --------------------------
(* One server and three nodes: a spare port at home, room for one server at *)
(* each of the other two.                                                   *)
EXTENDS ServerTransfer, TLC

CONSTANTS s1, n1, n2, n3, p1, p1b, p2, p3, h1, h2

HandlerSymmetry == Permutations(Handlers)

\* Nothing reads the age of a transfer that is concluded: states that differ in it
\* only are explored once.
OpenAges ==
  [t \in DOMAIN transfers |->
     [transfers[t] EXCEPT !.late = @ /\ transfers[t].state = "running"]]
Observed ==
  <<srv, owner, OpenAges, call, jobs, copies, crashes, raced, strayed, overlooked>>

MCNodeOf ==
  [p \in Ports |->
     IF p \in {p1, p1b} THEN n1 ELSE IF p = p2 THEN n2 ELSE n3]
MCHomeNode == [s \in Servers |-> n1]
MCHomePort == [s \in Servers |-> p1]
=============================================================================
