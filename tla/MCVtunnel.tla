----------------------------- MODULE MCVtunnel -----------------------------
(* Instances of Vtunnel for TLC: the constants that are functions. *)
EXTENDS VtunnelProps

CONSTANTS w1, w2        \* the calls of Write, where a run has them

\* The numbers of the two SYNs.
MCISN == [e \in Ends |-> IF e = Client THEN 1 ELSE 4]

\* The client writes, or w1 is of the client and w2 of the server.
MCClientWrites == [w \in Calls |-> Client]
MCBothWrite == [w \in Calls |-> IF w = w1 THEN Client ELSE Server]

\* Every call writes one byte, or two.
MCOneByte == [w \in Calls |-> 1]
MCTwoBytes == [w \in Calls |-> 2]
MCTwoThenOne == [w \in Calls |-> IF w = w1 THEN 2 ELSE 1]
=============================================================================
