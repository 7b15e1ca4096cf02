----------------------------- MODULE MCTcpServer -----------------------------
(* Model-checking instance of TcpServer: the connections in Phone come     *)
(* from one phone, the others from another.  Connections of the same phone *)
(* are alike.                                                              *)
EXTENDS TcpServer, TLC

CONSTANT Phone

MCPeer == [c \in Conns |-> c \in Phone]

Symmetry == Permutations(Phone)
=============================================================================
