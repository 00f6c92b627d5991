--------------------------- MODULE MCConnections ---------------------------
(***************************************************************************)
(* Connections on two or three nodes, with ids in the order of their names.*)
(***************************************************************************)
EXTENDS Connections, TLC

CONSTANTS n1, n2, n3

MCId == [n \in Node |-> CHOOSE i \in 1 .. 3 : <<n1, n2, n3>>[i] = n]
=============================================================================
