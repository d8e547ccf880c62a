---------------------------- MODULE MCServerLife ----------------------------
(* The server for TLC: the peers are model values.  One sends enough for a *)
(* read to find two pieces; the other only connects, closes or is cut off. *)
EXTENDS ServerLife

CONSTANTS p1, p2

MCPieces == [p \in Peers |-> IF p = p1 THEN 2 ELSE 0]
=============================================================================
