------------------------------- MODULE MCInput -------------------------------
(* The input for TLC: the axis and the fingers are model values. *)
EXTENDS Input
=============================================================================
