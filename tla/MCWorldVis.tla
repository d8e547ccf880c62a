----------------------------- MODULE MCWorldVis -----------------------------
(* The visuals of World for TLC. *)
EXTENDS WorldVis
=============================================================================
