--------------------------- MODULE MCPlayerStream ---------------------------
(* The Player for TLC. *)
EXTENDS PlayerStream
=============================================================================
