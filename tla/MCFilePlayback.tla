--------------------------- MODULE MCFilePlayback ---------------------------
(* Playback for TLC: stamps closer together than a Tick, and further apart. *)
EXTENDS FilePlayback

MCStamps == 0 .. 5
=============================================================================
