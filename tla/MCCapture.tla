------------------------------ MODULE MCCapture ------------------------------
(* Application and its Recorder for TLC. *)
EXTENDS Capture, TLC

Symmetry == Permutations(Frames) \cup Permutations(Faces)
=============================================================================
