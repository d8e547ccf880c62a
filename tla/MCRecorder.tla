----------------------------- MODULE MCRecorder -----------------------------
(* The recorder for TLC: depth frames, face frames and paths are model     *)
(* values, interchangeable in the run that checks only safety.             *)
EXTENDS Recorder, TLC

Symmetry == Permutations(Frames) \cup Permutations(Faces)
=============================================================================
