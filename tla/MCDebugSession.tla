---------------------------- MODULE MCDebugSession ----------------------------
(* DebugSession for TLC.  The calls are interchangeable in the safety runs;  *)
(* the liveness run does without the symmetry.                               *)
EXTENDS DebugSession, TLC

Symmetry == Permutations(Tools)
==============================================================================
