---------------------------- MODULE MCBreakpoints ----------------------------
(* Breakpoints for TLC.  No action compares or orders places.               *)
EXTENDS Breakpoints, TLC

Symmetry == Permutations(Places)
==============================================================================
