---------------------------- MODULE MC_MenuBoard ----------------------------
(***************************************************************************)
(* Instances of MenuBoard for TLC.                                         *)
(***************************************************************************)
EXTENDS MenuBoard, TLC

Symmetry == Permutations(Calls)
=============================================================================
