---------------------------- MODULE MC_SessionDesk ----------------------------
(***************************************************************************)
(* Instances of SessionDesk for TLC.                                       *)
(***************************************************************************)
EXTENDS SessionDesk, TLC

Symmetry == Permutations(Calls)
===============================================================================
