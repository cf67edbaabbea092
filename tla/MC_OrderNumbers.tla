---------------------------- MODULE MC_OrderNumbers ----------------------------
(***************************************************************************)
(* Instances of OrderNumbers for TLC.                                      *)
(***************************************************************************)
EXTENDS OrderNumbers, TLC

Symmetry == Permutations(Requests) \cup Permutations(Sessions)
================================================================================
