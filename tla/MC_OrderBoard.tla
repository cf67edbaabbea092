----------------------------- MODULE MC_OrderBoard -----------------------------
(***************************************************************************)
(* Instances of OrderBoard for TLC.                                        *)
(***************************************************************************)
EXTENDS OrderBoard, TLC

Symmetry == Permutations(Calls) \cup Permutations(Browsers)
===============================================================================
