------------------------------- MODULE MC_Reports -------------------------------
(***************************************************************************)
(* Instances of Reports for TLC.                                           *)
(***************************************************************************)
EXTENDS Reports
================================================================================
