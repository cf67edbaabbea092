-------------------------------- MODULE MC_Server --------------------------------
(***************************************************************************)
(* Instances of Server for TLC.                                            *)
(***************************************************************************)
EXTENDS Server
================================================================================
