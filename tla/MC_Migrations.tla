----------------------------- MODULE MC_Migrations -----------------------------
(***************************************************************************)
(* Instances of Migrations for TLC.                                        *)
(***************************************************************************)
EXTENDS Migrations
================================================================================
