---------------------------- MODULE MigrationLadder ----------------------------
(***************************************************************************)
(* What running the migrations promises, with no word of transactions,     *)
(* connections or who runs them: a ladder that is climbed one rung at a    *)
(* time, each rung recorded in the very step that makes its change.  Only  *)
(* a database that is older than its records may have rungs written down   *)
(* that nobody has climbed.  Migrations implements this specification.     *)
(***************************************************************************)
EXTENDS Integers

CONSTANTS
  LastFile,    \* the number of the last migration
  Reentrant    \* migrations that change nothing once they have been made

VARIABLES
  schema,      \* migrations whose changes have been made
  recorded,    \* migrations that are recorded as applied
  legacy       \* is the database older than its records?

Init ==
  /\ legacy \in BOOLEAN
  /\ \E k \in 0..LastFile :
       /\ schema = 1..k
       /\ recorded = IF legacy THEN {} ELSE 1..k
       /\ legacy => k > 0

\* The next rung, and no other, is written down.
Record(f) == recorded = 1..(f - 1) /\ recorded' = 1..f

Climb(f) ==
  /\ Record(f)
  /\ f \in schema => f \in Reentrant
  /\ schema' = schema \cup {f}

Adopt(f) ==
  /\ legacy
  /\ Record(f)
  /\ UNCHANGED schema

\* A rung is climbed that was written down on trust a moment ago.
CatchUp(f) ==
  /\ legacy
  /\ f \in recorded \ schema
  /\ schema' = schema \cup {f}
  /\ UNCHANGED recorded

Next == /\ \E f \in 1..LastFile : Climb(f) \/ Adopt(f) \/ CatchUp(f)
        /\ UNCHANGED legacy

Spec == Init /\ [][Next]_<<schema, recorded, legacy>>
================================================================================
