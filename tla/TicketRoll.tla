------------------------------ MODULE TicketRoll ------------------------------
(***************************************************************************)
(* What the order desk promises about daily order numbers, with no word    *)
(* of transactions, locks or connections: a roll of tickets per session.   *)
(* A ticket that is issued carries a number above every ticket of its      *)
(* session still on file, and tickets leave the file only by being         *)
(* discarded.  OrderNumbers, the transaction that the code runs,           *)
(* implements this specification.                                          *)
(***************************************************************************)
EXTENDS Integers

CONSTANT Sessions

VARIABLE issued          \* the tickets on file, each [session, num]

Tickets == [session : Sessions, num : Nat \ {0}]

Init == issued = {}

Above(t, file) == \A other \in file : other.session = t.session => other.num < t.num

\* One order is taken: a single ticket, above all those of its session.
Issue ==
  \E t \in issued' \ issued :
    /\ t \in Tickets
    /\ Above(t, issued)
    /\ issued' = issued \cup {t}

\* Orders are purged.
Discard == issued' \subseteq issued

Next == Issue \/ Discard

Spec == Init /\ [][Next]_issued
===============================================================================
