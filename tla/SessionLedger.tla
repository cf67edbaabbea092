----------------------------- MODULE SessionLedger -----------------------------
(***************************************************************************)
(* What the desk promises about sessions and orders, with no word of       *)
(* handlers, statements or the clock: a ledger with a page per session and *)
(* a line per order, in which every entry is made in a single step.  Pages *)
(* and lines are taken in order; an order belongs to a session that is     *)
(* there, and to that one for ever; an order that is discarded does not    *)
(* come back.  What is filed as the number of orders of a session has been *)
(* their number, if only at an earlier time, and the orders of a session   *)
(* are completed all at once only when there is such a number on file.     *)
(* SessionDesk, the statements that the code runs, implements this         *)
(* specification.                                                          *)
(***************************************************************************)
EXTENDS Integers, FiniteSets

CONSTANTS MaxSessions, MaxOrders

VARIABLES
  standing,  \* session -> is it open?
  filed,     \* session -> number of orders on file
  owner,     \* order -> its session
  status,    \* order -> how far it is
  counted,   \* <<session, number>>: numbers taken and not filed yet
  sole       \* may one session at most be open?

ledger == <<standing, filed, owner, status, counted, sole>>

Sids == 1..MaxSessions
Oids == 1..MaxOrders
Nothing     == -1
OrderStatus == {"NEW", "IN_PROGRESS", "COMPLETED"}

InTable(o)  == status[o] \in OrderStatus
OrdersIn(i) == {o \in Oids : InTable(o) /\ owner[o] = i}

\* The ledger is new, or has one page, with a line at most.
Init ==
  /\ \E pages \in {{}, {1}} : \E lines \in {{}, pages} :
       /\ standing = [i \in Sids |-> IF i \in pages THEN "ACTIVE" ELSE "NONE"]
       /\ status \in [Oids -> OrderStatus \cup {"NONE"}]
       /\ \A o \in Oids : status[o] # "NONE" <=> o \in lines
  /\ owner = [o \in Oids |-> 1]
  /\ filed = [i \in Sids |-> Nothing]
  /\ counted = {}
  /\ sole \in BOOLEAN

------------------------------------------------------------------------------
(* Pages. *)

NoOtherOpen(i) == \A j \in Sids \ {i} : standing[j] # "ACTIVE"

\* The next page is begun ...
Open(i) ==
  /\ \A j \in Sids : standing[j] # "NONE" <=> j < i
  /\ sole => NoOtherOpen(i)
  /\ standing' = [standing EXCEPT ![i] = "ACTIVE"]
  /\ UNCHANGED <<filed, owner, status, counted, sole>>

\* ... or one is opened again, by who has not seen it closed.
Reopen(i) ==
  /\ standing[i] = "CLOSED"
  /\ sole => NoOtherOpen(i)
  /\ standing' = [standing EXCEPT ![i] = "ACTIVE"]
  /\ UNCHANGED <<filed, owner, status, counted, sole>>

\* Some are closed without a number.
Shut(is) ==
  /\ \A i \in is : standing[i] = "ACTIVE"
  /\ standing' = [i \in Sids |-> IF i \in is THEN "CLOSED" ELSE standing[i]]
  /\ UNCHANGED <<filed, owner, status, counted>>

\* From now on one page at most is open.
Restrict ==
  /\ ~sole /\ sole'
  /\ \E is \in SUBSET Sids : Shut(is)
  /\ \A i, j \in Sids : standing'[i] = "ACTIVE" /\ standing'[j] = "ACTIVE" => i = j

\* The orders of a session are counted.
Count(i) ==
  /\ standing[i] # "NONE"
  /\ counted' = counted \cup {<<i, Cardinality(OrdersIn(i))>>}
  /\ UNCHANGED <<standing, filed, owner, status, sole>>

\* A number is forgotten.
Forget ==
  /\ counted' \subseteq counted
  /\ UNCHANGED <<standing, filed, owner, status, sole>>

\* A number is filed, and the page closed.
File(i, n) ==
  /\ <<i, n>> \in counted
  /\ counted \ {<<i, n>>} \subseteq counted' /\ counted' \subseteq counted
  /\ standing' = [standing EXCEPT ![i] = "CLOSED"]
  /\ filed' = [filed EXCEPT ![i] = n]
  /\ UNCHANGED <<owner, status, sole>>

------------------------------------------------------------------------------
(* Lines. *)

\* The next order is placed, in a session that is there.
Place(o, i) ==
  /\ \A p \in Oids : status[p] # "NONE" <=> p < o
  /\ standing[i] # "NONE"
  /\ owner' = [owner EXCEPT ![o] = i]
  /\ status' = [status EXCEPT ![o] = "NEW"]
  /\ UNCHANGED <<standing, filed, counted, sole>>

Mark(o, target) ==
  /\ InTable(o)
  /\ status' = [status EXCEPT ![o] = target]
  /\ UNCHANGED <<standing, filed, owner, counted, sole>>

\* All orders of a session with a number on file are completed.
Settle(i) ==
  /\ filed[i] # Nothing
  /\ status' = [o \in Oids |-> IF o \in OrdersIn(i) THEN "COMPLETED" ELSE status[o]]
  /\ UNCHANGED <<standing, filed, owner, counted, sole>>

Discard(os) ==
  /\ \A o \in os : InTable(o)
  /\ status' = [o \in Oids |-> IF o \in os THEN "DELETED" ELSE status[o]]
  /\ UNCHANGED <<standing, filed, owner, counted, sole>>

Next ==
  \/ \E i \in Sids : Open(i) \/ Reopen(i) \/ Count(i) \/ Settle(i)
  \/ \E is \in SUBSET Sids : Shut(is) /\ UNCHANGED sole
  \/ Restrict
  \/ Forget
  \/ \E e \in counted : File(e[1], e[2])
  \/ \E o \in Oids, i \in Sids : Place(o, i)
  \/ \E o \in Oids, target \in OrderStatus : Mark(o, target)
  \/ \E os \in SUBSET Oids : Discard(os)

Spec == Init /\ [][Next]_ledger
================================================================================
