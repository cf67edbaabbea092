------------------------------ MODULE NoticeBoard ------------------------------
(***************************************************************************)
(* What the lists in the browsers promise, with no word of handlers,       *)
(* connections or who writes to them: a table of orders and a board for    *)
(* each reader, with notices in between.  A notice says what the table     *)
(* says when it is written; it may be shown late, again, after a later one *)
(* or never.  Only an order that is discarded may be said to have a status *)
(* it never had, and only to those who show it: no such notice puts an     *)
(* order on a board.  OrderBoard, the handlers, the hub and the pages,     *)
(* implements this specification.                                          *)
(***************************************************************************)
EXTENDS Integers

CONSTANTS Readers, MaxOrders

VARIABLES
  table,    \* order -> status
  notices,  \* what has been written and may still be read
  shown     \* reader -> <<order, status>> pairs on its board

board == <<table, notices, shown>>

Oids        == 1..MaxOrders
OrderStatus == {"NEW", "IN_PROGRESS", "COMPLETED"}
Notice      == [oid : Oids, status : OrderStatus, adds : BOOLEAN]

InTable(o) == table[o] \in OrderStatus

Init ==
  /\ \E os \in {{}, {1}} : table = [o \in Oids |-> IF o \in os THEN "NEW" ELSE "NONE"]
  /\ notices = {}
  /\ shown = [r \in Readers |-> {}]

------------------------------------------------------------------------------
(* The table. *)

\* Notices are written of what the table says from now on, and of orders that it
\* has had; some are thrown away.
WriteNotices ==
  \A n \in notices' \ notices :
    /\ n \in Notice
    /\ \/ table'[n.oid] = n.status
       \/ table'[n.oid] = "DELETED" /\ ~n.adds

\* No notice is written.
ThrowAway == notices' \subseteq notices

Place(o) ==
  /\ \A p \in Oids : table[p] # "NONE" <=> p < o
  /\ table' = [table EXCEPT ![o] = "NEW"]
  /\ ThrowAway
  /\ UNCHANGED shown

Mark(o, target) ==
  /\ InTable(o)
  /\ table' = [table EXCEPT ![o] = target]
  /\ WriteNotices
  /\ UNCHANGED shown

\* All orders are completed, or discarded.
MarkAll(target) ==
  /\ table' = [o \in Oids |-> IF InTable(o) THEN target ELSE table[o]]
  /\ ThrowAway
  /\ UNCHANGED shown

------------------------------------------------------------------------------
(* The boards. *)

Report ==
  /\ WriteNotices
  /\ UNCHANGED <<table, shown>>

OrdersOf(pairs) == {p[1] : p \in pairs}

\* The board of r shows what it has shown and what notices say, and an order
\* that it has not shown only if a notice adds it.
Show(r) ==
  /\ shown'[r] \subseteq shown[r] \cup {<<n.oid, n.status>> : n \in notices}
  /\ OrdersOf(shown'[r]) \subseteq
       OrdersOf(shown[r]) \cup {n.oid : n \in {m \in notices : m.adds}}
  /\ shown' = [shown EXCEPT ![r] = shown'[r]]
  /\ ThrowAway
  /\ UNCHANGED table

Next ==
  \/ Report
  \/ \E o \in Oids : Place(o)
  \/ \E o \in Oids, target \in OrderStatus : Mark(o, target)
  \/ \E target \in {"COMPLETED", "DELETED"} : MarkAll(target)
  \/ \E r \in Readers : Show(r)

Spec == Init /\ [][Next]_board
================================================================================
