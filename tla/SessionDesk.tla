------------------------------ MODULE SessionDesk ------------------------------
(***************************************************************************)
(* The sessions of the fish fry and the orders taken in them, as the HTTP  *)
(* handlers of internal/api/session.go and internal/api/orders.go work on  *)
(* the two tables: one action per SQL statement, many calls at once.  A    *)
(* handler holds no transaction across its statements (the one of          *)
(* CreateOrderWithItems is module OrderNumbers and is a single action      *)
(* here), so every row a call has read may be out of date when it writes.  *)
(* A handler that writes to orders ends with BroadcastStatsUpdate, which   *)
(* reconciles the sessions before it reads.                                *)
(*                                                                         *)
(* Time is counted in ticks, DayLength of them to a day; the last tick of  *)
(* a day stands for its last second, which 23:59:59 does not outlast.      *)
(***************************************************************************)
EXTENDS Integers, FiniteSets

CONSTANTS
  Calls,        \* HTTP calls
  Kinds,        \* the handlers the calls may be for
  MaxSessions,  \* bound: rows of the table sessions
  MaxOrders,    \* bound: rows of the table orders
  MaxTime,      \* bound: last tick of the clock
  DayLength     \* ticks in a day

AllKinds == {"order", "view", "open", "extend", "close", "status", "edit", "purge"}

ASSUME KindsAssumption  == Kinds \subseteq AllKinds
ASSUME BoundsAssumption == /\ MaxSessions \in Nat \ {0}
                           /\ MaxOrders \in Nat \ {0}
                           /\ MaxTime \in Nat
                           /\ DayLength \in Nat \ {0}

VARIABLES
  sessions,  \* session id -> row
  orders,    \* order id -> row
  indexed,   \* has migration 000002 created idx_sessions_single_active?
  now,       \* the clock of server and database
  call,      \* call -> where its handler stands and what it has read
  late       \* history: what was done to a session behind the back of its close

vars == <<sessions, orders, indexed, now, call, late>>

Sids  == 1..MaxSessions
Oids  == 1..MaxOrders
Times == 0..MaxTime
Ends  == 0..(MaxTime + DayLength - 1)   \* values of expires_at
NoStats == -1                       \* final_order_count IS NULL

SessionRow  == [status : {"NONE", "ACTIVE", "CLOSED"}, started : Times,
                expires : Ends, final : Nat \cup {NoStats}]
OrderStatus == {"NEW", "IN_PROGRESS", "COMPLETED"}
OrderRow    == [session : Sids, status : {"NONE", "DELETED"} \cup OrderStatus,
                day : Ends]         \* created_at, as the end of its day
LateKinds   == {"placed", "reopened", "purged"}

Pcs == {"expire1", "prune1", "expire", "prune", "select", "insert", "check", "place",
        "readSession", "write", "stats", "shut", "complete",
        "readOrder", "mark", "rewrite", "purge", "delete",
        "statsExpire", "statsPrune", "done"}
Answers == {"none", "ok", "conflict", "expired", "refused", "missing", "error"}

Call == [kind : Kinds, admin : BOOLEAN, pc : Pcs, answer : Answers,
         sid : Sids, oid : Oids,           \* the rows it is about
         started : Times, expires : Ends,  \* session row read or to be written;
                                           \* for a purge, the day it calls today
         status : OrderStatus,             \* order status read or asked for
         count : Nat]                      \* GetSessionStats

TypeOK ==
  /\ sessions \in [Sids -> SessionRow]
  /\ orders \in [Oids -> OrderRow]
  /\ indexed \in BOOLEAN
  /\ now \in Times
  /\ call \in [Calls -> Call]
  /\ late \in [Sids -> SUBSET LateKinds]

NoSession == [status |-> "NONE", started |-> 0, expires |-> 0, final |-> NoStats]
NoOrder   == [session |-> 1, status |-> "NONE", day |-> 0]

FirstPc(kind) ==
  CASE kind = "order"                -> "expire1"
    [] kind \in {"view", "open"}     -> "expire"
    [] kind \in {"extend", "close"}  -> "readSession"
    [] kind = "purge"                -> "purge"
    [] OTHER                         -> "readOrder"

\* 23:59:59 on the day of t.
EndOfDay(t) == t + (DayLength - 1) - (t % DayLength)

\* The desk opens on empty tables ...
EmptyTables ==
  /\ sessions = [i \in Sids |-> NoSession]
  /\ orders = [o \in Oids |-> NoOrder]

\* ... or in the middle of a session that has taken at most one order.
SessionUnderWay(end, status) ==
  /\ sessions = [i \in Sids |->
        IF i = 1 THEN [NoSession EXCEPT !.status = "ACTIVE", !.expires = end] ELSE NoSession]
  /\ orders = [o \in Oids |->
        IF o = 1 THEN [NoOrder EXCEPT !.status = status, !.day = EndOfDay(0)]
                 ELSE NoOrder]

\* Who calls matters to UpdateOrder only.
NewCall(kind, admin) ==
  [kind |-> kind, admin |-> admin, pc |-> FirstPc(kind), answer |-> "none",
   sid |-> 1, oid |-> 1, started |-> 0, expires |-> 0, status |-> "NEW", count |-> 0]
NewCalls == {NewCall(kind, TRUE) : kind \in Kinds}
            \cup {NewCall(kind, FALSE) : kind \in Kinds \cap {"edit"}}

\* Migration 000002 is in place or still to come.
Init ==
  /\ \/ EmptyTables
     \/ \E end \in Times \ {0}, status \in {"NONE"} \cup OrderStatus :
          SessionUnderWay(end, status)
  /\ indexed \in BOOLEAN
  /\ now = 0
  /\ call \in [Calls -> NewCalls]
  /\ late = [i \in Sids |-> {}]

------------------------------------------------------------------------------
(* The table sessions. *)

Active(i)  == sessions[i].status = "ACTIVE"
Expired(i) == sessions[i].expires <= now
Live(i)    == Active(i) /\ ~Expired(i)

\* ORDER BY started_at DESC, id DESC: does row i come before row j?
Newer(i, j) == \/ sessions[i].started > sessions[j].started
               \/ sessions[i].started = sessions[j].started /\ i > j

Close(rows) == [i \in Sids |-> IF i \in rows
                               THEN [sessions[i] EXCEPT !.status = "CLOSED"]
                               ELSE sessions[i]]

ExpiredActive == {i \in Sids : Active(i) /\ Expired(i)}

\* Mutant of Superseded: ORDER BY started_at ASC.
SupersededByOlder == {i \in Sids : Live(i) /\ \E j \in Sids : Live(j) /\ Newer(i, j)}

\* Every live session but the newest (rn > 1).
Superseded    == {i \in Sids : Live(i) /\ \E j \in Sids : Live(j) /\ Newer(j, i)}

\* Mutant of IndexRefuses: the index leaves out sessions past their expiry.
IndexRefusesLive(i) == indexed /\ \E j \in Sids \ {i} : Live(j)

\* CREATE UNIQUE INDEX ... ON sessions (status) WHERE status = 'ACTIVE': may
\* row i not become ACTIVE?  An expired row that is still ACTIVE counts too.
IndexRefuses(i) == indexed /\ \E j \in Sids \ {i} : Active(j)

\* What an admin may ask for, past or future.
EndChoices == Times \cup {EndOfDay(now)}

InTable(o)  == orders[o].status \in OrderStatus
OrdersIn(i) == {o \in Oids : InTable(o) /\ orders[o].session = i}
OpenIn(i)   == {o \in OrdersIn(i) : orders[o].status # "COMPLETED"}

At(c, pc) == call[c].pc = pc
Goto(c, pc) == call' = [call EXCEPT ![c].pc = pc]
Answer(c, a) == call' = [call EXCEPT ![c].pc = "done", ![c].answer = a]

------------------------------------------------------------------------------
(* GetActiveSession, GetOrCreateActiveSession, CreateSession. *)

\* reconcileActiveSessions, first statement: close what has expired.
ReconcileExpired(c) ==
  /\ \/ At(c, "expire1") /\ Goto(c, "prune1")
     \/ At(c, "expire")  /\ Goto(c, "prune")
     \/ At(c, "statsExpire") /\ Goto(c, "statsPrune")
  /\ sessions' = Close(ExpiredActive)
  /\ UNCHANGED <<orders, indexed, now, late>>

\* Second statement: keep the newest.  GetOrCreateActiveSession then calls
\* GetActiveSession, which reconciles once more.  The handlers that end here
\* answer with the order as it is by now (getOrderResponse).
ReconcileDuplicates(c) ==
  /\ \/ At(c, "prune1") /\ Goto(c, "expire")
     \/ At(c, "prune")  /\ Goto(c, "select")
     \/ /\ At(c, "statsPrune")
        /\ \/ (call[c].kind = "purge" \/ InTable(call[c].oid)) /\ Answer(c, "ok")
           \/ call[c].kind # "purge" /\ ~InTable(call[c].oid) /\ Answer(c, "missing")
  /\ sessions' = Close(Superseded)
  /\ UNCHANGED <<orders, indexed, now, late>>

\* SELECT ... WHERE status = 'ACTIVE' AND expires_at > NOW() LIMIT 1 finds i.
SelectActive(c, i) ==
  /\ At(c, "select")
  /\ Live(i)
  /\ \A j \in Sids : Live(j) => sessions[j].started <= sessions[i].started
  /\ \/ call[c].kind = "view" /\ Answer(c, "ok")
     \/ call[c].kind = "open" /\ Answer(c, "conflict")
     \/ /\ call[c].kind = "order"
        /\ call' = [call EXCEPT ![c].pc = "check", ![c].sid = i,
                                ![c].expires = sessions[i].expires]
  /\ UNCHANGED <<sessions, orders, indexed, now, late>>

\* It finds none: an order makes a session to the end of the day, POST
\* /api/session one to whatever end the admin asks for, which nothing checks.
SelectNone(c) ==
  /\ At(c, "select")
  /\ \A i \in Sids : ~Live(i)
  /\ \/ /\ call[c].kind = "view"
        /\ Answer(c, "ok")
     \/ \E end \in IF call[c].kind = "open" THEN EndChoices ELSE {EndOfDay(now)} :
          /\ call[c].kind \in {"open", "order"}
          /\ call' = [call EXCEPT ![c].pc = "insert", ![c].started = now,
                                  ![c].expires = end]
  /\ UNCHANGED <<sessions, orders, indexed, now, late>>

\* INSERT INTO sessions; i is the next value of its sequence.
CreateSession(c, i) ==
  /\ At(c, "insert")
  /\ \A j \in Sids : sessions[j].status # "NONE" <=> j < i
  /\ IF IndexRefuses(i)
     THEN /\ Answer(c, "error")
          /\ UNCHANGED sessions
     ELSE /\ sessions' = [sessions EXCEPT ![i] =
                [status |-> "ACTIVE", started |-> call[c].started,
                 expires |-> call[c].expires, final |-> NoStats]]
          /\ call' = [call EXCEPT ![c].sid = i,
                ![c].pc     = IF call[c].kind = "order" THEN "check" ELSE "done",
                ![c].answer = IF call[c].kind = "order" THEN "none" ELSE "ok"]
  /\ UNCHANGED <<orders, indexed, now, late>>

------------------------------------------------------------------------------
(* CreateOrder, once it has its session. *)

\* time.Now().After(session.ExpiresAt), of the row as it was read.
CheckExpiry(c) ==
  /\ At(c, "check")
  /\ IF now > call[c].expires THEN Answer(c, "expired") ELSE Goto(c, "place")
  /\ UNCHANGED <<sessions, orders, indexed, now, late>>

\* Has a close of session i counted its orders already?
Counted(i) == \/ sessions[i].final # NoStats
              \/ \E c \in Calls : call[c].sid = i /\ call[c].pc \in {"shut", "complete"}

\* History: this was done to the sessions is behind the back of their close.
Behind(is, what) ==
  [i \in Sids |-> IF i \in is THEN late[i] \cup {what} ELSE late[i]]

\* CreateOrderWithItems.  Nothing looks at the session again.
PlaceOrder(c, o) ==
  /\ At(c, "place")
  /\ \A p \in Oids : orders[p].status # "NONE" <=> p < o
  /\ orders' = [orders EXCEPT ![o] =
        [session |-> call[c].sid, status |-> "NEW", day |-> EndOfDay(now)]]
  /\ call' = [call EXCEPT ![c].pc = "statsExpire", ![c].oid = o]
  /\ late' = Behind({call[c].sid} \cap {i \in Sids : Counted(i)}, "placed")
  /\ UNCHANGED <<sessions, indexed, now>>

------------------------------------------------------------------------------
(* UpdateSession. *)

\* The admin may leave the expiry as it is or set it to any time.
ReadSessionToUpdate(c, i, end) ==
  /\ At(c, "readSession") /\ call[c].kind = "extend"
  /\ CASE sessions[i].status = "NONE"   -> Answer(c, "missing")
       [] sessions[i].status = "CLOSED" -> Answer(c, "refused")
       [] OTHER -> call' = [call EXCEPT ![c].pc = "write", ![c].sid = i,
                                        ![c].expires = end]
  /\ UNCHANGED <<sessions, orders, indexed, now, late>>

\* UPDATE sessions SET ..., expires_at, status, ...: the status is the one that
\* was read, ACTIVE, and the statement has no condition on the row's own.
UpdateSession(c) ==
  LET i == call[c].sid IN
  /\ At(c, "write")
  /\ IF IndexRefuses(i)
     THEN Answer(c, "error") /\ UNCHANGED sessions
     ELSE /\ Answer(c, "ok")
          /\ sessions' = [sessions EXCEPT ![i].status = "ACTIVE",
                                          ![i].expires = call[c].expires]
  /\ UNCHANGED <<orders, indexed, now, late>>

------------------------------------------------------------------------------
(* CloseSession: three statements of their own, after the read. *)

ReadSessionToClose(c, i) ==
  /\ At(c, "readSession") /\ call[c].kind = "close"
  /\ CASE sessions[i].status = "NONE"   -> Answer(c, "missing")
       [] sessions[i].status = "CLOSED" -> Answer(c, "refused")
       [] OTHER -> call' = [call EXCEPT ![c].pc = "stats", ![c].sid = i]
  /\ UNCHANGED <<sessions, orders, indexed, now, late>>

\* Mutants of GetSessionStats: the orders of every session are counted; only
\* completed orders are counted.
GetSessionStatsOfAll(c) ==
  /\ At(c, "stats")
  /\ call' = [call EXCEPT ![c].pc = "shut",
        ![c].count = Cardinality({o \in Oids : orders[o].status # "NONE"})]
  /\ UNCHANGED <<sessions, orders, indexed, now, late>>

GetSessionStatsOfCompleted(c) ==
  /\ At(c, "stats")
  /\ call' = [call EXCEPT ![c].pc = "shut",
        ![c].count = Cardinality(OrdersIn(call[c].sid) \ OpenIn(call[c].sid))]
  /\ UNCHANGED <<sessions, orders, indexed, now, late>>

GetSessionStats(c) ==
  /\ At(c, "stats")
  /\ call' = [call EXCEPT ![c].pc = "shut",
                          ![c].count = Cardinality(OrdersIn(call[c].sid))]
  /\ UNCHANGED <<sessions, orders, indexed, now, late>>

CloseSession(c) ==
  /\ At(c, "shut")
  /\ sessions' = [sessions EXCEPT ![call[c].sid].status = "CLOSED",
                                  ![call[c].sid].final = call[c].count]
  /\ Goto(c, "complete")
  /\ UNCHANGED <<orders, indexed, now, late>>

\* Mutant of CompleteAllSessionOrders: WHERE status = 'IN_PROGRESS'.
CompleteOrdersInProgress(c) ==
  /\ At(c, "complete")
  /\ orders' = [o \in Oids |-> IF /\ o \in OpenIn(call[c].sid)
                                  /\ orders[o].status = "IN_PROGRESS"
                               THEN [orders[o] EXCEPT !.status = "COMPLETED"]
                               ELSE orders[o]]
  /\ Answer(c, "ok")
  /\ UNCHANGED <<sessions, indexed, now, late>>

CompleteAllSessionOrders(c) ==
  /\ At(c, "complete")
  /\ orders' = [o \in Oids |-> IF o \in OpenIn(call[c].sid)
                               THEN [orders[o] EXCEPT !.status = "COMPLETED"]
                               ELSE orders[o]]
  /\ Answer(c, "ok")
  /\ UNCHANGED <<sessions, indexed, now, late>>

------------------------------------------------------------------------------
(* UpdateOrderStatus and UpdateOrder: read the order, write the order. *)

ReadOrderToMark(c, o, target) ==
  /\ At(c, "readOrder") /\ call[c].kind = "status"
  /\ IF ~InTable(o)
     THEN Answer(c, "missing")
     ELSE call' = [call EXCEPT ![c].pc = "mark", ![c].oid = o, ![c].status = target]
  /\ UNCHANGED <<sessions, orders, indexed, now, late>>

\* Only an admin may edit an order that is being worked on or is done.
ReadOrderToEdit(c, o) ==
  /\ At(c, "readOrder") /\ call[c].kind = "edit"
  /\ CASE ~InTable(o) -> Answer(c, "missing")
       [] orders[o].status \in {"IN_PROGRESS", "COMPLETED"} /\ ~call[c].admin ->
            Answer(c, "refused")
       [] OTHER -> call' = [call EXCEPT ![c].pc = "rewrite", ![c].oid = o,
                                        ![c].status = orders[o].status]
  /\ UNCHANGED <<sessions, orders, indexed, now, late>>

\* Has a close of session i completed its orders already?
Settled(i) == \E c \in Calls :
  call[c].kind = "close" /\ call[c].answer = "ok" /\ call[c].sid = i

\* UPDATE orders SET vehicle_description, status: UpdateOrder (from "mark", the
\* status asked for) and UpdateOrderWithItems (from "rewrite", the status read).
\* Neither looks at the session, nor at the status the row has by now.
WriteOrder(c) ==
  LET o == call[c].oid
      i == orders[o].session
  IN
  /\ At(c, "mark") \/ At(c, "rewrite")
  /\ InTable(o)
  /\ orders' = [orders EXCEPT ![o].status = call[c].status]
  /\ Goto(c, "statsExpire")
  /\ late' = IF Settled(i) /\ call[c].status # "COMPLETED"
             THEN Behind({i}, "reopened") ELSE late
  /\ UNCHANGED <<sessions, indexed, now>>

\* The order is gone.  An UPDATE of no row is no error, and its handler goes on
\* to broadcast the order; the items of an edit, though, have nothing to refer
\* to.
WriteDeletedOrder(c) ==
  /\ ~InTable(call[c].oid)
  /\ \/ At(c, "mark")    /\ Goto(c, "statsExpire")
     \/ At(c, "rewrite") /\ Answer(c, "error")
  /\ UNCHANGED <<sessions, orders, indexed, now, late>>

------------------------------------------------------------------------------
(* PurgeOrders.  Its COUNT is left to module OrderNumbers. *)

\* startOfToday and endOfToday, from the clock.
ReadDayToPurge(c) ==
  /\ At(c, "purge")
  /\ call' = [call EXCEPT ![c].pc = "delete", ![c].expires = EndOfDay(now)]
  /\ UNCHANGED <<sessions, orders, indexed, now, late>>

\* DELETE FROM orders, those of the day or all.
PurgeOrders(c, scope) ==
  LET rows == {o \in Oids : InTable(o) /\ (scope = "all" \/ orders[o].day = call[c].expires)}
  IN
  /\ At(c, "delete")
  /\ orders' = [o \in Oids |-> IF o \in rows
                               THEN [orders[o] EXCEPT !.status = "DELETED"]
                               ELSE orders[o]]
  /\ Goto(c, "statsExpire")
  /\ late' = Behind({i \in Sids : Counted(i) /\ rows \cap OrdersIn(i) # {}}, "purged")
  /\ UNCHANGED <<sessions, indexed, now>>

------------------------------------------------------------------------------
(* The surroundings. *)

\* Any statement may fail, and the server may go down: the handler ends there,
\* and what it has written stays.
Fail(c) ==
  /\ ~At(c, "done")
  /\ Answer(c, "error")
  /\ UNCHANGED <<sessions, orders, indexed, now, late>>

\* Migration 000002 runs in the background while calls are served; it is one
\* transaction that prunes the table and creates the index.
EnforceSingleActive ==
  /\ ~indexed
  /\ indexed' = TRUE
  /\ sessions' = Close(ExpiredActive \cup Superseded)
  /\ UNCHANGED <<orders, now, call, late>>

Tick ==
  /\ now < MaxTime
  /\ now' = now + 1
  /\ UNCHANGED <<sessions, orders, indexed, call, late>>

SessionStep(c) ==
  \/ ReconcileExpired(c) \/ ReconcileDuplicates(c) \/ SelectNone(c)
  \/ \E i \in Sids : SelectActive(c, i) \/ CreateSession(c, i) \/ ReadSessionToClose(c, i)
  \/ \E i \in Sids : \E end \in EndChoices \cup {sessions[i].expires} :
       ReadSessionToUpdate(c, i, end)
  \/ UpdateSession(c)
  \/ GetSessionStats(c) \/ CloseSession(c) \/ CompleteAllSessionOrders(c)

OrderStep(c) ==
  \/ CheckExpiry(c)
  \/ \E o \in Oids : PlaceOrder(c, o) \/ ReadOrderToEdit(c, o)
  \/ \E o \in Oids, target \in OrderStatus : ReadOrderToMark(c, o, target)
  \/ WriteOrder(c) \/ WriteDeletedOrder(c)
  \/ ReadDayToPurge(c)
  \/ \E scope \in {"today", "all"} : PurgeOrders(c, scope)

Next ==
  \/ \E c \in Calls : SessionStep(c) \/ OrderStep(c) \/ Fail(c)
  \/ EnforceSingleActive
  \/ Tick

Spec == Init /\ [][Next]_vars

------------------------------------------------------------------------------
(* What holds. *)

\* Once migration 000002 has run there is at most one ACTIVE session, whatever
\* calls were half way through when it ran, extensions that write back the
\* ACTIVE they read included.
SingleActive ==
  indexed => \A i, j \in Sids : Active(i) /\ Active(j) => i = j

\* Reconciling never ends the session people are ordering in: a session that
\* has not expired is closed by an admin's close or because a newer session
\* that has not expired stays.
SweepKeepsTheNewest ==
  [][\A i \in Sids : Live(i) /\ sessions'[i].status = "CLOSED" =>
       \/ \E c \in Calls : At(c, "shut") /\ call[c].sid = i /\ call'[c].pc = "complete"
       \/ \E j \in Sids : Live(j) /\ Newer(j, i) /\ sessions'[j] = sessions[j]]_vars

\* The snapshot of a session counts all its orders, unless an order was placed
\* in it after a close had counted.
SnapshotNeverTooLow ==
  \A i \in Sids : sessions[i].final # NoStats /\ "placed" \notin late[i] =>
    sessions[i].final >= Cardinality(OrdersIn(i))

\* It counts no more than that, unless orders were purged after a close had
\* counted: a second close counts again, and orders are only added behind it.
SnapshotNeverTooHigh ==
  \A i \in Sids : "purged" \notin late[i] =>
    sessions[i].final <= Cardinality(OrdersIn(i))

\* A session whose close was answered with success has no open order, unless
\* one was placed or reopened afterwards.
CloseSettlesUnlessRaced ==
  \A i \in Sids : Settled(i) /\ late[i] \subseteq {"purged"} => OpenIn(i) = {}

\* The inductive invariant adds what the calls under way rely on: a handler
\* answers once, and one that closes goes through the statements of CloseSession
\* only ...
HandlersInStep ==
  \A c \in Calls :
    /\ ~At(c, "done") => call[c].answer = "none"
    /\ call[c].kind = "close" =>
         call[c].pc \in {"readSession", "stats", "shut", "complete", "done"}

\* ... the count a close holds is as good as the snapshot it will write ...
CountsHeld ==
  /\ \A i \in Sids : sessions[i].final # NoStats => sessions[i].status # "NONE"
  /\ \A c \in Calls : At(c, "shut") =>
       /\ "purged" \notin late[call[c].sid] =>
            call[c].count <= Cardinality(OrdersIn(call[c].sid))
       /\ "placed" \notin late[call[c].sid] =>
            call[c].count >= Cardinality(OrdersIn(call[c].sid))

\* ... and a close that has written its count leaves it on file.
ClosesCounted ==
  /\ \A c \in Calls : At(c, "complete") => sessions[call[c].sid].final # NoStats
  /\ \A i \in Sids : Settled(i) => sessions[i].final # NoStats

\* Whoever has a session in hand has one that is there.
SessionsFound ==
  \A c \in Calls :
    call[c].pc \in {"check", "place", "write", "stats", "shut", "complete"} =>
      sessions[call[c].sid].status # "NONE"

IndInv ==
  /\ TypeOK
  /\ SingleActive
  /\ HandlersInStep
  /\ SessionsFound
  /\ CountsHeld
  /\ ClosesCounted
  /\ SnapshotNeverTooLow
  /\ SnapshotNeverTooHigh
  /\ CloseSettlesUnlessRaced

------------------------------------------------------------------------------
(* The desk implements the ledger. *)

Standing == [i \in Sids |-> sessions[i].status]
Filed    == [i \in Sids |-> sessions[i].final]
Owner    == [o \in Oids |-> orders[o].session]
Status   == [o \in Oids |-> orders[o].status]

\* What closes have counted and not written yet.
UnderWay == {<<call[c].sid, call[c].count>> : c \in {d \in Calls : At(d, "shut")}}

Ledger == INSTANCE SessionLedger WITH
  standing <- Standing, filed <- Filed, owner <- Owner, status <- Status,
  counted <- UnderWay, sole <- indexed

\* Every statement makes one entry of the ledger or none, whatever the calls it
\* belongs to have read before: no order is in a session that is not there or
\* changes its session, none comes back from a purge, what is filed of a session
\* has been the number of its orders at some time, and nobody completes the
\* orders of a session of which nothing is on file.
KeepsTheLedger == Ledger!Spec

------------------------------------------------------------------------------
(* What the documentation says, and the code does not keep. *)

\* daily-operations-design.md:155, "Closed sessions become read-only", and the
\* check at session.go:224: a session an admin has closed is not ACTIVE again.
ClosedStaysClosed ==
  [][\A i \in Sids : Settled(i) /\ sessions[i].status = "CLOSED" =>
       sessions'[i].status = "CLOSED"]_vars

\* orders.go:333, "only admins can edit in-progress or completed orders".
OnlyAdminsEditStartedOrders ==
  [][\A c \in Calls : At(c, "rewrite") /\ call'[c].pc = "statsExpire" /\ ~call[c].admin =>
       orders[call[c].oid].status = "NEW"]_vars
==============================================================================
