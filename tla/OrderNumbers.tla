----------------------------- MODULE OrderNumbers -----------------------------
(***************************************************************************)
(* How an order gets its daily number: CreateOrderWithItems of             *)
(* internal/database/postgres.go, run by many requests at once, one action *)
(* per statement of its transaction, beside the two purge statements that  *)
(* delete orders.                                                          *)
(*                                                                         *)
(* PostgreSQL runs these transactions at READ COMMITTED: a statement sees  *)
(* the rows committed when it starts.  A row a transaction has inserted is *)
(* kept in that transaction's record until Commit moves it to the table.   *)
(* The advisory lock is held to the end of the transaction, whichever way  *)
(* it ends; the id sequence never goes back.                               *)
(***************************************************************************)
EXTENDS Integers, FiniteSets, FiniteSetsExt

CONSTANTS
  Sessions,     \* ids of sessions orders are taken for
  Requests,     \* POST /api/orders calls that reach CreateOrderWithItems
  Purgers,      \* DELETE /api/orders/purge calls
  MaxConns,     \* size of the connection pool
  MaxDay,       \* bound: the last calendar day of the model
  NoOne         \* the holder of an advisory lock nobody holds

ASSUME ConnsAssumption == MaxConns \in Nat \ {0}
ASSUME DayAssumption   == MaxDay \in Nat
ASSUME NoOneAssumption == NoOne \notin Requests

VARIABLES
  orders,   \* committed rows of the table orders
  nextId,   \* next value of the sequence behind orders.id
  lock,     \* session id -> transaction holding its advisory lock
  tx,       \* request -> its transaction
  purge,    \* purger -> how far its two statements are
  today     \* calendar day of the server's clock

vars == <<orders, nextId, lock, tx, purge, today>>

Days   == 0..MaxDay
Scopes == {"today", "all"}
Order  == [id : Nat \ {0}, session : Sessions, num : Nat \ {0}, day : Days]

Holding  == {"locked", "numbered", "inserted", "itemized"}  \* lock held
InFlight == {"begun"} \cup Holding                          \* connection held
Ended    == {"committed", "failed"}

TypeOK ==
  /\ orders \subseteq Order /\ IsFiniteSet(orders)
  /\ nextId \in Nat \ {0}
  /\ lock \in [Sessions -> Requests \cup {NoOne}]
  /\ tx \in [Requests -> [pc : {"ready"} \cup InFlight \cup Ended, id : Nat,
                          session : Sessions, num : Nat, day : Days]]
  /\ purge \in [Purgers -> [pc : {"ready", "counted", "done"}, scope : Scopes,
                            day : Days, count : Nat, deleted : Nat]]
  /\ today \in Days

\* GetOrCreateActiveSession has already told each request its session.
Init ==
  /\ orders = {}
  /\ nextId = 1
  /\ lock = [s \in Sessions |-> NoOne]
  /\ tx \in [Requests -> [pc : {"ready"}, id : {0}, session : Sessions,
                          num : {0}, day : {0}]]
  /\ purge \in [Purgers -> [pc : {"ready"}, scope : Scopes, day : {0},
                            count : {0}, deleted : {0}]]
  /\ today = 0

OrdersOf(s) == {o \in orders : o.session = s}

\* Mutant of NextNumber: the number is taken from the id sequence.
NextNumberFromSequence(s) == nextId

\* SELECT COALESCE(MAX(daily_order_number), 0) + 1 FROM orders WHERE session_id = s
NextNumber(s) == Max({0} \cup {o.num : o \in OrdersOf(s)}) + 1

Row(r) == [id |-> tx[r].id, session |-> tx[r].session,
           num |-> tx[r].num, day |-> tx[r].day]

\* UNIQUE (session_id, daily_order_number), against rows that are committed
\* and against rows another open transaction has inserted.
Taken(r)   == \E o \in OrdersOf(tx[r].session) : o.num = tx[r].num
Pending(r) == \E q \in Requests \ {r} :
                /\ tx[q].pc \in {"inserted", "itemized"}
                /\ tx[q].session = tx[r].session
                /\ tx[q].num = tx[r].num

\* Mutant of Finish: a session-level lock, which outlives the transaction.
FinishKeepingLock(r, outcome) ==
  /\ tx' = [tx EXCEPT ![r].pc = outcome]
  /\ UNCHANGED lock

\* The transaction of r is over: its advisory lock goes with it.
Finish(r, outcome) ==
  /\ tx' = [tx EXCEPT ![r].pc = outcome]
  /\ lock' = [s \in Sessions |-> IF lock[s] = r THEN NoOne ELSE lock[s]]

------------------------------------------------------------------------------
(* The transaction. *)

\* pool.Begin waits for a free connection; created_at is read from the clock
\* at once, before the lock is asked for.
Begin(r) ==
  /\ tx[r].pc = "ready"
  /\ Cardinality({q \in Requests : tx[q].pc \in InFlight}) < MaxConns
  /\ tx' = [tx EXCEPT ![r].pc = "begun", ![r].day = today]
  /\ UNCHANGED <<orders, nextId, lock, purge, today>>

\* Mutant of AcquireLock: no lock is asked for.
AcquireNoLock(r) ==
  /\ tx[r].pc = "begun"
  /\ tx' = [tx EXCEPT ![r].pc = "locked"]
  /\ UNCHANGED <<orders, nextId, lock, purge, today>>

AcquireLock(r) ==
  /\ tx[r].pc = "begun"
  /\ lock[tx[r].session] = NoOne
  /\ lock' = [lock EXCEPT ![tx[r].session] = r]
  /\ tx' = [tx EXCEPT ![r].pc = "locked"]
  /\ UNCHANGED <<orders, nextId, purge, today>>

\* Mutant of ReadNextNumber: the lock covers the SELECT only.
ReadNextNumberAndUnlock(r) ==
  /\ tx[r].pc = "locked"
  /\ tx' = [tx EXCEPT ![r].pc = "numbered", ![r].num = NextNumber(tx[r].session)]
  /\ lock' = [lock EXCEPT ![tx[r].session] = NoOne]
  /\ UNCHANGED <<orders, nextId, purge, today>>

ReadNextNumber(r) ==
  /\ tx[r].pc = "locked"
  /\ tx' = [tx EXCEPT ![r].pc = "numbered", ![r].num = NextNumber(tx[r].session)]
  /\ UNCHANGED <<orders, nextId, lock, purge, today>>

\* INSERT INTO orders ... RETURNING id.  It waits for an open transaction that
\* has inserted the same key and fails on a committed one; the sequence moves
\* on in either case.
InsertOrder(r) ==
  /\ tx[r].pc = "numbered"
  /\ ~Pending(r)
  /\ IF Taken(r)
     THEN Finish(r, "failed")
     ELSE /\ tx' = [tx EXCEPT ![r].pc = "inserted", ![r].id = nextId]
          /\ UNCHANGED lock
  /\ nextId' = nextId + 1
  /\ UNCHANGED <<orders, purge, today>>

InsertItems(r) ==
  /\ tx[r].pc = "inserted"
  /\ tx' = [tx EXCEPT ![r].pc = "itemized"]
  /\ UNCHANGED <<orders, nextId, lock, purge, today>>

Commit(r) ==
  /\ tx[r].pc = "itemized"
  /\ orders' = orders \cup {Row(r)}
  /\ Finish(r, "committed")
  /\ UNCHANGED <<nextId, purge, today>>

\* Any statement may fail (a menu item deleted meanwhile, a quantity of zero,
\* a cancelled request, a lost connection): defer tx.Rollback.
Rollback(r) ==
  /\ tx[r].pc \in InFlight
  /\ Finish(r, "failed")
  /\ UNCHANGED <<orders, nextId, purge, today>>

------------------------------------------------------------------------------
(* Purging, and the clock. *)

\* The committed rows the purge is about, given the day it calls today.
InScope(p, day) == {o \in orders : purge[p].scope = "all" \/ o.day = day}

\* The scope's day is read from the clock first; then SELECT COUNT.
PurgeCount(p) ==
  /\ purge[p].pc = "ready"
  /\ purge' = [purge EXCEPT ![p].pc = "counted", ![p].day = today,
                            ![p].count = Cardinality(InScope(p, today))]
  /\ UNCHANGED <<orders, nextId, lock, tx, today>>

\* DELETE, a statement of its own.
PurgeDelete(p) ==
  /\ purge[p].pc = "counted"
  /\ orders' = orders \ InScope(p, purge[p].day)
  /\ purge' = [purge EXCEPT ![p].pc = "done",
                     ![p].deleted = Cardinality(InScope(p, purge[p].day))]
  /\ UNCHANGED <<nextId, lock, tx, today>>

NextDay ==
  /\ today < MaxDay
  /\ today' = today + 1
  /\ UNCHANGED <<orders, nextId, lock, tx, purge>>

\* The next statement of r gets its answer.
Advance(r) ==
  \/ Begin(r) \/ AcquireLock(r) \/ ReadNextNumber(r) \/ InsertOrder(r)
  \/ InsertItems(r) \/ Commit(r)

RequestStep(r) == Advance(r) \/ Rollback(r)

PurgeStep(p) == PurgeCount(p) \/ PurgeDelete(p)

Next ==
  \/ \E r \in Requests : RequestStep(r)
  \/ \E p \in Purgers : PurgeStep(p)
  \/ NextDay

Spec == Init /\ [][Next]_vars

\* A request's goroutine runs to the end of its handler, and PostgreSQL answers a
\* statement that has nothing to wait for.  No failure is owed, which would get a
\* request out of any wait; nor do the clock and the purges owe anything.
Fairness == \A r \in Requests : WF_vars(Advance(r))

FairSpec == Spec /\ Fairness

------------------------------------------------------------------------------
(* Properties. *)

\* From the SELECT of its number to its commit, the number of a transaction is
\* above every number committed for the session: nobody can take it, so the
\* unique constraint never turns an order away.  The advisory lock is what
\* makes it so.
NumberStaysFree ==
  \A r \in Requests : tx[r].pc \in Holding \ {"locked"} =>
    \A o \in OrdersOf(tx[r].session) : o.num < tx[r].num

\* Within a session a later number is a later id: sorting the desk's list by
\* number (ORDER BY daily_order_number) is sorting it by arrival.
IdsFollowNumbers ==
  \A o, p \in orders : o.session = p.session => (o.num < p.num <=> o.id < p.id)

\* No purge has deleted its rows yet.
Unpurged == \A p \in Purgers : purge[p].pc # "done"

\* As long as nothing is purged, the numbers of a session are 1, 2, ..., n with
\* none missing, however many transactions rolled back in between.
NoGapsUnlessPurged ==
  Unpurged =>
    \A s \in Sessions :
      {o.num : o \in OrdersOf(s)} = 1..Cardinality(OrdersOf(s))

\* No two orders of a session carry the same number.
NumbersUnique ==
  \A o, p \in orders : o.session = p.session /\ o.num = p.num => o = p

\* A transaction that is past its lock statement is the lock's one holder.
HoldersHold ==
  \A r \in Requests : tx[r].pc \in Holding => lock[tx[r].session] = r

\* Ids are drawn in the order in which rows of a session are inserted.
IdsDrawnInOrder ==
  /\ \A o \in orders : o.id < nextId
  /\ \A r \in Requests : tx[r].pc \in {"inserted", "itemized"} =>
       /\ tx[r].id < nextId
       /\ \A o \in OrdersOf(tx[r].session) : o.id < tx[r].id

\* A daily number never exceeds the order's own id: what bounds the numbers,
\* so that the SELECT of their maximum has a value.
NumbersTrailIds ==
  /\ \A o \in orders : o.num <= o.id
  /\ \A r \in Requests :
       /\ tx[r].pc = "numbered" => tx[r].num \in 1..nextId
       /\ tx[r].pc \in {"inserted", "itemized"} => tx[r].num \in 1..tx[r].id

\* And the number a transaction has read is the one that is missing next.
NumbersComeNext ==
  Unpurged =>
    \A r \in Requests : tx[r].pc \in Holding \ {"locked"} =>
      tx[r].num = Cardinality(OrdersOf(tx[r].session)) + 1

\* The inductive invariant: mutual exclusion by the advisory lock, and the
\* order it puts numbers and ids in.
IndInv ==
  /\ TypeOK
  /\ HoldersHold
  /\ NumberStaysFree
  /\ NumbersUnique
  /\ IdsDrawnInOrder
  /\ IdsFollowNumbers
  /\ NumbersTrailIds
  /\ NoGapsUnlessPurged
  /\ NumbersComeNext

\* Every request that gets as far as the repository is answered, whatever the
\* others do with the locks and the pool.
EveryRequestEnds == \A r \in Requests : tx[r].pc = "ready" ~> tx[r].pc \in Ended

\* The desk implements the roll of tickets.
Ticket(o) == [session |-> o.session, num |-> o.num]
Roll == INSTANCE TicketRoll WITH issued <- {Ticket(o) : o \in orders}

\* Every commit issues one ticket above those of its session on file, every
\* purge discards some, and no other step touches them.
ImplementsTicketRoll == Roll!Spec
==============================================================================
