--------------------------------- MODULE Reports ---------------------------------
(***************************************************************************)
(* The reports: GET /api/sessions, /api/sessions/:id/orders,               *)
(* /api/sessions/compare and /api/orders, statement by statement, while    *)
(* orders are placed, edited and purged.  No transaction holds their       *)
(* statements together, so that an answer is put together from several     *)
(* moments; some statements that fail are passed over, and no reader of    *)
(* rows asks whether it got them all (rows.Err), so that a connection that *)
(* breaks shortens an answer and is no error.                              *)
(*                                                                         *)
(* Reports write nothing, so one report at a time is all of them.          *)
(***************************************************************************)
EXTENDS Integers, FiniteSets, Sequences, SequencesExt

CONSTANTS
  Sids,       \* the sessions: numbers
  Unknown,    \* an id of no session
  Items,      \* names of menu items
  MaxAmount,  \* bound: what a line of an order costs
  MaxOrders,  \* bound: orders ever placed
  MaxWrites,  \* bound: changes of the orders
  MaxIds      \* bound: ids in one comparison

ASSUME SessionsAssumption == Sids \subseteq Nat /\ IsFiniteSet(Sids) /\ Unknown \in Nat \ Sids
ASSUME ItemsAssumption    == IsFiniteSet(Items)
ASSUME BoundsAssumption   == /\ MaxAmount \in Nat \ {0}
                             /\ MaxOrders \in Nat \ {0}
                             /\ MaxWrites \in Nat
                             /\ MaxIds \in Nat \ {0}

VARIABLES
  orders,   \* order id -> its session and its lines
  report,   \* the report that is being written
  moments,  \* history: what orders has been since the report began
  flawed,   \* history: did a statement of the report fail, or stop half way?
  writes    \* how often orders has changed

vars == <<orders, report, moments, flawed, writes>>

Oids  == 1..MaxOrders
Lines == [Items -> 0..MaxAmount]    \* item -> price times quantity, or 0: no line
NoLines == [i \in Items |-> 0]
Order == [there : BOOLEAN, session : Sids, lines : Lines]
Ids   == Sids \cup {Unknown}

\* What a report says of one session or order.
Entry == [id : Sids \cup Oids, count : Nat, revenue : Nat, lines : [Items -> Nat]]

Kinds  == {"none", "compare", "history", "orders", "current"}
Report == [kind : Kinds,
           pc : {"idle", "list", "session", "stats", "items", "done", "failed"},
           todo : Seq(Ids \cup Oids),      \* sessions or orders still to be read
           of : Sids,                      \* the session whose orders are listed
           entry : Entry,                  \* what has been read of the first of todo
           said : Seq(Entry)]              \* the answer so far

TypeOK ==
  /\ orders \in [Oids -> Order]
  /\ report \in Report
  /\ moments \subseteq [Oids -> Order]
  /\ flawed \in BOOLEAN
  /\ writes \in 0..MaxWrites

------------------------------------------------------------------------------
(* The database. *)

OrdersOf(db, s) == {o \in Oids : db[o].there /\ db[o].session = s}
Total(lines)    == SumFunction(lines)

\* order_items of a session, by item.
ItemsOf(db, s) == [i \in Items |-> SumFunction([o \in OrdersOf(db, s) |-> db[o].lines[i]])]

\* Mutant of CountOf: COUNT(o.id), without DISTINCT, of the LEFT JOIN.
CountOfRows(db, s) == SumFunction([o \in OrdersOf(db, s) |-> Cardinality({i \in Items : db[o].lines[i] > 0})])

\* GetSessionStats: COUNT(DISTINCT o.id), and SUM over the lines.
CountOf(db, s)   == Cardinality(OrdersOf(db, s))
RevenueOf(db, s) == SumFunction([o \in OrdersOf(db, s) |-> Total(db[o].lines)])

\* Reading is cut short: the first rows only.
FirstRows(lines) == {[i \in Items |-> IF i \in S THEN lines[i] ELSE 0] : S \in SUBSET Items}

NoEntry(id) == [id |-> id, count |-> 0, revenue |-> 0, lines |-> NoLines]
Blank == [kind |-> "none", pc |-> "idle", todo |-> <<>>, of |-> CHOOSE s \in Sids : TRUE,
          entry |-> NoEntry(CHOOSE s \in Sids : TRUE), said |-> <<>>]

Placed == {o \in Oids : orders[o].lines # NoLines}

\* Some orders have been placed and are there.
Init ==
  /\ \E n \in 0..MaxOrders :
       orders \in {db \in [Oids -> Order] :
         \A o \in Oids : /\ db[o].there = (o <= n)
                         /\ (db[o].lines # NoLines) = (o <= n)
                         /\ o > n => db[o].session = Blank.of}
  /\ report = Blank
  /\ moments = {orders}
  /\ flawed = FALSE
  /\ writes = 0

\* orders changes under the report.
Write(db) ==
  /\ writes < MaxWrites
  /\ writes' = writes + 1
  /\ orders' = db
  /\ moments' = moments \cup {db}
  /\ UNCHANGED <<report, flawed>>

\* CreateOrder, with one line or more.
PlaceOrder(o, s, lines) ==
  /\ o \notin Placed /\ \A n \in Oids : n < o => n \in Placed
  /\ lines # NoLines
  /\ Write([orders EXCEPT ![o] = [there |-> TRUE, session |-> s, lines |-> lines]])

\* UpdateOrder replaces the lines.
EditOrder(o, lines) ==
  /\ orders[o].there
  /\ lines # NoLines
  /\ Write([orders EXCEPT ![o].lines = lines])

\* PurgeOrders: all orders, or those of today.
PurgeOrders(first) ==
  /\ \E o \in Oids : o >= first /\ orders[o].there
  /\ Write([o \in Oids |-> IF o >= first THEN [orders[o] EXCEPT !.there = FALSE] ELSE orders[o]])

------------------------------------------------------------------------------
(* Reports. *)

At(pc) == report.pc = pc
Now(rec) == report' = rec /\ UNCHANGED <<orders, writes>>
Flaw(bad) == flawed' = (flawed \/ bad)

\* On to the next session or order, with the answer so far.
Onward(rec, todo, pc) ==
  [rec EXCEPT !.todo = todo,
              !.pc = IF todo = <<>> THEN "done" ELSE pc,
              !.entry = IF todo = <<>> \/ pc = "session" THEN Blank.entry ELSE NoEntry(Head(todo))]

Further(rec, pc) == Onward(rec, Tail(rec.todo), pc)
Say(entry) == [report EXCEPT !.said = Append(@, entry)]

Begin(rec, pc, ids) ==
  /\ At("idle")
  /\ Now(Onward(rec, ids, pc))
  /\ moments' = {orders}
  /\ UNCHANGED flawed

\* CompareSessions: ids as they are given, twice perhaps, but no empty list.
BeginCompare(ids) ==
  /\ ids # <<>>
  /\ Begin([Blank EXCEPT !.kind = "compare"], "session", ids)

\* GetSessions: the sessions within the dates, the newest first.  (What else the
\* handler does, closing sessions that are over, is in SessionDesk.)
BeginHistory(S) ==
  \E list \in SetToSeqs(S) :
    /\ \A m, n \in DOMAIN list : m < n => list[m] > list[n]
    /\ Begin([Blank EXCEPT !.kind = "history"], "stats", list)

\* GetSessionOrders, GetOrders: the session, or no orders.
BeginOrders(kind, s) ==
  /\ At("idle") /\ kind \in {"orders", "current"}
  /\ Now([Blank EXCEPT !.kind = kind, !.pc = "list", !.of = s])
  /\ moments' = {orders}
  /\ UNCHANGED flawed

\* Mutant of Found: ids are not looked up.
FoundAlways(id) == TRUE

\* GetSessionByID finds it?
Found(id) == id \in Sids

\* CompareSessionStats passes over what it does not find ...
ReadSession ==
  /\ At("session")
  /\ Now(IF Found(Head(report.todo)) THEN [report EXCEPT !.pc = "stats", !.entry = NoEntry(Head(report.todo))]
         ELSE Further(report, "session"))
  /\ UNCHANGED <<moments, flawed>>

\* Count and revenue are of one moment.
ReadStats ==
  LET s == report.entry.id
      entry == [report.entry EXCEPT !.count = CountOf(orders, s), !.revenue = RevenueOf(orders, s)]
  IN  /\ At("stats")
      /\ Now(IF report.kind = "compare" THEN [report EXCEPT !.entry = entry, !.pc = "items"]
             ELSE Further(Say(entry), "stats"))
      /\ UNCHANGED <<moments, flawed>>

\* What the items of a session came to, and the entry is complete.
ReadBreakdown(lines) ==
  /\ At("items") /\ report.kind = "compare"
  /\ lines \in FirstRows(ItemsOf(orders, report.entry.id))
  /\ Now(Further(Say([report.entry EXCEPT !.lines = lines]), "session"))
  /\ Flaw(lines # ItemsOf(orders, report.entry.id))
  /\ UNCHANGED moments

\* GetOrdersBySession: all of them, or the first.  They are sorted by status, which
\* is not modelled: any may come first.
ReadOrders(got) ==
  LET all == OrdersOf(orders, report.of)
  IN  /\ At("list")
      /\ got \subseteq all
      /\ \E list \in SetToSeqs(got) : Now(Onward(report, list, "items"))
      /\ Flaw(got # all)
      /\ UNCHANGED moments

\* The lines of an order that is still there, or none.
LinesNow(o) == IF orders[o].there THEN orders[o].lines ELSE NoLines

\* Mutant of OrderEntry: the total is set to zero once, before the first order.
OrderEntryOn(o, lines) ==
  [NoEntry(o) EXCEPT !.lines = lines,
                     !.revenue = Total(lines) + (IF report.said = <<>> THEN 0
                                                 ELSE report.said[Len(report.said)].revenue)]

\* An order with its total.
OrderEntry(o, lines) == [NoEntry(o) EXCEPT !.lines = lines, !.revenue = Total(lines)]

\* GetOrderItems for the next order.
ReadItems(lines) ==
  LET o == report.entry.id
  IN  /\ At("items") /\ report.kind # "compare"
      /\ lines \in FirstRows(LinesNow(o))
      /\ Now(Further(Say(OrderEntry(o, lines)), "items"))
      /\ Flaw(lines # LinesNow(o))
      /\ UNCHANGED moments

\* A statement fails.  Of a comparison or the orders of a session it is passed
\* over with what it was about, the history takes it for zero, and the orders
\* of the current session, or any list to begin with, are an error.
Fail ==
  /\ report.pc \in {"session", "stats", "items", "list"}
  /\ Now(CASE report.kind = "compare"               -> Further(report, "session")
           [] report.kind = "orders" /\ At("items") -> Further(report, "items")
           [] report.kind = "history"               -> Further(Say(report.entry), "stats")
           [] OTHER                                 -> [report EXCEPT !.pc = "failed"])
  /\ Flaw(TRUE)
  /\ UNCHANGED moments

ReadOn ==
  \/ ReadSession
  \/ ReadStats
  \/ \E lines \in [Items -> 0..(MaxAmount * MaxOrders)] : ReadBreakdown(lines)
  \/ \E got \in SUBSET Oids : ReadOrders(got)
  \/ \E lines \in Lines : ReadItems(lines)
  \/ Fail

Next ==
  \/ \E o \in Oids, s \in Sids, lines \in Lines : PlaceOrder(o, s, lines)
  \/ \E o \in Oids, lines \in Lines : EditOrder(o, lines)
  \/ \E first \in Oids : PurgeOrders(first)
  \/ \E ids \in BoundedSeq(Ids, MaxIds) : BeginCompare(ids)
  \/ \E S \in SUBSET Sids : BeginHistory(S)
  \/ \E s \in Sids, kind \in {"orders", "current"} : BeginOrders(kind, s)
  \/ ReadOn

Spec == Init /\ [][Next]_vars

------------------------------------------------------------------------------
(* What CompareSessions answers in the end. *)

TotalOrders  == SumFunction([n \in DOMAIN report.said |-> report.said[n].count])
TotalRevenue == SumFunction([n \in DOMAIN report.said |-> report.said[n].revenue])

\* Mutant of ItemTotals: the last session that sold an item takes it all.
ItemTotalsLast ==
  [i \in Items |->
     LET sold == {n \in DOMAIN report.said : report.said[n].lines[i] > 0}
     IN  IF sold = {} THEN 0
         ELSE report.said[CHOOSE n \in sold : \A m \in sold : m <= n].lines[i]]

ItemTotals ==
  [i \in Items |-> SumFunction([n \in DOMAIN report.said |-> report.said[n].lines[i]])]

\* Percent of the revenue, rounded down; no division by zero.
Percent(i) == IF TotalRevenue > 0 THEN (ItemTotals[i] * 100) \div TotalRevenue ELSE 0

------------------------------------------------------------------------------
(* Properties. *)

Entries == {report.said[n] : n \in DOMAIN report.said}
OfSessions == report.kind \in {"compare", "history"}

\* Count and revenue of a session belong together: both are what they were at
\* one moment of the report, whatever is placed, edited or purged meanwhile.
StatsOfOneMoment ==
  OfSessions => \A e \in Entries :
    \/ flawed /\ e = NoEntry(e.id)
    \/ \E db \in moments : /\ e.count = Cardinality(OrdersOf(db, e.id))
                            /\ e.revenue = Total(ItemsOf(db, e.id))

\* A comparison nothing interfered with adds up: the items make the revenue,
\* the sessions make the totals, the percentages do not exceed a hundred.
QuietComparisonAddsUp ==
  report.kind = "compare" /\ At("done") /\ ~flawed /\ Cardinality(moments) = 1 =>
    /\ Total(ItemTotals) = TotalRevenue
    /\ SumFunction([i \in Items |-> Percent(i)]) <= 100
    /\ \A db \in moments : (\A m, n \in DOMAIN report.said : report.said[m].id = report.said[n].id => m = n) =>
         /\ TotalOrders <= Cardinality({o \in Oids : db[o].there})
         /\ \A s \in Sids : \A e \in Entries : e.id = s => e.lines = ItemsOf(db, s)

\* What is said of an order: it was in the session, and its total was so, or there
\* was nothing left of it to read.
OrderWasSo(e) ==
  /\ \E db \in moments : e.id \in OrdersOf(db, report.of)
  /\ \/ \E db \in moments : db[e.id].there /\ e.revenue = Total(db[e.id].lines)
     \/ ~orders[e.id].there /\ e.revenue = 0
     \/ flawed /\ \E db \in moments : db[e.id].there /\ e.revenue <= Total(db[e.id].lines)

\* A list of orders: each was in the session when the report began or after,
\* and its total is one it had since then, but for an order purged meanwhile,
\* which is listed with nothing in it, and for rows that got lost.
ListedTotalsWereTrue == ~OfSessions => \A e \in Entries : OrderWasSo(e)

------------------------------------------------------------------------------
(* The inductive invariant. *)

\* Each kind of report is at statements of its own, with something left to read.
StatementsInStep ==
  /\ At("idle") <=> report.kind = "none"
  /\ report.kind = "none"    => report.said = <<>>
  /\ report.kind = "compare" => report.pc \in {"session", "stats", "items", "done"}
  /\ report.kind = "history" => report.pc \in {"stats", "done"}
  /\ report.kind \in {"orders", "current"} => report.pc \in {"list", "items", "done", "failed"}
  /\ report.pc \in {"session", "stats", "items"} => report.todo # <<>>

\* What is left to read: ids that were given, sessions, or orders that were in the
\* session at some moment.
TodoFits ==
  /\ report.kind = "compare" => report.todo \in Seq(Ids)
  /\ report.kind = "history" => report.todo \in Seq(Sids)
  /\ report.kind \in {"orders", "current"} =>
       /\ report.todo \in Seq(Oids)
       /\ \A n \in DOMAIN report.todo : \E db \in moments : report.todo[n] \in OrdersOf(db, report.of)

\* The entry is about the first of them, and what it says so far was so.
EntryFits ==
  /\ At("stats") => Head(report.todo) \in Sids /\ report.entry = NoEntry(Head(report.todo))
  /\ At("items") /\ report.kind # "compare" => report.entry = NoEntry(Head(report.todo))
  /\ At("items") /\ report.kind = "compare" =>
       /\ report.entry.id = Head(report.todo) /\ report.entry.id \in Sids
       /\ \E db \in moments : /\ report.entry.count = CountOf(db, report.entry.id)
                               /\ report.entry.revenue = RevenueOf(db, report.entry.id)

\* The present is a moment like the others, and an order once placed has lines for
\* good, those of a purged one too: its id is not given again.
MomentsFit ==
  /\ IsFiniteSet(moments)
  /\ orders \in moments
  /\ \A db \in moments : \A o \in Oids :
       /\ db[o].there => db[o].lines # NoLines
       /\ db[o].lines # NoLines => orders[o].lines # NoLines

\* What is said of a session: it had this at one moment, unless the statement failed.
StatsWereSo(e) ==
  /\ e.id \in Sids
  /\ \/ flawed /\ e = NoEntry(e.id)
     \/ \E db \in moments : e.count = CountOf(db, e.id) /\ e.revenue = RevenueOf(db, e.id)

\* The answer so far.  The items of a session were so as well, at the same moment or
\* another.
WasSo(e) ==
  /\ OfSessions  => StatsWereSo(e)
  /\ ~OfSessions => OrderWasSo(e)
  /\ report.kind = "compare" /\ ~flawed => \E db \in moments : e.lines = ItemsOf(db, e.id)

SaidFits == \A n \in DOMAIN report.said : WasSo(report.said[n])

\* Every report goes from statement to statement as its handler does, and
\* what it has read was so at some moment since it began.
IndInv ==
  /\ TypeOK
  /\ StatementsInStep
  /\ TodoFits
  /\ EntryFits
  /\ MomentsFit
  /\ SaidFits
==================================================
