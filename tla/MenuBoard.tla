------------------------------- MODULE MenuBoard -------------------------------
(***************************************************************************)
(* The menu and the orders that refer to it: the handlers of               *)
(* internal/api/menu.go beside the parts of CreateOrder and UpdateOrder    *)
(* that read menu items and write order_items, one action per SQL          *)
(* statement, many calls at once.                                          *)
(*                                                                         *)
(* Three of these write more than one row in a transaction, and rows they  *)
(* have written or refer to stay locked until it ends: UpdateMenuItems-    *)
(* Order, which takes the rows in the random order of a Go map, the        *)
(* transactions of an order, whose foreign key locks the menu items, and   *)
(* DELETE FROM menu_items, which must reach the lines of orders (ON DELETE *)
(* SET NULL).  They may wait for each other in a circle; PostgreSQL then   *)
(* fails one of them.                                                      *)
(*                                                                         *)
(* price stands for name and price of an item, which are handled alike:    *)
(* written if the request gives them, copied into orders.                  *)
(***************************************************************************)
EXTENDS Integers, FiniteSets

CONSTANTS
  Calls,     \* HTTP calls
  Kinds,     \* the handlers the calls may be for
  Prices,    \* positive numbers
  Listed,    \* menu items there are at the start
  MaxItems,  \* bound: menu items ever made
  MaxOrders  \* bound: orders ever taken

AllKinds == {"create", "edit", "delete", "reorder", "order", "amend"}

ASSUME KindsAssumption  == Kinds \subseteq AllKinds
ASSUME BoundsAssumption == /\ MaxItems \in Nat \ {0}
                           /\ MaxOrders \in Nat \ {0}
                           /\ Listed \in 0..MaxItems
ASSUME PricesAssumption == Prices \subseteq Nat \ {0} /\ Prices # {}

VARIABLES
  menu,     \* item id -> row of menu_items
  orders,   \* order id -> its rows of order_items; {} before it is taken
  call,     \* call -> where its handler stands and what it has read
  said,     \* history: the fields of each item as they were last asked for
  spoilt,   \* history: fields that an overtaken edit has written back
  muddled   \* history: may two active items be in one position?

vars == <<menu, orders, call, said, spoilt, muddled>>

Ids    == 1..MaxItems
Oids   == 1..MaxOrders
Fields == {"price", "active", "pos"}
NotGiven == 0   \* no price in the request

Values == [price : Prices, active : BOOLEAN, pos : Nat]
Row    == [state : {"NONE", "THERE", "GONE"}, price : Prices, active : BOOLEAN, pos : Nat]
Line   == [item : Ids, price : Prices, linked : BOOLEAN]

Pcs == {"start", "write", "delete", "setNull", "insert", "row", "commitRows",
        "look", "open", "line", "commitLines", "done"}

Call == [kind : Kinds \cup {"none"}, pc : Pcs,
         item : Ids,           \* the item it is about, or has come to
         read : Values,        \* of an edit: the row as it was read; of a
                               \* create: pos, MAX(display_order) + 1
         to : [Ids -> Nat],    \* of a reorder: positions asked for, or 0
         todo : SUBSET Ids,    \* items of the request still to be dealt with
         oid : Oids,
         lines : SUBSET Line,  \* items and prices captured for an order
         locks : SUBSET Ids,   \* rows of menu_items its transaction has locked
         overtaken : BOOLEAN]  \* history: has the menu changed under it?

TypeOK ==
  /\ menu \in [Ids -> Row]
  /\ orders \in [Oids -> SUBSET Line]
  /\ call \in [Calls -> Call]
  /\ said \in [Ids -> Values]
  /\ spoilt \subseteq Ids \X Fields
  /\ muddled \in BOOLEAN

There(i) == menu[i].state = "THERE"
OnMenu   == {i \in Ids : There(i)}
Active   == {i \in OnMenu : menu[i].active}

ValuesOf(row) == [price |-> row.price, active |-> row.active, pos |-> row.pos]

\* A call with nothing in its hands, before and after.
Idle(pc) ==
  [kind |-> "none", pc |-> pc, item |-> 1,
   read |-> [price |-> CHOOSE p \in Prices : TRUE, active |-> TRUE, pos |-> 0],
   to |-> [i \in Ids |-> 0], todo |-> {}, oid |-> 1, lines |-> {}, locks |-> {},
   overtaken |-> FALSE]

\* A menu of active items in their positions, and at most one order for one of them.
Init ==
  /\ \E p \in Prices :
       /\ menu = [i \in Ids |-> [state |-> IF i <= Listed THEN "THERE" ELSE "NONE",
                                 price |-> p, active |-> TRUE, pos |-> i]]
       /\ \/ orders = [o \in Oids |-> {}]
          \/ \E i \in OnMenu : orders = [o \in Oids |->
                IF o = 1 THEN {[item |-> i, price |-> p, linked |-> TRUE]} ELSE {}]
  /\ call = [c \in Calls |-> Idle("start")]
  /\ said = [i \in Ids |-> ValuesOf(menu[i])]
  /\ spoilt = {}
  /\ muddled = FALSE

------------------------------------------------------------------------------
(* Locks. *)

At(c, pc) == call[c].pc = pc
Is(c, kind) == call[c].kind = kind
With(c, rec) == [call EXCEPT ![c] = rec]

\* The handler answers, and its transaction, if it has one, is over: it was
\* committed, or the deferred Rollback undoes it.
\* Mutant of RolledBack: there is no deferred Rollback.
KeepsLocks(c) == [Idle("done") EXCEPT !.kind = call[c].kind, !.locks = call[c].locks]
RolledBack(c) == Idle("done")
Answered == Idle("done")

\* Mutant of Against: a foreign key that takes no lock and waits for none.
AgainstNoKey(pc) == CASE pc \in {"write", "row"} -> {"reorder", "delete"}
                      [] pc = "delete"           -> {"reorder", "delete"}
                      [] OTHER                   -> {}

\* Which locks keep a statement at pc from its row.  An update locks FOR NO KEY
\* UPDATE, a deletion FOR UPDATE, a foreign key FOR KEY SHARE.
Against(pc) == CASE pc \in {"write", "row"} -> {"reorder", "delete"}
                 [] pc = "delete"           -> {"reorder", "delete", "order", "amend"}
                 [] pc = "line"             -> {"delete"}
                 [] OTHER                   -> {}

\* An edit of order o that has deleted its lines and not committed yet.
Rewriting(d, o) == Is(d, "amend") /\ call[d].pc \in {"line", "commitLines"} /\ call[d].oid = o

LinkedTo(i) == {o \in Oids : \E l \in orders[o] : l.item = i /\ l.linked}

\* Does the next statement of c wait for the transaction of d?
WaitsFor(c, d) ==
  /\ c # d
  /\ \/ call[c].item \in call[d].locks /\ call[d].kind \in Against(call[c].pc)
     \/ At(c, "setNull") /\ \E o \in LinkedTo(call[c].item) : Rewriting(d, o)
     \/ At(c, "open") /\ Is(c, "amend") /\ Rewriting(d, call[c].oid)

Free(c) == \A d \in Calls : ~WaitsFor(c, d)

\* All of X wait for one of X: a smallest such X is a circle.
Stuck(X) == X # {} /\ \A c \in X : \E d \in X : WaitsFor(c, d)
Circle(X) == Stuck(X) /\ \A Y \in SUBSET X : Stuck(Y) => Y = X

------------------------------------------------------------------------------
(* History. *)

\* Has d read what the rows just written make stale?
Behind(d, items) == \/ At(d, "write") /\ call[d].item \in items
                    \/ At(d, "insert")

\* c is as rec, and has written the given rows.
Wrote(c, rec, items) ==
  call' = [d \in Calls |->
             IF d = c THEN rec
             ELSE [call[d] EXCEPT !.overtaken = @ \/ Behind(d, items)]]

Pairs(items, fields) == {<<i, f>> : i \in items, f \in fields}

------------------------------------------------------------------------------
(* CreateMenuItem. *)

\* Mutant of NextPosition: SELECT COUNT(*) + 1.
CountPosition == {Cardinality(OnMenu) + 1}

\* COALESCE(MAX(display_order), 0) + 1
NextPosition == {m + 1 : m \in {n \in {0} \cup {menu[i].pos : i \in OnMenu} :
                                  \A i \in OnMenu : menu[i].pos <= n}}

ReadMaxOrder(c) ==
  /\ At(c, "start") /\ "create" \in Kinds
  /\ \E pos \in NextPosition, p \in Prices :
       call' = With(c, [call[c] EXCEPT !.kind = "create", !.pc = "insert",
                          !.read = [price |-> p, active |-> TRUE, pos |-> pos]])
  /\ UNCHANGED <<menu, orders, said, spoilt, muddled>>

\* i is a new id: there is a next one, or the call waits (bound).
InsertMenuItem(c, i) ==
  /\ At(c, "insert")
  /\ \A j \in Ids : menu[j].state = "NONE" <=> j >= i
  /\ menu' = [menu EXCEPT ![i] = [state |-> "THERE", price |-> call[c].read.price,
                                  active |-> TRUE, pos |-> call[c].read.pos]]
  /\ Wrote(c, Answered, {i})
  /\ said' = [said EXCEPT ![i] = call[c].read]
  /\ muddled' = (muddled \/ call[c].overtaken)
  /\ UNCHANGED <<orders, spoilt>>

------------------------------------------------------------------------------
(* UpdateMenuItem, DeleteMenuItem. *)

\* GetMenuItemByID: the item is there, or 404.
ReadMenuItem(c, i, kind) ==
  /\ At(c, "start") /\ kind \in Kinds \cap {"edit", "delete"}
  /\ IF There(i)
     THEN call' = With(c, [call[c] EXCEPT !.kind = kind, !.item = i,
                             !.pc = IF kind = "edit" THEN "write" ELSE "delete",
                             !.read = IF kind = "edit" THEN ValuesOf(menu[i]) ELSE @])
     ELSE call' = With(c, Answered)
  /\ UNCHANGED <<menu, orders, said, spoilt, muddled>>

\* What an admin may send for is_active: nothing, or a value.
GivenActive == {{}, {TRUE}, {FALSE}}

\* Mutant of Edited: is_active is no pointer, so that nothing given is false.
EditedPlainly(v, p, a) ==
  [v EXCEPT !.price = IF p # NotGiven THEN p ELSE @, !.active = (TRUE \in a)]

\* The fields that are given, in the row that was read.
Edited(v, p, a) ==
  [v EXCEPT !.price  = IF p # NotGiven THEN p ELSE @,
            !.active = IF a = {} THEN @ ELSE TRUE \in a]

\* The fields the request does not give.
Unsaid(p, a) == {"pos"} \cup (IF p = NotGiven THEN {"price"} ELSE {})
                        \cup (IF a = {} THEN {"active"} ELSE {})

\* UPDATE menu_items SET all fields.  An item that is gone by now is none of
\* its rows, and the answer is 200 as well.
UpdateMenuItem(c, p, a) ==
  LET i   == call[c].item
      new == Edited(call[c].read, p, a)
  IN  /\ At(c, "write")
      /\ Free(c)
      /\ IF There(i)
         THEN /\ menu' = [menu EXCEPT ![i].price = new.price, ![i].active = new.active,
                                      ![i].pos = new.pos]
              /\ Wrote(c, Answered, {i})
              /\ said' = [said EXCEPT
                           ![i].price  = IF "price" \in Unsaid(p, a) THEN @ ELSE new.price,
                           ![i].active = IF "active" \in Unsaid(p, a) THEN @ ELSE new.active]
              /\ spoilt' = IF call[c].overtaken
                           THEN (spoilt \ Pairs({i}, Fields)) \cup Pairs({i}, Unsaid(p, a))
                           ELSE spoilt \ Pairs({i}, Fields \ Unsaid(p, a))
              /\ muddled' = (\/ muddled \/ call[c].overtaken
                             \/ new.active /\ ~menu[i].active)
         ELSE /\ call' = With(c, Answered)
              /\ UNCHANGED <<menu, said, spoilt, muddled>>
      /\ UNCHANGED orders

\* DELETE FROM menu_items, as far as the row itself.
LockToDelete(c) ==
  /\ At(c, "delete")
  /\ Free(c)
  /\ call' = With(c, IF There(call[c].item)
                     THEN [call[c] EXCEPT !.pc = "setNull", !.locks = {call[c].item}]
                     ELSE Answered)
  /\ UNCHANGED <<menu, orders, said, spoilt, muddled>>

\* Mutant of Unlinked: no foreign key.
StillLinked(lines, i) == lines

\* ON DELETE SET NULL
Unlinked(lines, i) ==
  {[l EXCEPT !.linked = (l.linked /\ l.item # i)] : l \in lines}

\* ... and its end, which waits for the lines others have deleted.  (They are
\* taken all at once here and one by one by PostgreSQL.)
DeleteMenuItem(c) ==
  LET i == call[c].item
  IN  /\ At(c, "setNull")
      /\ Free(c)
      /\ menu' = [menu EXCEPT ![i].state = "GONE"]
      /\ orders' = [o \in Oids |-> Unlinked(orders[o], i)]
      /\ call' = With(c, Answered)
      /\ UNCHANGED <<said, spoilt, muddled>>

------------------------------------------------------------------------------
(* UpdateMenuItemsOrder. *)

\* A page that lists the items S asks for the positions 1, 2, ... of them.
Arrangements(S) ==
  {f \in [Ids -> 0..Cardinality(S)] :
     /\ \A i \in Ids : f[i] = 0 <=> i \notin S
     /\ \A i, j \in S : f[i] = f[j] => i = j}

\* The item that comes next, if any is left, in the order of a Go map.
Onward(rec, todo, pc, last) ==
  IF todo = {} THEN {[rec EXCEPT !.pc = last, !.todo = {}]}
  ELSE {[rec EXCEPT !.pc = pc, !.item = i, !.todo = todo] : i \in todo}

\* The page may have been loaded some time ago.
BeginReorder(c) ==
  /\ At(c, "start") /\ "reorder" \in Kinds
  /\ \E S \in (SUBSET Ids) \ {{}} : \E f \in Arrangements(S) :
       \E rec \in Onward([call[c] EXCEPT !.kind = "reorder", !.to = f], S, "row", "commitRows") :
         call' = With(c, rec)
  /\ UNCHANGED <<menu, orders, said, spoilt, muddled>>

\* UPDATE menu_items SET display_order, seen by others after the COMMIT.
UpdateRow(c) ==
  /\ At(c, "row")
  /\ Free(c)
  /\ \E rec \in Onward([call[c] EXCEPT !.locks = @ \cup ({call[c].item} \cap OnMenu)],
                      call[c].todo \ {call[c].item}, "row", "commitRows") :
       call' = With(c, rec)
  /\ UNCHANGED <<menu, orders, said, spoilt, muddled>>

CommitReorder(c) ==
  LET rows == call[c].locks
      to   == call[c].to
  IN  /\ At(c, "commitRows")
      /\ menu' = [i \in Ids |-> IF i \in rows THEN [menu[i] EXCEPT !.pos = to[i]] ELSE menu[i]]
      /\ said' = [i \in Ids |-> IF i \in rows THEN [said[i] EXCEPT !.pos = to[i]] ELSE said[i]]
      /\ Wrote(c, Answered, rows)
      /\ spoilt' = spoilt \ Pairs(rows, {"pos"})
      /\ muddled' = ~(Active \subseteq rows)
      /\ UNCHANGED orders

------------------------------------------------------------------------------
(* CreateOrder and UpdateOrder, from the menu to the lines of the order.  The *)
(* rest of what they do is in SessionDesk, OrderNumbers and OrderBoard.       *)

\* A new order is for one item or more; an edit reads its order first (404).
BeginOrder(c, o, kind) ==
  /\ At(c, "start") /\ kind \in Kinds \cap {"order", "amend"}
  /\ IF kind = "amend" /\ orders[o] = {}
     THEN call' = With(c, Answered)
     ELSE \E S \in (SUBSET Ids) \ {{}} :
            call' = With(c, [call[c] EXCEPT !.kind = kind, !.pc = "look", !.todo = S,
                                   !.oid = IF kind = "amend" THEN o ELSE @])
  /\ UNCHANGED <<menu, orders, said, spoilt, muddled>>

\* GetMenuItemByID captures name and price, or the answer is 400.
CaptureItem(c, i) ==
  /\ At(c, "look")
  /\ i \in call[c].todo
  /\ call' = With(c,
       IF ~There(i) THEN Answered
       ELSE [call[c] EXCEPT
               !.todo = @ \ {i},
               !.lines = @ \cup {[item |-> i, price |-> menu[i].price, linked |-> TRUE]},
               !.pc = IF call[c].todo = {i} THEN "open" ELSE @])
  /\ UNCHANGED <<menu, orders, said, spoilt, muddled>>

\* The transaction up to the lines: an edit locks its order and deletes them.
OpenOrder(c) ==
  /\ At(c, "open")
  /\ Free(c)
  /\ \E rec \in Onward(call[c], {l.item : l \in call[c].lines}, "line", "commitLines") :
       call' = With(c, rec)
  /\ UNCHANGED <<menu, orders, said, spoilt, muddled>>

\* INSERT INTO order_items; the foreign key wants the item to be there.
InsertLine(c) ==
  /\ At(c, "line")
  /\ Free(c)
  /\ IF There(call[c].item)
     THEN \E rec \in Onward([call[c] EXCEPT !.locks = @ \cup {call[c].item}],
                           call[c].todo \ {call[c].item}, "line", "commitLines") :
            call' = With(c, rec)
     ELSE call' = With(c, RolledBack(c))
  /\ UNCHANGED <<menu, orders, said, spoilt, muddled>>

\* o is the order edited, or a new one.
CommitLines(c, o) ==
  /\ At(c, "commitLines")
  /\ IF Is(c, "amend") THEN o = call[c].oid
     ELSE \A n \in Oids : orders[n] = {} <=> n >= o
  /\ orders' = [orders EXCEPT ![o] = call[c].lines]
  /\ call' = With(c, Answered)
  /\ UNCHANGED <<menu, said, spoilt, muddled>>

------------------------------------------------------------------------------

\* A request without a body, with a negative price, or with an empty map.
Refuse(c) ==
  /\ \/ At(c, "start") /\ Kinds \cap {"create", "reorder"} # {}
     \/ At(c, "write")
  /\ call' = With(c, Answered)
  /\ UNCHANGED <<menu, orders, said, spoilt, muddled>>

\* A statement fails, or the connection or the server is gone: everything the
\* transaction did is undone.
Fail(c) ==
  /\ call[c].pc \notin {"start", "done"}
  /\ call' = With(c, RolledBack(c))
  /\ UNCHANGED <<menu, orders, said, spoilt, muddled>>

\* PostgreSQL finds a circle and fails one of it.
DetectDeadlock(c) ==
  /\ \E X \in SUBSET Calls : c \in X /\ Circle(X)
  /\ call' = With(c, RolledBack(c))
  /\ UNCHANGED <<menu, orders, said, spoilt, muddled>>

\* The next statement of c, when it has nothing to wait for.
Advance(c) ==
  \/ ReadMaxOrder(c)
  \/ \E i \in Ids : InsertMenuItem(c, i)
  \/ \E i \in Ids, kind \in {"edit", "delete"} : ReadMenuItem(c, i, kind)
  \/ \E p \in Prices \cup {NotGiven}, a \in GivenActive : UpdateMenuItem(c, p, a)
  \/ LockToDelete(c)
  \/ DeleteMenuItem(c)
  \/ BeginReorder(c)
  \/ UpdateRow(c)
  \/ CommitReorder(c)
  \/ \E o \in Oids, kind \in {"order", "amend"} : BeginOrder(c, o, kind)
  \/ \E i \in Ids : CaptureItem(c, i)
  \/ OpenOrder(c)
  \/ InsertLine(c)
  \/ \E o \in Oids : CommitLines(c, o)
  \/ Refuse(c)

Next == \E c \in Calls : Advance(c) \/ Fail(c) \/ DetectDeadlock(c)

\* The goroutine of a call runs on when it can; PostgreSQL looks for circles
\* when somebody has waited for a while.  Nobody owes a failure.
Fairness == \A c \in Calls : WF_vars(Advance(c)) /\ WF_vars(DetectDeadlock(c))

Spec == Init /\ [][Next]_vars
FairSpec == Spec /\ Fairness

------------------------------------------------------------------------------
(* Properties. *)

\* An edit writes all fields of the row it has read, among them the position.
\* Nothing anybody asked for is lost by that, unless the row was written
\* between the two, in which case the field was not given.
FieldsAsLastSaid ==
  \A i \in OnMenu, f \in Fields : <<i, f>> \in spoilt \/ menu[i][f] = said[i][f]

\* The list is in one order: no two items on show have the same position but
\* after a race, after an item was shown again, or after a page arranged less
\* than what is on show.  The next page that arranges it all puts it right.
PositionsDistinctUnlessMuddled ==
  muddled \/ \A i, j \in Active : menu[i].pos = menu[j].pos => i = j

\* No line refers to an item that is not there, however deletions and orders
\* overlap: the order locks what it refers to, the deletion waits for it.
LinkedItemsExist == \A o \in Oids : \A l \in orders[o] : l.linked => There(l.item)

\* What makes these inductive.  Whose transaction is where:
HandlersInStep ==
  \A c \in Calls :
    /\ call[c].pc \in {"write", "insert"}        => call[c].kind \in {"edit", "create"}
    /\ At(c, "insert")                          => call[c].read.active
    /\ call[c].pc \in {"delete", "setNull"}      => Is(c, "delete")
    /\ call[c].pc \in {"row", "commitRows"}      => Is(c, "reorder")
    /\ call[c].pc \in {"look", "open", "line", "commitLines"} =>
         call[c].kind \in {"order", "amend"}
    /\ call[c].pc \in {"start", "write", "delete", "insert", "look", "open", "done"} =>
         call[c].locks = {}
\* a lock is on a row that is there, and one to delete it excludes all others;
LocksHold ==
  \A c \in Calls :
    /\ call[c].locks \subseteq OnMenu
    /\ At(c, "setNull") => /\ call[c].locks = {call[c].item}
                           /\ \A d \in Calls \ {c} : call[c].item \notin call[d].locks
\* an order has locked what it refers to, or will;
LinesHeld ==
  \A c \in Calls : \A l \in call[c].lines :
    /\ At(c, "line") => l.item \in call[c].locks \cup call[c].todo
    /\ At(c, "commitLines") => l.item \in call[c].locks
\* a reorder asks for different positions, and locks rows it asked about;
ArrangesApart ==
  \A c \in Calls : call[c].pc \in {"row", "commitRows"} =>
    /\ \A i, j \in Ids : call[c].to[i] = call[c].to[j] /\ call[c].to[i] # 0 => i = j
    /\ \A i \in call[c].locks \cup call[c].todo : call[c].to[i] # 0
    /\ At(c, "row") => call[c].item \in call[c].todo
\* and what an edit or a create has read holds until the menu changes under it.
ReadsHold ==
  \A c \in Calls : ~call[c].overtaken =>
    /\ At(c, "write") /\ There(call[c].item) => call[c].read = ValuesOf(menu[call[c].item])
    /\ At(c, "insert") => \A i \in OnMenu : menu[i].pos < call[c].read.pos

\* The inductive invariant of the proofs.
IndInv ==
  /\ TypeOK
  /\ FieldsAsLastSaid
  /\ PositionsDistinctUnlessMuddled
  /\ LinkedItemsExist
  /\ HandlersInStep
  /\ LocksHold
  /\ LinesHeld
  /\ ArrangesApart
  /\ ReadsHold

\* Reorderings that take the rows in opposite orders, and an edit of an order
\* beside the deletion of an item of it, block each other and are let go;
\* whoever waits for a row gets it or an error.  (An item or order beyond the
\* bounds is never made.)
HasRoom(c) == /\ At(c, "insert") => \E i \in Ids : menu[i].state = "NONE"
              /\ At(c, "commitLines") => Is(c, "amend") \/ \E o \in Oids : orders[o] = {}
EveryCallEnds == \A c \in Calls : <>(At(c, "done") \/ ~HasRoom(c))
==============================================================================
