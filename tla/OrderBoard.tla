------------------------------ MODULE OrderBoard ------------------------------
(***************************************************************************)
(* What the browsers show: the WebSocket hub of internal/api/orders.go and *)
(* the list each browser keeps in frontend/src/hooks/useOrders.ts.  A      *)
(* handler that has written to the database writes its message to every    *)
(* connection itself, in no order with other handlers; HandleWebSocket     *)
(* registers a connection before it reads and sends what there is.         *)
(*                                                                         *)
(* The WebSocket library supports one writer per connection and the hub    *)
(* does not see to it: when two writes to a connection overlap, either     *)
(* message may be lost and either writer may panic.                        *)
(*                                                                         *)
(* One session is modelled, from when it is active to after its close.     *)
(* Statistics and session details are written like all messages but not    *)
(* followed into the page.                                                 *)
(***************************************************************************)
EXTENDS Integers, Sequences, FiniteSets, Functions

CONSTANTS
  Browsers,  \* open pages that use the hook useOrders
  Calls,     \* HTTP calls that change something
  Kinds,     \* what they may be
  MaxOrders, \* bound: rows of the table orders
  MaxConns,  \* bound: WebSocket connections of a browser, one after the other
  MaxLoads   \* bound: times a browser loads its list

AllKinds == {"order", "status", "edit", "purge", "close"}

ASSUME KindsAssumption == Kinds \subseteq AllKinds
ASSUME BoundsAssumption ==
  MaxOrders \in Nat \ {0} /\ MaxConns \in Nat \ {0} /\ MaxLoads \in Nat \ {0}

VARIABLES
  orders,   \* order id -> status of its row
  open,     \* is the session active?
  call,     \* call -> where its handler stands
  clients,  \* the connections that are registered
  serve,    \* connection -> where its HandleWebSocket stands, what it has to send
  overlap,  \* connection -> who is in the middle of writes to it that overlap
  link,     \* connection -> does it stand?
  wire,     \* connection -> messages on their way to the browser
  rows,     \* browser -> order id -> statuses of the rows it shows
  load,     \* browser -> where its GET /api/orders stands
  raced     \* history: <<browser, order>> pairs the browser may be wrong about

db   == <<orders, open>>
hub  == <<clients, serve, overlap>>
net  == <<link, wire>>
page == <<rows, load>>
vars == <<db, call, hub, net, page, raced>>

Oids        == 1..MaxOrders
OrderStatus == {"NEW", "IN_PROGRESS", "COMPLETED"}
Conns       == Browsers \X (1..MaxConns)
Writers     == Calls \cup Conns

ASSUME CallsAssumption == \A h \in Calls : h \notin Conns

Entry   == [oid : Oids, status : OrderStatus]
Message == [type : {"order_new", "order_update", "session_closed"},
            oid : Oids, status : OrderStatus]

Call == [kind : Kinds, from : Browsers, oid : Oids, status : OrderStatus,
         todo : SUBSET Conns, dead : SUBSET Conns,     \* of the broadcast
         pc : {"session", "place", "readBack", "read", "write", "delete", "shut",
               "complete", "copy", "send", "copyStats", "sendStats", "reply",
               "arrive", "done", "failed"}]

Serve == [pc : {"none", "register", "session", "list", "found", "orders", "stats",
                "loop", "gone"},
          snapshot : SUBSET Entry]

Load == [pc : {"asked", "found", "answered", "loaded", "failed"},
         list : SUBSET Entry, times : 1..MaxLoads]

TypeOK ==
  /\ orders \in [Oids -> {"NONE", "DELETED"} \cup OrderStatus]
  /\ open \in BOOLEAN
  /\ call \in [Calls -> Call]
  /\ clients \subseteq Conns
  /\ serve \in [Conns -> Serve]
  /\ overlap \in [Conns -> SUBSET Writers]
  /\ link \in [Conns -> {"none", "open", "closed"}]
  /\ wire \in [Conns -> Seq(Message)]
  /\ rows \in [Browsers -> [Oids -> Seq(OrderStatus)]]
  /\ load \in [Browsers -> Load]
  /\ raced \subseteq Browsers \X Oids

FirstPc(kind) ==
  CASE kind \in {"order", "close"} -> "session"
    [] kind = "purge"             -> "delete"
    [] OTHER                      -> "read"

NewCalls == {[kind |-> kind, from |-> b, oid |-> 1, status |-> "NEW", todo |-> {},
              dead |-> {}, pc |-> FirstPc(kind)] : kind \in Kinds, b \in Browsers}

\* The session may have taken an order already; the pages are being opened.
Init ==
  /\ \E first \in {"NONE", "NEW"} :
       orders = [o \in Oids |-> IF o = 1 THEN first ELSE "NONE"]
  /\ open = TRUE
  /\ call \in [Calls -> NewCalls]
  /\ clients = {}
  /\ serve = [c \in Conns |-> [pc |-> "none", snapshot |-> {}]]
  /\ overlap = [c \in Conns |-> {}]
  /\ link = [c \in Conns |-> "none"]
  /\ wire = [c \in Conns |-> <<>>]
  /\ rows = [b \in Browsers |-> [o \in Oids |-> <<>>]]
  /\ load = [b \in Browsers |-> [pc |-> "asked", list |-> {}, times |-> 1]]
  /\ raced = {}

InTable(o) == orders[o] \in OrderStatus
At(h, pc)  == call[h].pc = pc
Goto(h, pc) == call' = [call EXCEPT ![h].pc = pc]

\* The call h over: it has no more to say.
Over(h, pc) == [call[h] EXCEPT !.pc = pc, !.oid = 1, !.status = "NEW",
                               !.todo = {}, !.dead = {}]
End(h) == call' = [call EXCEPT ![h] = Over(h, "done")]
GiveUp(h) == call' = [call EXCEPT ![h] = Over(h, "failed")]

\* GetOrders looks for the active session first, then for its orders.
GetOrdersBySession == {e \in Entry : orders[e.oid] = e.status}

------------------------------------------------------------------------------
(* History: how a browser can come to be wrong about an order. *)

\* What the call h announces: an order, or the end of all.
Affects(h) == IF call[h].kind = "close" THEN Oids ELSE {call[h].oid}

\* h has written to the database and has not told everybody yet.
Announcing(h) == call[h].pc \in {"complete", "readBack", "copy", "send"}

\* While h changes the orders os, something older about them is on its way: the
\* answer of a GET, a snapshot, the announcement or the answer of another call.
Overtaken(h, os) == {p \in Browsers \X os :
  \/ load[p[1]].pc = "answered"
  \/ \E n \in 1..MaxConns : serve[<<p[1], n>>].pc = "orders"
  \/ \E g \in Calls \ {h} : /\ p[2] \in Affects(g)
                            /\ \/ Announcing(g)
                               \/ At(g, "arrive") /\ call[g].from = p[1]}

\* The session is closed while the list of its orders is on its way to a browser
\* that will show them.
FoundOpen == {b \in Browsers : load[b].pc = "found"} \X Oids

\* Nobody is told, or will be told reliably, about the orders os.
Untold(os) == Browsers \X os

\* Announcements that nothing makes up for when they are lost: a browser that
\* comes back is sent updates, which add no order and remove none.
Unrepeated(h) == call[h].kind \in {"order", "close"}

\* Those that are still to be written to c, or on their way on it.
Unwritten(c) == UNION {Affects(h) : h \in {g \in Calls : /\ Unrepeated(g) /\ At(g, "send")
                                                         /\ c \in call[g].todo}}

Unread(c) == UNION {IF wire[c][i].type = "session_closed" THEN Oids ELSE {wire[c][i].oid} :
                    i \in {j \in DOMAIN wire[c] : wire[c][j].type # "order_update"}}

\* What the browser of c misses of them when c is gone.
MissedWith(c) == {c[1]} \X (Unwritten(c) \cup Unread(c))

\* The connection stands, and HandleWebSocket has come past its registration.
Served(c) == link[c] = "open" /\ serve[c].pc \notin {"none", "register"}

\* What those that are not connected, and have their list already, miss of h.
MissedBy(h) == IF ~Unrepeated(h) THEN {} ELSE
  {b \in Browsers : /\ load[b].pc \notin {"asked", "found"}
                    /\ \A n \in 1..MaxConns : ~Served(<<b, n>>)} \X Affects(h)

------------------------------------------------------------------------------
(* The handlers, up to their broadcasts. *)

\* CreateOrder and CloseSession look for the session.  (CreateOrder makes one when
\* there is none, which is beyond this module.)
FindSession(h) ==
  /\ At(h, "session")
  /\ \/ open /\ Goto(h, IF call[h].kind = "order" THEN "place" ELSE "shut")
     \/ ~open /\ call[h].kind = "close" /\ End(h)
  /\ UNCHANGED <<db, hub, net, page, raced>>

PlaceOrder(h, o) ==
  /\ At(h, "place")
  /\ \A p \in Oids : orders[p] # "NONE" <=> p < o
  /\ orders' = [orders EXCEPT ![o] = "NEW"]
  /\ call' = [call EXCEPT ![h].pc = "readBack", ![h].oid = o]
  /\ raced' = raced \cup (IF open THEN Overtaken(h, {o}) ELSE Untold({o}))
  /\ UNCHANGED <<open, hub, net, page>>

\* The order is read again, and what is read is broadcast.
ReadBack(h) ==
  /\ At(h, "readBack")
  /\ IF InTable(call[h].oid)
     THEN call' = [call EXCEPT ![h].pc = "copy", ![h].status = orders[call[h].oid]]
     ELSE End(h)
  /\ UNCHANGED <<db, hub, net, page, raced>>

\* UpdateOrderStatus writes the status asked for, UpdateOrder the one it read.
ReadOrder(h, o, target) ==
  /\ At(h, "read")
  /\ IF ~InTable(o)
     THEN End(h)
     ELSE call' = [call EXCEPT ![h].pc = "write", ![h].oid = o,
            ![h].status = IF call[h].kind = "status" THEN target ELSE orders[o]]
  /\ UNCHANGED <<db, hub, net, page, raced>>

\* An UPDATE of an order that is gone is no error; its items are one.
WriteOrder(h) ==
  LET o == call[h].oid IN
  /\ At(h, "write")
  /\ \/ /\ InTable(o)
        /\ orders' = [orders EXCEPT ![o] = call[h].status]
        /\ raced' = raced \cup Overtaken(h, {o})
        /\ Goto(h, "copy")
     \/ /\ ~InTable(o)
        /\ IF call[h].kind = "status" THEN Goto(h, "copy") ELSE End(h)
        /\ UNCHANGED <<orders, raced>>
  /\ UNCHANGED <<open, hub, net, page>>

\* PurgeOrders broadcasts statistics and nothing else.
PurgeOrders(h) ==
  /\ At(h, "delete")
  /\ orders' = [o \in Oids |-> IF InTable(o) THEN "DELETED" ELSE orders[o]]
  /\ raced' = raced \cup Untold({o \in Oids : InTable(o)})
  /\ Goto(h, "copyStats")
  /\ UNCHANGED <<open, hub, net, page>>

\* CloseSession writes the session first, closed meanwhile or not ...
ShutSession(h) ==
  /\ At(h, "shut")
  /\ Goto(h, "complete")
  /\ open' = FALSE
  /\ raced' = raced \cup Overtaken(h, Oids) \cup FoundOpen
  /\ UNCHANGED <<orders, hub, net, page>>

\* Mutant of CompleteOrders: nobody is told.
CompleteOrdersQuietly(h) ==
  /\ At(h, "complete")
  /\ orders' = [o \in Oids |-> IF InTable(o) THEN "COMPLETED" ELSE orders[o]]
  /\ End(h)
  /\ UNCHANGED <<open, hub, net, page, raced>>

\* ... then its orders.
CompleteOrders(h) ==
  /\ At(h, "complete")
  /\ orders' = [o \in Oids |-> IF InTable(o) THEN "COMPLETED" ELSE orders[o]]
  /\ Goto(h, "copy")
  /\ UNCHANGED <<open, hub, net, page, raced>>

\* A statement fails; whoever was to be told is not.
Fail(h) ==
  /\ call[h].pc \in {"session", "place", "read", "write", "delete", "shut",
                     "readBack", "complete", "reply", "arrive"}
  /\ GiveUp(h)
  /\ raced' = IF Announcing(h) THEN raced \cup Untold(Affects(h)) ELSE raced
  /\ UNCHANGED <<db, hub, net, page>>

------------------------------------------------------------------------------
(* Broadcasts. *)

\* What comes after the broadcast of h: CreateOrder, UpdateOrder and
\* UpdateOrderStatus broadcast statistics next and answer with the order then.
AfterBroadcast(h) ==
  CASE At(h, "send") /\ call[h].kind # "close" -> [call[h] EXCEPT !.pc = "copyStats",
                                                    !.status = "NEW", !.dead = {}]
    [] ~At(h, "send") /\ call[h].kind # "purge" -> [call[h] EXCEPT !.pc = "reply", !.dead = {}]
    [] OTHER -> Over(h, "done")

\* broadcastToClients copies the map of connections, under its lock.
CopyClients(h) ==
  /\ \/ At(h, "copy") /\ call' = [call EXCEPT ![h].pc = "send", ![h].todo = clients]
     \/ At(h, "copyStats") /\ call' = [call EXCEPT ![h].pc = "sendStats", ![h].todo = clients]
  /\ raced' = IF At(h, "copy") THEN raced \cup MissedBy(h) ELSE raced
  /\ UNCHANGED <<db, hub, net, page>>

\* The statistics cannot be computed: no broadcast of them.
SkipStats(h) ==
  /\ At(h, "copyStats")
  /\ call' = [call EXCEPT ![h] = AfterBroadcast(h)]
  /\ UNCHANGED <<db, hub, net, page, raced>>

\* All are written to: those that failed are removed, under the lock.
EndBroadcast(h) ==
  /\ At(h, "send") \/ At(h, "sendStats")
  /\ call[h].todo = {}
  /\ clients' = clients \ call[h].dead
  /\ call' = [call EXCEPT ![h] = AfterBroadcast(h)]
  /\ UNCHANGED <<db, serve, overlap, net, page, raced>>

\* Mutant of Reply: it does not check that there is a row.
ReplyUnchecked(h) ==
  /\ At(h, "reply")
  /\ call' = IF call[h].kind = "status"
             THEN [call EXCEPT ![h].pc = "arrive", ![h].status = orders[call[h].oid]]
             ELSE [call EXCEPT ![h] = Over(h, "done")]
  /\ UNCHANGED <<db, hub, net, page, raced>>

\* getOrderResponse reads the order once more and answers.  The list takes the
\* answer of a change of status only.
Reply(h) ==
  LET o == call[h].oid IN
  /\ At(h, "reply")
  /\ call' = IF InTable(o) /\ call[h].kind = "status"
             THEN [call EXCEPT ![h].pc = "arrive", ![h].status = orders[o]]
             ELSE [call EXCEPT ![h] = Over(h, "done")]
  /\ UNCHANGED <<db, hub, net, page, raced>>

------------------------------------------------------------------------------
(* Writing to a connection. *)

Sending(c) == \/ serve[c].pc \in {"session", "stats"}
              \/ serve[c].pc = "orders" /\ serve[c].snapshot # {}

\* w has something to write to connection c.
Wants(w, c) == \/ w \in Calls /\ c \in call[w].todo
               \/ w = c /\ Sending(c)

\* The order of a snapshot that is sent next.
FirstOf(entries) == CHOOSE e \in entries : \A f \in entries : e.oid <= f.oid

AfterFirst(entries) == {e \in entries : e # FirstOf(entries)}

\* What w writes to it, as far as the list is concerned.
MessageOf(w) ==
  CASE w \in Calls /\ call[w].pc = "send" ->
         <<[type   |-> CASE call[w].kind = "order" -> "order_new"
                         [] call[w].kind = "close" -> "session_closed"
                         [] OTHER                  -> "order_update",
            oid    |-> call[w].oid, status |-> call[w].status]>>
    [] w \in Conns /\ serve[w].pc = "orders" ->
         LET e == FirstOf(serve[w].snapshot) IN
         <<[type |-> "order_update", oid |-> e.oid, status |-> e.status]>>
    [] OTHER -> <<>>

\* The message of w is on its way to the browser; on a connection that is gone
\* it may be accepted and still goes nowhere.
Transmit(w, c) ==
  wire' = IF link[c] = "open" THEN [wire EXCEPT ![c] = @ \o MessageOf(w)] ELSE wire

\* The browser of c does not get the message of w.
LoseMessage(w, c) ==
  /\ UNCHANGED wire
  /\ raced' = raced \cup
       ({c[1]} \X (IF w \in Calls
                   THEN IF At(w, "send") THEN Affects(w) ELSE {}
                   ELSE IF serve[w].pc = "orders" THEN {FirstOf(serve[w].snapshot).oid}
                                                  ELSE {}))

\* HandleWebSocket of c has written what it had to, and has left the orders es
\* to send.
ServeNext(c, es) ==
  serve' = [serve EXCEPT ![c] =
    [pc |-> CASE @.pc = "session" -> "list"
              [] @.pc = "stats"   -> "loop"
              [] OTHER            -> IF es = {} THEN "stats" ELSE "orders",
     snapshot |-> es]]

\* The connection c is gone, and what was on its way to the browser with it.
Disconnect(c) ==
  /\ link' = [link EXCEPT ![c] = "closed"]
  /\ wire' = [wire EXCEPT ![c] = <<>>]
  /\ raced' = raced \cup MissedWith(c)

\* Mutant of ServeEnd: it unregisters all connections of the browser.
ServeEndForBrowser(c) ==
  /\ serve' = [serve EXCEPT ![c] = [pc |-> "gone", snapshot |-> {}]]
  /\ clients' = {d \in clients : d[1] # c[1]}
  /\ Disconnect(c)

\* HandleWebSocket of c returns: its deferred functions unregister and close.
ServeEnd(c) ==
  /\ serve' = [serve EXCEPT ![c] = [pc |-> "gone", snapshot |-> {}]]
  /\ clients' = clients \ {c}
  /\ Disconnect(c)

\* Is w free to write to c, or already doing so?
MayWrite(w, c) == /\ Wants(w, c)
                  /\ \A d \in Conns \ {c} : w \notin overlap[d]

\* Two writers write to c at the same time.
Meet(v, w, c) ==
  /\ v # w /\ MayWrite(v, c) /\ MayWrite(w, c)
  /\ overlap' = [overlap EXCEPT ![c] = @ \cup {v, w}]
  /\ overlap' # overlap
  /\ UNCHANGED <<db, call, clients, serve, net, page, raced>>

\* A write of w to c is over: it is the only one, or one of those that overlap.
Writes(w, c) ==
  /\ MayWrite(w, c)
  /\ overlap[c] = {} \/ w \in overlap[c]
  /\ overlap' = [overlap EXCEPT ![c] = @ \ {w}]

\* It returns nil.
Write(w, c) ==
  /\ Writes(w, c)
  /\ \/ Transmit(w, c) /\ UNCHANGED raced
     \/ w \in overlap[c] /\ LoseMessage(w, c)
  /\ \/ /\ w \in Calls
        /\ call' = [call EXCEPT ![w].todo = @ \ {c}]
        /\ UNCHANGED serve
     \/ /\ w \in Conns
        /\ ServeNext(c, AfterFirst(serve[c].snapshot))
        /\ UNCHANGED call
  /\ UNCHANGED <<db, clients, link, page>>

\* It returns an error: a broadcast notes the connection as dead ...
FailBroadcastWrite(h, c) ==
  /\ Writes(h, c) /\ link[c] = "closed"
  /\ call' = [call EXCEPT ![h].todo = @ \ {c}, ![h].dead = @ \cup {c}]
  /\ UNCHANGED <<db, clients, serve, net, page, raced>>

\* ... and HandleWebSocket gives up if it was sending an order.  Its WriteJSON
\* fails, too, when the start of another message closes the one it is writing.
FailServeWrite(c) ==
  /\ Writes(c, c) /\ (link[c] = "closed" \/ c \in overlap[c])
  /\ IF serve[c].pc = "orders"
     THEN ServeEnd(c)
     ELSE ServeNext(c, {}) /\ UNCHANGED <<clients, net, raced>>
  /\ UNCHANGED <<db, call, page>>

\* "concurrent write to websocket connection".  The middleware Recover answers
\* 500 for a handler that panics in a broadcast, which ends there; when
\* HandleWebSocket panics its deferred functions run.
PanicInBroadcast(h, c) ==
  /\ h \in overlap[c] /\ Writes(h, c)
  /\ GiveUp(h)
  /\ Transmit(h, c) \/ UNCHANGED wire
  /\ raced' = IF At(h, "send") THEN raced \cup Untold(Affects(h)) ELSE raced
  /\ UNCHANGED <<db, clients, serve, link, page>>

PanicInServe(c) ==
  /\ c \in overlap[c] /\ Writes(c, c)
  /\ ServeEnd(c)
  /\ UNCHANGED <<db, call, page>>

------------------------------------------------------------------------------
(* HandleWebSocket, from the upgrade to the end of its connection. *)

\* Mutant of Connect: the page does not wait for the last to be closed.
ConnectAgain(b, n) ==
  LET c == <<b, n>> IN
  /\ link[c] = "none"
  /\ \A m \in 1..(n - 1) : link[<<b, m>>] # "none"
  /\ link' = [link EXCEPT ![c] = "open"]
  /\ serve' = [serve EXCEPT ![c].pc = "register"]
  /\ UNCHANGED <<db, call, clients, overlap, wire, page, raced>>

\* The page opens its connection, or opens one again five seconds after the
\* last was closed.
Connect(b, n) ==
  LET c == <<b, n>> IN
  /\ link[c] = "none"
  /\ \A m \in 1..(n - 1) : link[<<b, m>>] = "closed"
  /\ link' = [link EXCEPT ![c] = "open"]
  /\ serve' = [serve EXCEPT ![c].pc = "register"]
  /\ UNCHANGED <<db, call, clients, overlap, wire, page, raced>>

Register(c) ==
  /\ serve[c].pc = "register"
  /\ clients' = clients \cup {c}
  /\ serve' = [serve EXCEPT ![c].pc = "session"]
  /\ UNCHANGED <<db, call, overlap, net, page, raced>>

\* GetOrders finds no session: there is no order to send.
ListNone(c) ==
  /\ serve[c].pc = "list" /\ ~open
  /\ serve' = [serve EXCEPT ![c].pc = "stats"]
  /\ UNCHANGED <<db, call, clients, overlap, net, page, raced>>

FindSessionToList(c) ==
  /\ serve[c].pc = "list" /\ open
  /\ serve' = [serve EXCEPT ![c].pc = "found"]
  /\ UNCHANGED <<db, call, clients, overlap, net, page, raced>>

ListOrders(c) ==
  LET es == GetOrdersBySession IN
  /\ serve[c].pc = "found"
  /\ serve' = [serve EXCEPT ![c] = [pc |-> IF es = {} THEN "stats" ELSE "orders",
                                     snapshot |-> es]]
  /\ UNCHANGED <<db, call, clients, overlap, net, page, raced>>

\* GetOrders fails, and no orders are sent.
FailList(c) ==
  /\ serve[c].pc \in {"list", "found"}
  /\ serve' = [serve EXCEPT ![c].pc = "stats"]
  /\ raced' = raced \cup ({c[1]} \X Oids)
  /\ UNCHANGED <<db, call, clients, overlap, net, page>>

\* ReadJSON reports that the connection is gone.
Leave(c) ==
  /\ serve[c].pc = "loop" /\ link[c] = "closed"
  /\ ServeEnd(c)
  /\ UNCHANGED <<db, call, overlap, page>>

\* The connection breaks.
Break(c) ==
  /\ link[c] = "open"
  /\ Disconnect(c)
  /\ UNCHANGED <<db, call, hub, page>>

------------------------------------------------------------------------------
(* The page. *)

Map(list, o, status) == [list EXCEPT ![o] = [i \in DOMAIN @ |-> status]]

\* Mutant of Receive: a new order only replaces rows.
ReceiveWithoutAdding(c) ==
  LET b == c[1]  m == Head(wire[c]) IN
  /\ wire[c] # <<>>
  /\ rows' = [rows EXCEPT ![b] = IF m.type = "session_closed" THEN [o \in Oids |-> <<>>]
                                ELSE Map(@, m.oid, m.status)]
  /\ wire' = [wire EXCEPT ![c] = Tail(@)]
  /\ UNCHANGED <<db, call, hub, link, load, raced>>

\* Mutant of Receive: whatever is said of an order puts it on the list.
ReceiveUpserting(c) ==
  LET b == c[1]  m == Head(wire[c]) IN
  /\ wire[c] # <<>>
  /\ rows' = [rows EXCEPT ![b] = IF m.type = "session_closed" THEN [o \in Oids |-> <<>>]
                                ELSE [@ EXCEPT ![m.oid] = <<m.status>>]]
  /\ wire' = [wire EXCEPT ![c] = Tail(@)]
  /\ UNCHANGED <<db, call, hub, link, load, raced>>

\* handleWebSocketMessage: a new order is added, an update replaces the rows
\* the order has, the end of the session clears the list.
Receive(c) ==
  LET b == c[1]  list == rows[b]  m == Head(wire[c]) IN
  /\ wire[c] # <<>>
  /\ rows' = [rows EXCEPT ![b] =
       CASE m.type = "order_new"    -> [list EXCEPT ![m.oid] = Append(@, m.status)]
         [] m.type = "order_update" -> Map(list, m.oid, m.status)
         [] OTHER                   -> [o \in Oids |-> <<>>]]
  /\ wire' = [wire EXCEPT ![c] = Tail(@)]
  /\ UNCHANGED <<db, call, hub, link, load, raced>>

\* updateOrderStatus takes over the answer to its call.
Arrive(h) ==
  /\ At(h, "arrive")
  /\ rows' = [rows EXCEPT ![call[h].from] = Map(@, call[h].oid, call[h].status)]
  /\ End(h)
  /\ UNCHANGED <<db, hub, net, load, raced>>

\* GET /api/orders looks for the session, and then ...
FindSessionToLoad(b) ==
  /\ load[b].pc = "asked"
  /\ load' = [load EXCEPT ![b].pc = IF open THEN "found" ELSE "answered"]
  /\ UNCHANGED <<db, call, hub, net, rows, raced>>

\* ... reads its orders, ...
ServeLoad(b) ==
  /\ load[b].pc = "found"
  /\ load' = [load EXCEPT ![b].pc = "answered", ![b].list = GetOrdersBySession]
  /\ UNCHANGED <<db, call, hub, net, rows, raced>>

\* ... or fails, and the page keeps the rows it has.
FailLoad(b) ==
  /\ load[b].pc \in {"asked", "found"}
  /\ load' = [load EXCEPT ![b].pc = "failed"]
  /\ UNCHANGED <<db, call, hub, net, rows, raced>>

\* Mutant of TakeLoad: the answer is added to the list.
TakeLoadAdding(b) ==
  /\ load[b].pc = "answered"
  /\ rows' = [rows EXCEPT ![b] = [o \in Oids |->
       IF \E e \in load[b].list : e.oid = o
       THEN Append(@[o], (CHOOSE e \in load[b].list : e.oid = o).status) ELSE @[o]]]
  /\ load' = [load EXCEPT ![b].pc = "loaded", ![b].list = {}]
  /\ UNCHANGED <<db, call, hub, net, raced>>

\* The answer replaces the list, whatever came in meanwhile.
TakeLoad(b) ==
  /\ load[b].pc = "answered"
  /\ rows' = [rows EXCEPT ![b] = [o \in Oids |->
       IF \E e \in load[b].list : e.oid = o
       THEN <<(CHOOSE e \in load[b].list : e.oid = o).status>> ELSE <<>>]]
  /\ load' = [load EXCEPT ![b].pc = "loaded", ![b].list = {}]
  /\ UNCHANGED <<db, call, hub, net, raced>>

\* reload, after an admin's edit.
Reload(b) ==
  /\ load[b].pc \in {"loaded", "failed"} /\ load[b].times < MaxLoads
  /\ load' = [load EXCEPT ![b].pc = "asked", ![b].times = @ + 1]
  /\ UNCHANGED <<db, call, hub, net, rows, raced>>

CallStep(h) ==
  \/ FindSession(h) \/ ReadBack(h) \/ WriteOrder(h) \/ PurgeOrders(h)
  \/ ShutSession(h) \/ CompleteOrders(h) \/ Fail(h)
  \/ \E o \in Oids : PlaceOrder(h, o)
  \/ \E o \in Oids, target \in OrderStatus : ReadOrder(h, o, target)
  \/ CopyClients(h) \/ SkipStats(h) \/ EndBroadcast(h) \/ Reply(h) \/ Arrive(h)

ConnStep(c) ==
  \/ Register(c) \/ ListNone(c) \/ FindSessionToList(c) \/ ListOrders(c)
  \/ FailList(c) \/ Leave(c) \/ Break(c)
  \/ Receive(c) \/ FailServeWrite(c) \/ PanicInServe(c)
  \/ \E w \in Writers : Write(w, c)
  \/ \E v, w \in Writers : Meet(v, w, c)
  \/ \E h \in Calls : FailBroadcastWrite(h, c) \/ PanicInBroadcast(h, c)

PageStep(b) ==
  \/ FindSessionToLoad(b) \/ ServeLoad(b) \/ FailLoad(b) \/ TakeLoad(b) \/ Reload(b)
  \/ \E n \in 1..MaxConns : Connect(b, n)

Next ==
  \/ \E h \in Calls : CallStep(h)
  \/ \E c \in Conns : ConnStep(c)
  \/ \E b \in Browsers : PageStep(b)

Spec == Init /\ [][Next]_vars

------------------------------------------------------------------------------
(* Properties. *)

\* Browser b has its list and a connection that has caught up with the hub.
UpToDate(b) ==
  /\ load[b].pc = "loaded"
  /\ \E n \in 1..MaxConns : LET c == <<b, n>> IN
       /\ link[c] = "open" /\ serve[c].pc = "loop"
       /\ wire[c] = <<>>

\* No call has anything to announce or an answer on its way.
NothingPending ==
  \A h \in Calls : ~Announcing(h) /\ ~At(h, "arrive")

\* The list agrees with the database.  When nothing is on its way any more, a
\* browser shows every order of the session with its status, and no others,
\* except for orders that were changed while something older about them was on
\* its way to it, and those of which an announcement was lost.
ListsAgreeUnlessRaced ==
  NothingPending =>
    \A b \in Browsers, o \in Oids : UpToDate(b) /\ <<b, o>> \notin raced =>
      Range(rows[b][o]) = IF open /\ InTable(o) THEN {orders[o]} ELSE {}

\* No browser shows an order more than twice: once from the list it has loaded,
\* once from the only announcement of it as new that can reach the browser.
NoRowThrice == \A b \in Browsers, o \in Oids : Len(rows[b][o]) <= 2

------------------------------------------------------------------------------
(* What makes these inductive. *)

\* A browser opens its connections one after the other, so that one of them
\* stands at most; nothing is on its way on others.
OneAfterTheOther ==
  /\ \A b \in Browsers, m, n \in 1..MaxConns :
       m < n /\ link[<<b, n>>] # "none" => link[<<b, m>>] = "closed"
  /\ \A c \in Conns : link[c] # "open" => wire[c] = <<>>

\* The hub knows the connections that are served and none that are not yet.
HubKnows ==
  \A c \in Conns :
    /\ link[c] = "none" => serve[c].pc = "none"
    /\ serve[c].pc \in {"none", "register"} => /\ c \notin clients /\ wire[c] = <<>>
                                               /\ \A h \in Calls : c \notin call[h].todo
    /\ Served(c) => c \in clients
    /\ \A h \in Calls : c \in call[h].dead => link[c] = "closed"

\* Each handler is at a step of its own.
HandlersInStep ==
  \A h \in Calls : call[h].pc \in {"done", "failed"} \cup
    CASE call[h].kind = "order" -> {"session", "place", "readBack", "copy", "send",
                                    "copyStats", "sendStats", "reply"}
      [] call[h].kind = "close" -> {"session", "shut", "complete", "copy", "send"}
      [] call[h].kind = "purge" -> {"delete", "copyStats", "sendStats"}
      [] OTHER                  -> {"read", "write", "copy", "send", "copyStats",
                                    "sendStats", "reply", "arrive"}

\* What is not being sent, or answered, is not kept.
KeptToSend ==
  /\ \A c \in Conns : serve[c].pc # "orders" => serve[c].snapshot = {}
  /\ \A b \in Browsers : load[b].pc # "answered" => load[b].list = {}
  /\ \A h \in Calls : call[h].pc \notin {"send", "sendStats"} => call[h].todo = {}

\* h has something to say about the order o.
Names(h, o) == /\ call[h].kind # "close" /\ call[h].oid = o
               /\ call[h].pc \in {"readBack", "write", "copy", "send", "arrive"}

\* h has placed the order o and tells of it as new ...
Tells(h, o) == /\ call[h].kind = "order" /\ call[h].oid = o
               /\ call[h].pc \in {"readBack", "copy", "send"}

\* ... which only one call does.
OneTells ==
  \A h, g \in Calls, o \in Oids : Tells(h, o) /\ Tells(g, o) => g = h

\* The message i on the wire of c is about o, announces it as new, gives it the
\* status it has, or clears the list.
IsAbout(c, i, o)  == wire[c][i].type # "session_closed" /\ wire[c][i].oid = o
IsNew(c, i, o)    == wire[c][i].type = "order_new" /\ wire[c][i].oid = o
IsUpdate(c, i, o) == /\ wire[c][i].type = "order_update" /\ wire[c][i].oid = o
                     /\ wire[c][i].status = orders[o]
IsEnd(c, i)       == wire[c][i].type = "session_closed"

\* Nobody has heard of an order that is still to be placed.
NothingYet ==
  \A o \in Oids : orders[o] = "NONE" =>
    /\ \A h \in Calls : ~Names(h, o)
    /\ \A c \in Conns : /\ \A i \in DOMAIN wire[c] : ~IsAbout(c, i, o)
                        /\ \A e \in serve[c].snapshot : e.oid # o
    /\ \A b \in Browsers : /\ rows[b][o] = <<>>
                           /\ \A e \in load[b].list : e.oid # o

\* No connection is told twice.
ToldOnce ==
  \A c \in Conns, o \in Oids : \A i \in DOMAIN wire[c] : IsNew(c, i, o) =>
    /\ \A j \in DOMAIN wire[c] : IsNew(c, j, o) => j = i
    /\ \A h \in Calls : Tells(h, o) => At(h, "send") /\ c \notin call[h].todo

\* The announcement of o as new may still reach b.
MayLearn(b, o) ==
  \/ \E h \in Calls : /\ Tells(h, o)
                      /\ \/ ~At(h, "send")
                         \/ \E n \in 1..MaxConns :
                              <<b, n>> \in call[h].todo /\ link[<<b, n>>] = "open"
  \/ \E n \in 1..MaxConns : \E i \in DOMAIN wire[<<b, n>>] : IsNew(<<b, n>>, i, o)

\* For as long as it may there is one row of the order at most.
RowsCounted ==
  \A b \in Browsers, o \in Oids :
    Len(rows[b][o]) <= 2 /\ (MayLearn(b, o) => Len(rows[b][o]) <= 1)

Unraced(b, o) == <<b, o>> \notin raced

\* Nobody is told of a purge.
PurgedIsRaced ==
  \A b \in Browsers, o \in Oids : orders[o] = "DELETED" => ~Unraced(b, o)

\* h is telling everybody, or answering b.
MayTell(h, b) == \/ At(h, "copy") \/ At(h, "send")
                 \/ At(h, "arrive") /\ call[h].from = b

\* What is under way to b about o, and not yet on a wire, is as it is in the table.
UnderWayIsCurrent ==
  \A b \in Browsers, o \in Oids : open /\ Unraced(b, o) =>
    /\ \A h \in Calls : Names(h, o) /\ MayTell(h, b) => call[h].status = orders[o]
    /\ \A n \in 1..MaxConns : \A e \in serve[<<b, n>>].snapshot :
         e.oid = o => e.status = orders[o]
    /\ load[b].pc = "answered" =>
         \A st \in OrderStatus : [oid |-> o, status |-> st] \in load[b].list <=> orders[o] = st

\* A close is announced after it, and nothing that would add rows is under way.
ClosedIsClosed ==
  /\ \A h \in Calls : call[h].kind = "close" /\ call[h].pc \in {"complete", "copy", "send"} => ~open
  /\ \A c \in Conns : \A i \in DOMAIN wire[c] : IsEnd(c, i) => ~open
  /\ \A b \in Browsers, o \in Oids : ~open /\ Unraced(b, o) =>
       /\ \A h \in Calls : ~Tells(h, o)
       /\ load[b].pc # "found"
       /\ \A e \in load[b].list : e.oid # o

\* A change of o that c is still to be told.
Updating(c, o) ==
  \E h \in Calls : /\ call[h].kind \notin {"order", "close"} /\ call[h].oid = o
                   /\ \/ At(h, "copy")
                      \/ At(h, "send") /\ c \in call[h].todo

\* What is wrong on the way to b is put right after it ...
WiresEndRight ==
  \A c \in Conns, o \in Oids : open /\ Unraced(c[1], o) =>
    \A i \in DOMAIN wire[c] : IsAbout(c, i, o) /\ wire[c][i].status # orders[o] =>
      Updating(c, o) \/ \E j \in DOMAIN wire[c] : i < j /\ IsUpdate(c, j, o)

\* ... and so is what is wrong in its list.
RowsEndRight ==
  \A c \in Conns, o \in Oids :
    open /\ Unraced(c[1], o) /\ load[c[1]].pc = "loaded" /\ Served(c) =>
      \A i \in DOMAIN rows[c[1]][o] : rows[c[1]][o][i] # orders[o] =>
        \/ Updating(c, o)
        \/ \E j \in DOMAIN wire[c] : IsUpdate(c, j, o)
        \/ serve[c].pc \in {"session", "list", "found"}
        \/ \E e \in serve[c].snapshot : e.oid = o

\* Every order has a row, or is going to have one.
RowsThere ==
  \A b \in Browsers, o \in Oids :
    open /\ Unraced(b, o) /\ load[b].pc = "loaded" /\ InTable(o) =>
      rows[b][o] # <<>> \/ MayLearn(b, o)

\* The end of the session that nobody has been told yet, or c has not.
Closing == \E h \in Calls : call[h].kind = "close" /\ call[h].pc \in {"complete", "copy"}
ClosingFor(c) == \E h \in Calls : call[h].kind = "close" /\ At(h, "send") /\ c \in call[h].todo

\* Rows that are there, or on their way, when the session ends are cleared.
WiresEndEmpty ==
  \A c \in Conns, o \in Oids : ~open /\ Unraced(c[1], o) =>
    \A i \in DOMAIN wire[c] : IsNew(c, i, o) =>
      Closing \/ ClosingFor(c) \/ \E j \in DOMAIN wire[c] : i < j /\ IsEnd(c, j)

RowsEndEmpty ==
  \A b \in Browsers, o \in Oids :
    ~open /\ Unraced(b, o) /\ load[b].pc = "loaded" /\ rows[b][o] # <<>> =>
      \/ Closing
      \/ \E n \in 1..MaxConns : LET c == <<b, n>> IN
           link[c] = "open" /\ (ClosingFor(c) \/ \E j \in DOMAIN wire[c] : IsEnd(c, j))

\* The inductive invariant of the proofs.
IndInv ==
  /\ TypeOK
  /\ OneAfterTheOther
  /\ HubKnows
  /\ HandlersInStep
  /\ KeptToSend
  /\ OneTells
  /\ NothingYet
  /\ ToldOnce
  /\ RowsCounted
  /\ PurgedIsRaced
  /\ UnderWayIsCurrent
  /\ ClosedIsClosed
  /\ WiresEndRight
  /\ RowsEndRight
  /\ RowsThere
  /\ WiresEndEmpty
  /\ RowsEndEmpty

------------------------------------------------------------------------------
(* Seen from the lists. *)

\* What h tells everybody, or answers.
HasNotice(h) == call[h].kind # "close" /\ call[h].pc \in {"copy", "send", "arrive"}
NoticeOf(h)  == [oid |-> call[h].oid, status |-> call[h].status, adds |-> call[h].kind = "order"]
SaidBy(h)    == IF HasNotice(h) THEN {NoticeOf(h)} ELSE {}

\* What is on the wire of c, or in its snapshot, and what b is answered.
Listed(entries, adds) == {[oid |-> e.oid, status |-> e.status, adds |-> adds] : e \in entries}
OnWire(c)      == {[oid |-> m.oid, status |-> m.status, adds |-> m.type = "order_new"] :
                     m \in {wire[c][i] : i \in {j \in DOMAIN wire[c] : ~IsEnd(c, j)}}}
InSnapshot(c)  == Listed(serve[c].snapshot, FALSE)
InAnswer(b)    == Listed(load[b].list, TRUE)

Notices ==
  (UNION {SaidBy(h) : h \in Calls})
    \cup (UNION {OnWire(c) \cup InSnapshot(c) : c \in Conns})
    \cup (UNION {InAnswer(b) : b \in Browsers})

Shown == [b \in Browsers |-> UNION {{<<o, st>> : st \in Range(rows[b][o])} : o \in Oids}]

Board == INSTANCE NoticeBoard WITH
  Readers <- Browsers, table <- orders, notices <- Notices, shown <- Shown

\* A list shows nothing that the database has not said of an order at some time,
\* whatever is lost, late or overtaken, except that a change of status that finds
\* its order gone is announced all the same; and no order gets on a list because
\* it is updated.
ShowsNotices == Board!Spec

------------------------------------------------------------------------------
(* What the code says of itself. *)

\* internal/api/orders.go:810: broadcastToClients "sends data to all connected
\* WebSocket clients", so a broadcast is not over before it has been written to
\* each of them.
BroadcastReachesAll ==
  [][\A h \in Calls : At(h, "send") /\ call'[h].pc # "send" => call[h].todo = {}]_vars
==============================================================================
