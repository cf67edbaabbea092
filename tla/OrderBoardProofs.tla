---------------------------- MODULE OrderBoardProofs ----------------------------
(***************************************************************************)
(* Proofs about OrderBoard, for any number of browsers, calls, orders and  *)
(* connections: the types, that a list agrees with the database when       *)
(* nothing is on its way any more, that no order is on a screen three      *)
(* times, and that what the lists show is a NoticeBoard.                   *)
(*                                                                         *)
(* Most actions are instances of a few steps, proved once each: a handler  *)
(* moves and the tables stay (HandlerStep), or writes to them (TableStep); *)
(* HandleWebSocket moves (ServeStep); an announcement or an entry of a     *)
(* snapshot goes on a wire (AnnounceStep, SnapshotStep) or is not sent     *)
(* (TodoStep); a connection goes (DisconnectStep); a list is asked for and *)
(* answered (LoadStep).  Browsers take what comes in in ReceiveRest,       *)
(* ArriveRest and TakeLoadRest.                                            *)
(***************************************************************************)
EXTENDS OrderBoard, LargestElements, SequenceTheorems

USE KindsAssumption, BoundsAssumption, CallsAssumption

CallPcs == {"session", "place", "readBack", "read", "write", "delete", "shut",
            "complete", "copy", "send", "copyStats", "sendStats", "reply",
            "arrive", "done", "failed"}

------------------------------------------------------------------------------
(* Operators of the model. *)

LEMMA OneIsAnOid == 1 \in Oids
  BY DEF Oids

LEMMA ConnFacts ==
  ASSUME NEW c \in Conns
  PROVE  /\ c[1] \in Browsers
         /\ c[2] \in 1..MaxConns
         /\ c = <<c[1], c[2]>>
  BY DEF Conns

LEMMA OverType ==
  ASSUME TypeOK, NEW h \in Calls, NEW pc \in CallPcs
  PROVE  /\ Over(h, pc) \in Call
         /\ Over(h, pc).pc = pc
         /\ Over(h, pc).kind = call[h].kind
         /\ Over(h, pc).oid = 1
         /\ Over(h, pc).todo = {}
         /\ Over(h, pc).dead = {}
         /\ Over(h, pc).from = call[h].from
         /\ Over(h, pc).status = "NEW"
<1>1. call[h] \in Call
  BY DEF TypeOK
<1> QED BY <1>1, OneIsAnOid DEF Over, Call, CallPcs, OrderStatus

LEMMA AfterBroadcastType ==
  ASSUME TypeOK, NEW h \in Calls
  PROVE  /\ AfterBroadcast(h) \in Call
         /\ AfterBroadcast(h).kind = call[h].kind
         /\ AfterBroadcast(h).pc \in {"copyStats", "reply", "done"}
         /\ AfterBroadcast(h).todo \subseteq call[h].todo
<1>1. call[h] \in Call
  BY DEF TypeOK
<1>2. CASE At(h, "send") /\ call[h].kind # "close"
  BY <1>1, <1>2 DEF AfterBroadcast, At, Call, OrderStatus
<1>3. CASE ~At(h, "send") /\ call[h].kind # "purge"
  BY <1>1, <1>3 DEF AfterBroadcast, At, Call
<1>4. CASE ~(At(h, "send") /\ call[h].kind # "close") /\ ~(~At(h, "send") /\ call[h].kind # "purge")
  <2>1. AfterBroadcast(h) = Over(h, "done")
    BY <1>4 DEF AfterBroadcast
  <2> QED BY <2>1, OverType DEF CallPcs
<1> QED BY <1>2, <1>3, <1>4

LEMMA FirstIsThere ==
  ASSUME NEW entries \in SUBSET Entry, entries # {}
  PROVE  FirstOf(entries) \in entries
<1> DEFINE Ids == {e.oid : e \in entries}
<1>1. Ids \in SUBSET Nat /\ Ids # {}
  BY DEF Entry, Oids
<1>2. PICK m \in Ids : \A n \in Ids : m <= n
  <2> HIDE DEF Ids
  <2> QED BY <1>1, SmallestElement
<1>3. \E e \in entries : \A f \in entries : e.oid <= f.oid
  BY <1>2
<1> QED BY <1>3 DEF FirstOf

LEMMA AffectsType ==
  ASSUME TypeOK, NEW h \in Calls
  PROVE  Affects(h) \subseteq Oids
<1>1. call[h] \in Call
  BY DEF TypeOK
<1> QED BY <1>1 DEF Affects, Call

LEMMA MissedWithType ==
  ASSUME TypeOK, NEW c \in Conns
  PROVE  MissedWith(c) \subseteq Browsers \X Oids
<1>1. \A i \in DOMAIN wire[c] : wire[c][i] \in Message
  <2>1. wire[c] \in Seq(Message)
    BY DEF TypeOK
  <2> QED BY <2>1, LenProperties, ElementOfSeq
<1>2. \A i \in DOMAIN wire[c] :
        (IF wire[c][i].type = "session_closed" THEN Oids ELSE {wire[c][i].oid}) \subseteq Oids
  BY <1>1 DEF Message
<1>3. Unread(c) \subseteq Oids
  BY <1>2 DEF Unread
<1>4. Unwritten(c) \subseteq Oids
  BY AffectsType DEF Unwritten
<1> QED BY <1>3, <1>4, ConnFacts DEF MissedWith

\* What w writes: one message or, for what the list does not follow, none.
LEMMA MessageFacts ==
  ASSUME TypeOK, NEW w \in Writers, NEW c \in Conns, Wants(w, c)
  PROVE  /\ MessageOf(w) \in Seq(Message)
         /\ Len(MessageOf(w)) \in {0, 1}
         /\ w \notin Calls => \A i \in 1..Len(MessageOf(w)) : MessageOf(w)[i].type = "order_update"
         /\ w \in Calls => \A i \in 1..Len(MessageOf(w)) :
              /\ At(w, "send")
              /\ MessageOf(w)[i].oid = call[w].oid
              /\ MessageOf(w)[i].type = "order_new" => call[w].kind = "order"
<1> DEFINE U == [type   |-> CASE call[w].kind = "order" -> "order_new"
                              [] call[w].kind = "close" -> "session_closed"
                              [] OTHER                  -> "order_update",
                 oid    |-> call[w].oid, status |-> call[w].status]
           e == FirstOf(serve[w].snapshot)
           V == [type |-> "order_update", oid |-> e.oid, status |-> e.status]
<1>1. CASE w \in Calls /\ call[w].pc = "send"
  <2>1. call[w] \in Call
    BY <1>1 DEF TypeOK
  <2>2. U \in Message /\ U.oid = call[w].oid /\ (U.type = "order_new" => call[w].kind = "order")
    BY <2>1 DEF Message, Call
  <2>3. w \notin Conns
    BY <1>1
  <2>4. MessageOf(w) = <<U>>
    BY <1>1, <2>3 DEF MessageOf
  <2> HIDE DEF U
  <2> QED BY <1>1, <2>2, <2>4 DEF At
<1>2. CASE w \in Conns /\ serve[w].pc = "orders"
  <2>1. w \notin Calls /\ w = c
    BY <1>2 DEF Wants
  <2>2. serve[w] \in Serve /\ serve[w].snapshot # {}
    BY <1>2, <2>1 DEF Wants, Sending, TypeOK
  <2>3. e \in Entry
    BY <2>2, FirstIsThere DEF Serve
  <2>4. V \in Message /\ V.type = "order_update"
    BY <2>3 DEF Message, Entry
  <2>5. MessageOf(w) = <<V>>
    BY <1>2, <2>1 DEF MessageOf
  <2> HIDE DEF V
  <2> QED BY <2>1, <2>4, <2>5
<1>3. CASE ~(w \in Calls /\ call[w].pc = "send") /\ ~(w \in Conns /\ serve[w].pc = "orders")
  <2>1. MessageOf(w) = <<>>
    BY <1>3 DEF MessageOf
  <2> QED BY <2>1
<1> QED BY <1>1, <1>2, <1>3

\* Replacing the statuses of an order's rows.
LEMMA MapType ==
  ASSUME NEW list \in [Oids -> Seq(OrderStatus)], NEW o \in Oids, NEW status \in OrderStatus
  PROVE  /\ Map(list, o, status) \in [Oids -> Seq(OrderStatus)]
         /\ \A p \in Oids : Len(Map(list, o, status)[p]) = Len(list[p])
<1> DEFINE n == Len(list[o])
           s == [i \in 1..n |-> status]
<1>1. list[o] \in Seq(OrderStatus)
  OBVIOUS
<1>2. n \in Nat /\ DOMAIN list[o] = 1..n
  BY <1>1, LenProperties
<1>3. s \in [1..n -> OrderStatus]
  OBVIOUS
<1>4. s \in Seq(OrderStatus)
  BY <1>2, <1>3, SeqDef
<1>5. Len(s) = n
  BY <1>2, <1>3, <1>4, LenProperties
<1>6. Map(list, o, status) = [list EXCEPT ![o] = s]
  BY <1>2 DEF Map
<1> HIDE DEF s
<1> QED BY <1>4, <1>5, <1>6
------------------------------------------------------------------------------
(* Types. *)

\* Types of what a call may change.
LEMMA CallMoves ==
  ASSUME TypeOK, NEW h \in Calls, NEW rec \in Call, call' = [call EXCEPT ![h] = rec]
  PROVE  /\ call' \in [Calls -> Call]
         /\ call'[h] = rec
         /\ \A g \in Calls \ {h} : call'[g] = call[g]
  BY DEF TypeOK

\* Parts of a record that are changed.
LEMMA CallParts ==
  ASSUME NEW rec \in Call
  PROVE  /\ \A pc \in CallPcs : [rec EXCEPT !.pc = pc] \in Call
         /\ \A o \in Oids, pc \in CallPcs : [rec EXCEPT !.pc = pc, !.oid = o] \in Call
         /\ \A st \in OrderStatus, pc \in CallPcs : [rec EXCEPT !.pc = pc, !.status = st] \in Call
         /\ \A o \in Oids, st \in OrderStatus, pc \in CallPcs :
              [rec EXCEPT !.pc = pc, !.oid = o, !.status = st] \in Call
         /\ \A cs \in SUBSET Conns, pc \in CallPcs : [rec EXCEPT !.pc = pc, !.todo = cs] \in Call
         /\ \A cs \in SUBSET Conns : [rec EXCEPT !.todo = cs] \in Call
         /\ \A cs, ds \in SUBSET Conns : [rec EXCEPT !.todo = cs, !.dead = ds] \in Call
<1>1. \A pc \in CallPcs : [rec EXCEPT !.pc = pc] \in Call
  BY DEF Call, CallPcs
<1>2. \A o \in Oids, pc \in CallPcs : [rec EXCEPT !.pc = pc, !.oid = o] \in Call
  BY DEF Call, CallPcs
<1>3. \A st \in OrderStatus, pc \in CallPcs : [rec EXCEPT !.pc = pc, !.status = st] \in Call
  BY DEF Call, CallPcs
<1>4. \A o \in Oids, st \in OrderStatus, pc \in CallPcs :
        [rec EXCEPT !.pc = pc, !.oid = o, !.status = st] \in Call
  BY DEF Call, CallPcs
<1>5. \A cs \in SUBSET Conns, pc \in CallPcs : [rec EXCEPT !.pc = pc, !.todo = cs] \in Call
  BY DEF Call, CallPcs
<1>6. \A cs \in SUBSET Conns : [rec EXCEPT !.todo = cs] \in Call
  BY DEF Call
<1>7. \A cs, ds \in SUBSET Conns : [rec EXCEPT !.todo = cs, !.dead = ds] \in Call
  BY DEF Call
<1> QED BY <1>1, <1>2, <1>3, <1>4, <1>5, <1>6, <1>7

LEMMA ServeParts ==
  ASSUME NEW rec \in Serve, NEW pc \in {"register", "session", "found", "stats"}
  PROVE  [rec EXCEPT !.pc = pc] \in Serve /\ [rec EXCEPT !.pc = pc].pc = pc
  BY DEF Serve

LEMMA GotoType ==
  ASSUME TypeOK, NEW h \in Calls, NEW pc \in CallPcs, Goto(h, pc)
  PROVE  /\ call' \in [Calls -> Call]
         /\ call'[h] = [call[h] EXCEPT !.pc = pc]
<1>1. call[h] \in Call
  BY DEF TypeOK
<1>2. call' = [call EXCEPT ![h] = [call[h] EXCEPT !.pc = pc]]
  BY DEF Goto
<1>3. [call[h] EXCEPT !.pc = pc] \in Call
  BY <1>1, CallParts
<1> QED BY <1>2, <1>3, CallMoves

LEMMA EndType ==
  ASSUME TypeOK, NEW h \in Calls, End(h) \/ GiveUp(h)
  PROVE  call' \in [Calls -> Call]
<1>1. PICK pc \in CallPcs : call' = [call EXCEPT ![h] = Over(h, pc)]
  BY DEF End, GiveUp, CallPcs
<1> QED BY <1>1, OverType, CallMoves

LEMMA OvertakenType ==
  ASSUME NEW h, NEW os \in SUBSET Oids
  PROVE  Overtaken(h, os) \subseteq Browsers \X Oids /\ Untold(os) \subseteq Browsers \X Oids
  BY DEF Overtaken, Untold

LEMMA ListType == GetOrdersBySession \in SUBSET Entry
  BY DEF GetOrdersBySession

LEMMA ServeMoves ==
  ASSUME TypeOK, NEW c \in Conns, NEW es \in SUBSET Entry, ServeNext(c, es)
  PROVE  /\ serve' \in [Conns -> Serve]
         /\ serve'[c].pc # "none"
         /\ \A d \in Conns \ {c} : serve'[d] = serve[d]
  BY DEF TypeOK, ServeNext, Serve

LEMMA CallStepType ==
  ASSUME TypeOK, NEW h \in Calls, CallStep(h)
  PROVE  TypeOK'
<1>0. call[h] \in Call
  BY DEF TypeOK
<1>1. CASE FindSession(h)
  BY <1>1, GotoType, EndType DEF FindSession, TypeOK, db, hub, net, page, CallPcs
<1>2. CASE ReadBack(h)
  <2>1. CASE InTable(call[h].oid)
    <3> DEFINE new == [call[h] EXCEPT !.pc = "copy", !.status = orders[call[h].oid]]
    <3>1. call' = [call EXCEPT ![h] = new]
      BY <1>2, <2>1 DEF ReadBack
    <3>2. new \in Call
      <4>1. orders[call[h].oid] \in OrderStatus
        BY <2>1 DEF InTable
      <4> QED BY <1>0, <4>1, CallParts DEF CallPcs
    <3>3. call' \in [Calls -> Call]
      BY <3>1, <3>2, CallMoves
    <3> QED BY <1>2, <3>3 DEF ReadBack, TypeOK, db, hub, net, page
  <2>2. CASE ~InTable(call[h].oid)
    BY <1>2, <2>2, EndType DEF ReadBack, TypeOK, db, hub, net, page
  <2> QED BY <2>1, <2>2
<1>3. CASE WriteOrder(h)
  <2> DEFINE o == call[h].oid
  <2>1. CASE InTable(o)
    <3>1. o \in Oids /\ call[h].status \in OrderStatus
      BY <1>0 DEF Call
    <3>2. orders' = [orders EXCEPT ![o] = call[h].status] /\ raced' = raced \cup Overtaken(h, {o}) /\ Goto(h, "copy")
      BY <1>3, <2>1 DEF WriteOrder
    <3>3. Overtaken(h, {o}) \subseteq Browsers \X Oids
      BY <3>1, OvertakenType
    <3>4. call' \in [Calls -> Call]
      BY <3>2, GotoType DEF CallPcs
    <3> QED BY <1>3, <3>1, <3>2, <3>3, <3>4 DEF WriteOrder, TypeOK, hub, net, page
  <2>2. CASE ~InTable(o)
    <3>1. call' \in [Calls -> Call]
      BY <1>3, <2>2, GotoType, EndType DEF WriteOrder, CallPcs
    <3> QED BY <1>3, <2>2, <3>1 DEF WriteOrder, TypeOK, hub, net, page
  <2> QED BY <2>1, <2>2
<1>4. CASE PurgeOrders(h)
  <2>1. raced' \subseteq Browsers \X Oids
    BY <1>4, OvertakenType DEF PurgeOrders, TypeOK
  <2>2. call' \in [Calls -> Call]
    BY <1>4, GotoType DEF PurgeOrders, CallPcs
  <2> QED BY <1>4, <2>1, <2>2 DEF PurgeOrders, TypeOK, hub, net, page
<1>5. CASE ShutSession(h)
  <2>1. raced' \subseteq Browsers \X Oids
    BY <1>5, OvertakenType DEF ShutSession, FoundOpen, TypeOK
  <2>2. call' \in [Calls -> Call]
    BY <1>5, GotoType DEF ShutSession, CallPcs
  <2> QED BY <1>5, <2>1, <2>2 DEF ShutSession, TypeOK, hub, net, page
<1>6. CASE CompleteOrders(h)
  <2>1. call' \in [Calls -> Call]
    BY <1>6, GotoType DEF CompleteOrders, CallPcs
  <2> QED BY <1>6, <2>1 DEF CompleteOrders, TypeOK, OrderStatus, hub, net, page
<1>7. CASE Fail(h)
  <2>1. raced' \subseteq Browsers \X Oids
    BY <1>7, OvertakenType, AffectsType DEF Fail, TypeOK
  <2>2. call' \in [Calls -> Call]
    BY <1>7, EndType DEF Fail
  <2> QED BY <1>7, <2>1, <2>2 DEF Fail, TypeOK, db, hub, net, page
<1>8. CASE \E o \in Oids : PlaceOrder(h, o)
  <2>1. PICK o \in Oids : PlaceOrder(h, o)
    BY <1>8
  <2>2. raced' \subseteq Browsers \X Oids
    <3>1. Overtaken(h, {o}) \subseteq Browsers \X Oids /\ Untold({o}) \subseteq Browsers \X Oids
      BY OvertakenType
    <3> QED BY <2>1, <3>1 DEF PlaceOrder, TypeOK
  <2>3. call' \in [Calls -> Call]
    <3>1. call' = [call EXCEPT ![h] = [call[h] EXCEPT !.pc = "readBack", !.oid = o]]
      BY <2>1 DEF PlaceOrder
    <3>2. [call[h] EXCEPT !.pc = "readBack", !.oid = o] \in Call
      BY <1>0, CallParts DEF CallPcs, OrderStatus
    <3> QED BY <3>1, <3>2, CallMoves
  <2> QED BY <2>1, <2>2, <2>3 DEF PlaceOrder, TypeOK, OrderStatus, hub, net, page
<1>9. CASE \E o \in Oids, target \in OrderStatus : ReadOrder(h, o, target)
  <2>1. PICK o \in Oids, target \in OrderStatus : ReadOrder(h, o, target)
    BY <1>9
  <2>2. call' \in [Calls -> Call]
    <3>1. CASE InTable(o)
      <4> DEFINE st == IF call[h].kind = "status" THEN target ELSE orders[o]
      <4>1. st \in OrderStatus
        BY <3>1 DEF InTable
      <4>2. call' = [call EXCEPT ![h] = [call[h] EXCEPT !.pc = "write", !.oid = o, !.status = st]]
        BY <2>1, <3>1 DEF ReadOrder
      <4> HIDE DEF st
      <4>3. [call[h] EXCEPT !.pc = "write", !.oid = o, !.status = st] \in Call
        BY <1>0, <4>1, CallParts DEF CallPcs
      <4> QED BY <4>2, <4>3, CallMoves
    <3>2. CASE ~InTable(o)
      BY <2>1, <3>2, EndType DEF ReadOrder
    <3> QED BY <3>1, <3>2
  <2> QED BY <2>1, <2>2 DEF ReadOrder, TypeOK, db, hub, net, page
<1>10. CASE CopyClients(h)
  <2>1. raced' \subseteq Browsers \X Oids
    BY <1>10, AffectsType DEF CopyClients, MissedBy, TypeOK
  <2>2. call' \in [Calls -> Call]
    <3>1. PICK pc \in CallPcs : call' = [call EXCEPT ![h] = [call[h] EXCEPT !.pc = pc, !.todo = clients]]
      BY <1>10 DEF CopyClients, CallPcs
    <3>2. [call[h] EXCEPT !.pc = pc, !.todo = clients] \in Call
      BY <1>0, CallParts DEF TypeOK
    <3> QED BY <3>1, <3>2, CallMoves
  <2> QED BY <1>10, <2>1, <2>2 DEF CopyClients, TypeOK, db, hub, net, page
<1>11. CASE SkipStats(h)
  <2>1. call' \in [Calls -> Call]
    BY <1>11, AfterBroadcastType, CallMoves DEF SkipStats
  <2> QED BY <1>11, <2>1 DEF SkipStats, TypeOK, db, hub, net, page
<1>12. CASE EndBroadcast(h)
  <2>1. call' \in [Calls -> Call]
    BY <1>12, AfterBroadcastType, CallMoves DEF EndBroadcast
  <2> QED BY <1>12, <2>1 DEF EndBroadcast, TypeOK, db, net, page
<1>13. CASE Reply(h)
  <2> DEFINE o == call[h].oid
  <2>1. CASE InTable(o) /\ call[h].kind = "status"
    <3>1. call' = [call EXCEPT ![h] = [call[h] EXCEPT !.pc = "arrive", !.status = orders[o]]]
      BY <1>13, <2>1 DEF Reply
    <3>2. [call[h] EXCEPT !.pc = "arrive", !.status = orders[o]] \in Call
      <4>1. orders[o] \in OrderStatus
        BY <2>1 DEF InTable
      <4> QED BY <1>0, <4>1, CallParts DEF CallPcs
    <3>3. call' \in [Calls -> Call]
      BY <3>1, <3>2, CallMoves
    <3> QED BY <1>13, <3>3 DEF Reply, TypeOK, db, hub, net, page
  <2>2. CASE ~(InTable(o) /\ call[h].kind = "status")
    <3>1. Over(h, "done") \in Call
      BY OverType DEF CallPcs
    <3>2. call' = [call EXCEPT ![h] = Over(h, "done")]
      BY <1>13, <2>2 DEF Reply
    <3> QED BY <1>13, <3>1, <3>2 DEF Reply, TypeOK, db, hub, net, page
  <2> QED BY <2>1, <2>2
<1>14. CASE Arrive(h)
  <2> DEFINE b == call[h].from
  <2>1. b \in Browsers /\ call[h].oid \in Oids /\ call[h].status \in OrderStatus
    BY <1>0 DEF Call
  <2>2. rows[b] \in [Oids -> Seq(OrderStatus)]
    BY <2>1 DEF TypeOK
  <2>3. Map(rows[b], call[h].oid, call[h].status) \in [Oids -> Seq(OrderStatus)]
    BY <2>1, <2>2, MapType
  <2>4. call' \in [Calls -> Call]
    BY <1>14, EndType DEF Arrive
  <2> QED BY <1>14, <2>1, <2>3, <2>4 DEF Arrive, TypeOK, db, hub, net
<1> QED BY <1>1, <1>2, <1>3, <1>4, <1>5, <1>6, <1>7, <1>8, <1>9, <1>10, <1>11, <1>12,
           <1>13, <1>14 DEF CallStep

LEMMA DisconnectType ==
  ASSUME TypeOK, NEW c \in Conns, Disconnect(c)
  PROVE  /\ link' \in [Conns -> {"none", "open", "closed"}]
         /\ wire' \in [Conns -> Seq(Message)]
         /\ raced' \subseteq Browsers \X Oids
  BY MissedWithType, EmptySeq DEF Disconnect, TypeOK

LEMMA ServeEndType ==
  ASSUME TypeOK, NEW c \in Conns, ServeEnd(c)
  PROVE  /\ link' \in [Conns -> {"none", "open", "closed"}]
         /\ wire' \in [Conns -> Seq(Message)]
         /\ raced' \subseteq Browsers \X Oids
         /\ clients' \subseteq Conns
         /\ serve' \in [Conns -> Serve]
  BY DisconnectType DEF ServeEnd, TypeOK, Serve

LEMMA WritesType ==
  ASSUME TypeOK, NEW w, NEW c \in Conns, Writes(w, c)
  PROVE  overlap' \in [Conns -> SUBSET Writers]
  BY DEF Writes, TypeOK

LEMMA TransmitType ==
  ASSUME TypeOK, NEW w \in Writers, NEW c \in Conns, Wants(w, c), Transmit(w, c)
  PROVE  wire' \in [Conns -> Seq(Message)]
<1>1. wire[c] \in Seq(Message)
  BY DEF TypeOK
<1>2. wire[c] \o MessageOf(w) \in Seq(Message)
  BY <1>1, MessageFacts, ConcatProperties
<1> QED BY <1>2 DEF Transmit, TypeOK

LEMMA LoseType ==
  ASSUME TypeOK, NEW w \in Writers, NEW c \in Conns, Wants(w, c), LoseMessage(w, c)
  PROVE  raced' \subseteq Browsers \X Oids
<1> DEFINE os == IF w \in Calls
                 THEN IF At(w, "send") THEN Affects(w) ELSE {}
                 ELSE IF serve[w].pc = "orders" THEN {FirstOf(serve[w].snapshot).oid}
                                                ELSE {}
<1>1. os \subseteq Oids
  <2>1. CASE w \in Calls
    BY <2>1, AffectsType
  <2>2. CASE w \notin Calls
    <3>1. w = c
      BY <2>2 DEF Wants
    <3>2. serve[w].pc = "orders" => serve[w].snapshot \in SUBSET Entry /\ serve[w].snapshot # {}
      BY <2>2, <3>1 DEF Wants, Sending, TypeOK, Serve
    <3>3. serve[w].pc = "orders" => FirstOf(serve[w].snapshot).oid \in Oids
      BY <3>2, FirstIsThere DEF Entry
    <3> QED BY <2>2, <3>3
  <2> QED BY <2>1, <2>2
<1>2. raced' = raced \cup ({c[1]} \X os)
  BY DEF LoseMessage
<1> HIDE DEF os
<1> QED BY <1>1, <1>2, ConnFacts DEF TypeOK

LEMMA AfterFirstType ==
  ASSUME TypeOK, NEW c \in Conns
  PROVE  AfterFirst(serve[c].snapshot) \in SUBSET Entry
  BY DEF AfterFirst, TypeOK, Serve

LEMMA ConnStepType ==
  ASSUME TypeOK, NEW c \in Conns, ConnStep(c)
  PROVE  TypeOK'
<1>0. serve[c] \in Serve /\ wire[c] \in Seq(Message) /\ c[1] \in Browsers
  BY ConnFacts DEF TypeOK
<1>1. CASE Register(c)
  <2>1. serve' = [serve EXCEPT ![c] = [serve[c] EXCEPT !.pc = "session"]]
    BY <1>1 DEF Register
  <2>2. serve' \in [Conns -> Serve]
    BY <1>0, <2>1, ServeParts DEF TypeOK
  <2> QED BY <1>1, <2>2 DEF Register, TypeOK, db, net, page
<1>2. CASE ListNone(c) \/ FindSessionToList(c)
  <2>1. PICK pc \in {"found", "stats"} : serve' = [serve EXCEPT ![c] = [serve[c] EXCEPT !.pc = pc]]
    BY <1>2 DEF ListNone, FindSessionToList
  <2> QED BY <1>0, <1>2, <2>1, ServeParts DEF ListNone, FindSessionToList, TypeOK, db, net, page
<1>3. CASE ListOrders(c)
  BY <1>0, <1>3, ListType DEF ListOrders, TypeOK, Serve, db, net, page
<1>4. CASE FailList(c)
  <2>1. serve' = [serve EXCEPT ![c] = [serve[c] EXCEPT !.pc = "stats"]]
    BY <1>4 DEF FailList
  <2>2. raced' \subseteq Browsers \X Oids
    BY <1>0, <1>4 DEF FailList, TypeOK
  <2>3. serve' \in [Conns -> Serve]
    BY <1>0, <2>1, ServeParts DEF TypeOK
  <2> QED BY <1>4, <2>2, <2>3 DEF FailList, TypeOK, db, net, page
<1>5. CASE Leave(c)
  BY <1>5, ServeEndType DEF Leave, TypeOK, db, page
<1>6. CASE Break(c)
  BY <1>6, DisconnectType DEF Break, TypeOK, db, hub, page
<1>7. CASE Receive(c)
  <2> DEFINE b == c[1]
             m == Head(wire[c])
  <2>1. m \in Message /\ Tail(wire[c]) \in Seq(Message)
    BY <1>0, <1>7, HeadTailProperties DEF Receive
  <2>2. m.oid \in Oids /\ m.status \in OrderStatus
    BY <2>1 DEF Message
  <2>3. rows[b] \in [Oids -> Seq(OrderStatus)]
    BY <1>0 DEF TypeOK
  <2> DEFINE new == CASE m.type = "order_new"    -> [rows[b] EXCEPT ![m.oid] = Append(@, m.status)]
                      [] m.type = "order_update" -> Map(rows[b], m.oid, m.status)
                      [] OTHER                   -> [o \in Oids |-> <<>>]
  <2>4. new \in [Oids -> Seq(OrderStatus)]
    <3>1. Append(rows[b][m.oid], m.status) \in Seq(OrderStatus)
      BY <2>2, <2>3
    <3>2. [rows[b] EXCEPT ![m.oid] = Append(@, m.status)] \in [Oids -> Seq(OrderStatus)]
      BY <2>3, <3>1
    <3>3. Map(rows[b], m.oid, m.status) \in [Oids -> Seq(OrderStatus)]
      BY <2>2, <2>3, MapType
    <3>4. [o \in Oids |-> <<>>] \in [Oids -> Seq(OrderStatus)]
      BY EmptySeq
    <3> HIDE DEF m
    <3> QED BY <3>2, <3>3, <3>4
  <2>5. rows' = [rows EXCEPT ![b] = new] /\ wire' = [wire EXCEPT ![c] = Tail(wire[c])]
    BY <1>7 DEF Receive
  <2> HIDE DEF new, m
  <2>6. rows' \in [Browsers -> [Oids -> Seq(OrderStatus)]] /\ wire' \in [Conns -> Seq(Message)]
    BY <1>0, <2>1, <2>4, <2>5 DEF TypeOK
  <2> QED BY <1>7, <2>6 DEF Receive, TypeOK, db, hub
<1>8. CASE FailServeWrite(c)
  <2>1. overlap' \in [Conns -> SUBSET Writers]
    BY <1>8, WritesType DEF FailServeWrite
  <2>2. CASE serve[c].pc = "orders"
    BY <1>8, <2>1, <2>2, ServeEndType DEF FailServeWrite, TypeOK, db, page
  <2>3. CASE serve[c].pc # "orders"
    <3>1. ServeNext(c, {}) /\ UNCHANGED <<clients, net, raced>>
      BY <1>8, <2>3 DEF FailServeWrite
    <3>2. serve' \in [Conns -> Serve]
      BY <3>1, ServeMoves
    <3> QED BY <1>8, <2>1, <3>1, <3>2 DEF FailServeWrite, TypeOK, db, net, page
  <2> QED BY <2>2, <2>3
<1>9. CASE PanicInServe(c)
  <2>1. overlap' \in [Conns -> SUBSET Writers]
    BY <1>9, WritesType DEF PanicInServe
  <2> QED BY <1>9, <2>1, ServeEndType DEF PanicInServe, TypeOK, db, page
<1>10. CASE \E w \in Writers : Write(w, c)
  <2>1. PICK w \in Writers : Write(w, c)
    BY <1>10
  <2>2. Wants(w, c) /\ Writes(w, c)
    BY <2>1 DEF Write, Writes, MayWrite
  <2>3. overlap' \in [Conns -> SUBSET Writers]
    BY <2>2, WritesType
  <2>4. wire' \in [Conns -> Seq(Message)] /\ raced' \subseteq Browsers \X Oids
    BY <2>1, <2>2, TransmitType, LoseType DEF Write, LoseMessage, TypeOK
  <2>5. call' \in [Calls -> Call] /\ serve' \in [Conns -> Serve]
    <3>1. CASE w \in Calls /\ call' = [call EXCEPT ![w].todo = @ \ {c}] /\ UNCHANGED serve
      <4>1. call' = [call EXCEPT ![w] = [call[w] EXCEPT !.todo = call[w].todo \ {c}]]
        BY <3>1
      <4>2. call[w] \in Call /\ call[w].todo \ {c} \in SUBSET Conns
        BY <3>1 DEF TypeOK, Call
      <4>3. [call[w] EXCEPT !.todo = call[w].todo \ {c}] \in Call
        BY <4>2, CallParts
      <4> QED BY <3>1, <4>1, <4>3, CallMoves DEF TypeOK
    <3>2. CASE ServeNext(c, AfterFirst(serve[c].snapshot)) /\ UNCHANGED call
      BY <3>2, AfterFirstType, ServeMoves DEF TypeOK
    <3> QED BY <2>1, <3>1, <3>2 DEF Write
  <2> QED BY <2>1, <2>3, <2>4, <2>5 DEF Write, TypeOK, db, page
<1>11. CASE \E v, w \in Writers : Meet(v, w, c)
  BY <1>11 DEF Meet, TypeOK, db, net, page
<1>12. CASE \E h \in Calls : FailBroadcastWrite(h, c)
  <2>1. PICK h \in Calls : FailBroadcastWrite(h, c)
    BY <1>12
  <2>2. overlap' \in [Conns -> SUBSET Writers]
    BY <2>1, WritesType DEF FailBroadcastWrite
  <2>3. call' \in [Calls -> Call]
    <3> DEFINE cs == call[h].todo \ {c}
               ds == call[h].dead \cup {c}
    <3>1. call' = [call EXCEPT ![h] = [call[h] EXCEPT !.todo = cs, !.dead = ds]]
      BY <2>1 DEF FailBroadcastWrite
    <3>2. call[h] \in Call /\ cs \in SUBSET Conns /\ ds \in SUBSET Conns
      BY DEF TypeOK, Call
    <3> HIDE DEF cs, ds
    <3>3. [call[h] EXCEPT !.todo = cs, !.dead = ds] \in Call
      BY <3>2, CallParts
    <3> QED BY <3>1, <3>3, CallMoves
  <2> QED BY <2>1, <2>2, <2>3 DEF FailBroadcastWrite, TypeOK, db, net, page
<1>13. CASE \E h \in Calls : PanicInBroadcast(h, c)
  <2>1. PICK h \in Calls : PanicInBroadcast(h, c)
    BY <1>13
  <2>2. Wants(h, c) /\ Writes(h, c)
    BY <2>1 DEF PanicInBroadcast, Writes, MayWrite
  <2>3. overlap' \in [Conns -> SUBSET Writers]
    BY <2>2, WritesType
  <2>4. wire' \in [Conns -> Seq(Message)]
    BY <2>1, <2>2, TransmitType DEF PanicInBroadcast, TypeOK, Writers
  <2>5. raced' \subseteq Browsers \X Oids
    BY <2>1, OvertakenType, AffectsType DEF PanicInBroadcast, TypeOK
  <2>6. call' \in [Calls -> Call]
    BY <2>1, EndType DEF PanicInBroadcast
  <2> QED BY <2>1, <2>3, <2>4, <2>5, <2>6 DEF PanicInBroadcast, TypeOK, db, page
<1> QED BY <1>1, <1>2, <1>3, <1>4, <1>5, <1>6, <1>7, <1>8, <1>9, <1>10, <1>11, <1>12,
           <1>13 DEF ConnStep

LEMMA PageStepType ==
  ASSUME TypeOK, NEW b \in Browsers, PageStep(b)
  PROVE  TypeOK'
<1>0. load[b] \in Load
  BY DEF TypeOK
<1>1. CASE FindSessionToLoad(b)
  BY <1>0, <1>1 DEF FindSessionToLoad, TypeOK, Load, db, hub, net
<1>2. CASE ServeLoad(b)
  BY <1>0, <1>2, ListType DEF ServeLoad, TypeOK, Load, db, hub, net
<1>3. CASE FailLoad(b)
  BY <1>0, <1>3 DEF FailLoad, TypeOK, Load, db, hub, net
<1>4. CASE TakeLoad(b)
  <2> DEFINE has(o) == \E e \in load[b].list : e.oid = o
             st(o) == (CHOOSE e \in load[b].list : e.oid = o).status
             new == [o \in Oids |-> IF has(o) THEN <<st(o)>> ELSE <<>>]
  <2>1. \A o \in Oids : has(o) => st(o) \in OrderStatus
    <3> SUFFICES ASSUME NEW o \in Oids, has(o) PROVE st(o) \in OrderStatus
      OBVIOUS
    <3>1. (CHOOSE e \in load[b].list : e.oid = o) \in load[b].list
      OBVIOUS
    <3> QED BY <1>0, <3>1 DEF Load, Entry
  <2>2. \A o \in Oids : (IF has(o) THEN <<st(o)>> ELSE <<>>) \in Seq(OrderStatus)
    <3> HIDE DEF has, st
    <3> QED BY <2>1
  <2>3. rows' = [rows EXCEPT ![b] = new]
    BY <1>4 DEF TakeLoad
  <2>4. new \in [Oids -> Seq(OrderStatus)]
    <3> HIDE DEF has, st
    <3> QED BY <2>2
  <2>5. load' = [load EXCEPT ![b] = [load[b] EXCEPT !.pc = "loaded", !.list = {}]]
    BY <1>4 DEF TakeLoad
  <2>6. [load[b] EXCEPT !.pc = "loaded", !.list = {}] \in Load
    BY <1>0 DEF Load
  <2>7. UNCHANGED <<db, call, hub, net, raced>>
    BY <1>4 DEF TakeLoad
  <2> HIDE DEF new
  <2>8. rows' \in [Browsers -> [Oids -> Seq(OrderStatus)]] /\ load' \in [Browsers -> Load]
    BY <2>3, <2>4, <2>5, <2>6 DEF TypeOK
  <2> QED BY <2>7, <2>8 DEF TypeOK, db, hub, net
<1>5. CASE Reload(b)
  <2> DEFINE asked == [load EXCEPT ![b] = [load[b] EXCEPT !.pc = "asked"]]
  <2>1. asked \in [Browsers -> Load] /\ asked[b].times = load[b].times
    BY <1>0 DEF TypeOK, Load
  <2>2. load' = [asked EXCEPT ![b].times = @ + 1]
    BY <1>5 DEF Reload
  <2> HIDE DEF asked
  <2>3. asked[b] \in Load /\ asked[b].times + 1 \in 1..MaxLoads
    BY <1>0, <1>5, <2>1 DEF Reload, Load
  <2>4. [asked[b] EXCEPT !.times = @ + 1] \in Load
    BY <2>3 DEF Load
  <2>5. load' = [asked EXCEPT ![b] = [asked[b] EXCEPT !.times = @ + 1]]
    BY <2>2
  <2>6. load' \in [Browsers -> Load]
    BY <2>1, <2>4, <2>5
  <2> QED BY <1>5, <2>6 DEF Reload, TypeOK, db, hub, net
<1>6. CASE \E n \in 1..MaxConns : Connect(b, n)
  <2>1. PICK n \in 1..MaxConns : Connect(b, n)
    BY <1>6
  <2> DEFINE c == <<b, n>>
  <2>2. c \in Conns /\ serve[c] \in Serve
    BY DEF Conns, TypeOK
  <2>3. link' = [link EXCEPT ![c] = "open"] /\ serve' = [serve EXCEPT ![c] = [serve[c] EXCEPT !.pc = "register"]]
    BY <2>1 DEF Connect
  <2>4. UNCHANGED <<db, call, clients, overlap, wire, page, raced>>
    BY <2>1 DEF Connect
  <2> HIDE DEF c
  <2>5. serve' \in [Conns -> Serve] /\ link' \in [Conns -> {"none", "open", "closed"}]
    BY <2>2, <2>3, ServeParts DEF TypeOK
  <2> QED BY <2>4, <2>5 DEF TypeOK, db, page
<1> QED BY <1>1, <1>2, <1>3, <1>4, <1>5, <1>6 DEF PageStep

LEMMA InitType == Init => TypeOK
<1> SUFFICES ASSUME Init PROVE TypeOK
  OBVIOUS
<1>1. NewCalls \subseteq Call
  BY OneIsAnOid DEF NewCalls, Call, FirstPc, OrderStatus, AllKinds
<1>2. orders \in [Oids -> {"NONE", "DELETED"} \cup OrderStatus]
  BY DEF Init, OrderStatus
<1>3. wire \in [Conns -> Seq(Message)] /\ rows \in [Browsers -> [Oids -> Seq(OrderStatus)]]
  BY EmptySeq DEF Init
<1> QED BY <1>1, <1>2, <1>3 DEF Init, TypeOK, Serve, Load

LEMMA NextType == TypeOK /\ [Next]_vars => TypeOK'
<1> SUFFICES ASSUME TypeOK, [Next]_vars PROVE TypeOK'
  OBVIOUS
<1>1. CASE Next
  BY <1>1, CallStepType, ConnStepType, PageStepType DEF Next
<1>2. CASE UNCHANGED vars
  BY <1>2 DEF TypeOK, vars, db, hub, net, page
<1> QED BY <1>1, <1>2

------------------------------------------------------------------------------
(* The parts of the invariant beside the types. *)

Rest ==
  /\ OneAfterTheOther
  /\ HubKnows
  /\ HandlersInStep
  /\ KeptToSend
  /\ OneTells
  /\ NothingYet
  /\ ToldOnce
  /\ RowsCounted
  /\ PurgedIsRaced
  /\ UnderWayIsCurrent
  /\ ClosedIsClosed
  /\ WiresEndRight
  /\ RowsEndRight
  /\ RowsThere
  /\ WiresEndEmpty
  /\ RowsEndEmpty

\* What one call contributes to MayLearn, Updating, Closing and ClosingFor.
Telling(h, b, o) ==
  /\ Tells(h, o)
  /\ \/ ~At(h, "send")
     \/ \E n \in 1..MaxConns : <<b, n>> \in call[h].todo /\ link[<<b, n>>] = "open"
NewOnWire(b, o) == \E n \in 1..MaxConns : \E i \in DOMAIN wire[<<b, n>>] : IsNew(<<b, n>>, i, o)
UpdatingBy(h, c, o) ==
  /\ call[h].kind \notin {"order", "close"} /\ call[h].oid = o
  /\ \/ At(h, "copy")
     \/ At(h, "send") /\ c \in call[h].todo
ClosingBy(h) == call[h].kind = "close" /\ call[h].pc \in {"complete", "copy"}
ClosingForBy(h, c) == call[h].kind = "close" /\ At(h, "send") /\ c \in call[h].todo

LEMMA ByCalls ==
  /\ \A b, o : MayLearn(b, o) <=> NewOnWire(b, o) \/ \E h \in Calls : Telling(h, b, o)
  /\ \A c, o : Updating(c, o) <=> \E h \in Calls : UpdatingBy(h, c, o)
  /\ Closing <=> \E h \in Calls : ClosingBy(h)
  /\ \A c : ClosingFor(c) <=> \E h \in Calls : ClosingForBy(h, c)
  BY DEF MayLearn, NewOnWire, Telling, Updating, UpdatingBy, Closing, ClosingBy, ClosingFor, ClosingForBy

LEMMA ByCallsNext ==
  /\ \A b, o : MayLearn(b, o)' <=> NewOnWire(b, o)' \/ \E h \in Calls : Telling(h, b, o)'
  /\ \A c, o : Updating(c, o)' <=> \E h \in Calls : UpdatingBy(h, c, o)'
  /\ Closing' <=> \E h \in Calls : ClosingBy(h)'
  /\ \A c : ClosingFor(c)' <=> \E h \in Calls : ClosingForBy(h, c)'
  BY DEF MayLearn, NewOnWire, Telling, Updating, UpdatingBy, Closing, ClosingBy, ClosingFor, ClosingForBy

\* A connection with messages on it is served.
LEMMA WireIsServed ==
  ASSUME TypeOK, OneAfterTheOther, HubKnows, NEW c \in Conns, DOMAIN wire[c] # {}
  PROVE  Served(c) /\ c \in clients /\ link[c] = "open"
<1>1. wire[c] # <<>>
  BY EmptySeq, LenProperties
<1> QED BY <1>1 DEF Served, OneAfterTheOther, HubKnows

\* Each browser keeps its rows, but may put wrong ones right.
RowKept(b, o) ==
  /\ Len(rows'[b][o]) = Len(rows[b][o])
  /\ rows'[b][o] = <<>> <=> rows[b][o] = <<>>
  /\ open /\ Unraced(b, o)' => \A i \in DOMAIN rows'[b][o] :
       rows'[b][o][i] # orders[o] => \E k \in DOMAIN rows[b][o] : rows[b][o][k] # orders[o]
RowsKept == \A b \in Browsers, o \in Oids : RowKept(b, o)

LEMMA SameRows == UNCHANGED rows => RowsKept
  BY DEF RowsKept, RowKept

\* A step of one handler that changes neither tables nor connections, nor the pages
\* but to put rows right.
LEMMA HandlerStep ==
  ASSUME TypeOK, Rest, NEW h \in Calls,
         UNCHANGED <<orders, open, serve, link, wire, load>>,
         RowsKept,
         raced \subseteq raced',
         \A g \in Calls \ {h} : call'[g] = call[g],
         call'[h].kind = call[h].kind,
         HandlersInStep',
         call'[h].pc \notin {"send", "sendStats"} => call'[h].todo = {},
         clients' \subseteq clients,
         \A c \in clients : link[c] = "open" => c \in clients',
         call'[h].todo \subseteq call[h].todo \cup clients,
         \A c \in call'[h].dead : c \in call[h].dead \/ link[c] = "closed",
         \A o \in Oids : Names(h, o)' => orders[o] # "NONE",
         \A o \in Oids : Tells(h, o)' =>
           /\ Tells(h, o)
           /\ At(h, "send") => At(h, "send")' /\ call'[h].todo \subseteq call[h].todo,
         \A b \in Browsers, o \in Oids : open /\ Unraced(b, o)' =>
           /\ Names(h, o)' /\ MayTell(h, b)' => call'[h].status = orders[o]
           /\ Telling(h, b, o) /\ load[b].pc = "loaded" => Telling(h, b, o)',
         \A c \in Conns, o \in Oids : Unraced(c[1], o)' /\ Served(c) =>
           /\ UpdatingBy(h, c, o) => UpdatingBy(h, c, o)'
           /\ ClosingForBy(h, c) => ClosingForBy(h, c)'
           /\ ClosingBy(h) => ClosingBy(h)' \/ ClosingForBy(h, c)',
         \A b \in Browsers, o \in Oids : Unraced(b, o)' /\ load[b].pc = "loaded" =>
           /\ ClosingBy(h) => ClosingBy(h)' \/ \E n \in 1..MaxConns : Served(<<b, n>>)
           /\ \A n \in 1..MaxConns : link[<<b, n>>] = "open" /\ ClosingForBy(h, <<b, n>>) =>
                ClosingForBy(h, <<b, n>>)',
         call'[h].kind = "close" /\ call'[h].pc \in {"complete", "copy", "send"} => ~open
  PROVE  Rest'
<1>1. OneAfterTheOther' /\ KeptToSend'
  BY DEF Rest, OneAfterTheOther, KeptToSend
<1>2. HubKnows'
  BY DEF Rest, HubKnows, Served
<1>3. OneTells'
  BY DEF Rest, OneTells, Tells
<1>4. NothingYet'
  BY DEF Rest, NothingYet, Names, IsAbout, RowsKept, RowKept
<1>5. ToldOnce'
  BY DEF Rest, ToldOnce, Tells, At, IsNew
<1>6. \A b \in Browsers, o \in Oids : Unraced(b, o)' => Unraced(b, o)
  BY DEF Unraced
<1>7. \A g \in Calls \ {h} : \A b, o : Telling(g, b, o)' <=> Telling(g, b, o)
  BY DEF Telling, Tells, At
<1>8. \A b \in Browsers, o \in Oids : Telling(h, b, o)' => Telling(h, b, o)
  BY DEF Telling, At
<1>9. \A b, o : NewOnWire(b, o)' <=> NewOnWire(b, o)
  BY DEF NewOnWire, IsNew
<1>10. \A b \in Browsers, o \in Oids : MayLearn(b, o)' => MayLearn(b, o)
  BY <1>7, <1>8, <1>9, ByCalls, ByCallsNext
<1>11. RowsCounted'
  BY <1>10 DEF Rest, RowsCounted, RowsKept, RowKept
<1>12. PurgedIsRaced'
  BY <1>6 DEF Rest, PurgedIsRaced
<1>13. UnderWayIsCurrent'
  BY <1>6 DEF Rest, UnderWayIsCurrent, Names, MayTell, At
<1>14. ClosedIsClosed'
  BY <1>6 DEF Rest, ClosedIsClosed, Tells, IsEnd
<1>15. \A c \in Conns, o \in Oids : Unraced(c[1], o)' /\ Served(c) /\ Updating(c, o) => Updating(c, o)'
  <2>1. \A g \in Calls \ {h}, c \in Conns, o \in Oids : UpdatingBy(g, c, o) => UpdatingBy(g, c, o)'
    BY DEF UpdatingBy, At
  <2> QED BY <2>1, ByCalls, ByCallsNext
<1>16. WiresEndRight'
  <2> SUFFICES ASSUME NEW c \in Conns, NEW o \in Oids, open, Unraced(c[1], o)', NEW i \in DOMAIN wire[c],
                      IsAbout(c, i, o), wire[c][i].status # orders[o]
               PROVE  Updating(c, o)' \/ \E j \in DOMAIN wire[c] : i < j /\ IsUpdate(c, j, o)
    BY DEF WiresEndRight, IsAbout, IsUpdate
  <2>1. Unraced(c[1], o) /\ Served(c)
    BY <1>6, ConnFacts, WireIsServed DEF Rest
  <2>2. Updating(c, o) \/ \E j \in DOMAIN wire[c] : i < j /\ IsUpdate(c, j, o)
    BY <2>1 DEF Rest, WiresEndRight
  <2> QED BY <1>15, <2>1, <2>2
<1>17. RowsEndRight'
  <2> SUFFICES ASSUME NEW c \in Conns, NEW o \in Oids, open, Unraced(c[1], o)', load[c[1]].pc = "loaded",
                      Served(c), NEW k \in DOMAIN rows'[c[1]][o], rows'[c[1]][o][k] # orders[o]
               PROVE  \/ Updating(c, o)'
                      \/ \E j \in DOMAIN wire[c] : IsUpdate(c, j, o)
                      \/ serve[c].pc \in {"session", "list", "found"}
                      \/ \E e \in serve[c].snapshot : e.oid = o
    BY DEF RowsEndRight, Served, IsUpdate
  <2>1. Unraced(c[1], o)
    BY <1>6, ConnFacts
  <2>2. PICK i \in DOMAIN rows[c[1]][o] : rows[c[1]][o][i] # orders[o]
    BY ConnFacts DEF RowsKept, RowKept
  <2> QED BY <1>15, <2>1, <2>2 DEF Rest, RowsEndRight
<1>18. RowsThere'
  <2> SUFFICES ASSUME NEW b \in Browsers, NEW o \in Oids, open, Unraced(b, o)', load[b].pc = "loaded",
                      InTable(o), rows'[b][o] = <<>>
               PROVE  MayLearn(b, o)'
    BY DEF RowsThere, InTable
  <2>1. MayLearn(b, o)
    BY <1>6 DEF Rest, RowsThere, RowsKept, RowKept
  <2> QED BY <1>7, <1>9, <2>1, ByCalls, ByCallsNext
<1>19. ASSUME NEW c \in Conns, NEW o \in Oids, Unraced(c[1], o)', Served(c), Closing \/ ClosingFor(c)
       PROVE  Closing' \/ ClosingFor(c)'
  <2>1. \A g \in Calls \ {h} : /\ ClosingBy(g) => ClosingBy(g)'
                               /\ ClosingForBy(g, c) => ClosingForBy(g, c)'
    BY DEF ClosingBy, ClosingForBy, At
  <2> QED BY <1>19, <2>1, ByCalls, ByCallsNext
<1>20. WiresEndEmpty'
  <2> SUFFICES ASSUME NEW c \in Conns, NEW o \in Oids, ~open, Unraced(c[1], o)', NEW i \in DOMAIN wire[c],
                      IsNew(c, i, o)
               PROVE  Closing' \/ ClosingFor(c)' \/ \E j \in DOMAIN wire[c] : i < j /\ IsEnd(c, j)
    BY DEF WiresEndEmpty, IsNew, IsEnd
  <2>1. Unraced(c[1], o) /\ Served(c)
    BY <1>6, ConnFacts, WireIsServed DEF Rest
  <2>2. Closing \/ ClosingFor(c) \/ \E j \in DOMAIN wire[c] : i < j /\ IsEnd(c, j)
    BY <2>1 DEF Rest, WiresEndEmpty
  <2> QED BY <1>19, <2>1, <2>2
<1>21. RowsEndEmpty'
  <2> SUFFICES ASSUME NEW b \in Browsers, NEW o \in Oids, ~open, Unraced(b, o)', load[b].pc = "loaded",
                      rows'[b][o] # <<>>
               PROVE  \/ Closing'
                      \/ \E n \in 1..MaxConns :
                           /\ link[<<b, n>>] = "open"
                           /\ ClosingFor(<<b, n>>)' \/ \E j \in DOMAIN wire[<<b, n>>] : IsEnd(<<b, n>>, j)
    BY DEF RowsEndEmpty, IsEnd
  <2>1. CASE Closing
    <3>1. PICK g \in Calls : ClosingBy(g)
      BY <2>1, ByCalls
    <3>2. CASE g # h
      BY <3>1, <3>2, ByCallsNext DEF ClosingBy
    <3>3. CASE g = h /\ ClosingBy(h)'
      BY <3>3, ByCallsNext
    <3>4. CASE g = h /\ ~ClosingBy(h)'
      <4>1. PICK n \in 1..MaxConns : Served(<<b, n>>)
        BY <3>1, <3>4
      <4>2. <<b, n>> \in Conns /\ <<b, n>>[1] = b
        BY DEF Conns
      <4>3. ClosingForBy(h, <<b, n>>)'
        BY <3>1, <3>4, <4>1, <4>2
      <4> QED BY <4>1, <4>3, ByCallsNext DEF Served
    <3> QED BY <3>2, <3>3, <3>4
  <2>2. CASE ~Closing
    <3>1. PICK n \in 1..MaxConns :
            link[<<b, n>>] = "open" /\ (ClosingFor(<<b, n>>) \/ \E j \in DOMAIN wire[<<b, n>>] : IsEnd(<<b, n>>, j))
      BY <1>6, <2>2 DEF Rest, RowsEndEmpty, RowsKept, RowKept
    <3>2. ClosingFor(<<b, n>>) => ClosingFor(<<b, n>>)'
      <4>1. \A g \in Calls \ {h} : ClosingForBy(g, <<b, n>>) => ClosingForBy(g, <<b, n>>)'
        BY DEF ClosingForBy, At
      <4> QED BY <3>1, <4>1, ByCalls, ByCallsNext
    <3> QED BY <3>1, <3>2
  <2> QED BY <2>1, <2>2
<1> QED BY <1>1, <1>2, <1>3, <1>4, <1>5, <1>11, <1>12, <1>13, <1>14, <1>16, <1>17, <1>18,
           <1>20, <1>21 DEF Rest
\* The step of a handler that has nothing to announce, before or after it, or
\* nothing that is not raced.
LEMMA MuteStep ==
  ASSUME TypeOK, Rest, NEW h \in Calls,
         UNCHANGED <<orders, open, serve, link, wire, load>>,
         RowsKept,
         raced \subseteq raced',
         \A g \in Calls \ {h} : call'[g] = call[g],
         call'[h].kind = call[h].kind,
         HandlersInStep',
         call'[h].pc \notin {"send", "sendStats"} => call'[h].todo = {},
         clients' \subseteq clients,
         \A c \in clients : link[c] = "open" => c \in clients',
         call'[h].todo \subseteq call[h].todo \cup clients,
         \A c \in call'[h].dead : c \in call[h].dead \/ link[c] = "closed",
         call'[h].pc \notin {"readBack", "complete", "copy", "send"},
         \A o \in Oids : Names(h, o)' =>
           /\ orders[o] # "NONE"
           /\ At(h, "arrive")' => call'[h].status = orders[o],
         \/ ~Announcing(h)
         \/ At(h, "send") /\ call[h].todo = {}
         \/ \A b \in Browsers, o \in Oids : o \in Affects(h) => <<b, o>> \in raced'
  PROVE  Rest'
<1>1. \A o \in Oids : ~Tells(h, o)'
  BY DEF Tells
<1>2. \A b \in Browsers, o \in Oids : Unraced(b, o)' /\ Telling(h, b, o) => FALSE
  BY DEF Unraced, Telling, Tells, Announcing, Affects, At
<1>3. \A c \in Conns, o \in Oids : Unraced(c[1], o)' =>
        ~UpdatingBy(h, c, o) /\ ~ClosingForBy(h, c) /\ ~ClosingBy(h)
  BY ConnFacts DEF Unraced, UpdatingBy, ClosingForBy, ClosingBy, Announcing, Affects, At
<1>4. \A b \in Browsers, o \in Oids : Unraced(b, o)' =>
        ~ClosingBy(h) /\ \A c : ~ClosingForBy(h, c)
  BY DEF Unraced, ClosingForBy, ClosingBy, Announcing, Affects, At
<1>5. \A b \in Browsers, o \in Oids : Names(h, o)' /\ MayTell(h, b)' => call'[h].status = orders[o]
  BY DEF MayTell, At
<1>6. \A o \in Oids : Names(h, o)' => orders[o] # "NONE"
  OBVIOUS
<1> QED BY <1>1, <1>2, <1>3, <1>4, <1>5, <1>6, HandlerStep

\* What a handler's step makes of its record.
LEMMA GotoFacts ==
  ASSUME TypeOK, NEW h \in Calls, NEW pc \in CallPcs, Goto(h, pc)
  PROVE  /\ call'[h].pc = pc
         /\ call'[h].kind = call[h].kind /\ call'[h].oid = call[h].oid
         /\ call'[h].status = call[h].status /\ call'[h].from = call[h].from
         /\ call'[h].todo = call[h].todo /\ call'[h].dead = call[h].dead
         /\ \A g \in Calls \ {h} : call'[g] = call[g]
<1>1. call[h] \in Call
  BY DEF TypeOK
<1>2. call'[h] = [call[h] EXCEPT !.pc = pc]
  BY GotoType
<1>3. \A g \in Calls \ {h} : call'[g] = call[g]
  BY DEF Goto, TypeOK
<1> QED BY <1>1, <1>2, <1>3 DEF Call

LEMMA OverFacts ==
  ASSUME TypeOK, NEW h \in Calls, NEW pc \in {"done", "failed"}, call' = [call EXCEPT ![h] = Over(h, pc)]
  PROVE  /\ call'[h].pc = pc
         /\ call'[h].kind = call[h].kind
         /\ call'[h].todo = {} /\ call'[h].dead = {}
         /\ \A g \in Calls \ {h} : call'[g] = call[g]
         /\ \A o : ~Names(h, o)'
<1>1. pc \in CallPcs
  BY DEF CallPcs
<1>2. Over(h, pc) \in Call /\ call'[h] = Over(h, pc)
  BY <1>1, OverType DEF TypeOK
<1> QED BY <1>1, <1>2, OverType DEF TypeOK, Names

\* Each handler stays at a step of its own.
LEMMA InStep ==
  ASSUME HandlersInStep, NEW h \in Calls,
         \A g \in Calls \ {h} : call'[g] = call[g],
         call'[h].kind = call[h].kind,
         call'[h].pc \in {"done", "failed"} \cup
           CASE call[h].kind = "order" -> {"session", "place", "readBack", "copy", "send",
                                           "copyStats", "sendStats", "reply"}
             [] call[h].kind = "close" -> {"session", "shut", "complete", "copy", "send"}
             [] call[h].kind = "purge" -> {"delete", "copyStats", "sendStats"}
             [] OTHER                  -> {"read", "write", "copy", "send", "copyStats",
                                           "sendStats", "reply", "arrive"}
  PROVE  HandlersInStep'
<1> SUFFICES ASSUME NEW g \in Calls
             PROVE  call'[g].pc \in {"done", "failed"} \cup
                      CASE call'[g].kind = "order" -> {"session", "place", "readBack", "copy", "send",
                                                      "copyStats", "sendStats", "reply"}
                        [] call'[g].kind = "close" -> {"session", "shut", "complete", "copy", "send"}
                        [] call'[g].kind = "purge" -> {"delete", "copyStats", "sendStats"}
                        [] OTHER                  -> {"read", "write", "copy", "send", "copyStats",
                                                      "sendStats", "reply", "arrive"}
  BY DEF HandlersInStep
<1>1. CASE g = h
  BY <1>1
<1>2. CASE g # h
  BY <1>2 DEF HandlersInStep
<1> QED BY <1>1, <1>2

\* A handler that is over has nothing to say.
LEMMA OverStep ==
  ASSUME TypeOK, Rest, NEW h \in Calls, NEW pc \in {"done", "failed"},
         call' = [call EXCEPT ![h] = Over(h, pc)],
         UNCHANGED <<orders, open, clients, serve, link, wire, load>>,
         RowsKept,
         raced \subseteq raced',
         \/ ~Announcing(h)
         \/ At(h, "send") /\ call[h].todo = {}
         \/ \A b \in Browsers, o \in Oids : o \in Affects(h) => <<b, o>> \in raced'
  PROVE  Rest'
<1>1. HandlersInStep'
  BY OverFacts, InStep DEF Rest
<1> QED BY <1>1, OverFacts, MuteStep

LEMMA FindSessionRest ==
  ASSUME TypeOK, Rest, NEW h \in Calls, FindSession(h)
  PROVE  Rest'
<1>1. UNCHANGED <<orders, open, clients, serve, link, wire, rows, load, raced>> /\ At(h, "session")
  BY DEF FindSession, db, hub, net, page
<1>2. CASE End(h)
  BY <1>1, <1>2, OverStep, SameRows DEF End, Announcing, At
<1>3. CASE ~End(h)
  <2>1. PICK pc \in {"place", "shut"} : Goto(h, pc) /\ pc = IF call[h].kind = "order" THEN "place" ELSE "shut"
    BY <1>3 DEF FindSession
  <2>2. call[h].kind \in {"order", "close"}
    BY <1>1 DEF Rest, HandlersInStep, At, TypeOK, Call
  <2>3. HandlersInStep'
    BY <2>1, <2>2, GotoFacts, InStep DEF Rest, CallPcs
  <2>4. call[h].todo = {}
    BY <1>1 DEF Rest, KeptToSend, At
  <2> QED BY <2>4, <1>1, <2>1, <2>3, GotoFacts, MuteStep, SameRows DEF CallPcs, Announcing, At, Names
<1> QED BY <1>2, <1>3
LEMMA ReadOrderRest ==
  ASSUME TypeOK, Rest, NEW h \in Calls, NEW o \in Oids, NEW target \in OrderStatus, ReadOrder(h, o, target)
  PROVE  Rest'
<1>1. UNCHANGED <<orders, open, clients, serve, link, wire, rows, load, raced>> /\ At(h, "read")
  BY DEF ReadOrder, db, hub, net, page
<1>2. CASE ~InTable(o)
  BY <1>1, <1>2, OverStep, SameRows DEF ReadOrder, End, Announcing, At
<1>3. CASE InTable(o)
  <2> DEFINE st == IF call[h].kind = "status" THEN target ELSE orders[o]
  <2>1. call' = [call EXCEPT ![h] = [call[h] EXCEPT !.pc = "write", !.oid = o, !.status = st]]
    BY <1>3 DEF ReadOrder
  <2> HIDE DEF st
  <2>2. /\ call'[h].pc = "write" /\ call'[h].oid = o /\ call'[h].kind = call[h].kind
        /\ call'[h].todo = call[h].todo /\ call'[h].dead = call[h].dead
        /\ \A g \in Calls \ {h} : call'[g] = call[g]
    BY <2>1 DEF TypeOK, Call
  <2>3. call[h].kind \in {"status", "edit"}
    BY <1>1 DEF Rest, HandlersInStep, At, TypeOK, Call, AllKinds
  <2>4. HandlersInStep'
    BY <2>2, <2>3, InStep DEF Rest
  <2>5. orders[o] # "NONE"
    BY <1>3 DEF InTable, OrderStatus
  <2>6. call[h].todo = {}
    BY <1>1 DEF Rest, KeptToSend, At
  <2> QED BY <2>6, <1>1, <2>2, <2>4, <2>5, MuteStep, SameRows DEF Announcing, At, Names
<1> QED BY <1>2, <1>3

LEMMA ReadBackRest ==
  ASSUME TypeOK, Rest, NEW h \in Calls, ReadBack(h)
  PROVE  Rest'
<1> DEFINE o == call[h].oid
<1>1. UNCHANGED <<orders, open, clients, serve, link, wire, rows, load, raced>> /\ At(h, "readBack")
  BY DEF ReadBack, db, hub, net, page
<1>2. call[h].kind = "order" /\ o \in Oids
  BY <1>1 DEF Rest, HandlersInStep, At, TypeOK, Call, AllKinds
<1>3. orders[o] # "NONE"
  BY <1>1, <1>2 DEF Rest, NothingYet, Names, At
<1>4. CASE ~InTable(o)
  <2>1. orders[o] = "DELETED"
    BY <1>2, <1>3, <1>4 DEF InTable, TypeOK
  <2>2. \A b \in Browsers, p \in Oids : p \in Affects(h) => <<b, p>> \in raced'
    BY <1>1, <1>2, <2>1 DEF Rest, PurgedIsRaced, Unraced, Affects
  <2> QED BY <1>1, <1>4, <2>2, OverStep, SameRows DEF ReadBack, End
<1>5. CASE InTable(o)
  <2>1. call' = [call EXCEPT ![h] = [call[h] EXCEPT !.pc = "copy", !.status = orders[o]]]
    BY <1>5 DEF ReadBack
  <2>2. /\ call'[h].pc = "copy" /\ call'[h].oid = o /\ call'[h].kind = call[h].kind
        /\ call'[h].todo = call[h].todo /\ call'[h].dead = call[h].dead
        /\ call'[h].status = orders[o]
        /\ \A g \in Calls \ {h} : call'[g] = call[g]
    BY <2>1 DEF TypeOK, Call
  <2>3. HandlersInStep'
    BY <1>2, <2>2, InStep DEF Rest
  <2>4. \A p \in Oids : /\ Names(h, p)' <=> p = o
                        /\ Tells(h, p)' <=> Tells(h, p)
    BY <1>1, <1>2, <2>2 DEF Names, Tells, At
  <2>5. \A b \in Browsers, p \in Oids : Telling(h, b, p) => Telling(h, b, p)'
    BY <2>2, <2>4 DEF Telling, At
  <2>6. \A c : /\ \A p : ~UpdatingBy(h, c, p)
               /\ ~ClosingForBy(h, c)
    BY <1>2 DEF UpdatingBy, ClosingForBy
  <2>7. ~ClosingBy(h)
    BY <1>2 DEF ClosingBy
  <2>8. call[h].todo = {}
    BY <1>1 DEF Rest, KeptToSend, At
  <2> HIDE DEF o
  <2> QED BY <2>8, <1>1, <1>2, <1>3, <2>2, <2>3, <2>4, <2>5, <2>6, <2>7, HandlerStep, SameRows DEF At
<1> QED BY <1>4, <1>5

LEMMA FailRest ==
  ASSUME TypeOK, Rest, NEW h \in Calls, Fail(h)
  PROVE  Rest'
<1>1. UNCHANGED <<orders, open, clients, serve, link, wire, rows, load>> /\ raced \subseteq raced'
  BY DEF Fail, db, hub, net, page
<1>2. Announcing(h) => \A b \in Browsers, o \in Oids : o \in Affects(h) => <<b, o>> \in raced'
  BY DEF Fail, Untold
<1> QED BY <1>1, <1>2, OverStep, SameRows DEF Fail, GiveUp

\* After a broadcast.
LEMMA AfterBroadcastFacts ==
  ASSUME TypeOK, HandlersInStep, NEW h \in Calls, call' = [call EXCEPT ![h] = AfterBroadcast(h)],
         call[h].pc \in {"send", "copyStats", "sendStats"}
  PROVE  /\ call'[h].kind = call[h].kind
         /\ call'[h].pc \in {"copyStats", "reply", "done"}
         /\ call'[h].todo \subseteq call[h].todo /\ call'[h].dead = {}
         /\ \A g \in Calls \ {h} : call'[g] = call[g]
         /\ \A o : ~Names(h, o)'
         /\ HandlersInStep'
<1>1. /\ call'[h] = AfterBroadcast(h)
      /\ \A g \in Calls \ {h} : call'[g] = call[g]
      /\ call[h] \in Call
  BY DEF TypeOK
<1>2. /\ AfterBroadcast(h).kind = call[h].kind
      /\ AfterBroadcast(h).pc \in {"copyStats", "reply", "done"}
      /\ AfterBroadcast(h).todo \subseteq call[h].todo
  BY AfterBroadcastType
<1>3. /\ AfterBroadcast(h).dead = {}
      /\ AfterBroadcast(h).pc = "reply" => call[h].kind \in {"order", "status", "edit"}
      /\ AfterBroadcast(h).pc = "copyStats" => call[h].kind # "close"
  <2>1. CASE At(h, "send") /\ call[h].kind # "close"
    BY <1>1, <2>1 DEF AfterBroadcast, At, Call
  <2>2. CASE ~At(h, "send") /\ call[h].kind # "purge"
    <3>1. AfterBroadcast(h) = [call[h] EXCEPT !.pc = "reply", !.dead = {}]
      BY <2>2 DEF AfterBroadcast, At
    <3>2. call[h].kind \in {"order", "status", "edit"}
      BY <1>1, <2>2 DEF HandlersInStep, At, Call, AllKinds
    <3> QED BY <1>1, <3>1, <3>2 DEF Call
  <2>3. CASE ~(At(h, "send") /\ call[h].kind # "close") /\ ~(~At(h, "send") /\ call[h].kind # "purge")
    <3>1. AfterBroadcast(h) = Over(h, "done")
      BY <2>3 DEF AfterBroadcast
    <3> QED BY <3>1, OverType DEF CallPcs
  <2> QED BY <2>1, <2>2, <2>3
<1>4. HandlersInStep'
  BY <1>1, <1>2, <1>3, InStep
<1> QED BY <1>1, <1>2, <1>3, <1>4 DEF Names

LEMMA SkipStatsRest ==
  ASSUME TypeOK, Rest, NEW h \in Calls, SkipStats(h)
  PROVE  Rest'
<1>1. /\ UNCHANGED <<orders, open, clients, serve, link, wire, rows, load, raced>>
      /\ call[h].pc = "copyStats" /\ call' = [call EXCEPT ![h] = AfterBroadcast(h)]
  BY DEF SkipStats, At, db, hub, net, page
<1>2. call[h].todo = {}
  BY <1>1 DEF Rest, KeptToSend
<1> QED BY <1>2, <1>1, AfterBroadcastFacts, MuteStep, SameRows DEF Rest, Announcing, At

LEMMA EndBroadcastRest ==
  ASSUME TypeOK, Rest, NEW h \in Calls, EndBroadcast(h)
  PROVE  Rest'
<1>1. /\ UNCHANGED <<orders, open, serve, link, wire, rows, load, raced>>
      /\ call[h].pc \in {"send", "sendStats"} /\ call[h].todo = {}
      /\ call' = [call EXCEPT ![h] = AfterBroadcast(h)]
      /\ clients' = clients \ call[h].dead
  BY DEF EndBroadcast, At, db, net, page
<1>2. \A c \in clients : link[c] = "open" => c \in clients'
  BY <1>1 DEF Rest, HubKnows, TypeOK
<1> QED BY <1>1, <1>2, AfterBroadcastFacts, MuteStep, SameRows DEF Rest, Announcing, At

LEMMA ReplyRest ==
  ASSUME TypeOK, Rest, NEW h \in Calls, Reply(h)
  PROVE  Rest'
<1> DEFINE o == call[h].oid
<1>1. UNCHANGED <<orders, open, clients, serve, link, wire, rows, load, raced>> /\ At(h, "reply")
  BY DEF Reply, db, hub, net, page
<1>2. CASE InTable(o) /\ call[h].kind = "status"
  <2>1. call' = [call EXCEPT ![h] = [call[h] EXCEPT !.pc = "arrive", !.status = orders[o]]]
    BY <1>2 DEF Reply
  <2>2. /\ call'[h].pc = "arrive" /\ call'[h].oid = o /\ call'[h].kind = call[h].kind
        /\ call'[h].todo = call[h].todo /\ call'[h].dead = call[h].dead
        /\ call'[h].status = orders[o]
        /\ \A g \in Calls \ {h} : call'[g] = call[g]
    BY <2>1 DEF TypeOK, Call
  <2>3. HandlersInStep'
    BY <1>2, <2>2, InStep DEF Rest
  <2>4. orders[o] # "NONE"
    BY <1>2 DEF InTable, OrderStatus
  <2>5. call[h].todo = {}
    BY <1>1 DEF Rest, KeptToSend, At
  <2> QED BY <2>5, <1>1, <2>2, <2>3, <2>4, MuteStep, SameRows DEF Announcing, At, Names
<1>3. CASE ~(InTable(o) /\ call[h].kind = "status")
  BY <1>1, <1>3, OverStep, SameRows DEF Reply, Announcing, At
<1> QED BY <1>2, <1>3

\* The connections a broadcast is written to are those it has to reach.
LEMMA CopyClientsRest ==
  ASSUME TypeOK, Rest, NEW h \in Calls, CopyClients(h)
  PROVE  Rest'
<1>1. UNCHANGED <<orders, open, clients, serve, link, wire, rows, load>> /\ raced \subseteq raced'
  BY DEF CopyClients, db, hub, net, page
<1>2. PICK pc \in {"send", "sendStats"} :
        /\ At(h, IF pc = "send" THEN "copy" ELSE "copyStats")
        /\ call' = [call EXCEPT ![h] = [call[h] EXCEPT !.pc = pc, !.todo = clients]]
  BY DEF CopyClients
<1>3. /\ call'[h].pc = pc /\ call'[h].oid = call[h].oid /\ call'[h].kind = call[h].kind
      /\ call'[h].todo = clients /\ call'[h].dead = call[h].dead
      /\ call'[h].status = call[h].status
      /\ \A g \in Calls \ {h} : call'[g] = call[g]
  BY <1>2 DEF TypeOK, Call
<1>4. HandlersInStep'
  BY <1>2, <1>3, InStep DEF Rest, HandlersInStep, At
<1>5. CASE pc = "sendStats"
  BY <1>1, <1>2, <1>3, <1>4, <1>5, MuteStep, SameRows DEF Announcing, At, Names
<1>6. CASE pc = "send"
  <2>1. At(h, "copy") /\ At(h, "send")' /\ raced' = raced \cup MissedBy(h)
    BY <1>2, <1>3, <1>6 DEF CopyClients, At
  <2>2. \A o \in Oids : /\ Names(h, o)' <=> Names(h, o)
                        /\ Tells(h, o)' <=> Tells(h, o)
    BY <1>3, <2>1 DEF Names, Tells, At
  <2>3. \A o \in Oids : Names(h, o)' => orders[o] # "NONE"
    BY <2>2 DEF Rest, NothingYet
  <2>4. \A b \in Browsers, o \in Oids : open /\ Unraced(b, o)' /\ Names(h, o)' => call'[h].status = orders[o]
    BY <1>1, <1>3, <2>1, <2>2 DEF Rest, UnderWayIsCurrent, MayTell, Unraced
  <2>5. \A c \in Conns : Served(c) => c \in clients /\ link[c] = "open"
    BY DEF Rest, HubKnows, Served
  <2>6. ASSUME NEW b \in Browsers, NEW o \in Oids, o \in Affects(h), Unrepeated(h), Unraced(b, o)',
               load[b].pc = "loaded"
        PROVE  \E n \in 1..MaxConns : Served(<<b, n>>)
    <3>1. <<b, o>> \notin MissedBy(h)
      BY <2>1, <2>6 DEF Unraced
    <3> QED BY <2>6, <3>1 DEF MissedBy
  <2>7. \A b \in Browsers, n \in 1..MaxConns : <<b, n>> \in Conns
    BY DEF Conns
  <2>8. ASSUME NEW b \in Browsers, NEW o \in Oids, Unraced(b, o)', load[b].pc = "loaded", Telling(h, b, o)
        PROVE  Telling(h, b, o)'
    <3>1. PICK n \in 1..MaxConns : Served(<<b, n>>)
      BY <2>6, <2>8 DEF Telling, Tells, Affects, Unrepeated
    <3>2. <<b, n>> \in clients /\ link'[<<b, n>>] = "open"
      BY <1>1, <2>5, <2>7, <3>1
    <3> QED BY <1>3, <2>2, <2>8, <3>2 DEF Telling
  <2>9. \A c \in Conns, o \in Oids : Served(c) =>
          /\ UpdatingBy(h, c, o) => UpdatingBy(h, c, o)'
          /\ ClosingBy(h) => ClosingForBy(h, c)'
    BY <1>3, <2>1, <2>5 DEF UpdatingBy, ClosingBy, ClosingForBy
  <2>10. \A c : ~ClosingForBy(h, c)
    BY <2>1 DEF ClosingForBy, At
  <2>11. \A b \in Browsers, o \in Oids : Unraced(b, o)' /\ load[b].pc = "loaded" /\ ClosingBy(h) =>
           \E n \in 1..MaxConns : Served(<<b, n>>)
    BY <2>6 DEF ClosingBy, Affects, Unrepeated
  <2>12. call'[h].kind = "close" => ~open
    BY <1>3, <2>1 DEF Rest, ClosedIsClosed, At
  <2>13. \A o \in Oids : Tells(h, o)' => Tells(h, o) /\ ~At(h, "send")
    BY <2>1, <2>2 DEF At
  <2> QED BY <1>1, <1>3, <1>4, <2>3, <2>4, <2>8, <2>9, <2>10, <2>11, <2>12, <2>13, HandlerStep, SameRows
<1> QED BY <1>5, <1>6

LEMMA FailBroadcastWriteRest ==
  ASSUME TypeOK, Rest, NEW h \in Calls, NEW c \in Conns, FailBroadcastWrite(h, c)
  PROVE  Rest'
<1>1. UNCHANGED <<orders, open, clients, serve, link, wire, rows, load, raced>> /\ link[c] = "closed"
  BY DEF FailBroadcastWrite, db, net, page
<1>2. /\ call'[h].pc = call[h].pc /\ call'[h].oid = call[h].oid /\ call'[h].kind = call[h].kind
      /\ call'[h].todo = call[h].todo \ {c} /\ call'[h].dead = call[h].dead \cup {c}
      /\ call'[h].status = call[h].status /\ call'[h].from = call[h].from
      /\ \A g \in Calls \ {h} : call'[g] = call[g]
  <2>1. call[h] \in Call
    BY DEF TypeOK
  <2>2. call' = [call EXCEPT ![h] = [call[h] EXCEPT !.todo = call[h].todo \ {c}, !.dead = call[h].dead \cup {c}]]
    BY <2>1 DEF FailBroadcastWrite
  <2> QED BY <2>1, <2>2 DEF TypeOK, Call
<1>3. HandlersInStep'
  BY <1>2 DEF Rest, HandlersInStep
<1>4. \A o \in Oids : /\ Names(h, o)' <=> Names(h, o)
                      /\ Tells(h, o)' <=> Tells(h, o)
  BY <1>2 DEF Names, Tells
<1>5. \A pc : At(h, pc)' <=> At(h, pc)
  BY <1>2 DEF At
<1>6. \A o \in Oids : Names(h, o)' => orders[o] # "NONE"
  BY <1>4 DEF Rest, NothingYet
<1>7. \A b \in Browsers, o \in Oids : open /\ Unraced(b, o)' /\ Names(h, o)' /\ MayTell(h, b)' =>
        call'[h].status = orders[o]
  BY <1>1, <1>2, <1>4, <1>5 DEF Rest, UnderWayIsCurrent, MayTell, Unraced
<1>8. \A b, o : Telling(h, b, o) => Telling(h, b, o)'
  BY <1>1, <1>2 DEF Telling, Tells, At
<1>9. \A d \in Conns : link[d] = "open" =>
        /\ \A o : UpdatingBy(h, d, o) => UpdatingBy(h, d, o)'
        /\ ClosingForBy(h, d) => ClosingForBy(h, d)'
  BY <1>1, <1>2 DEF UpdatingBy, ClosingForBy, At
<1>10. ClosingBy(h) => ClosingBy(h)'
  BY <1>2 DEF ClosingBy
<1>11. call'[h].kind = "close" /\ call'[h].pc \in {"complete", "copy", "send"} => ~open
  BY <1>2 DEF Rest, ClosedIsClosed
<1>12. \A d \in Conns : Served(d) => link[d] = "open"
  BY DEF Served
<1>13. \A b \in Browsers, n \in 1..MaxConns : <<b, n>> \in Conns
  BY DEF Conns
<1>14. call'[h].pc \notin {"send", "sendStats"} => call'[h].todo = {}
  BY <1>2 DEF Rest, KeptToSend
<1> QED BY <1>14, <1>1, <1>2, <1>3, <1>4, <1>5, <1>6, <1>7, <1>8, <1>9, <1>10, <1>11, <1>12, <1>13, HandlerStep, SameRows
------------------------------------------------------------------------------
(* Steps that write to the tables. *)

\* What is not overtaken when h changes the order o: nothing about it is under way.
LEMMA OvertakenFacts ==
  ASSUME TypeOK, KeptToSend, NEW h \in Calls, NEW os, NEW b \in Browsers, NEW o \in os,
         <<b, o>> \notin Overtaken(h, os)
  PROVE  /\ \A g \in Calls \ {h} : ~(Names(g, o) /\ MayTell(g, b)) /\ ~Tells(g, o)
         /\ \A n \in 1..MaxConns : \A e \in serve[<<b, n>>].snapshot : e.oid # o
         /\ load[b].pc # "answered"
<1>1. /\ load[b].pc # "answered"
      /\ \A n \in 1..MaxConns : serve[<<b, n>>].pc # "orders"
      /\ \A g \in Calls \ {h} : o \in Affects(g) => /\ ~Announcing(g)
                                                    /\ At(g, "arrive") => call[g].from # b
  BY DEF Overtaken
<1>2. \A n \in 1..MaxConns : serve[<<b, n>>].snapshot = {}
  BY <1>1 DEF KeptToSend, Conns
<1>3. \A g \in Calls : Names(g, o) \/ Tells(g, o) => o \in Affects(g)
  BY DEF Names, Tells, Affects
<1> QED BY <1>1, <1>2, <1>3 DEF Announcing, MayTell, Tells, At

\* A step of a handler that has not announced anything yet.  An order it changes
\* is new, or about to be announced, and nothing older about it is under way.
LEMMA TableStep ==
  ASSUME TypeOK, Rest, NEW h \in Calls,
         UNCHANGED <<open, clients, serve, link, wire, rows, load>>,
         raced \subseteq raced',
         \A g \in Calls \ {h} : call'[g] = call[g],
         call'[h].kind = call[h].kind,
         call'[h].todo = call[h].todo,
         call'[h].dead = call[h].dead,
         HandlersInStep',
         call'[h].pc \notin {"send", "sendStats"} => call'[h].todo = {},
         call[h].pc \notin {"readBack", "copy", "send"},
         \A p \in Oids : orders'[p] = "NONE" => orders[p] = "NONE" /\ ~Names(h, p)',
         \A p \in Oids : Tells(h, p)' => orders[p] = "NONE",
         \A b \in Browsers, p \in Oids :
           orders'[p] = "DELETED" => orders[p] = "DELETED" \/ ~Unraced(b, p)',
         \A b \in Browsers, p \in Oids : open /\ Unraced(b, p)' =>
           /\ Names(h, p)' /\ MayTell(h, b)' => call'[h].status = orders'[p]
           /\ InTable(p)' => InTable(p) \/ (Tells(h, p)' /\ ~At(h, "send")')
           /\ orders'[p] # orders[p] =>
                /\ \A g \in Calls \ {h} : ~(Names(g, p) /\ MayTell(g, b))
                /\ \A n \in 1..MaxConns : \A e \in serve[<<b, n>>].snapshot : e.oid # p
                /\ load[b].pc # "answered"
                /\ orders[p] = "NONE" \/ \A c \in Conns : UpdatingBy(h, c, p)',
         ~open => \A b \in Browsers, p \in Oids : Unraced(b, p)' => ~Tells(h, p)',
         call'[h].kind = "close" /\ call'[h].pc \in {"complete", "copy", "send"} => ~open,
         ClosingBy(h) => ClosingBy(h)'
  PROVE  Rest'
<1>1. OneAfterTheOther' /\ KeptToSend'
  BY DEF Rest, OneAfterTheOther, KeptToSend
<1>2. HubKnows'
  BY DEF Rest, HubKnows, Served
<1>3. \A g \in Calls \ {h}, p \in Oids : Tells(g, p)' <=> Tells(g, p)
  BY DEF Tells
<1>4. \A p \in Oids : ~Tells(h, p)
  BY DEF Tells
<1>5. \A p \in Oids : Tells(h, p)' => \A g \in Calls : ~Tells(g, p)
  <2>1. \A g \in Calls, p \in Oids : Tells(g, p) => Names(g, p)
    BY DEF Tells, Names
  <2> QED BY <2>1 DEF Rest, NothingYet
<1>6. OneTells'
  BY <1>3, <1>4, <1>5 DEF Rest, OneTells
<1>7. NothingYet'
  BY DEF Rest, NothingYet, Names, IsAbout
<1>8. \A c \in Conns, p \in Oids : \A i \in DOMAIN wire[c] : IsNew(c, i, p) => orders[p] # "NONE"
  BY DEF Rest, NothingYet, IsNew, IsAbout
<1>9. ToldOnce'
  <2>1. \A c \in Conns, p \in Oids : \A i \in DOMAIN wire[c] : IsNew(c, i, p)' <=> IsNew(c, i, p)
    BY DEF IsNew
  <2>2. \A c \in Conns, p \in Oids : \A i \in DOMAIN wire[c] : IsNew(c, i, p) => ~Tells(h, p)'
    BY <1>8
  <2> QED BY <1>3, <2>1, <2>2 DEF Rest, ToldOnce, At
<1>10. \A g \in Calls \ {h} : \A b, p : Telling(g, b, p)' <=> Telling(g, b, p)
  BY DEF Telling, Tells, At
<1>11. \A b, p : NewOnWire(b, p)' <=> NewOnWire(b, p)
  BY DEF NewOnWire, IsNew
<1>12. \A b \in Browsers, p \in Oids : MayLearn(b, p)' => MayLearn(b, p) \/ orders[p] = "NONE"
  <2>1. \A b : \A p \in Oids : Telling(h, b, p)' => orders[p] = "NONE"
    BY DEF Telling
  <2> QED BY <1>10, <1>11, <2>1, ByCalls, ByCallsNext
<1>13. \A b \in Browsers, p \in Oids : MayLearn(b, p) => MayLearn(b, p)'
  <2>1. \A b : \A p \in Oids : ~Telling(h, b, p)
    BY <1>4 DEF Telling
  <2> QED BY <1>10, <1>11, <2>1, ByCalls, ByCallsNext
<1>14. RowsCounted'
  <2>1. \A b \in Browsers, p \in Oids : orders[p] = "NONE" => Len(rows[b][p]) = 0
    BY DEF Rest, NothingYet
  <2> QED BY <1>12, <2>1 DEF Rest, RowsCounted
<1>15. \A b \in Browsers, p \in Oids : Unraced(b, p)' => Unraced(b, p)
  BY DEF Unraced
<1>16. PurgedIsRaced'
  BY <1>15 DEF Rest, PurgedIsRaced
<1>17. UnderWayIsCurrent'
  <2> SUFFICES ASSUME NEW b \in Browsers, NEW p \in Oids, open, Unraced(b, p)'
               PROVE  /\ \A g \in Calls : Names(g, p)' /\ MayTell(g, b)' => call'[g].status = orders'[p]
                      /\ \A n \in 1..MaxConns : \A e \in serve[<<b, n>>].snapshot :
                           e.oid = p => e.status = orders'[p]
                      /\ load[b].pc = "answered" =>
                           \A st \in OrderStatus :
                             [oid |-> p, status |-> st] \in load[b].list <=> orders'[p] = st
    BY DEF UnderWayIsCurrent
  <2>1. \A g \in Calls \ {h} : /\ Names(g, p)' <=> Names(g, p)
                               /\ MayTell(g, b)' <=> MayTell(g, b)
    BY DEF Names, MayTell, At
  <2> QED BY <1>15, <2>1 DEF Rest, UnderWayIsCurrent
<1>18. ClosedIsClosed'
  <2>1. \A g \in Calls : call'[g].kind = "close" /\ call'[g].pc \in {"complete", "copy", "send"} => ~open
    BY DEF Rest, ClosedIsClosed
  <2>2. \A c \in Conns : \A i \in DOMAIN wire[c] : IsEnd(c, i)' <=> IsEnd(c, i)
    BY DEF IsEnd
  <2> QED BY <1>3, <1>15, <2>1, <2>2 DEF Rest, ClosedIsClosed
<1>19. \A c \in Conns, p \in Oids : Updating(c, p) => Updating(c, p)'
  <2>1. \A c, p : ~UpdatingBy(h, c, p)
    BY DEF UpdatingBy, At
  <2>2. \A g \in Calls \ {h} : \A c, p : UpdatingBy(g, c, p)' <=> UpdatingBy(g, c, p)
    BY DEF UpdatingBy, At
  <2> QED BY <2>1, <2>2, ByCalls, ByCallsNext
<1>20. \A c \in Conns, p \in Oids : open /\ Unraced(c[1], p)' /\ orders'[p] # orders[p] =>
         Updating(c, p)' \/ orders[p] = "NONE"
  BY ConnFacts, ByCallsNext
<1>21. WiresEndRight'
  <2> SUFFICES ASSUME NEW c \in Conns, NEW p \in Oids, open, Unraced(c[1], p)', NEW i \in DOMAIN wire[c],
                      IsAbout(c, i, p), wire[c][i].status # orders'[p]
               PROVE  Updating(c, p)' \/ \E j \in DOMAIN wire[c] : i < j /\ IsUpdate(c, j, p)'
    BY DEF WiresEndRight, IsAbout
  <2>1. orders[p] # "NONE"
    BY DEF Rest, NothingYet
  <2>2. CASE orders'[p] # orders[p]
    BY <1>20, <2>1, <2>2
  <2>3. CASE orders'[p] = orders[p]
    <3>1. Updating(c, p) \/ \E j \in DOMAIN wire[c] : i < j /\ IsUpdate(c, j, p)
      BY <1>15, <2>3, ConnFacts DEF Rest, WiresEndRight
    <3>2. \A j \in DOMAIN wire[c] : IsUpdate(c, j, p) => IsUpdate(c, j, p)'
      BY <2>3 DEF IsUpdate
    <3> QED BY <1>19, <3>1, <3>2
  <2> QED BY <2>2, <2>3
<1>22. RowsEndRight'
  <2> SUFFICES ASSUME NEW c \in Conns, NEW p \in Oids, open, Unraced(c[1], p)', load[c[1]].pc = "loaded",
                      Served(c), NEW i \in DOMAIN rows[c[1]][p], rows[c[1]][p][i] # orders'[p]
               PROVE  \/ Updating(c, p)'
                      \/ \E j \in DOMAIN wire[c] : IsUpdate(c, j, p)'
                      \/ serve[c].pc \in {"session", "list", "found"}
                      \/ \E e \in serve[c].snapshot : e.oid = p
    BY DEF RowsEndRight, Served
  <2>1. rows[c[1]][p] # <<>>
    OBVIOUS
  <2>2. orders[p] # "NONE"
    BY <2>1, ConnFacts DEF Rest, NothingYet
  <2>3. CASE orders'[p] # orders[p]
    BY <1>20, <2>2, <2>3
  <2>4. CASE orders'[p] = orders[p]
    <3>1. \/ Updating(c, p)
          \/ \E j \in DOMAIN wire[c] : IsUpdate(c, j, p)
          \/ serve[c].pc \in {"session", "list", "found"}
          \/ \E e \in serve[c].snapshot : e.oid = p
      BY <1>15, <2>4, ConnFacts DEF Rest, RowsEndRight
    <3>2. \A j \in DOMAIN wire[c] : IsUpdate(c, j, p) => IsUpdate(c, j, p)'
      BY <2>4 DEF IsUpdate
    <3> QED BY <1>19, <3>1, <3>2
  <2> QED BY <2>3, <2>4
<1>23. RowsThere'
  <2> SUFFICES ASSUME NEW b \in Browsers, NEW p \in Oids, open, Unraced(b, p)', load[b].pc = "loaded",
                      InTable(p)', rows[b][p] = <<>>
               PROVE  MayLearn(b, p)'
    BY DEF RowsThere
  <2>1. CASE InTable(p)
    BY <1>13, <1>15, <2>1 DEF Rest, RowsThere
  <2>2. CASE ~InTable(p)
    <3>1. Tells(h, p)' /\ ~At(h, "send")'
      BY <2>2
    <3> QED BY <3>1, ByCallsNext DEF Telling
  <2> QED BY <2>1, <2>2
<1>24. /\ Closing => Closing'
       /\ \A c \in Conns : ClosingFor(c) => ClosingFor(c)'
  <2>1. \A c : ~ClosingForBy(h, c)
    BY DEF ClosingForBy, At
  <2>2. \A g \in Calls \ {h} : /\ ClosingBy(g) => ClosingBy(g)'
                               /\ \A c : ClosingForBy(g, c) => ClosingForBy(g, c)'
    BY DEF ClosingBy, ClosingForBy, At
  <2> QED BY <2>1, <2>2, ByCalls, ByCallsNext
<1>25. WiresEndEmpty'
  BY <1>15, <1>24, ConnFacts DEF Rest, WiresEndEmpty, IsNew, IsEnd
<1>26. RowsEndEmpty'
  <2>1. \A b \in Browsers, n \in 1..MaxConns : <<b, n>> \in Conns
    BY DEF Conns
  <2> QED BY <1>15, <1>24, <2>1 DEF Rest, RowsEndEmpty, IsEnd
<1> QED BY <1>1, <1>2, <1>6, <1>7, <1>9, <1>14, <1>16, <1>17, <1>18, <1>21, <1>22, <1>23,
           <1>25, <1>26 DEF Rest
LEMMA PlaceOrderRest ==
  ASSUME TypeOK, Rest, NEW h \in Calls, NEW o \in Oids, PlaceOrder(h, o)
  PROVE  Rest'
<1>1. /\ UNCHANGED <<open, clients, serve, link, wire, rows, load>> /\ At(h, "place")
      /\ orders' = [orders EXCEPT ![o] = "NEW"]
      /\ raced' = raced \cup (IF open THEN Overtaken(h, {o}) ELSE Untold({o}))
  BY DEF PlaceOrder, hub, net, page
<1>2. orders[o] = "NONE"
  BY DEF PlaceOrder, Oids
<1>3. call[h].kind = "order"
  BY <1>1 DEF Rest, HandlersInStep, At, TypeOK, Call, AllKinds
<1>4. call' = [call EXCEPT ![h] = [call[h] EXCEPT !.pc = "readBack", !.oid = o]]
  BY DEF PlaceOrder
<1>5. /\ call'[h].pc = "readBack" /\ call'[h].oid = o /\ call'[h].kind = call[h].kind
      /\ call'[h].todo = call[h].todo /\ call'[h].dead = call[h].dead
      /\ \A g \in Calls \ {h} : call'[g] = call[g]
  BY <1>4 DEF TypeOK, Call
<1>6. HandlersInStep'
  BY <1>3, <1>5, InStep DEF Rest
<1>7. /\ orders'[o] = "NEW"
      /\ \A p \in Oids \ {o} : orders'[p] = orders[p]
  BY <1>1 DEF TypeOK
<1>8. \A p \in Oids : /\ Names(h, p)' => p = o
                      /\ Tells(h, p)' <=> p = o
  BY <1>3, <1>5 DEF Names, Tells
<1>9. \A b : ~MayTell(h, b)'
  BY <1>5 DEF MayTell, At
<1>10. \A b \in Browsers : open /\ Unraced(b, o)' =>
         /\ \A g \in Calls \ {h} : ~(Names(g, o) /\ MayTell(g, b))
         /\ \A n \in 1..MaxConns : \A e \in serve[<<b, n>>].snapshot : e.oid # o
         /\ load[b].pc # "answered"
  <2> SUFFICES ASSUME NEW b \in Browsers, open, Unraced(b, o)'
               PROVE  /\ \A g \in Calls \ {h} : ~(Names(g, o) /\ MayTell(g, b))
                      /\ \A n \in 1..MaxConns : \A e \in serve[<<b, n>>].snapshot : e.oid # o
                      /\ load[b].pc # "answered"
    OBVIOUS
  <2>1. <<b, o>> \notin Overtaken(h, {o})
    BY <1>1 DEF Unraced
  <2> QED BY <2>1, OvertakenFacts DEF Rest
<1>11. ~open => \A b \in Browsers : ~Unraced(b, o)'
  BY <1>1 DEF Unraced, Untold
<1>12. ~At(h, "send")' /\ ~ClosingBy(h) /\ call'[h].kind # "close" /\ raced \subseteq raced'
       /\ call[h].pc = "place"
  BY <1>1, <1>3, <1>5 DEF At, ClosingBy
<1>13. call[h].todo = {}
  BY <1>1 DEF Rest, KeptToSend, At
<1>14. \A b \in Browsers, p \in Oids : open /\ Unraced(b, p)' =>
         /\ Names(h, p)' /\ MayTell(h, b)' => call'[h].status = orders'[p]
         /\ InTable(p)' => InTable(p) \/ (Tells(h, p)' /\ ~At(h, "send")')
         /\ orders'[p] # orders[p] =>
              /\ \A g \in Calls \ {h} : ~(Names(g, p) /\ MayTell(g, b))
              /\ \A n \in 1..MaxConns : \A e \in serve[<<b, n>>].snapshot : e.oid # p
              /\ load[b].pc # "answered"
              /\ orders[p] = "NONE" \/ \A c \in Conns : UpdatingBy(h, c, p)'
  BY <1>2, <1>7, <1>8, <1>9, <1>10, <1>12 DEF InTable
<1>15. ~open => \A b \in Browsers, p \in Oids : Unraced(b, p)' => ~Tells(h, p)'
  BY <1>8, <1>11
<1> QED BY <1>1, <1>2, <1>5, <1>6, <1>7, <1>8, <1>12, <1>13, <1>14, <1>15, TableStep

LEMMA WriteOrderRest ==
  ASSUME TypeOK, Rest, NEW h \in Calls, WriteOrder(h)
  PROVE  Rest'
<1>0. PICK o \in Oids : o = call[h].oid
  BY DEF TypeOK, Call
<1>1. UNCHANGED <<open, clients, serve, link, wire, rows, load>> /\ call[h].pc = "write"
  BY DEF WriteOrder, At, hub, net, page
<1>2. call[h].kind \in {"status", "edit"} /\ call[h].status \in OrderStatus
  BY <1>1 DEF Rest, HandlersInStep, TypeOK, Call, AllKinds
<1>3. orders[o] # "NONE"
  BY <1>0, <1>1, <1>2 DEF Rest, NothingYet, Names
<1>4. CASE End(h) /\ UNCHANGED <<orders, raced>>
  BY <1>1, <1>4, OverStep, SameRows DEF End, Announcing
<1>5. CASE Goto(h, "copy")
  <2>1. /\ call'[h].pc = "copy" /\ call'[h].oid = o /\ call'[h].kind = call[h].kind
        /\ call'[h].status = call[h].status
        /\ call'[h].todo = call[h].todo /\ call'[h].dead = call[h].dead
        /\ \A g \in Calls \ {h} : call'[g] = call[g]
    BY <1>0, <1>5, GotoFacts DEF CallPcs
  <2>2. HandlersInStep'
    BY <1>2, <2>1, InStep DEF Rest
  <2>3. /\ \A p \in Oids : /\ Names(h, p)' <=> p = o
                           /\ ~Tells(h, p)'
        /\ \A c : UpdatingBy(h, c, o)'
        /\ ~ClosingBy(h) /\ call'[h].kind # "close"
    BY <1>2, <2>1 DEF Names, Tells, UpdatingBy, ClosingBy, At
  <2>4. /\ \A p \in Oids \ {o} : orders'[p] = orders[p]
        /\ orders'[o] = orders[o] \/ orders'[o] = call[h].status
        /\ InTable(o) => raced' = raced \cup Overtaken(h, {o})
        /\ ~InTable(o) => orders' = orders /\ raced' = raced
        /\ InTable(o) => orders'[o] = call[h].status
        /\ raced \subseteq raced'
        /\ orders'[o] # "NONE"
    BY <1>0, <1>2, <1>3 DEF WriteOrder, TypeOK, OrderStatus
  <2>5. \A b \in Browsers : Unraced(b, o)' => InTable(o)
    <3> SUFFICES ASSUME NEW b \in Browsers, Unraced(b, o)', ~InTable(o) PROVE FALSE
      OBVIOUS
    <3>1. orders[o] = "DELETED"
      BY <1>2, <1>3 DEF InTable, TypeOK
    <3>2. Unraced(b, o)
      BY <2>4 DEF Unraced
    <3> QED BY <1>2, <3>1, <3>2 DEF Rest, PurgedIsRaced
  <2>6. \A b \in Browsers : Unraced(b, o)' =>
          /\ \A g \in Calls \ {h} : ~(Names(g, o) /\ MayTell(g, b))
          /\ \A n \in 1..MaxConns : \A e \in serve[<<b, n>>].snapshot : e.oid # o
          /\ load[b].pc # "answered"
    <3> SUFFICES ASSUME NEW b \in Browsers, Unraced(b, o)'
                 PROVE  /\ \A g \in Calls \ {h} : ~(Names(g, o) /\ MayTell(g, b))
                        /\ \A n \in 1..MaxConns : \A e \in serve[<<b, n>>].snapshot : e.oid # o
                        /\ load[b].pc # "answered"
      OBVIOUS
    <3>1. <<b, o>> \notin Overtaken(h, {o})
      BY <2>4, <2>5 DEF Unraced
    <3> QED BY <3>1, OvertakenFacts DEF Rest
  <2>7. /\ \A p \in Oids : orders'[p] = "NONE" => orders[p] = "NONE" /\ ~Names(h, p)'
        /\ \A p \in Oids : orders'[p] = "DELETED" => orders[p] = "DELETED"
    BY <1>2, <2>3, <2>4 DEF OrderStatus
  <2>8. call[h].todo = {}
    BY <1>1 DEF Rest, KeptToSend
  <2>9. \A b \in Browsers, p \in Oids : open /\ Unraced(b, p)' =>
           /\ Names(h, p)' /\ MayTell(h, b)' => call'[h].status = orders'[p]
           /\ InTable(p)' => InTable(p) \/ (Tells(h, p)' /\ ~At(h, "send")')
           /\ orders'[p] # orders[p] =>
                /\ \A g \in Calls \ {h} : ~(Names(g, p) /\ MayTell(g, b))
                /\ \A n \in 1..MaxConns : \A e \in serve[<<b, n>>].snapshot : e.oid # p
                /\ load[b].pc # "answered"
                /\ orders[p] = "NONE" \/ \A c \in Conns : UpdatingBy(h, c, p)'
    BY <2>1, <2>3, <2>4, <2>5, <2>6 DEF InTable
  <2> QED BY <1>1, <2>1, <2>2, <2>3, <2>4, <2>7, <2>8, <2>9, TableStep
<1> QED BY <1>4, <1>5 DEF WriteOrder

LEMMA PurgeOrdersRest ==
  ASSUME TypeOK, Rest, NEW h \in Calls, PurgeOrders(h)
  PROVE  Rest'
<1>1. /\ UNCHANGED <<open, clients, serve, link, wire, rows, load>> /\ call[h].pc = "delete"
      /\ Goto(h, "copyStats") /\ raced \subseteq raced'
  BY DEF PurgeOrders, At, hub, net, page
<1>2. call[h].kind = "purge"
  BY <1>1 DEF Rest, HandlersInStep, TypeOK, Call, AllKinds
<1>3. /\ call'[h].pc = "copyStats" /\ call'[h].kind = call[h].kind
      /\ call'[h].todo = call[h].todo /\ call'[h].dead = call[h].dead
      /\ \A g \in Calls \ {h} : call'[g] = call[g]
  BY <1>1, GotoFacts DEF CallPcs
<1>4. HandlersInStep'
  BY <1>2, <1>3, InStep DEF Rest
<1>5. /\ \A p \in Oids : ~Names(h, p)' /\ ~Tells(h, p)'
      /\ ~ClosingBy(h) /\ call'[h].kind # "close"
  BY <1>2, <1>3 DEF Names, Tells, ClosingBy
<1>6. \A b \in Browsers, p \in Oids : Unraced(b, p)' => ~InTable(p)
  BY DEF PurgeOrders, Untold, Unraced
<1>7. \A p \in Oids : orders'[p] = IF InTable(p) THEN "DELETED" ELSE orders[p]
  BY DEF PurgeOrders
<1>8. /\ \A p \in Oids : ~InTable(p) => orders'[p] = orders[p] /\ ~InTable(p)'
      /\ \A p \in Oids : orders'[p] = "NONE" => orders[p] = "NONE"
      /\ \A b \in Browsers, p \in Oids : orders'[p] = "DELETED" => orders[p] = "DELETED" \/ ~Unraced(b, p)'
  BY <1>6, <1>7 DEF InTable
<1>9. call[h].todo = {}
  BY <1>1 DEF Rest, KeptToSend
<1> QED BY <1>9, <1>1, <1>3, <1>4, <1>5, <1>6, <1>8, TableStep

LEMMA CompleteOrdersRest ==
  ASSUME TypeOK, Rest, NEW h \in Calls, CompleteOrders(h)
  PROVE  Rest'
<1>1. /\ UNCHANGED <<open, clients, serve, link, wire, rows, load, raced>> /\ call[h].pc = "complete"
      /\ Goto(h, "copy")
  BY DEF CompleteOrders, At, hub, net, page
<1>2. call[h].kind = "close"
  BY <1>1 DEF Rest, HandlersInStep, TypeOK, Call, AllKinds
<1>3. ~open
  BY <1>1, <1>2 DEF Rest, ClosedIsClosed
<1>4. /\ call'[h].pc = "copy" /\ call'[h].kind = call[h].kind
      /\ call'[h].todo = call[h].todo /\ call'[h].dead = call[h].dead
      /\ \A g \in Calls \ {h} : call'[g] = call[g]
  BY <1>1, GotoFacts DEF CallPcs
<1>5. HandlersInStep'
  BY <1>2, <1>4, InStep DEF Rest
<1>6. /\ \A p \in Oids : ~Names(h, p)' /\ ~Tells(h, p)'
      /\ ClosingBy(h)'
  BY <1>2, <1>4 DEF Names, Tells, ClosingBy
<1>7. \A p \in Oids : orders'[p] = IF InTable(p) THEN "COMPLETED" ELSE orders[p]
  BY DEF CompleteOrders
<1>8. /\ \A p \in Oids : orders'[p] = "NONE" => orders[p] = "NONE"
      /\ \A p \in Oids : orders'[p] = "DELETED" => orders[p] = "DELETED"
  BY <1>7
<1>9. call[h].todo = {}
  BY <1>1 DEF Rest, KeptToSend
<1> QED BY <1>9, <1>1, <1>3, <1>4, <1>5, <1>6, <1>8, TableStep

\* The end of the session races what it overtakes, and itself is announced.
LEMMA ShutSessionRest ==
  ASSUME TypeOK, Rest, NEW h \in Calls, ShutSession(h)
  PROVE  Rest'
<1>1. /\ UNCHANGED <<orders, clients, serve, link, wire, rows, load>> /\ call[h].pc = "shut"
      /\ Goto(h, "complete") /\ open' = FALSE
      /\ raced' = raced \cup Overtaken(h, Oids) \cup FoundOpen
  BY DEF ShutSession, At, hub, net, page
<1>2. call[h].kind = "close"
  BY <1>1 DEF Rest, HandlersInStep, TypeOK, Call, AllKinds
<1>3. /\ call'[h].pc = "complete" /\ call'[h].kind = call[h].kind
      /\ call'[h].todo = call[h].todo /\ call'[h].dead = call[h].dead
      /\ \A g \in Calls \ {h} : call'[g] = call[g]
  BY <1>1, GotoFacts DEF CallPcs
<1>4. HandlersInStep'
  BY <1>2, <1>3, InStep DEF Rest
<1>5. /\ \A g \in Calls, p \in Oids : /\ Names(g, p)' <=> Names(g, p)
                                      /\ Tells(g, p)' <=> Tells(g, p)
      /\ \A g \in Calls : \A b, p : Telling(g, b, p)' <=> Telling(g, b, p)
      /\ \A b, p : NewOnWire(b, p)' <=> NewOnWire(b, p)
  BY <1>1, <1>2, <1>3 DEF Names, Tells, Telling, At, NewOnWire, IsNew
<1>6. \A b, p : MayLearn(b, p)' <=> MayLearn(b, p)
  BY <1>5, ByCalls, ByCallsNext
<1>7. OneAfterTheOther' /\ KeptToSend'
  BY <1>1, <1>3 DEF Rest, OneAfterTheOther, KeptToSend
<1>8. HubKnows'
  BY <1>1, <1>3 DEF Rest, HubKnows, Served
<1>9. OneTells'
  BY <1>5 DEF Rest, OneTells
<1>10. NothingYet'
  BY <1>1, <1>5 DEF Rest, NothingYet, IsAbout
<1>11. ToldOnce'
  <2>1. \A g \in Calls, p \in Oids : Tells(g, p) => g # h
    BY <1>2 DEF Tells
  <2> QED BY <1>1, <1>3, <1>5, <2>1 DEF Rest, ToldOnce, IsNew, At
<1>12. RowsCounted'
  BY <1>1, <1>6 DEF Rest, RowsCounted
<1>13. PurgedIsRaced'
  BY <1>1 DEF Rest, PurgedIsRaced, Unraced
<1>14. UnderWayIsCurrent' /\ WiresEndRight' /\ RowsEndRight' /\ RowsThere'
  BY <1>1 DEF UnderWayIsCurrent, WiresEndRight, RowsEndRight, RowsThere
<1>15. ClosedIsClosed'
  <2> SUFFICES ASSUME NEW b \in Browsers, NEW p \in Oids, Unraced(b, p)'
               PROVE  /\ \A g \in Calls : ~Tells(g, p)
                      /\ load[b].pc # "found"
                      /\ \A e \in load[b].list : e.oid # p
    BY <1>1, <1>5 DEF ClosedIsClosed
  <2>1. <<b, p>> \notin Overtaken(h, Oids) /\ <<b, p>> \notin FoundOpen
    BY <1>1 DEF Unraced
  <2>2. /\ \A g \in Calls \ {h} : ~Tells(g, p)
        /\ load[b].pc # "answered"
    BY <2>1, OvertakenFacts DEF Rest
  <2>3. load[b].list = {}
    BY <2>2 DEF Rest, KeptToSend
  <2>4. load[b].pc # "found"
    BY <2>1 DEF FoundOpen
  <2> QED BY <1>2, <2>2, <2>3, <2>4 DEF Tells
<1>16. Closing'
  BY <1>2, <1>3 DEF Closing
<1>17. WiresEndEmpty' /\ RowsEndEmpty'
  BY <1>16 DEF WiresEndEmpty, RowsEndEmpty
<1> QED BY <1>4, <1>7, <1>8, <1>9, <1>10, <1>11, <1>12, <1>13, <1>14, <1>15, <1>17 DEF Rest

\* Replacing the statuses of an order's rows by the one it has.
LEMMA MapFacts ==
  ASSUME NEW list \in [Oids -> Seq(OrderStatus)], NEW o \in Oids, NEW status \in OrderStatus
  PROVE  /\ \A p \in Oids \ {o} : Map(list, o, status)[p] = list[p]
         /\ DOMAIN Map(list, o, status)[o] = DOMAIN list[o]
         /\ \A i \in DOMAIN list[o] : Map(list, o, status)[o][i] = status
         /\ \A p \in Oids : Map(list, o, status)[p] = <<>> <=> list[p] = <<>>
<1>1. /\ \A p \in Oids \ {o} : Map(list, o, status)[p] = list[p]
      /\ DOMAIN Map(list, o, status)[o] = DOMAIN list[o]
      /\ \A i \in DOMAIN list[o] : Map(list, o, status)[o][i] = status
  BY DEF Map
<1>2. /\ Map(list, o, status) \in [Oids -> Seq(OrderStatus)]
      /\ \A p \in Oids : Len(Map(list, o, status)[p]) = Len(list[p])
  BY MapType
<1>3. \A p \in Oids : Map(list, o, status)[p] = <<>> <=> list[p] = <<>>
  <2> DEFINE new == Map(list, o, status)
  <2> HIDE DEF new
  <2>1. \A p \in Oids : new[p] \in Seq(OrderStatus) /\ list[p] \in Seq(OrderStatus) /\ Len(new[p]) = Len(list[p])
    BY <1>2 DEF new
  <2>2. \A p \in Oids : (new[p] = <<>> <=> Len(new[p]) = 0) /\ (list[p] = <<>> <=> Len(list[p]) = 0)
    BY <2>1, EmptySeq
  <2> QED BY <2>1, <2>2 DEF new
<1> QED BY <1>1, <1>3

LEMMA ArriveRest ==
  ASSUME TypeOK, Rest, NEW h \in Calls, Arrive(h)
  PROVE  Rest'
<1>0. PICK b \in Browsers, o \in Oids, st \in OrderStatus :
        b = call[h].from /\ o = call[h].oid /\ st = call[h].status
  BY DEF TypeOK, Call
<1>1. /\ UNCHANGED <<orders, open, clients, serve, link, wire, load, raced>> /\ At(h, "arrive")
      /\ call' = [call EXCEPT ![h] = Over(h, "done")]
      /\ rows' = [rows EXCEPT ![b] = Map(rows[b], o, st)]
  BY <1>0 DEF Arrive, End, db, hub, net
<1>2. call[h].kind = "status"  \/ call[h].kind = "edit"
  BY <1>1 DEF Rest, HandlersInStep, At, TypeOK, Call, AllKinds
<1>3. open /\ Unraced(b, o) => st = orders[o]
  BY <1>0, <1>1, <1>2 DEF Rest, UnderWayIsCurrent, Names, MayTell, At
<1>4. rows[b] \in [Oids -> Seq(OrderStatus)] /\ rows'[b] = Map(rows[b], o, st)
      /\ \A a \in Browsers \ {b} : rows'[a] = rows[a]
  BY <1>1 DEF TypeOK
<1>5. RowsKept
  <2>1. \A a \in Browsers \ {b} : \A p \in Oids : RowKept(a, p)
    <3>1. \A a \in Browsers \ {b} : \A p \in Oids : rows'[a][p] = rows[a][p]
      BY <1>4
    <3> QED BY <3>1 DEF RowKept
  <2>2. \A p \in Oids : RowKept(b, p)
    <3> SUFFICES ASSUME NEW p \in Oids PROVE RowKept(b, p)
      OBVIOUS
    <3>1. /\ Len(rows'[b][p]) = Len(rows[b][p])
          /\ (rows'[b][p] = <<>>) <=> (rows[b][p] = <<>>)
      <4>1. Len(rows'[b][p]) = Len(rows[b][p])
        BY <1>4, MapType
      <4>2. (rows'[b][p] = <<>>) <=> (rows[b][p] = <<>>)
        BY <1>4, MapFacts
      <4> QED BY <4>1, <4>2
    <3>2. p # o => rows'[b][p] = rows[b][p]
      BY <1>4, MapFacts
    <3>3. open /\ Unraced(b, o)' => \A i \in DOMAIN rows'[b][o] : rows'[b][o][i] = orders[o]
      BY <1>1, <1>3, <1>4, MapFacts DEF Unraced
    <3> QED BY <3>1, <3>2, <3>3 DEF RowKept
  <2> QED BY <2>1, <2>2 DEF RowsKept
<1> QED BY <1>1, <1>5, OverStep DEF Announcing, At

------------------------------------------------------------------------------
(* Steps of HandleWebSocket. *)

\* A step of the handler of c on which nothing is written that is followed here.
LEMMA ServeStep ==
  ASSUME TypeOK, Rest, NEW c \in Conns,
         UNCHANGED <<orders, open, call, link, wire, rows, load>>,
         raced \subseteq raced',
         \A d \in Conns \ {c} : serve'[d] = serve[d],
         serve[c].pc # "none",
         serve'[c].pc \notin {"none", "register"},
         clients \subseteq clients' /\ clients' \subseteq clients \cup {c},
         serve[c].pc = "register" => c \in clients',
         serve'[c].pc # "orders" => serve'[c].snapshot = {},
         \A e \in serve'[c].snapshot : \/ e \in serve[c].snapshot
                                       \/ orders[e.oid] = e.status /\ e.status \in OrderStatus,
         \A o \in Oids : open /\ Unraced(c[1], o)' /\ InTable(o) =>
           \/ serve'[c].pc \in {"session", "list", "found"}
           \/ \E e \in serve'[c].snapshot : e.oid = o
           \/ link[c] # "open"
           \/ /\ serve[c].pc \notin {"register", "session", "list", "found"}
              /\ \A e \in serve[c].snapshot : e.oid # o
  PROVE  Rest'
<1>1. OneAfterTheOther' /\ HandlersInStep' /\ OneTells'
  BY DEF Rest, OneAfterTheOther, HandlersInStep, OneTells, Tells
<1>2. HubKnows'
  BY DEF Rest, HubKnows, Served
<1>3. KeptToSend'
  BY DEF Rest, KeptToSend
<1>4. NothingYet'
  <2>1. \A o \in Oids : orders[o] = "NONE" => \A e \in serve'[c].snapshot : e.oid # o
    BY DEF Rest, NothingYet, OrderStatus
  <2> QED BY <2>1 DEF Rest, NothingYet, Names, IsAbout
<1>5. ToldOnce'
  BY DEF Rest, ToldOnce, Tells, At, IsNew
<1>6. \A b, o : MayLearn(b, o)' <=> MayLearn(b, o)
  <2>1. \A h \in Calls : \A b, o : Telling(h, b, o)' <=> Telling(h, b, o)
    BY DEF Telling, Tells, At
  <2>2. \A b, o : NewOnWire(b, o)' <=> NewOnWire(b, o)
    BY DEF NewOnWire, IsNew
  <2> QED BY <2>1, <2>2, ByCalls, ByCallsNext
<1>7. RowsCounted'
  BY <1>6 DEF Rest, RowsCounted
<1>8. \A b \in Browsers, o \in Oids : Unraced(b, o)' => Unraced(b, o)
  BY DEF Unraced
<1>9. PurgedIsRaced'
  BY <1>8 DEF Rest, PurgedIsRaced
<1>10. UnderWayIsCurrent'
  <2> SUFFICES ASSUME NEW b \in Browsers, NEW o \in Oids, open, Unraced(b, o)'
               PROVE  /\ \A h \in Calls : Names(h, o) /\ MayTell(h, b) => call[h].status = orders[o]
                      /\ \A n \in 1..MaxConns : \A e \in serve'[<<b, n>>].snapshot :
                           e.oid = o => e.status = orders[o]
                      /\ load[b].pc = "answered" =>
                           \A st \in OrderStatus : [oid |-> o, status |-> st] \in load[b].list <=> orders[o] = st
    BY DEF UnderWayIsCurrent, Names, MayTell, At
  <2>1. \A n \in 1..MaxConns : <<b, n>> \in Conns
    BY DEF Conns
  <2> QED BY <1>8, <2>1 DEF Rest, UnderWayIsCurrent
<1>11. ClosedIsClosed'
  BY <1>8 DEF Rest, ClosedIsClosed, Tells, IsEnd
<1>12. \A d, o : Updating(d, o)' <=> Updating(d, o)
  BY DEF Updating, At
<1>13. WiresEndRight'
  BY <1>8, <1>12, ConnFacts DEF Rest, WiresEndRight, IsAbout, IsUpdate
<1>14. RowsEndRight'
  <2> SUFFICES ASSUME NEW d \in Conns, NEW o \in Oids, open, Unraced(d[1], o)', load[d[1]].pc = "loaded",
                      Served(d)', NEW i \in DOMAIN rows[d[1]][o], rows[d[1]][o][i] # orders[o]
               PROVE  \/ Updating(d, o)
                      \/ \E j \in DOMAIN wire[d] : IsUpdate(d, j, o)
                      \/ serve'[d].pc \in {"session", "list", "found"}
                      \/ \E e \in serve'[d].snapshot : e.oid = o
    BY <1>12 DEF RowsEndRight, IsUpdate
  <2>1. Unraced(d[1], o)
    BY <1>8, ConnFacts
  <2>2. Served(d) =>
          \/ Updating(d, o)
          \/ \E j \in DOMAIN wire[d] : IsUpdate(d, j, o)
          \/ serve[d].pc \in {"session", "list", "found"}
          \/ \E e \in serve[d].snapshot : e.oid = o
    BY <2>1 DEF Rest, RowsEndRight
  <2>3. CASE d # c
    BY <2>2, <2>3 DEF Served
  <2>4. CASE d = c
    <3>1. rows[d[1]][o] # <<>>
      OBVIOUS
    <3>2. InTable(o)
      BY <2>1, <3>1, ConnFacts DEF Rest, NothingYet, PurgedIsRaced, TypeOK, InTable
    <3>3. CASE /\ serve[c].pc \notin {"register", "session", "list", "found"}
               /\ \A e \in serve[c].snapshot : e.oid # o
      <4>1. Served(c)
        BY <2>4, <3>3 DEF Served
      <4> QED BY <2>2, <2>4, <3>3, <4>1
    <3>4. link[c] = "open"
      BY <2>4 DEF Served
    <3> QED BY <2>4, <3>2, <3>3, <3>4
  <2> QED BY <2>3, <2>4
<1>15. RowsThere'
  BY <1>6, <1>8 DEF Rest, RowsThere, InTable
<1>16. (Closing' <=> Closing) /\ \A d : ClosingFor(d)' <=> ClosingFor(d)
  BY DEF Closing, ClosingFor, At
<1>17. WiresEndEmpty'
  BY <1>8, <1>16, ConnFacts DEF Rest, WiresEndEmpty, IsNew, IsEnd
<1>18. RowsEndEmpty'
  BY <1>8, <1>16 DEF Rest, RowsEndEmpty, IsEnd
<1> QED BY <1>1, <1>2, <1>3, <1>4, <1>5, <1>7, <1>9, <1>10, <1>11, <1>13, <1>14, <1>15,
           <1>17, <1>18 DEF Rest

\* What the step from pc to pc makes of the record of c.
LEMMA ServeFacts ==
  ASSUME TypeOK, NEW c \in Conns, NEW pc \in {"session", "found", "stats"},
         serve' = [serve EXCEPT ![c].pc = pc]
  PROVE  /\ serve'[c].pc = pc
         /\ serve'[c].snapshot = serve[c].snapshot
         /\ \A d \in Conns \ {c} : serve'[d] = serve[d]
<1>1. serve[c] \in Serve
  BY DEF TypeOK
<1>2. serve' = [serve EXCEPT ![c] = [serve[c] EXCEPT !.pc = pc]]
  OBVIOUS
<1> QED BY <1>1, <1>2 DEF TypeOK, Serve

LEMMA SetUpRest ==
  ASSUME TypeOK, Rest, NEW c \in Conns,
         Register(c) \/ ListNone(c) \/ FindSessionToList(c) \/ FailList(c)
  PROVE  Rest'
<1>1. UNCHANGED <<orders, open, call, link, wire, rows, load>> /\ raced \subseteq raced'
  BY DEF Register, ListNone, FindSessionToList, FailList, db, net, page
<1>2. PICK pc \in {"session", "found", "stats"} :
        /\ serve' = [serve EXCEPT ![c].pc = pc]
        /\ serve[c].pc \in {"register", "list", "found"}
        /\ clients \subseteq clients' /\ clients' \subseteq clients \cup {c}
        /\ serve[c].pc = "register" => c \in clients'
        /\ pc = "stats" => ~open \/ \A o \in Oids : ~Unraced(c[1], o)'
  BY DEF Register, ListNone, FindSessionToList, FailList, Unraced
<1>3. serve[c].snapshot = {}
  BY <1>2 DEF Rest, KeptToSend
<1> QED BY <1>1, <1>2, <1>3, ServeFacts, ServeStep

LEMMA ListOrdersRest ==
  ASSUME TypeOK, Rest, NEW c \in Conns, ListOrders(c)
  PROVE  Rest'
<1> DEFINE es == GetOrdersBySession
<1>1. UNCHANGED <<orders, open, call, clients, link, wire, rows, load, raced>> /\ serve[c].pc = "found"
  BY DEF ListOrders, db, net, page
<1>2. /\ serve'[c].pc = IF es = {} THEN "stats" ELSE "orders"
      /\ serve'[c].snapshot = es
      /\ \A d \in Conns \ {c} : serve'[d] = serve[d]
  BY DEF ListOrders, TypeOK
<1>3. \A e \in es : orders[e.oid] = e.status /\ e.status \in OrderStatus
  BY DEF GetOrdersBySession, Entry
<1>4. \A o \in Oids : InTable(o) => \E e \in es : e.oid = o
  <2> SUFFICES ASSUME NEW o \in Oids, InTable(o) PROVE [oid |-> o, status |-> orders[o]] \in es
    OBVIOUS
  <2> QED BY DEF GetOrdersBySession, Entry, InTable
<1> HIDE DEF es
<1> QED BY <1>1, <1>2, <1>3, <1>4, ServeStep

\* Sending the session or the statistics.
LEMMA ServeNextRest ==
  ASSUME TypeOK, Rest, NEW c \in Conns, ServeNext(c, {}), serve[c].pc \in {"session", "stats"},
         UNCHANGED <<orders, open, call, clients, link, wire, rows, load>>, raced \subseteq raced'
  PROVE  Rest'
<1>1. /\ serve'[c] = [pc |-> IF serve[c].pc = "session" THEN "list" ELSE "loop", snapshot |-> {}]
      /\ \A d \in Conns \ {c} : serve'[d] = serve[d]
  BY DEF ServeNext, TypeOK
<1>2. serve[c].snapshot = {}
  BY DEF Rest, KeptToSend
<1> QED BY <1>1, <1>2, ServeStep

LEMMA ConnectRest ==
  ASSUME TypeOK, Rest, NEW b \in Browsers, NEW n \in 1..MaxConns, Connect(b, n)
  PROVE  Rest'
<1>0. PICK c \in Conns : c = <<b, n>>
  BY DEF Conns
<1>1. UNCHANGED <<orders, open, call, clients, wire, rows, load, raced>>
  BY DEF Connect, db, page
<1>2. /\ link[c] = "none" /\ link'[c] = "open"
      /\ \A d \in Conns \ {c} : link'[d] = link[d] /\ serve'[d] = serve[d]
      /\ \A m \in 1..(n - 1) : link[<<b, m>>] = "closed"
  BY <1>0 DEF Connect, TypeOK
<1>3. serve'[c].pc = "register" /\ serve'[c].snapshot = serve[c].snapshot
  <2>1. serve' = [serve EXCEPT ![c] = [serve[c] EXCEPT !.pc = "register"]]
    BY <1>0 DEF Connect
  <2>2. serve[c] \in Serve
    BY DEF TypeOK
  <2> QED BY <2>1, <2>2 DEF TypeOK, Serve
<1>4. /\ serve[c].pc = "none" /\ serve[c].snapshot = {} /\ c \notin clients /\ wire[c] = <<>>
      /\ \A h \in Calls : c \notin call[h].todo /\ c \notin call[h].dead
  BY <1>2 DEF Rest, HubKnows, KeptToSend
<1>5. \A a \in Browsers, m \in 1..MaxConns : <<a, m>> \in Conns
  BY DEF Conns
<1>6. OneAfterTheOther'
  <2>1. ASSUME NEW a \in Browsers, NEW m \in 1..MaxConns, NEW k \in 1..MaxConns, m < k, link'[<<a, k>>] # "none"
        PROVE  link'[<<a, m>>] = "closed"
    <3>1. CASE <<a, k>> = c
      <4>1. a = b /\ k = n /\ m \in 1..(n - 1)
        BY <1>0, <2>1, <3>1
      <4>2. <<a, m>> # c
        BY <1>0, <2>1, <4>1
      <4> QED BY <1>2, <1>5, <4>1, <4>2
    <3>2. CASE <<a, k>> # c
      <4>1. link[<<a, k>>] # "none"
        BY <1>2, <1>5, <2>1, <3>2
      <4>2. link[<<a, m>>] = "closed"
        BY <2>1, <4>1 DEF Rest, OneAfterTheOther
      <4> QED BY <1>2, <1>5, <4>2
    <3> QED BY <3>1, <3>2
  <2>2. \A d \in Conns : link'[d] # "open" => wire'[d] = <<>>
    BY <1>1, <1>2 DEF Rest, OneAfterTheOther
  <2> QED BY <2>1, <2>2 DEF OneAfterTheOther
<1>7. \A d \in Conns : Served(d)' <=> Served(d)
  BY <1>2, <1>3, <1>4 DEF Served
<1>8. HubKnows'
  <2>1. \A d \in Conns : d # c \/ d = c
    OBVIOUS
  <2> QED BY <1>1, <1>2, <1>3, <1>4, <1>7 DEF Rest, HubKnows
<1>9. HandlersInStep' /\ OneTells'
  BY <1>1 DEF Rest, HandlersInStep, OneTells, Tells
<1>10. KeptToSend'
  BY <1>1, <1>2, <1>3, <1>4 DEF Rest, KeptToSend
<1>11. \A d \in Conns : serve'[d].snapshot = serve[d].snapshot
  BY <1>2, <1>3
<1>12. NothingYet'
  BY <1>1, <1>11 DEF Rest, NothingYet, Names, IsAbout
<1>13. ToldOnce'
  BY <1>1 DEF Rest, ToldOnce, Tells, At, IsNew
<1>14. \A a \in Browsers : \A o : MayLearn(a, o)' <=> MayLearn(a, o)
  <2>1. \A h \in Calls, a \in Browsers : \A o : Telling(h, a, o)' <=> Telling(h, a, o)
    BY <1>1, <1>2, <1>4, <1>5 DEF Telling, Tells, At
  <2>2. \A a, o : NewOnWire(a, o)' <=> NewOnWire(a, o)
    BY <1>1 DEF NewOnWire, IsNew
  <2> QED BY <2>1, <2>2, ByCalls, ByCallsNext
<1>15. RowsCounted' /\ RowsThere' /\ PurgedIsRaced'
  BY <1>1, <1>14 DEF Rest, RowsCounted, RowsThere, PurgedIsRaced, InTable, Unraced
<1>16. UnderWayIsCurrent' /\ ClosedIsClosed'
  BY <1>1, <1>5, <1>11 DEF Rest, UnderWayIsCurrent, ClosedIsClosed, Names, MayTell, At, Unraced, Tells, IsEnd
<1>17. \A d, o : Updating(d, o)' <=> Updating(d, o)
  BY <1>1 DEF Updating, At
<1>18. WiresEndRight'
  BY <1>1, <1>17 DEF Rest, WiresEndRight, IsAbout, IsUpdate, Unraced
<1>19. RowsEndRight'
  <2>1. \A d \in Conns : Served(d) => d # c
    BY <1>2 DEF Served
  <2> QED BY <1>1, <1>2, <1>7, <1>17, <2>1 DEF Rest, RowsEndRight, IsUpdate, Unraced
<1>20. (Closing' <=> Closing) /\ \A d : ClosingFor(d)' <=> ClosingFor(d)
  BY <1>1 DEF Closing, ClosingFor, At
<1>21. WiresEndEmpty'
  BY <1>1, <1>20 DEF Rest, WiresEndEmpty, IsNew, IsEnd, Unraced
<1>22. RowsEndEmpty'
  <2>1. \A a \in Browsers, m \in 1..MaxConns : link[<<a, m>>] = "open" => link'[<<a, m>>] = "open"
    BY <1>2, <1>5
  <2> QED BY <1>1, <1>20, <2>1 DEF Rest, RowsEndEmpty, IsEnd, Unraced
<1> QED BY <1>6, <1>8, <1>9, <1>10, <1>12, <1>13, <1>15, <1>16, <1>18, <1>19, <1>21, <1>22 DEF Rest

\* What the browser of c does not miss of o when the connection is gone.
LEMMA NotMissed ==
  ASSUME NEW c \in Conns, NEW o \in Oids, <<c[1], o>> \notin MissedWith(c)
  PROVE  /\ \A h \in Calls : Unrepeated(h) /\ At(h, "send") /\ c \in call[h].todo => o \notin Affects(h)
         /\ \A i \in DOMAIN wire[c] : ~IsNew(c, i, o) /\ ~IsEnd(c, i)
<1>1. o \notin Unwritten(c) /\ o \notin Unread(c)
  BY DEF MissedWith
<1>2. \A h \in Calls : Unrepeated(h) /\ At(h, "send") /\ c \in call[h].todo => o \notin Affects(h)
  BY <1>1 DEF Unwritten
<1>3. \A i \in DOMAIN wire[c] : wire[c][i].type # "order_update" =>
        o \notin (IF wire[c][i].type = "session_closed" THEN Oids ELSE {wire[c][i].oid})
  BY <1>1 DEF Unread
<1> QED BY <1>2, <1>3 DEF IsNew, IsEnd

\* A connection is gone, with or without the handler that serves it.
LEMMA DisconnectStep ==
  ASSUME TypeOK, Rest, NEW c \in Conns, Disconnect(c), link[c] # "none",
         UNCHANGED <<orders, open, call, rows, load>>,
         \A d \in Conns \ {c} : serve'[d] = serve[d],
         \/ serve'[c] = serve[c]
         \/ /\ serve[c].pc \notin {"none", "register"}
            /\ serve'[c].pc = "gone" /\ serve'[c].snapshot = {},
         clients' \subseteq clients, clients \ {c} \subseteq clients'
  PROVE  Rest'
<1>1. /\ link'[c] = "closed" /\ wire'[c] = <<>>
      /\ \A d \in Conns \ {c} : link'[d] = link[d] /\ wire'[d] = wire[d]
      /\ raced' = raced \cup MissedWith(c)
  BY DEF Disconnect, TypeOK
<1>2. DOMAIN wire'[c] = {}
  BY <1>1, EmptySeq
<1>3. \A b \in Browsers, n \in 1..MaxConns : <<b, n>> \in Conns /\ <<b, n>>[1] = b
  BY DEF Conns
<1>4. OneAfterTheOther'
  BY <1>1, <1>3 DEF Rest, OneAfterTheOther
<1>5. HubKnows'
  BY <1>1 DEF Rest, HubKnows, Served
<1>6. HandlersInStep' /\ OneTells'
  BY DEF Rest, HandlersInStep, OneTells, Tells
<1>7. KeptToSend'
  BY DEF Rest, KeptToSend
<1>8. \A d \in Conns : \A o : \A i \in DOMAIN wire'[d] :
        /\ d # c /\ i \in DOMAIN wire[d]
        /\ IsAbout(d, i, o)' <=> IsAbout(d, i, o)
        /\ IsNew(d, i, o)' <=> IsNew(d, i, o)
        /\ IsUpdate(d, i, o)' <=> IsUpdate(d, i, o)
        /\ IsEnd(d, i)' <=> IsEnd(d, i)
  BY <1>1, <1>2 DEF IsAbout, IsNew, IsUpdate, IsEnd
<1>9. \A d \in Conns : \A e \in serve'[d].snapshot : e \in serve[d].snapshot
  OBVIOUS
<1>10. NothingYet'
  BY <1>8, <1>9 DEF Rest, NothingYet, Names
<1>11. ToldOnce'
  BY <1>8 DEF Rest, ToldOnce, Tells, At
<1>12. \A b \in Browsers : \A o : MayLearn(b, o)' => MayLearn(b, o)
  <2>1. \A h \in Calls, b \in Browsers : \A o : Telling(h, b, o)' => Telling(h, b, o)
    BY <1>1, <1>3 DEF Telling, Tells, At
  <2>2. \A b \in Browsers : \A o : NewOnWire(b, o)' => NewOnWire(b, o)
    BY <1>3, <1>8 DEF NewOnWire
  <2> QED BY <2>1, <2>2, ByCalls, ByCallsNext
<1>13. RowsCounted'
  BY <1>12 DEF Rest, RowsCounted
<1>14. \A b \in Browsers, o \in Oids : Unraced(b, o)' => Unraced(b, o)
  BY <1>1 DEF Unraced
<1>15. PurgedIsRaced'
  BY <1>14 DEF Rest, PurgedIsRaced
<1>16. UnderWayIsCurrent'
  <2> SUFFICES ASSUME NEW b \in Browsers, NEW o \in Oids, open, Unraced(b, o)'
               PROVE  /\ \A h \in Calls : Names(h, o) /\ MayTell(h, b) => call[h].status = orders[o]
                      /\ \A n \in 1..MaxConns : \A e \in serve'[<<b, n>>].snapshot :
                           e.oid = o => e.status = orders[o]
                      /\ load[b].pc = "answered" =>
                           \A st \in OrderStatus : [oid |-> o, status |-> st] \in load[b].list <=> orders[o] = st
    BY DEF UnderWayIsCurrent, Names, MayTell, At
  <2> QED BY <1>3, <1>9, <1>14 DEF Rest, UnderWayIsCurrent
<1>17. ClosedIsClosed'
  BY <1>8, <1>14 DEF Rest, ClosedIsClosed, Tells
<1>18. \A d, o : Updating(d, o)' <=> Updating(d, o)
  BY DEF Updating, At
<1>19. WiresEndRight'
  <2> SUFFICES ASSUME NEW d \in Conns, NEW o \in Oids, open, Unraced(d[1], o)', NEW i \in DOMAIN wire'[d],
                      IsAbout(d, i, o)', wire'[d][i].status # orders[o]
               PROVE  Updating(d, o)' \/ \E j \in DOMAIN wire'[d] : i < j /\ IsUpdate(d, j, o)'
    BY DEF WiresEndRight
  <2>1. d # c /\ wire'[d] = wire[d] /\ IsAbout(d, i, o) /\ Unraced(d[1], o)
    BY <1>1, <1>8, <1>14, ConnFacts
  <2>2. Updating(d, o) \/ \E j \in DOMAIN wire[d] : i < j /\ IsUpdate(d, j, o)
    BY <2>1 DEF Rest, WiresEndRight
  <2> QED BY <1>8, <1>18, <2>1, <2>2
<1>20. RowsEndRight'
  <2> SUFFICES ASSUME NEW d \in Conns, NEW o \in Oids, open, Unraced(d[1], o)', load[d[1]].pc = "loaded",
                      Served(d)', NEW i \in DOMAIN rows[d[1]][o], rows[d[1]][o][i] # orders[o]
               PROVE  \/ Updating(d, o)'
                      \/ \E j \in DOMAIN wire'[d] : IsUpdate(d, j, o)'
                      \/ serve'[d].pc \in {"session", "list", "found"}
                      \/ \E e \in serve'[d].snapshot : e.oid = o
    BY DEF RowsEndRight
  <2>1. d # c
    BY <1>1 DEF Served
  <2>2. Served(d) /\ wire'[d] = wire[d] /\ serve'[d] = serve[d] /\ Unraced(d[1], o)
    BY <1>1, <1>14, <2>1, ConnFacts DEF Served
  <2>3. \/ Updating(d, o)
        \/ \E j \in DOMAIN wire[d] : IsUpdate(d, j, o)
        \/ serve[d].pc \in {"session", "list", "found"}
        \/ \E e \in serve[d].snapshot : e.oid = o
    BY <2>2 DEF Rest, RowsEndRight
  <2> QED BY <1>8, <1>18, <2>2, <2>3
<1>21. \A o \in Oids : Unraced(c[1], o)' =>
         /\ \A h \in Calls : Unrepeated(h) /\ At(h, "send") /\ c \in call[h].todo => o \notin Affects(h)
         /\ \A i \in DOMAIN wire[c] : ~IsNew(c, i, o) /\ ~IsEnd(c, i)
  BY <1>1, NotMissed DEF Unraced
<1>22. RowsThere'
  <2> SUFFICES ASSUME NEW b \in Browsers, NEW o \in Oids, open, Unraced(b, o)', load[b].pc = "loaded",
                      InTable(o), rows[b][o] = <<>>
               PROVE  MayLearn(b, o)'
    BY DEF RowsThere, InTable
  <2>1. MayLearn(b, o)
    BY <1>14 DEF Rest, RowsThere
  <2>2. ASSUME NEW h \in Calls, Telling(h, b, o) PROVE Telling(h, b, o)'
    <3>1. CASE ~At(h, "send")
      BY <2>2, <3>1 DEF Telling, Tells, At
    <3>2. CASE At(h, "send")
      <4>1. PICK n \in 1..MaxConns : <<b, n>> \in call[h].todo /\ link[<<b, n>>] = "open"
        BY <2>2, <3>2 DEF Telling
      <4>2. o \in Affects(h) /\ Unrepeated(h)
        BY <2>2 DEF Telling, Tells, Affects, Unrepeated
      <4>3. <<b, n>> # c
        BY <1>3, <1>21, <3>2, <4>1, <4>2
      <4>4. link'[<<b, n>>] = "open"
        BY <1>1, <1>3, <4>1, <4>3
      <4> QED BY <2>2, <4>1, <4>4 DEF Telling, Tells, At
    <3> QED BY <3>1, <3>2
  <2>3. NewOnWire(b, o) => NewOnWire(b, o)'
    <3>1. \A n \in 1..MaxConns : \A i \in DOMAIN wire[<<b, n>>] : IsNew(<<b, n>>, i, o) => <<b, n>> # c
      BY <1>3, <1>21
    <3> QED BY <1>1, <1>3, <3>1 DEF NewOnWire, IsNew
  <2> QED BY <2>1, <2>2, <2>3, ByCalls, ByCallsNext
<1>23. (Closing' <=> Closing) /\ \A d : ClosingFor(d)' <=> ClosingFor(d)
  BY DEF Closing, ClosingFor, At
<1>24. WiresEndEmpty'
  <2> SUFFICES ASSUME NEW d \in Conns, NEW o \in Oids, ~open, Unraced(d[1], o)', NEW i \in DOMAIN wire'[d],
                      IsNew(d, i, o)'
               PROVE  Closing' \/ ClosingFor(d)' \/ \E j \in DOMAIN wire'[d] : i < j /\ IsEnd(d, j)'
    BY DEF WiresEndEmpty
  <2>1. d # c /\ wire'[d] = wire[d] /\ IsNew(d, i, o) /\ Unraced(d[1], o)
    BY <1>1, <1>8, <1>14, ConnFacts
  <2>2. Closing \/ ClosingFor(d) \/ \E j \in DOMAIN wire[d] : i < j /\ IsEnd(d, j)
    BY <2>1 DEF Rest, WiresEndEmpty
  <2> QED BY <1>8, <1>23, <2>1, <2>2
<1>25. RowsEndEmpty'
  <2> SUFFICES ASSUME NEW b \in Browsers, NEW o \in Oids, ~open, Unraced(b, o)', load[b].pc = "loaded",
                      rows[b][o] # <<>>, ~Closing
               PROVE  \E n \in 1..MaxConns :
                        /\ link'[<<b, n>>] = "open"
                        /\ ClosingFor(<<b, n>>)' \/ \E j \in DOMAIN wire'[<<b, n>>] : IsEnd(<<b, n>>, j)'
    BY <1>23 DEF RowsEndEmpty
  <2>1. PICK n \in 1..MaxConns :
          /\ link[<<b, n>>] = "open"
          /\ ClosingFor(<<b, n>>) \/ \E j \in DOMAIN wire[<<b, n>>] : IsEnd(<<b, n>>, j)
    BY <1>14 DEF Rest, RowsEndEmpty
  <2>2. <<b, n>> # c
    <3> SUFFICES ASSUME <<b, n>> = c PROVE FALSE
      OBVIOUS
    <3>1. c[1] = b
      BY <1>3
    <3>2. ~ClosingFor(c)
      BY <1>21, <3>1 DEF ClosingFor, Unrepeated, Affects
    <3> QED BY <1>21, <2>1, <3>1, <3>2
  <2>3. link'[<<b, n>>] = "open" /\ wire'[<<b, n>>] = wire[<<b, n>>]
    BY <1>1, <1>3, <2>1, <2>2
  <2> QED BY <1>3, <1>8, <1>23, <2>1, <2>3
<1> QED BY <1>4, <1>5, <1>6, <1>7, <1>10, <1>11, <1>13, <1>15, <1>16, <1>17, <1>19, <1>20,
           <1>22, <1>24, <1>25 DEF Rest

LEMMA BreakRest ==
  ASSUME TypeOK, Rest, NEW c \in Conns, Break(c)
  PROVE  Rest'
  BY DisconnectStep DEF Break, db, hub, page

LEMMA ServeEndRest ==
  ASSUME TypeOK, Rest, NEW c \in Conns, ServeEnd(c), serve[c].pc \notin {"none", "register"},
         UNCHANGED <<orders, open, call, rows, load>>
  PROVE  Rest'
<1>1. /\ serve'[c] = [pc |-> "gone", snapshot |-> {}]
      /\ \A d \in Conns \ {c} : serve'[d] = serve[d]
      /\ clients' = clients \ {c} /\ Disconnect(c)
  BY DEF ServeEnd, TypeOK
<1>2. link[c] # "none"
  BY DEF Rest, HubKnows
<1> QED BY <1>1, <1>2, DisconnectStep

------------------------------------------------------------------------------
(* Messages on their way. *)

\* The wire of c, with the message m behind the K that were on it.
Appended(c, m, K) ==
  /\ DOMAIN wire[c] = 1..K /\ DOMAIN wire'[c] = 1..(K + 1)
  /\ \A i \in 1..K : wire'[c][i] = wire[c][i]
  /\ wire'[c][K + 1] = m
  /\ \A d \in Conns \ {c} : wire'[d] = wire[d]

LEMMA AppendFacts ==
  ASSUME TypeOK, NEW c \in Conns, NEW m \in Message, wire' = [wire EXCEPT ![c] = @ \o <<m>>]
  PROVE  \E K \in Nat : Appended(c, m, K)
<1>1. PICK K \in Nat : K = Len(wire[c])
  BY DEF TypeOK
<1>2. wire[c] \in Seq(Message) /\ DOMAIN wire[c] = 1..K
  BY <1>1, LenProperties DEF TypeOK
<1>3. PICK t : t = wire[c] \o <<m>>
  OBVIOUS
<1>4. /\ t \in Seq(Message) /\ Len(t) = K + 1
      /\ \A i \in 1..K : t[i] = wire[c][i]
      /\ t[K + 1] = m
  BY <1>1, <1>2, <1>3
<1>5. DOMAIN t = 1..(K + 1)
  BY <1>4, LenProperties
<1>6. wire'[c] = t /\ \A d \in Conns \ {c} : wire'[d] = wire[d]
  BY <1>3 DEF TypeOK
<1> QED BY <1>2, <1>4, <1>5, <1>6 DEF Appended

\* What is on the wires then.
LEMMA AppendedFacts ==
  ASSUME TypeOK, NEW c \in Conns, NEW m \in Message, NEW K \in Nat, Appended(c, m, K)
  PROVE  /\ \A d \in Conns : \A i \in DOMAIN wire[d] :
              /\ i \in DOMAIN wire'[d] /\ wire'[d][i] = wire[d][i]
              /\ d = c => i < K + 1
         /\ \A d \in Conns : \A i \in DOMAIN wire'[d] : i \in DOMAIN wire[d] \/ (d = c /\ i = K + 1)
         /\ K + 1 \in DOMAIN wire'[c] /\ wire'[c][K + 1] = m
         /\ K + 1 \notin DOMAIN wire[c]
<1>1. \A i \in 1..(K + 1) : i \in 1..K \/ i = K + 1
  OBVIOUS
<1>2. \A i \in 1..K : i \in 1..(K + 1) /\ i < K + 1
  OBVIOUS
<1>3. K + 1 \in 1..(K + 1) /\ K + 1 \notin 1..K
  OBVIOUS
<1>4. DOMAIN wire[c] = 1..K /\ DOMAIN wire'[c] = 1..(K + 1)
  BY DEF Appended
<1>5. \A i \in DOMAIN wire[c] : i \in DOMAIN wire'[c] /\ wire'[c][i] = wire[c][i] /\ i < K + 1
  BY <1>2, <1>4 DEF Appended
<1>6. \A d \in Conns : d # c => wire'[d] = wire[d]
  BY DEF Appended
<1>7. K + 1 \in DOMAIN wire'[c] /\ wire'[c][K + 1] = m /\ K + 1 \notin DOMAIN wire[c]
  BY <1>3, <1>4 DEF Appended
<1>8. \A i \in DOMAIN wire'[c] : i \in DOMAIN wire[c] \/ i = K + 1
  BY <1>1, <1>4
<1> QED BY <1>5, <1>6, <1>7, <1>8

\* What h writes in the broadcast of its announcement.
Announcement(h) == [type   |-> CASE call[h].kind = "order" -> "order_new"
                                 [] call[h].kind = "close" -> "session_closed"
                                 [] OTHER                  -> "order_update",
                    oid    |-> call[h].oid, status |-> call[h].status]

LEMMA AnnouncementFacts ==
  ASSUME TypeOK, NEW h \in Calls, At(h, "send")
  PROVE  /\ Announcement(h) \in Message
         /\ Announcement(h).oid = call[h].oid
         /\ Announcement(h).status = call[h].status
         /\ Announcement(h).type = "order_new" <=> call[h].kind = "order"
         /\ Announcement(h).type = "session_closed" <=> call[h].kind = "close"
         /\ Announcement(h).type = "order_update" <=> call[h].kind \notin {"order", "close"}
         /\ MessageOf(h) = <<Announcement(h)>>
<1>1. call[h] \in Call
  BY DEF TypeOK
<1>2. h \notin Conns
  OBVIOUS
<1> QED BY <1>1, <1>2 DEF Announcement, Message, Call, MessageOf, At

\* h has written its announcement to c.  It goes on with the others it has to write
\* to, or is over and all it has announced is raced.
LEMMA AnnounceStep ==
  ASSUME TypeOK, Rest, NEW h \in Calls, NEW c \in Conns, NEW m \in Message, NEW K \in Nat,
         Appended(c, m, K), m = Announcement(h),
         At(h, "send"), c \in call[h].todo, link[c] = "open",
         UNCHANGED <<orders, open, clients, serve, link, rows, load>>,
         raced \subseteq raced',
         \A g \in Calls \ {h} : call'[g] = call[g],
         call'[h].kind = call[h].kind,
         HandlersInStep',
         \A d \in call'[h].dead : d \in call[h].dead,
         \/ /\ call'[h].pc = "send" /\ call'[h].oid = call[h].oid /\ call'[h].status = call[h].status
            /\ call'[h].todo = call[h].todo \ {c}
         \/ /\ call'[h].pc = "failed" /\ call'[h].todo = {}
            /\ \A b \in Browsers, o \in Oids : o \in Affects(h) => <<b, o>> \in raced'
  PROVE  Rest'
<1>1. /\ m.oid = call[h].oid /\ m.status = call[h].status
      /\ m.type = "order_new" <=> call[h].kind = "order"
      /\ m.type = "session_closed" <=> call[h].kind = "close"
      /\ m.type = "order_update" <=> call[h].kind \notin {"order", "close"}
  BY AnnouncementFacts
<1>2. \A b \in Browsers, n \in 1..MaxConns : <<b, n>> \in Conns /\ <<b, n>>[1] = b
  BY DEF Conns
<1>3. \E b \in Browsers, n \in 1..MaxConns : c = <<b, n>>
  BY ConnFacts
<1>4. /\ \A d \in Conns : \A i \in DOMAIN wire[d] :
           /\ i \in DOMAIN wire'[d] /\ wire'[d][i] = wire[d][i]
           /\ d = c => i < K + 1
      /\ \A d \in Conns : \A i \in DOMAIN wire'[d] : i \in DOMAIN wire[d] \/ (d = c /\ i = K + 1)
      /\ K + 1 \in DOMAIN wire'[c] /\ wire'[c][K + 1] = m
      /\ K + 1 \notin DOMAIN wire[c]
  BY AppendedFacts
<1>5. \A d \in Conns : \A o : \A i \in DOMAIN wire[d] :
        /\ IsAbout(d, i, o)' <=> IsAbout(d, i, o)
        /\ IsNew(d, i, o)' <=> IsNew(d, i, o)
        /\ IsUpdate(d, i, o)' <=> IsUpdate(d, i, o)
        /\ IsEnd(d, i)' <=> IsEnd(d, i)
  BY <1>4 DEF IsAbout, IsNew, IsUpdate, IsEnd
<1>6. \A o \in Oids :
        /\ IsAbout(c, K + 1, o)' => Names(h, o)
        /\ IsNew(c, K + 1, o)' <=> Tells(h, o)
        /\ IsEnd(c, K + 1)' <=> call[h].kind = "close"
  BY <1>1, <1>4 DEF IsAbout, IsNew, IsEnd, Names, Tells, At
<1>7. OneAfterTheOther'
  <2>1. \A d \in Conns : link[d] # "open" => wire'[d] = <<>>
    BY DEF Rest, OneAfterTheOther, Appended
  <2> QED BY <2>1 DEF Rest, OneAfterTheOther
<1>8. HubKnows'
  <2>1. serve[c].pc \notin {"none", "register"}
    BY DEF Rest, HubKnows
  <2>2. \A d \in Conns : serve[d].pc \in {"none", "register"} => wire'[d] = <<>>
    BY <2>1 DEF Rest, HubKnows, Appended
  <2> QED BY <2>2 DEF Rest, HubKnows, Served
<1>9. KeptToSend'
  BY DEF Rest, KeptToSend
<1>10. \A g \in Calls, o \in Oids : /\ Names(g, o)' => Names(g, o)
                                    /\ Tells(g, o)' => Tells(g, o)
  BY DEF Names, Tells, At
<1>11. OneTells'
  BY <1>10 DEF Rest, OneTells
<1>12. NothingYet'
  BY <1>4, <1>5, <1>6, <1>10 DEF Rest, NothingYet
<1>13. ToldOnce'
  <2> SUFFICES ASSUME NEW d \in Conns, NEW o \in Oids, NEW i \in DOMAIN wire'[d], IsNew(d, i, o)'
               PROVE  /\ \A j \in DOMAIN wire'[d] : IsNew(d, j, o)' => j = i
                      /\ \A g \in Calls : Tells(g, o)' => At(g, "send")' /\ d \notin call'[g].todo
    BY DEF ToldOnce
  <2>1. CASE d = c /\ Tells(h, o)
    <3>1. \A j \in DOMAIN wire[c] : ~IsNew(c, j, o)
      BY <2>1 DEF Rest, ToldOnce
    <3>2. \A g \in Calls : Tells(g, o)' => g = h
      BY <1>10, <2>1 DEF Rest, OneTells
    <3>3. Tells(h, o)' => At(h, "send")' /\ c \notin call'[h].todo
      BY DEF Tells, At
    <3> QED BY <1>4, <1>5, <2>1, <3>1, <3>2, <3>3
  <2>2. CASE ~(d = c /\ Tells(h, o))
    <3>1. \A j \in DOMAIN wire'[d] : IsNew(d, j, o)' => j \in DOMAIN wire[d] /\ IsNew(d, j, o)
      BY <1>4, <1>5, <1>6, <2>2
    <3>2. \A g \in Calls : Tells(g, o)' /\ At(g, "send") => At(g, "send")' /\ call'[g].todo \subseteq call[g].todo
      BY DEF Tells, At
    <3> QED BY <1>10, <3>1, <3>2 DEF Rest, ToldOnce
  <2> QED BY <2>1, <2>2
<1>14. \A b \in Browsers, o \in Oids : MayLearn(b, o)' => MayLearn(b, o)
  <2> SUFFICES ASSUME NEW b \in Browsers, NEW o \in Oids, MayLearn(b, o)' PROVE MayLearn(b, o)
    OBVIOUS
  <2>1. \A g \in Calls : Telling(g, b, o)' => Telling(g, b, o)
    BY DEF Telling, Tells, At
  <2>2. ASSUME NEW n \in 1..MaxConns, NEW i \in DOMAIN wire'[<<b, n>>], IsNew(<<b, n>>, i, o)'
        PROVE  NewOnWire(b, o) \/ Telling(h, b, o)
    <3>1. CASE i \in DOMAIN wire[<<b, n>>]
      BY <1>2, <1>5, <2>2, <3>1 DEF NewOnWire
    <3>2. CASE <<b, n>> = c /\ i = K + 1
      BY <1>6, <2>2, <3>2 DEF Telling
    <3> QED BY <1>2, <1>4, <3>1, <3>2
  <2>3. NewOnWire(b, o)' => NewOnWire(b, o) \/ Telling(h, b, o)
    BY <2>2 DEF NewOnWire
  <2> QED BY <2>1, <2>3, ByCalls, ByCallsNext
<1>15. RowsCounted'
  BY <1>14 DEF Rest, RowsCounted
<1>16. \A b \in Browsers, o \in Oids : Unraced(b, o)' => Unraced(b, o)
  BY DEF Unraced
<1>17. PurgedIsRaced'
  BY <1>16 DEF Rest, PurgedIsRaced
<1>18. UnderWayIsCurrent'
  <2>1. \A g \in Calls, b \in Browsers, o \in Oids : Names(g, o)' /\ MayTell(g, b)' =>
          Names(g, o) /\ MayTell(g, b) /\ call'[g].status = call[g].status
    BY DEF Names, MayTell, At
  <2> QED BY <1>16, <2>1 DEF Rest, UnderWayIsCurrent
<1>19. ClosedIsClosed'
  <2>1. \A g \in Calls : call'[g].kind = "close" /\ call'[g].pc \in {"complete", "copy", "send"} => ~open
    BY DEF Rest, ClosedIsClosed, At
  <2>2. call[h].kind = "close" => ~open
    BY DEF Rest, ClosedIsClosed, At
  <2>3. \A d \in Conns : \A i \in DOMAIN wire'[d] : IsEnd(d, i)' => ~open
    BY <1>1, <1>4, <1>5, <2>2 DEF Rest, ClosedIsClosed, IsEnd
  <2> QED BY <1>10, <1>16, <2>1, <2>3 DEF Rest, ClosedIsClosed
<1>20. \A o \in Oids : open /\ Unraced(c[1], o) /\ Names(h, o) => m.status = orders[o]
  BY <1>1, ConnFacts DEF Rest, UnderWayIsCurrent, MayTell
<1>21. ASSUME NEW d \in Conns, NEW o \in Oids, open, Unraced(d[1], o)', Updating(d, o)
       PROVE  Updating(d, o)' \/ (d = c /\ IsUpdate(c, K + 1, o)')
  <2>1. PICK g \in Calls : UpdatingBy(g, d, o)
    BY <1>21, ByCalls
  <2>2. CASE g # h
    <3>1. UpdatingBy(g, d, o)'
      BY <2>1, <2>2 DEF UpdatingBy, At
    <3> QED BY <3>1, ByCallsNext
  <2>3. CASE g = h
    <3>1. call'[h].pc = "send" /\ call'[h].oid = call[h].oid /\ call'[h].todo = call[h].todo \ {c}
      BY <1>21, <2>1, <2>3, ConnFacts DEF UpdatingBy, Affects, Unraced
    <3>2. CASE d # c
      <4>1. UpdatingBy(h, d, o)'
        BY <2>1, <2>3, <3>1, <3>2 DEF UpdatingBy, At
      <4> QED BY <4>1, ByCallsNext
    <3>3. CASE d = c
      <4>1. Names(h, o) /\ m.type = "order_update"
        BY <1>1, <2>1, <2>3 DEF UpdatingBy, Names, At
      <4>2. m.status = orders[o]
        BY <1>16, <1>20, <1>21, <3>3, <4>1, ConnFacts
      <4> QED BY <1>1, <1>4, <3>3, <4>1, <4>2 DEF IsUpdate, Names
    <3> QED BY <3>2, <3>3
  <2> QED BY <2>2, <2>3
<1>22. WiresEndRight'
  <2> SUFFICES ASSUME NEW d \in Conns, NEW o \in Oids, open, Unraced(d[1], o)', NEW i \in DOMAIN wire'[d],
                      IsAbout(d, i, o)', wire'[d][i].status # orders[o]
               PROVE  Updating(d, o)' \/ \E j \in DOMAIN wire'[d] : i < j /\ IsUpdate(d, j, o)'
    BY DEF WiresEndRight
  <2>1. Unraced(d[1], o)
    BY <1>16, ConnFacts
  <2>2. CASE d = c /\ i = K + 1
    BY <1>4, <1>6, <1>20, <2>1, <2>2
  <2>3. CASE i \in DOMAIN wire[d]
    <3>1. Updating(d, o) \/ \E j \in DOMAIN wire[d] : i < j /\ IsUpdate(d, j, o)
      BY <1>4, <1>5, <2>1, <2>3 DEF Rest, WiresEndRight
    <3>2. d = c => i < K + 1
      BY <1>4, <2>3
    <3>3. CASE Updating(d, o)
      BY <1>4, <1>21, <3>2, <3>3
    <3>4. CASE \E j \in DOMAIN wire[d] : i < j /\ IsUpdate(d, j, o)
      BY <1>4, <1>5, <3>4
    <3> QED BY <3>1, <3>3, <3>4
  <2> QED BY <1>4, <2>2, <2>3
<1>23. RowsEndRight'
  <2> SUFFICES ASSUME NEW d \in Conns, NEW o \in Oids, open, Unraced(d[1], o)', load[d[1]].pc = "loaded",
                      Served(d), NEW i \in DOMAIN rows[d[1]][o], rows[d[1]][o][i] # orders[o]
               PROVE  \/ Updating(d, o)'
                      \/ \E j \in DOMAIN wire'[d] : IsUpdate(d, j, o)'
                      \/ serve[d].pc \in {"session", "list", "found"}
                      \/ \E e \in serve[d].snapshot : e.oid = o
    BY DEF RowsEndRight, Served
  <2>1. Unraced(d[1], o)
    BY <1>16, ConnFacts
  <2>2. \/ Updating(d, o)
        \/ \E j \in DOMAIN wire[d] : IsUpdate(d, j, o)
        \/ serve[d].pc \in {"session", "list", "found"}
        \/ \E e \in serve[d].snapshot : e.oid = o
    BY <2>1 DEF Rest, RowsEndRight
  <2> QED BY <1>4, <1>5, <1>21, <2>2
<1>24. RowsThere'
  <2> SUFFICES ASSUME NEW b \in Browsers, NEW o \in Oids, open, Unraced(b, o)', load[b].pc = "loaded",
                      InTable(o), rows[b][o] = <<>>
               PROVE  MayLearn(b, o)'
    BY DEF RowsThere, InTable
  <2>1. MayLearn(b, o)
    BY <1>16 DEF Rest, RowsThere
  <2>2. NewOnWire(b, o) => NewOnWire(b, o)'
    BY <1>2, <1>4, <1>5 DEF NewOnWire
  <2>3. \A g \in Calls \ {h} : Telling(g, b, o) => Telling(g, b, o)'
    BY DEF Telling, Tells, At
  <2>4. ASSUME Telling(h, b, o) PROVE Telling(h, b, o)' \/ NewOnWire(b, o)'
    <3>1. /\ Tells(h, o)
          /\ call'[h].pc = "send" /\ call'[h].oid = call[h].oid /\ call'[h].todo = call[h].todo \ {c}
      BY <2>4 DEF Telling, Tells, Affects, Unraced
    <3>2. PICK n \in 1..MaxConns : <<b, n>> \in call[h].todo /\ link[<<b, n>>] = "open"
      BY <2>4 DEF Telling
    <3>3. CASE <<b, n>> = c
      BY <1>4, <1>6, <3>1, <3>3 DEF NewOnWire
    <3>4. CASE <<b, n>> # c
      BY <3>1, <3>2, <3>4 DEF Telling, Tells, At
    <3> QED BY <3>3, <3>4
  <2> QED BY <2>1, <2>2, <2>3, <2>4, ByCalls, ByCallsNext
<1>25. Closing => Closing'
  <2>1. ~ClosingBy(h)
    BY DEF ClosingBy, At
  <2>2. \A g \in Calls \ {h} : ClosingBy(g) => ClosingBy(g)'
    BY DEF ClosingBy
  <2> QED BY <2>1, <2>2, ByCalls, ByCallsNext
<1>26. ASSUME NEW d \in Conns, NEW o \in Oids, Unraced(d[1], o)', ClosingFor(d)
       PROVE  ClosingFor(d)' \/ (d = c /\ IsEnd(c, K + 1)')
  <2>1. PICK g \in Calls : ClosingForBy(g, d)
    BY <1>26, ByCalls
  <2>2. CASE g # h
    <3>1. ClosingForBy(g, d)'
      BY <2>1, <2>2 DEF ClosingForBy, At
    <3> QED BY <3>1, ByCallsNext
  <2>3. CASE g = h
    <3>1. call'[h].pc = "send" /\ call'[h].todo = call[h].todo \ {c}
      BY <1>26, <2>1, <2>3, ConnFacts DEF ClosingForBy, Affects, Unraced
    <3>2. CASE d # c
      <4>1. ClosingForBy(h, d)'
        BY <2>1, <2>3, <3>1, <3>2 DEF ClosingForBy, At
      <4> QED BY <4>1, ByCallsNext
    <3>3. CASE d = c
      BY <1>1, <1>4, <2>1, <2>3, <3>3 DEF ClosingForBy, IsEnd
    <3> QED BY <3>2, <3>3
  <2> QED BY <2>2, <2>3
<1>27. WiresEndEmpty'
  <2> SUFFICES ASSUME NEW d \in Conns, NEW o \in Oids, ~open, Unraced(d[1], o)', NEW i \in DOMAIN wire'[d],
                      IsNew(d, i, o)'
               PROVE  Closing' \/ ClosingFor(d)' \/ \E j \in DOMAIN wire'[d] : i < j /\ IsEnd(d, j)'
    BY DEF WiresEndEmpty
  <2>1. Unraced(d[1], o)
    BY <1>16, ConnFacts
  <2>2. CASE d = c /\ i = K + 1
    <3>1. Tells(h, o)
      BY <1>6, <2>2
    <3> QED BY <2>1, <3>1, ConnFacts DEF Rest, ClosedIsClosed
  <2>3. CASE i \in DOMAIN wire[d]
    <3>1. Closing \/ ClosingFor(d) \/ \E j \in DOMAIN wire[d] : i < j /\ IsEnd(d, j)
      BY <1>5, <2>1, <2>3 DEF Rest, WiresEndEmpty
    <3>2. d = c => i < K + 1
      BY <1>4, <2>3
    <3>3. CASE ClosingFor(d)
      BY <1>4, <1>26, <3>2, <3>3
    <3>4. CASE \E j \in DOMAIN wire[d] : i < j /\ IsEnd(d, j)
      BY <1>4, <1>5, <3>4
    <3> QED BY <1>25, <3>1, <3>3, <3>4
  <2> QED BY <1>4, <2>2, <2>3
<1>28. RowsEndEmpty'
  <2> SUFFICES ASSUME NEW b \in Browsers, NEW o \in Oids, ~open, Unraced(b, o)', load[b].pc = "loaded",
                      rows[b][o] # <<>>, ~Closing
               PROVE  \E n \in 1..MaxConns :
                        /\ link[<<b, n>>] = "open"
                        /\ ClosingFor(<<b, n>>)' \/ \E j \in DOMAIN wire'[<<b, n>>] : IsEnd(<<b, n>>, j)'
    BY <1>25 DEF RowsEndEmpty
  <2>1. PICK n \in 1..MaxConns :
          /\ link[<<b, n>>] = "open"
          /\ ClosingFor(<<b, n>>) \/ \E j \in DOMAIN wire[<<b, n>>] : IsEnd(<<b, n>>, j)
    BY <1>16 DEF Rest, RowsEndEmpty
  <2>2. CASE ClosingFor(<<b, n>>)
    <3>1. ClosingFor(<<b, n>>)' \/ (<<b, n>> = c /\ IsEnd(c, K + 1)')
      BY <1>2, <1>26, <2>2
    <3> QED BY <1>4, <2>1, <3>1
  <2>3. CASE \E j \in DOMAIN wire[<<b, n>>] : IsEnd(<<b, n>>, j)
    BY <1>2, <1>4, <1>5, <2>1, <2>3
  <2> QED BY <2>1, <2>2, <2>3
<1> QED BY <1>7, <1>8, <1>9, <1>11, <1>12, <1>13, <1>15, <1>17, <1>18, <1>19, <1>22, <1>23,
           <1>24, <1>27, <1>28 DEF Rest

\* The handler of c has written an order of its snapshot.
LEMMA SnapshotStep ==
  ASSUME TypeOK, Rest, NEW c \in Conns, NEW e \in serve[c].snapshot, NEW m \in Message, NEW K \in Nat,
         Appended(c, m, K), m.type = "order_update", m.oid = e.oid, m.status = e.status,
         serve[c].pc = "orders", link[c] = "open",
         UNCHANGED <<orders, open, call, clients, link, rows, load, raced>>,
         \A d \in Conns \ {c} : serve'[d] = serve[d],
         serve'[c].snapshot = {f \in serve[c].snapshot : f # e},
         serve'[c].pc = IF serve'[c].snapshot = {} THEN "stats" ELSE "orders"
  PROVE  Rest'
<1>1. \A b \in Browsers, n \in 1..MaxConns : <<b, n>> \in Conns /\ <<b, n>>[1] = b
  BY DEF Conns
<1>2. \E b \in Browsers, n \in 1..MaxConns : c = <<b, n>>
  BY ConnFacts
<1>3. /\ \A d \in Conns : \A i \in DOMAIN wire[d] :
           /\ i \in DOMAIN wire'[d] /\ wire'[d][i] = wire[d][i]
           /\ d = c => i < K + 1
      /\ \A d \in Conns : \A i \in DOMAIN wire'[d] : i \in DOMAIN wire[d] \/ (d = c /\ i = K + 1)
      /\ K + 1 \in DOMAIN wire'[c] /\ wire'[c][K + 1] = m
      /\ K + 1 \notin DOMAIN wire[c]
  BY AppendedFacts
<1>4. \A d \in Conns : \A o : \A i \in DOMAIN wire[d] :
        /\ IsAbout(d, i, o)' <=> IsAbout(d, i, o)
        /\ IsNew(d, i, o)' <=> IsNew(d, i, o)
        /\ IsUpdate(d, i, o)' <=> IsUpdate(d, i, o)
        /\ IsEnd(d, i)' <=> IsEnd(d, i)
  BY <1>3 DEF IsAbout, IsNew, IsUpdate, IsEnd
<1>5. \A o : /\ IsAbout(c, K + 1, o)' => e.oid = o
             /\ ~IsNew(c, K + 1, o)'
             /\ ~IsEnd(c, K + 1)'
  BY <1>3 DEF IsAbout, IsNew, IsEnd
<1>6. \A d \in Conns : \A f \in serve'[d].snapshot : f \in serve[d].snapshot
  OBVIOUS
<1>7. OneAfterTheOther'
  <2>1. \A d \in Conns : link[d] # "open" => wire'[d] = <<>>
    BY DEF Rest, OneAfterTheOther, Appended
  <2> QED BY <2>1 DEF Rest, OneAfterTheOther
<1>8. HubKnows'
  <2>1. serve'[c].pc \notin {"none", "register"}
    OBVIOUS
  <2>2. \A d \in Conns : serve'[d].pc \in {"none", "register"} => wire'[d] = wire[d] /\ serve'[d] = serve[d]
    BY <2>1 DEF Appended
  <2>3. \A d \in Conns : Served(d)' => Served(d)
    BY DEF Served
  <2> QED BY <2>2, <2>3 DEF Rest, HubKnows
<1>9. HandlersInStep' /\ OneTells'
  BY DEF Rest, HandlersInStep, OneTells, Tells
<1>10. KeptToSend'
  BY DEF Rest, KeptToSend
<1>11. NothingYet'
  BY <1>3, <1>4, <1>5, <1>6 DEF Rest, NothingYet, Names
<1>12. ToldOnce'
  BY <1>3, <1>4, <1>5 DEF Rest, ToldOnce, Tells, At
<1>13. \A b \in Browsers, o \in Oids : MayLearn(b, o)' <=> MayLearn(b, o)
  <2>1. \A h \in Calls : \A b, o : Telling(h, b, o)' <=> Telling(h, b, o)
    BY DEF Telling, Tells, At
  <2>2. \A b \in Browsers, o \in Oids : NewOnWire(b, o)' <=> NewOnWire(b, o)
    <3>1. \A b \in Browsers, o \in Oids : NewOnWire(b, o) => NewOnWire(b, o)'
      BY <1>1, <1>3, <1>4 DEF NewOnWire
    <3>2. \A b \in Browsers, n \in 1..MaxConns : \A o \in Oids : \A i \in DOMAIN wire'[<<b, n>>] :
            IsNew(<<b, n>>, i, o)' => i \in DOMAIN wire[<<b, n>>] /\ IsNew(<<b, n>>, i, o)
      BY <1>1, <1>3, <1>4, <1>5
    <3>3. \A b \in Browsers, o \in Oids : NewOnWire(b, o)' => NewOnWire(b, o)
      BY <3>2 DEF NewOnWire
    <3> QED BY <3>1, <3>3
  <2> QED BY <2>1, <2>2, ByCalls, ByCallsNext
<1>14. RowsCounted' /\ PurgedIsRaced' /\ RowsThere'
  BY <1>13 DEF Rest, RowsCounted, PurgedIsRaced, RowsThere, Unraced, InTable
<1>15. \A b, o : Unraced(b, o)' <=> Unraced(b, o)
  BY DEF Unraced
<1>16. UnderWayIsCurrent'
  <2> SUFFICES ASSUME NEW b \in Browsers, NEW o \in Oids, open, Unraced(b, o)
               PROVE  /\ \A h \in Calls : Names(h, o) /\ MayTell(h, b) => call[h].status = orders[o]
                      /\ \A n \in 1..MaxConns : \A f \in serve'[<<b, n>>].snapshot :
                           f.oid = o => f.status = orders[o]
                      /\ load[b].pc = "answered" =>
                           \A st \in OrderStatus : [oid |-> o, status |-> st] \in load[b].list <=> orders[o] = st
    BY <1>15 DEF UnderWayIsCurrent, Names, MayTell, At
  <2> QED BY <1>1, <1>6 DEF Rest, UnderWayIsCurrent
<1>17. ClosedIsClosed'
  <2>1. \A d \in Conns : \A i \in DOMAIN wire'[d] : IsEnd(d, i)' => ~open
    BY <1>3, <1>4, <1>5 DEF Rest, ClosedIsClosed
  <2> QED BY <1>15, <2>1 DEF Rest, ClosedIsClosed, Tells
<1>18. \A d, o : Updating(d, o)' <=> Updating(d, o)
  BY DEF Updating, At
<1>19. \A o \in Oids : open /\ Unraced(c[1], o) /\ e.oid = o => e.status = orders[o] /\ IsUpdate(c, K + 1, o)'
  <2>1. \A o \in Oids : open /\ Unraced(c[1], o) /\ e.oid = o => e.status = orders[o]
    BY ConnFacts DEF Rest, UnderWayIsCurrent
  <2> QED BY <1>3, <2>1 DEF IsUpdate
<1>20. WiresEndRight'
  <2> SUFFICES ASSUME NEW d \in Conns, NEW o \in Oids, open, Unraced(d[1], o), NEW i \in DOMAIN wire'[d],
                      IsAbout(d, i, o)', wire'[d][i].status # orders[o]
               PROVE  Updating(d, o) \/ \E j \in DOMAIN wire'[d] : i < j /\ IsUpdate(d, j, o)'
    BY <1>15, <1>18 DEF WiresEndRight
  <2>1. ~(d = c /\ i = K + 1)
    BY <1>3, <1>5, <1>19
  <2>2. i \in DOMAIN wire[d] /\ IsAbout(d, i, o) /\ wire[d][i].status # orders[o]
    BY <1>3, <1>4, <2>1
  <2>3. Updating(d, o) \/ \E j \in DOMAIN wire[d] : i < j /\ IsUpdate(d, j, o)
    BY <2>2 DEF Rest, WiresEndRight
  <2> QED BY <1>3, <1>4, <2>3
<1>21. RowsEndRight'
  <2> SUFFICES ASSUME NEW d \in Conns, NEW o \in Oids, open, Unraced(d[1], o), load[d[1]].pc = "loaded",
                      Served(d)', NEW i \in DOMAIN rows[d[1]][o], rows[d[1]][o][i] # orders[o]
               PROVE  \/ Updating(d, o)
                      \/ \E j \in DOMAIN wire'[d] : IsUpdate(d, j, o)'
                      \/ serve'[d].pc \in {"session", "list", "found"}
                      \/ \E f \in serve'[d].snapshot : f.oid = o
    BY <1>15, <1>18 DEF RowsEndRight
  <2>1. Served(d)
    BY DEF Served
  <2>2. \/ Updating(d, o)
        \/ \E j \in DOMAIN wire[d] : IsUpdate(d, j, o)
        \/ serve[d].pc \in {"session", "list", "found"}
        \/ \E f \in serve[d].snapshot : f.oid = o
    BY <2>1 DEF Rest, RowsEndRight
  <2>3. CASE \E f \in serve[d].snapshot : f.oid = o
    <3>1. PICK f \in serve[d].snapshot : f.oid = o
      BY <2>3
    <3>2. CASE d = c /\ f = e
      BY <1>3, <1>19, <3>1, <3>2
    <3>3. CASE ~(d = c /\ f = e)
      BY <3>1, <3>3
    <3> QED BY <3>2, <3>3
  <2>4. CASE serve[d].pc \in {"session", "list", "found"}
    BY <2>4
  <2> QED BY <1>3, <1>4, <2>2, <2>3, <2>4
<1>22. (Closing' <=> Closing) /\ \A d : ClosingFor(d)' <=> ClosingFor(d)
  BY DEF Closing, ClosingFor, At
<1>23. WiresEndEmpty'
  <2> SUFFICES ASSUME NEW d \in Conns, NEW o \in Oids, ~open, Unraced(d[1], o), NEW i \in DOMAIN wire'[d],
                      IsNew(d, i, o)'
               PROVE  Closing \/ ClosingFor(d) \/ \E j \in DOMAIN wire'[d] : i < j /\ IsEnd(d, j)'
    BY <1>15, <1>22 DEF WiresEndEmpty
  <2>1. i \in DOMAIN wire[d] /\ IsNew(d, i, o)
    BY <1>3, <1>4, <1>5
  <2>2. Closing \/ ClosingFor(d) \/ \E j \in DOMAIN wire[d] : i < j /\ IsEnd(d, j)
    BY <2>1 DEF Rest, WiresEndEmpty
  <2> QED BY <1>3, <1>4, <2>2
<1>24. RowsEndEmpty'
  <2> SUFFICES ASSUME NEW b \in Browsers, NEW o \in Oids, ~open, Unraced(b, o), load[b].pc = "loaded",
                      rows[b][o] # <<>>, ~Closing
               PROVE  \E n \in 1..MaxConns :
                        /\ link[<<b, n>>] = "open"
                        /\ ClosingFor(<<b, n>>) \/ \E j \in DOMAIN wire'[<<b, n>>] : IsEnd(<<b, n>>, j)'
    BY <1>15, <1>22 DEF RowsEndEmpty
  <2>1. PICK n \in 1..MaxConns :
          /\ link[<<b, n>>] = "open"
          /\ ClosingFor(<<b, n>>) \/ \E j \in DOMAIN wire[<<b, n>>] : IsEnd(<<b, n>>, j)
    BY DEF Rest, RowsEndEmpty
  <2> QED BY <1>1, <1>3, <1>4, <2>1
<1> QED BY <1>7, <1>8, <1>9, <1>10, <1>11, <1>12, <1>14, <1>16, <1>17, <1>20, <1>21, <1>23,
           <1>24 DEF Rest

\* A message that is not followed, or does not arrive.
LEMMA Unheard ==
  ASSUME TypeOK, NEW w, NEW c \in Conns, Transmit(w, c), MessageOf(w) = <<>> \/ link[c] # "open"
  PROVE  wire' = wire
<1>1. CASE link[c] # "open"
  BY <1>1 DEF Transmit
<1>2. CASE link[c] = "open"
  <2>1. wire[c] \in Seq(Message)
    BY DEF TypeOK
  <2>2. wire[c] \o <<>> = wire[c]
    BY <2>1, ConcatEmptySeq
  <2>3. wire' = [wire EXCEPT ![c] = wire[c]]
    BY <1>2, <2>2 DEF Transmit
  <2> QED BY <2>3 DEF TypeOK
<1> QED BY <1>1, <1>2

\* h is through with c: what it has announced has not reached its browser, or there
\* was nothing announced.
LEMMA TodoStep ==
  ASSUME TypeOK, Rest, NEW h \in Calls, NEW c \in Conns,
         UNCHANGED <<orders, open, clients, serve, link, wire, rows, load>>,
         raced \subseteq raced',
         call' = [call EXCEPT ![h].todo = @ \ {c}],
         \/ ~At(h, "send")
         \/ link[c] # "open"
         \/ \A o \in Affects(h) : <<c[1], o>> \in raced'
  PROVE  Rest'
<1>1. /\ call'[h].pc = call[h].pc /\ call'[h].oid = call[h].oid /\ call'[h].kind = call[h].kind
      /\ call'[h].todo = call[h].todo \ {c} /\ call'[h].dead = call[h].dead
      /\ call'[h].status = call[h].status /\ call'[h].from = call[h].from
      /\ \A g \in Calls \ {h} : call'[g] = call[g]
  <2>1. call[h] \in Call
    BY DEF TypeOK
  <2>2. call' = [call EXCEPT ![h] = [call[h] EXCEPT !.todo = call[h].todo \ {c}]]
    OBVIOUS
  <2> QED BY <2>1, <2>2 DEF TypeOK, Call
<1>2. HandlersInStep'
  BY <1>1 DEF Rest, HandlersInStep
<1>3. \A o \in Oids : /\ Names(h, o)' <=> Names(h, o)
                      /\ Tells(h, o)' <=> Tells(h, o)
  BY <1>1 DEF Names, Tells
<1>4. \A pc : At(h, pc)' <=> At(h, pc)
  BY <1>1 DEF At
<1>5. \A o \in Oids : Names(h, o)' => orders[o] # "NONE"
  BY <1>3 DEF Rest, NothingYet
<1>6. \A b \in Browsers, o \in Oids : open /\ Unraced(b, o)' /\ Names(h, o)' /\ MayTell(h, b)' =>
        call'[h].status = orders[o]
  BY <1>1, <1>3, <1>4 DEF Rest, UnderWayIsCurrent, MayTell, Unraced
<1>7. \A b \in Browsers, n \in 1..MaxConns : <<b, n>> \in Conns /\ <<b, n>>[1] = b
  BY DEF Conns
<1>8. ASSUME NEW b \in Browsers, NEW o \in Oids, Unraced(b, o)', Telling(h, b, o)
      PROVE  Telling(h, b, o)'
  <2>1. CASE ~At(h, "send")
    BY <1>3, <1>4, <1>8, <2>1 DEF Telling
  <2>2. CASE At(h, "send")
    <3>1. PICK n \in 1..MaxConns : <<b, n>> \in call[h].todo /\ link[<<b, n>>] = "open"
      BY <1>8, <2>2 DEF Telling
    <3>2. o \in Affects(h)
      BY <1>8 DEF Telling, Tells, Affects
    <3>3. <<b, n>> # c
      BY <1>7, <1>8, <2>2, <3>1, <3>2 DEF Unraced
    <3>4. Tells(h, o)'
      BY <1>3, <1>8 DEF Telling
    <3> QED BY <1>1, <3>1, <3>3, <3>4 DEF Telling
  <2> QED BY <2>1, <2>2
<1>9. \A d \in Conns, o \in Oids : Unraced(d[1], o)' /\ link[d] = "open" =>
        /\ UpdatingBy(h, d, o) => UpdatingBy(h, d, o)'
        /\ ClosingForBy(h, d) => ClosingForBy(h, d)'
  BY <1>1, ConnFacts DEF UpdatingBy, ClosingForBy, At, Unraced, Affects
<1>10. ClosingBy(h) => ClosingBy(h)'
  BY <1>1 DEF ClosingBy
<1>11. call'[h].kind = "close" /\ call'[h].pc \in {"complete", "copy", "send"} => ~open
  BY <1>1 DEF Rest, ClosedIsClosed
<1>12. \A d \in Conns : Served(d) => link[d] = "open"
  BY DEF Served
<1>13. call'[h].pc \notin {"send", "sendStats"} => call'[h].todo = {}
  BY <1>1 DEF Rest, KeptToSend
<1> QED BY <1>13, <1>1, <1>2, <1>3, <1>4, <1>5, <1>6, <1>7, <1>8, <1>9, <1>10, <1>11, <1>12, HandlerStep, SameRows

\* A broadcast is written to c.
LEMMA BroadcastWriteRest ==
  ASSUME TypeOK, Rest, NEW h \in Calls, NEW c \in Conns, Write(h, c)
  PROVE  Rest'
<1>1. /\ UNCHANGED <<orders, open, clients, serve, link, rows, load>>
      /\ call' = [call EXCEPT ![h].todo = @ \ {c}]
      /\ c \in call[h].todo
      /\ (Transmit(h, c) /\ UNCHANGED raced) \/ LoseMessage(h, c)
  BY DEF Write, Writes, MayWrite, Wants, db, page
<1>2. CASE LoseMessage(h, c)
  BY <1>1, <1>2, ConnFacts, TodoStep DEF LoseMessage
<1>3. CASE Transmit(h, c) /\ UNCHANGED raced /\ ~(At(h, "send") /\ link[c] = "open")
  <2>1. ~At(h, "send") => MessageOf(h) = <<>>
    BY DEF MessageOf, At
  <2>2. wire' = wire
    BY <1>3, <2>1, Unheard
  <2> QED BY <1>1, <1>3, <2>2, TodoStep
<1>4. CASE Transmit(h, c) /\ UNCHANGED raced /\ At(h, "send") /\ link[c] = "open"
  <2>1. PICK m \in Message : m = Announcement(h)
    BY <1>4, AnnouncementFacts
  <2>2. wire' = [wire EXCEPT ![c] = @ \o <<m>>]
    BY <1>4, <2>1, AnnouncementFacts DEF Transmit
  <2>3. PICK K \in Nat : Appended(c, m, K)
    BY <2>2, AppendFacts
  <2>4. /\ call'[h].pc = "send" /\ call'[h].oid = call[h].oid /\ call'[h].kind = call[h].kind
        /\ call'[h].todo = call[h].todo \ {c} /\ call'[h].dead = call[h].dead
        /\ call'[h].status = call[h].status
        /\ \A g \in Calls \ {h} : call'[g] = call[g]
    <3>1. call[h] \in Call
      BY DEF TypeOK
    <3>2. call' = [call EXCEPT ![h] = [call[h] EXCEPT !.todo = call[h].todo \ {c}]]
      BY <1>1
    <3> QED BY <1>4, <3>1, <3>2 DEF TypeOK, Call, At
  <2>5. HandlersInStep'
    BY <1>4, <2>4 DEF Rest, HandlersInStep, At
  <2> QED BY <1>1, <1>4, <2>1, <2>3, <2>4, <2>5, AnnounceStep
<1> QED BY <1>1, <1>2, <1>3, <1>4

\* The handler of a connection writes to it.
LEMMA ServeWriteRest ==
  ASSUME TypeOK, Rest, NEW c \in Conns, Write(c, c)
  PROVE  Rest'
<1>0. c \notin Calls
  OBVIOUS
<1>1. /\ UNCHANGED <<orders, open, call, clients, link, rows, load>>
      /\ ServeNext(c, AfterFirst(serve[c].snapshot))
      /\ Sending(c)
      /\ (Transmit(c, c) /\ UNCHANGED raced) \/ LoseMessage(c, c)
  BY <1>0 DEF Write, Writes, MayWrite, Wants, db, page
<1>2. CASE serve[c].pc # "orders"
  <2>1. serve[c].pc \in {"session", "stats"} /\ serve[c].snapshot = {}
    BY <1>1, <1>2 DEF Sending, Rest, KeptToSend
  <2>2. ServeNext(c, {})
    <3>1. AfterFirst(serve[c].snapshot) = {}
      BY <2>1 DEF AfterFirst
    <3> QED BY <1>1, <3>1
  <2>3. MessageOf(c) = <<>>
    BY <1>0, <1>2 DEF MessageOf
  <2>4. wire' = wire /\ raced \subseteq raced'
    BY <1>1, <2>3, Unheard DEF LoseMessage
  <2> QED BY <1>1, <2>1, <2>2, <2>4, ServeNextRest
<1>3. CASE serve[c].pc = "orders"
  <2>1. serve[c] \in Serve /\ serve[c].snapshot # {}
    BY <1>1, <1>3 DEF Sending, TypeOK
  <2>2. PICK e \in serve[c].snapshot : e = FirstOf(serve[c].snapshot)
    BY <2>1, FirstIsThere DEF Serve
  <2>3. AfterFirst(serve[c].snapshot) = {f \in serve[c].snapshot : f # e}
    BY <2>2 DEF AfterFirst
  <2>4. /\ serve'[c].snapshot = {f \in serve[c].snapshot : f # e}
        /\ serve'[c].pc = IF serve'[c].snapshot = {} THEN "stats" ELSE "orders"
        /\ \A d \in Conns \ {c} : serve'[d] = serve[d]
    BY <1>1, <1>3, <2>3 DEF ServeNext, TypeOK
  <2>5. CASE Transmit(c, c) /\ UNCHANGED raced /\ link[c] = "open"
    <3>1. PICK m : m = [type |-> "order_update", oid |-> e.oid, status |-> e.status]
      OBVIOUS
    <3>2. e \in Entry
      BY <2>1 DEF Serve
    <3>3. m \in Message /\ m.type = "order_update" /\ m.oid = e.oid /\ m.status = e.status
      BY <3>1, <3>2 DEF Message, Entry
    <3>4. MessageOf(c) = <<m>>
      BY <1>0, <1>3, <2>2, <3>1 DEF MessageOf
    <3>5. wire' = [wire EXCEPT ![c] = @ \o <<m>>]
      BY <2>5, <3>4 DEF Transmit
    <3>6. PICK K \in Nat : Appended(c, m, K)
      BY <3>3, <3>5, AppendFacts
    <3> QED BY <1>1, <1>3, <2>4, <2>5, <3>3, <3>6, SnapshotStep
  <2>6. CASE wire' = wire /\ raced \subseteq raced' /\ (link[c] # "open" \/ <<c[1], e.oid>> \in raced')
    <3>1. \A o \in Oids : Unraced(c[1], o)' /\ link[c] = "open" => e.oid # o
      BY <2>6 DEF Unraced
    <3>2. \A o \in Oids : Unraced(c[1], o)' /\ link[c] = "open" =>
            (\E f \in serve'[c].snapshot : f.oid = o) \/ (\A f \in serve[c].snapshot : f.oid # o)
      BY <2>4, <3>1
    <3> QED BY <1>1, <1>3, <2>4, <2>6, <3>2, ServeStep
  <2>7. Transmit(c, c) /\ link[c] # "open" => wire' = wire
    BY Unheard
  <2>8. LoseMessage(c, c) => wire' = wire /\ raced \subseteq raced' /\ <<c[1], e.oid>> \in raced'
    BY <1>0, <1>3, <2>2 DEF LoseMessage
  <2> QED BY <1>1, <2>5, <2>6, <2>7, <2>8
<1> QED BY <1>2, <1>3

LEMMA FailServeWriteRest ==
  ASSUME TypeOK, Rest, NEW c \in Conns, FailServeWrite(c)
  PROVE  Rest'
<1>0. c \notin Calls
  OBVIOUS
<1>1. UNCHANGED <<orders, open, call, rows, load>> /\ Sending(c)
  BY <1>0 DEF FailServeWrite, Writes, MayWrite, Wants, db, page
<1>2. CASE serve[c].pc = "orders"
  BY <1>1, <1>2, ServeEndRest DEF FailServeWrite
<1>3. CASE serve[c].pc # "orders"
  <2>1. serve[c].pc \in {"session", "stats"}
    BY <1>1, <1>3 DEF Sending
  <2> QED BY <1>1, <1>3, <2>1, ServeNextRest DEF FailServeWrite, net
<1> QED BY <1>2, <1>3

LEMMA PanicInServeRest ==
  ASSUME TypeOK, Rest, NEW c \in Conns, PanicInServe(c)
  PROVE  Rest'
<1>0. c \notin Calls
  OBVIOUS
<1>1. UNCHANGED <<orders, open, call, rows, load>> /\ Sending(c) /\ ServeEnd(c)
  BY <1>0 DEF PanicInServe, Writes, MayWrite, Wants, db, page
<1>2. serve[c].pc \notin {"none", "register"}
  BY <1>1 DEF Sending
<1> QED BY <1>1, <1>2, ServeEndRest

LEMMA PanicInBroadcastRest ==
  ASSUME TypeOK, Rest, NEW h \in Calls, NEW c \in Conns, PanicInBroadcast(h, c)
  PROVE  Rest'
<1>1. /\ UNCHANGED <<orders, open, clients, serve, link, rows, load>>
      /\ call' = [call EXCEPT ![h] = Over(h, "failed")]
      /\ c \in call[h].todo
      /\ Transmit(h, c) \/ wire' = wire
      /\ raced \subseteq raced'
  BY DEF PanicInBroadcast, GiveUp, Writes, MayWrite, Wants, db, page
<1>2. At(h, "send") => \A b \in Browsers, o \in Oids : o \in Affects(h) => <<b, o>> \in raced'
  BY DEF PanicInBroadcast, Untold
<1>3. CASE wire' = wire
  <2>1. call[h].pc \in {"send", "sendStats"}
    BY <1>1 DEF Rest, KeptToSend
  <2> QED BY <1>1, <1>2, <1>3, <2>1, OverStep, SameRows DEF Announcing, At
<1>4. CASE Transmit(h, c) /\ ~(At(h, "send") /\ link[c] = "open")
  <2>1. ~At(h, "send") => MessageOf(h) = <<>>
    BY DEF MessageOf, At
  <2>2. wire' = wire
    BY <1>4, <2>1, Unheard
  <2> QED BY <1>3, <2>2
<1>5. CASE Transmit(h, c) /\ At(h, "send") /\ link[c] = "open"
  <2>1. PICK m \in Message : m = Announcement(h)
    BY <1>5, AnnouncementFacts
  <2>2. wire' = [wire EXCEPT ![c] = @ \o <<m>>]
    BY <1>5, <2>1, AnnouncementFacts DEF Transmit
  <2>3. PICK K \in Nat : Appended(c, m, K)
    BY <2>2, AppendFacts
  <2>4. /\ call'[h].pc = "failed" /\ call'[h].kind = call[h].kind
        /\ call'[h].todo = {} /\ call'[h].dead = {}
        /\ \A g \in Calls \ {h} : call'[g] = call[g]
    BY <1>1, OverFacts
  <2>5. HandlersInStep'
    BY <2>4, InStep DEF Rest
  <2> QED BY <1>1, <1>2, <1>5, <2>1, <2>3, <2>4, <2>5, AnnounceStep
<1> QED BY <1>1, <1>3, <1>4, <1>5

------------------------------------------------------------------------------
(* The page. *)

\* The wire of c without the first of the K + 1 messages that were on it, m.
Taken(c, m, K) ==
  /\ DOMAIN wire[c] = 1..(K + 1) /\ DOMAIN wire'[c] = 1..K
  /\ wire[c][1] = m
  /\ \A i \in 1..K : wire'[c][i] = wire[c][i + 1]
  /\ \A d \in Conns \ {c} : wire'[d] = wire[d]

LEMMA TakeFacts ==
  ASSUME TypeOK, NEW c \in Conns, wire[c] # <<>>, wire' = [wire EXCEPT ![c] = Tail(@)]
  PROVE  \E m \in Message, K \in Nat : m = Head(wire[c]) /\ Taken(c, m, K)
<1>1. PICK s : s = wire[c]
  OBVIOUS
<1>2. s \in Seq(Message) /\ s # <<>>
  BY <1>1 DEF TypeOK
<1>3. PICK K \in Nat : Len(s) = K + 1
  <2>1. Len(s) \in Nat /\ Len(s) # 0
    BY <1>2, EmptySeq
  <2>2. Len(s) - 1 \in Nat /\ Len(s) = (Len(s) - 1) + 1
    BY <2>1
  <2> QED BY <2>2
<1>4. PICK t : t = Tail(s)
  OBVIOUS
<1>5. /\ t \in Seq(Message) /\ Len(t) = K
      /\ \A i \in 1..K : t[i] = s[i + 1]
  BY <1>2, <1>3, <1>4, HeadTailProperties
<1>6. DOMAIN s = 1..(K + 1) /\ DOMAIN t = 1..K /\ s[1] \in Message
  BY <1>2, <1>3, <1>5, LenProperties
<1>7. wire'[c] = t /\ \A d \in Conns \ {c} : wire'[d] = wire[d]
  BY <1>1, <1>4 DEF TypeOK
<1>8. Head(s) = s[1]
  BY <1>2, HeadTailProperties
<1> QED BY <1>1, <1>5, <1>6, <1>7, <1>8 DEF Taken

\* Where a message was that is still on the wire of d, and where it is then.
Before(c, d, i) == IF d = c THEN i + 1 ELSE i
After(c, d, i) == IF d = c THEN i - 1 ELSE i

LEMMA TakenFacts ==
  ASSUME TypeOK, NEW c \in Conns, NEW m \in Message, NEW K \in Nat, Taken(c, m, K)
  PROVE  /\ \A d \in Conns : \A i \in DOMAIN wire'[d] :
              /\ Before(c, d, i) \in DOMAIN wire[d]
              /\ wire'[d][i] = wire[d][Before(c, d, i)]
              /\ d = c => Before(c, d, i) > 1
         /\ \A d \in Conns : \A k \in DOMAIN wire[d] : ~(d = c /\ k = 1) =>
              /\ After(c, d, k) \in DOMAIN wire'[d]
              /\ wire[d][k] = wire'[d][After(c, d, k)]
         /\ 1 \in DOMAIN wire[c] /\ wire[c][1] = m
<1>1. \A d \in Conns : DOMAIN wire[d] \subseteq Nat /\ DOMAIN wire'[d] \subseteq Nat
  <2>1. \A d \in Conns \ {c} : wire[d] \in Seq(Message) /\ wire'[d] = wire[d]
    BY DEF TypeOK, Taken
  <2>2. \A d \in Conns \ {c} : DOMAIN wire[d] \subseteq Nat
    BY <2>1, LenProperties
  <2>3. \A d \in Conns \ {c} : DOMAIN wire[d] \subseteq Nat /\ DOMAIN wire'[d] \subseteq Nat
    BY <2>1, <2>2
  <2>4. DOMAIN wire[c] \subseteq Nat /\ DOMAIN wire'[c] \subseteq Nat
    BY DEF Taken
  <2> QED BY <2>3, <2>4
<1>2. ASSUME NEW d \in Conns, NEW i \in DOMAIN wire'[d]
      PROVE  /\ Before(c, d, i) \in DOMAIN wire[d]
             /\ wire'[d][i] = wire[d][Before(c, d, i)]
             /\ d = c => Before(c, d, i) > 1
  <2>1. CASE d = c
    <3>1. i \in 1..K
      BY <1>2, <2>1 DEF Taken
    <3>2. i + 1 \in 1..(K + 1) /\ i + 1 > 1
      BY <3>1
    <3> QED BY <2>1, <3>1, <3>2 DEF Taken, Before
  <2>2. CASE d # c
    BY <1>2, <2>2 DEF Taken, Before
  <2> QED BY <2>1, <2>2
<1>3. ASSUME NEW d \in Conns, NEW k \in DOMAIN wire[d], ~(d = c /\ k = 1)
      PROVE  After(c, d, k) \in DOMAIN wire'[d] /\ wire[d][k] = wire'[d][After(c, d, k)]
  <2>1. CASE d = c
    <3>1. k \in 1..(K + 1) /\ k # 1
      BY <1>3, <2>1 DEF Taken
    <3>2. k - 1 \in 1..K /\ (k - 1) + 1 = k
      BY <3>1
    <3> QED BY <2>1, <3>1, <3>2 DEF Taken, After
  <2>2. CASE d # c
    BY <1>3, <2>2 DEF Taken, After
  <2> QED BY <2>1, <2>2
<1>4. 1 \in DOMAIN wire[c] /\ wire[c][1] = m
  BY DEF Taken
<1> QED BY <1>2, <1>3, <1>4

\* The order of the messages stays.
LEMMA TakenOrder ==
  ASSUME TypeOK, NEW c \in Conns, NEW m \in Message, NEW K \in Nat, Taken(c, m, K),
         NEW d \in Conns, NEW i \in DOMAIN wire'[d], NEW k \in DOMAIN wire[d]
  PROVE  /\ Before(c, d, i) < k => ~(d = c /\ k = 1) /\ i < After(c, d, k)
         /\ Before(c, d, i) = k => i = After(c, d, k)
<1>1. i \in Nat /\ k \in Nat
  <2>1. CASE d = c
    BY <2>1 DEF Taken
  <2>2. CASE d # c
    <3>1. wire[d] \in Seq(Message) /\ wire'[d] = wire[d]
      BY <2>2 DEF TypeOK, Taken
    <3> QED BY <3>1, LenProperties
  <2> QED BY <2>1, <2>2
<1>2. d = c => i >= 1
  BY DEF Taken
<1> QED BY <1>1, <1>2 DEF Before, After

\* A browser has one connection that stands.
LEMMA OneStands ==
  ASSUME OneAfterTheOther, NEW c \in Conns, NEW d \in Conns, c[1] = d[1],
         link[c] = "open", link[d] = "open"
  PROVE  c = d
<1>1. c[1] \in Browsers /\ c[2] \in 1..MaxConns /\ d[2] \in 1..MaxConns
      /\ c = <<c[1], c[2]>> /\ d = <<c[1], d[2]>>
  BY ConnFacts
<1>2. ~(c[2] < d[2]) /\ ~(d[2] < c[2])
  BY <1>1 DEF OneAfterTheOther
<1>3. c[2] = d[2]
  BY <1>1, <1>2
<1> QED BY <1>1, <1>3

\* What a browser makes of its rows of the order o when it takes the message m.
RowsTaken(b, o, m) ==
  /\ m.type # "session_closed" /\ m.oid # o => rows'[b][o] = rows[b][o]
  /\ m.type = "order_new" /\ m.oid = o =>
       /\ Len(rows'[b][o]) = Len(rows[b][o]) + 1 /\ rows'[b][o] # <<>>
       /\ \A i \in DOMAIN rows'[b][o] : \/ i \in DOMAIN rows[b][o] /\ rows'[b][o][i] = rows[b][o][i]
                                        \/ rows'[b][o][i] = m.status
  /\ m.type = "order_update" /\ m.oid = o =>
       /\ Len(rows'[b][o]) = Len(rows[b][o])
       /\ (rows'[b][o] = <<>>) <=> (rows[b][o] = <<>>)
       /\ \A i \in DOMAIN rows'[b][o] : rows'[b][o][i] = m.status
  /\ m.type = "session_closed" => Len(rows'[b][o]) = 0 /\ rows'[b][o] = <<>>

LEMMA RowsTakenFacts ==
  ASSUME TypeOK, NEW b \in Browsers, NEW o \in Oids, NEW m \in Message,
         rows' = [rows EXCEPT ![b] =
           CASE m.type = "order_new"    -> [rows[b] EXCEPT ![m.oid] = Append(@, m.status)]
             [] m.type = "order_update" -> Map(rows[b], m.oid, m.status)
             [] OTHER                   -> [p \in Oids |-> <<>>]]
  PROVE  RowsTaken(b, o, m)
<1>1. m.type \in {"order_new", "order_update", "session_closed"} /\ m.oid \in Oids /\ m.status \in OrderStatus
  BY DEF Message
<1>2. rows[b] \in [Oids -> Seq(OrderStatus)]
  BY DEF TypeOK
<1>3. CASE m.type = "order_new"
  <2>1. rows'[b] = [rows[b] EXCEPT ![m.oid] = Append(@, m.status)]
    BY <1>3 DEF TypeOK
  <2>2. m.oid # o => rows'[b][o] = rows[b][o]
    BY <1>1, <1>2, <2>1
  <2>3. CASE m.oid = o
    <3>1. PICK s : s = rows[b][o]
      OBVIOUS
    <3>2. rows'[b][o] = Append(s, m.status) /\ s \in Seq(OrderStatus)
      BY <1>1, <1>2, <2>1, <2>3, <3>1
    <3>3. PICK t : t = Append(s, m.status)
      OBVIOUS
    <3>4. /\ t \in Seq(OrderStatus) /\ Len(t) = Len(s) + 1 /\ Len(s) \in Nat
          /\ \A i \in 1..Len(s) : t[i] = s[i]
          /\ t[Len(s) + 1] = m.status
      BY <1>1, <3>2, <3>3, AppendProperties, LenProperties
    <3>5. DOMAIN t = 1..(Len(s) + 1) /\ DOMAIN s = 1..Len(s) /\ t # <<>>
      BY <3>2, <3>4, LenProperties, EmptySeq
    <3>6. \A i \in DOMAIN t : (i \in DOMAIN s /\ t[i] = s[i]) \/ t[i] = m.status
      BY <3>4, <3>5
    <3> QED BY <1>3, <2>3, <3>1, <3>2, <3>3, <3>4, <3>5, <3>6 DEF RowsTaken
  <2> QED BY <1>3, <2>2, <2>3 DEF RowsTaken
<1>4. CASE m.type = "order_update"
  <2>1. PICK p \in Oids, st \in OrderStatus, list \in [Oids -> Seq(OrderStatus)] :
          p = m.oid /\ st = m.status /\ list = rows[b]
    BY <1>1, <1>2
  <2>2. rows'[b] = Map(list, p, st)
    BY <1>4, <2>1 DEF TypeOK
  <2>3. p # o => Map(list, p, st)[o] = list[o]
    BY MapFacts
  <2>4. Len(Map(list, p, st)[o]) = Len(list[o])
    BY MapType
  <2>5. (Map(list, p, st)[o] = <<>>) <=> (list[o] = <<>>)
    BY MapFacts
  <2>6. p = o => \A i \in DOMAIN Map(list, p, st)[o] : Map(list, p, st)[o][i] = st
    BY MapFacts
  <2> QED BY <1>4, <2>1, <2>2, <2>3, <2>4, <2>5, <2>6 DEF RowsTaken
<1>5. CASE m.type = "session_closed"
  <2>1. rows'[b] = [p \in Oids |-> <<>>]
    BY <1>5 DEF TypeOK
  <2>2. rows'[b][o] = <<>>
    BY <2>1
  <2> QED BY <1>5, <2>2, EmptySeq DEF RowsTaken
<1> QED BY <1>1, <1>3, <1>4, <1>5

LEMMA ReceiveRest ==
  ASSUME TypeOK, Rest, NEW c \in Conns, Receive(c)
  PROVE  Rest'
<1>0. PICK b \in Browsers : b = c[1]
  BY ConnFacts
<1>1. /\ UNCHANGED <<orders, open, call, clients, serve, link, load, raced>>
      /\ wire[c] # <<>> /\ wire' = [wire EXCEPT ![c] = Tail(@)]
  BY DEF Receive, db, hub
<1>2. PICK m \in Message, K \in Nat : m = Head(wire[c]) /\ Taken(c, m, K)
  BY <1>1, TakeFacts
<1>3. /\ \A d \in Conns : \A i \in DOMAIN wire'[d] :
           /\ Before(c, d, i) \in DOMAIN wire[d]
           /\ wire'[d][i] = wire[d][Before(c, d, i)]
           /\ d = c => Before(c, d, i) > 1
      /\ \A d \in Conns : \A k \in DOMAIN wire[d] : ~(d = c /\ k = 1) =>
           /\ After(c, d, k) \in DOMAIN wire'[d]
           /\ wire[d][k] = wire'[d][After(c, d, k)]
      /\ 1 \in DOMAIN wire[c] /\ wire[c][1] = m
  BY <1>2, TakenFacts
<1>4. \A d \in Conns : \A i \in DOMAIN wire'[d], k \in DOMAIN wire[d] :
        /\ Before(c, d, i) < k => ~(d = c /\ k = 1) /\ i < After(c, d, k)
        /\ Before(c, d, i) = k => i = After(c, d, k)
  BY <1>2, TakenOrder
<1>5. /\ \A o \in Oids : RowsTaken(b, o, m)
      /\ \A a \in Browsers \ {b} : rows'[a] = rows[a]
  <2>1. rows' = [rows EXCEPT ![b] =
           CASE m.type = "order_new"    -> [rows[b] EXCEPT ![m.oid] = Append(@, m.status)]
             [] m.type = "order_update" -> Map(rows[b], m.oid, m.status)
             [] OTHER                   -> [p \in Oids |-> <<>>]]
    BY <1>0, <1>2 DEF Receive
  <2> QED BY <2>1, RowsTakenFacts DEF TypeOK
<1>6. /\ m.type \in {"order_new", "order_update", "session_closed"}
      /\ Served(c) /\ link[c] = "open"
  BY <1>3, WireIsServed DEF Message, Rest
<1>7. \A d \in Conns : d[1] = b /\ link[d] = "open" => d = c
  BY <1>0, <1>6, OneStands DEF Rest
<1>8. \A a \in Browsers, n \in 1..MaxConns : <<a, n>> \in Conns /\ <<a, n>>[1] = a
  BY DEF Conns
<1>9. /\ \A d \in Conns : \A o : \A i \in DOMAIN wire'[d] :
           /\ IsAbout(d, i, o)' <=> IsAbout(d, Before(c, d, i), o)
           /\ IsNew(d, i, o)' <=> IsNew(d, Before(c, d, i), o)
           /\ IsEnd(d, i)' <=> IsEnd(d, Before(c, d, i))
      /\ \A d \in Conns : \A o : \A k \in DOMAIN wire[d] : ~(d = c /\ k = 1) =>
           /\ IsNew(d, k, o) => IsNew(d, After(c, d, k), o)'
           /\ IsUpdate(d, k, o) => IsUpdate(d, After(c, d, k), o)'
           /\ IsEnd(d, k) => IsEnd(d, After(c, d, k))'
  BY <1>1, <1>3 DEF IsAbout, IsNew, IsUpdate, IsEnd
<1>10. \A o : /\ IsAbout(c, 1, o) <=> m.type # "session_closed" /\ m.oid = o
              /\ IsNew(c, 1, o) <=> m.type = "order_new" /\ m.oid = o
              /\ IsUpdate(c, 1, o) => m.type = "order_update" /\ m.oid = o
              /\ IsEnd(c, 1) <=> m.type = "session_closed"
  BY <1>3 DEF IsAbout, IsNew, IsUpdate, IsEnd
<1>11. OneAfterTheOther'
  <2>1. \A d \in Conns : link[d] # "open" => wire'[d] = <<>>
    BY <1>2, <1>6 DEF Rest, OneAfterTheOther, Taken
  <2> QED BY <1>1, <2>1 DEF Rest, OneAfterTheOther
<1>12. HubKnows'
  <2>1. \A d \in Conns : serve[d].pc \in {"none", "register"} => wire'[d] = <<>>
    BY <1>2, <1>6 DEF Rest, HubKnows, Taken, Served
  <2> QED BY <1>1, <2>1 DEF Rest, HubKnows, Served
<1>13. HandlersInStep' /\ KeptToSend' /\ OneTells'
  BY <1>1 DEF Rest, HandlersInStep, KeptToSend, OneTells, Tells
<1>14. NothingYet'
  <2> SUFFICES ASSUME NEW o \in Oids, orders[o] = "NONE"
               PROVE  /\ \A d \in Conns : \A i \in DOMAIN wire'[d] : ~IsAbout(d, i, o)'
                      /\ \A a \in Browsers : rows'[a][o] = <<>>
    BY <1>1 DEF Rest, NothingYet, Names
  <2>1. /\ \A d \in Conns : \A i \in DOMAIN wire[d] : ~IsAbout(d, i, o)
        /\ \A a \in Browsers : rows[a][o] = <<>>
    BY DEF Rest, NothingYet
  <2>2. \A d \in Conns : \A i \in DOMAIN wire'[d] : ~IsAbout(d, i, o)'
    BY <1>3, <1>9, <2>1
  <2>3. rows'[b][o] = <<>>
    BY <1>3, <1>5, <1>10, <2>1 DEF RowsTaken
  <2> QED BY <1>5, <2>1, <2>2, <2>3
<1>15. ToldOnce'
  <2> SUFFICES ASSUME NEW d \in Conns, NEW o \in Oids, NEW i \in DOMAIN wire'[d], IsNew(d, i, o)'
               PROVE  /\ \A j \in DOMAIN wire'[d] : IsNew(d, j, o)' => j = i
                      /\ \A h \in Calls : Tells(h, o) => At(h, "send") /\ d \notin call[h].todo
    BY <1>1 DEF ToldOnce, Tells, At
  <2>1. Before(c, d, i) \in DOMAIN wire[d] /\ IsNew(d, Before(c, d, i), o)
    BY <1>3, <1>9
  <2>2. \A j \in DOMAIN wire'[d] : IsNew(d, j, o)' => Before(c, d, j) = Before(c, d, i)
    BY <1>3, <1>9, <2>1 DEF Rest, ToldOnce
  <2>3. \A j \in DOMAIN wire'[d] : Before(c, d, j) = Before(c, d, i) => j = i
    BY <1>4, <2>1
  <2> QED BY <2>1, <2>2, <2>3 DEF Rest, ToldOnce
<1>16. \A h \in Calls : \A a, o : Telling(h, a, o)' <=> Telling(h, a, o)
  BY <1>1 DEF Telling, Tells, At
<1>17. \A a \in Browsers, o \in Oids : MayLearn(a, o)' => MayLearn(a, o)
  <2>1. \A a \in Browsers, n \in 1..MaxConns, o \in Oids : \A i \in DOMAIN wire'[<<a, n>>] :
          IsNew(<<a, n>>, i, o)' => \E k \in DOMAIN wire[<<a, n>>] : IsNew(<<a, n>>, k, o)
    BY <1>3, <1>8, <1>9
  <2>2. \A a \in Browsers, o \in Oids : NewOnWire(a, o)' => NewOnWire(a, o)
    BY <2>1 DEF NewOnWire
  <2> QED BY <1>16, <2>2, ByCalls, ByCallsNext
<1>18. ASSUME NEW o \in Oids, IsNew(c, 1, o)
       PROVE  MayLearn(b, o) /\ ~MayLearn(b, o)'
  <2>1. NewOnWire(b, o)
    <3>1. PICK n \in 1..MaxConns : c = <<b, n>>
      BY <1>0, ConnFacts
    <3> QED BY <1>3, <1>18, <3>1 DEF NewOnWire
  <2>2. /\ \A k \in DOMAIN wire[c] : IsNew(c, k, o) => k = 1
        /\ \A h \in Calls : Tells(h, o) => At(h, "send") /\ c \notin call[h].todo
    <3>1. \A i \in DOMAIN wire[c] : IsNew(c, i, o) =>
            /\ \A j \in DOMAIN wire[c] : IsNew(c, j, o) => j = i
            /\ \A h \in Calls : Tells(h, o) => At(h, "send") /\ c \notin call[h].todo
      BY DEF Rest, ToldOnce
    <3>2. 1 \in DOMAIN wire[c] /\ IsNew(c, 1, o)
      BY <1>3, <1>18
    <3> QED BY <3>1, <3>2
  <2>3. \A h \in Calls : ~Telling(h, b, o)
    <3>1. ASSUME NEW h \in Calls, Tells(h, o), NEW n \in 1..MaxConns, <<b, n>> \in call[h].todo,
                 link[<<b, n>>] = "open"
          PROVE  FALSE
      <4>1. <<b, n>> = c
        BY <1>7, <1>8, <3>1
      <4> QED BY <2>2, <3>1, <4>1
    <3> QED BY <2>2, <3>1 DEF Telling
  <2>4. ~NewOnWire(b, o)'
    <3>1. \A i \in DOMAIN wire'[c] : ~IsNew(c, i, o)'
      BY <1>3, <1>9, <2>2
    <3>2. \A n \in 1..MaxConns : <<b, n>> # c => DOMAIN wire'[<<b, n>>] = {}
      BY <1>2, <1>7, <1>8, EmptySeq DEF Rest, OneAfterTheOther, Taken
    <3> QED BY <3>1, <3>2 DEF NewOnWire
  <2> QED BY <1>16, <2>1, <2>3, <2>4, ByCalls, ByCallsNext
<1>19. RowsCounted'
  <2> SUFFICES ASSUME NEW a \in Browsers, NEW o \in Oids
               PROVE  Len(rows'[a][o]) <= 2 /\ (MayLearn(a, o)' => Len(rows'[a][o]) <= 1)
    BY DEF RowsCounted
  <2>1. Len(rows[a][o]) <= 2 /\ (MayLearn(a, o) => Len(rows[a][o]) <= 1)
    BY DEF Rest, RowsCounted
  <2>2. rows[a][o] \in Seq(OrderStatus) /\ Len(rows[a][o]) \in Nat
    BY DEF TypeOK
  <2>3. CASE a # b
    BY <1>5, <1>17, <2>1, <2>3
  <2>4. CASE a = b /\ IsNew(c, 1, o)
    <3>1. Len(rows'[b][o]) = Len(rows[b][o]) + 1
      BY <1>5, <1>10, <2>4 DEF RowsTaken
    <3>2. Len(rows[b][o]) <= 1 /\ ~MayLearn(b, o)'
      BY <1>18, <2>1, <2>4
    <3> QED BY <2>2, <2>4, <3>1, <3>2
  <2>5. CASE a = b /\ ~IsNew(c, 1, o)
    <3>1. Len(rows'[b][o]) = Len(rows[b][o]) \/ Len(rows'[b][o]) = 0
      BY <1>5, <1>6, <1>10, <2>5 DEF RowsTaken
    <3> QED BY <1>17, <2>1, <2>2, <2>5, <3>1
  <2> QED BY <2>3, <2>4, <2>5
<1>20. \A a, o : Unraced(a, o)' <=> Unraced(a, o)
  BY <1>1 DEF Unraced
<1>21. PurgedIsRaced' /\ UnderWayIsCurrent'
  BY <1>1, <1>20 DEF Rest, PurgedIsRaced, UnderWayIsCurrent, Names, MayTell, At
<1>22. ClosedIsClosed'
  <2>1. \A d \in Conns : \A i \in DOMAIN wire'[d] : IsEnd(d, i)' => ~open
    BY <1>3, <1>9 DEF Rest, ClosedIsClosed
  <2> QED BY <1>1, <1>20, <2>1 DEF Rest, ClosedIsClosed, Tells
<1>23. \A d, o : Updating(d, o)' <=> Updating(d, o)
  BY <1>1 DEF Updating, At
<1>24. ASSUME NEW d \in Conns, NEW o \in Oids, open, Unraced(d[1], o), NEW k \in DOMAIN wire[d],
              IsAbout(d, k, o), wire[d][k].status # orders[o]
       PROVE  \/ Updating(d, o)
              \/ \E j \in DOMAIN wire[d] : k < j /\ IsUpdate(d, j, o)
  BY <1>24 DEF Rest, WiresEndRight
<1>25. WiresEndRight'
  <2> SUFFICES ASSUME NEW d \in Conns, NEW o \in Oids, open, Unraced(d[1], o), NEW i \in DOMAIN wire'[d],
                      IsAbout(d, i, o)', wire'[d][i].status # orders[o]
               PROVE  Updating(d, o) \/ \E j \in DOMAIN wire'[d] : i < j /\ IsUpdate(d, j, o)'
    BY <1>1, <1>20, <1>23 DEF WiresEndRight
  <2>1. /\ Before(c, d, i) \in DOMAIN wire[d] /\ IsAbout(d, Before(c, d, i), o)
        /\ wire[d][Before(c, d, i)].status # orders[o]
    BY <1>3, <1>9
  <2>2. Updating(d, o) \/ \E j \in DOMAIN wire[d] : Before(c, d, i) < j /\ IsUpdate(d, j, o)
    BY <1>24, <2>1
  <2>3. \A j \in DOMAIN wire[d] : Before(c, d, i) < j /\ IsUpdate(d, j, o) =>
          /\ After(c, d, j) \in DOMAIN wire'[d]
          /\ i < After(c, d, j) /\ IsUpdate(d, After(c, d, j), o)'
    BY <1>3, <1>4, <1>9
  <2> QED BY <2>2, <2>3
<1>26. RowsEndRight'
  <2> SUFFICES ASSUME NEW d \in Conns, NEW o \in Oids, open, Unraced(d[1], o), load[d[1]].pc = "loaded",
                      Served(d), NEW i \in DOMAIN rows'[d[1]][o], rows'[d[1]][o][i] # orders[o]
               PROVE  \/ Updating(d, o)
                      \/ \E j \in DOMAIN wire'[d] : IsUpdate(d, j, o)'
                      \/ serve[d].pc \in {"session", "list", "found"}
                      \/ \E e \in serve[d].snapshot : e.oid = o
    BY <1>1, <1>20, <1>23 DEF RowsEndRight, Served
  <2>1. ASSUME NEW k \in DOMAIN rows[d[1]][o], rows[d[1]][o][k] # orders[o]
        PROVE  \/ Updating(d, o)
               \/ \E j \in DOMAIN wire[d] : IsUpdate(d, j, o)
               \/ serve[d].pc \in {"session", "list", "found"}
               \/ \E e \in serve[d].snapshot : e.oid = o
    BY <2>1 DEF Rest, RowsEndRight
  <2>2. CASE d # c
    <3>1. d[1] # b
      BY <1>7, <2>2 DEF Served
    <3>2. rows'[d[1]] = rows[d[1]]
      BY <1>5, <3>1, ConnFacts
    <3> QED BY <1>3, <1>9, <2>1, <2>2, <3>2
  <2>3. CASE d = c /\ IsAbout(c, 1, o) /\ m.status # orders[o]
    <3>1. Updating(c, o) \/ \E j \in DOMAIN wire[c] : 1 < j /\ IsUpdate(c, j, o)
      BY <1>3, <1>24, <2>3
    <3>2. \A j \in DOMAIN wire[c] : 1 < j => ~(c = c /\ j = 1)
      OBVIOUS
    <3> QED BY <1>3, <1>9, <2>3, <3>1, <3>2
  <2>4. CASE d = c /\ ~(IsAbout(c, 1, o) /\ m.status # orders[o])
    <3>1. ~IsEnd(c, 1)
      BY <1>3 DEF Rest, ClosedIsClosed
    <3>2. i \in DOMAIN rows[b][o] /\ rows[b][o][i] # orders[o]
      BY <1>0, <1>5, <1>6, <1>10, <2>4, <3>1 DEF RowsTaken
    <3>3. ~IsUpdate(c, 1, o)
      <4>1. IsUpdate(c, 1, o) => m.type = "order_update" /\ m.oid = o /\ m.status = orders[o]
        BY <1>3 DEF IsUpdate
      <4>2. m.type = "order_update" /\ m.oid = o => rows'[b][o][i] = m.status
        BY <1>0, <1>5, <2>4 DEF RowsTaken
      <4> QED BY <1>0, <2>4, <4>1, <4>2
    <3>4. \A j \in DOMAIN wire[c] : IsUpdate(c, j, o) => j # 1
      BY <3>3
    <3> QED BY <1>0, <1>3, <1>9, <2>1, <2>4, <3>2, <3>4
  <2> QED BY <2>2, <2>3, <2>4
<1>27. RowsThere'
  <2> SUFFICES ASSUME NEW a \in Browsers, NEW o \in Oids, open, Unraced(a, o), load[a].pc = "loaded",
                      InTable(o), rows'[a][o] = <<>>
               PROVE  MayLearn(a, o)'
    BY <1>1, <1>20 DEF RowsThere, InTable
  <2>1. ~IsEnd(c, 1)
    BY <1>3 DEF Rest, ClosedIsClosed
  <2>2. rows[a][o] = <<>> /\ (a = b => ~IsNew(c, 1, o))
    BY <1>5, <1>6, <1>10, <2>1 DEF RowsTaken
  <2>3. MayLearn(a, o)
    BY <2>2 DEF Rest, RowsThere
  <2>4. NewOnWire(a, o) => NewOnWire(a, o)'
    <3>1. ASSUME NEW n \in 1..MaxConns, NEW k \in DOMAIN wire[<<a, n>>], IsNew(<<a, n>>, k, o)
          PROVE  NewOnWire(a, o)'
      <4>1. ~(<<a, n>> = c /\ k = 1)
        BY <1>0, <1>8, <2>2, <3>1
      <4> QED BY <1>3, <1>8, <1>9, <3>1, <4>1 DEF NewOnWire
    <3> QED BY <3>1 DEF NewOnWire
  <2> QED BY <1>16, <2>3, <2>4, ByCalls, ByCallsNext
<1>28. (Closing' <=> Closing) /\ \A d : ClosingFor(d)' <=> ClosingFor(d)
  BY <1>1 DEF Closing, ClosingFor, At
<1>29. WiresEndEmpty'
  <2> SUFFICES ASSUME NEW d \in Conns, NEW o \in Oids, ~open, Unraced(d[1], o), NEW i \in DOMAIN wire'[d],
                      IsNew(d, i, o)'
               PROVE  Closing \/ ClosingFor(d) \/ \E j \in DOMAIN wire'[d] : i < j /\ IsEnd(d, j)'
    BY <1>1, <1>20, <1>28 DEF WiresEndEmpty
  <2>1. Before(c, d, i) \in DOMAIN wire[d] /\ IsNew(d, Before(c, d, i), o)
    BY <1>3, <1>9
  <2>2. Closing \/ ClosingFor(d) \/ \E j \in DOMAIN wire[d] : Before(c, d, i) < j /\ IsEnd(d, j)
    BY <2>1 DEF Rest, WiresEndEmpty
  <2>3. \A j \in DOMAIN wire[d] : Before(c, d, i) < j /\ IsEnd(d, j) =>
          /\ After(c, d, j) \in DOMAIN wire'[d]
          /\ i < After(c, d, j) /\ IsEnd(d, After(c, d, j))'
    BY <1>3, <1>4, <1>9
  <2> QED BY <2>2, <2>3
<1>30. RowsEndEmpty'
  <2> SUFFICES ASSUME NEW a \in Browsers, NEW o \in Oids, ~open, Unraced(a, o), load[a].pc = "loaded",
                      rows'[a][o] # <<>>, ~Closing
               PROVE  \E n \in 1..MaxConns :
                        /\ link[<<a, n>>] = "open"
                        /\ ClosingFor(<<a, n>>) \/ \E j \in DOMAIN wire'[<<a, n>>] : IsEnd(<<a, n>>, j)'
    BY <1>1, <1>20, <1>28 DEF RowsEndEmpty
  <2>1. a = b => ~IsEnd(c, 1)
    BY <1>5, <1>10 DEF RowsTaken
  <2>2. PICK n \in 1..MaxConns :
          /\ link[<<a, n>>] = "open"
          /\ ClosingFor(<<a, n>>) \/ \E j \in DOMAIN wire[<<a, n>>] : IsEnd(<<a, n>>, j)
    <3>1. CASE rows[a][o] # <<>>
      BY <3>1 DEF Rest, RowsEndEmpty
    <3>2. CASE rows[a][o] = <<>>
      <4>1. a = b /\ IsNew(c, 1, o)
        BY <1>5, <1>6, <1>10, <3>2 DEF RowsTaken
      <4>2. ClosingFor(c) \/ \E j \in DOMAIN wire[c] : 1 < j /\ IsEnd(c, j)
        BY <1>0, <1>3, <4>1 DEF Rest, WiresEndEmpty
      <4>3. PICK n \in 1..MaxConns : c = <<b, n>>
        BY <1>0, ConnFacts
      <4> QED BY <1>6, <4>1, <4>2, <4>3
    <3> QED BY <3>1, <3>2
  <2>3. \A j \in DOMAIN wire[<<a, n>>] : IsEnd(<<a, n>>, j) => ~(<<a, n>> = c /\ j = 1)
    BY <1>0, <1>8, <2>1
  <2> QED BY <1>3, <1>8, <1>9, <2>2, <2>3
<1> QED BY <1>11, <1>12, <1>13, <1>14, <1>15, <1>19, <1>21, <1>22, <1>25, <1>26, <1>27, <1>29,
           <1>30 DEF Rest

------------------------------------------------------------------------------
(* The list a browser loads. *)

\* A step of the handler that answers a browser, or of the browser that asks it.
LEMMA LoadStep ==
  ASSUME TypeOK, Rest, NEW b \in Browsers,
         UNCHANGED <<orders, open, call, clients, serve, link, wire, rows, raced>>,
         \A a \in Browsers \ {b} : load'[a] = load[a],
         load'[b].pc # "loaded",
         load'[b].pc # "answered" => load'[b].list = {},
         \A e \in load'[b].list : orders[e.oid] # "NONE",
         open /\ load'[b].pc = "answered" =>
           \A o \in Oids : \A st \in OrderStatus :
             [oid |-> o, status |-> st] \in load'[b].list <=> orders[o] = st,
         \A o \in Oids : ~open /\ Unraced(b, o) =>
           load'[b].pc # "found" /\ \A e \in load'[b].list : e.oid # o
  PROVE  Rest'
<1>1. OneAfterTheOther' /\ HubKnows' /\ HandlersInStep' /\ OneTells'
  BY DEF Rest, OneAfterTheOther, HubKnows, HandlersInStep, OneTells, Tells, Served
<1>2. KeptToSend'
  BY DEF Rest, KeptToSend
<1>3. NothingYet'
  <2>1. \A o \in Oids : orders[o] = "NONE" => \A e \in load'[b].list : e.oid # o
    OBVIOUS
  <2> QED BY <2>1 DEF Rest, NothingYet, Names, IsAbout
<1>4. ToldOnce'
  BY DEF Rest, ToldOnce, Tells, At, IsNew
<1>5. \A a, o : MayLearn(a, o)' <=> MayLearn(a, o)
  <2>1. \A h \in Calls : \A a, o : Telling(h, a, o)' <=> Telling(h, a, o)
    BY DEF Telling, Tells, At
  <2>2. \A a, o : NewOnWire(a, o)' <=> NewOnWire(a, o)
    BY DEF NewOnWire, IsNew
  <2> QED BY <2>1, <2>2, ByCalls, ByCallsNext
<1>6. RowsCounted'
  BY <1>5 DEF Rest, RowsCounted
<1>7. \A a, o : Unraced(a, o)' <=> Unraced(a, o)
  BY DEF Unraced
<1>8. PurgedIsRaced'
  BY <1>7 DEF Rest, PurgedIsRaced
<1>9. UnderWayIsCurrent'
  BY <1>7 DEF Rest, UnderWayIsCurrent, Names, MayTell, At
<1>10. ClosedIsClosed'
  BY <1>7 DEF Rest, ClosedIsClosed, Tells, IsEnd
<1>11. /\ \A d, o : Updating(d, o)' <=> Updating(d, o)
       /\ \A d, i, o : /\ IsAbout(d, i, o)' <=> IsAbout(d, i, o)
                       /\ IsNew(d, i, o)' <=> IsNew(d, i, o)
                       /\ IsUpdate(d, i, o)' <=> IsUpdate(d, i, o)
       /\ \A d, i : IsEnd(d, i)' <=> IsEnd(d, i)
       /\ (Closing' <=> Closing) /\ \A d : ClosingFor(d)' <=> ClosingFor(d)
  BY DEF Updating, IsAbout, IsNew, IsUpdate, IsEnd, Closing, ClosingFor, At
<1>12. WiresEndRight' /\ WiresEndEmpty'
  BY <1>7, <1>11 DEF Rest, WiresEndRight, WiresEndEmpty
<1>13. RowsEndRight'
  BY <1>7, <1>11, ConnFacts DEF Rest, RowsEndRight, Served
<1>14. RowsThere'
  BY <1>5, <1>7 DEF Rest, RowsThere, InTable
<1>15. RowsEndEmpty'
  BY <1>7, <1>11 DEF Rest, RowsEndEmpty
<1> QED BY <1>1, <1>2, <1>3, <1>4, <1>6, <1>8, <1>9, <1>10, <1>12, <1>13, <1>14, <1>15 DEF Rest

\* The order o of an entry, and its status.
LEMMA ListFacts ==
  ASSUME TypeOK
  PROVE  /\ \A e \in GetOrdersBySession : orders[e.oid] # "NONE"
         /\ \A o \in Oids : \A st \in OrderStatus :
              [oid |-> o, status |-> st] \in GetOrdersBySession <=> orders[o] = st
<1>1. \A e \in Entry : e.status # "NONE"
  BY DEF Entry, OrderStatus
<1>2. \A o \in Oids : \A st \in OrderStatus :
        /\ [oid |-> o, status |-> st] \in Entry
        /\ [oid |-> o, status |-> st].oid = o
        /\ [oid |-> o, status |-> st].status = st
  BY DEF Entry
<1>3. \A e : e \in GetOrdersBySession <=> e \in Entry /\ orders[e.oid] = e.status
  BY DEF GetOrdersBySession
<1> QED BY <1>1, <1>2, <1>3

LEMMA AskRest ==
  ASSUME TypeOK, Rest, NEW b \in Browsers, FindSessionToLoad(b) \/ FailLoad(b) \/ Reload(b)
  PROVE  Rest'
<1>1. load \in [Browsers -> Load] /\ load[b] \in Load /\ load[b].list = {}
  BY DEF Rest, KeptToSend, TypeOK, FindSessionToLoad, FailLoad, Reload
<1>2. UNCHANGED <<orders, open, call, clients, serve, link, wire, rows, raced>>
  BY DEF FindSessionToLoad, FailLoad, Reload, db, hub, net
<1>3. /\ \A a \in Browsers \ {b} : load'[a] = load[a]
      /\ load'[b].list = {}
      /\ load'[b].pc # "loaded"
      /\ load'[b].pc = "answered" => ~open
      /\ load'[b].pc = "found" => open
  <2>1. CASE FindSessionToLoad(b)
    <3>1. PICK pc : /\ load' = [load EXCEPT ![b] = [load[b] EXCEPT !.pc = pc]]
                    /\ (open /\ pc = "found") \/ (~open /\ pc = "answered")
      BY <2>1 DEF FindSessionToLoad
    <3>2. load'[b].pc = pc /\ load'[b].list = load[b].list
      BY <1>1, <3>1 DEF Load
    <3> QED BY <1>1, <3>1, <3>2
  <2>2. CASE FailLoad(b)
    BY <1>1, <2>2 DEF FailLoad, Load
  <2>3. CASE Reload(b)
    <3>1. PICK asked : asked = [load EXCEPT ![b] = [load[b] EXCEPT !.pc = "asked"]]
      OBVIOUS
    <3>2. load' = [asked EXCEPT ![b] = [asked[b] EXCEPT !.times = @ + 1]]
      BY <1>1, <2>3, <3>1 DEF Reload
    <3>3. asked[b].pc = "asked" /\ asked[b].list = {} /\ DOMAIN asked = Browsers /\ asked[b] \in Load
          /\ \A a \in Browsers \ {b} : asked[a] = load[a]
      BY <1>1, <3>1 DEF Load
    <3>4. load'[b] = [asked[b] EXCEPT !.times = @ + 1] /\ \A a \in Browsers \ {b} : load'[a] = asked[a]
      BY <3>2, <3>3
    <3>5. load'[b].pc = "asked" /\ load'[b].list = {}
      BY <3>3, <3>4 DEF Load
    <3> QED BY <3>3, <3>4, <3>5
  <2> QED BY <2>1, <2>2, <2>3
<1> QED BY <1>2, <1>3, LoadStep

LEMMA ServeLoadRest ==
  ASSUME TypeOK, Rest, NEW b \in Browsers, ServeLoad(b)
  PROVE  Rest'
<1>1. load \in [Browsers -> Load] /\ load[b] \in Load /\ load[b].pc = "found"
  BY DEF TypeOK, ServeLoad
<1>2. UNCHANGED <<orders, open, call, clients, serve, link, wire, rows, raced>>
  BY DEF ServeLoad, db, hub, net
<1>3. load' = [load EXCEPT ![b] = [load[b] EXCEPT !.pc = "answered", !.list = GetOrdersBySession]]
  BY DEF ServeLoad
<1>4. /\ \A a \in Browsers \ {b} : load'[a] = load[a]
      /\ load'[b].pc = "answered" /\ load'[b].list = GetOrdersBySession
  BY <1>1, <1>3 DEF Load
<1>5. \A o \in Oids : ~(~open /\ Unraced(b, o))
  BY <1>1 DEF Rest, ClosedIsClosed
<1> QED BY <1>2, <1>4, <1>5, ListFacts, LoadStep

\* What a browser shows of the order o once it has taken its list.
LEMMA TakenListFacts ==
  ASSUME TypeOK, NEW b \in Browsers, TakeLoad(b), NEW o \in Oids
  PROVE  \/ rows'[b][o] = <<>> /\ \A e \in load[b].list : e.oid # o
         \/ \E st \in OrderStatus : /\ rows'[b][o] = <<st>>
                                    /\ [oid |-> o, status |-> st] \in load[b].list
<1> DEFINE has(p) == \E e \in load[b].list : e.oid = p
           one(p) == CHOOSE e \in load[b].list : e.oid = p
<1>1. rows' = [rows EXCEPT ![b] = [p \in Oids |-> IF has(p) THEN <<one(p).status>> ELSE <<>>]]
  BY DEF TakeLoad
<1>2. has(o) => one(o) \in load[b].list /\ one(o).oid = o
  OBVIOUS
<1>3. load[b].list \subseteq Entry
  BY DEF TypeOK, Load
<1> HIDE DEF one
<1>4. rows'[b][o] = IF has(o) THEN <<one(o).status>> ELSE <<>>
  <2> HIDE DEF has
  <2> QED BY <1>1 DEF TypeOK
<1>5. CASE has(o)
  <2>1. PICK e : e = one(o)
    OBVIOUS
  <2>2. e \in Entry /\ e.oid = o /\ e \in load[b].list
    BY <1>2, <1>3, <1>5, <2>1
  <2>3. e = [oid |-> o, status |-> e.status] /\ e.status \in OrderStatus
    BY <2>2 DEF Entry
  <2> QED BY <1>4, <1>5, <2>1, <2>2, <2>3
<1>6. CASE ~has(o)
  BY <1>4, <1>6
<1> QED BY <1>5, <1>6

LEMMA TakeLoadRest ==
  ASSUME TypeOK, Rest, NEW b \in Browsers, TakeLoad(b)
  PROVE  Rest'
<1>1. /\ UNCHANGED <<orders, open, call, clients, serve, link, wire, raced>>
      /\ load[b].pc = "answered"
  BY DEF TakeLoad, db, hub, net
<1>2. load' = [load EXCEPT ![b] = [load[b] EXCEPT !.pc = "loaded", !.list = {}]]
  BY DEF TakeLoad
<1>3. /\ load'[b].pc = "loaded" /\ load'[b].list = {}
      /\ \A a \in Browsers \ {b} : load'[a] = load[a]
  BY <1>2 DEF TypeOK, Load
<1>4. \A a \in Browsers \ {b} : rows'[a] = rows[a]
  BY DEF TakeLoad, TypeOK
<1>5. \A o \in Oids :
        \/ rows'[b][o] = <<>> /\ \A e \in load[b].list : e.oid # o
        \/ \E st \in OrderStatus : /\ rows'[b][o] = <<st>>
                                   /\ [oid |-> o, status |-> st] \in load[b].list
  BY TakenListFacts
<1>6. ASSUME NEW o \in Oids
      PROVE  /\ Len(rows'[b][o]) \in {0, 1}
             /\ orders[o] = "NONE" => rows'[b][o] = <<>>
             /\ open /\ Unraced(b, o) => /\ \A i \in DOMAIN rows'[b][o] : rows'[b][o][i] = orders[o]
                                         /\ InTable(o) => rows'[b][o] # <<>>
             /\ ~open /\ Unraced(b, o) => rows'[b][o] = <<>>
  <2>1. /\ orders[o] = "NONE" => \A e \in load[b].list : e.oid # o
        /\ ~open /\ Unraced(b, o) => \A e \in load[b].list : e.oid # o
        /\ open /\ Unraced(b, o) =>
             \A st \in OrderStatus : [oid |-> o, status |-> st] \in load[b].list <=> orders[o] = st
    BY <1>1 DEF Rest, NothingYet, ClosedIsClosed, UnderWayIsCurrent
  <2>2. CASE rows'[b][o] = <<>> /\ \A e \in load[b].list : e.oid # o
    <3>1. Len(rows'[b][o]) = 0 /\ DOMAIN rows'[b][o] = {}
      BY <2>2, EmptySeq
    <3>3. \A st \in OrderStatus : [oid |-> o, status |-> st] \notin load[b].list
      <4>1. \A st : [oid |-> o, status |-> st].oid = o
        OBVIOUS
      <4> QED BY <2>2, <4>1
    <3>4. open /\ Unraced(b, o) => ~InTable(o)
      <4> SUFFICES ASSUME open, Unraced(b, o), orders[o] \in OrderStatus PROVE FALSE
        BY DEF InTable
      <4>1. [oid |-> o, status |-> orders[o]] \in load[b].list
        BY <2>1
      <4> QED BY <3>3, <4>1
    <3> QED BY <2>2, <3>1, <3>4
  <2>3. CASE \E st \in OrderStatus : /\ rows'[b][o] = <<st>>
                                     /\ [oid |-> o, status |-> st] \in load[b].list
    <3>1. PICK st \in OrderStatus : /\ rows'[b][o] = <<st>>
                                    /\ [oid |-> o, status |-> st] \in load[b].list
      BY <2>3
    <3>2. Len(rows'[b][o]) = 1 /\ DOMAIN rows'[b][o] = {1} /\ rows'[b][o][1] = st /\ rows'[b][o] # <<>>
      BY <3>1
    <3>3. ~(\A e \in load[b].list : e.oid # o)
      BY <3>1
    <3> QED BY <2>1, <3>1, <3>2, <3>3
  <2> QED BY <1>5, <2>2, <2>3
<1>7. OneAfterTheOther' /\ HubKnows' /\ HandlersInStep' /\ OneTells'
  BY <1>1 DEF Rest, OneAfterTheOther, HubKnows, HandlersInStep, OneTells, Tells, Served
<1>8. KeptToSend'
  BY <1>1, <1>3 DEF Rest, KeptToSend
<1>9. NothingYet'
  <2>1. \A a \in Browsers, o \in Oids : orders[o] = "NONE" =>
          rows'[a][o] = <<>> /\ \A e \in load'[a].list : e.oid # o
    BY <1>3, <1>4, <1>6 DEF Rest, NothingYet
  <2> QED BY <1>1, <2>1 DEF Rest, NothingYet, Names, IsAbout
<1>10. ToldOnce'
  BY <1>1 DEF Rest, ToldOnce, Tells, At, IsNew
<1>11. \A a, o : MayLearn(a, o)' <=> MayLearn(a, o)
  <2>1. \A h \in Calls : \A a, o : Telling(h, a, o)' <=> Telling(h, a, o)
    BY <1>1 DEF Telling, Tells, At
  <2>2. \A a, o : NewOnWire(a, o)' <=> NewOnWire(a, o)
    BY <1>1 DEF NewOnWire, IsNew
  <2> QED BY <2>1, <2>2, ByCalls, ByCallsNext
<1>12. RowsCounted'
  <2>1. ASSUME NEW o \in Oids
        PROVE  Len(rows'[b][o]) <= 2 /\ Len(rows'[b][o]) <= 1
    <3>1. PICK k \in {0, 1} : k = Len(rows'[b][o])
      BY <1>6
    <3>2. k <= 2 /\ k <= 1
      OBVIOUS
    <3> QED BY <3>1, <3>2
  <2> QED BY <1>4, <1>11, <2>1 DEF Rest, RowsCounted
<1>13. \A a, o : Unraced(a, o)' <=> Unraced(a, o)
  BY <1>1 DEF Unraced
<1>14. PurgedIsRaced'
  BY <1>1, <1>13 DEF Rest, PurgedIsRaced
<1>15. UnderWayIsCurrent'
  BY <1>1, <1>3, <1>13 DEF Rest, UnderWayIsCurrent, Names, MayTell, At
<1>16. ClosedIsClosed'
  BY <1>1, <1>3, <1>13 DEF Rest, ClosedIsClosed, Tells, IsEnd
<1>17. /\ \A d, o : Updating(d, o)' <=> Updating(d, o)
       /\ \A d, i, o : /\ IsAbout(d, i, o)' <=> IsAbout(d, i, o)
                       /\ IsNew(d, i, o)' <=> IsNew(d, i, o)
                       /\ IsUpdate(d, i, o)' <=> IsUpdate(d, i, o)
       /\ \A d, i : IsEnd(d, i)' <=> IsEnd(d, i)
       /\ (Closing' <=> Closing) /\ \A d : ClosingFor(d)' <=> ClosingFor(d)
  BY <1>1 DEF Updating, IsAbout, IsNew, IsUpdate, IsEnd, Closing, ClosingFor, At
<1>18. WiresEndRight' /\ WiresEndEmpty'
  BY <1>1, <1>13, <1>17 DEF Rest, WiresEndRight, WiresEndEmpty
<1>19. RowsEndRight'
  <2> SUFFICES ASSUME NEW d \in Conns, NEW o \in Oids, open, Unraced(d[1], o), load'[d[1]].pc = "loaded",
                      Served(d), NEW i \in DOMAIN rows'[d[1]][o], rows'[d[1]][o][i] # orders[o]
               PROVE  \/ Updating(d, o)
                      \/ \E j \in DOMAIN wire[d] : IsUpdate(d, j, o)
                      \/ serve[d].pc \in {"session", "list", "found"}
                      \/ \E e \in serve[d].snapshot : e.oid = o
    BY <1>1, <1>13, <1>17 DEF RowsEndRight, Served
  <2>1. d[1] \in Browsers \ {b}
    BY <1>6, ConnFacts
  <2> QED BY <1>3, <1>4, <2>1 DEF Rest, RowsEndRight
<1>20. RowsThere'
  <2> SUFFICES ASSUME NEW a \in Browsers, NEW o \in Oids, open, Unraced(a, o), load'[a].pc = "loaded",
                      InTable(o)
               PROVE  rows'[a][o] # <<>> \/ MayLearn(a, o)
    BY <1>1, <1>11, <1>13 DEF RowsThere, InTable
  <2> QED BY <1>3, <1>4, <1>6 DEF Rest, RowsThere
<1>21. RowsEndEmpty'
  <2> SUFFICES ASSUME NEW a \in Browsers, NEW o \in Oids, ~open, Unraced(a, o), load'[a].pc = "loaded",
                      rows'[a][o] # <<>>
               PROVE  \/ Closing
                      \/ \E n \in 1..MaxConns :
                           link[<<a, n>>] = "open" /\ (\/ ClosingFor(<<a, n>>)
                                                       \/ \E j \in DOMAIN wire[<<a, n>>] : IsEnd(<<a, n>>, j))
    BY <1>1, <1>13, <1>17 DEF RowsEndEmpty
  <2>1. a # b
    BY <1>6
  <2> QED BY <1>3, <1>4, <2>1 DEF Rest, RowsEndEmpty
<1> QED BY <1>7, <1>8, <1>9, <1>10, <1>12, <1>14, <1>15, <1>16, <1>18, <1>19, <1>20, <1>21 DEF Rest

------------------------------------------------------------------------------
(* The invariant. *)

\* Two writers that meet change nothing of it.
LEMMA SameRest ==
  ASSUME Rest, UNCHANGED <<db, call, clients, serve, net, page, raced>>
  PROVE  Rest'
<1> USE DEF db, net, page
<1>1. \A b, o : /\ MayLearn(b, o)' <=> MayLearn(b, o)
                /\ Unraced(b, o)' <=> Unraced(b, o)
                /\ Updating(b, o)' <=> Updating(b, o)
                /\ Tells(b, o)' <=> Tells(b, o)
                /\ Names(b, o)' <=> Names(b, o)
  BY DEF MayLearn, Unraced, Updating, Tells, Names, At, IsNew
<1>2. /\ \A d, i, o : /\ IsAbout(d, i, o)' <=> IsAbout(d, i, o)
                      /\ IsNew(d, i, o)' <=> IsNew(d, i, o)
                      /\ IsUpdate(d, i, o)' <=> IsUpdate(d, i, o)
      /\ \A d, i : IsEnd(d, i)' <=> IsEnd(d, i)
      /\ (Closing' <=> Closing) /\ \A d : ClosingFor(d)' <=> ClosingFor(d)
  BY DEF IsAbout, IsNew, IsUpdate, IsEnd, Closing, ClosingFor, At
<1>3. OneAfterTheOther' /\ HubKnows' /\ HandlersInStep' /\ KeptToSend' /\ OneTells'
  BY <1>1 DEF Rest, OneAfterTheOther, HubKnows, HandlersInStep, KeptToSend, OneTells, Served
<1>4. NothingYet' /\ ToldOnce' /\ RowsCounted' /\ PurgedIsRaced'
  BY <1>1, <1>2 DEF Rest, NothingYet, ToldOnce, RowsCounted, PurgedIsRaced, At
<1>5. UnderWayIsCurrent' /\ ClosedIsClosed'
  BY <1>1, <1>2 DEF Rest, UnderWayIsCurrent, ClosedIsClosed, MayTell, At
<1>6. WiresEndRight' /\ RowsEndRight' /\ RowsThere'
  BY <1>1, <1>2 DEF Rest, WiresEndRight, RowsEndRight, RowsThere, Served, InTable
<1>7. WiresEndEmpty' /\ RowsEndEmpty'
  BY <1>1, <1>2 DEF Rest, WiresEndEmpty, RowsEndEmpty
<1> QED BY <1>3, <1>4, <1>5, <1>6, <1>7 DEF Rest

LEMMA LeaveRest ==
  ASSUME TypeOK, Rest, NEW c \in Conns, Leave(c)
  PROVE  Rest'
  BY ServeEndRest DEF Leave, db, page

LEMMA CallStepRest ==
  ASSUME TypeOK, Rest, NEW h \in Calls, CallStep(h)
  PROVE  Rest'
<1>1. CASE \E o \in Oids : PlaceOrder(h, o)
  BY <1>1, PlaceOrderRest
<1>2. CASE \E o \in Oids, target \in OrderStatus : ReadOrder(h, o, target)
  BY <1>2, ReadOrderRest
<1>3. CASE FindSession(h) \/ ReadBack(h) \/ WriteOrder(h) \/ PurgeOrders(h)
  BY <1>3, FindSessionRest, ReadBackRest, WriteOrderRest, PurgeOrdersRest
<1>4. CASE ShutSession(h) \/ CompleteOrders(h) \/ Fail(h)
  BY <1>4, ShutSessionRest, CompleteOrdersRest, FailRest
<1>5. CASE CopyClients(h) \/ SkipStats(h) \/ EndBroadcast(h) \/ Reply(h) \/ Arrive(h)
  BY <1>5, CopyClientsRest, SkipStatsRest, EndBroadcastRest, ReplyRest, ArriveRest
<1> QED BY <1>1, <1>2, <1>3, <1>4, <1>5 DEF CallStep

LEMMA ConnStepRest ==
  ASSUME TypeOK, Rest, NEW c \in Conns, ConnStep(c)
  PROVE  Rest'
<1>1. CASE Register(c) \/ ListNone(c) \/ FindSessionToList(c) \/ ListOrders(c) \/ FailList(c)
  BY <1>1, SetUpRest, ListOrdersRest
<1>2. CASE Leave(c) \/ Break(c) \/ Receive(c) \/ FailServeWrite(c) \/ PanicInServe(c)
  BY <1>2, LeaveRest, BreakRest, ReceiveRest, FailServeWriteRest, PanicInServeRest
<1>3. CASE \E w \in Writers : Write(w, c)
  <2>1. PICK w \in Writers : Write(w, c)
    BY <1>3
  <2>2. CASE w \in Calls
    BY <2>1, <2>2, BroadcastWriteRest
  <2>3. CASE w \notin Calls
    <3>1. w = c
      BY <2>1, <2>3 DEF Write, Writes, MayWrite, Wants
    <3> QED BY <2>1, <3>1, ServeWriteRest
  <2> QED BY <2>2, <2>3
<1>4. CASE \E v, w \in Writers : Meet(v, w, c)
  BY <1>4, SameRest DEF Meet
<1>5. CASE \E h \in Calls : FailBroadcastWrite(h, c) \/ PanicInBroadcast(h, c)
  BY <1>5, FailBroadcastWriteRest, PanicInBroadcastRest
<1> QED BY <1>1, <1>2, <1>3, <1>4, <1>5 DEF ConnStep

LEMMA PageStepRest ==
  ASSUME TypeOK, Rest, NEW b \in Browsers, PageStep(b)
  PROVE  Rest'
<1>1. CASE FindSessionToLoad(b) \/ FailLoad(b) \/ Reload(b)
  BY <1>1, AskRest
<1>2. CASE ServeLoad(b) \/ TakeLoad(b)
  BY <1>2, ServeLoadRest, TakeLoadRest
<1>3. CASE \E n \in 1..MaxConns : Connect(b, n)
  BY <1>3, ConnectRest
<1> QED BY <1>1, <1>2, <1>3 DEF PageStep

LEMMA InitRest == Init => Rest
<1> SUFFICES ASSUME Init PROVE Rest
  OBVIOUS
<1>1. /\ \A c \in Conns : link[c] = "none" /\ wire[c] = <<>> /\ DOMAIN wire[c] = {}
      /\ \A c \in Conns : serve[c].pc = "none" /\ serve[c].snapshot = {}
      /\ \A b \in Browsers : load[b].pc = "asked" /\ load[b].list = {}
      /\ \A b \in Browsers, o \in Oids : rows[b][o] = <<>> /\ Len(rows[b][o]) = 0
      /\ clients = {} /\ raced = {} /\ open = TRUE
  BY DEF Init
<1>2. \A b \in Browsers, n \in 1..MaxConns : <<b, n>> \in Conns
  BY DEF Conns
<1>3. \A h \in Calls : \E kind \in Kinds, b \in Browsers :
        call[h] = [kind |-> kind, from |-> b, oid |-> 1, status |-> "NEW", todo |-> {},
                   dead |-> {}, pc |-> FirstPc(kind)]
  BY DEF Init, NewCalls
<1>4. \A h \in Calls : /\ call[h].kind \in AllKinds /\ call[h].pc = FirstPc(call[h].kind)
                       /\ call[h].todo = {} /\ call[h].dead = {}
  <2> SUFFICES ASSUME NEW h \in Calls
               PROVE  /\ call[h].kind \in AllKinds /\ call[h].pc = FirstPc(call[h].kind)
                      /\ call[h].todo = {} /\ call[h].dead = {}
    OBVIOUS
  <2>1. PICK kind \in Kinds, b \in Browsers :
          call[h] = [kind |-> kind, from |-> b, oid |-> 1, status |-> "NEW", todo |-> {},
                     dead |-> {}, pc |-> FirstPc(kind)]
    BY <1>3
  <2>2. /\ call[h].kind = kind /\ call[h].pc = FirstPc(kind)
        /\ call[h].todo = {} /\ call[h].dead = {}
    BY <2>1
  <2> QED BY <2>2, KindsAssumption
<1>5. \A h \in Calls : call[h].pc \in {"session", "delete", "read"}
  BY <1>4 DEF FirstPc
<1>6. OneAfterTheOther /\ HubKnows
  BY <1>1, <1>2, <1>4 DEF OneAfterTheOther, HubKnows, Served
<1>7. HandlersInStep
  BY <1>4 DEF HandlersInStep, FirstPc, AllKinds
<1>8. KeptToSend
  BY <1>1, <1>4 DEF KeptToSend
<1>9. \A h \in Calls : \A o : ~Tells(h, o) /\ ~Names(h, o)
  BY <1>5 DEF Tells, Names
<1>10. OneTells /\ NothingYet /\ ToldOnce
  BY <1>1, <1>9 DEF OneTells, NothingYet, ToldOnce
<1>11. RowsCounted
  BY <1>1 DEF RowsCounted
<1>12. PurgedIsRaced
  BY DEF Init, PurgedIsRaced
<1>13. UnderWayIsCurrent /\ ClosedIsClosed
  BY <1>1, <1>2, <1>5, <1>9 DEF UnderWayIsCurrent, ClosedIsClosed
<1>14. WiresEndRight /\ RowsEndRight /\ RowsThere /\ WiresEndEmpty /\ RowsEndEmpty
  BY <1>1, ConnFacts DEF WiresEndRight, RowsEndRight, RowsThere, WiresEndEmpty, RowsEndEmpty
<1> QED BY <1>6, <1>7, <1>8, <1>10, <1>11, <1>12, <1>13, <1>14 DEF Rest

LEMMA NextRest == TypeOK /\ Rest /\ [Next]_vars => Rest'
<1> SUFFICES ASSUME TypeOK, Rest, [Next]_vars PROVE Rest'
  OBVIOUS
<1>1. CASE Next
  BY <1>1, CallStepRest, ConnStepRest, PageStepRest DEF Next
<1>2. CASE UNCHANGED vars
  BY <1>2, SameRest DEF vars, hub
<1> QED BY <1>1, <1>2

------------------------------------------------------------------------------
(* The theorems. *)

\* The inductive invariant holds in every reachable state.
THEOREM Invariance == Spec => []IndInv
<1>1. Init => IndInv
  BY InitType, InitRest DEF IndInv, Rest
<1>2. IndInv /\ [Next]_vars => IndInv'
  <2> SUFFICES ASSUME IndInv, [Next]_vars PROVE IndInv'
    OBVIOUS
  <2>1. TypeOK /\ Rest
    BY DEF IndInv, Rest
  <2>2. TypeOK' /\ Rest'
    BY <2>1, NextType, NextRest
  <2> QED BY <2>2 DEF IndInv, Rest
<1> QED BY <1>1, <1>2, PTL DEF Spec

\* Handlers, connections and lists keep their types.
THEOREM TypeCorrect == Spec => []TypeOK
<1>1. IndInv => TypeOK
  BY DEF IndInv
<1> QED BY <1>1, Invariance, PTL

\* No browser shows an order three times: of the two ways in which a row comes to
\* a list, GET /api/orders and the message order_new (useOrders.ts), the one
\* starts the list anew and the other happens once.
THEOREM RowsTwiceAtMost == Spec => []NoRowThrice
<1>1. IndInv => NoRowThrice
  BY DEF IndInv, RowsCounted, NoRowThrice
<1> QED BY <1>1, Invariance, PTL

\* Where nothing is on its way, what is to be put right is right.
LEMMA SettledAgree == IndInv => ListsAgreeUnlessRaced
<1> SUFFICES ASSUME IndInv, NothingPending, NEW b \in Browsers, NEW o \in Oids, UpToDate(b), Unraced(b, o)
             PROVE  Range(rows[b][o]) = IF open /\ InTable(o) THEN {orders[o]} ELSE {}
  BY DEF ListsAgreeUnlessRaced, Unraced
<1>0. TypeOK /\ Rest
  BY DEF IndInv, Rest
<1>1. PICK n \in 1..MaxConns : link[<<b, n>>] = "open" /\ serve[<<b, n>>].pc = "loop" /\ wire[<<b, n>>] = <<>>
  BY DEF UpToDate
<1>2. PICK c \in Conns : c = <<b, n>> /\ c[1] = b
  <2>1. <<b, n>> \in Conns /\ <<b, n>>[1] = b
    BY DEF Conns
  <2> QED BY <2>1
<1>3. /\ load[b].pc = "loaded" /\ Served(c) /\ DOMAIN wire[c] = {}
      /\ serve[c].pc = "loop" /\ serve[c].snapshot = {}
  BY <1>0, <1>1, <1>2, EmptySeq DEF UpToDate, Served, Rest, KeptToSend
<1>4. \A h \in Calls : call[h].pc \notin {"complete", "readBack", "copy", "send", "arrive"}
  BY DEF NothingPending, Announcing, At
<1>5. ~Updating(c, o) /\ ~Closing /\ ~\E d \in Conns : ClosingFor(d)
  BY <1>4 DEF Updating, Closing, ClosingFor, At
<1>6. \A m \in 1..MaxConns : m # n => DOMAIN wire[<<b, m>>] = {} /\ link[<<b, m>>] # "open"
  <2> SUFFICES ASSUME NEW m \in 1..MaxConns, m # n
               PROVE  DOMAIN wire[<<b, m>>] = {} /\ link[<<b, m>>] # "open"
    OBVIOUS
  <2>1. <<b, m>> \in Conns /\ <<b, m>>[1] = b /\ <<b, m>> # c
    BY <1>2 DEF Conns
  <2>2. link[<<b, m>>] # "open"
    BY <1>0, <1>1, <1>2, <2>1, OneStands DEF Rest
  <2> QED BY <1>0, <2>1, <2>2, EmptySeq DEF Rest, OneAfterTheOther
<1>7. ~MayLearn(b, o)
  BY <1>2, <1>3, <1>4, <1>6 DEF MayLearn, Tells, At
<1>8. PICK s \in Seq(OrderStatus) : s = rows[b][o]
  BY <1>0 DEF TypeOK
<1>9. CASE open
  <2>1. \A i \in DOMAIN s : s[i] = orders[o]
    <3> SUFFICES ASSUME NEW i \in DOMAIN rows[c[1]][o], rows[c[1]][o][i] # orders[o] PROVE FALSE
      BY <1>2, <1>8
    <3>1. \/ Updating(c, o)
          \/ \E j \in DOMAIN wire[c] : IsUpdate(c, j, o)
          \/ serve[c].pc \in {"session", "list", "found"}
          \/ \E e \in serve[c].snapshot : e.oid = o
      BY <1>0, <1>2, <1>3, <1>9 DEF Rest, RowsEndRight
    <3> QED BY <1>3, <1>5, <3>1
  <2>2. s # <<>> => DOMAIN s # {}
    BY LenProperties, EmptySeq
  <2>3. CASE InTable(o)
    <3>1. s # <<>>
      BY <1>0, <1>3, <1>7, <1>8, <1>9, <2>3 DEF Rest, RowsThere
    <3> QED BY <1>8, <1>9, <2>1, <2>2, <2>3, <3>1 DEF Range
  <2>4. CASE ~InTable(o)
    <3>1. orders[o] \in {"NONE", "DELETED"}
      BY <1>0, <2>4 DEF TypeOK, InTable
    <3>2. orders[o] = "NONE"
      BY <1>0, <3>1 DEF Rest, PurgedIsRaced
    <3>3. s = <<>>
      BY <1>0, <1>8, <3>2 DEF Rest, NothingYet
    <3> QED BY <1>8, <2>4, <3>3 DEF Range
  <2> QED BY <2>3, <2>4
<1>10. CASE ~open
  <2>1. \A m \in 1..MaxConns : <<b, m>> \in Conns
    BY DEF Conns
  <2>2. s = <<>>
    BY <1>0, <1>2, <1>3, <1>5, <1>6, <1>8, <1>10, <2>1 DEF Rest, RowsEndEmpty
  <2> QED BY <1>8, <1>10, <2>2 DEF Range
<1> QED BY <1>9, <1>10

\* Lists agree with the database, once nothing is on its way, wherever no older
\* news overtook newer and no announcement was lost: that is the whole of what
\* the broadcasts of orders.go promise to the list of useOrders.ts.
THEOREM ListsAgree == Spec => []ListsAgreeUnlessRaced
  BY SettledAgree, Invariance, PTL

------------------------------------------------------------------------------
(* What the lists promise: OrderBoard implements NoticeBoard. *)

LEMMA NoticesAre ==
  \A n : n \in Notices <=> \/ \E h \in Calls : n \in SaidBy(h)
                           \/ \E c \in Conns : n \in OnWire(c) \/ n \in InSnapshot(c)
                           \/ \E b \in Browsers : n \in InAnswer(b)
  BY DEF Notices

LEMMA NoticesAreNext ==
  \A n : n \in Notices' <=> \/ \E h \in Calls : n \in SaidBy(h)'
                            \/ \E c \in Conns : n \in OnWire(c)' \/ n \in InSnapshot(c)'
                            \/ \E b \in Browsers : n \in InAnswer(b)'
  BY DEF Notices

\* What is said in a message, and of an entry of a list.
Said(m)           == [oid |-> m.oid, status |-> m.status, adds |-> m.type = "order_new"]
SaidOf(e, adds)   == [oid |-> e.oid, status |-> e.status, adds |-> adds]

LEMMA SourcesAre ==
  /\ \A h, n : n \in SaidBy(h) <=> HasNotice(h) /\ n = NoticeOf(h)
  /\ \A c, n : n \in OnWire(c) <=> \E i \in DOMAIN wire[c] : ~IsEnd(c, i) /\ n = Said(wire[c][i])
  /\ \A c, n : n \in InSnapshot(c) <=> \E e \in serve[c].snapshot : n = SaidOf(e, FALSE)
  /\ \A b, n : n \in InAnswer(b) <=> \E e \in load[b].list : n = SaidOf(e, TRUE)
  BY DEF SaidBy, OnWire, InSnapshot, InAnswer, Listed, Said, SaidOf

LEMMA SourcesAreNext ==
  /\ \A h, n : n \in SaidBy(h)' <=> HasNotice(h)' /\ n = NoticeOf(h)'
  /\ \A c, n : n \in OnWire(c)' <=> \E i \in DOMAIN wire'[c] : ~IsEnd(c, i)' /\ n = Said(wire'[c][i])
  /\ \A c, n : n \in InSnapshot(c)' <=> \E e \in serve'[c].snapshot : n = SaidOf(e, FALSE)
  /\ \A b, n : n \in InAnswer(b)' <=> \E e \in load'[b].list : n = SaidOf(e, TRUE)
  BY DEF SaidBy, OnWire, InSnapshot, InAnswer, Listed, Said, SaidOf

\* Nothing is written but the notices X.
WritesOnly(X) == Notices' \subseteq Notices \cup X

LEMMA FromSources ==
  ASSUME NEW X,
         \A h \in Calls : SaidBy(h)' \subseteq Notices \cup X,
         \A c \in Conns : OnWire(c)' \subseteq Notices \cup X,
         \A c \in Conns : InSnapshot(c)' \subseteq Notices \cup X,
         \A b \in Browsers : InAnswer(b)' \subseteq Notices \cup X
  PROVE  WritesOnly(X)
  BY NoticesAreNext DEF WritesOnly

\* A handler that moves says what it said, nothing, or something new.
LEMMA HandlerSays ==
  ASSUME NEW h \in Calls, UNCHANGED <<wire, load>>,
         \A c \in Conns : serve'[c].snapshot = serve[c].snapshot,
         \A g \in Calls \ {h} : call'[g] = call[g]
  PROVE  /\ WritesOnly({NoticeOf(h)'})
         /\ ~HasNotice(h)' => WritesOnly({})
         /\ HasNotice(h) /\ NoticeOf(h)' = NoticeOf(h) => WritesOnly({})
<1>1. \A c : OnWire(c)' = OnWire(c)
  BY DEF OnWire, IsEnd
<1>2. \A c \in Conns : InSnapshot(c)' = InSnapshot(c)
  BY DEF InSnapshot
<1>3. \A b : InAnswer(b)' = InAnswer(b)
  BY DEF InAnswer
<1>4. \A g \in Calls \ {h} : SaidBy(g)' = SaidBy(g)
  BY DEF SaidBy, HasNotice, NoticeOf
<1>5. \A n \in Notices' : n \in Notices \/ n \in SaidBy(h)'
  BY <1>1, <1>2, <1>3, <1>4, NoticesAre, NoticesAreNext
<1>6. \A n : n \in SaidBy(h)' => HasNotice(h)' /\ n = NoticeOf(h)'
  BY SourcesAreNext
<1>7. HasNotice(h) => NoticeOf(h) \in Notices
  BY NoticesAre, SourcesAre
<1> QED BY <1>5, <1>6, <1>7 DEF WritesOnly

\* Nothing is added to what is under way.
SaysNoMore(h) == HasNotice(h)' => HasNotice(h) /\ NoticeOf(h)' = NoticeOf(h)

LEMMA NothingWritten ==
  ASSUME \A h \in Calls : SaysNoMore(h),
         \A c \in Conns : OnWire(c)' \subseteq Notices,
         \A c \in Conns : serve'[c].snapshot \subseteq serve[c].snapshot,
         \A b \in Browsers : load'[b].list \subseteq load[b].list
  PROVE  WritesOnly({})
<1>1. \A h \in Calls : SaidBy(h)' \subseteq Notices
  <2>1. \A h \in Calls : SaidBy(h)' \subseteq SaidBy(h)
    BY DEF SaidBy, SaysNoMore
  <2> QED BY <2>1, NoticesAre
<1>2. \A c \in Conns : InSnapshot(c)' \subseteq Notices
  <2>1. \A c \in Conns : InSnapshot(c)' \subseteq InSnapshot(c)
    BY DEF InSnapshot, Listed
  <2> QED BY <2>1, NoticesAre
<1>3. \A b \in Browsers : InAnswer(b)' \subseteq Notices
  <2>1. \A b \in Browsers : InAnswer(b)' \subseteq InAnswer(b)
    BY DEF InAnswer, Listed
  <2> QED BY <2>1, NoticesAre
<1> QED BY <1>1, <1>2, <1>3, FromSources

LEMMA SameWire == UNCHANGED wire => \A c \in Conns : OnWire(c)' \subseteq Notices
<1> SUFFICES ASSUME UNCHANGED wire PROVE \A c \in Conns : OnWire(c)' \subseteq Notices
  OBVIOUS
<1>1. \A c : OnWire(c)' = OnWire(c)
  BY DEF OnWire, IsEnd
<1> QED BY <1>1, NoticesAre

LEMMA SameCall ==
  ASSUME NEW g, call'[g] = call[g]
  PROVE  SaysNoMore(g)
  BY DEF SaysNoMore, HasNotice, NoticeOf

------------------------------------------------------------------------------
(* The steps of the board. *)

\* What the table says from now on, and what is said of an order that it has had.
IsTrue(n)   == n \in Board!Notice /\ orders'[n.oid] = n.status
IsOfGone(n) == n \in Board!Notice /\ orders'[n.oid] = "DELETED" /\ ~n.adds

LEMMA BoardNames ==
  /\ Board!Oids = Oids /\ Board!OrderStatus = OrderStatus
  /\ Board!Notice = [oid : Oids, status : OrderStatus, adds : BOOLEAN]
  /\ \A o : Board!InTable(o) <=> InTable(o)
  BY DEF Board!Oids, Oids, Board!OrderStatus, OrderStatus, Board!Notice, Board!InTable, InTable

LEMMA WriteStep ==
  ASSUME NEW X, WritesOnly(X), \A n \in X : IsTrue(n) \/ IsOfGone(n)
  PROVE  Board!WriteNotices
  BY BoardNames DEF WritesOnly, IsTrue, IsOfGone, Board!WriteNotices

LEMMA NoneWritten ==
  ASSUME WritesOnly({})
  PROVE  Board!WriteNotices /\ Board!ThrowAway
  BY DEF WritesOnly, Board!WriteNotices, Board!ThrowAway

LEMMA SameShown == UNCHANGED rows => UNCHANGED Shown
  BY DEF Shown

LEMMA ReportStep ==
  ASSUME UNCHANGED <<orders, rows>>, Board!WriteNotices
  PROVE  Board!Next
  BY SameShown DEF Board!Report, Board!Next

LEMMA QuietStep ==
  ASSUME UNCHANGED <<orders, rows>>, WritesOnly({})
  PROVE  Board!Next
  BY NoneWritten, ReportStep

\* What b shows.
LEMMA ShownIs ==
  ASSUME NEW b \in Browsers
  PROVE  /\ \A p : p \in Shown[b] <=> \E o \in Oids : \E i \in DOMAIN rows[b][o] : p = <<o, rows[b][o][i]>>
         /\ \A p : p \in Shown'[b] <=> \E o \in Oids : \E i \in DOMAIN rows'[b][o] : p = <<o, rows'[b][o][i]>>
  BY DEF Shown, Range

\* A browser takes over what notices say, and adds an order only if one adds it.
TakesOver(b, o) ==
  \A i \in DOMAIN rows'[b][o] :
    /\ \/ \E k \in DOMAIN rows[b][o] : rows[b][o][k] = rows'[b][o][i]
       \/ \E n \in Notices : n.oid = o /\ n.status = rows'[b][o][i]
    /\ \/ DOMAIN rows[b][o] # {}
       \/ \E n \in Notices : n.oid = o /\ n.adds

LEMMA ShowStep ==
  ASSUME NEW b \in Browsers, UNCHANGED orders, WritesOnly({}),
         \A a \in Browsers \ {b} : rows'[a] = rows[a],
         \A o \in Oids : TakesOver(b, o)
  PROVE  Board!Next
<1>1. \A q \in Shown'[b] : q \in Shown[b] \/ \E n \in Notices : q = <<n.oid, n.status>>
  <2> SUFFICES ASSUME NEW o \in Oids, NEW i \in DOMAIN rows'[b][o]
               PROVE  \/ <<o, rows'[b][o][i]>> \in Shown[b]
                      \/ \E n \in Notices : <<o, rows'[b][o][i]>> = <<n.oid, n.status>>
    <3>1. \A q \in Shown'[b] : \E o \in Oids : \E i \in DOMAIN rows'[b][o] : q = <<o, rows'[b][o][i]>>
      BY ShownIs
    <3> QED BY <3>1
  <2>1. CASE \E k \in DOMAIN rows[b][o] : rows[b][o][k] = rows'[b][o][i]
    BY <2>1, ShownIs
  <2>2. CASE \E n \in Notices : n.oid = o /\ n.status = rows'[b][o][i]
    BY <2>2
  <2> QED BY <2>1, <2>2 DEF TakesOver
<1>2. \A q \in Shown'[b] : \/ \E p \in Shown[b] : p[1] = q[1]
                           \/ \E n \in Notices : n.adds /\ n.oid = q[1]
  <2> SUFFICES ASSUME NEW o \in Oids, NEW i \in DOMAIN rows'[b][o]
               PROVE  \/ \E p \in Shown[b] : p[1] = o
                      \/ \E n \in Notices : n.adds /\ n.oid = o
    BY ShownIs
  <2>1. CASE DOMAIN rows[b][o] # {}
    <3>1. PICK k \in DOMAIN rows[b][o] : TRUE
      BY <2>1
    <3>2. <<o, rows[b][o][k]>> \in Shown[b]
      BY <3>1, ShownIs
    <3> QED BY <3>2
  <2> QED BY <2>1 DEF TakesOver
<1>3. Shown' = [Shown EXCEPT ![b] = Shown'[b]]
  <2>1. \A a \in Browsers \ {b} : Shown'[a] = Shown[a]
    BY DEF Shown
  <2>2. Shown = [a \in Browsers |-> Shown[a]] /\ Shown' = [a \in Browsers |-> Shown'[a]]
    BY DEF Shown
  <2> QED BY <2>1, <2>2
<1>4. Board!OrdersOf(Shown'[b]) \subseteq
        Board!OrdersOf(Shown[b]) \cup {n.oid : n \in {m \in Notices : m.adds}}
  BY <1>2 DEF Board!OrdersOf
<1>5. Shown'[b] \subseteq Shown[b] \cup {<<n.oid, n.status>> : n \in Notices}
  BY <1>1
<1>6. Board!Show(b)
  BY <1>3, <1>4, <1>5, NoneWritten DEF Board!Show
<1> QED BY <1>6 DEF Board!Next

------------------------------------------------------------------------------
(* Handlers. *)

\* The handler h moves, and says nothing.
LEMMA SilentStep ==
  ASSUME NEW h \in Calls, UNCHANGED <<wire, load>>,
         \A c \in Conns : serve'[c].snapshot = serve[c].snapshot,
         \A g \in Calls \ {h} : call'[g] = call[g],
         call'[h].kind = "close" \/ call'[h].pc \notin {"copy", "send", "arrive"}
  PROVE  WritesOnly({})
<1>1. ~HasNotice(h)'
  BY DEF HasNotice
<1> QED BY <1>1, HandlerSays

LEMMA MovesSilently ==
  ASSUME TypeOK, Rest, NEW h \in Calls,
         FindSession(h) \/ ShutSession(h) \/ Fail(h) \/ SkipStats(h) \/ EndBroadcast(h)
  PROVE  Board!Next
<1>1. UNCHANGED <<orders, serve, wire, rows, load>>
  BY DEF FindSession, ShutSession, Fail, SkipStats, EndBroadcast, db, hub, net, page
<1>2. (\A g \in Calls \ {h} : call'[g] = call[g]) /\ call'[h].pc \notin {"copy", "send", "arrive"}
  <2>1. CASE FindSession(h)
    <3>1. \/ \E pc \in {"place", "shut"} : Goto(h, pc)
          \/ call' = [call EXCEPT ![h] = Over(h, "done")]
      BY <2>1 DEF FindSession, End
    <3> QED BY <3>1, GotoFacts, OverFacts DEF CallPcs
  <2>2. CASE ShutSession(h)
    BY <2>2, GotoFacts DEF ShutSession, CallPcs
  <2>3. CASE Fail(h)
    BY <2>3, OverFacts DEF Fail, GiveUp
  <2>4. CASE SkipStats(h) \/ EndBroadcast(h)
    BY <2>4, AfterBroadcastFacts DEF SkipStats, EndBroadcast, At, Rest
  <2> QED BY <2>1, <2>2, <2>3, <2>4
<1> QED BY <1>1, <1>2, SilentStep, QuietStep

LEMMA ReadOrderShows ==
  ASSUME TypeOK, NEW h \in Calls, NEW o \in Oids, NEW target \in OrderStatus, ReadOrder(h, o, target)
  PROVE  Board!Next
<1>1. UNCHANGED <<orders, serve, wire, rows, load>>
  BY DEF ReadOrder, db, hub, net, page
<1>2. (\A g \in Calls \ {h} : call'[g] = call[g]) /\ call'[h].pc \notin {"copy", "send", "arrive"}
  <2>1. CASE InTable(o)
    <3> DEFINE st == IF call[h].kind = "status" THEN target ELSE orders[o]
    <3>1. call' = [call EXCEPT ![h] = [call[h] EXCEPT !.pc = "write", !.oid = o, !.status = st]]
      BY <2>1 DEF ReadOrder
    <3> HIDE DEF st
    <3> QED BY <3>1 DEF TypeOK, Call
  <2>2. CASE ~InTable(o)
    BY <2>2, OverFacts DEF ReadOrder, End
  <2> QED BY <2>1, <2>2
<1> QED BY <1>1, <1>2, SilentStep, QuietStep

LEMMA CopyClientsShows ==
  ASSUME TypeOK, NEW h \in Calls, CopyClients(h)
  PROVE  Board!Next
<1>1. UNCHANGED <<orders, serve, wire, rows, load>>
  BY DEF CopyClients, db, hub, net, page
<1>2. PICK pc \in {"send", "sendStats"} :
        /\ At(h, IF pc = "send" THEN "copy" ELSE "copyStats")
        /\ call' = [call EXCEPT ![h] = [call[h] EXCEPT !.pc = pc, !.todo = clients]]
  BY DEF CopyClients
<1>3. /\ call'[h].pc = pc /\ call'[h].oid = call[h].oid /\ call'[h].kind = call[h].kind
      /\ call'[h].status = call[h].status
      /\ \A g \in Calls \ {h} : call'[g] = call[g]
  BY <1>2 DEF TypeOK, Call
<1>4. NoticeOf(h)' = NoticeOf(h) /\ (HasNotice(h)' => HasNotice(h))
  BY <1>2, <1>3 DEF NoticeOf, HasNotice, At
<1> QED BY <1>1, <1>3, <1>4, HandlerSays, QuietStep

\* What is broadcast of an order, or answered, is read from the table.
LEMMA ReadShows ==
  ASSUME TypeOK, Rest, NEW h \in Calls, ReadBack(h) \/ Reply(h)
  PROVE  Board!Next
<1>0. PICK o \in Oids : o = call[h].oid
  BY DEF TypeOK, Call
<1>1. UNCHANGED <<orders, serve, wire, rows, load>>
  BY DEF ReadBack, Reply, db, hub, net, page
<1>2. CASE call' = [call EXCEPT ![h] = Over(h, "done")]
  BY <1>1, <1>2, OverFacts, SilentStep, QuietStep
<1>3. CASE call' # [call EXCEPT ![h] = Over(h, "done")]
  <2>1. PICK pc \in {"copy", "arrive"} :
          /\ orders[o] \in OrderStatus
          /\ call' = [call EXCEPT ![h] = [call[h] EXCEPT !.pc = pc, !.status = orders[o]]]
    BY <1>0, <1>3 DEF ReadBack, Reply, End, InTable
  <2>2. /\ call'[h].oid = o /\ call'[h].status = orders[o]
        /\ \A g \in Calls \ {h} : call'[g] = call[g]
    BY <1>0, <2>1 DEF TypeOK, Call
  <2>3. IsTrue(NoticeOf(h)')
    BY <1>1, <2>1, <2>2, BoardNames DEF IsTrue, NoticeOf
  <2>4. Board!WriteNotices
    BY <1>1, <2>2, <2>3, HandlerSays, WriteStep
  <2> QED BY <1>1, <2>4, ReportStep
<1> QED BY <1>2, <1>3

LEMMA PlaceOrderShows ==
  ASSUME TypeOK, NEW h \in Calls, NEW o \in Oids, PlaceOrder(h, o)
  PROVE  Board!Next
<1>1. /\ UNCHANGED <<serve, wire, rows, load>>
      /\ \A p \in Oids : orders[p] # "NONE" <=> p < o
      /\ orders' = [orders EXCEPT ![o] = "NEW"]
      /\ call' = [call EXCEPT ![h] = [call[h] EXCEPT !.pc = "readBack", !.oid = o]]
  BY DEF PlaceOrder, hub, net, page
<1>2. call'[h].pc = "readBack" /\ \A g \in Calls \ {h} : call'[g] = call[g]
  BY <1>1 DEF TypeOK, Call
<1>3. Board!ThrowAway
  BY <1>1, <1>2, SilentStep, NoneWritten
<1>4. Board!Place(o)
  BY <1>1, <1>3, SameShown, BoardNames DEF Board!Place
<1> QED BY <1>4, BoardNames DEF Board!Next

\* The status that is announced is the one written, or that of an order that is gone.
LEMMA WriteOrderShows ==
  ASSUME TypeOK, Rest, NEW h \in Calls, WriteOrder(h)
  PROVE  Board!Next
<1>0. PICK o \in Oids, st \in OrderStatus : o = call[h].oid /\ st = call[h].status
  BY DEF TypeOK, Call
<1>1. UNCHANGED <<serve, wire, rows, load>> /\ call[h].pc = "write"
  BY DEF WriteOrder, At, hub, net, page
<1>2. call[h].kind \in {"status", "edit"}
  BY <1>1 DEF Rest, HandlersInStep, TypeOK, Call, AllKinds
<1>3. orders[o] # "NONE"
  BY <1>0, <1>1, <1>2 DEF Rest, NothingYet, Names
<1>4. CASE Goto(h, "copy")
  <2>1. /\ call'[h].oid = o /\ call'[h].status = st /\ call'[h].kind = call[h].kind
        /\ \A g \in Calls \ {h} : call'[g] = call[g]
    BY <1>0, <1>4, GotoFacts DEF CallPcs
  <2>2. NoticeOf(h)' = [oid |-> o, status |-> st, adds |-> FALSE]
    BY <1>2, <2>1 DEF NoticeOf
  <2>3. CASE InTable(o) /\ orders' = [orders EXCEPT ![o] = st]
    <3>1. IsTrue(NoticeOf(h)')
      BY <2>2, <2>3, BoardNames DEF IsTrue, TypeOK
    <3>2. Board!WriteNotices
      BY <1>1, <2>1, <3>1, HandlerSays, WriteStep
    <3>3. Board!Mark(o, st)
      BY <1>1, <2>3, <3>2, SameShown, BoardNames DEF Board!Mark
    <3> QED BY <3>3, BoardNames DEF Board!Next
  <2>4. CASE ~InTable(o) /\ UNCHANGED orders
    <3>1. orders[o] = "DELETED"
      BY <1>3, <2>4 DEF InTable, TypeOK
    <3>2. IsOfGone(NoticeOf(h)')
      BY <2>2, <2>4, <3>1, BoardNames DEF IsOfGone
    <3>3. Board!WriteNotices
      BY <1>1, <2>1, <3>2, HandlerSays, WriteStep
    <3> QED BY <1>1, <2>4, <3>3, ReportStep
  <2> QED BY <1>0, <2>3, <2>4 DEF WriteOrder
<1>5. CASE End(h) /\ UNCHANGED orders
  BY <1>1, <1>5, OverFacts, SilentStep, QuietStep DEF End
<1> QED BY <1>4, <1>5 DEF WriteOrder

LEMMA AllOrdersShow ==
  ASSUME TypeOK, Rest, NEW h \in Calls, PurgeOrders(h) \/ CompleteOrders(h)
  PROVE  Board!Next
<1>1. UNCHANGED <<serve, wire, rows, load>>
  BY DEF PurgeOrders, CompleteOrders, hub, net, page
<1>2. PICK target \in {"COMPLETED", "DELETED"} :
        orders' = [o \in Oids |-> IF InTable(o) THEN target ELSE orders[o]]
  BY DEF PurgeOrders, CompleteOrders
<1>3. /\ \A g \in Calls \ {h} : call'[g] = call[g]
      /\ call'[h].kind = "close" \/ call'[h].pc \notin {"copy", "send", "arrive"}
  <2>1. CASE PurgeOrders(h)
    BY <2>1, GotoFacts DEF PurgeOrders, CallPcs
  <2>2. CASE CompleteOrders(h)
    <3>1. call[h].kind = "close"
      BY <2>2 DEF CompleteOrders, Rest, HandlersInStep, At, TypeOK, Call, AllKinds
    <3> QED BY <2>2, <3>1, GotoFacts DEF CompleteOrders, CallPcs
  <2> QED BY <2>1, <2>2
<1>4. Board!ThrowAway
  BY <1>1, <1>3, SilentStep, NoneWritten
<1>5. orders' = [o \in Board!Oids |-> IF Board!InTable(o) THEN target ELSE orders[o]]
  BY <1>2, BoardNames
<1>6. Board!MarkAll(target)
  BY <1>1, <1>4, <1>5, SameShown DEF Board!MarkAll
<1> QED BY <1>6 DEF Board!Next

LEMMA ArriveShows ==
  ASSUME TypeOK, Rest, NEW h \in Calls, Arrive(h)
  PROVE  Board!Next
<1>0. PICK b \in Browsers, o \in Oids, st \in OrderStatus :
        b = call[h].from /\ o = call[h].oid /\ st = call[h].status
  BY DEF TypeOK, Call
<1>1. /\ UNCHANGED <<orders, serve, wire, load>> /\ At(h, "arrive")
      /\ call' = [call EXCEPT ![h] = Over(h, "done")]
      /\ rows' = [rows EXCEPT ![b] = Map(rows[b], o, st)]
  BY <1>0 DEF Arrive, End, db, hub, net
<1>2. WritesOnly({})
  BY <1>1, OverFacts, SilentStep
<1>3. call[h].kind # "close"
  BY <1>1 DEF Rest, HandlersInStep, At
<1>4. NoticeOf(h) \in Notices /\ NoticeOf(h).oid = o /\ NoticeOf(h).status = st
  BY <1>0, <1>1, <1>3, NoticesAre, SourcesAre DEF HasNotice, NoticeOf, At
<1>5. rows[b] \in [Oids -> Seq(OrderStatus)] /\ rows'[b] = Map(rows[b], o, st)
      /\ \A a \in Browsers \ {b} : rows'[a] = rows[a]
  BY <1>1 DEF TypeOK
<1>6. \A p \in Oids : TakesOver(b, p)
  BY <1>4, <1>5, MapFacts DEF TakesOver
<1> QED BY <1>1, <1>2, <1>5, <1>6, ShowStep

LEMMA CallStepShows ==
  ASSUME TypeOK, Rest, NEW h \in Calls, CallStep(h)
  PROVE  Board!Next
<1>1. CASE \E o \in Oids : PlaceOrder(h, o)
  BY <1>1, PlaceOrderShows
<1>2. CASE \E o \in Oids, target \in OrderStatus : ReadOrder(h, o, target)
  BY <1>2, ReadOrderShows
<1>3. CASE FindSession(h) \/ ShutSession(h) \/ Fail(h) \/ SkipStats(h) \/ EndBroadcast(h)
  BY <1>3, MovesSilently
<1>4. CASE ReadBack(h) \/ Reply(h) \/ CopyClients(h)
  BY <1>4, ReadShows, CopyClientsShows
<1>5. CASE WriteOrder(h) \/ PurgeOrders(h) \/ CompleteOrders(h) \/ Arrive(h)
  BY <1>5, WriteOrderShows, AllOrdersShow, ArriveShows
<1> QED BY <1>1, <1>2, <1>3, <1>4, <1>5 DEF CallStep

------------------------------------------------------------------------------
(* Connections. *)

\* A message that is put on the wire of c is under way already.
LEMMA AppendedNotices ==
  ASSUME TypeOK, NEW c \in Conns, NEW m \in Message, NEW K \in Nat, Appended(c, m, K),
         m.type = "session_closed" \/ Said(m) \in Notices
  PROVE  \A d \in Conns : OnWire(d)' \subseteq Notices
<1> SUFFICES ASSUME NEW d \in Conns, NEW i \in DOMAIN wire'[d], wire'[d][i].type # "session_closed"
             PROVE  Said(wire'[d][i]) \in Notices
  BY SourcesAreNext DEF IsEnd
<1>1. CASE i \in DOMAIN wire[d] /\ wire'[d][i] = wire[d][i]
  BY <1>1, SourcesAre, NoticesAre DEF IsEnd
<1>2. CASE d = c /\ wire'[d][i] = m
  BY <1>2
<1> QED BY <1>1, <1>2, AppendedFacts

LEMMA AnnouncedNotices ==
  ASSUME TypeOK, NEW h \in Calls, NEW c \in Conns, Transmit(h, c) \/ UNCHANGED wire
  PROVE  \A d \in Conns : OnWire(d)' \subseteq Notices
<1>1. CASE UNCHANGED wire
  BY <1>1, SameWire
<1>2. CASE Transmit(h, c) /\ ~(At(h, "send") /\ link[c] = "open")
  <2>1. ~At(h, "send") => MessageOf(h) = <<>>
    BY DEF MessageOf, At
  <2> QED BY <1>1, <1>2, <2>1, Unheard
<1>3. CASE Transmit(h, c) /\ At(h, "send") /\ link[c] = "open"
  <2>1. PICK m \in Message : m = Announcement(h)
    BY <1>3, AnnouncementFacts
  <2>2. wire' = [wire EXCEPT ![c] = @ \o <<m>>]
    BY <1>3, <2>1, AnnouncementFacts DEF Transmit
  <2>3. PICK K \in Nat : Appended(c, m, K)
    BY <2>2, AppendFacts
  <2>4. m.type # "session_closed" => HasNotice(h) /\ Said(m) = NoticeOf(h)
    BY <1>3, <2>1, AnnouncementFacts DEF HasNotice, Said, NoticeOf, At
  <2>5. m.type = "session_closed" \/ Said(m) \in Notices
    BY <2>4, SourcesAre, NoticesAre
  <2> QED BY <2>3, <2>5, AppendedNotices
<1> QED BY <1>1, <1>2, <1>3

LEMMA SnapshotNotices ==
  ASSUME TypeOK, NEW c \in Conns, Sending(c), Transmit(c, c)
  PROVE  \A d \in Conns : OnWire(d)' \subseteq Notices
<1>0. c \notin Calls
  OBVIOUS
<1>1. CASE serve[c].pc # "orders" \/ link[c] # "open"
  <2>1. serve[c].pc # "orders" => MessageOf(c) = <<>>
    BY <1>0 DEF MessageOf
  <2> QED BY <1>1, <2>1, Unheard, SameWire
<1>2. CASE serve[c].pc = "orders" /\ link[c] = "open"
  <2>1. serve[c] \in Serve /\ serve[c].snapshot # {}
    BY <1>2 DEF Sending, TypeOK
  <2>2. PICK e \in serve[c].snapshot : e = FirstOf(serve[c].snapshot)
    BY <2>1, FirstIsThere DEF Serve
  <2>3. PICK m : m = [type |-> "order_update", oid |-> e.oid, status |-> e.status]
    OBVIOUS
  <2>4. e \in Entry
    BY <2>1 DEF Serve
  <2>5. m \in Message /\ Said(m) = SaidOf(e, FALSE)
    BY <2>3, <2>4 DEF Message, Entry, Said, SaidOf
  <2>6. MessageOf(c) = <<m>>
    BY <1>0, <1>2, <2>2, <2>3 DEF MessageOf
  <2>7. wire' = [wire EXCEPT ![c] = @ \o <<m>>]
    BY <1>2, <2>6 DEF Transmit
  <2>8. PICK K \in Nat : Appended(c, m, K)
    BY <2>5, <2>7, AppendFacts
  <2>9. Said(m) \in Notices
    BY <2>5, SourcesAre, NoticesAre
  <2> QED BY <2>5, <2>8, <2>9, AppendedNotices
<1> QED BY <1>1, <1>2

\* The wire of c is cut off.
LEMMA CutNotices ==
  ASSUME TypeOK, NEW c \in Conns, wire' = [wire EXCEPT ![c] = <<>>]
  PROVE  \A d \in Conns : OnWire(d)' \subseteq Notices
<1>1. DOMAIN wire'[c] = {} /\ \A d \in Conns \ {c} : wire'[d] = wire[d]
  BY DEF TypeOK
<1>2. OnWire(c)' = {}
  BY <1>1, SourcesAreNext
<1>3. \A d \in Conns \ {c} : OnWire(d)' = OnWire(d)
  BY <1>1 DEF OnWire, IsEnd
<1> QED BY <1>2, <1>3, NoticesAre

\* Nothing new is under way, and no list shows more.
LEMMA WireStep ==
  ASSUME UNCHANGED <<orders, rows, load>>,
         \A h \in Calls : SaysNoMore(h),
         \A c \in Conns : serve'[c].snapshot \subseteq serve[c].snapshot,
         \A c \in Conns : OnWire(c)' \subseteq Notices
  PROVE  Board!Next
  BY NothingWritten, QuietStep

LEMMA WriteShows ==
  ASSUME TypeOK, NEW w \in Writers, NEW c \in Conns, Write(w, c)
  PROVE  Board!Next
<1>1. UNCHANGED <<orders, rows, load>>
  BY DEF Write, db, page
<1>2. CASE w \in Calls
  <2>1. /\ UNCHANGED serve
        /\ call' = [call EXCEPT ![w] = [call[w] EXCEPT !.todo = call[w].todo \ {c}]]
        /\ Transmit(w, c) \/ UNCHANGED wire
    BY <1>2 DEF Write, LoseMessage
  <2>2. \A g \in Calls : SaysNoMore(g)
    <3>1. /\ call'[w].pc = call[w].pc /\ call'[w].oid = call[w].oid /\ call'[w].kind = call[w].kind
          /\ call'[w].status = call[w].status
          /\ \A g \in Calls \ {w} : call'[g] = call[g]
      BY <1>2, <2>1 DEF TypeOK, Call
    <3>2. SaysNoMore(w)
      BY <3>1 DEF SaysNoMore, HasNotice, NoticeOf
    <3> QED BY <3>1, <3>2, SameCall
  <2>3. \A d \in Conns : OnWire(d)' \subseteq Notices
    BY <1>2, <2>1, AnnouncedNotices
  <2> QED BY <1>1, <2>1, <2>2, <2>3, WireStep
<1>3. CASE w \notin Calls
  <2>1. /\ w = c /\ Sending(c)
        /\ UNCHANGED call /\ ServeNext(c, AfterFirst(serve[c].snapshot))
        /\ Transmit(c, c) \/ UNCHANGED wire
    BY <1>3 DEF Write, Writes, MayWrite, Wants, LoseMessage
  <2>2. \A d \in Conns : serve'[d].snapshot \subseteq serve[d].snapshot
    <3>1. AfterFirst(serve[c].snapshot) \subseteq serve[c].snapshot
      BY DEF AfterFirst
    <3> QED BY <2>1, <3>1 DEF ServeNext, TypeOK
  <2>3. \A d \in Conns : OnWire(d)' \subseteq Notices
    BY <2>1, SnapshotNotices, SameWire
  <2> QED BY <1>1, <2>1, <2>2, <2>3, SameCall, WireStep
<1> QED BY <1>2, <1>3

LEMMA FailBroadcastWriteShows ==
  ASSUME TypeOK, NEW h \in Calls, NEW c \in Conns, FailBroadcastWrite(h, c)
  PROVE  Board!Next
<1>1. UNCHANGED <<orders, serve, wire, rows, load>>
  BY DEF FailBroadcastWrite, db, net, page
<1>2. call' = [call EXCEPT ![h] = [call[h] EXCEPT !.todo = call[h].todo \ {c},
                                                  !.dead = call[h].dead \cup {c}]]
  BY DEF FailBroadcastWrite
<1>3. /\ call'[h].pc = call[h].pc /\ call'[h].oid = call[h].oid /\ call'[h].kind = call[h].kind
      /\ call'[h].status = call[h].status
      /\ \A g \in Calls \ {h} : call'[g] = call[g]
  BY <1>2 DEF TypeOK, Call
<1>4. NoticeOf(h)' = NoticeOf(h) /\ (HasNotice(h)' => HasNotice(h))
  BY <1>3 DEF NoticeOf, HasNotice
<1> QED BY <1>1, <1>3, <1>4, HandlerSays, QuietStep

LEMMA PanicInBroadcastShows ==
  ASSUME TypeOK, NEW h \in Calls, NEW c \in Conns, PanicInBroadcast(h, c)
  PROVE  Board!Next
<1>1. /\ UNCHANGED <<orders, serve, rows, load>>
      /\ call' = [call EXCEPT ![h] = Over(h, "failed")]
      /\ Transmit(h, c) \/ UNCHANGED wire
  BY DEF PanicInBroadcast, GiveUp, db, page
<1>2. \A g \in Calls : SaysNoMore(g)
  <2>1. SaysNoMore(h)
    BY <1>1, OverFacts DEF SaysNoMore, HasNotice
  <2>2. \A g \in Calls \ {h} : call'[g] = call[g]
    BY <1>1, OverFacts
  <2> QED BY <2>1, <2>2, SameCall
<1> QED BY <1>1, <1>2, AnnouncedNotices, WireStep

\* The connection c ends, or the handler of c moves on without its list.
LEMMA EndShows ==
  ASSUME TypeOK, NEW c \in Conns, UNCHANGED <<orders, call, rows, load>>,
         \/ ServeEnd(c)
         \/ Disconnect(c) /\ UNCHANGED serve
         \/ ServeNext(c, {}) /\ UNCHANGED wire
  PROVE  Board!Next
<1>1. \A d \in Conns : serve'[d].snapshot \subseteq serve[d].snapshot
  BY DEF ServeEnd, ServeNext, TypeOK
<1>2. \A d \in Conns : OnWire(d)' \subseteq Notices
  BY CutNotices, SameWire DEF ServeEnd, Disconnect
<1> QED BY <1>1, <1>2, SameCall, WireStep

\* HandleWebSocket moves on, or an overlap begins.
LEMMA ServeMovesShows ==
  ASSUME TypeOK, UNCHANGED <<orders, call, wire, rows, load>>,
         \/ UNCHANGED serve
         \/ \E c \in Conns : \E pc : serve' = [serve EXCEPT ![c].pc = pc]
  PROVE  Board!Next
<1>1. \A d \in Conns : serve'[d].snapshot \subseteq serve[d].snapshot
  BY DEF TypeOK, Serve
<1> QED BY <1>1, SameWire, SameCall, WireStep

LEMMA ListOrdersShows ==
  ASSUME TypeOK, NEW c \in Conns, ListOrders(c)
  PROVE  Board!Next
<1>1. UNCHANGED <<orders, call, wire, rows, load>>
  BY DEF ListOrders, db, net, page
<1>2. /\ serve'[c].snapshot = GetOrdersBySession
      /\ \A d \in Conns \ {c} : serve'[d] = serve[d]
  BY DEF ListOrders, TypeOK
<1>0. PICK X : X = Listed(GetOrdersBySession, FALSE)
  OBVIOUS
<1>3. WritesOnly(X)
  <2>1. \A h : SaidBy(h)' = SaidBy(h)
    BY <1>1 DEF SaidBy, HasNotice, NoticeOf
  <2>2. \A d : OnWire(d)' = OnWire(d)
    BY <1>1 DEF OnWire, IsEnd
  <2>3. \A b : InAnswer(b)' = InAnswer(b)
    BY <1>1 DEF InAnswer
  <2>4. InSnapshot(c)' = X /\ \A d \in Conns \ {c} : InSnapshot(d)' = InSnapshot(d)
    BY <1>0, <1>2 DEF InSnapshot
  <2>5. /\ \A h \in Calls : SaidBy(h)' \subseteq Notices \cup X
        /\ \A d \in Conns : OnWire(d)' \subseteq Notices \cup X
        /\ \A b \in Browsers : InAnswer(b)' \subseteq Notices \cup X
    BY <2>1, <2>2, <2>3, NoticesAre
  <2>6. \A d \in Conns : InSnapshot(d)' \subseteq Notices \cup X
    BY <2>4, NoticesAre
  <2>7. \A n \in Notices' : n \in Notices \cup X
    BY <2>5, <2>6, NoticesAreNext
  <2> QED BY <2>7 DEF WritesOnly
<1>4. \A n \in X : IsTrue(n)
  <2> SUFFICES ASSUME NEW e \in Entry, orders[e.oid] = e.status PROVE IsTrue(SaidOf(e, FALSE))
    BY <1>0 DEF Listed, GetOrdersBySession, SaidOf
  <2> QED BY <1>1, BoardNames DEF Entry, SaidOf, IsTrue
<1>5. Board!WriteNotices
  BY <1>3, <1>4, WriteStep
<1> QED BY <1>1, <1>5, ReportStep

LEMMA ReceiveShows ==
  ASSUME TypeOK, NEW c \in Conns, Receive(c)
  PROVE  Board!Next
<1>0. PICK b \in Browsers : b = c[1]
  BY ConnFacts
<1>1. UNCHANGED <<orders, call, serve, load>> /\ wire[c] # <<>> /\ wire' = [wire EXCEPT ![c] = Tail(@)]
  BY DEF Receive, db, hub
<1>2. PICK m \in Message, K \in Nat : m = Head(wire[c]) /\ Taken(c, m, K)
  BY <1>1, TakeFacts
<1>3. \A d \in Conns : OnWire(d)' \subseteq Notices
  <2> SUFFICES ASSUME NEW d \in Conns, NEW i \in DOMAIN wire'[d], wire'[d][i].type # "session_closed"
               PROVE  Said(wire'[d][i]) \in Notices
    BY SourcesAreNext DEF IsEnd
  <2>1. Before(c, d, i) \in DOMAIN wire[d] /\ wire'[d][i] = wire[d][Before(c, d, i)]
    BY <1>2, TakenFacts
  <2> QED BY <2>1, SourcesAre, NoticesAre DEF IsEnd
<1>4. WritesOnly({})
  BY <1>1, <1>3, SameCall, NothingWritten
<1>5. m.type # "session_closed" => Said(m) \in Notices
  <2>1. 1 \in DOMAIN wire[c] /\ wire[c][1] = m
    BY <1>2, TakenFacts
  <2> QED BY <2>1, SourcesAre, NoticesAre DEF IsEnd
<1>6. \A a \in Browsers \ {b} : rows'[a] = rows[a]
  BY <1>0 DEF Receive, TypeOK
<1>7. ASSUME NEW o \in Oids PROVE TakesOver(b, o)
  <2>1. RowsTaken(b, o, m)
    <3>1. rows' = [rows EXCEPT ![b] =
             CASE m.type = "order_new"    -> [rows[b] EXCEPT ![m.oid] = Append(@, m.status)]
               [] m.type = "order_update" -> Map(rows[b], m.oid, m.status)
               [] OTHER                   -> [p \in Oids |-> <<>>]]
      BY <1>0, <1>2 DEF Receive
    <3> QED BY <3>1, RowsTakenFacts
  <2>2. Said(m).oid = m.oid /\ Said(m).status = m.status /\ Said(m).adds = (m.type = "order_new")
    BY DEF Said
  <2>3. CASE m.type # "session_closed" /\ m.oid # o
    BY <2>1, <2>3 DEF RowsTaken, TakesOver
  <2>4. CASE m.type = "order_new" /\ m.oid = o
    <3>1. \A i \in DOMAIN rows'[b][o] :
            (\E k \in DOMAIN rows[b][o] : rows[b][o][k] = rows'[b][o][i]) \/ rows'[b][o][i] = m.status
      BY <2>1, <2>4 DEF RowsTaken
    <3>2. Said(m) \in Notices /\ Said(m).adds
      BY <1>5, <2>2, <2>4
    <3> QED BY <2>2, <2>4, <3>1, <3>2 DEF TakesOver
  <2>5. CASE m.type = "order_update" /\ m.oid = o
    <3>1. \A i \in DOMAIN rows'[b][o] : rows'[b][o][i] = m.status
      BY <2>1, <2>5 DEF RowsTaken
    <3>2. DOMAIN rows'[b][o] = DOMAIN rows[b][o]
      <4>1. rows[b][o] \in Seq(OrderStatus) /\ rows'[b][o] \in Seq(OrderStatus)
        <5>1. rows' \in [Browsers -> [Oids -> Seq(OrderStatus)]]
          BY NextType DEF Next, ConnStep, TypeOK
        <5> QED BY <5>1 DEF TypeOK
      <4> QED BY <2>1, <2>5, <4>1, LenProperties DEF RowsTaken
    <3>3. Said(m) \in Notices
      BY <1>5, <2>5
    <3> QED BY <2>2, <2>5, <3>1, <3>2, <3>3 DEF TakesOver
  <2>6. CASE m.type = "session_closed"
    <3>1. DOMAIN rows'[b][o] = {}
      BY <2>1, <2>6 DEF RowsTaken
    <3> QED BY <3>1 DEF TakesOver
  <2> QED BY <2>3, <2>4, <2>5, <2>6 DEF Message
<1> QED BY <1>1, <1>4, <1>6, <1>7, ShowStep

LEMMA ConnStepShows ==
  ASSUME TypeOK, Rest, NEW c \in Conns, ConnStep(c)
  PROVE  Board!Next
<1>1. CASE \/ Register(c) \/ ListNone(c) \/ FindSessionToList(c) \/ FailList(c)
           \/ \E v, w \in Writers : Meet(v, w, c)
  BY <1>1, ServeMovesShows
     DEF Register, ListNone, FindSessionToList, FailList, Meet, db, net, page
<1>2. CASE Leave(c) \/ Break(c) \/ FailServeWrite(c) \/ PanicInServe(c)
  BY <1>2, EndShows DEF Leave, Break, FailServeWrite, PanicInServe, db, hub, net, page
<1>3. CASE ListOrders(c) \/ Receive(c) \/ \E w \in Writers : Write(w, c)
  BY <1>3, ListOrdersShows, ReceiveShows, WriteShows
<1>4. CASE \E h \in Calls : FailBroadcastWrite(h, c) \/ PanicInBroadcast(h, c)
  BY <1>4, FailBroadcastWriteShows, PanicInBroadcastShows
<1> QED BY <1>1, <1>2, <1>3, <1>4 DEF ConnStep

------------------------------------------------------------------------------
(* The page. *)

LEMMA AsksShow ==
  ASSUME TypeOK, NEW b \in Browsers,
         FindSessionToLoad(b) \/ FailLoad(b) \/ Reload(b) \/ \E n \in 1..MaxConns : Connect(b, n)
  PROVE  Board!Next
<1>1. UNCHANGED <<orders, call, wire, rows>>
  BY DEF FindSessionToLoad, FailLoad, Reload, Connect, db, hub, net, page
<1>2. \A a \in Browsers : load'[a].list = load[a].list
  <2>1. CASE FindSessionToLoad(b) \/ FailLoad(b)
    <3>1. \E pc : load' = [load EXCEPT ![b] = [load[b] EXCEPT !.pc = pc]]
      BY <2>1 DEF FindSessionToLoad, FailLoad
    <3> QED BY <3>1 DEF TypeOK, Load
  <2>2. CASE Reload(b)
    <3>1. load' = [load EXCEPT ![b] = [load[b] EXCEPT !.pc = "asked", !.times = load[b].times + 1]]
      BY <2>2 DEF Reload, TypeOK, Load
    <3> QED BY <3>1 DEF TypeOK, Load
  <2>3. CASE UNCHANGED load
    BY <2>3
  <2> QED BY <2>1, <2>2, <2>3 DEF Connect, page
<1>3. \A c \in Conns : serve'[c].snapshot = serve[c].snapshot
  <2>1. CASE UNCHANGED serve
    BY <2>1
  <2>2. CASE \E n \in 1..MaxConns : Connect(b, n)
    <3>1. PICK n \in 1..MaxConns : Connect(b, n)
      BY <2>2
    <3>2. PICK c : c = <<b, n>>
      OBVIOUS
    <3>3. serve' = [serve EXCEPT ![c] = [serve[c] EXCEPT !.pc = "register"]]
      BY <3>1, <3>2 DEF Connect
    <3> QED BY <3>3 DEF TypeOK, Serve
  <2> QED BY <2>1, <2>2 DEF FindSessionToLoad, FailLoad, Reload, hub
<1>4. WritesOnly({})
  BY <1>1, <1>2, <1>3, SameCall, SameWire, NothingWritten
<1> QED BY <1>1, <1>4, QuietStep

LEMMA ServeLoadShows ==
  ASSUME TypeOK, NEW b \in Browsers, ServeLoad(b)
  PROVE  Board!Next
<1>0. PICK X : X = Listed(GetOrdersBySession, TRUE)
  OBVIOUS
<1>1. UNCHANGED <<orders, call, serve, wire, rows>>
  BY DEF ServeLoad, db, hub, net
<1>2. load'[b].list = GetOrdersBySession /\ \A a \in Browsers \ {b} : load'[a] = load[a]
  <2>1. load' = [load EXCEPT ![b] = [load[b] EXCEPT !.pc = "answered", !.list = GetOrdersBySession]]
    BY DEF ServeLoad
  <2> QED BY <2>1 DEF TypeOK, Load
<1>3. WritesOnly(X)
  <2>1. \A h : SaidBy(h)' = SaidBy(h)
    BY <1>1 DEF SaidBy, HasNotice, NoticeOf
  <2>2. \A d : OnWire(d)' = OnWire(d)
    BY <1>1 DEF OnWire, IsEnd
  <2>3. \A d : InSnapshot(d)' = InSnapshot(d)
    BY <1>1 DEF InSnapshot
  <2>4. InAnswer(b)' = X /\ \A a \in Browsers \ {b} : InAnswer(a)' = InAnswer(a)
    BY <1>0, <1>2 DEF InAnswer
  <2>5. /\ \A h \in Calls : SaidBy(h)' \subseteq Notices \cup X
        /\ \A d \in Conns : OnWire(d)' \subseteq Notices \cup X
        /\ \A d \in Conns : InSnapshot(d)' \subseteq Notices \cup X
    BY <2>1, <2>2, <2>3, NoticesAre
  <2>6. \A a \in Browsers : InAnswer(a)' \subseteq Notices \cup X
    BY <2>4, NoticesAre
  <2>7. \A n \in Notices' : n \in Notices \cup X
    BY <2>5, <2>6, NoticesAreNext
  <2> QED BY <2>7 DEF WritesOnly
<1>4. \A n \in X : IsTrue(n)
  <2> SUFFICES ASSUME NEW e \in Entry, orders[e.oid] = e.status PROVE IsTrue(SaidOf(e, TRUE))
    BY <1>0 DEF Listed, GetOrdersBySession, SaidOf
  <2> QED BY <1>1, BoardNames DEF Entry, SaidOf, IsTrue
<1>5. Board!WriteNotices
  BY <1>3, <1>4, WriteStep
<1> QED BY <1>1, <1>5, ReportStep

LEMMA TakeLoadShows ==
  ASSUME TypeOK, NEW b \in Browsers, TakeLoad(b)
  PROVE  Board!Next
<1>1. UNCHANGED <<orders, call, serve, wire>>
  BY DEF TakeLoad, db, hub, net
<1>2. /\ \A a \in Browsers : load'[a].list \subseteq load[a].list
      /\ \A a \in Browsers \ {b} : rows'[a] = rows[a]
  <2>1. load' = [load EXCEPT ![b] = [load[b] EXCEPT !.pc = "loaded", !.list = {}]]
    BY DEF TakeLoad
  <2> QED BY <2>1 DEF TakeLoad, TypeOK, Load
<1>3. WritesOnly({})
  BY <1>1, <1>2, SameCall, SameWire, NothingWritten
<1>4. ASSUME NEW o \in Oids PROVE TakesOver(b, o)
  <2>1. CASE rows'[b][o] = <<>>
    BY <2>1 DEF TakesOver
  <2>2. CASE \E st \in OrderStatus : rows'[b][o] = <<st>> /\ [oid |-> o, status |-> st] \in load[b].list
    <3>1. PICK st \in OrderStatus : rows'[b][o] = <<st>> /\ [oid |-> o, status |-> st] \in load[b].list
      BY <2>2
    <3>2. \A i \in DOMAIN rows'[b][o] : rows'[b][o][i] = st
      BY <3>1
    <3>3. PICK n : n = [oid |-> o, status |-> st, adds |-> TRUE]
      OBVIOUS
    <3>4. n \in Notices /\ n.oid = o /\ n.status = st /\ n.adds
      BY <3>1, <3>3, SourcesAre, NoticesAre DEF SaidOf
    <3> QED BY <3>2, <3>4 DEF TakesOver
  <2> QED BY <2>1, <2>2, TakenListFacts
<1> QED BY <1>1, <1>2, <1>3, <1>4, ShowStep

LEMMA PageStepShows ==
  ASSUME TypeOK, NEW b \in Browsers, PageStep(b)
  PROVE  Board!Next
  BY AsksShow, ServeLoadShows, TakeLoadShows DEF PageStep

------------------------------------------------------------------------------

LEMMA InitCalls ==
  ASSUME Init, NEW h \in Calls
  PROVE  call[h].pc \in {"session", "delete", "read"}
<1>1. PICK kind \in Kinds, b \in Browsers :
        call[h] = [kind |-> kind, from |-> b, oid |-> 1, status |-> "NEW", todo |-> {},
                   dead |-> {}, pc |-> FirstPc(kind)]
  BY DEF Init, NewCalls
<1> QED BY <1>1 DEF FirstPc

LEMMA InitShows == Init => Board!Init
<1> SUFFICES ASSUME Init PROVE Board!Init
  OBVIOUS
<1>1. \E os \in {{}, {1}} : orders = [o \in Board!Oids |-> IF o \in os THEN "NEW" ELSE "NONE"]
  <2>1. PICK first \in {"NONE", "NEW"} : orders = [o \in Oids |-> IF o = 1 THEN first ELSE "NONE"]
    BY DEF Init
  <2>2. CASE first = "NEW"
    <3>1. orders = [o \in Board!Oids |-> IF o \in {1} THEN "NEW" ELSE "NONE"]
      BY <2>1, <2>2, BoardNames
    <3> QED BY <3>1
  <2>3. CASE first = "NONE"
    <3>1. orders = [o \in Board!Oids |-> IF o \in {} THEN "NEW" ELSE "NONE"]
      BY <2>1, <2>3, BoardNames
    <3> QED BY <3>1
  <2> QED BY <2>2, <2>3
<1>2. Notices = {}
  <2>1. \A h \in Calls : ~HasNotice(h)
    BY InitCalls DEF HasNotice
  <2>2. /\ \A c \in Conns : DOMAIN wire[c] = {} /\ serve[c].snapshot = {}
        /\ \A b \in Browsers : load[b].list = {}
    BY DEF Init
  <2> QED BY <2>1, <2>2, SourcesAre, NoticesAre
<1>3. Shown = [b \in Browsers |-> {}]
  <2>1. \A b \in Browsers, o \in Oids : rows[b][o] = <<>>
    BY DEF Init
  <2>2. \A b \in Browsers : Shown[b] = {}
    BY <2>1, ShownIs
  <2> QED BY <2>2 DEF Shown
<1> QED BY <1>1, <1>2, <1>3 DEF Board!Init

\* Handlers, hub and pages implement the notice board: whatever broadcasts are
\* lost, late or overtaken, by loads and reconnections too, the list of useOrders.ts
\* shows of an order only what the database has said of it at some time, or what an
\* UpdateOrderStatus announced that found the order purged; and an order_update, or
\* an entry of the snapshot, puts no order on a list.
THEOREM Implementation == Spec => ShowsNotices
<1>1. Init => Board!Init
  BY InitShows
<1>2. IndInv /\ [Next]_vars => [Board!Next]_Board!board
  <2> SUFFICES ASSUME IndInv, [Next]_vars PROVE [Board!Next]_Board!board
    OBVIOUS
  <2>1. TypeOK /\ Rest
    BY DEF IndInv, Rest
  <2>2. CASE Next
    BY <2>1, <2>2, CallStepShows, ConnStepShows, PageStepShows DEF Next
  <2>3. CASE UNCHANGED vars
    <3>1. UNCHANGED <<orders, call, serve, wire, rows, load>>
      BY <2>3 DEF vars, db, hub, net, page
    <3>2. WritesOnly({})
      BY <3>1, SameCall, SameWire, NothingWritten
    <3> QED BY <3>1, <3>2, QuietStep
  <2> QED BY <2>2, <2>3
<1> QED BY <1>1, <1>2, Invariance, PTL DEF Spec, ShowsNotices, Board!Spec
================================================================================
