---------------------------- MODULE MenuBoardProofs ----------------------------
(***************************************************************************)
(* Proofs about MenuBoard, for any number of calls, menu items and orders. *)
(* Every action moves one call; most leave the tables alone, and for those *)
(* it is enough that the call fits where it now stands (QuietStep).        *)
(***************************************************************************)
EXTENDS MenuBoard, TLAPS, FiniteSetTheorems

USE KindsAssumption, BoundsAssumption, PricesAssumption

------------------------------------------------------------------------------
(* Types. *)

LEMMA PcNames ==
  /\ "start" \in Pcs /\ "write" \in Pcs /\ "delete" \in Pcs /\ "setNull" \in Pcs
  /\ "insert" \in Pcs /\ "row" \in Pcs /\ "commitRows" \in Pcs /\ "look" \in Pcs
  /\ "open" \in Pcs /\ "line" \in Pcs /\ "commitLines" \in Pcs /\ "done" \in Pcs
  BY DEF Pcs

LEMMA FirstIds == 1 \in Ids /\ 1 \in Oids
  BY DEF Ids, Oids

LEMMA IdleType ==
  ASSUME NEW pc \in Pcs
  PROVE  /\ Idle(pc) \in Call /\ Idle(pc).pc = pc /\ Idle(pc).kind = "none"
         /\ Idle(pc).locks = {} /\ Idle(pc).lines = {} /\ Idle(pc).overtaken = FALSE
<1>1. (CHOOSE p \in Prices : TRUE) \in Prices
  OBVIOUS
<1> DEFINE q == CHOOSE p \in Prices : TRUE
<1> HIDE DEF q
<1>2. [price |-> q, active |-> TRUE, pos |-> 0] \in Values
  BY <1>1 DEF Values, q
<1> QED BY <1>2, FirstIds DEF Idle, Call, q

LEMMA WithType ==
  ASSUME TypeOK, NEW c \in Calls, NEW rec \in Call, call' = With(c, rec)
  PROVE  /\ call' \in [Calls -> Call]
         /\ call'[c] = rec
         /\ \A d \in Calls \ {c} : call'[d] = call[d]
  BY DEF TypeOK, With

LEMMA MarkType ==
  ASSUME NEW rec \in Call, NEW b \in BOOLEAN, NEW new, new = [rec EXCEPT !.overtaken = b]
  PROVE  /\ new \in Call /\ new.overtaken = b
         /\ new.kind = rec.kind /\ new.pc = rec.pc /\ new.item = rec.item
         /\ new.read = rec.read /\ new.to = rec.to /\ new.todo = rec.todo
         /\ new.oid = rec.oid /\ new.lines = rec.lines /\ new.locks = rec.locks
  BY DEF Call

\* Everything of a call but its mark.
Unmoved(d) ==
  /\ call'[d].kind = call[d].kind /\ call'[d].pc = call[d].pc
  /\ call'[d].item = call[d].item /\ call'[d].read = call[d].read
  /\ call'[d].to = call[d].to /\ call'[d].todo = call[d].todo
  /\ call'[d].oid = call[d].oid /\ call'[d].lines = call[d].lines
  /\ call'[d].locks = call[d].locks

\* A call to which the menu happens keeps everything but that mark.
LEMMA WroteType ==
  ASSUME TypeOK, NEW c \in Calls, NEW rec \in Call, NEW items, Wrote(c, rec, items)
  PROVE  /\ call' \in [Calls -> Call]
         /\ call'[c] = rec
         /\ \A d \in Calls \ {c} : Unmoved(d)
         /\ \A d \in Calls \ {c} : call'[d].overtaken = (call[d].overtaken \/ Behind(d, items))
<1>1. call'[c] = rec /\ DOMAIN call' = Calls /\ call' = [d \in Calls |-> call'[d]]
  BY DEF Wrote
<1>2. ASSUME NEW d \in Calls \ {c}
      PROVE  /\ call'[d] = [call[d] EXCEPT !.overtaken = call[d].overtaken \/ Behind(d, items)]
             /\ call[d] \in Call
  BY DEF Wrote, TypeOK
<1>3. \A d \in Calls \ {c} : Behind(d, items) \in BOOLEAN
  BY DEF Behind, At
<1> HIDE DEF Behind
<1>4. ASSUME NEW d \in Calls \ {c}
      PROVE  /\ call'[d] \in Call
             /\ call'[d].overtaken = (call[d].overtaken \/ Behind(d, items))
             /\ Unmoved(d)
  <2> DEFINE b == call[d].overtaken \/ Behind(d, items)
  <2> DEFINE new == call'[d]
  <2>1. b \in BOOLEAN /\ call[d] \in Call
    BY <1>2, <1>3 DEF Call
  <2>2. new = [call[d] EXCEPT !.overtaken = b]
    BY <1>2
  <2> HIDE DEF b, new
  <2>3. /\ new \in Call /\ new.overtaken = b
        /\ new.kind = call[d].kind /\ new.pc = call[d].pc /\ new.item = call[d].item
        /\ new.read = call[d].read /\ new.to = call[d].to /\ new.todo = call[d].todo
        /\ new.oid = call[d].oid /\ new.lines = call[d].lines /\ new.locks = call[d].locks
    BY <2>1, <2>2, MarkType
  <2> QED BY <2>3, Zenon DEF b, new, Unmoved
<1>5. call' \in [Calls -> Call]
  BY <1>1, <1>4
<1> QED BY <1>1, <1>4, <1>5

\* What is left of a list of items is the next of them or the end.
LEMMA OnwardType ==
  ASSUME NEW rec \in Call, NEW todo \in SUBSET Ids, NEW pc \in Pcs, NEW last \in Pcs,
         NEW next \in Onward(rec, todo, pc, last)
  PROVE  /\ next \in Call /\ next.kind = rec.kind /\ next.read = rec.read /\ next.to = rec.to
         /\ next.oid = rec.oid /\ next.lines = rec.lines /\ next.locks = rec.locks
         /\ next.overtaken = rec.overtaken /\ next.todo = todo
         /\ \/ todo = {} /\ next.pc = last
            \/ next.pc = pc /\ next.item \in todo
<1>1. CASE todo = {}
  BY <1>1 DEF Onward, Call
<1>2. CASE todo # {}
  <2>1. PICK i \in todo : next = [rec EXCEPT !.pc = pc, !.item = i, !.todo = todo]
    BY <1>2 DEF Onward
  <2>2. i \in Ids
    OBVIOUS
  <2> QED BY <2>1, <2>2 DEF Call
<1> QED BY <1>1, <1>2

------------------------------------------------------------------------------
(* A call that fits where it stands. *)

\* What IndInv says of one call alone,
Fits(c) ==
  /\ call[c].pc \in {"write", "insert"}   => call[c].kind \in {"edit", "create"}
  /\ At(c, "insert")                     => call[c].read.active
  /\ call[c].pc \in {"delete", "setNull"} => Is(c, "delete")
  /\ call[c].pc \in {"row", "commitRows"} => Is(c, "reorder")
  /\ call[c].pc \in {"look", "open", "line", "commitLines"} => call[c].kind \in {"order", "amend"}
  /\ call[c].pc \in {"start", "write", "delete", "insert", "look", "open", "done"} =>
       call[c].locks = {}
  /\ At(c, "setNull") => call[c].locks = {call[c].item}
  /\ \A l \in call[c].lines : /\ At(c, "line") => l.item \in call[c].locks \cup call[c].todo
                              /\ At(c, "commitLines") => l.item \in call[c].locks
  /\ call[c].pc \in {"row", "commitRows"} =>
       /\ \A i, j \in Ids : call[c].to[i] = call[c].to[j] /\ call[c].to[i] # 0 => i = j
       /\ \A i \in call[c].locks \cup call[c].todo : call[c].to[i] # 0
       /\ At(c, "row") => call[c].item \in call[c].todo

\* of a call and the menu,
LocksFit(c) == call[c].locks \subseteq OnMenu
ReadFits(c) ==
  ~call[c].overtaken =>
    /\ At(c, "write") /\ There(call[c].item) => call[c].read = ValuesOf(menu[call[c].item])
    /\ At(c, "insert") => \A i \in OnMenu : menu[i].pos < call[c].read.pos

\* and of two calls.
Apart(c, d) == At(c, "setNull") => call[c].item \notin call[d].locks

LEMMA EachFits ==
  IndInv => /\ \A c \in Calls : Fits(c) /\ LocksFit(c) /\ ReadFits(c)
            /\ \A c, d \in Calls : c # d => Apart(c, d)
  BY DEF IndInv, Fits, LocksFit, ReadFits, Apart, HandlersInStep, LocksHold, LinesHeld,
         ArrangesApart, ReadsHold

LEMMA AllFit ==
  ASSUME TypeOK, FieldsAsLastSaid, PositionsDistinctUnlessMuddled, LinkedItemsExist,
         \A c \in Calls : Fits(c) /\ LocksFit(c) /\ ReadFits(c),
         \A c, d \in Calls : c # d => Apart(c, d)
  PROVE  IndInv
<1>1. HandlersInStep
  BY DEF HandlersInStep, Fits
<1>2. LocksHold
  BY DEF LocksHold, Fits, LocksFit, Apart
<1>3. LinesHeld
  BY DEF LinesHeld, Fits
<1>4. ArrangesApart
  BY DEF ArrangesApart, Fits
<1>5. ReadsHold
  BY DEF ReadsHold, ReadFits
<1> QED BY <1>1, <1>2, <1>3, <1>4, <1>5 DEF IndInv

LEMMA AllFitNext ==
  (/\ TypeOK /\ FieldsAsLastSaid /\ PositionsDistinctUnlessMuddled /\ LinkedItemsExist
   /\ \A c \in Calls : Fits(c) /\ LocksFit(c) /\ ReadFits(c)
   /\ \A c, d \in Calls : c # d => Apart(c, d))'
  => IndInv'
  BY AllFit, PTL

\* A step of one call that leaves the tables alone.
LEMMA QuietStep ==
  ASSUME IndInv, NEW c \in Calls, UNCHANGED <<menu, orders, said, spoilt, muddled>>,
         call' \in [Calls -> Call], \A d \in Calls \ {c} : call'[d] = call[d],
         Fits(c)', LocksFit(c)', ReadFits(c)',
         \A d \in Calls \ {c} : Apart(c, d)' /\ Apart(d, c)'
  PROVE  IndInv'
<1>1. TypeOK'
  BY DEF IndInv, TypeOK
<1>2. FieldsAsLastSaid'
  BY DEF IndInv, FieldsAsLastSaid, OnMenu, There
<1>3. PositionsDistinctUnlessMuddled' /\ LinkedItemsExist'
  BY DEF IndInv, PositionsDistinctUnlessMuddled, LinkedItemsExist, Active, OnMenu, There
<1>4. ASSUME NEW d \in Calls PROVE Fits(d)' /\ LocksFit(d)' /\ ReadFits(d)'
  <2>1. CASE d # c
    <3>1. call'[d] = call[d] /\ Fits(d) /\ LocksFit(d) /\ ReadFits(d)
      BY <2>1, EachFits
    <3>2. Fits(d)'
      BY <3>1 DEF Fits, At, Is
    <3>3. LocksFit(d)' /\ ReadFits(d)'
      BY <3>1 DEF LocksFit, ReadFits, At, OnMenu, There, ValuesOf
    <3> QED BY <3>2, <3>3
  <2> QED BY <2>1
<1>5. ASSUME NEW d \in Calls, NEW e \in Calls, d # e PROVE Apart(d, e)'
  <2>1. CASE d # c /\ e # c
    <3>1. call'[d] = call[d] /\ call'[e] = call[e] /\ Apart(d, e)
      BY <1>5, <2>1, EachFits
    <3> QED BY <3>1 DEF Apart, At
  <2> QED BY <1>5, <2>1
<1> QED BY <1>1, <1>2, <1>3, <1>4, <1>5, AllFitNext

\* A call that has ended fits everywhere.
LEMMA DoneFits ==
  ASSUME NEW c \in Calls, call[c] = Answered
  PROVE  /\ Fits(c) /\ LocksFit(c) /\ ReadFits(c)
         /\ \A d \in Calls \ {c} : Apart(c, d) /\ Apart(d, c)
<1>1. call[c].pc = "done" /\ call[c].kind = "none" /\ call[c].locks = {} /\ call[c].lines = {}
  BY IdleType, PcNames DEF Answered
<1> QED BY <1>1 DEF Fits, LocksFit, ReadFits, Apart, At, Is

LEMMA DoneFitsNext ==
  ASSUME NEW c \in Calls
  PROVE  (call[c] = Answered)' =>
           (/\ Fits(c) /\ LocksFit(c) /\ ReadFits(c)
            /\ \A d \in Calls \ {c} : Apart(c, d) /\ Apart(d, c))'
  BY DoneFits, PTL

\* A call ends and leaves the tables alone.
LEMMA EndingStep ==
  ASSUME IndInv, NEW c \in Calls, call' = With(c, Answered),
         UNCHANGED <<menu, orders, said, spoilt, muddled>>
  PROVE  IndInv'
<1>1. Answered \in Call
  BY IdleType, PcNames DEF Answered
<1>2. /\ call' \in [Calls -> Call] /\ call'[c] = Answered
      /\ \A d \in Calls \ {c} : call'[d] = call[d]
  BY <1>1, WithType DEF IndInv
<1>3. (call[c] = Answered)'
  BY <1>2 DEF Answered, Idle
<1> QED BY <1>2, <1>3, DoneFitsNext, QuietStep

------------------------------------------------------------------------------
(* The steps that leave the tables alone. *)

LEMMA ReadMaxOrderStep ==
  ASSUME IndInv, NEW c \in Calls, ReadMaxOrder(c)
  PROVE  IndInv'
<1>1. /\ TypeOK /\ Fits(c) /\ At(c, "start") /\ call[c] \in Call /\ call[c].locks = {}
      /\ menu \in [Ids -> Row] /\ UNCHANGED <<menu, orders, said, spoilt, muddled>>
      /\ "create" \in Kinds
  BY EachFits DEF IndInv, TypeOK, ReadMaxOrder, Fits, At
<1>2. PICK pos \in NextPosition, p \in Prices :
        call' = With(c, [call[c] EXCEPT !.kind = "create", !.pc = "insert",
                           !.read = [price |-> p, active |-> TRUE, pos |-> pos]])
  BY DEF ReadMaxOrder
<1>3. pos \in Nat /\ \A i \in OnMenu : menu[i].pos < pos
  <2>1. PICK m \in {0} \cup {menu[i].pos : i \in OnMenu} :
          pos = m + 1 /\ \A i \in OnMenu : menu[i].pos <= m
    BY DEF NextPosition
  <2>2. \A i \in OnMenu : menu[i].pos \in Nat
    BY <1>1 DEF OnMenu, Row
  <2> QED BY <2>1, <2>2
<1> DEFINE rec == [call[c] EXCEPT !.kind = "create", !.pc = "insert",
                     !.read = [price |-> p, active |-> TRUE, pos |-> pos]]
<1>4. [price |-> p, active |-> TRUE, pos |-> pos] \in Values
  BY <1>3 DEF Values
<1>5. /\ rec \in Call /\ rec.kind = "create" /\ rec.pc = "insert" /\ rec.read.pos = pos
      /\ rec.read.active = TRUE /\ rec.locks = {}
  BY <1>1, <1>4, PcNames DEF Call
<1> HIDE DEF rec
<1>6. /\ call' \in [Calls -> Call] /\ call'[c] = rec
      /\ \A d \in Calls \ {c} : call'[d] = call[d]
  BY <1>1, <1>2, <1>5, WithType DEF rec
<1>7. Fits(c)' /\ LocksFit(c)' /\ ReadFits(c)'
  <2>1. \A i \in OnMenu' : menu'[i].pos < rec.read.pos
    BY <1>1, <1>3, <1>5 DEF OnMenu, There
  <2> QED BY <1>5, <1>6, <2>1 DEF Fits, LocksFit, ReadFits, At, Is
<1>8. \A d \in Calls \ {c} : Apart(c, d)' /\ Apart(d, c)'
  BY <1>5, <1>6 DEF Apart, At
<1> QED BY <1>1, <1>6, <1>7, <1>8, QuietStep

LEMMA ReadMenuItemStep ==
  ASSUME IndInv, NEW c \in Calls, NEW i \in Ids, NEW kind \in {"edit", "delete"},
         ReadMenuItem(c, i, kind)
  PROVE  IndInv'
<1>1. /\ TypeOK /\ Fits(c) /\ At(c, "start") /\ call[c] \in Call /\ call[c].locks = {}
      /\ menu \in [Ids -> Row] /\ UNCHANGED <<menu, orders, said, spoilt, muddled>>
      /\ kind \in Kinds
  BY EachFits DEF IndInv, TypeOK, ReadMenuItem, Fits, At
<1>2. CASE ~There(i)
  BY <1>1, <1>2, EndingStep DEF ReadMenuItem
<1>3. CASE There(i)
  <2> DEFINE read == IF kind = "edit" THEN ValuesOf(menu[i]) ELSE call[c].read
  <2> DEFINE rec == [call[c] EXCEPT !.kind = kind, !.item = i,
                       !.pc = IF kind = "edit" THEN "write" ELSE "delete",
                       !.read = IF kind = "edit" THEN ValuesOf(menu[i]) ELSE @]
  <2>1. call' = With(c, rec)
    BY <1>3 DEF ReadMenuItem
  <2>2. read \in Values
    BY <1>1 DEF Row, Values, ValuesOf, Call
  <2>3. /\ rec \in Call /\ rec.kind = kind /\ rec.item = i /\ rec.locks = {} /\ rec.read = read
        /\ rec.pc = IF kind = "edit" THEN "write" ELSE "delete"
    <3> HIDE DEF read
    <3>1. rec = [call[c] EXCEPT !.kind = kind, !.item = i, !.read = read,
                   !.pc = IF kind = "edit" THEN "write" ELSE "delete"]
      BY <1>1 DEF Call, read
    <3> HIDE DEF rec
    <3> QED BY <1>1, <2>2, <3>1, PcNames DEF Call
  <2> HIDE DEF rec
  <2>4. /\ call' \in [Calls -> Call] /\ call'[c] = rec
        /\ \A d \in Calls \ {c} : call'[d] = call[d]
    BY <1>1, <2>1, <2>3, WithType
  <2>5. Fits(c)' /\ LocksFit(c)'
    BY <2>3, <2>4 DEF Fits, LocksFit, At, Is
  <2>6. ReadFits(c)'
    BY <1>1, <2>3, <2>4 DEF ReadFits, At, There, ValuesOf
  <2>7. \A d \in Calls \ {c} : Apart(c, d)' /\ Apart(d, c)'
    BY <2>3, <2>4 DEF Apart, At
  <2> QED BY <1>1, <2>4, <2>5, <2>6, <2>7, QuietStep
<1> QED BY <1>2, <1>3

\* The row to be deleted is nobody else's.
LEMMA LockToDeleteStep ==
  ASSUME IndInv, NEW c \in Calls, LockToDelete(c)
  PROVE  IndInv'
<1>1. /\ TypeOK /\ Fits(c) /\ At(c, "delete") /\ call[c] \in Call /\ Is(c, "delete") /\ Free(c)
      /\ UNCHANGED <<menu, orders, said, spoilt, muddled>>
  BY EachFits DEF IndInv, TypeOK, LockToDelete, Fits, At
<1> DEFINE i == call[c].item
<1>2. CASE ~There(i)
  BY <1>1, <1>2, EndingStep DEF LockToDelete
<1>3. CASE There(i)
  <2> DEFINE rec == [call[c] EXCEPT !.pc = "setNull", !.locks = {call[c].item}]
  <2>1. call' = With(c, rec)
    BY <1>3 DEF LockToDelete
  <2>2. i \in Ids /\ i \in OnMenu
    BY <1>1, <1>3 DEF Call, OnMenu
  <2>3. /\ rec \in Call /\ rec.kind = "delete" /\ rec.item = i /\ rec.locks = {i}
        /\ rec.pc = "setNull"
    BY <1>1, <2>2, PcNames DEF Call, Is
  <2> HIDE DEF rec
  <2>4. /\ call' \in [Calls -> Call] /\ call'[c] = rec
        /\ \A d \in Calls \ {c} : call'[d] = call[d]
    BY <1>1, <2>1, <2>3, WithType
  <2>5. Fits(c)' /\ LocksFit(c)' /\ ReadFits(c)'
    BY <1>1, <2>2, <2>3, <2>4 DEF Fits, LocksFit, ReadFits, At, Is, OnMenu, There
  <2>6. ASSUME NEW d \in Calls \ {c} PROVE i \notin call[d].locks
    <3>1. Fits(d) /\ call[d] \in Call
      BY <1>1, EachFits DEF TypeOK
    <3>2. call[d].kind \in {"edit", "create"} => call[d].locks = {}
      BY <3>1, EachFits DEF Fits, Call, Pcs, Is
    <3>3. call[d].kind \in Against("delete") => i \notin call[d].locks
      BY <1>1 DEF Free, WaitsFor, At
    <3>4. call[d].kind = "none" => call[d].locks = {}
      BY <3>1 DEF Fits, Call, Pcs, Is
    <3>5. call[d].kind \in {"create", "edit", "delete", "reorder", "order", "amend", "none"}
      BY <3>1 DEF Call, AllKinds
    <3> QED BY <3>2, <3>3, <3>4, <3>5 DEF Against
  <2>7. ASSUME NEW d \in Calls \ {c} PROVE Apart(c, d)' /\ Apart(d, c)'
    <3>1. call'[d] = call[d] /\ i \notin call[d].locks /\ Fits(d)
      BY <2>4, <2>6, EachFits
    <3> QED BY <2>3, <2>4, <3>1 DEF Apart, At, Fits
  <2> QED BY <1>1, <2>4, <2>5, <2>7, QuietStep
<1> QED BY <1>2, <1>3

LEMMA BeginReorderStep ==
  ASSUME IndInv, NEW c \in Calls, BeginReorder(c)
  PROVE  IndInv'
<1>1. /\ TypeOK /\ Fits(c) /\ At(c, "start") /\ call[c] \in Call /\ call[c].locks = {}
      /\ UNCHANGED <<menu, orders, said, spoilt, muddled>> /\ "reorder" \in Kinds
  BY EachFits DEF IndInv, TypeOK, BeginReorder, Fits, At
<1>2. PICK S \in (SUBSET Ids) \ {{}} : \E f \in Arrangements(S) :
        \E rec \in Onward([call[c] EXCEPT !.kind = "reorder", !.to = f], S, "row", "commitRows") :
          call' = With(c, rec)
  BY DEF BeginReorder
<1>2a. PICK f \in Arrangements(S) :
        \E rec \in Onward([call[c] EXCEPT !.kind = "reorder", !.to = f], S, "row", "commitRows") :
          call' = With(c, rec)
  BY <1>2
<1> DEFINE old == [call[c] EXCEPT !.kind = "reorder", !.to = f]
<1>3. PICK rec \in Onward(old, S, "row", "commitRows") : call' = With(c, rec)
  BY <1>2a
<1>4. /\ f \in [Ids -> Nat]
      /\ \A i \in Ids : f[i] = 0 <=> i \notin S
      /\ \A i, j \in S : f[i] = f[j] => i = j
  <2>1. IsFiniteSet(S)
    <3>1. IsFiniteSet(Ids)
      <4>1. MaxItems \in Int /\ 1 \in Int
        OBVIOUS
      <4> QED BY <4>1, FS_Interval, Zenon DEF Ids
    <3>2. S \subseteq Ids
      OBVIOUS
    <3> QED BY <3>1, <3>2, FS_Subset
  <2>2. Cardinality(S) \in Nat
    BY <2>1, FS_CardinalityType
  <2> QED BY <2>2 DEF Arrangements
<1>5. old \in Call /\ old.kind = "reorder" /\ old.to = f /\ old.locks = {}
  BY <1>1, <1>4 DEF Call
<1> HIDE DEF old
<1>6. /\ rec \in Call /\ rec.kind = "reorder" /\ rec.to = f /\ rec.locks = {} /\ rec.todo = S
      /\ rec.pc = "row" /\ rec.item \in S
  BY <1>3, <1>5, OnwardType, PcNames
<1>7. /\ call' \in [Calls -> Call] /\ call'[c] = rec
      /\ \A d \in Calls \ {c} : call'[d] = call[d]
  BY <1>1, <1>3, <1>6, WithType
<1>8. Fits(c)' /\ LocksFit(c)' /\ ReadFits(c)'
  BY <1>4, <1>6, <1>7 DEF Fits, LocksFit, ReadFits, At, Is
<1>9. \A d \in Calls \ {c} : Apart(c, d)' /\ Apart(d, c)'
  BY <1>6, <1>7 DEF Apart, At
<1> QED BY <1>1, <1>7, <1>8, <1>9, QuietStep

\* A row that is locked is not being deleted.
LEMMA UpdateRowStep ==
  ASSUME IndInv, NEW c \in Calls, UpdateRow(c)
  PROVE  IndInv'
<1> DEFINE i == call[c].item
<1> DEFINE locks == call[c].locks \cup ({i} \cap OnMenu)
<1> DEFINE todo == call[c].todo \ {i}
<1> DEFINE old == [call[c] EXCEPT !.locks = @ \cup ({call[c].item} \cap OnMenu)]
<1>1. /\ TypeOK /\ Fits(c) /\ LocksFit(c) /\ At(c, "row") /\ call[c] \in Call /\ Is(c, "reorder")
      /\ Free(c) /\ UNCHANGED <<menu, orders, said, spoilt, muddled>>
      /\ \A d \in Calls \ {c} : Apart(d, c)
  BY EachFits DEF IndInv, TypeOK, UpdateRow, Fits, At
<1>2. PICK rec \in Onward(old, todo, "row", "commitRows") : call' = With(c, rec)
  BY DEF UpdateRow
<1>3. /\ locks \in SUBSET Ids /\ locks \subseteq OnMenu /\ todo \in SUBSET Ids
      /\ locks \subseteq call[c].locks \cup {i} /\ i \in call[c].todo
  BY <1>1 DEF Call, OnMenu, LocksFit, Fits, At
<1>4. old \in Call /\ old.kind = "reorder" /\ old.to = call[c].to /\ old.locks = locks
  BY <1>1, <1>3 DEF Call, Is
<1>5. todo \subseteq call[c].todo
  OBVIOUS
<1> HIDE DEF old, locks, todo
<1>6. /\ rec \in Call /\ rec.kind = "reorder" /\ rec.to = call[c].to /\ rec.locks = locks
      /\ rec.todo = todo
      /\ rec.pc \in {"row", "commitRows"} /\ (rec.pc = "row" => rec.item \in todo)
  BY <1>2, <1>3, <1>4, OnwardType, PcNames
<1>7. /\ call' \in [Calls -> Call] /\ call'[c] = rec
      /\ \A d \in Calls \ {c} : call'[d] = call[d]
  BY <1>1, <1>2, <1>6, WithType
<1>8. Fits(c)'
  BY <1>1, <1>3, <1>5, <1>6, <1>7 DEF Fits, At, Is
<1>9. LocksFit(c)' /\ ReadFits(c)'
  BY <1>1, <1>3, <1>6, <1>7 DEF LocksFit, ReadFits, At, OnMenu, There
<1>10. ASSUME NEW d \in Calls \ {c} PROVE Apart(c, d)' /\ Apart(d, c)'
  <2>1. call'[d] = call[d] /\ Fits(d) /\ Apart(d, c)
    BY <1>1, <1>7, EachFits
  <2>2. At(d, "setNull") => i # call[d].item
    BY <1>1, <2>1 DEF Free, WaitsFor, Against, At, Fits, Is
  <2> QED BY <1>3, <1>6, <1>7, <2>1, <2>2 DEF Apart, At
<1> QED BY <1>1, <1>7, <1>8, <1>9, <1>10, QuietStep

LEMMA BeginOrderStep ==
  ASSUME IndInv, NEW c \in Calls, NEW o \in Oids, NEW kind \in {"order", "amend"},
         BeginOrder(c, o, kind)
  PROVE  IndInv'
<1>1. /\ TypeOK /\ Fits(c) /\ At(c, "start") /\ call[c] \in Call /\ call[c].locks = {}
      /\ UNCHANGED <<menu, orders, said, spoilt, muddled>> /\ kind \in Kinds
  BY EachFits DEF IndInv, TypeOK, BeginOrder, Fits, At
<1>2. CASE kind = "amend" /\ orders[o] = {}
  BY <1>1, <1>2, EndingStep DEF BeginOrder
<1>3. CASE ~(kind = "amend" /\ orders[o] = {})
  <2>1. PICK S \in SUBSET Ids :
          call' = With(c, [call[c] EXCEPT !.kind = kind, !.pc = "look", !.todo = S,
                             !.oid = IF kind = "amend" THEN o ELSE @])
    BY <1>3 DEF BeginOrder
  <2> DEFINE rec == [call[c] EXCEPT !.kind = kind, !.pc = "look", !.todo = S,
                       !.oid = IF kind = "amend" THEN o ELSE @]
  <2>2. rec \in Call /\ rec.kind = kind /\ rec.pc = "look" /\ rec.locks = {}
    BY <1>1, PcNames DEF Call
  <2> HIDE DEF rec
  <2>3. /\ call' \in [Calls -> Call] /\ call'[c] = rec
        /\ \A d \in Calls \ {c} : call'[d] = call[d]
    BY <1>1, <2>1, <2>2, WithType DEF rec
  <2>4. Fits(c)' /\ LocksFit(c)' /\ ReadFits(c)'
    BY <2>2, <2>3 DEF Fits, LocksFit, ReadFits, At, Is
  <2>5. \A d \in Calls \ {c} : Apart(c, d)' /\ Apart(d, c)'
    BY <2>2, <2>3 DEF Apart, At
  <2> QED BY <1>1, <2>3, <2>4, <2>5, QuietStep
<1> QED BY <1>2, <1>3

LEMMA CaptureItemStep ==
  ASSUME IndInv, NEW c \in Calls, NEW i \in Ids, CaptureItem(c, i)
  PROVE  IndInv'
<1>1. /\ TypeOK /\ Fits(c) /\ At(c, "look") /\ call[c] \in Call /\ call[c].locks = {}
      /\ UNCHANGED <<menu, orders, said, spoilt, muddled>>
      /\ call[c].kind \in {"order", "amend"} /\ menu \in [Ids -> Row]
  BY EachFits DEF IndInv, TypeOK, CaptureItem, Fits, At
<1>2. CASE ~There(i)
  BY <1>1, <1>2, EndingStep DEF CaptureItem
<1>3. CASE There(i)
  <2> DEFINE rec == [call[c] EXCEPT
               !.todo = @ \ {i},
               !.lines = @ \cup {[item |-> i, price |-> menu[i].price, linked |-> TRUE]},
               !.pc = IF call[c].todo = {i} THEN "open" ELSE @]
  <2>1. call' = With(c, rec)
    BY <1>3 DEF CaptureItem
  <2>2. [item |-> i, price |-> menu[i].price, linked |-> TRUE] \in Line
    BY <1>1 DEF Row, Line
  <2>3. /\ rec \in Call /\ rec.kind = call[c].kind /\ rec.locks = {}
        /\ rec.pc \in {"look", "open"}
    BY <1>1, <2>2, PcNames DEF Call, At
  <2> HIDE DEF rec
  <2>4. /\ call' \in [Calls -> Call] /\ call'[c] = rec
        /\ \A d \in Calls \ {c} : call'[d] = call[d]
    BY <1>1, <2>1, <2>3, WithType
  <2>5. Fits(c)' /\ LocksFit(c)' /\ ReadFits(c)'
    BY <1>1, <2>3, <2>4 DEF Fits, LocksFit, ReadFits, At, Is
  <2>6. \A d \in Calls \ {c} : Apart(c, d)' /\ Apart(d, c)'
    BY <2>3, <2>4 DEF Apart, At
  <2> QED BY <1>1, <2>4, <2>5, <2>6, QuietStep
<1> QED BY <1>2, <1>3

\* All lines are still to be inserted.
LEMMA OpenOrderStep ==
  ASSUME IndInv, NEW c \in Calls, OpenOrder(c)
  PROVE  IndInv'
<1> DEFINE todo == {l.item : l \in call[c].lines}
<1>1. /\ TypeOK /\ Fits(c) /\ At(c, "open") /\ call[c] \in Call /\ call[c].locks = {}
      /\ UNCHANGED <<menu, orders, said, spoilt, muddled>>
      /\ call[c].kind \in {"order", "amend"}
  BY EachFits DEF IndInv, TypeOK, OpenOrder, Fits, At
<1>2. PICK rec \in Onward(call[c], todo, "line", "commitLines") : call' = With(c, rec)
  BY DEF OpenOrder
<1>3. todo \in SUBSET Ids /\ \A l \in call[c].lines : l.item \in todo
  BY <1>1 DEF Call, Line
<1> HIDE DEF todo
<1>4. /\ rec \in Call /\ rec.kind = call[c].kind /\ rec.locks = {} /\ rec.lines = call[c].lines
      /\ rec.todo = todo
      /\ rec.pc = "line" \/ (todo = {} /\ rec.pc = "commitLines")
  BY <1>1, <1>2, <1>3, OnwardType, PcNames
<1>5. /\ call' \in [Calls -> Call] /\ call'[c] = rec
      /\ \A d \in Calls \ {c} : call'[d] = call[d]
  BY <1>1, <1>2, <1>4, WithType
<1>6. Fits(c)' /\ LocksFit(c)' /\ ReadFits(c)'
  BY <1>1, <1>3, <1>4, <1>5 DEF Fits, LocksFit, ReadFits, At, Is
<1>7. \A d \in Calls \ {c} : Apart(c, d)' /\ Apart(d, c)'
  BY <1>4, <1>5 DEF Apart, At
<1> QED BY <1>1, <1>5, <1>6, <1>7, QuietStep

\* The item of the line is there, and stays: its row is locked now.
LEMMA InsertLineStep ==
  ASSUME IndInv, NEW c \in Calls, InsertLine(c)
  PROVE  IndInv'
<1> DEFINE i == call[c].item
<1> DEFINE locks == call[c].locks \cup {i}
<1> DEFINE todo == call[c].todo \ {i}
<1> DEFINE old == [call[c] EXCEPT !.locks = @ \cup {call[c].item}]
<1>1. /\ TypeOK /\ Fits(c) /\ LocksFit(c) /\ At(c, "line") /\ call[c] \in Call /\ Free(c)
      /\ UNCHANGED <<menu, orders, said, spoilt, muddled>>
      /\ call[c].kind \in {"order", "amend"}
      /\ \A d \in Calls \ {c} : Apart(d, c)
  BY EachFits DEF IndInv, TypeOK, InsertLine, Fits, At
<1>2. CASE ~There(i)
  BY <1>1, <1>2, EndingStep DEF InsertLine, RolledBack, Answered
<1>3. CASE There(i)
  <2>1. PICK rec \in Onward(old, todo, "line", "commitLines") : call' = With(c, rec)
    BY <1>3 DEF InsertLine
  <2>2. /\ locks \in SUBSET Ids /\ locks \subseteq OnMenu /\ todo \in SUBSET Ids
        /\ locks = call[c].locks \cup {i} /\ todo = call[c].todo \ {i}
    BY <1>1, <1>3 DEF Call, OnMenu, LocksFit
  <2>3. old \in Call /\ old.kind = call[c].kind /\ old.locks = locks /\ old.lines = call[c].lines
    BY <1>1, <2>2 DEF Call
  <2>4. \A l \in call[c].lines : l.item \in locks \cup todo
    BY <1>1, <2>2 DEF Fits, At
  <2> HIDE DEF old, locks, todo
  <2>5. /\ rec \in Call /\ rec.kind = call[c].kind /\ rec.locks = locks
        /\ rec.lines = call[c].lines /\ rec.todo = todo
        /\ rec.pc = "line" \/ (todo = {} /\ rec.pc = "commitLines")
    BY <2>1, <2>2, <2>3, OnwardType, PcNames
  <2>6. /\ call' \in [Calls -> Call] /\ call'[c] = rec
        /\ \A d \in Calls \ {c} : call'[d] = call[d]
    BY <1>1, <2>1, <2>5, WithType
  <2>7. Fits(c)' /\ LocksFit(c)' /\ ReadFits(c)'
    BY <1>1, <2>2, <2>4, <2>5, <2>6 DEF Fits, LocksFit, ReadFits, At, Is, OnMenu, There
  <2>8. ASSUME NEW d \in Calls \ {c} PROVE Apart(c, d)' /\ Apart(d, c)'
    <3>1. call'[d] = call[d] /\ Fits(d) /\ Apart(d, c)
      BY <1>1, <2>6, EachFits
    <3>2. At(d, "setNull") => i # call[d].item
      BY <1>1, <3>1 DEF Free, WaitsFor, Against, At, Fits, Is
    <3> QED BY <2>2, <2>5, <2>6, <3>1, <3>2 DEF Apart, At
  <2> QED BY <1>1, <2>6, <2>7, <2>8, QuietStep
<1> QED BY <1>2, <1>3

LEMMA EndingSteps ==
  ASSUME IndInv, NEW c \in Calls, Refuse(c) \/ Fail(c) \/ DetectDeadlock(c)
  PROVE  IndInv'
<1>1. /\ call' = With(c, Answered)
      /\ UNCHANGED <<menu, orders, said, spoilt, muddled>>
  BY DEF Refuse, Fail, DetectDeadlock, RolledBack, Answered
<1> QED BY <1>1, EndingStep

------------------------------------------------------------------------------
(* The steps that write. *)

\* A call writes and answers; the others do not move.
LEMMA AnsweringStep ==
  ASSUME IndInv, NEW c \in Calls, (call[c] = Answered)', \A d \in Calls \ {c} : Unmoved(d),
         TypeOK', FieldsAsLastSaid', PositionsDistinctUnlessMuddled', LinkedItemsExist',
         \A d \in Calls \ {c} : LocksFit(d)' /\ ReadFits(d)'
  PROVE  IndInv'
<1>1. /\ Fits(c)' /\ LocksFit(c)' /\ ReadFits(c)'
      /\ \A d \in Calls \ {c} : Apart(c, d)' /\ Apart(d, c)'
  BY DoneFitsNext
<1>2. ASSUME NEW d \in Calls \ {c} PROVE Fits(d)'
  <2>1. Fits(d) /\ Unmoved(d)
    BY EachFits
  <2> QED BY <2>1 DEF Fits, Unmoved, At, Is
<1>3. ASSUME NEW d \in Calls, NEW e \in Calls, d # e PROVE Apart(d, e)'
  <2>1. CASE d # c /\ e # c
    <3>1. Unmoved(d) /\ Unmoved(e) /\ Apart(d, e)
      BY <1>3, <2>1, EachFits
    <3> QED BY <3>1 DEF Apart, At, Unmoved
  <2> QED BY <1>1, <1>3, <2>1
<1> QED BY <1>1, <1>2, <1>3, AllFitNext

LEMMA WroteAnswer ==
  ASSUME TypeOK, NEW c \in Calls, NEW items, Wrote(c, Answered, items)
  PROVE  /\ call' \in [Calls -> Call] /\ (call[c] = Answered)'
         /\ \A d \in Calls \ {c} : /\ Unmoved(d)
                                   /\ call'[d].overtaken = (call[d].overtaken \/ Behind(d, items))
<1>1. Answered \in Call
  BY IdleType, PcNames DEF Answered
<1>2. /\ call' \in [Calls -> Call] /\ call'[c] = Answered
      /\ \A d \in Calls \ {c} : /\ Unmoved(d)
                                /\ call'[d].overtaken = (call[d].overtaken \/ Behind(d, items))
  <2>1. /\ call' \in [Calls -> Call]
        /\ call'[c] = Answered
        /\ \A d \in Calls \ {c} : Unmoved(d)
    BY <1>1, WroteType
  <2>2. ASSUME NEW d \in Calls \ {c}
        PROVE  call'[d].overtaken = (call[d].overtaken \/ Behind(d, items))
    BY <1>1, WroteType, Zenon
  <2> QED BY <2>1, <2>2
<1> QED BY <1>2 DEF Answered, Idle

LEMMA WithAnswer ==
  ASSUME TypeOK, NEW c \in Calls, call' = With(c, Answered)
  PROVE  /\ call' \in [Calls -> Call] /\ (call[c] = Answered)'
         /\ \A d \in Calls \ {c} : call'[d] = call[d] /\ Unmoved(d)
<1>1. Answered \in Call
  BY IdleType, PcNames DEF Answered
<1>2. call' \in [Calls -> Call] /\ call'[c] = Answered /\ \A d \in Calls \ {c} : call'[d] = call[d]
  BY <1>1, WithType
<1> QED BY <1>2 DEF Answered, Idle, Unmoved

\* The new item comes last, unless another one came in between.
LEMMA InsertMenuItemStep ==
  ASSUME IndInv, NEW c \in Calls, NEW i \in Ids, InsertMenuItem(c, i)
  PROVE  IndInv'
<1>1. /\ TypeOK /\ FieldsAsLastSaid /\ PositionsDistinctUnlessMuddled /\ LinkedItemsExist
      /\ Fits(c) /\ ReadFits(c) /\ At(c, "insert") /\ call[c] \in Call
      /\ Wrote(c, Answered, {i}) /\ UNCHANGED <<orders, spoilt>>
  BY EachFits DEF IndInv, TypeOK, InsertMenuItem
<1> DEFINE row == [state |-> "THERE", price |-> call[c].read.price, active |-> TRUE,
                   pos |-> call[c].read.pos]
<1>2. menu' = [menu EXCEPT ![i] = row] /\ ~There(i)
  BY DEF InsertMenuItem, There, Ids
<1>3. call[c].read \in Values /\ row \in Row
  BY <1>1 DEF Call, Values, Row
<1>4. /\ call' \in [Calls -> Call] /\ (call[c] = Answered)'
      /\ \A d \in Calls \ {c} : /\ Unmoved(d)
                                /\ call'[d].overtaken = (call[d].overtaken \/ Behind(d, {i}))
  BY <1>1, WroteAnswer
<1>5. said' = [said EXCEPT ![i] = call[c].read] /\ muddled' = (muddled \/ call[c].overtaken)
  BY DEF InsertMenuItem
<1>6. TypeOK'
  <2>1. muddled' \in BOOLEAN
    BY <1>1, <1>5 DEF TypeOK, Call
  <2>2. menu' \in [Ids -> Row] /\ said' \in [Ids -> Values]
    <3> HIDE DEF row
    <3> QED BY <1>1, <1>2, <1>3, <1>5 DEF TypeOK
  <2> QED BY <1>1, <1>4, <2>1, <2>2 DEF TypeOK
<1>7. /\ OnMenu' = OnMenu \cup {i}
      /\ \A j \in OnMenu : j # i /\ menu'[j] = menu[j] /\ said'[j] = said[j]
      /\ menu'[i] = row /\ said'[i] = call[c].read
  BY <1>1, <1>2, <1>5 DEF TypeOK, OnMenu, There
<1>8. FieldsAsLastSaid'
  <2> SUFFICES ASSUME NEW j \in OnMenu', NEW f \in Fields
               PROVE  <<j, f>> \in spoilt' \/ menu'[j][f] = said'[j][f]
    BY DEF FieldsAsLastSaid
  <2>1. CASE j = i
    <3>1. \/ f = "price" /\ row[f] = call[c].read.price
          \/ f = "active" /\ row[f] = TRUE
          \/ f = "pos" /\ row[f] = call[c].read.pos
      BY DEF Fields
    <3>2. call[c].read.active = TRUE
      BY <1>1 DEF Fits, At
    <3> QED BY <1>7, <2>1, <3>1, <3>2
  <2>2. CASE j \in OnMenu
    BY <1>1, <1>7, <2>2 DEF FieldsAsLastSaid
  <2> QED BY <1>7, <2>1, <2>2
<1>9. PositionsDistinctUnlessMuddled'
  <2> SUFFICES ASSUME ~muddled', NEW j \in Active', NEW k \in Active', menu'[j].pos = menu'[k].pos
               PROVE  j = k
    BY DEF PositionsDistinctUnlessMuddled
  <2>1. ~muddled /\ ~call[c].overtaken
    BY <1>5
  <2>2. \A l \in OnMenu : menu[l].pos < call[c].read.pos /\ menu[l].pos \in Nat
    BY <1>1, <2>1 DEF ReadFits, OnMenu, TypeOK, Row
  <2>3. call[c].read.pos \in Nat
    BY <1>3 DEF Values
  <2>4. \A l \in Active' : l = i \/ (l \in Active /\ l \in OnMenu)
    BY <1>7 DEF Active
  <2>5. menu'[i].pos = call[c].read.pos /\ \A l \in OnMenu : menu'[l] = menu[l]
    BY <1>7
  <2> QED BY <1>1, <2>1, <2>2, <2>3, <2>4, <2>5 DEF PositionsDistinctUnlessMuddled
<1>10. LinkedItemsExist'
  <2>1. \A j \in Ids : There(j) => There(j)'
    BY <1>1, <1>2 DEF There, TypeOK
  <2> QED BY <1>1, <2>1 DEF LinkedItemsExist, TypeOK, Line
<1>11. ASSUME NEW d \in Calls \ {c} PROVE LocksFit(d)' /\ ReadFits(d)'
  <2>1. LocksFit(d) /\ ReadFits(d) /\ Unmoved(d)
    BY <1>4, EachFits
  <2>2. LocksFit(d)'
    BY <1>7, <2>1 DEF LocksFit, Unmoved
  <2>3. ReadFits(d)'
    <3> SUFFICES ASSUME ~call'[d].overtaken PROVE ReadFits(d)'
      BY DEF ReadFits
    <3>1. ~call[d].overtaken /\ ~At(d, "insert") /\ ~(At(d, "write") /\ call[d].item = i)
      BY <1>4 DEF Behind
    <3>2. \A j \in Ids : j # i => menu'[j] = menu[j]
      BY <1>1, <1>2 DEF TypeOK
    <3>3. call[d] \in Call /\ call[d].item \in Ids
      BY <1>1 DEF TypeOK, Call
    <3> QED BY <2>1, <3>1, <3>2, <3>3 DEF ReadFits, Unmoved, At, There, ValuesOf
  <2> QED BY <2>2, <2>3
<1> QED BY <1>4, <1>6, <1>8, <1>9, <1>10, <1>11, AnsweringStep

\* The fields that are given, and those that are not.
LEMMA EditedType ==
  ASSUME NEW v \in Values, NEW p \in Prices \cup {NotGiven}, NEW a \in GivenActive
  PROVE  /\ Edited(v, p, a) \in Values /\ Edited(v, p, a).pos = v.pos
         /\ "price" \in Unsaid(p, a) => Edited(v, p, a).price = v.price
         /\ "active" \in Unsaid(p, a) => Edited(v, p, a).active = v.active
         /\ "pos" \in Unsaid(p, a) /\ Unsaid(p, a) \subseteq Fields
<1>1. p # NotGiven => p \in Prices
  OBVIOUS
<1>2. (TRUE \in a) \in BOOLEAN
  BY DEF GivenActive
<1>3. /\ "price" \in Unsaid(p, a) => p = NotGiven
      /\ "active" \in Unsaid(p, a) => a = {}
      /\ "pos" \in Unsaid(p, a) /\ Unsaid(p, a) \subseteq Fields
  BY DEF Unsaid, Fields
<1>4. Edited(v, p, a) \in Values /\ Edited(v, p, a).pos = v.pos
  BY <1>1, <1>2 DEF Edited, Values
<1>5. p = NotGiven => Edited(v, p, a).price = v.price
  BY DEF Edited, Values
<1>6. a = {} => Edited(v, p, a).active = v.active
  BY DEF Edited, Values
<1> QED BY <1>3, <1>4, <1>5, <1>6

\* An edit writes the row it has read.  What the request does not give is
\* therefore as it was, or the edit was overtaken and the history says so.
LEMMA UpdateMenuItemStep ==
  ASSUME IndInv, NEW c \in Calls, NEW p \in Prices \cup {NotGiven}, NEW a \in GivenActive,
         UpdateMenuItem(c, p, a)
  PROVE  IndInv'
<1> DEFINE i == call[c].item
<1> DEFINE read == call[c].read
<1> DEFINE new == Edited(read, p, a)
<1> DEFINE row == [menu[i] EXCEPT !.price = new.price, !.active = new.active, !.pos = new.pos]
<1>1. /\ TypeOK /\ FieldsAsLastSaid /\ PositionsDistinctUnlessMuddled /\ LinkedItemsExist
      /\ ReadFits(c) /\ At(c, "write") /\ call[c] \in Call /\ UNCHANGED orders
      /\ i \in Ids /\ read \in Values /\ menu[i] \in Row /\ said[i] \in Values
  BY EachFits DEF IndInv, TypeOK, UpdateMenuItem, Call
<1>2. CASE ~There(i)
  BY <1>1, <1>2, EndingStep DEF UpdateMenuItem
<1>3. CASE There(i)
  <2>1. /\ menu' = [menu EXCEPT ![i].price = new.price, ![i].active = new.active,
                                ![i].pos = new.pos]
        /\ Wrote(c, Answered, {i})
        /\ said' = [said EXCEPT
                      ![i].price  = IF "price" \in Unsaid(p, a) THEN @ ELSE new.price,
                      ![i].active = IF "active" \in Unsaid(p, a) THEN @ ELSE new.active]
        /\ spoilt' = IF call[c].overtaken
                     THEN (spoilt \ Pairs({i}, Fields)) \cup Pairs({i}, Unsaid(p, a))
                     ELSE spoilt \ Pairs({i}, Fields \ Unsaid(p, a))
        /\ muddled' = (\/ muddled \/ call[c].overtaken
                       \/ new.active /\ ~menu[i].active)
    BY <1>3 DEF UpdateMenuItem
  <2>2. /\ new \in Values /\ new.pos = read.pos
        /\ "price" \in Unsaid(p, a) => new.price = read.price
        /\ "active" \in Unsaid(p, a) => new.active = read.active
        /\ "pos" \in Unsaid(p, a) /\ Unsaid(p, a) \subseteq Fields
    BY <1>1, EditedType
  <2> HIDE DEF new
  <2>3. /\ new.price \in Prices /\ new.active \in BOOLEAN /\ new.pos \in Nat
    BY <2>2 DEF Values
  <2>4. /\ row \in Row /\ row.state = "THERE" /\ row.price = new.price
        /\ row.active = new.active /\ row.pos = new.pos
    BY <1>1, <1>3, <2>3 DEF Row, There
  <2>5. menu' = [menu EXCEPT ![i] = row]
    BY <1>1, <2>1 DEF TypeOK
  <2> HIDE DEF row
  <2>6. PICK v \in Values :
          /\ said' = [said EXCEPT ![i] = v]
          /\ v.price = IF "price" \in Unsaid(p, a) THEN said[i].price ELSE new.price
          /\ v.active = IF "active" \in Unsaid(p, a) THEN said[i].active ELSE new.active
          /\ v.pos = said[i].pos
    <3> DEFINE v == [said[i] EXCEPT
                       !.price  = IF "price" \in Unsaid(p, a) THEN @ ELSE new.price,
                       !.active = IF "active" \in Unsaid(p, a) THEN @ ELSE new.active]
    <3>1. said' = [said EXCEPT ![i] = v]
      BY <1>1, <2>1 DEF TypeOK
    <3>2. /\ v \in Values
          /\ v.price = IF "price" \in Unsaid(p, a) THEN said[i].price ELSE new.price
          /\ v.active = IF "active" \in Unsaid(p, a) THEN said[i].active ELSE new.active
          /\ v.pos = said[i].pos
      BY <1>1, <2>3 DEF Values
    <3> HIDE DEF v
    <3> QED BY <3>1, <3>2
  <2>7. /\ call' \in [Calls -> Call] /\ (call[c] = Answered)'
        /\ \A d \in Calls \ {c} : /\ Unmoved(d)
                                  /\ call'[d].overtaken = (call[d].overtaken \/ Behind(d, {i}))
    BY <1>1, <2>1, WroteAnswer
  <2>8. TypeOK'
    <3>1. menu' \in [Ids -> Row] /\ said' \in [Ids -> Values]
      BY <1>1, <2>4, <2>5, <2>6 DEF TypeOK
    <3>2. spoilt' \subseteq Ids \X Fields
      BY <1>1, <2>1, <2>2 DEF TypeOK, Pairs
    <3>3. muddled' \in BOOLEAN
      <4>1. muddled \in BOOLEAN /\ call[c].overtaken \in BOOLEAN /\ menu[i].active \in BOOLEAN
        BY <1>1 DEF TypeOK, Call, Row
      <4> QED BY <2>1, <2>3, <4>1
    <3> QED BY <1>1, <2>7, <3>1, <3>2, <3>3 DEF TypeOK
  <2>9. /\ OnMenu' = OnMenu /\ i \in OnMenu
        /\ \A j \in Ids : j # i => menu'[j] = menu[j] /\ said'[j] = said[j]
        /\ menu'[i] = row /\ said'[i] = v
    BY <1>1, <1>3, <2>4, <2>5, <2>6 DEF TypeOK, OnMenu, There
  <2>10. FieldsAsLastSaid'
    <3> SUFFICES ASSUME NEW j \in OnMenu', NEW f \in Fields, <<j, f>> \notin spoilt'
                 PROVE  menu'[j][f] = said'[j][f]
      BY DEF FieldsAsLastSaid
    <3>1. CASE j # i
      <4>1. <<j, f>> \notin spoilt
        BY <2>1, <3>1 DEF Pairs
      <4>2. menu'[j] = menu[j] /\ said'[j] = said[j] /\ j \in OnMenu
        BY <2>9, <3>1 DEF OnMenu
      <4> QED BY <1>1, <4>1, <4>2 DEF FieldsAsLastSaid
    <3>2. CASE j = i /\ f \notin Unsaid(p, a)
      <4>1. f \in {"price", "active"}
        BY <2>2, <3>2 DEF Fields
      <4> QED BY <2>4, <2>6, <2>9, <3>2, <4>1
    <3>3. CASE j = i /\ f \in Unsaid(p, a)
      <4>1. ~call[c].overtaken /\ <<i, f>> \notin spoilt
        BY <2>1, <3>3 DEF Pairs
      <4>2. menu[i][f] = said[i][f]
        BY <1>1, <2>9, <4>1 DEF FieldsAsLastSaid
      <4>3. read = ValuesOf(menu[i])
        BY <1>1, <1>3, <4>1 DEF ReadFits
      <4>4. /\ f = "price" => row.price = menu[i].price /\ v.price = said[i].price
            /\ f = "active" => row.active = menu[i].active /\ v.active = said[i].active
            /\ f = "pos" => row.pos = menu[i].pos /\ v.pos = said[i].pos
        BY <2>2, <2>4, <2>6, <3>3, <4>3 DEF ValuesOf
      <4>5. f \in {"price", "active", "pos"}
        BY DEF Fields
      <4> QED BY <2>9, <3>3, <4>2, <4>4, <4>5
    <3> QED BY <3>1, <3>2, <3>3
  <2>11. PositionsDistinctUnlessMuddled'
    <3> SUFFICES ASSUME ~muddled', NEW j \in Active', NEW k \in Active', menu'[j].pos = menu'[k].pos
                 PROVE  j = k
      BY DEF PositionsDistinctUnlessMuddled
    <3>1. ~muddled /\ ~call[c].overtaken /\ (new.active => menu[i].active)
      BY <2>1
    <3>2. read = ValuesOf(menu[i])
      BY <1>1, <1>3, <3>1 DEF ReadFits
    <3>3. row.pos = menu[i].pos
      BY <2>2, <2>4, <3>2 DEF ValuesOf
    <3>4. ASSUME NEW l \in Active' PROVE l \in Active /\ menu'[l].pos = menu[l].pos
      <4>1. l \in OnMenu /\ menu'[l].active /\ l \in Ids
        BY <2>9 DEF Active, OnMenu
      <4>2. CASE l = i
        BY <2>4, <2>9, <3>1, <3>3, <4>1, <4>2 DEF Active
      <4>3. CASE l # i
        BY <2>9, <4>1, <4>3 DEF Active
      <4> QED BY <4>2, <4>3
    <3>5. j \in Active /\ k \in Active /\ menu[j].pos = menu[k].pos
      BY <3>4
    <3> QED BY <1>1, <3>1, <3>5 DEF PositionsDistinctUnlessMuddled
  <2>12. LinkedItemsExist'
    <3>1. \A j \in Ids : There(j) => There(j)'
      BY <2>4, <2>9 DEF There
    <3> QED BY <1>1, <3>1 DEF LinkedItemsExist, TypeOK, Line
  <2>13. ASSUME NEW d \in Calls \ {c} PROVE LocksFit(d)' /\ ReadFits(d)'
    <3>1. LocksFit(d) /\ ReadFits(d) /\ Unmoved(d)
      BY <2>7, EachFits
    <3>2. LocksFit(d)'
      BY <2>9, <3>1 DEF LocksFit, Unmoved
    <3>3. ReadFits(d)'
      <4> SUFFICES ASSUME ~call'[d].overtaken PROVE ReadFits(d)'
        BY DEF ReadFits
      <4>1. ~call[d].overtaken /\ ~At(d, "insert") /\ ~(At(d, "write") /\ call[d].item = i)
        BY <2>7 DEF Behind
      <4>2. call[d] \in Call /\ call[d].item \in Ids
        BY <1>1 DEF TypeOK, Call
      <4>3. \A j \in Ids : j # i => menu'[j] = menu[j]
        BY <2>9
      <4> QED BY <3>1, <4>1, <4>2, <4>3 DEF ReadFits, Unmoved, At, There, ValuesOf
    <3> QED BY <3>2, <3>3
  <2> QED BY <2>7, <2>8, <2>10, <2>11, <2>12, <2>13, AnsweringStep
<1> QED BY <1>2, <1>3

\* The lines that referred to the item let it go with its row.
LEMMA DeleteMenuItemStep ==
  ASSUME IndInv, NEW c \in Calls, DeleteMenuItem(c)
  PROVE  IndInv'
<1> DEFINE i == call[c].item
<1> DEFINE row == [menu[i] EXCEPT !.state = "GONE"]
<1>1. /\ TypeOK /\ FieldsAsLastSaid /\ PositionsDistinctUnlessMuddled /\ LinkedItemsExist
      /\ At(c, "setNull") /\ call[c] \in Call /\ i \in Ids /\ menu[i] \in Row
      /\ UNCHANGED <<said, spoilt, muddled>> /\ call' = With(c, Answered)
      /\ menu' = [menu EXCEPT ![i].state = "GONE"]
      /\ orders' = [o \in Oids |-> Unlinked(orders[o], i)]
      /\ \A d \in Calls \ {c} : i \notin call[d].locks
  BY EachFits DEF IndInv, TypeOK, DeleteMenuItem, Call, Apart
<1>2. row \in Row /\ row.state = "GONE" /\ menu' = [menu EXCEPT ![i] = row]
  BY <1>1 DEF Row
<1> HIDE DEF row
<1>3. /\ call' \in [Calls -> Call] /\ (call[c] = Answered)'
      /\ \A d \in Calls \ {c} : call'[d] = call[d] /\ Unmoved(d)
  BY <1>1, WithAnswer
<1>4. ASSUME NEW o \in Oids, NEW l \in orders'[o]
      PROVE  /\ l \in Line
             /\ l.linked => l \in orders[o] /\ l.item # i
  <2>1. PICK k \in orders[o] : l = [k EXCEPT !.linked = (k.linked /\ k.item # i)]
    BY <1>1, <1>4 DEF Unlinked
  <2>2. k \in Line
    BY <1>1 DEF TypeOK
  <2>3. CASE k.linked /\ k.item # i
    <3>1. l = [k EXCEPT !.linked = TRUE] /\ k.linked = TRUE
      BY <2>1, <2>2, <2>3 DEF Line
    <3>2. l = k
      BY <2>2, <3>1 DEF Line
    <3> QED BY <2>2, <2>3, <3>2
  <2>4. CASE ~(k.linked /\ k.item # i)
    <3>1. l = [k EXCEPT !.linked = FALSE]
      BY <2>1, <2>4
    <3> QED BY <2>2, <3>1 DEF Line
  <2> QED BY <2>3, <2>4
<1>5. TypeOK'
  <2>1. menu' \in [Ids -> Row]
    BY <1>1, <1>2 DEF TypeOK
  <2>2. orders' \in [Oids -> SUBSET Line]
    BY <1>1, <1>4
  <2> QED BY <1>1, <1>3, <2>1, <2>2 DEF TypeOK
<1>6. /\ OnMenu' = OnMenu \ {i} /\ \A j \in Ids : j # i => menu'[j] = menu[j]
  BY <1>1, <1>2 DEF TypeOK, OnMenu, There
<1>7. FieldsAsLastSaid'
  BY <1>1, <1>6 DEF FieldsAsLastSaid, OnMenu
<1>8. PositionsDistinctUnlessMuddled'
  <2>1. \A j \in Active' : j \in Active /\ menu'[j] = menu[j]
    BY <1>6 DEF Active, OnMenu
  <2> QED BY <1>1, <2>1 DEF PositionsDistinctUnlessMuddled
<1>9. LinkedItemsExist'
  <2> SUFFICES ASSUME NEW o \in Oids, NEW l \in orders'[o], l.linked PROVE There(l.item)'
    BY DEF LinkedItemsExist
  <2>1. l \in orders[o] /\ l.item # i /\ l \in Line /\ l.item \in Ids
    BY <1>4 DEF Line
  <2> QED BY <1>1, <1>6, <2>1 DEF LinkedItemsExist, There
<1>10. ASSUME NEW d \in Calls \ {c} PROVE LocksFit(d)' /\ ReadFits(d)'
  <2>1. call'[d] = call[d] /\ LocksFit(d) /\ ReadFits(d) /\ i \notin call[d].locks
    BY <1>1, <1>3, EachFits
  <2>2. LocksFit(d)'
    BY <1>6, <2>1 DEF LocksFit
  <2>3. call[d] \in Call /\ call[d].item \in Ids
    BY <1>1 DEF TypeOK, Call
  <2>4. \A j \in Ids : There(j)' => There(j) /\ menu'[j] = menu[j]
    BY <1>1, <1>2, <1>6 DEF There, TypeOK
  <2>5. \A j \in OnMenu' : j \in OnMenu /\ menu'[j] = menu[j]
    BY <1>6 DEF OnMenu
  <2>6. ReadFits(d)'
    BY <2>1, <2>3, <2>4, <2>5 DEF ReadFits, At, ValuesOf
  <2> QED BY <2>2, <2>6
<1> QED BY <1>3, <1>5, <1>7, <1>8, <1>9, <1>10, AnsweringStep

\* A page that arranges all that is on show leaves it in different positions.
LEMMA CommitReorderStep ==
  ASSUME IndInv, NEW c \in Calls, CommitReorder(c)
  PROVE  IndInv'
<1> DEFINE rows == call[c].locks
<1> DEFINE to == call[c].to
<1>1. /\ TypeOK /\ FieldsAsLastSaid /\ PositionsDistinctUnlessMuddled /\ LinkedItemsExist
      /\ At(c, "commitRows") /\ call[c] \in Call /\ UNCHANGED orders
      /\ Wrote(c, Answered, rows) /\ spoilt' = spoilt \ Pairs(rows, {"pos"})
      /\ muddled' = ~(Active \subseteq rows)
      /\ menu' = [i \in Ids |-> IF i \in rows THEN [menu[i] EXCEPT !.pos = to[i]] ELSE menu[i]]
      /\ said' = [i \in Ids |-> IF i \in rows THEN [said[i] EXCEPT !.pos = to[i]] ELSE said[i]]
      /\ Fits(c)
  BY EachFits DEF IndInv, CommitReorder, TypeOK
<1>2. /\ to \in [Ids -> Nat] /\ rows \subseteq Ids
      /\ \A i, j \in Ids : to[i] = to[j] /\ to[i] # 0 => i = j
      /\ \A i \in rows : to[i] # 0
  BY <1>1 DEF Call, Fits, At
<1>3. /\ call' \in [Calls -> Call] /\ (call[c] = Answered)'
      /\ \A d \in Calls \ {c} : /\ Unmoved(d)
                                /\ call'[d].overtaken = (call[d].overtaken \/ Behind(d, rows))
  BY <1>1, WroteAnswer
<1> HIDE DEF rows, to
<1>4. ASSUME NEW i \in Ids
      PROVE  /\ menu'[i] \in Row /\ said'[i] \in Values
             /\ menu'[i].state = menu[i].state
             /\ menu'[i].price = menu[i].price /\ menu'[i].active = menu[i].active
             /\ said'[i].price = said[i].price /\ said'[i].active = said[i].active
             /\ i \in rows => menu'[i].pos = to[i] /\ said'[i].pos = to[i]
             /\ i \notin rows => menu'[i] = menu[i] /\ said'[i] = said[i]
  <2>1. menu[i] \in Row /\ said[i] \in Values /\ to[i] \in Nat
    BY <1>1, <1>2 DEF TypeOK
  <2>2. CASE i \in rows
    <3>1. menu'[i] = [menu[i] EXCEPT !.pos = to[i]] /\ said'[i] = [said[i] EXCEPT !.pos = to[i]]
      BY <1>1, <2>2
    <3> QED BY <2>1, <2>2, <3>1 DEF Row, Values
  <2>3. CASE i \notin rows
    BY <1>1, <2>1, <2>3
  <2> QED BY <2>2, <2>3
<1>5. TypeOK'
  <2>1. menu' \in [Ids -> Row] /\ said' \in [Ids -> Values]
    BY <1>1, <1>4
  <2>2. spoilt' \subseteq Ids \X Fields /\ muddled' \in BOOLEAN
    BY <1>1 DEF TypeOK
  <2> QED BY <1>1, <1>3, <2>1, <2>2 DEF TypeOK
<1>6. OnMenu' = OnMenu /\ Active' = Active /\ OnMenu \subseteq Ids /\ Active \subseteq Ids
  <2>1. OnMenu' = OnMenu /\ OnMenu \subseteq Ids
    BY <1>4 DEF OnMenu, There
  <2> QED BY <1>4, <2>1 DEF Active
<1>7. FieldsAsLastSaid'
  <2> SUFFICES ASSUME NEW i \in OnMenu', NEW f \in Fields, <<i, f>> \notin spoilt'
               PROVE  menu'[i][f] = said'[i][f]
    BY DEF FieldsAsLastSaid
  <2>1. i \in OnMenu /\ i \in Ids
    BY <1>6
  <2>2. CASE i \in rows /\ f = "pos"
    BY <1>4, <2>1, <2>2
  <2>3. CASE ~(i \in rows /\ f = "pos")
    <3>1. menu[i][f] = said[i][f]
      BY <1>1, <2>1, <2>3 DEF FieldsAsLastSaid, Pairs
    <3>2. CASE i \notin rows
      BY <1>4, <2>1, <3>1, <3>2
    <3>3. CASE f \in {"price", "active"}
      BY <1>4, <2>1, <3>1, <3>3
    <3> QED BY <2>3, <3>2, <3>3 DEF Fields
  <2> QED BY <2>2, <2>3
<1>8. PositionsDistinctUnlessMuddled'
  <2> SUFFICES ASSUME Active \subseteq rows, NEW i \in Active, NEW j \in Active,
                      menu'[i].pos = menu'[j].pos
               PROVE  i = j
    BY <1>1, <1>6 DEF PositionsDistinctUnlessMuddled
  <2>1. i \in Ids /\ j \in Ids /\ to[i] = to[j] /\ to[i] # 0
    BY <1>2, <1>4, <1>6
  <2> QED BY <1>2, <2>1
<1>9. LinkedItemsExist'
  <2>1. \A i \in Ids : There(i) => There(i)'
    BY <1>4 DEF There
  <2> QED BY <1>1, <2>1 DEF LinkedItemsExist, TypeOK, Line
<1>10. ASSUME NEW d \in Calls \ {c} PROVE LocksFit(d)' /\ ReadFits(d)'
  <2>1. LocksFit(d) /\ ReadFits(d) /\ Unmoved(d)
    BY <1>3, EachFits
  <2>2. LocksFit(d)'
    BY <1>6, <2>1 DEF LocksFit, Unmoved
  <2>3. ReadFits(d)'
    <3> SUFFICES ASSUME ~call'[d].overtaken PROVE ReadFits(d)'
      BY DEF ReadFits
    <3>1. ~call[d].overtaken /\ ~At(d, "insert") /\ ~(At(d, "write") /\ call[d].item \in rows)
      BY <1>3 DEF Behind
    <3>2. call[d] \in Call /\ call[d].item \in Ids
      BY <1>1 DEF TypeOK, Call
    <3>3. \A i \in Ids : i \notin rows => menu'[i] = menu[i]
      BY <1>4
    <3> QED BY <2>1, <3>1, <3>2, <3>3 DEF ReadFits, Unmoved, At, There, ValuesOf
  <2> QED BY <2>2, <2>3
<1> QED BY <1>3, <1>5, <1>7, <1>8, <1>9, <1>10, AnsweringStep

\* The items of the new lines are locked, and therefore there.
LEMMA CommitLinesStep ==
  ASSUME IndInv, NEW c \in Calls, NEW o \in Oids, CommitLines(c, o)
  PROVE  IndInv'
<1>1. /\ TypeOK /\ FieldsAsLastSaid /\ PositionsDistinctUnlessMuddled /\ LinkedItemsExist
      /\ Fits(c) /\ LocksFit(c) /\ At(c, "commitLines") /\ call[c] \in Call
      /\ orders' = [orders EXCEPT ![o] = call[c].lines] /\ call' = With(c, Answered)
      /\ UNCHANGED <<menu, said, spoilt, muddled>>
  BY EachFits DEF IndInv, CommitLines, TypeOK
<1>2. /\ call' \in [Calls -> Call] /\ (call[c] = Answered)'
      /\ \A d \in Calls \ {c} : call'[d] = call[d] /\ Unmoved(d)
  BY <1>1, WithAnswer
<1>3. TypeOK'
  <2>1. orders' \in [Oids -> SUBSET Line]
    BY <1>1 DEF TypeOK, Call
  <2> QED BY <1>1, <1>2, <2>1 DEF TypeOK
<1>4. FieldsAsLastSaid' /\ PositionsDistinctUnlessMuddled'
  BY <1>1 DEF FieldsAsLastSaid, PositionsDistinctUnlessMuddled, Active, OnMenu, There
<1>5. LinkedItemsExist'
  <2>1. \A l \in call[c].lines : There(l.item)
    BY <1>1 DEF Fits, LocksFit, At, OnMenu
  <2> QED BY <1>1, <2>1 DEF LinkedItemsExist, TypeOK, There
<1>6. ASSUME NEW d \in Calls \ {c} PROVE LocksFit(d)' /\ ReadFits(d)'
  <2>1. call'[d] = call[d] /\ LocksFit(d) /\ ReadFits(d)
    BY <1>2, EachFits
  <2> QED BY <1>1, <2>1 DEF LocksFit, ReadFits, At, OnMenu, There, ValuesOf
<1> QED BY <1>2, <1>3, <1>4, <1>5, <1>6, AnsweringStep

------------------------------------------------------------------------------
(* The invariant. *)

LEMMA InitIndInv == Init => IndInv
<1> SUFFICES ASSUME Init PROVE IndInv
  OBVIOUS
<1>1. PICK p \in Prices :
        /\ menu = [i \in Ids |-> [state |-> IF i <= Listed THEN "THERE" ELSE "NONE",
                                  price |-> p, active |-> TRUE, pos |-> i]]
        /\ \/ orders = [o \in Oids |-> {}]
           \/ \E i \in OnMenu : orders = [o \in Oids |->
                 IF o = 1 THEN {[item |-> i, price |-> p, linked |-> TRUE]} ELSE {}]
  BY DEF Init
<1>2. /\ call = [c \in Calls |-> Idle("start")] /\ said = [i \in Ids |-> ValuesOf(menu[i])]
      /\ spoilt = {} /\ muddled = FALSE
  BY DEF Init
<1>3. /\ Idle("start") \in Call /\ Idle("start").pc = "start" /\ Idle("start").kind = "none"
      /\ Idle("start").locks = {} /\ Idle("start").lines = {}
  BY IdleType, PcNames
<1>4. ASSUME NEW i \in Ids
      PROVE  /\ menu[i] \in Row /\ menu[i].pos = i /\ said[i] \in Values
             /\ \A f \in Fields : menu[i][f] = said[i][f]
  <2>1. i \in Nat
    BY DEF Ids
  <2>2. menu[i] \in Row /\ menu[i].pos = i
    BY <1>1, <2>1 DEF Row
  <2>3. /\ said[i] \in Values /\ said[i].price = menu[i].price
        /\ said[i].active = menu[i].active /\ said[i].pos = menu[i].pos
    BY <1>2, <2>2 DEF ValuesOf, Values, Row
  <2> QED BY <2>2, <2>3 DEF Fields
<1>5. ASSUME NEW o \in Oids
      PROVE  /\ orders[o] \in SUBSET Line
             /\ \A l \in orders[o] : l.item \in OnMenu
  <2>1. CASE orders = [n \in Oids |-> {}]
    BY <2>1
  <2>2. ASSUME NEW i \in OnMenu, orders = [n \in Oids |->
                 IF n = 1 THEN {[item |-> i, price |-> p, linked |-> TRUE]} ELSE {}]
        PROVE  /\ orders[o] \in SUBSET Line
               /\ \A l \in orders[o] : l.item \in OnMenu
    <3>1. i \in Ids /\ [item |-> i, price |-> p, linked |-> TRUE] \in Line
      BY DEF OnMenu, Line
    <3> QED BY <2>2, <3>1
  <2> QED BY <1>1, <2>1, <2>2
<1>6. TypeOK
  <2>1. menu \in [Ids -> Row] /\ said \in [Ids -> Values]
    BY <1>1, <1>2, <1>4
  <2>2. orders \in [Oids -> SUBSET Line]
    BY <1>1, <1>5
  <2>3. call \in [Calls -> Call]
    BY <1>2, <1>3
  <2> QED BY <1>2, <2>1, <2>2, <2>3 DEF TypeOK
<1>7. FieldsAsLastSaid
  BY <1>4 DEF FieldsAsLastSaid, OnMenu
<1>8. PositionsDistinctUnlessMuddled
  BY <1>4 DEF PositionsDistinctUnlessMuddled, Active, OnMenu
<1>9. LinkedItemsExist
  BY <1>5 DEF LinkedItemsExist, OnMenu
<1>10. \A c \in Calls : Fits(c) /\ LocksFit(c) /\ ReadFits(c)
  BY <1>2, <1>3 DEF Fits, LocksFit, ReadFits, At, Is
<1>11. \A c, d \in Calls : c # d => Apart(c, d)
  BY <1>2, <1>3 DEF Apart, At
<1> QED BY <1>6, <1>7, <1>8, <1>9, <1>10, <1>11, AllFit

LEMMA NextIndInv == IndInv /\ [Next]_vars => IndInv'
<1> SUFFICES ASSUME IndInv, [Next]_vars PROVE IndInv'
  OBVIOUS
<1>1. CASE UNCHANGED vars
  <2>1. /\ TypeOK' /\ FieldsAsLastSaid' /\ PositionsDistinctUnlessMuddled' /\ LinkedItemsExist'
    BY <1>1 DEF vars, IndInv, TypeOK, FieldsAsLastSaid, PositionsDistinctUnlessMuddled,
                LinkedItemsExist, Active, OnMenu, There
  <2>2. ASSUME NEW c \in Calls PROVE Fits(c)' /\ LocksFit(c)' /\ ReadFits(c)'
    <3>1. Fits(c) /\ LocksFit(c) /\ ReadFits(c)
      BY EachFits
    <3> QED BY <1>1, <3>1 DEF vars, Fits, LocksFit, ReadFits, At, Is, OnMenu, There, ValuesOf
  <2>3. \A c, d \in Calls : c # d => Apart(c, d)'
    BY <1>1, EachFits DEF vars, Apart, At
  <2> QED BY <2>1, <2>2, <2>3, AllFitNext
<1>2. ASSUME NEW c \in Calls, Advance(c) PROVE IndInv'
  BY <1>2, ReadMaxOrderStep, InsertMenuItemStep, ReadMenuItemStep, UpdateMenuItemStep,
     LockToDeleteStep, DeleteMenuItemStep, BeginReorderStep, UpdateRowStep, CommitReorderStep,
     BeginOrderStep, CaptureItemStep, OpenOrderStep, InsertLineStep, CommitLinesStep,
     EndingSteps DEF Advance
<1>3. ASSUME NEW c \in Calls, Fail(c) \/ DetectDeadlock(c) PROVE IndInv'
  BY <1>3, EndingSteps
<1> QED BY <1>1, <1>2, <1>3 DEF Next

\* IndInv holds in every state, for any calls and any bounds.
THEOREM Invariance == Spec => []IndInv
  BY InitIndInv, NextIndInv, PTL DEF Spec

\* The variables keep their types.
THEOREM TypeCorrect == Spec => []TypeOK
<1>1. IndInv => TypeOK
  BY DEF IndInv
<1> QED BY <1>1, Invariance, PTL

\* UpdateMenuItem loses nothing anybody asked for, except what was written
\* between its read and its write.
THEOREM FieldsAreAsLastSaid == Spec => []FieldsAsLastSaid
<1>1. IndInv => FieldsAsLastSaid
  BY DEF IndInv
<1> QED BY <1>1, Invariance, PTL

\* The items on show have different positions, until a race, an item shown
\* again or a partial arrangement muddles them, and again after the next page
\* that arranges them all.
THEOREM PositionsAreDistinct == Spec => []PositionsDistinctUnlessMuddled
<1>1. IndInv => PositionsDistinctUnlessMuddled
  BY DEF IndInv
<1> QED BY <1>1, Invariance, PTL

\* No line of an order refers to a menu item that has been deleted.
THEOREM LinkedItemsAreThere == Spec => []LinkedItemsExist
<1>1. IndInv => LinkedItemsExist
  BY DEF IndInv
<1> QED BY <1>1, Invariance, PTL
================================================================================
