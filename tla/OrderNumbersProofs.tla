--------------------------- MODULE OrderNumbersProofs ---------------------------
(***************************************************************************)
(* Proofs about OrderNumbers, for any sets of sessions, requests and       *)
(* purges, any pool size and any number of days.                           *)
(***************************************************************************)
EXTENDS OrderNumbers, LargestElements, TLAPS, FiniteSetTheorems

------------------------------------------------------------------------------
(* The number a SELECT MAX + 1 returns. *)

\* SELECT COALESCE(MAX(daily_order_number), 0) + 1 returns a positive number
\* above every number of the session on file, and exceeds their bound by one
\* at most.
LEMMA NextNumberIsAbove ==
  ASSUME NEW s, NEW b \in Nat, orders \subseteq Order,
         \A o \in orders : o.num <= b
  PROVE  /\ NextNumber(s) \in Nat \ {0}
         /\ NextNumber(s) <= b + 1
         /\ \A o \in OrdersOf(s) : o.num < NextNumber(s)
<1> DEFINE S == {0} \cup {o.num : o \in OrdersOf(s)}
<1>1. S \subseteq Nat /\ 0 \in S /\ \A n \in S : n <= b
  BY DEF OrdersOf, Order
<1>2. \E m \in S : \A n \in S : m >= n
  <2> HIDE DEF S
  <2> QED BY <1>1, LargestElement
<1>3. Max(S) \in S /\ \A n \in S : Max(S) >= n
  <2> HIDE DEF S
  <2> QED BY <1>2 DEF Max
<1>4. NextNumber(s) = Max(S) + 1
  BY DEF NextNumber
<1>5. \A o \in OrdersOf(s) : o.num \in S
  OBVIOUS
<1>6. Max(S) \in Nat /\ Max(S) <= b
  <2> HIDE DEF S
  <2> QED BY <1>1, <1>3
<1>7. \A o \in OrdersOf(s) : o.num \in Nat /\ o.num <= Max(S)
  <2> HIDE DEF S
  <2> QED BY <1>1, <1>3, <1>5
<1> HIDE DEF S
<1> QED BY <1>4, <1>6, <1>7

\* When the numbers of a session are 1 to n, it returns n + 1.
LEMMA NextNumberFills ==
  ASSUME NEW s, NEW n \in Nat, {o.num : o \in OrdersOf(s)} = 1..n
  PROVE  NextNumber(s) = n + 1
<1> DEFINE S == {0} \cup {o.num : o \in OrdersOf(s)}
<1>1. S = 0..n
  OBVIOUS
<1>2. Max(0..n) = n
  <2>1. n \in 0..n /\ \A m \in 0..n : n >= m
    OBVIOUS
  <2>2. Max(0..n) \in 0..n /\ \A m \in 0..n : Max(0..n) >= m
    BY <2>1 DEF Max
  <2> QED BY <2>1, <2>2
<1> QED BY <1>1, <1>2 DEF NextNumber

------------------------------------------------------------------------------
(* The inductive invariant. *)

USE NoOneAssumption, DayAssumption

\* The initial states satisfy the inductive invariant.
LEMMA InitIndInv == Init => IndInv
<1> SUFFICES ASSUME Init PROVE IndInv
  OBVIOUS
<1>1. TypeOK
  BY FS_EmptySet DEF Init, TypeOK, Order, Days, Scopes
<1>2. NoGapsUnlessPurged
  <2>1. \A s \in Sessions : OrdersOf(s) = {}
    BY DEF Init, OrdersOf
  <2>2. 1..Cardinality({}) = {}
    BY FS_EmptySet
  <2> QED BY <2>1, <2>2 DEF NoGapsUnlessPurged
<1> QED
  BY <1>1, <1>2 DEF Init, IndInv, HoldersHold, NumberStaysFree, NumbersUnique,
              IdsDrawnInOrder, IdsFollowNumbers, NumbersTrailIds, Holding,
              NumbersComeNext

\* Every step keeps the types.  Two need an argument: the number read by the
\* SELECT is a natural number, and so is the count of a finite set of rows.
LEMMA TypeStep ==
  ASSUME TypeOK, NumbersTrailIds, IdsDrawnInOrder, [Next]_vars
  PROVE  TypeOK'
<1> USE DEF TypeOK, Holding, InFlight, Ended
<1>1. ASSUME NEW r \in Requests, Begin(r) PROVE TypeOK'
  BY <1>1 DEF Begin
<1>2. ASSUME NEW r \in Requests, AcquireLock(r) PROVE TypeOK'
  BY <1>2 DEF AcquireLock
<1>3. ASSUME NEW r \in Requests, ReadNextNumber(r) PROVE TypeOK'
  <2>1. \A o \in orders : o.num <= nextId
    BY DEF NumbersTrailIds, IdsDrawnInOrder, Order
  <2>2. NextNumber(tx[r].session) \in Nat
    BY <2>1, NextNumberIsAbove
  <2> QED BY <1>3, <2>2 DEF ReadNextNumber
<1>4. ASSUME NEW r \in Requests, InsertOrder(r) PROVE TypeOK'
  BY <1>4 DEF InsertOrder, Finish
<1>5. ASSUME NEW r \in Requests, InsertItems(r) PROVE TypeOK'
  BY <1>5 DEF InsertItems
<1>6. ASSUME NEW r \in Requests, Commit(r) PROVE TypeOK'
  <2>1. tx[r].num \in Nat \ {0} /\ tx[r].id \in Nat \ {0}
    BY <1>6 DEF Commit, NumbersTrailIds
  <2>2. Row(r) \in Order
    BY <2>1 DEF Row, Order
  <2>3. IsFiniteSet(orders')
    BY <1>6, FS_AddElement DEF Commit
  <2> QED BY <1>6, <2>2, <2>3 DEF Commit, Finish
<1>7. ASSUME NEW r \in Requests, Rollback(r) PROVE TypeOK'
  BY <1>7 DEF Rollback, Finish
<1>8. ASSUME NEW p \in Purgers, PurgeCount(p) PROVE TypeOK'
  <2>1. InScope(p, today) \in SUBSET orders
    BY DEF InScope
  <2>2. Cardinality(InScope(p, today)) \in Nat
    BY <2>1, FS_Subset, FS_CardinalityType
  <2> QED BY <1>8, <2>2 DEF PurgeCount
<1>9. ASSUME NEW p \in Purgers, PurgeDelete(p) PROVE TypeOK'
  <2> DEFINE gone == InScope(p, purge[p].day)
  <2>1. gone \in SUBSET orders /\ orders' \in SUBSET orders
    BY <1>9 DEF PurgeDelete, InScope
  <2>2. Cardinality(gone) \in Nat /\ IsFiniteSet(orders')
    BY <2>1, FS_Subset, FS_CardinalityType
  <2> QED BY <1>9, <2>1, <2>2 DEF PurgeDelete
<1>10. CASE NextDay
  BY <1>10 DEF NextDay, Days
<1>11. CASE UNCHANGED vars
  BY <1>11 DEF vars
<1> QED
  BY <1>1, <1>2, <1>3, <1>4, <1>5, <1>6, <1>7, <1>8, <1>9, <1>10, <1>11
     DEF Next, RequestStep, Advance, PurgeStep

\* Every step keeps the numbers without gaps while nothing is purged: the
\* lock keeps the session's orders as they are from SELECT to COMMIT.
LEMMA GapStep ==
  ASSUME IndInv, [Next]_vars
  PROVE  NoGapsUnlessPurged' /\ NumbersComeNext'
<1> SUFFICES ASSUME Unpurged' PROVE NoGapsUnlessPurged' /\ NumbersComeNext'
  BY DEF NoGapsUnlessPurged, NumbersComeNext
<1> DEFINE Size(s) == Cardinality(OrdersOf(s))
<1>1. TypeOK /\ HoldersHold /\ NumberStaysFree
  BY DEF IndInv
<1>2. Unpurged
  BY <1>1 DEF Unpurged, TypeOK, Next, PurgeStep, PurgeCount, PurgeDelete, RequestStep, Advance,
              Begin, AcquireLock, ReadNextNumber, InsertOrder, InsertItems, Commit, Rollback,
              NextDay, vars
<1>3. /\ \A s \in Sessions : {o.num : o \in OrdersOf(s)} = 1..Size(s)
      /\ \A q \in Requests : tx[q].pc \in Holding \ {"locked"} =>
           tx[q].num = Size(tx[q].session) + 1
  BY <1>2 DEF IndInv, NoGapsUnlessPurged, NumbersComeNext
<1>4. \A s : IsFiniteSet(OrdersOf(s)) /\ Size(s) \in Nat
  BY <1>1, FS_Subset, FS_CardinalityType DEF TypeOK, OrdersOf
<1>5. ASSUME orders' = orders,
             \A q \in Requests : tx'[q].pc \in Holding \ {"locked"} =>
               tx'[q].num = Size(tx'[q].session) + 1
      PROVE  NoGapsUnlessPurged' /\ NumbersComeNext'
  BY <1>3, <1>5 DEF NoGapsUnlessPurged, NumbersComeNext, OrdersOf
<1>6. CASE \E r \in Requests : \/ Begin(r) \/ AcquireLock(r) \/ InsertOrder(r) \/ InsertItems(r)
                               \/ Rollback(r)
  <2>1. orders' = orders
    BY <1>6 DEF Begin, AcquireLock, InsertOrder, InsertItems, Rollback
  <2>2. \A q \in Requests : tx'[q].pc \in Holding \ {"locked"} =>
          /\ tx[q].pc \in Holding \ {"locked"}
          /\ tx'[q].num = tx[q].num /\ tx'[q].session = tx[q].session
    BY <1>1, <1>6 DEF Begin, AcquireLock, InsertOrder, InsertItems, Rollback, Finish, TypeOK, Holding
  <2> QED BY <1>3, <1>5, <2>1, <2>2
<1>7. ASSUME NEW r \in Requests, ReadNextNumber(r)
      PROVE  NoGapsUnlessPurged' /\ NumbersComeNext'
  <2>1. tx[r].session \in Sessions
    BY <1>1 DEF TypeOK
  <2>2. NextNumber(tx[r].session) = Size(tx[r].session) + 1
    BY <1>3, <1>4, <2>1, NextNumberFills
  <2>3. orders' = orders
    BY <1>7 DEF ReadNextNumber
  <2>4. \A q \in Requests : tx'[q].session = tx[q].session /\ (q # r => tx'[q] = tx[q])
    BY <1>1, <1>7 DEF ReadNextNumber, TypeOK
  <2>5. tx'[r].num = NextNumber(tx[r].session)
    BY <1>1, <1>7 DEF ReadNextNumber, TypeOK
  <2> HIDE DEF Size
  <2>6. \A q \in Requests : tx'[q].pc \in Holding \ {"locked"} =>
               tx'[q].num = Size(tx'[q].session) + 1
    BY <1>3, <2>2, <2>4, <2>5
  <2> QED BY <1>5, <2>3, <2>6
<1>8. ASSUME NEW r \in Requests, Commit(r)
      PROVE  NoGapsUnlessPurged' /\ NumbersComeNext'
  <2> DEFINE t == tx[r].session
  <2>1. /\ tx[r].pc = "itemized" /\ orders' = orders \cup {Row(r)}
        /\ Row(r).session = t /\ Row(r).num = tx[r].num /\ t \in Sessions
    BY <1>1, <1>8 DEF Commit, Row, TypeOK
  <2>2. tx[r].num = Size(t) + 1
    BY <1>3, <2>1 DEF Holding
  <2>3. Row(r) \notin OrdersOf(t)
    <3>1. \A o \in OrdersOf(t) : o.num < tx[r].num /\ o.num \in Nat
      BY <1>1, <2>1 DEF NumberStaysFree, Holding, TypeOK, Order, OrdersOf
    <3>2. ~ (tx[r].num < tx[r].num)
      BY <1>1 DEF TypeOK
    <3> QED BY <2>1, <3>1, <3>2
  <2>4. \A s : OrdersOf(s)' = IF s = t THEN OrdersOf(t) \cup {Row(r)} ELSE OrdersOf(s)
    BY <2>1 DEF OrdersOf
  <2>5. Cardinality(OrdersOf(t) \cup {Row(r)}) = Size(t) + 1
    BY <1>4, <2>3, FS_AddElement
  <2>6. {o.num : o \in OrdersOf(t) \cup {Row(r)}} = 1..(Size(t) + 1)
    <3>1. {o.num : o \in OrdersOf(t) \cup {Row(r)}} = {o.num : o \in OrdersOf(t)} \cup {Row(r).num}
      OBVIOUS
    <3>2. {o.num : o \in OrdersOf(t)} = 1..Size(t) /\ Row(r).num = Size(t) + 1 /\ Size(t) \in Nat
      BY <1>3, <1>4, <2>1, <2>2
    <3> HIDE DEF Size
    <3>3. 1..Size(t) \cup {Size(t) + 1} = 1..(Size(t) + 1)
      BY <3>2
    <3> QED BY <3>1, <3>2, <3>3
  <2>7. NoGapsUnlessPurged'
    <3> SUFFICES ASSUME NEW s \in Sessions
                 PROVE  {o.num : o \in OrdersOf(s)'} = 1..Cardinality(OrdersOf(s)')
      BY DEF NoGapsUnlessPurged
    <3>1. CASE s = t
      BY <2>4, <2>5, <2>6, <3>1
    <3>2. CASE s # t
      BY <1>3, <2>4, <3>2
    <3> QED BY <3>1, <3>2
  <2>8. ASSUME NEW q \in Requests, tx'[q].pc \in Holding
        PROVE  q # r /\ tx'[q] = tx[q] /\ tx[q].session # t
    BY <1>1, <1>8, <2>8 DEF Commit, Finish, TypeOK, HoldersHold, Holding
  <2>9. NumbersComeNext'
    <3> SUFFICES ASSUME NEW q \in Requests, tx'[q].pc \in Holding \ {"locked"}
                 PROVE  tx'[q].num = Cardinality(OrdersOf(tx[q].session)') + 1
      BY DEF NumbersComeNext
    <3>1. tx'[q] = tx[q] /\ tx[q].session # t
      BY <2>8
    <3>2. OrdersOf(tx[q].session)' = OrdersOf(tx[q].session)
      BY <2>4, <3>1 DEF OrdersOf
    <3>3. tx[q].num = Size(tx[q].session) + 1
      BY <1>3, <3>1
    <3> QED BY <3>1, <3>2, <3>3 DEF OrdersOf
  <2> QED BY <2>7, <2>9
<1>9. CASE \E p \in Purgers : PurgeDelete(p)
  BY <1>1, <1>9 DEF PurgeDelete, TypeOK, Unpurged
<1>10. CASE UNCHANGED <<orders, tx>>
  BY <1>3, <1>5, <1>10
<1>11. CASE NextDay \/ (\E p \in Purgers : PurgeCount(p)) \/ UNCHANGED vars
  BY <1>10, <1>11 DEF NextDay, PurgeCount, vars
<1> QED BY <1>6, <1>7, <1>8, <1>9, <1>11 DEF Next, RequestStep, Advance, PurgeStep

\* Every step keeps the inductive invariant.  The steps that matter: the lock
\* is taken only when free (AcquireLock); the number is read under it
\* (ReadNextNumber); and when a row is committed no other transaction of the
\* session can be past its own SELECT (Commit).
LEMMA NextIndInv == IndInv /\ [Next]_vars => IndInv'
<1> SUFFICES ASSUME IndInv, [Next]_vars PROVE IndInv'
  OBVIOUS
<1> USE DEF Holding
<1>1. TypeOK /\ TypeOK'
  BY TypeStep DEF IndInv
<1>2. /\ HoldersHold /\ NumberStaysFree /\ NumbersUnique
      /\ IdsDrawnInOrder /\ IdsFollowNumbers /\ NumbersTrailIds
  BY DEF IndInv
<1> DEFINE Kept == /\ HoldersHold /\ NumberStaysFree /\ NumbersUnique
                   /\ IdsDrawnInOrder /\ IdsFollowNumbers /\ NumbersTrailIds
<1>3. ASSUME NEW r \in Requests, Begin(r) PROVE Kept'
  <2>1. HoldersHold' /\ NumberStaysFree'
    BY <1>1, <1>2, <1>3 DEF Begin, TypeOK, HoldersHold, NumberStaysFree, OrdersOf
  <2>2. IdsDrawnInOrder' /\ NumbersTrailIds'
    BY <1>1, <1>2, <1>3 DEF Begin, TypeOK, IdsDrawnInOrder, NumbersTrailIds, OrdersOf
  <2>3. NumbersUnique' /\ IdsFollowNumbers'
    BY <1>2, <1>3 DEF Begin, NumbersUnique, IdsFollowNumbers
  <2> QED BY <2>1, <2>2, <2>3
<1>4. ASSUME NEW r \in Requests, AcquireLock(r) PROVE Kept'
  <2>1. HoldersHold'
    BY <1>1, <1>2, <1>4 DEF AcquireLock, TypeOK, HoldersHold
  <2>2. NumberStaysFree'
    BY <1>1, <1>2, <1>4 DEF AcquireLock, TypeOK, NumberStaysFree, OrdersOf
  <2>3. IdsDrawnInOrder' /\ NumbersTrailIds'
    BY <1>1, <1>2, <1>4 DEF AcquireLock, TypeOK, IdsDrawnInOrder, NumbersTrailIds, OrdersOf
  <2>4. NumbersUnique' /\ IdsFollowNumbers'
    BY <1>2, <1>4 DEF AcquireLock, NumbersUnique, IdsFollowNumbers
  <2> QED BY <2>1, <2>2, <2>3, <2>4
<1>5. ASSUME NEW r \in Requests, ReadNextNumber(r) PROVE Kept'
  <2> DEFINE n == NextNumber(tx[r].session)
  <2>1. \A o \in orders : o.num <= nextId - 1
    BY <1>1, <1>2 DEF NumbersTrailIds, IdsDrawnInOrder, TypeOK, Order
  <2>2. n \in 1..nextId /\ \A o \in OrdersOf(tx[r].session) : o.num < n
    <3>1. nextId - 1 \in Nat
      BY <1>1 DEF TypeOK
    <3>2. orders \subseteq Order
      BY <1>1 DEF TypeOK
    <3>3. n \in Nat \ {0} /\ n <= (nextId - 1) + 1
      BY <2>1, <3>1, <3>2, NextNumberIsAbove
    <3>4. \A o \in OrdersOf(tx[r].session) : o.num < n
      BY <2>1, <3>1, <3>2, NextNumberIsAbove
    <3> HIDE DEF n
    <3> QED BY <1>1, <3>3, <3>4 DEF TypeOK
  <2>3. tx' = [tx EXCEPT ![r].pc = "numbered", ![r].num = n]
    BY <1>5 DEF ReadNextNumber
  <2> HIDE DEF n
  <2>4. HoldersHold'
    BY <1>1, <1>2, <1>5 DEF ReadNextNumber, TypeOK, HoldersHold
  <2>5. NumberStaysFree'
    BY <1>1, <1>2, <1>5, <2>2, <2>3 DEF ReadNextNumber, TypeOK, NumberStaysFree, OrdersOf
  <2>6. IdsDrawnInOrder'
    BY <1>1, <1>2, <1>5 DEF ReadNextNumber, TypeOK, IdsDrawnInOrder, OrdersOf
  <2>7. NumbersTrailIds'
    BY <1>1, <1>2, <1>5, <2>2, <2>3 DEF ReadNextNumber, TypeOK, NumbersTrailIds
  <2>8. NumbersUnique' /\ IdsFollowNumbers'
    BY <1>2, <1>5 DEF ReadNextNumber, NumbersUnique, IdsFollowNumbers
  <2> QED BY <2>4, <2>5, <2>6, <2>7, <2>8
<1>6. ASSUME NEW r \in Requests, InsertOrder(r) PROVE Kept'
  <2>1. HoldersHold'
    BY <1>1, <1>2, <1>6 DEF InsertOrder, Finish, TypeOK, HoldersHold
  <2>2. NumberStaysFree'
    BY <1>1, <1>2, <1>6 DEF InsertOrder, Finish, TypeOK, NumberStaysFree, OrdersOf
  <2>3. IdsDrawnInOrder'
    <3>1. nextId' = nextId + 1 /\ nextId \in Nat /\ orders' = orders
      BY <1>1, <1>6 DEF InsertOrder, TypeOK
    <3>2. \A o \in orders : o.id \in Nat /\ o.id < nextId
      BY <1>1, <1>2 DEF TypeOK, Order, IdsDrawnInOrder
    <3>3. ASSUME NEW q \in Requests, tx'[q].pc \in {"inserted", "itemized"}
          PROVE  \/ q = r /\ tx'[q].id = nextId
                 \/ /\ tx[q].pc \in {"inserted", "itemized"}
                    /\ tx'[q].id = tx[q].id /\ tx'[q].session = tx[q].session
      BY <1>1, <1>6, <3>3 DEF InsertOrder, Finish, TypeOK
    <3>4. \A q \in Requests : tx[q].id \in Nat
      BY <1>1 DEF TypeOK
    <3> QED BY <1>2, <3>1, <3>2, <3>3, <3>4 DEF IdsDrawnInOrder, OrdersOf
  <2>4. NumbersTrailIds'
    BY <1>1, <1>2, <1>6 DEF InsertOrder, Finish, TypeOK, NumbersTrailIds
  <2>5. NumbersUnique' /\ IdsFollowNumbers'
    BY <1>2, <1>6 DEF InsertOrder, NumbersUnique, IdsFollowNumbers
  <2> QED BY <2>1, <2>2, <2>3, <2>4, <2>5
<1>7. ASSUME NEW r \in Requests, InsertItems(r) PROVE Kept'
  <2>1. HoldersHold' /\ NumberStaysFree'
    BY <1>1, <1>2, <1>7 DEF InsertItems, TypeOK, HoldersHold, NumberStaysFree, OrdersOf
  <2>2. IdsDrawnInOrder' /\ NumbersTrailIds'
    BY <1>1, <1>2, <1>7 DEF InsertItems, TypeOK, IdsDrawnInOrder, NumbersTrailIds, OrdersOf
  <2>3. NumbersUnique' /\ IdsFollowNumbers'
    BY <1>2, <1>7 DEF InsertItems, NumbersUnique, IdsFollowNumbers
  <2> QED BY <2>1, <2>2, <2>3
<1>8. ASSUME NEW r \in Requests, Commit(r) PROVE Kept'
  <2>1. HoldersHold'
    BY <1>1, <1>2, <1>8 DEF Commit, Finish, TypeOK, HoldersHold
  <2>2. ASSUME NEW q \in Requests, tx'[q].pc \in Holding
        PROVE  q # r /\ tx'[q] = tx[q] /\ tx[q].session # tx[r].session
    BY <1>1, <1>2, <1>8, <2>2 DEF Commit, Finish, TypeOK, HoldersHold
  <2>3. orders' = orders \cup {Row(r)}
    BY <1>8 DEF Commit
  <2>4. /\ Row(r).session = tx[r].session /\ Row(r).num = tx[r].num
        /\ Row(r).id = tx[r].id /\ Row(r).id \in Nat /\ Row(r).num \in Nat
    BY <1>1 DEF Row, TypeOK
  <2>5. \A o \in OrdersOf(tx[r].session) :
           o.num \in Nat /\ o.id \in Nat /\ o.num < Row(r).num /\ o.id < Row(r).id
    BY <1>1, <1>2, <1>8, <2>4
       DEF Commit, NumberStaysFree, IdsDrawnInOrder, OrdersOf, TypeOK, Order
  <2>6. NumberStaysFree'
    <3> SUFFICES ASSUME NEW q \in Requests, tx'[q].pc \in Holding \ {"locked"},
                        NEW o \in orders', o.session = tx'[q].session
                 PROVE  o.num < tx'[q].num
      BY DEF NumberStaysFree, OrdersOf
    <3>1. o \in orders
      BY <2>2, <2>3, <2>4
    <3> QED BY <1>2, <2>2, <3>1 DEF NumberStaysFree, OrdersOf
  <2>7. IdsDrawnInOrder'
    <3>1. nextId' = nextId /\ Row(r).id < nextId
      BY <1>2, <1>8, <2>4 DEF Commit, IdsDrawnInOrder
    <3>2. \A o \in orders' : o.id < nextId'
      BY <1>2, <2>3, <3>1 DEF IdsDrawnInOrder
    <3>3. ASSUME NEW q \in Requests, tx'[q].pc \in {"inserted", "itemized"},
                 NEW o \in orders', o.session = tx'[q].session
          PROVE  o.id < tx'[q].id
      <4>1. o \in orders
        BY <2>2, <2>3, <2>4, <3>3
      <4> QED BY <1>2, <2>2, <3>3, <4>1 DEF IdsDrawnInOrder, OrdersOf
    <3>4. \A q \in Requests : tx'[q].pc \in {"inserted", "itemized"} => tx'[q].id < nextId'
      BY <1>2, <2>2, <3>1 DEF IdsDrawnInOrder
    <3> QED BY <3>2, <3>3, <3>4 DEF IdsDrawnInOrder, OrdersOf
  <2>8. NumbersUnique'
    BY <1>2, <2>3, <2>4, <2>5 DEF NumbersUnique, OrdersOf
  <2>9. IdsFollowNumbers'
    <3> SUFFICES ASSUME NEW o \in orders', NEW p \in orders', o.session = p.session
                 PROVE  o.num < p.num <=> o.id < p.id
      BY DEF IdsFollowNumbers
    <3>1. CASE o \in orders /\ p \in orders
      BY <1>2, <3>1 DEF IdsFollowNumbers
    <3>2. CASE o = Row(r) /\ p = Row(r)
      BY <2>4, <3>2
    <3>3. CASE o \in orders /\ p = Row(r)
      BY <2>4, <2>5, <3>3 DEF OrdersOf
    <3>4. CASE o = Row(r) /\ p \in orders
      BY <2>4, <2>5, <3>4 DEF OrdersOf
    <3> QED BY <2>3, <3>1, <3>2, <3>3, <3>4
  <2>10. NumbersTrailIds'
    BY <1>1, <1>2, <1>8, <2>3, <2>4 DEF Commit, Finish, TypeOK, NumbersTrailIds
  <2> QED BY <2>1, <2>6, <2>7, <2>8, <2>9, <2>10
<1>9. ASSUME NEW r \in Requests, Rollback(r) PROVE Kept'
  <2>1. HoldersHold' /\ NumberStaysFree'
    BY <1>1, <1>2, <1>9 DEF Rollback, Finish, TypeOK, HoldersHold, NumberStaysFree, OrdersOf
  <2>2. IdsDrawnInOrder' /\ NumbersTrailIds'
    BY <1>1, <1>2, <1>9 DEF Rollback, Finish, TypeOK, IdsDrawnInOrder, NumbersTrailIds, OrdersOf
  <2>3. NumbersUnique' /\ IdsFollowNumbers'
    BY <1>2, <1>9 DEF Rollback, NumbersUnique, IdsFollowNumbers
  <2> QED BY <2>1, <2>2, <2>3
<1>10. ASSUME NEW p \in Purgers, PurgeStep(p) PROVE Kept'
  <2>1. orders' \subseteq orders /\ UNCHANGED <<nextId, lock, tx>>
    BY <1>10 DEF PurgeStep, PurgeCount, PurgeDelete
  <2>2. HoldersHold' /\ NumberStaysFree' /\ NumbersUnique'
    BY <1>2, <2>1 DEF HoldersHold, NumberStaysFree, NumbersUnique, OrdersOf
  <2>3. IdsDrawnInOrder' /\ IdsFollowNumbers' /\ NumbersTrailIds'
    BY <1>2, <2>1 DEF IdsDrawnInOrder, IdsFollowNumbers, NumbersTrailIds, OrdersOf
  <2> QED BY <2>2, <2>3
<1>11. ASSUME NextDay \/ UNCHANGED vars PROVE Kept'
  <2>1. UNCHANGED <<orders, nextId, lock, tx>>
    BY <1>11 DEF NextDay, vars
  <2>2. HoldersHold' /\ NumberStaysFree' /\ NumbersUnique'
    BY <1>2, <2>1 DEF HoldersHold, NumberStaysFree, NumbersUnique, OrdersOf
  <2>3. IdsDrawnInOrder' /\ IdsFollowNumbers' /\ NumbersTrailIds'
    BY <1>2, <2>1 DEF IdsDrawnInOrder, IdsFollowNumbers, NumbersTrailIds, OrdersOf
  <2> QED BY <2>2, <2>3
<1>12. NoGapsUnlessPurged' /\ NumbersComeNext'
  BY GapStep
<1> QED
  BY <1>1, <1>3, <1>4, <1>5, <1>6, <1>7, <1>8, <1>9, <1>10, <1>11, <1>12
     DEF Next, RequestStep, Advance, IndInv

------------------------------------------------------------------------------
(* The theorems. *)

\* The inductive invariant holds in every reachable state.
THEOREM Invariance == Spec => []IndInv
  BY InitIndInv, NextIndInv, PTL DEF Spec

\* Tables, locks and transactions keep their types.
THEOREM TypeCorrect == Spec => []TypeOK
<1>1. IndInv => TypeOK
  BY DEF IndInv
<1> QED BY <1>1, Invariance, PTL

\* Between its SELECT and its COMMIT a transaction's number stays above every
\* number on file, so that the unique constraint is never what turns an order
\* away: the advisory lock (postgres.go:543) does its work.
THEOREM NumbersStayFree == Spec => []NumberStaysFree
<1>1. IndInv => NumberStaysFree
  BY DEF IndInv
<1> QED BY <1>1, Invariance, PTL

\* In a session the order of the numbers is the order of the ids.
THEOREM NumbersOrderTheDesk == Spec => []IdsFollowNumbers
<1>1. IndInv => IdsFollowNumbers
  BY DEF IndInv
<1> QED BY <1>1, Invariance, PTL

\* No number is on file twice for a session, whatever is purged meanwhile.
THEOREM NumbersAreUnique == Spec => []NumbersUnique
<1>1. IndInv => NumbersUnique
  BY DEF IndInv
<1> QED BY <1>1, Invariance, PTL

\* The numbers of a session are 1, 2, ..., n until something is purged: a
\* transaction that rolls back leaves its number to the next.
THEOREM NumbersHaveNoGaps == Spec => []NoGapsUnlessPurged
<1>1. IndInv => NoGapsUnlessPurged
  BY DEF IndInv
<1> QED BY <1>1, Invariance, PTL

------------------------------------------------------------------------------
(* Refinement. *)

\* Every step of the desk is a step of the ticket roll, or leaves it alone.
LEMMA StepIsTicketStep ==
  IndInv /\ [Next]_vars => [Roll!Next]_({Ticket(o) : o \in orders})
<1> DEFINE file == {Ticket(o) : o \in orders}
<1> SUFFICES ASSUME IndInv, [Next]_vars PROVE Roll!Next \/ file' = file
  OBVIOUS
<1>1. ASSUME NEW r \in Requests, Commit(r) PROVE Roll!Issue
  <2> DEFINE t == Ticket(Row(r))
  <2>1. orders' = orders \cup {Row(r)}
    BY <1>1 DEF Commit
  <2>2. file' = file \cup {t}
    BY <2>1
  <2>3. t \in Roll!Tickets /\ t.session = tx[r].session /\ t.num = tx[r].num
    BY <1>1 DEF Commit, IndInv, TypeOK, NumbersTrailIds, Roll!Tickets, Ticket, Row
  <2>4. \A o \in orders : o.session = t.session => o.num < t.num
    BY <1>1, <2>3 DEF Commit, IndInv, NumberStaysFree, OrdersOf, Holding
  <2>5. Roll!Above(t, file)
    BY <2>4 DEF Roll!Above, Ticket
  <2>6. t \notin file
    BY <2>3, <2>5 DEF Roll!Above, Roll!Tickets
  <2> QED BY <2>2, <2>3, <2>5, <2>6 DEF Roll!Issue
<1>2. ASSUME NEW p \in Purgers, PurgeDelete(p) PROVE Roll!Discard
  BY <1>2 DEF PurgeDelete, Roll!Discard
<1>3. CASE UNCHANGED orders
  BY <1>3
<1>4. \/ \E r \in Requests : Commit(r)
      \/ \E p \in Purgers : PurgeDelete(p)
      \/ UNCHANGED orders
  BY DEF Next, RequestStep, Advance, PurgeStep, Begin, AcquireLock, ReadNextNumber, InsertOrder,
         InsertItems, Rollback, PurgeCount, NextDay, vars
<1> QED BY <1>1, <1>2, <1>3, <1>4 DEF Roll!Next

\* The transactions implement the roll of tickets: under every interleaving a
\* commit issues one ticket above those of its session on file.
THEOREM Implementation == Spec => ImplementsTicketRoll
<1>1. Init => Roll!Init
  BY DEF Init, Roll!Init
<1> QED BY <1>1, StepIsTicketStep, Invariance, PTL DEF Spec, ImplementsTicketRoll, Roll!Spec
================================================================================
