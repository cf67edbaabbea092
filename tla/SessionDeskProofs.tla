--------------------------- MODULE SessionDeskProofs ---------------------------
(***************************************************************************)
(* Proofs about SessionDesk, for any calls of any kinds and any bounds.    *)
(***************************************************************************)
EXTENDS SessionDesk, LargestElements, TLAPS, FiniteSetTheorems

USE KindsAssumption, BoundsAssumption

------------------------------------------------------------------------------
(* Types. *)

\* The end of a day is a time of the model.
LEMMA EndOfDayType == \A t \in Times : EndOfDay(t) \in Ends
<1> SUFFICES ASSUME NEW t \in Times PROVE EndOfDay(t) \in Ends
  OBVIOUS
<1>1. t % DayLength \in 0..(DayLength - 1)
  BY DEF Times
<1> HIDE KindsAssumption
<1> QED BY <1>1 DEF Times, Ends, EndOfDay

\* Closing rows, or setting one, keeps the table a table.
LEMMA CloseType == ASSUME TypeOK, NEW rows PROVE Close(rows) \in [Sids -> SessionRow]
  BY DEF TypeOK, Close, SessionRow

\* The places a handler can stand at.
LEMMA PcNames ==
  /\ "expire1" \in Pcs /\ "prune1" \in Pcs /\ "expire" \in Pcs /\ "prune" \in Pcs
  /\ "select" \in Pcs /\ "insert" \in Pcs /\ "check" \in Pcs /\ "place" \in Pcs
  /\ "readSession" \in Pcs /\ "write" \in Pcs /\ "stats" \in Pcs /\ "shut" \in Pcs
  /\ "complete" \in Pcs /\ "readOrder" \in Pcs /\ "mark" \in Pcs /\ "rewrite" \in Pcs
  /\ "purge" \in Pcs /\ "delete" \in Pcs /\ "statsExpire" \in Pcs
  /\ "statsPrune" \in Pcs /\ "done" \in Pcs
  BY DEF Pcs

\* The answers it can give.
LEMMA AnswerNames ==
  /\ "none" \in Answers /\ "ok" \in Answers /\ "conflict" \in Answers /\ "expired" \in Answers
  /\ "refused" \in Answers /\ "missing" \in Answers /\ "error" \in Answers
  BY DEF Answers

\* The initial tables and calls have their types.
LEMMA InitTypeOK == Init => TypeOK
<1> SUFFICES ASSUME Init PROVE TypeOK
  OBVIOUS
<1>1. NoSession \in SessionRow /\ NoOrder \in OrderRow
  BY DEF SessionRow, OrderRow, NoSession, NoOrder, Times, Ends, Sids
<1>2. sessions \in [Sids -> SessionRow] /\ orders \in [Oids -> OrderRow]
  <2>1. CASE EmptyTables
    BY <1>1, <2>1 DEF EmptyTables
  <2>2. ASSUME NEW end \in Times \ {0}, NEW status \in {"NONE"} \cup OrderStatus,
               SessionUnderWay(end, status)
        PROVE  sessions \in [Sids -> SessionRow] /\ orders \in [Oids -> OrderRow]
    <3>1. end \in Ends
      BY DEF Times, Ends
    <3>2. [NoSession EXCEPT !.status = "ACTIVE", !.expires = end] \in SessionRow
      BY <1>1, <3>1 DEF SessionRow
    <3>3. [NoOrder EXCEPT !.status = status, !.day = EndOfDay(0)] \in OrderRow
      <4>1. EndOfDay(0) \in Ends
        BY EndOfDayType DEF Times
      <4> QED BY <1>1, <4>1 DEF OrderRow
    <3> QED BY <1>1, <2>2, <3>2, <3>3 DEF SessionUnderWay
  <2> QED BY <2>1, <2>2 DEF Init
<1>3. call \in [Calls -> Call]
  <2>1. \A k \in Kinds : FirstPc(k) \in Pcs
    BY PcNames DEF FirstPc, AllKinds
  <2>2. 1 \in Sids /\ 1 \in Oids /\ 0 \in Times /\ 0 \in Ends
    BY DEF Sids, Oids, Times, Ends
  <2>3. ASSUME NEW k \in Kinds, NEW a \in BOOLEAN PROVE NewCall(k, a) \in Call
    <3>1. "NEW" \in OrderStatus /\ 0 \in Nat /\ "none" \in Answers /\ FirstPc(k) \in Pcs
      BY <2>1, AnswerNames DEF OrderStatus
    <3> HIDE DEF AllKinds
    <3> QED BY <2>2, <3>1 DEF NewCall, Call
  <2>4. NewCalls \subseteq Call
    BY <2>3 DEF NewCalls
  <2> QED BY <2>4 DEF Init
<1> QED BY <1>2, <1>3 DEF Init, TypeOK, Times

\* Answering a call keeps the record of the calls well typed.
LEMMA AnswerType ==
  ASSUME TypeOK, NEW c \in Calls, NEW a \in Answers, Answer(c, a)
  PROVE  call' \in [Calls -> Call]
  BY PcNames DEF TypeOK, Answer, Call

\* So does moving a call to its next statement.
LEMMA GotoType ==
  ASSUME TypeOK, NEW c \in Calls, NEW pc \in Pcs, Goto(c, pc)
  PROVE  call' \in [Calls -> Call]
  BY DEF TypeOK, Goto, Call

\* A session has finitely many orders.
LEMMA OrdersInFinite ==
  \A i : IsFiniteSet(OrdersIn(i)) /\ Cardinality(OrdersIn(i)) \in Nat
<1> SUFFICES ASSUME NEW i
             PROVE  IsFiniteSet(OrdersIn(i)) /\ Cardinality(OrdersIn(i)) \in Nat
  OBVIOUS
<1>1. IsFiniteSet(Oids) /\ OrdersIn(i) \in SUBSET Oids
  BY FS_Interval DEF Oids, OrdersIn
<1> QED BY <1>1, FS_Subset, FS_CardinalityType

\* The history of the sessions keeps its type.
LEMMA BehindType ==
  ASSUME TypeOK, NEW is, NEW what \in LateKinds
  PROVE  Behind(is, what) \in [Sids -> SUBSET LateKinds]
  BY DEF TypeOK, Behind

\* Every step keeps the types.
LEMMA TypeStep == TypeOK /\ [Next]_vars => TypeOK'
<1> SUFFICES ASSUME TypeOK, [Next]_vars PROVE TypeOK'
  OBVIOUS
<1> USE PcNames, AnswerNames DEF TypeOK
<1>1. ASSUME NEW c \in Calls, ReconcileExpired(c) PROVE TypeOK'
  BY <1>1, CloseType, GotoType DEF ReconcileExpired
<1>2. ASSUME NEW c \in Calls, ReconcileDuplicates(c) PROVE TypeOK'
  BY <1>2, CloseType, GotoType, AnswerType DEF ReconcileDuplicates
<1>3. ASSUME NEW c \in Calls, SelectNone(c) PROVE TypeOK'
  <2>1. CASE Answer(c, "ok")
    BY <1>3, <2>1, AnswerType DEF SelectNone
  <2>2. ASSUME NEW end \in EndChoices,
               call' = [call EXCEPT ![c].pc = "insert", ![c].started = now, ![c].expires = end]
        PROVE  TypeOK'
    <3>1. end \in Ends
      BY EndOfDayType DEF EndChoices, Times, Ends
    <3>2. call' \in [Calls -> Call]
      BY <2>2, <3>1 DEF Call
    <3> QED BY <1>3, <3>2 DEF SelectNone
  <2> QED BY <1>3, <2>1, <2>2 DEF SelectNone, EndChoices
<1>4. ASSUME NEW c \in Calls, NEW i \in Sids, SelectActive(c, i) PROVE TypeOK'
  <2>1. sessions[i].expires \in Ends
    BY DEF SessionRow
  <2>2. CASE \E a \in Answers : Answer(c, a)
    BY <1>4, <2>2, AnswerType DEF SelectActive
  <2>3. CASE call' = [call EXCEPT ![c].pc = "check", ![c].sid = i,
                                  ![c].expires = sessions[i].expires]
    <3>1. call' \in [Calls -> Call]
      BY <2>1, <2>3 DEF Call
    <3> QED BY <1>4, <3>1 DEF SelectActive
  <2> QED BY <1>4, <2>2, <2>3 DEF SelectActive
<1>5. ASSUME NEW c \in Calls, NEW i \in Sids, CreateSession(c, i) PROVE TypeOK'
  <2>1. call' \in [Calls -> Call]
    <3>1. CASE IndexRefuses(i)
      BY <1>5, <3>1, AnswerType DEF CreateSession
    <3>2. CASE ~IndexRefuses(i)
      BY <1>5, <3>2 DEF CreateSession, Call
    <3> QED BY <3>1, <3>2
  <2>2. sessions' \in [Sids -> SessionRow]
    <3>1. [status |-> "ACTIVE", started |-> call[c].started, expires |-> call[c].expires,
           final |-> NoStats] \in SessionRow
      BY DEF SessionRow, Call
    <3> QED BY <1>5, <3>1 DEF CreateSession
  <2> QED BY <1>5, <2>1, <2>2 DEF CreateSession
<1>6. ASSUME NEW c \in Calls, NEW i \in Sids, ReadSessionToClose(c, i) PROVE TypeOK'
  <2>1. call' \in [Calls -> Call]
    <3>1. CASE \E a \in Answers : Answer(c, a)
      BY <3>1, AnswerType
    <3>2. CASE call' = [call EXCEPT ![c].pc = "stats", ![c].sid = i]
      BY <3>2 DEF Call
    <3> QED BY <1>6, <3>1, <3>2 DEF ReadSessionToClose
  <2> QED BY <1>6, <2>1 DEF ReadSessionToClose
<1>7. ASSUME NEW c \in Calls, NEW i \in Sids,
             NEW end \in EndChoices \cup {sessions[i].expires},
             ReadSessionToUpdate(c, i, end)
      PROVE  TypeOK'
  <2>1. end \in Ends
    BY EndOfDayType DEF EndChoices, Times, Ends, SessionRow
  <2>2. call' \in [Calls -> Call]
    <3>1. CASE \E a \in Answers : Answer(c, a)
      BY <3>1, AnswerType
    <3>2. CASE call' = [call EXCEPT ![c].pc = "write", ![c].sid = i, ![c].expires = end]
      BY <2>1, <3>2 DEF Call
    <3> QED BY <1>7, <3>1, <3>2 DEF ReadSessionToUpdate
  <2> QED BY <1>7, <2>2 DEF ReadSessionToUpdate
<1>8. ASSUME NEW c \in Calls, UpdateSession(c) PROVE TypeOK'
  <2>1. call' \in [Calls -> Call]
    BY <1>8, AnswerType DEF UpdateSession
  <2>2. call[c].expires \in Ends /\ call[c].sid \in Sids
    BY DEF Call
  <2>3. sessions' \in [Sids -> SessionRow]
    BY <1>8, <2>2 DEF UpdateSession, SessionRow
  <2> QED BY <1>8, <2>1, <2>3 DEF UpdateSession
<1>9. ASSUME NEW c \in Calls, GetSessionStats(c) PROVE TypeOK'
  <2> DEFINE n == Cardinality(OrdersIn(call[c].sid))
  <2>1. n \in Nat
    BY OrdersInFinite
  <2> HIDE DEF n
  <2>2. call' = [call EXCEPT ![c].pc = "shut", ![c].count = n]
    BY <1>9 DEF GetSessionStats, n
  <2>3. call' \in [Calls -> Call]
    BY <2>1, <2>2 DEF Call
  <2> QED BY <1>9, <2>3 DEF GetSessionStats
<1>10. ASSUME NEW c \in Calls, CloseSession(c) PROVE TypeOK'
  <2>1. call' \in [Calls -> Call]
    BY <1>10, GotoType DEF CloseSession
  <2>2. call[c].count \in Nat /\ call[c].sid \in Sids
    BY DEF Call
  <2>3. sessions' \in [Sids -> SessionRow]
    BY <1>10, <2>2 DEF CloseSession, SessionRow
  <2> QED BY <1>10, <2>1, <2>3 DEF CloseSession
<1>11. ASSUME NEW c \in Calls, CompleteAllSessionOrders(c) PROVE TypeOK'
  <2>1. call' \in [Calls -> Call]
    BY <1>11, AnswerType DEF CompleteAllSessionOrders
  <2>2. \A o \in Oids : [orders[o] EXCEPT !.status = "COMPLETED"] \in OrderRow
    BY DEF OrderRow, OrderStatus
  <2>3. orders' \in [Oids -> OrderRow]
    BY <1>11, <2>2 DEF CompleteAllSessionOrders
  <2> QED BY <1>11, <2>1, <2>3 DEF CompleteAllSessionOrders
<1>12. ASSUME NEW c \in Calls, CheckExpiry(c) PROVE TypeOK'
  BY <1>12, AnswerType, GotoType DEF CheckExpiry
<1>13. ASSUME NEW c \in Calls, NEW o \in Oids, PlaceOrder(c, o) PROVE TypeOK'
  <2>1. call' \in [Calls -> Call]
    BY <1>13 DEF PlaceOrder, Call
  <2>2. call[c].sid \in Sids /\ EndOfDay(now) \in Ends
    BY EndOfDayType DEF Call
  <2>3. [session |-> call[c].sid, status |-> "NEW", day |-> EndOfDay(now)] \in OrderRow
    BY <2>2 DEF OrderRow, OrderStatus
  <2>4. late' \in [Sids -> SUBSET LateKinds]
    BY <1>13, BehindType DEF PlaceOrder, LateKinds
  <2> QED BY <1>13, <2>1, <2>3, <2>4 DEF PlaceOrder
<1>14. ASSUME NEW c \in Calls, NEW o \in Oids, NEW target \in OrderStatus,
              ReadOrderToMark(c, o, target)
       PROVE  TypeOK'
  <2>1. call' \in [Calls -> Call]
    <3>1. CASE \E a \in Answers : Answer(c, a)
      BY <3>1, AnswerType
    <3>2. CASE call' = [call EXCEPT ![c].pc = "mark", ![c].oid = o, ![c].status = target]
      BY <3>2 DEF Call
    <3> QED BY <1>14, <3>1, <3>2 DEF ReadOrderToMark
  <2> QED BY <1>14, <2>1 DEF ReadOrderToMark
<1>15. ASSUME NEW c \in Calls, NEW o \in Oids, ReadOrderToEdit(c, o) PROVE TypeOK'
  <2>1. call' \in [Calls -> Call]
    <3>1. CASE \E a \in Answers : Answer(c, a)
      BY <3>1, AnswerType
    <3>2. CASE /\ InTable(o)
               /\ call' = [call EXCEPT ![c].pc = "rewrite", ![c].oid = o,
                                       ![c].status = orders[o].status]
      <4>1. orders[o].status \in OrderStatus
        BY <3>2 DEF InTable
      <4> QED BY <3>2, <4>1 DEF Call
    <3> QED BY <1>15, <3>1, <3>2 DEF ReadOrderToEdit
  <2> QED BY <1>15, <2>1 DEF ReadOrderToEdit
<1>16. ASSUME NEW c \in Calls, WriteOrder(c) PROVE TypeOK'
  <2>1. call' \in [Calls -> Call]
    BY <1>16, GotoType DEF WriteOrder
  <2>2. call[c].oid \in Oids /\ call[c].status \in OrderStatus
    BY DEF Call
  <2>3. orders' \in [Oids -> OrderRow]
    BY <1>16, <2>2 DEF WriteOrder, OrderRow
  <2>4. late' \in [Sids -> SUBSET LateKinds]
    BY <1>16, BehindType DEF WriteOrder, LateKinds
  <2> QED BY <1>16, <2>1, <2>3, <2>4 DEF WriteOrder
<1>17. ASSUME NEW c \in Calls, Fail(c) PROVE TypeOK'
  BY <1>17, AnswerType DEF Fail
<1>18. CASE EnforceSingleActive
  BY <1>18, CloseType DEF EnforceSingleActive
<1>19. CASE Tick
  BY <1>19 DEF Tick, Times
<1>20. CASE UNCHANGED vars
  BY <1>20 DEF vars
<1>21. ASSUME NEW c \in Calls, WriteDeletedOrder(c) PROVE TypeOK'
  BY <1>21, AnswerType, GotoType DEF WriteDeletedOrder
<1>22. ASSUME NEW c \in Calls, ReadDayToPurge(c) PROVE TypeOK'
  <2>1. EndOfDay(now) \in Ends
    BY EndOfDayType
  <2>2. call' \in [Calls -> Call]
    BY <1>22, <2>1 DEF ReadDayToPurge, Call
  <2> QED BY <1>22, <2>2 DEF ReadDayToPurge
<1>23. ASSUME NEW c \in Calls, NEW scope, PurgeOrders(c, scope) PROVE TypeOK'
  <2>1. call' \in [Calls -> Call]
    BY <1>23, GotoType DEF PurgeOrders
  <2>2. \A o \in Oids : [orders[o] EXCEPT !.status = "DELETED"] \in OrderRow
    BY DEF OrderRow
  <2>3. orders' \in [Oids -> OrderRow]
    BY <1>23, <2>2 DEF PurgeOrders
  <2>4. late' \in [Sids -> SUBSET LateKinds]
    BY <1>23, BehindType DEF PurgeOrders, LateKinds
  <2> QED BY <1>23, <2>1, <2>3, <2>4 DEF PurgeOrders
<1> QED
  BY <1>1, <1>2, <1>3, <1>4, <1>5, <1>6, <1>7, <1>8, <1>9, <1>10, <1>11, <1>12, <1>13,
     <1>14, <1>15, <1>16, <1>17, <1>18, <1>19, <1>20, <1>21, <1>22, <1>23
     DEF Next, SessionStep, OrderStep
------------------------------------------------------------------------------
(* The inductive invariant. *)

\* Rows of sessions stay.
HaveRows == {i \in Sids : sessions[i].status # "NONE"}

LEMMA RowsStay ==
  ASSUME TypeOK, [Next]_vars
  PROVE  HaveRows \subseteq HaveRows'
<1>1. sessions \in [Sids -> SessionRow] /\ \A c \in Calls : call[c].sid \in Sids
  BY DEF TypeOK, Call
<1>2. ASSUME NEW is, sessions' = Close(is) PROVE HaveRows \subseteq HaveRows'
  BY <1>1, <1>2 DEF Close, SessionRow, HaveRows
<1>3. ASSUME NEW c \in Calls, NEW i \in Sids, CreateSession(c, i)
      PROVE  HaveRows \subseteq HaveRows'
  BY <1>1, <1>3 DEF CreateSession, SessionRow, HaveRows
<1>4. ASSUME NEW c \in Calls, UpdateSession(c) PROVE HaveRows \subseteq HaveRows'
  BY <1>1, <1>4 DEF UpdateSession, SessionRow, HaveRows
<1>5. ASSUME NEW c \in Calls, CloseSession(c) PROVE HaveRows \subseteq HaveRows'
  BY <1>1, <1>5 DEF CloseSession, SessionRow, HaveRows
<1>6. ASSUME UNCHANGED sessions PROVE HaveRows \subseteq HaveRows'
  BY <1>6 DEF HaveRows
<1>7. ASSUME NEW c \in Calls, SessionStep(c) PROVE HaveRows \subseteq HaveRows'
  BY <1>2, <1>3, <1>4, <1>5, <1>6, <1>7
     DEF SessionStep, ReconcileExpired, ReconcileDuplicates, SelectNone, SelectActive,
         ReadSessionToClose, ReadSessionToUpdate, GetSessionStats, CompleteAllSessionOrders
<1>8. ASSUME NEW c \in Calls, OrderStep(c) \/ Fail(c) PROVE UNCHANGED sessions
  BY <1>8 DEF OrderStep, CheckExpiry, PlaceOrder, ReadOrderToEdit, ReadOrderToMark, WriteOrder,
              WriteDeletedOrder, ReadDayToPurge, PurgeOrders, Fail
<1> QED BY <1>2, <1>6, <1>7, <1>8 DEF Next, EnforceSingleActive, Tick, vars

\* The statements that are about a session that was found.
InHand == {"check", "place", "write", "stats", "shut", "complete"}

\* A call that was about none, or goes on with the one it has, or has found one,
\* keeps SessionsFound, whatever it does besides.
LEMMA FoundByOne ==
  ASSUME TypeOK, SessionsFound, HaveRows \subseteq HaveRows', NEW c \in Calls,
         \A d \in Calls \ {c} : call'[d] = call[d],
         \/ call'[c].pc \notin InHand
         \/ call[c].pc \in InHand /\ call'[c].sid = call[c].sid
         \/ call'[c].sid \in HaveRows'
  PROVE  SessionsFound'
<1>1. \A d \in Calls : call[d].pc \in InHand => call[d].sid \in HaveRows
  BY DEF TypeOK, Call, SessionsFound, InHand, HaveRows
<1>2. \A d \in Calls : call'[d].pc \in InHand => call'[d].sid \in HaveRows'
  BY <1>1
<1> QED BY <1>2 DEF SessionsFound, InHand, HaveRows

\* Every step does.
LEMMA FoundStep ==
  ASSUME TypeOK, SessionsFound, [Next]_vars PROVE SessionsFound'
<1>1. HaveRows \subseteq HaveRows'
  BY RowsStay
<1>2. /\ call \in [Calls -> Call]
      /\ sessions \in [Sids -> SessionRow]
  BY DEF TypeOK
<1>3. ASSUME UNCHANGED call PROVE SessionsFound'
  BY <1>1, <1>2, <1>3 DEF SessionsFound, HaveRows, Call
<1>4. ASSUME NEW c \in Calls,
             \/ \E a : Answer(c, a)
             \/ \E pc \in Pcs \ InHand : Goto(c, pc)
             \/ \E pc \in InHand : Goto(c, pc) /\ call[c].pc \in InHand
      PROVE  SessionsFound'
  <2>1. \A d \in Calls \ {c} : call'[d] = call[d]
    BY <1>2, <1>4 DEF Answer, Goto
  <2>2. \/ call'[c].pc \notin InHand
        \/ call[c].pc \in InHand /\ call'[c].sid = call[c].sid
    BY <1>2, <1>4 DEF Answer, Goto, Call, InHand
  <2> QED BY <1>1, <2>1, <2>2, FoundByOne
<1>5. ASSUME NEW c \in Calls, \A d \in Calls \ {c} : call'[d] = call[d],
             call'[c].pc \notin InHand \/ call'[c].sid \in HaveRows'
      PROVE  SessionsFound'
  BY <1>1, <1>5, FoundByOne
<1>6. ASSUME NEW c \in Calls, SelectNone(c) PROVE SessionsFound'
  <2>1. ASSUME NEW end, call' = [call EXCEPT ![c].pc = "insert", ![c].started = now,
                                             ![c].expires = end]
        PROVE  SessionsFound'
    <3>1. (\A d \in Calls \ {c} : call'[d] = call[d]) /\ call'[c].pc = "insert"
      BY <1>2, <2>1 DEF Call
    <3> QED BY <1>5, <3>1 DEF InHand
  <2> QED BY <1>4, <1>6, <2>1 DEF SelectNone
<1>7. ASSUME NEW c \in Calls, NEW i \in Sids, SelectActive(c, i) PROVE SessionsFound'
  <2>1. i \in HaveRows
    BY <1>7 DEF SelectActive, Live, Active, HaveRows
  <2>2. ASSUME call' = [call EXCEPT ![c].pc = "check", ![c].sid = i,
                                    ![c].expires = sessions[i].expires]
        PROVE  SessionsFound'
    <3>1. (\A d \in Calls \ {c} : call'[d] = call[d]) /\ call'[c].sid = i
      BY <1>2, <2>2 DEF Call
    <3> QED BY <1>1, <1>5, <2>1, <3>1
  <2> QED BY <1>4, <1>7, <2>2 DEF SelectActive
<1>8. ASSUME NEW c \in Calls, NEW i \in Sids, CreateSession(c, i) PROVE SessionsFound'
  <2>1. CASE IndexRefuses(i)
    BY <1>4, <1>8, <2>1 DEF CreateSession
  <2>2. CASE ~IndexRefuses(i)
    <3>1. (\A d \in Calls \ {c} : call'[d] = call[d]) /\ call'[c].sid = i
      BY <1>2, <1>8, <2>2 DEF CreateSession, Call
    <3>2. i \in HaveRows'
      BY <1>2, <1>8, <2>2 DEF CreateSession, HaveRows
    <3> QED BY <1>5, <3>1, <3>2
  <2> QED BY <2>1, <2>2
<1>9. ASSUME NEW c \in Calls, NEW i \in Sids, ReadSessionToClose(c, i) PROVE SessionsFound'
  <2>1. ASSUME i \in HaveRows, call' = [call EXCEPT ![c].pc = "stats", ![c].sid = i]
        PROVE  SessionsFound'
    <3>1. (\A d \in Calls \ {c} : call'[d] = call[d]) /\ call'[c].sid = i
      BY <1>2, <2>1 DEF Call
    <3> QED BY <1>1, <1>5, <2>1, <3>1
  <2> QED BY <1>4, <1>9, <2>1 DEF ReadSessionToClose, HaveRows
<1>10. ASSUME NEW c \in Calls, NEW i \in Sids, NEW end, ReadSessionToUpdate(c, i, end)
       PROVE  SessionsFound'
  <2>1. ASSUME i \in HaveRows,
               call' = [call EXCEPT ![c].pc = "write", ![c].sid = i, ![c].expires = end]
        PROVE  SessionsFound'
    <3>1. (\A d \in Calls \ {c} : call'[d] = call[d]) /\ call'[c].sid = i
      BY <1>2, <2>1 DEF Call
    <3> QED BY <1>1, <1>5, <2>1, <3>1
  <2> QED BY <1>4, <1>10, <2>1 DEF ReadSessionToUpdate, HaveRows
<1>11. ASSUME NEW c \in Calls, GetSessionStats(c) PROVE SessionsFound'
  <2>1. /\ \A d \in Calls \ {c} : call'[d] = call[d]
        /\ call[c].pc \in InHand /\ call'[c].sid = call[c].sid
    BY <1>2, <1>11 DEF GetSessionStats, At, Call, InHand
  <2> QED BY <1>1, <2>1, FoundByOne
<1>12. ASSUME NEW c \in Calls,
              \/ \E o : PlaceOrder(c, o) \/ ReadOrderToEdit(c, o)
              \/ \E o, target : ReadOrderToMark(c, o, target)
              \/ ReadDayToPurge(c)
       PROVE  SessionsFound'
  <2>1. ASSUME NEW pc \in Pcs \ InHand, \A d \in Calls \ {c} : call'[d] = call[d],
               call'[c].pc = pc
        PROVE  SessionsFound'
    BY <1>5, <2>1
  <2>2. ASSUME NEW o, PlaceOrder(c, o) PROVE SessionsFound'
    <3>1. (\A d \in Calls \ {c} : call'[d] = call[d]) /\ call'[c].pc = "statsExpire"
      BY <1>2, <2>2 DEF PlaceOrder, Call
    <3> QED BY <2>1, <3>1, PcNames DEF InHand
  <2>3. ASSUME NEW o, ReadOrderToEdit(c, o) PROVE SessionsFound'
    <3>1. ASSUME call' = [call EXCEPT ![c].pc = "rewrite", ![c].oid = o,
                                      ![c].status = orders[o].status]
          PROVE  (\A d \in Calls \ {c} : call'[d] = call[d]) /\ call'[c].pc = "rewrite"
      BY <1>2, <3>1 DEF Call
    <3> QED BY <1>4, <2>1, <2>3, <3>1, PcNames DEF ReadOrderToEdit, InHand
  <2>4. ASSUME NEW o, NEW target, ReadOrderToMark(c, o, target) PROVE SessionsFound'
    <3>1. ASSUME call' = [call EXCEPT ![c].pc = "mark", ![c].oid = o, ![c].status = target]
          PROVE  (\A d \in Calls \ {c} : call'[d] = call[d]) /\ call'[c].pc = "mark"
      BY <1>2, <3>1 DEF Call
    <3> QED BY <1>4, <2>1, <2>4, <3>1, PcNames DEF ReadOrderToMark, InHand
  <2>5. ASSUME ReadDayToPurge(c) PROVE SessionsFound'
    <3>1. (\A d \in Calls \ {c} : call'[d] = call[d]) /\ call'[c].pc = "delete"
      BY <1>2, <2>5 DEF ReadDayToPurge, Call
    <3> QED BY <2>1, <3>1, PcNames DEF InHand
  <2> QED BY <1>12, <2>2, <2>3, <2>4, <2>5
<1>13. ASSUME NEW c \in Calls,
              \/ ReconcileExpired(c) \/ ReconcileDuplicates(c) \/ UpdateSession(c)
              \/ CloseSession(c) \/ CompleteAllSessionOrders(c)
              \/ CheckExpiry(c) \/ WriteOrder(c) \/ WriteDeletedOrder(c)
              \/ \E scope : PurgeOrders(c, scope)
              \/ Fail(c)
       PROVE  SessionsFound'
  BY <1>4, <1>13, PcNames
     DEF ReconcileExpired, ReconcileDuplicates, UpdateSession, CloseSession,
         CompleteAllSessionOrders, CheckExpiry, WriteOrder, WriteDeletedOrder, PurgeOrders, Fail,
         At, InHand
<1>14. ASSUME NEW c \in Calls, SessionStep(c) PROVE SessionsFound'
  BY <1>6, <1>7, <1>8, <1>9, <1>10, <1>11, <1>13, <1>14 DEF SessionStep
<1>15. ASSUME NEW c \in Calls, OrderStep(c) PROVE SessionsFound'
  BY <1>12, <1>13, <1>15 DEF OrderStep
<1> QED BY <1>3, <1>13, <1>14, <1>15 DEF Next, EnforceSingleActive, Tick, vars

\* The initial states satisfy the inductive invariant: at most one session, no
\* call that has read or counted anything.
LEMMA InitIndInv == Init => IndInv
<1> SUFFICES ASSUME Init PROVE IndInv
  OBVIOUS
<1>1. TypeOK
  BY InitTypeOK
<1>2. ASSUME NEW i \in Sids
      PROVE  sessions[i].final = NoStats /\ (sessions[i].status = "ACTIVE" => i = 1)
  <2>1. CASE EmptyTables
    BY <2>1 DEF EmptyTables, NoSession
  <2>2. CASE ~EmptyTables
    <3>1. PICK end, status : SessionUnderWay(end, status)
      BY <2>2 DEF Init
    <3>2. sessions[i] = IF i = 1
                        THEN [NoSession EXCEPT !.status = "ACTIVE", !.expires = end]
                        ELSE NoSession
      BY <3>1 DEF SessionUnderWay
    <3> QED BY <3>2 DEF NoSession
  <2> QED BY <2>1, <2>2
<1>3. \A c \in Calls : call[c] \in NewCalls
  BY DEF Init
<1>4. \A x \in NewCalls :
        /\ x.answer = "none"
        /\ x.pc \in {"expire1", "expire", "readSession", "readOrder", "purge"}
        /\ x.kind = "close" => x.pc = "readSession"
  BY DEF NewCalls, NewCall, FirstPc, AllKinds
<1>5. SingleActive
  BY <1>2 DEF SingleActive, Active
<1>6. HandlersInStep
  BY <1>3, <1>4 DEF HandlersInStep, At
<1>7. CountsHeld
  BY <1>2, <1>3, <1>4 DEF CountsHeld, At
<1>8. \A i : ~Settled(i)
  BY <1>3, <1>4 DEF Settled
<1>9. ClosesCounted
  BY <1>3, <1>4, <1>8 DEF ClosesCounted, At
<1>10. SnapshotNeverTooLow /\ SnapshotNeverTooHigh
  BY <1>2, OrdersInFinite DEF SnapshotNeverTooLow, SnapshotNeverTooHigh, NoStats
<1>11. CloseSettlesUnlessRaced
  BY <1>8 DEF CloseSettlesUnlessRaced
<1>12. SessionsFound
  BY <1>3, <1>4 DEF SessionsFound
<1> QED BY <1>1, <1>5, <1>6, <1>7, <1>9, <1>10, <1>11, <1>12 DEF IndInv

\* Closing sessions never makes a second one ACTIVE.
LEMMA CloseKeepsSingleActive ==
  ASSUME TypeOK, SingleActive, NEW rows, sessions' = Close(rows), indexed' = indexed
  PROVE  SingleActive'
  BY DEF TypeOK, SessionRow, SingleActive, Active, Close

\* Of two live sessions one supersedes the other, so that closing the expired
\* and the superseded leaves at most one.
LEMMA PruningLeavesOne ==
  ASSUME TypeOK, sessions' = Close(ExpiredActive \cup Superseded)
  PROVE  \A i, j \in Sids : Active(i)' /\ Active(j)' => i = j
<1> SUFFICES ASSUME NEW i \in Sids, NEW j \in Sids, Active(i)', Active(j)', i # j
             PROVE  FALSE
  OBVIOUS
<1>1. Live(i) /\ i \notin Superseded /\ Live(j) /\ j \notin Superseded
  BY DEF TypeOK, SessionRow, Close, Active, Live, ExpiredActive, Expired
<1>2. sessions[i].started \in Int /\ sessions[j].started \in Int /\ i \in Int /\ j \in Int
  BY DEF TypeOK, SessionRow, Times, Sids
<1>3. Newer(i, j) \/ Newer(j, i)
  BY <1>2 DEF Newer
<1> QED BY <1>1, <1>3 DEF Superseded

\* A step of one call that leaves the orders and the snapshots as they are, and
\* does not enter the statements of CloseSession, keeps the invariant.
LEMMA QuietStep ==
  ASSUME IndInv, TypeOK', SessionsFound', SingleActive',
         orders' = orders, late' = late,
         \A i \in Sids : /\ sessions'[i].final = sessions[i].final
                         /\ sessions[i].status # "NONE" => sessions'[i].status # "NONE",
         NEW c \in Calls,
         \A d \in Calls \ {c} : call'[d] = call[d],
         call'[c].kind = call[c].kind,
         call'[c].pc \notin {"shut", "complete"},
         call'[c].pc = "done" \/ call'[c].answer = "none",
         call[c].kind = "close" => /\ call'[c].pc \in {"readSession", "stats", "done"}
                                   /\ call'[c].answer # "ok"
  PROVE  IndInv'
<1>1. \A i : OrdersIn(i)' = OrdersIn(i) /\ OpenIn(i)' = OpenIn(i)
  BY DEF OrdersIn, OpenIn, InTable
<1>2. HandlersInStep'
  BY DEF IndInv, HandlersInStep, At
<1>3. \A d \in Calls : call[d].sid \in Sids
  BY DEF IndInv, TypeOK, Call
<1>4. ASSUME NEW d \in Calls, call'[d].pc \in {"shut", "complete"} PROVE call'[d] = call[d]
  BY <1>4
<1>5. CountsHeld'
  BY <1>1, <1>4 DEF IndInv, CountsHeld, At
<1>6. \A i : Settled(i)' => Settled(i)
  BY DEF Settled
<1>7. ClosesCounted'
  BY <1>3, <1>4, <1>6 DEF IndInv, ClosesCounted, At
<1>8. SnapshotNeverTooLow' /\ SnapshotNeverTooHigh'
  BY <1>1 DEF IndInv, SnapshotNeverTooLow, SnapshotNeverTooHigh
<1>9. CloseSettlesUnlessRaced'
  BY <1>1, <1>6 DEF IndInv, CloseSettlesUnlessRaced
<1> QED BY <1>2, <1>5, <1>7, <1>8, <1>9 DEF IndInv

\* Answering is such a step, for a close as long as the answer is not "ok".
LEMMA QuietAnswer ==
  ASSUME IndInv, TypeOK', SessionsFound', UNCHANGED <<sessions, orders, indexed, late>>,
         NEW c \in Calls, NEW a \in Answers, Answer(c, a),
         call[c].kind = "close" => a # "ok"
  PROVE  IndInv'
<1>1. SingleActive'
  BY DEF IndInv, SingleActive, Active
<1>2. /\ \A d \in Calls \ {c} : call'[d] = call[d]
      /\ call'[c] = [call[c] EXCEPT !.pc = "done", !.answer = a]
  BY DEF Answer, IndInv, TypeOK
<1>3. /\ call'[c].kind = call[c].kind /\ call'[c].pc = "done"
      /\ call'[c].answer = a
  BY <1>2 DEF IndInv, TypeOK, Call
<1> QED BY <1>1, <1>2, <1>3, QuietStep
\* A session that keeps its orders, or gains some, has no fewer.
LEMMA OrdersGrow ==
  ASSUME NEW i, OrdersIn(i) \subseteq OrdersIn(i)'
  PROVE  /\ Cardinality(OrdersIn(i)) <= Cardinality(OrdersIn(i)')
         /\ Cardinality(OrdersIn(i)') \in Nat
<1>1. IsFiniteSet(OrdersIn(i)')
  <2>1. IsFiniteSet(Oids) /\ OrdersIn(i)' \in SUBSET Oids
    BY FS_Interval DEF Oids, OrdersIn
  <2> QED BY <2>1, FS_Subset
<1> QED BY <1>1, FS_Subset, FS_CardinalityType

\* A session that loses orders has no more.
LEMMA OrdersShrink ==
  ASSUME NEW i, OrdersIn(i)' \subseteq OrdersIn(i)
  PROVE  /\ Cardinality(OrdersIn(i)') <= Cardinality(OrdersIn(i))
         /\ Cardinality(OrdersIn(i)') \in Nat
<1>1. IsFiniteSet(OrdersIn(i)) /\ IsFiniteSet(OrdersIn(i)')
  BY OrdersInFinite, FS_Subset
<1> QED BY <1>1, FS_Subset, FS_CardinalityType

\* The steps that do not touch the orders and count nothing.
LEMMA QuietSteps ==
  ASSUME IndInv, TypeOK', SessionsFound', NEW c \in Calls,
         \/ ReconcileExpired(c) \/ ReconcileDuplicates(c) \/ SelectNone(c)
         \/ \E i \in Sids : SelectActive(c, i) \/ CreateSession(c, i) \/ ReadSessionToClose(c, i)
         \/ \E i \in Sids : \E end \in EndChoices \cup {sessions[i].expires} :
              ReadSessionToUpdate(c, i, end)
         \/ UpdateSession(c) \/ CheckExpiry(c) \/ Fail(c)
         \/ \E o \in Oids : ReadOrderToEdit(c, o)
         \/ \E o \in Oids, target \in OrderStatus : ReadOrderToMark(c, o, target)
         \/ WriteDeletedOrder(c) \/ ReadDayToPurge(c)
  PROVE  IndInv'
<1>1. /\ TypeOK /\ SingleActive /\ HandlersInStep
      /\ call[c] \in Call
      /\ \A i \in Sids : sessions[i] \in SessionRow
      /\ call \in [Calls -> Call]
  BY DEF IndInv, TypeOK
<1>2. ~At(c, "done") => call[c].answer = "none"
  BY <1>1 DEF HandlersInStep
<1>3. call[c].kind = "close" =>
         call[c].pc \in {"readSession", "stats", "shut", "complete", "done"}
  BY <1>1 DEF HandlersInStep
<1>4. UNCHANGED <<sessions, indexed>> => SingleActive'
  BY <1>1 DEF SingleActive, Active
<1>5. ASSUME ReconcileExpired(c) PROVE IndInv'
  <2>1. SingleActive'
    BY <1>1, <1>5, CloseKeepsSingleActive DEF ReconcileExpired
  <2>2. \A i \in Sids : /\ sessions'[i].final = sessions[i].final
                        /\ sessions[i].status # "NONE" => sessions'[i].status # "NONE"
    BY <1>1, <1>5 DEF ReconcileExpired, Close, SessionRow
  <2>3. \A d \in Calls \ {c} : call'[d] = call[d]
    BY <1>1, <1>5 DEF ReconcileExpired, Goto
  <2>4. /\ call'[c].kind = call[c].kind
        /\ call'[c].pc \in {"prune1", "prune", "statsPrune"}
        /\ call'[c].answer = "none" /\ call[c].kind # "close"
    BY <1>1, <1>2, <1>3, <1>5 DEF ReconcileExpired, Goto, At, Call
  <2> QED BY <1>5, <2>1, <2>2, <2>3, <2>4, QuietStep DEF ReconcileExpired
<1>6. ASSUME ReconcileDuplicates(c) PROVE IndInv'
  <2>1. SingleActive'
    BY <1>1, <1>6, CloseKeepsSingleActive DEF ReconcileDuplicates
  <2>2. \A i \in Sids : /\ sessions'[i].final = sessions[i].final
                        /\ sessions[i].status # "NONE" => sessions'[i].status # "NONE"
    BY <1>1, <1>6 DEF ReconcileDuplicates, Close, SessionRow
  <2>3. call[c].kind # "close" /\ call[c].answer = "none"
    BY <1>2, <1>3, <1>6 DEF ReconcileDuplicates, At
  <2>4. CASE Goto(c, "expire") \/ Goto(c, "select")
    <3>1. /\ \A d \in Calls \ {c} : call'[d] = call[d]
          /\ call'[c].kind = call[c].kind /\ call'[c].pc \in {"expire", "select"}
          /\ call'[c].answer = "none"
      BY <1>1, <2>3, <2>4 DEF Goto, Call
    <3> QED BY <1>6, <2>1, <2>2, <2>3, <3>1, QuietStep DEF ReconcileDuplicates
  <2>5. CASE Answer(c, "ok") \/ Answer(c, "missing")
    <3>1. /\ \A d \in Calls \ {c} : call'[d] = call[d]
          /\ call'[c].kind = call[c].kind /\ call'[c].pc = "done"
      BY <1>1, <2>5 DEF Answer, Call
    <3> QED BY <1>6, <2>1, <2>2, <2>3, <3>1, QuietStep DEF ReconcileDuplicates
  <2> QED BY <1>6, <2>4, <2>5 DEF ReconcileDuplicates
<1>7. ASSUME NEW a \in Answers, Answer(c, a), a # "ok" \/ call[c].kind # "close",
             UNCHANGED <<sessions, orders, indexed, late>>
      PROVE  IndInv'
  BY <1>7, QuietAnswer
<1>8. ASSUME SelectNone(c) PROVE IndInv'
  <2>1. call[c].kind # "close" /\ call[c].answer = "none"
    BY <1>2, <1>3, <1>8 DEF SelectNone, At
  <2>2. CASE Answer(c, "ok")
    BY <1>7, <1>8, <2>1, <2>2, AnswerNames DEF SelectNone
  <2>3. ASSUME NEW end, call' = [call EXCEPT ![c].pc = "insert", ![c].started = now,
                                             ![c].expires = end]
        PROVE  IndInv'
    <3>1. /\ \A d \in Calls \ {c} : call'[d] = call[d]
          /\ call'[c].kind = call[c].kind /\ call'[c].pc = "insert"
          /\ call'[c].answer = "none"
      BY <1>1, <2>1, <2>3 DEF Call
    <3> QED BY <1>4, <1>8, <2>1, <3>1, QuietStep DEF SelectNone
  <2> QED BY <1>8, <2>2, <2>3 DEF SelectNone
<1>9. ASSUME NEW i \in Sids, SelectActive(c, i) PROVE IndInv'
  <2>1. call[c].kind # "close" /\ call[c].answer = "none"
    BY <1>2, <1>3, <1>9 DEF SelectActive, At
  <2>2. CASE Answer(c, "ok") \/ Answer(c, "conflict")
    BY <1>7, <1>9, <2>1, <2>2, AnswerNames DEF SelectActive
  <2>3. CASE call' = [call EXCEPT ![c].pc = "check", ![c].sid = i,
                                  ![c].expires = sessions[i].expires]
    <3>1. /\ \A d \in Calls \ {c} : call'[d] = call[d]
          /\ call'[c].kind = call[c].kind /\ call'[c].pc = "check"
          /\ call'[c].answer = "none"
      BY <1>1, <2>1, <2>3 DEF Call
    <3> QED BY <1>4, <1>9, <2>1, <3>1, QuietStep DEF SelectActive
  <2> QED BY <1>9, <2>2, <2>3 DEF SelectActive
<1>10. ASSUME NEW i \in Sids, CreateSession(c, i) PROVE IndInv'
  <2>1. call[c].kind # "close"
    BY <1>2, <1>3, <1>10 DEF CreateSession, At
  <2>2. CASE IndexRefuses(i)
    BY <1>7, <1>10, <2>1, <2>2, AnswerNames DEF CreateSession
  <2>3. CASE ~IndexRefuses(i)
    <3>1. sessions' = [sessions EXCEPT ![i] =
             [status |-> "ACTIVE", started |-> call[c].started,
              expires |-> call[c].expires, final |-> NoStats]]
      BY <1>10, <2>3 DEF CreateSession
    <3>2. SingleActive'
      BY <1>1, <1>10, <2>3, <3>1
         DEF CreateSession, TypeOK, SessionRow, SingleActive, IndexRefuses, Active
    <3>3. sessions[i].status = "NONE"
      <4>1. sessions[i].status # "NONE" <=> i < i
        BY <1>10 DEF CreateSession
      <4> QED BY <4>1 DEF Sids
    <3>4. sessions[i].final = NoStats
      BY <3>3 DEF IndInv, CountsHeld
    <3>5. \A j \in Sids : /\ sessions'[j].final = sessions[j].final
                          /\ sessions[j].status # "NONE" => sessions'[j].status # "NONE"
      BY <1>1, <3>1, <3>4 DEF TypeOK, SessionRow
    <3>6. /\ \A d \in Calls \ {c} : call'[d] = call[d]
          /\ call'[c].kind = call[c].kind /\ call'[c].pc \in {"check", "done"}
          /\ call'[c].pc = "done" \/ call'[c].answer = "none"
      <4>1. call' = [call EXCEPT ![c].sid = i,
                       ![c].pc     = IF call[c].kind = "order" THEN "check" ELSE "done",
                       ![c].answer = IF call[c].kind = "order" THEN "none" ELSE "ok"]
        BY <1>10, <2>3 DEF CreateSession
      <4>2. CASE call[c].kind = "order"
        BY <1>1, <4>1, <4>2 DEF Call
      <4>3. CASE call[c].kind # "order"
        BY <1>1, <4>1, <4>3 DEF Call
      <4> QED BY <4>2, <4>3
    <3> QED BY <1>10, <2>1, <3>2, <3>5, <3>6, QuietStep DEF CreateSession
  <2> QED BY <2>2, <2>3
<1>11. ASSUME NEW i \in Sids, ReadSessionToClose(c, i) PROVE IndInv'
  <2>1. call[c].answer = "none"
    BY <1>2, <1>11 DEF ReadSessionToClose, At
  <2>2. CASE Answer(c, "missing") \/ Answer(c, "refused")
    BY <1>7, <1>11, <2>2, AnswerNames DEF ReadSessionToClose
  <2>3. CASE call' = [call EXCEPT ![c].pc = "stats", ![c].sid = i]
    <3>1. /\ \A d \in Calls \ {c} : call'[d] = call[d]
          /\ call'[c].kind = call[c].kind /\ call'[c].pc = "stats"
          /\ call'[c].answer = "none"
      BY <1>1, <2>1, <2>3 DEF Call
    <3> QED BY <1>4, <1>11, <3>1, QuietStep DEF ReadSessionToClose
  <2> QED BY <1>11, <2>2, <2>3 DEF ReadSessionToClose
<1>12. ASSUME NEW i \in Sids, NEW end, ReadSessionToUpdate(c, i, end) PROVE IndInv'
  <2>1. call[c].answer = "none" /\ call[c].kind # "close"
    BY <1>2, <1>12 DEF ReadSessionToUpdate, At
  <2>2. CASE Answer(c, "missing") \/ Answer(c, "refused")
    BY <1>7, <1>12, <2>2, AnswerNames DEF ReadSessionToUpdate
  <2>3. CASE call' = [call EXCEPT ![c].pc = "write", ![c].sid = i, ![c].expires = end]
    <3>1. /\ \A d \in Calls \ {c} : call'[d] = call[d]
          /\ call'[c].kind = call[c].kind /\ call'[c].pc = "write"
          /\ call'[c].answer = "none"
      BY <1>1, <2>1, <2>3 DEF Call
    <3> QED BY <1>4, <1>12, <2>1, <3>1, QuietStep DEF ReadSessionToUpdate
  <2> QED BY <1>12, <2>2, <2>3 DEF ReadSessionToUpdate
<1>13. ASSUME UpdateSession(c) PROVE IndInv'
  <2>1. call[c].kind # "close" /\ call[c].sid \in Sids
    BY <1>1, <1>3, <1>13 DEF UpdateSession, At, Call
  <2>2. CASE IndexRefuses(call[c].sid)
    BY <1>7, <1>13, <2>1, <2>2, AnswerNames DEF UpdateSession
  <2>3. CASE ~IndexRefuses(call[c].sid)
    <3>1. sessions' = [sessions EXCEPT ![call[c].sid].status = "ACTIVE",
                                       ![call[c].sid].expires = call[c].expires]
      BY <1>13, <2>3 DEF UpdateSession
    <3>2. SingleActive'
      BY <1>1, <1>13, <2>1, <2>3, <3>1
         DEF UpdateSession, TypeOK, SessionRow, SingleActive, IndexRefuses, Active
    <3>3. \A j \in Sids : /\ sessions'[j].final = sessions[j].final
                          /\ sessions[j].status # "NONE" => sessions'[j].status # "NONE"
      BY <1>1, <2>1, <3>1 DEF TypeOK, SessionRow
    <3>4. /\ \A d \in Calls \ {c} : call'[d] = call[d]
          /\ call'[c].kind = call[c].kind /\ call'[c].pc = "done"
      BY <1>1, <1>13, <2>3 DEF UpdateSession, Answer, Call
    <3> QED BY <1>13, <2>1, <3>2, <3>3, <3>4, QuietStep DEF UpdateSession
  <2> QED BY <2>2, <2>3
<1>14. ASSUME CheckExpiry(c) PROVE IndInv'
  <2>1. call[c].kind # "close" /\ call[c].answer = "none"
    BY <1>2, <1>3, <1>14 DEF CheckExpiry, At
  <2>2. CASE Answer(c, "expired")
    BY <1>7, <1>14, <2>2, AnswerNames DEF CheckExpiry
  <2>3. CASE Goto(c, "place")
    <3>1. /\ \A d \in Calls \ {c} : call'[d] = call[d]
          /\ call'[c].kind = call[c].kind /\ call'[c].pc = "place"
          /\ call'[c].answer = "none"
      BY <1>1, <2>1, <2>3 DEF Call, Goto
    <3> QED BY <1>4, <1>14, <2>1, <3>1, QuietStep DEF CheckExpiry
  <2> QED BY <1>14, <2>2, <2>3 DEF CheckExpiry
<1>15. ASSUME Fail(c) PROVE IndInv'
  BY <1>7, <1>15, AnswerNames DEF Fail
<1>16. ASSUME NEW o \in Oids, ReadOrderToEdit(c, o) PROVE IndInv'
  <2>1. call[c].kind # "close" /\ call[c].answer = "none"
    BY <1>2, <1>16 DEF ReadOrderToEdit, At
  <2>2. CASE Answer(c, "missing") \/ Answer(c, "refused")
    BY <1>7, <1>16, <2>2, AnswerNames DEF ReadOrderToEdit
  <2>3. CASE call' = [call EXCEPT ![c].pc = "rewrite", ![c].oid = o,
                                  ![c].status = orders[o].status]
    <3>1. /\ \A d \in Calls \ {c} : call'[d] = call[d]
          /\ call'[c].kind = call[c].kind /\ call'[c].pc = "rewrite"
          /\ call'[c].answer = "none"
      BY <1>1, <2>1, <2>3 DEF Call
    <3> QED BY <1>4, <1>16, <2>1, <2>3, <3>1, QuietStep DEF ReadOrderToEdit
  <2> QED BY <1>16, <2>2, <2>3 DEF ReadOrderToEdit
<1>17. ASSUME NEW o \in Oids, NEW target, ReadOrderToMark(c, o, target) PROVE IndInv'
  <2>1. call[c].kind # "close" /\ call[c].answer = "none"
    BY <1>2, <1>17 DEF ReadOrderToMark, At
  <2>2. CASE Answer(c, "missing")
    BY <1>7, <1>17, <2>2, AnswerNames DEF ReadOrderToMark
  <2>3. CASE call' = [call EXCEPT ![c].pc = "mark", ![c].oid = o, ![c].status = target]
    <3>1. /\ \A d \in Calls \ {c} : call'[d] = call[d]
          /\ call'[c].kind = call[c].kind /\ call'[c].pc = "mark"
          /\ call'[c].answer = "none"
      BY <1>1, <2>1, <2>3 DEF Call
    <3> QED BY <1>4, <1>17, <2>1, <2>3, <3>1, QuietStep DEF ReadOrderToMark
  <2> QED BY <1>17, <2>2, <2>3 DEF ReadOrderToMark
<1>18. ASSUME NEW pc \in {"statsExpire", "delete"},
              Goto(c, pc) \/ \E day : call' = [call EXCEPT ![c].pc = pc, ![c].expires = day],
              At(c, "mark") \/ At(c, "purge"),
              UNCHANGED <<sessions, orders, indexed, late>>
       PROVE  IndInv'
  <2>1. call[c].kind # "close" /\ call[c].answer = "none"
    BY <1>2, <1>3, <1>18 DEF At
  <2>2. /\ \A d \in Calls \ {c} : call'[d] = call[d]
        /\ call'[c].kind = call[c].kind /\ call'[c].pc = pc /\ call'[c].answer = "none"
    BY <1>1, <1>18, <2>1 DEF Call, Goto
  <2> QED BY <1>4, <1>18, <2>1, <2>2, QuietStep
<1>19. ASSUME WriteDeletedOrder(c) PROVE IndInv'
  BY <1>7, <1>18, <1>19, AnswerNames DEF WriteDeletedOrder
<1>20. ASSUME ReadDayToPurge(c) PROVE IndInv'
  BY <1>18, <1>20 DEF ReadDayToPurge
<1> QED BY <1>5, <1>6, <1>8, <1>9, <1>10, <1>11, <1>12, <1>13, <1>14, <1>15, <1>16, <1>17,
           <1>19, <1>20
\* The step of CloseSession in which the orders are counted.
LEMMA CountingStep ==
  ASSUME IndInv, TypeOK', SessionsFound', NEW c \in Calls, GetSessionStats(c)
  PROVE  IndInv'
<1>1. TypeOK /\ HandlersInStep /\ call[c] \in Call /\ call \in [Calls -> Call]
  BY DEF IndInv, TypeOK
<1>2. UNCHANGED <<sessions, orders, indexed, late>>
  BY DEF GetSessionStats
<1>3. \A i : OrdersIn(i)' = OrdersIn(i) /\ OpenIn(i)' = OpenIn(i)
  BY <1>2 DEF OrdersIn, OpenIn, InTable
<1>4. \A d \in Calls \ {c} : call'[d] = call[d]
  BY <1>1 DEF GetSessionStats
<1>5. /\ call'[c].kind = call[c].kind /\ call'[c].pc = "shut"
      /\ call'[c].answer = call[c].answer /\ call'[c].sid = call[c].sid
  BY <1>1 DEF GetSessionStats, Call
<1>6. call'[c].count = Cardinality(OrdersIn(call[c].sid))
  BY <1>1 DEF GetSessionStats, Call
<1>7. call[c].answer = "none"
  BY <1>1 DEF GetSessionStats, HandlersInStep, At
<1>8. SingleActive'
  BY <1>2 DEF IndInv, SingleActive, Active
<1>9. HandlersInStep'
  BY <1>1, <1>2, <1>4, <1>5, <1>7 DEF HandlersInStep, At
<1>10. CountsHeld'
  <2>1. \A i : /\ Cardinality(OrdersIn(i)) <= Cardinality(OrdersIn(i))
               /\ Cardinality(OrdersIn(i)) >= Cardinality(OrdersIn(i))
    BY OrdersInFinite
  <2> QED BY <1>2, <1>3, <1>4, <1>5, <1>6, <2>1 DEF IndInv, CountsHeld, At
<1>11. \A i : Settled(i)' => Settled(i)
  BY <1>4, <1>5, <1>7 DEF Settled
<1>12. ClosesCounted'
  BY <1>2, <1>4, <1>5, <1>11 DEF IndInv, ClosesCounted, At
<1>13. SnapshotNeverTooLow' /\ SnapshotNeverTooHigh' /\ CloseSettlesUnlessRaced'
  BY <1>2, <1>3, <1>11
     DEF IndInv, SnapshotNeverTooLow, SnapshotNeverTooHigh, CloseSettlesUnlessRaced
<1> QED BY <1>8, <1>9, <1>10, <1>12, <1>13 DEF IndInv

\* The step in which the session is closed and the count goes on file.
LEMMA ClosingStep ==
  ASSUME IndInv, TypeOK', SessionsFound', NEW c \in Calls, CloseSession(c)
  PROVE  IndInv'
<1> DEFINE s == call[c].sid
<1>1. /\ TypeOK /\ HandlersInStep /\ call[c] \in Call /\ call \in [Calls -> Call]
      /\ s \in Sids /\ sessions \in [Sids -> SessionRow] /\ call[c].count \in Nat
  BY DEF IndInv, TypeOK, Call
<1>2. UNCHANGED <<orders, indexed, late>> /\ At(c, "shut")
  BY DEF CloseSession
<1>3. \A i : OrdersIn(i)' = OrdersIn(i) /\ OpenIn(i)' = OpenIn(i)
  BY <1>2 DEF OrdersIn, OpenIn, InTable
<1>4. \A d \in Calls \ {c} : call'[d] = call[d]
  BY <1>1 DEF CloseSession, Goto
<1>5. /\ call'[c].kind = call[c].kind /\ call'[c].pc = "complete"
      /\ call'[c].answer = call[c].answer /\ call'[c].sid = s
  BY <1>1 DEF CloseSession, Goto, Call
<1>6. /\ \A i \in Sids \ {s} : sessions'[i] = sessions[i]
      /\ sessions'[s].status = "CLOSED" /\ sessions'[s].final = call[c].count
  BY <1>1 DEF CloseSession, SessionRow
<1>7. call[c].answer = "none"
  BY <1>1, <1>2 DEF HandlersInStep, At
<1>8. SingleActive'
  BY <1>2, <1>6 DEF IndInv, SingleActive, Active
<1>9. HandlersInStep'
  BY <1>1, <1>2, <1>4, <1>5, <1>7 DEF HandlersInStep, At
<1>10. /\ "purged" \notin late[s] => call[c].count <= Cardinality(OrdersIn(s))
       /\ "placed" \notin late[s] => call[c].count >= Cardinality(OrdersIn(s))
  BY <1>2 DEF IndInv, CountsHeld
<1>11. CountsHeld'
  <2>1. \A i \in Sids : sessions'[i].final # NoStats => sessions'[i].status # "NONE"
    BY <1>6 DEF IndInv, CountsHeld
  <2>2. ASSUME NEW d \in Calls, call'[d].pc = "shut" PROVE d # c /\ call'[d] = call[d]
    BY <1>4, <1>5, <2>2
  <2> QED BY <1>2, <1>3, <2>1, <2>2 DEF IndInv, CountsHeld, At
<1>12. \A i : Settled(i)' => Settled(i)
  BY <1>4, <1>5, <1>7 DEF Settled
<1>13. sessions'[s].final # NoStats
  BY <1>1, <1>6 DEF NoStats
<1>14. ClosesCounted'
  <2>1. \A i \in Sids : sessions[i].final # NoStats => sessions'[i].final # NoStats
    BY <1>6, <1>13
  <2>2. \A d \in Calls : call[d].sid \in Sids
    BY <1>1 DEF Call
  <2> QED BY <1>4, <1>5, <1>12, <1>13, <2>1, <2>2 DEF IndInv, ClosesCounted, At
<1>15. SnapshotNeverTooLow' /\ SnapshotNeverTooHigh'
  BY <1>2, <1>3, <1>6, <1>10 DEF IndInv, SnapshotNeverTooLow, SnapshotNeverTooHigh
<1>16. CloseSettlesUnlessRaced'
  BY <1>2, <1>3, <1>12 DEF IndInv, CloseSettlesUnlessRaced
<1> QED BY <1>8, <1>9, <1>11, <1>14, <1>15, <1>16 DEF IndInv

\* The step that completes the orders of the session and answers the close.
LEMMA CompletingStep ==
  ASSUME IndInv, TypeOK', SessionsFound', NEW c \in Calls, CompleteAllSessionOrders(c)
  PROVE  IndInv'
<1> DEFINE s == call[c].sid
<1>1. /\ TypeOK /\ HandlersInStep /\ call[c] \in Call /\ call \in [Calls -> Call]
      /\ s \in Sids /\ orders \in [Oids -> OrderRow]
  BY DEF IndInv, TypeOK, Call
<1>2. UNCHANGED <<sessions, indexed, late>> /\ At(c, "complete")
  BY DEF CompleteAllSessionOrders
<1>3. \A d \in Calls \ {c} : call'[d] = call[d]
  BY <1>1 DEF CompleteAllSessionOrders, Answer
<1>4. call'[c].kind = call[c].kind /\ call'[c].pc = "done" /\ call'[c].sid = s
  BY <1>1 DEF CompleteAllSessionOrders, Answer, Call
<1>5. \A o \in Oids :
        orders'[o] = IF o \in OpenIn(s) THEN [orders[o] EXCEPT !.status = "COMPLETED"]
                                        ELSE orders[o]
  BY DEF CompleteAllSessionOrders
<1>6. \A o \in Oids : /\ orders'[o].session = orders[o].session
                      /\ orders'[o].status = IF o \in OpenIn(s) THEN "COMPLETED"
                                                                ELSE orders[o].status
  BY <1>1, <1>5 DEF OrderRow
<1>7. \A i : OrdersIn(i)' = OrdersIn(i)
  BY <1>6 DEF OrdersIn, OpenIn, InTable, OrderStatus
<1>8. \A i : OpenIn(i)' \subseteq OpenIn(i) \ OpenIn(s)
  <2> SUFFICES ASSUME NEW i, NEW o \in OpenIn(i)' PROVE o \in OpenIn(i) \ OpenIn(s)
    OBVIOUS
  <2>1. o \in OrdersIn(i) /\ orders'[o].status # "COMPLETED" /\ o \in Oids
    BY <1>7 DEF OpenIn, OrdersIn
  <2>2. o \notin OpenIn(s) /\ orders[o].status # "COMPLETED"
    BY <1>6, <2>1
  <2> QED BY <2>1, <2>2 DEF OpenIn
<1>9. SingleActive'
  BY <1>2 DEF IndInv, SingleActive, Active
<1>10. HandlersInStep'
  BY <1>1, <1>3, <1>4 DEF HandlersInStep, At
<1>11. CountsHeld' /\ SnapshotNeverTooLow' /\ SnapshotNeverTooHigh'
  BY <1>2, <1>3, <1>4, <1>7
     DEF IndInv, CountsHeld, SnapshotNeverTooLow, SnapshotNeverTooHigh, At
<1>12. sessions[s].final # NoStats
  BY <1>2 DEF IndInv, ClosesCounted
<1>13. \A i : Settled(i)' => Settled(i) \/ i = s
  BY <1>3, <1>4 DEF Settled
<1>14. ClosesCounted'
  BY <1>2, <1>3, <1>4, <1>12, <1>13 DEF IndInv, ClosesCounted, At
<1>15. CloseSettlesUnlessRaced'
  <2> SUFFICES ASSUME NEW i \in Sids, Settled(i)', late'[i] \subseteq {"purged"}
               PROVE  OpenIn(i)' = {}
    BY DEF CloseSettlesUnlessRaced
  <2>1. OpenIn(i)' \subseteq OpenIn(i) \ OpenIn(s)
    BY <1>8
  <2>2. OpenIn(i) = {} \/ i = s
    BY <1>2, <1>13 DEF IndInv, CloseSettlesUnlessRaced
  <2> QED BY <2>1, <2>2
<1> QED BY <1>9, <1>10, <1>11, <1>14, <1>15 DEF IndInv

\* What the steps of handlers that write to orders have in common: sessions, and
\* the calls that close them, are left alone.
LEMMA OrdersWritten ==
  ASSUME IndInv, UNCHANGED <<sessions, indexed>>, NEW c \in Calls, Goto(c, "statsExpire"),
         call[c].kind # "close", ~At(c, "done")
  PROVE  /\ SingleActive' /\ HandlersInStep' /\ ClosesCounted'
         /\ \A i : Settled(i)' => Settled(i)
         /\ \A d \in Calls : call'[d].pc = "shut" => call'[d] = call[d]
<1>1. TypeOK /\ HandlersInStep /\ call[c] \in Call /\ call \in [Calls -> Call]
  BY DEF IndInv, TypeOK
<1>2. /\ \A d \in Calls \ {c} : call'[d] = call[d]
      /\ call'[c].kind = call[c].kind /\ call'[c].pc = "statsExpire"
      /\ call'[c].answer = call[c].answer
  BY <1>1 DEF Goto, Call
<1>3. call[c].answer = "none"
  BY <1>1 DEF HandlersInStep
<1>4. SingleActive'
  BY DEF IndInv, SingleActive, Active
<1>5. HandlersInStep'
  BY <1>1, <1>2, <1>3 DEF HandlersInStep, At
<1>6. \A i : Settled(i)' => Settled(i)
  BY <1>2, <1>3 DEF Settled
<1>7. ClosesCounted'
  BY <1>2, <1>6 DEF IndInv, ClosesCounted, At
<1> QED BY <1>2, <1>4, <1>5, <1>6, <1>7

\* The history only grows, where it says it does.
LEMMA BehindGrows ==
  ASSUME TypeOK, NEW is, NEW what, late' = Behind(is, what)
  PROVE  /\ \A i \in Sids : late[i] \subseteq late'[i]
         /\ \A i \in Sids : i \in is => what \in late'[i]
  BY DEF TypeOK, Behind

\* A new order: if its session has been counted already, the history says so
\* from now on.
LEMMA PlacingStep ==
  ASSUME IndInv, TypeOK', SessionsFound', NEW c \in Calls, NEW o \in Oids, PlaceOrder(c, o)
  PROVE  IndInv'
<1> DEFINE s == call[c].sid
           After(i) == {p \in Oids : orders'[p].status \in OrderStatus /\ orders'[p].session = i}
<1>1. /\ TypeOK /\ HandlersInStep /\ call[c] \in Call /\ call \in [Calls -> Call]
      /\ s \in Sids /\ orders \in [Oids -> OrderRow]
      /\ \A d \in Calls : call[d].sid \in Sids /\ call[d].count \in Nat
      /\ \A i \in Sids : sessions[i].final \in Int
  BY DEF IndInv, TypeOK, Call, SessionRow, NoStats
<1>2. UNCHANGED <<sessions, indexed>> /\ At(c, "place")
  BY DEF PlaceOrder
<1>3. call[c].kind # "close" /\ call[c].answer = "none"
  BY <1>1, <1>2 DEF HandlersInStep, At
<1>4. /\ \A d \in Calls \ {c} : call'[d] = call[d]
      /\ call'[c].kind = call[c].kind /\ call'[c].pc = "statsExpire"
      /\ call'[c].answer = "none"
  BY <1>1, <1>3 DEF PlaceOrder, Call
<1>5. orders[o].status = "NONE"
  <2>1. orders[o].status # "NONE" <=> o < o
    BY DEF PlaceOrder
  <2> QED BY <2>1 DEF Oids
<1>6. /\ \A p \in Oids \ {o} : orders'[p] = orders[p]
      /\ orders'[o].session = s /\ orders'[o].status = "NEW"
  BY <1>1 DEF PlaceOrder
<1>7. \A i : OrdersIn(i)' = After(i)
  BY DEF OrdersIn, InTable
<1>8. ~InTable(o)
  BY <1>5 DEF InTable, OrderStatus
<1>9. \A i : i # s => After(i) = OrdersIn(i) /\ OpenIn(i)' = OpenIn(i)
  BY <1>6, <1>8 DEF OrdersIn, OpenIn, InTable
<1>10. ASSUME NEW i
       PROVE  /\ Cardinality(OrdersIn(i)) <= Cardinality(After(i))
              /\ Cardinality(OrdersIn(i)) \in Nat /\ Cardinality(After(i)) \in Nat
  <2>1. OrdersIn(i) \subseteq OrdersIn(i)'
    BY <1>6, <1>8 DEF OrdersIn, InTable
  <2> HIDE DEF After
  <2> QED BY <1>7, <2>1, OrdersGrow, OrdersInFinite
<1> HIDE DEF After
<1>11. /\ \A i \in Sids : late[i] \subseteq late'[i]
       /\ Counted(s) => "placed" \in late'[s]
  <2> DEFINE is == {s} \cap {i \in Sids : Counted(i)}
  <2>1. late' = Behind(is, "placed") /\ (Counted(s) => s \in is)
    BY <1>1 DEF PlaceOrder
  <2> HIDE DEF is
  <2> QED BY <1>1, <2>1, BehindGrows
<1>12. SingleActive'
  BY <1>2 DEF IndInv, SingleActive, Active
<1>13. HandlersInStep'
  BY <1>1, <1>3, <1>4 DEF HandlersInStep, At
<1>14. \A i : Settled(i)' => Settled(i)
  BY <1>3, <1>4 DEF Settled
<1>15. ClosesCounted'
  BY <1>2, <1>4, <1>14 DEF IndInv, ClosesCounted, At
<1>16. \A i \in Sids : sessions[i].final # NoStats /\ "placed" \notin late'[i] => i # s
  BY <1>11 DEF Counted
<1>17. SnapshotNeverTooLow'
  <2> SUFFICES ASSUME NEW i \in Sids, sessions[i].final # NoStats, "placed" \notin late'[i]
               PROVE  sessions[i].final >= Cardinality(After(i))
    BY <1>2, <1>7 DEF SnapshotNeverTooLow
  <2>1. After(i) = OrdersIn(i) /\ "placed" \notin late[i]
    BY <1>9, <1>11, <1>16
  <2> QED BY <2>1 DEF IndInv, SnapshotNeverTooLow
<1>18. SnapshotNeverTooHigh'
  <2> SUFFICES ASSUME NEW i \in Sids, "purged" \notin late'[i]
               PROVE  sessions[i].final <= Cardinality(After(i))
    BY <1>2, <1>7 DEF SnapshotNeverTooHigh
  <2>1. sessions[i].final <= Cardinality(OrdersIn(i))
    BY <1>11 DEF IndInv, SnapshotNeverTooHigh
  <2> QED BY <1>1, <1>10, <2>1
<1>19. CountsHeld'
  <2>1. ASSUME NEW d \in Calls, call'[d].pc = "shut"
        PROVE  /\ "purged" \notin late'[call'[d].sid] =>
                    call'[d].count <= Cardinality(After(call'[d].sid))
               /\ "placed" \notin late'[call'[d].sid] =>
                    call'[d].count >= Cardinality(After(call'[d].sid))
    <3> DEFINE i == call[d].sid
    <3>1. call'[d] = call[d] /\ i \in Sids /\ call[d].count \in Nat
      BY <1>1, <1>4, <2>1
    <3>2. /\ "purged" \notin late[i] => call[d].count <= Cardinality(OrdersIn(i))
          /\ "placed" \notin late[i] => call[d].count >= Cardinality(OrdersIn(i))
      BY <2>1, <3>1 DEF IndInv, CountsHeld, At
    <3>3. "placed" \notin late'[i] => i # s
      BY <1>11, <2>1, <3>1 DEF Counted
    <3>4. ASSUME "purged" \notin late'[i] PROVE call[d].count <= Cardinality(After(i))
      <4>1. call[d].count <= Cardinality(OrdersIn(i))
        BY <1>11, <3>1, <3>2, <3>4
      <4> HIDE DEF i
      <4> QED BY <1>10, <3>1, <4>1
    <3>5. ASSUME "placed" \notin late'[i] PROVE call[d].count >= Cardinality(After(i))
      BY <1>9, <1>11, <3>1, <3>2, <3>3, <3>5
    <3> QED BY <3>1, <3>4, <3>5
  <2>2. \A i \in Sids : sessions'[i].final # NoStats => sessions'[i].status # "NONE"
    BY <1>2 DEF IndInv, CountsHeld
  <2> QED BY <1>7, <2>1, <2>2 DEF CountsHeld, At
<1>20. CloseSettlesUnlessRaced'
  <2> SUFFICES ASSUME NEW i \in Sids, Settled(i)', late'[i] \subseteq {"purged"}
               PROVE  OpenIn(i)' = {}
    BY DEF CloseSettlesUnlessRaced
  <2>1. sessions[i].final # NoStats
    BY <1>14 DEF IndInv, ClosesCounted
  <2>2. OpenIn(i) = {}
    BY <1>11, <1>14 DEF IndInv, CloseSettlesUnlessRaced
  <2>3. i # s
    BY <1>16, <2>1
  <2> QED BY <1>9, <2>2, <2>3
<1> QED BY <1>12, <1>13, <1>15, <1>17, <1>18, <1>19, <1>20 DEF IndInv

\* A new status for an order: if its session was settled and the order is open
\* again, the history says so from now on.
LEMMA WritingStep ==
  ASSUME IndInv, TypeOK', SessionsFound', NEW c \in Calls, WriteOrder(c)
  PROVE  IndInv'
<1> DEFINE o == call[c].oid
           s == orders[o].session
<1>1. /\ TypeOK /\ HandlersInStep /\ call[c] \in Call /\ call \in [Calls -> Call]
      /\ o \in Oids /\ orders \in [Oids -> OrderRow] /\ call[c].status \in OrderStatus
      /\ s \in Sids
  BY DEF IndInv, TypeOK, Call, OrderRow
<1>2. /\ UNCHANGED <<sessions, indexed>> /\ Goto(c, "statsExpire")
      /\ At(c, "mark") \/ At(c, "rewrite")
      /\ InTable(o)
  BY DEF WriteOrder
<1>3. call[c].kind # "close" /\ ~At(c, "done")
  BY <1>1, <1>2 DEF HandlersInStep, At
<1>4. /\ SingleActive' /\ HandlersInStep' /\ ClosesCounted'
      /\ \A i : Settled(i)' => Settled(i)
      /\ \A d \in Calls : call'[d].pc = "shut" => call'[d] = call[d]
  BY <1>2, <1>3, OrdersWritten
<1>5. /\ \A p \in Oids \ {o} : orders'[p] = orders[p]
      /\ orders'[o].session = s /\ orders'[o].status = call[c].status
  BY <1>1 DEF WriteOrder, OrderRow
<1>6. \A i : OrdersIn(i)' = OrdersIn(i)
  BY <1>1, <1>2, <1>5 DEF OrdersIn, InTable
<1>7. /\ \A i \in Sids : late[i] \subseteq late'[i]
      /\ Settled(s) /\ call[c].status # "COMPLETED" => "reopened" \in late'[s]
  <2>1. CASE Settled(s) /\ call[c].status # "COMPLETED"
    <3> DEFINE is == {s}
    <3>1. late' = Behind(is, "reopened") /\ s \in is
      BY <2>1 DEF WriteOrder
    <3> HIDE DEF is
    <3> QED BY <1>1, <3>1, BehindGrows
  <2>2. CASE ~(Settled(s) /\ call[c].status # "COMPLETED")
    <3>1. late' = late
      BY <2>2 DEF WriteOrder
    <3> QED BY <2>2, <3>1
  <2> QED BY <2>1, <2>2
<1>8. SnapshotNeverTooLow' /\ SnapshotNeverTooHigh'
  BY <1>2, <1>6, <1>7 DEF IndInv, SnapshotNeverTooLow, SnapshotNeverTooHigh
<1>9. CountsHeld'
  <2>1. \A d \in Calls : call[d].sid \in Sids
    BY <1>1 DEF Call
  <2> QED BY <1>2, <1>4, <1>6, <1>7, <2>1 DEF IndInv, CountsHeld, At
<1>10. CloseSettlesUnlessRaced'
  <2> SUFFICES ASSUME NEW i \in Sids, Settled(i)', late'[i] \subseteq {"purged"},
                      NEW p \in OpenIn(i)'
               PROVE  FALSE
    BY DEF CloseSettlesUnlessRaced
  <2>1. p \in Oids /\ orders'[p].status # "COMPLETED" /\ p \in OrdersIn(i)
    BY <1>6 DEF OpenIn, OrdersIn
  <2>2. OpenIn(i) = {}
    BY <1>4, <1>7 DEF IndInv, CloseSettlesUnlessRaced
  <2>3. p = o
    BY <1>5, <2>1, <2>2 DEF OpenIn
  <2>4. s = i /\ call[c].status # "COMPLETED"
    BY <1>5, <2>1, <2>3 DEF OrdersIn
  <2>5. "reopened" \in late'[i]
    BY <1>4, <1>7, <2>4
  <2> QED BY <2>5
<1> QED BY <1>4, <1>8, <1>9, <1>10 DEF IndInv

\* Deleted orders: if their session has been counted already, the history says
\* so from now on.
LEMMA PurgingStep ==
  ASSUME IndInv, TypeOK', SessionsFound', NEW c \in Calls, NEW scope, PurgeOrders(c, scope)
  PROVE  IndInv'
<1> DEFINE rows == {o \in Oids : InTable(o) /\ (scope = "all" \/ orders[o].day = call[c].expires)}
           After(i) == {p \in Oids : orders'[p].status \in OrderStatus /\ orders'[p].session = i}
<1>1. /\ TypeOK /\ HandlersInStep /\ call[c] \in Call /\ call \in [Calls -> Call]
      /\ orders \in [Oids -> OrderRow]
      /\ \A d \in Calls : call[d].sid \in Sids /\ call[d].count \in Nat
      /\ \A i \in Sids : sessions[i].final \in Int
  BY DEF IndInv, TypeOK, Call, SessionRow, NoStats
<1>2. UNCHANGED <<sessions, indexed>> /\ Goto(c, "statsExpire") /\ At(c, "delete")
  BY DEF PurgeOrders
<1>3. call[c].kind # "close" /\ ~At(c, "done")
  BY <1>1, <1>2 DEF HandlersInStep, At
<1>4. /\ SingleActive' /\ HandlersInStep' /\ ClosesCounted'
      /\ \A i : Settled(i)' => Settled(i)
      /\ \A d \in Calls : call'[d].pc = "shut" => call'[d] = call[d]
  BY <1>2, <1>3, OrdersWritten
<1>5. /\ rows \subseteq Oids
      /\ \A o \in Oids : orders'[o] = IF o \in rows
                                      THEN [orders[o] EXCEPT !.status = "DELETED"]
                                      ELSE orders[o]
      /\ late' = Behind({i \in Sids : Counted(i) /\ rows \cap OrdersIn(i) # {}}, "purged")
  BY DEF PurgeOrders
<1> HIDE DEF rows
<1>6. \A o \in Oids : IF o \in rows THEN orders'[o].status = "DELETED"
                                    ELSE orders'[o] = orders[o]
  BY <1>1, <1>5 DEF OrderRow
<1>7. \A i : OrdersIn(i)' = After(i)
  BY DEF OrdersIn, InTable
<1>8. \A i : After(i) = OrdersIn(i) \ rows /\ OpenIn(i)' \subseteq OpenIn(i)
  BY <1>6 DEF OrdersIn, OpenIn, InTable, OrderStatus
<1>9. ASSUME NEW i
      PROVE  /\ Cardinality(After(i)) <= Cardinality(OrdersIn(i))
             /\ Cardinality(OrdersIn(i)) \in Nat /\ Cardinality(After(i)) \in Nat
  <2>1. OrdersIn(i)' \subseteq OrdersIn(i)
    BY <1>7, <1>8
  <2> HIDE DEF After
  <2> QED BY <1>7, <2>1, OrdersShrink, OrdersInFinite
<1> HIDE DEF After
<1>10. /\ \A i \in Sids : late[i] \subseteq late'[i]
       /\ \A i \in Sids : Counted(i) /\ "purged" \notin late'[i] => After(i) = OrdersIn(i)
  <2>1. \A i \in Sids : Counted(i) /\ rows \cap OrdersIn(i) # {} => "purged" \in late'[i]
    BY <1>1, <1>5, BehindGrows
  <2>2. \A i \in Sids : late[i] \subseteq late'[i]
    BY <1>1, <1>5, BehindGrows
  <2> QED BY <1>8, <2>1, <2>2
<1>11. SnapshotNeverTooLow'
  <2> SUFFICES ASSUME NEW i \in Sids, sessions[i].final # NoStats, "placed" \notin late'[i]
               PROVE  sessions[i].final >= Cardinality(After(i))
    BY <1>2, <1>7 DEF SnapshotNeverTooLow
  <2>1. sessions[i].final >= Cardinality(OrdersIn(i))
    BY <1>10 DEF IndInv, SnapshotNeverTooLow
  <2> QED BY <1>1, <1>9, <2>1
<1>12. SnapshotNeverTooHigh'
  <2> SUFFICES ASSUME NEW i \in Sids, "purged" \notin late'[i]
               PROVE  sessions[i].final <= Cardinality(After(i))
    BY <1>2, <1>7 DEF SnapshotNeverTooHigh
  <2>1. sessions[i].final <= Cardinality(OrdersIn(i))
    BY <1>10 DEF IndInv, SnapshotNeverTooHigh
  <2>2. CASE sessions[i].final = NoStats
    BY <1>9, <2>2 DEF NoStats
  <2>3. CASE sessions[i].final # NoStats
    BY <1>10, <2>1, <2>3 DEF Counted
  <2> QED BY <2>2, <2>3
<1>13. CountsHeld'
  <2>1. ASSUME NEW d \in Calls, call'[d].pc = "shut"
        PROVE  /\ "purged" \notin late'[call'[d].sid] =>
                    call'[d].count <= Cardinality(After(call'[d].sid))
               /\ "placed" \notin late'[call'[d].sid] =>
                    call'[d].count >= Cardinality(After(call'[d].sid))
    <3> DEFINE i == call[d].sid
    <3>1. call'[d] = call[d] /\ i \in Sids /\ call[d].count \in Nat
      BY <1>1, <1>4, <2>1
    <3>2. /\ "purged" \notin late[i] => call[d].count <= Cardinality(OrdersIn(i))
          /\ "placed" \notin late[i] => call[d].count >= Cardinality(OrdersIn(i))
      BY <2>1, <3>1 DEF IndInv, CountsHeld, At
    <3>3. ASSUME "purged" \notin late'[i] PROVE call[d].count <= Cardinality(After(i))
      <4>1. Counted(i)
        BY <2>1, <3>1 DEF Counted
      <4> QED BY <1>10, <3>1, <3>2, <3>3, <4>1
    <3>4. ASSUME "placed" \notin late'[i] PROVE call[d].count >= Cardinality(After(i))
      <4>1. call[d].count >= Cardinality(OrdersIn(i))
        BY <1>10, <3>1, <3>2, <3>4
      <4> HIDE DEF i
      <4> QED BY <1>9, <3>1, <4>1
    <3> QED BY <3>1, <3>3, <3>4
  <2>2. \A i \in Sids : sessions'[i].final # NoStats => sessions'[i].status # "NONE"
    BY <1>2 DEF IndInv, CountsHeld
  <2> QED BY <1>7, <2>1, <2>2 DEF CountsHeld, At
<1>14. CloseSettlesUnlessRaced'
  <2> SUFFICES ASSUME NEW i \in Sids, Settled(i)', late'[i] \subseteq {"purged"}
               PROVE  OpenIn(i)' = {}
    BY DEF CloseSettlesUnlessRaced
  <2>1. OpenIn(i) = {}
    BY <1>4, <1>10 DEF IndInv, CloseSettlesUnlessRaced
  <2> QED BY <1>8, <2>1
<1> QED BY <1>4, <1>11, <1>12, <1>13, <1>14 DEF IndInv

\* What leaves orders, calls and snapshots alone keeps the invariant: the
\* migration, the clock, and stuttering.
LEMMA SurroundingsStep ==
  ASSUME IndInv, TypeOK', SessionsFound', EnforceSingleActive \/ Tick \/ UNCHANGED vars
  PROVE  IndInv'
<1>1. TypeOK /\ UNCHANGED <<orders, call, late>>
  BY DEF IndInv, EnforceSingleActive, Tick, vars
<1>2. SingleActive'
  <2>1. CASE EnforceSingleActive
    BY <1>1, <2>1, PruningLeavesOne DEF EnforceSingleActive, SingleActive
  <2>2. CASE UNCHANGED <<sessions, indexed>>
    BY <2>2 DEF IndInv, SingleActive, Active
  <2> QED BY <2>1, <2>2 DEF Tick, vars
<1>3. \A i \in Sids : /\ sessions'[i].final = sessions[i].final
                      /\ sessions[i].status # "NONE" => sessions'[i].status # "NONE"
  <2>1. CASE EnforceSingleActive
    BY <1>1, <2>1 DEF EnforceSingleActive, Close, TypeOK, SessionRow
  <2>2. CASE UNCHANGED sessions
    BY <2>2
  <2> QED BY <2>1, <2>2 DEF Tick, vars
<1>4. \A i : /\ OrdersIn(i)' = OrdersIn(i) /\ OpenIn(i)' = OpenIn(i)
             /\ Settled(i)' <=> Settled(i)
  BY <1>1 DEF OrdersIn, OpenIn, InTable, Settled
<1>5. HandlersInStep'
  BY <1>1 DEF IndInv, HandlersInStep, At
<1>6. /\ CountsHeld' /\ SnapshotNeverTooLow' /\ SnapshotNeverTooHigh'
      /\ CloseSettlesUnlessRaced'
  BY <1>1, <1>3, <1>4
     DEF IndInv, CountsHeld, SnapshotNeverTooLow, SnapshotNeverTooHigh,
         CloseSettlesUnlessRaced, At
<1>7. ClosesCounted'
  <2>1. \A c \in Calls : call[c].sid \in Sids
    BY <1>1 DEF TypeOK, Call
  <2> QED BY <1>1, <1>3, <1>4, <2>1 DEF IndInv, ClosesCounted, At
<1> QED BY <1>2, <1>5, <1>6, <1>7 DEF IndInv

\* Every step keeps the inductive invariant.
LEMMA NextIndInv == IndInv /\ [Next]_vars => IndInv'
<1> SUFFICES ASSUME IndInv, [Next]_vars PROVE IndInv'
  OBVIOUS
<1>1. TypeOK' /\ SessionsFound'
  BY TypeStep, FoundStep DEF IndInv
<1>2. ASSUME NEW c \in Calls, SessionStep(c) \/ OrderStep(c) \/ Fail(c) PROVE IndInv'
  BY <1>1, <1>2, QuietSteps, CountingStep, ClosingStep, CompletingStep, PlacingStep, WritingStep,
     PurgingStep DEF SessionStep, OrderStep
<1> QED BY <1>1, <1>2, SurroundingsStep DEF Next

------------------------------------------------------------------------------
(* The theorems. *)

\* The inductive invariant holds in every reachable state.
THEOREM Invariance == Spec => []IndInv
  BY InitIndInv, NextIndInv, PTL DEF Spec

\* Rows and calls keep their types.
THEOREM TypeCorrect == Spec => []TypeOK
<1>1. IndInv => TypeOK
  BY DEF IndInv
<1> QED BY <1>1, Invariance, PTL

\* Once migration 000002 has created its index at most one session is ACTIVE.
THEOREM OneSessionIsActive == Spec => []SingleActive
<1>1. IndInv => SingleActive
  BY DEF IndInv
<1> QED BY <1>1, Invariance, PTL

\* A snapshot counts all orders of its session, unless one came late.
THEOREM SnapshotsAreNeverTooLow == Spec => []SnapshotNeverTooLow
<1>1. IndInv => SnapshotNeverTooLow
  BY DEF IndInv
<1> QED BY <1>1, Invariance, PTL

\* It counts no more than that, unless some were purged afterwards.
THEOREM SnapshotsAreNeverTooHigh == Spec => []SnapshotNeverTooHigh
<1>1. IndInv => SnapshotNeverTooHigh
  BY DEF IndInv
<1> QED BY <1>1, Invariance, PTL

\* A close answered with success has left no order open, unless one came late
\* or was reopened.
THEOREM ClosesSettle == Spec => []CloseSettlesUnlessRaced
<1>1. IndInv => CloseSettlesUnlessRaced
  BY DEF IndInv
<1> QED BY <1>1, Invariance, PTL
------------------------------------------------------------------------------
(* What reconciling may close. *)

\* A live session that others supersede is superseded by one that stays: the
\* live session with the latest start and, among those, the largest id.
LEMMA TheNewestStays ==
  ASSUME TypeOK, NEW i \in Superseded
  PROVE  \E j \in Sids \ Superseded : Live(j) /\ Newer(j, i)
<1> DEFINE Lives  == {k \in Sids : Live(k)}
           Starts == {sessions[k].started : k \in Lives}
<1>1. /\ i \in Sids /\ i \in Lives
      /\ \A k \in Sids : sessions[k].started \in Nat /\ sessions[k].started <= MaxTime
  BY DEF Superseded, TypeOK, SessionRow, Times
<1>2. PICK t \in Starts : \A n \in Starts : t >= n
  <2>1. Starts \in SUBSET Nat /\ Starts # {} /\ \A n \in Starts : n <= MaxTime
    BY <1>1
  <2> HIDE DEF Starts
  <2> QED BY <2>1, LargestElement
<1> DEFINE Latest == {k \in Lives : sessions[k].started = t}
<1>3. PICK j \in Latest : \A k \in Latest : j >= k
  <2>1. Latest \in SUBSET Nat /\ Latest # {} /\ \A k \in Latest : k <= MaxSessions
    BY DEF Sids
  <2> HIDE DEF Latest
  <2> QED BY <2>1, LargestElement
<1>4. \A k \in Lives : sessions[k].started <= t /\ t \in Nat
  BY <1>1, <1>2
<1>5. j \in Sids /\ Live(j) /\ sessions[j].started = t
  OBVIOUS
<1>6. \A k \in Lives : ~Newer(k, j)
  <2> SUFFICES ASSUME NEW k \in Lives, Newer(k, j) PROVE FALSE
    OBVIOUS
  <2>1. sessions[k].started = t /\ k > j
    BY <1>1, <1>4, <1>5 DEF Newer
  <2> QED BY <1>3, <2>1 DEF Sids
<1>7. j \notin Superseded
  BY <1>6 DEF Superseded
<1>8. Newer(j, i)
  <2>1. i # j
    BY <1>7
  <2>2. CASE sessions[i].started = t
    BY <1>1, <1>3, <1>5, <2>1, <2>2 DEF Newer, Sids
  <2>3. CASE sessions[i].started # t
    BY <1>1, <1>4, <1>5, <2>3 DEF Newer
  <2> QED BY <2>2, <2>3
<1> QED BY <1>5, <1>7, <1>8

\* A step that closes a live session is an admin's close, or leaves a newer live
\* session as it is.
LEMMA SweepStep ==
  ASSUME TypeOK, [Next]_vars,
         NEW i \in Sids, Live(i), sessions'[i].status = "CLOSED"
  PROVE  \/ \E c \in Calls : At(c, "shut") /\ call[c].sid = i /\ call'[c].pc = "complete"
         \/ \E j \in Sids : Live(j) /\ Newer(j, i) /\ sessions'[j] = sessions[j]
<1>1. /\ sessions[i].status # "CLOSED" /\ i \notin ExpiredActive
      /\ sessions' # sessions
  BY DEF Live, Active, ExpiredActive
<1>2. CASE \E c \in Calls : ReconcileExpired(c)
  BY <1>1, <1>2 DEF ReconcileExpired, Close
<1>3. ASSUME NEW rows, sessions' = Close(rows), rows \subseteq ExpiredActive \cup Superseded
      PROVE  \E j \in Sids : Live(j) /\ Newer(j, i) /\ sessions'[j] = sessions[j]
  <2>1. i \in Superseded
    BY <1>1, <1>3 DEF Close
  <2>2. PICK j \in Sids \ Superseded : Live(j) /\ Newer(j, i)
    BY <2>1, TheNewestStays
  <2>3. j \notin rows
    BY <1>3, <2>2 DEF Live, ExpiredActive
  <2> QED BY <1>3, <2>2, <2>3 DEF Close
<1>4. CASE \E c \in Calls : ReconcileDuplicates(c)
  BY <1>3, <1>4 DEF ReconcileDuplicates
<1>5. CASE EnforceSingleActive
  BY <1>3, <1>5 DEF EnforceSingleActive
<1>6. ASSUME NEW c \in Calls, NEW k \in Sids, CreateSession(c, k) PROVE FALSE
  <2>1. sessions' = [sessions EXCEPT ![k] =
           [status |-> "ACTIVE", started |-> call[c].started,
            expires |-> call[c].expires, final |-> NoStats]]
    BY <1>1, <1>6 DEF CreateSession
  <2> QED BY <1>1, <2>1 DEF TypeOK
<1>7. ASSUME NEW c \in Calls, UpdateSession(c) PROVE FALSE
  <2>1. sessions' = [sessions EXCEPT ![call[c].sid].status = "ACTIVE",
                                     ![call[c].sid].expires = call[c].expires]
    BY <1>1, <1>7 DEF UpdateSession
  <2> QED BY <1>1, <2>1 DEF TypeOK, SessionRow
<1>8. ASSUME NEW c \in Calls, CloseSession(c)
      PROVE  At(c, "shut") /\ call[c].sid = i /\ call'[c].pc = "complete"
  BY <1>1, <1>8 DEF CloseSession, Goto, TypeOK, Call
<1>9. \/ \E c \in Calls : \/ ReconcileExpired(c) \/ ReconcileDuplicates(c)
                          \/ UpdateSession(c) \/ CloseSession(c)
                          \/ \E k \in Sids : CreateSession(c, k)
      \/ EnforceSingleActive
      \/ UNCHANGED sessions
  BY DEF Next, SessionStep, OrderStep, SelectNone, SelectActive, ReadSessionToClose,
         ReadSessionToUpdate, GetSessionStats, CompleteAllSessionOrders, CheckExpiry,
         PlaceOrder, ReadOrderToMark, ReadOrderToEdit, WriteOrder, WriteDeletedOrder,
         ReadDayToPurge, PurgeOrders, Fail, Tick, vars
<1> QED BY <1>1, <1>2, <1>4, <1>5, <1>6, <1>7, <1>8, <1>9

\* Reconciling never ends the session people are ordering in.
THEOREM TheNewestSessionIsKept == Spec => SweepKeepsTheNewest
<1>1. TypeOK /\ [Next]_vars =>
        [\A i \in Sids : Live(i) /\ sessions'[i].status = "CLOSED" =>
           \/ \E c \in Calls : At(c, "shut") /\ call[c].sid = i /\ call'[c].pc = "complete"
           \/ \E j \in Sids : Live(j) /\ Newer(j, i) /\ sessions'[j] = sessions[j]]_vars
  BY SweepStep
<1> QED BY <1>1, TypeCorrect, PTL DEF Spec, SweepKeepsTheNewest
------------------------------------------------------------------------------
(* The desk implements the ledger. *)

\* What the ledger says of a row is what the tables do.
LEMMA LedgerRows ==
  /\ Ledger!Sids = Sids /\ Ledger!Oids = Oids
  /\ Ledger!OrderStatus = OrderStatus /\ Ledger!Nothing = NoStats
  /\ \A i \in Sids : Standing[i] = sessions[i].status /\ Filed[i] = sessions[i].final
  /\ \A o \in Oids : /\ Owner[o] = orders[o].session /\ Status[o] = orders[o].status
                     /\ Ledger!InTable(o) <=> InTable(o)
  /\ \A i : Ledger!OrdersIn(i) = OrdersIn(i)
  BY DEF Ledger!Sids, Ledger!Oids, Ledger!OrderStatus, Ledger!Nothing, Ledger!InTable,
         Ledger!OrdersIn, Sids, Oids, OrderStatus, NoStats, Standing, Filed, Owner, Status,
         InTable, OrdersIn

\* It counts as they do.
LEMMA LedgerCardinality == \A S : Ledger!Cardinality(S) = Cardinality(S)
  BY DEF Ledger!Cardinality, Cardinality

\* What is not written stays as it is in the ledger.
LEMMA PagesKept == UNCHANGED sessions => UNCHANGED <<Standing, Filed>>
  BY DEF Standing, Filed

LEMMA LinesKept == UNCHANGED orders => UNCHANGED <<Owner, Status>>
  BY DEF Owner, Status

LEMMA CountsKept ==
  ASSUME NEW c \in Calls, \A d \in Calls \ {c} : call'[d] = call[d],
         call[c].pc # "shut", call'[c].pc # "shut"
  PROVE  UNCHANGED UnderWay
<1>1. \A d \in Calls : call'[d].pc = "shut" <=> call[d].pc = "shut"
  OBVIOUS
<1>2. \A d \in Calls : call[d].pc = "shut" => call'[d] = call[d]
  OBVIOUS
<1> QED BY <1>1, <1>2 DEF UnderWay, At

\* A call that leaves the statement that files its number takes no other with it.
LEMMA CountsFewer ==
  ASSUME NEW c \in Calls, \A d \in Calls \ {c} : call'[d] = call[d], call'[c].pc # "shut"
  PROVE  /\ UnderWay' \subseteq UnderWay
         /\ UnderWay \ {<<call[c].sid, call[c].count>>} \subseteq UnderWay'
  BY DEF UnderWay, At

\* The initial tables are a ledger that is new or has one page.
LEMMA LedgerInit == Init => Ledger!Init
<1> SUFFICES ASSUME Init PROVE Ledger!Init
  OBVIOUS
<1>1. UnderWay = {}
  <2>1. \A x \in NewCalls : x.pc # "shut"
    BY DEF NewCalls, NewCall, FirstPc, AllKinds
  <2> QED BY <2>1 DEF Init, UnderWay, At
<1>2. CASE EmptyTables
  <2>1. /\ Standing = [i \in Sids |-> "NONE"] /\ Filed = [i \in Sids |-> NoStats]
        /\ Owner = [o \in Oids |-> 1] /\ Status = [o \in Oids |-> "NONE"]
    BY <1>2 DEF EmptyTables, NoSession, NoOrder, Standing, Filed, Owner, Status
  <2>2. \E pages \in {{}, {1}} : \E lines \in {{}, pages} :
          /\ Standing = [i \in Sids |-> IF i \in pages THEN "ACTIVE" ELSE "NONE"]
          /\ Status \in [Oids -> OrderStatus \cup {"NONE"}]
          /\ \A o \in Oids : Status[o] # "NONE" <=> o \in lines
    <3>1. /\ Standing = [i \in Sids |-> IF i \in {} THEN "ACTIVE" ELSE "NONE"]
          /\ Status \in [Oids -> OrderStatus \cup {"NONE"}]
          /\ \A o \in Oids : Status[o] # "NONE" <=> o \in {}
      BY <2>1
    <3> QED BY <3>1
  <2> QED BY <1>1, <2>1, <2>2, LedgerRows DEF Ledger!Init, Init
<1>3. ASSUME NEW end, NEW st \in {"NONE"} \cup OrderStatus, SessionUnderWay(end, st)
      PROVE  Ledger!Init
  <2>1. /\ Standing = [i \in Sids |-> IF i \in {1} THEN "ACTIVE" ELSE "NONE"]
        /\ Filed = [i \in Sids |-> NoStats]
    <3>1. \A i \in Sids : sessions[i] = IF i = 1
            THEN [NoSession EXCEPT !.status = "ACTIVE", !.expires = end] ELSE NoSession
      BY <1>3 DEF SessionUnderWay
    <3>2. ASSUME NEW i \in Sids
          PROVE  /\ sessions[i].status = IF i \in {1} THEN "ACTIVE" ELSE "NONE"
                 /\ sessions[i].final = NoStats
      <4>1. CASE i = 1
        BY <3>1, <4>1 DEF NoSession
      <4>2. CASE i # 1
        BY <3>1, <4>2 DEF NoSession
      <4> QED BY <4>1, <4>2
    <3> QED BY <3>2 DEF Standing, Filed
  <2>2. \A o \in Oids : /\ orders[o].session = 1
                        /\ orders[o].status = IF o = 1 THEN st ELSE "NONE"
    <3>1. \A o \in Oids : orders[o] = IF o = 1
            THEN [NoOrder EXCEPT !.status = st, !.day = EndOfDay(0)] ELSE NoOrder
      BY <1>3 DEF SessionUnderWay
    <3>2. ASSUME NEW o \in Oids
          PROVE  orders[o].session = 1 /\ orders[o].status = IF o = 1 THEN st ELSE "NONE"
      <4>1. CASE o = 1
        BY <3>1, <4>1 DEF NoOrder
      <4>2. CASE o # 1
        BY <3>1, <4>2 DEF NoOrder
      <4> QED BY <4>1, <4>2
    <3> QED BY <3>2
  <2>3. Owner = [o \in Oids |-> 1] /\ Status \in [Oids -> OrderStatus \cup {"NONE"}]
    BY <2>2 DEF Owner, Status
  <2>4. \E lines \in {{}, {1}} : \A o \in Oids : Status[o] # "NONE" <=> o \in lines
    <3>1. CASE st = "NONE"
      <4>1. \A o \in Oids : Status[o] # "NONE" <=> o \in {}
        BY <2>2, <3>1 DEF Status
      <4> QED BY <4>1
    <3>2. CASE st # "NONE"
      <4>1. \A o \in Oids : Status[o] # "NONE" <=> o \in {1}
        BY <2>2, <3>2 DEF Status
      <4> QED BY <4>1
    <3> QED BY <3>1, <3>2
  <2> QED BY <1>1, <2>1, <2>3, <2>4, LedgerRows DEF Ledger!Init, Init
<1> QED BY <1>2, <1>3 DEF Init

\* Steps that write nothing count nothing, but a number may be forgotten.
LEMMA ReadingIsForgetting ==
  ASSUME NEW c \in Calls, \A d \in Calls \ {c} : call'[d] = call[d], call'[c].pc # "shut",
         UNCHANGED <<sessions, orders, indexed>>
  PROVE  Ledger!Next
<1>1. Ledger!Forget
  BY PagesKept, LinesKept, CountsFewer DEF Ledger!Forget
<1> QED BY <1>1 DEF Ledger!Next

\* Closing rows that are ACTIVE is shutting pages.
LEMMA ClosingIsShutting ==
  ASSUME TypeOK, NEW is \in SUBSET Sids, \A i \in is : Active(i), sessions' = Close(is),
         UNCHANGED <<orders, UnderWay>>
  PROVE  Ledger!Shut(is)
<1>1. \A i \in Sids : /\ sessions'[i].status = IF i \in is THEN "CLOSED" ELSE Standing[i]
                      /\ sessions'[i].final = sessions[i].final
  BY LedgerRows DEF TypeOK, Close, SessionRow
<1>2. /\ Standing' = [i \in Sids |-> IF i \in is THEN "CLOSED" ELSE Standing[i]]
      /\ Filed' = Filed
  BY <1>1 DEF Standing, Filed
<1>3. \A i \in is : Standing[i] = "ACTIVE"
  BY LedgerRows DEF Active
<1> QED BY <1>2, <1>3, LinesKept, LedgerRows DEF Ledger!Shut

\* Reconciling shuts pages.
LEMMA ReconcilingIsShutting ==
  ASSUME IndInv, NEW c \in Calls, ReconcileExpired(c) \/ ReconcileDuplicates(c)
  PROVE  Ledger!Next
<1>1. TypeOK /\ call \in [Calls -> Call] /\ UNCHANGED <<orders, indexed>>
  BY DEF IndInv, TypeOK, ReconcileExpired, ReconcileDuplicates
<1>2. UNCHANGED UnderWay
  <2>1. /\ \A d \in Calls \ {c} : call'[d] = call[d]
        /\ call[c].pc # "shut" /\ call'[c].pc # "shut"
    BY <1>1 DEF ReconcileExpired, ReconcileDuplicates, Goto, Answer, At, Call
  <2> QED BY <2>1, CountsKept
<1>3. PICK is \in SUBSET Sids : (\A i \in is : Active(i)) /\ sessions' = Close(is)
  BY DEF ReconcileExpired, ReconcileDuplicates, ExpiredActive, Superseded, Live
<1>4. Ledger!Shut(is)
  BY <1>1, <1>2, <1>3, ClosingIsShutting
<1> QED BY <1>1, <1>4, LedgerRows DEF Ledger!Next

\* The migration restricts the ledger.
LEMMA MigratingIsRestricting == ASSUME IndInv, EnforceSingleActive PROVE Ledger!Next
<1> DEFINE is == ExpiredActive \cup Superseded
<1>1. TypeOK /\ UNCHANGED <<orders, call>> /\ ~indexed /\ indexed' /\ sessions' = Close(is)
  BY DEF IndInv, EnforceSingleActive
<1>2. UNCHANGED UnderWay
  BY <1>1 DEF UnderWay, At
<1>3. is \in SUBSET Sids /\ \A i \in is : Active(i)
  BY DEF ExpiredActive, Superseded, Live
<1>4. Ledger!Shut(is)
  <2> HIDE DEF is
  <2> QED BY <1>1, <1>2, <1>3, ClosingIsShutting
<1>5. ASSUME NEW i \in Sids, NEW j \in Sids, Standing'[i] = "ACTIVE", Standing'[j] = "ACTIVE"
      PROVE  i = j
  <2>1. Active(i)' /\ Active(j)'
    BY <1>5 DEF Standing, Active
  <2> QED BY <1>1, <2>1, PruningLeavesOne
<1>6. Ledger!Restrict
  <2> HIDE DEF is
  <2> QED BY <1>1, <1>3, <1>4, <1>5, LedgerRows DEF Ledger!Restrict
<1> QED BY <1>6 DEF Ledger!Next
\* INSERT INTO sessions begins a page.
LEMMA CreatingIsOpening ==
  ASSUME IndInv, NEW c \in Calls, NEW i \in Sids, CreateSession(c, i)
  PROVE  Ledger!Next
<1>1. /\ TypeOK /\ call \in [Calls -> Call] /\ sessions \in [Sids -> SessionRow]
      /\ UNCHANGED <<orders, indexed>> /\ At(c, "insert")
  BY DEF IndInv, TypeOK, CreateSession
<1>2. CASE IndexRefuses(i)
  <2>1. /\ \A d \in Calls \ {c} : call'[d] = call[d]
        /\ call'[c].pc # "shut" /\ UNCHANGED sessions
    BY <1>1, <1>2 DEF CreateSession, Answer, Call
  <2> QED BY <1>1, <2>1, ReadingIsForgetting
<1>3. CASE ~IndexRefuses(i)
  <2>1. UNCHANGED UnderWay
    <3>1. /\ \A d \in Calls \ {c} : call'[d] = call[d]
          /\ call'[c].pc = IF call[c].kind = "order" THEN "check" ELSE "done"
      BY <1>1, <1>3 DEF CreateSession, Call
    <3> QED BY <1>1, <3>1, CountsKept DEF At
  <2>2. sessions[i].status = "NONE" /\ \A j \in Sids : Standing[j] # "NONE" <=> j < i
    <3>1. \A j \in Sids : sessions[j].status # "NONE" <=> j < i
      BY DEF CreateSession
    <3>2. ~(i < i)
      BY DEF Sids
    <3> QED BY <3>1, <3>2, LedgerRows
  <2>3. sessions[i].final = NoStats
    BY <2>2 DEF IndInv, CountsHeld
  <2>4. sessions' = [sessions EXCEPT ![i] =
           [status |-> "ACTIVE", started |-> call[c].started,
            expires |-> call[c].expires, final |-> NoStats]]
    BY <1>3 DEF CreateSession
  <2>5. \A j \in Sids : /\ sessions'[j].status = IF j = i THEN "ACTIVE" ELSE sessions[j].status
                        /\ sessions'[j].final = sessions[j].final
    BY <1>1, <2>3, <2>4
  <2>6. Standing' = [Standing EXCEPT ![i] = "ACTIVE"] /\ Filed' = Filed
    BY <2>5 DEF Standing, Filed
  <2>7. indexed => Ledger!NoOtherOpen(i)
    BY <1>3, LedgerRows DEF IndexRefuses, Active, Ledger!NoOtherOpen
  <2>8. Ledger!Open(i)
    BY <1>1, <2>1, <2>2, <2>6, <2>7, LinesKept, LedgerRows DEF Ledger!Open
  <2> QED BY <2>8, LedgerRows DEF Ledger!Next
<1> QED BY <1>2, <1>3

\* An update writes the ACTIVE it has read: a page that was closed meanwhile is
\* opened again.
LEMMA UpdatingIsReopening ==
  ASSUME IndInv, NEW c \in Calls, UpdateSession(c)
  PROVE  Ledger!Next
<1> DEFINE i == call[c].sid
<1>1. /\ TypeOK /\ call \in [Calls -> Call] /\ sessions \in [Sids -> SessionRow] /\ i \in Sids
      /\ UNCHANGED <<orders, indexed>> /\ call[c].pc = "write"
  BY DEF IndInv, TypeOK, UpdateSession, At, Call
<1>2. /\ \A d \in Calls \ {c} : call'[d] = call[d]
      /\ call'[c].pc = "done"
  BY <1>1 DEF UpdateSession, Answer, Call
<1>3. CASE IndexRefuses(i)
  <2>1. UNCHANGED sessions
    BY <1>3 DEF UpdateSession
  <2> QED BY <1>1, <1>2, <2>1, ReadingIsForgetting
<1>4. CASE ~IndexRefuses(i)
  <2>1. UNCHANGED UnderWay
    BY <1>1, <1>2, CountsKept
  <2>2. sessions' = [sessions EXCEPT ![i].status = "ACTIVE", ![i].expires = call[c].expires]
    BY <1>4 DEF UpdateSession
  <2>3. \A j \in Sids : /\ sessions'[j].status = IF j = i THEN "ACTIVE" ELSE sessions[j].status
                        /\ sessions'[j].final = sessions[j].final
    BY <1>1, <2>2 DEF SessionRow
  <2>4. Standing' = [Standing EXCEPT ![i] = "ACTIVE"] /\ Filed' = Filed
    BY <2>3 DEF Standing, Filed
  <2>5. Standing[i] \in {"ACTIVE", "CLOSED"}
    BY <1>1, LedgerRows DEF IndInv, SessionsFound, SessionRow
  <2>6. CASE Standing[i] = "ACTIVE"
    <3>1. Standing' = Standing
      BY <2>4, <2>6 DEF Standing
    <3>2. Ledger!Forget
      BY <1>1, <2>1, <2>4, <3>1, LinesKept DEF Ledger!Forget
    <3> QED BY <3>2 DEF Ledger!Next
  <2>7. CASE Standing[i] = "CLOSED"
    <3>1. indexed => Ledger!NoOtherOpen(i)
      BY <1>4, LedgerRows DEF IndexRefuses, Active, Ledger!NoOtherOpen
    <3>2. Ledger!Reopen(i)
      BY <1>1, <2>1, <2>4, <2>7, <3>1, LinesKept DEF Ledger!Reopen
    <3> QED BY <1>1, <3>2, LedgerRows DEF Ledger!Next
  <2> QED BY <2>5, <2>6, <2>7
<1> QED BY <1>3, <1>4

\* A close takes the number of the orders there are ...
LEMMA StatsAreCounting ==
  ASSUME IndInv, NEW c \in Calls, GetSessionStats(c)
  PROVE  Ledger!Next
<1> DEFINE i == call[c].sid
           n == Cardinality(OrdersIn(i))
<1>1. /\ TypeOK /\ call \in [Calls -> Call] /\ i \in Sids
      /\ UNCHANGED <<sessions, orders, indexed>> /\ call[c].pc = "stats"
  BY DEF IndInv, TypeOK, GetSessionStats, At, Call
<1>2. /\ \A d \in Calls \ {c} : call'[d] = call[d]
      /\ call'[c].pc = "shut" /\ call'[c].sid = i /\ call'[c].count = n
  BY <1>1 DEF GetSessionStats, Call
<1>3. UnderWay' = UnderWay \cup {<<i, n>>}
  <2> HIDE DEF i, n
  <2>1. \A d \in Calls \ {c} : call[d].pc = "shut" <=> call'[d].pc = "shut"
    BY <1>2
  <2> QED BY <1>1, <1>2, <2>1 DEF UnderWay, At
<1>4. Standing[i] # "NONE"
  BY <1>1, LedgerRows DEF IndInv, SessionsFound
<1>5. n = Cardinality(Ledger!OrdersIn(i))
  BY LedgerRows
<1> HIDE DEF n
<1>6. UNCHANGED <<Standing, Filed, Owner, Status, indexed>>
  BY <1>1, PagesKept, LinesKept
<1>7. UnderWay' = UnderWay \cup {<<i, Cardinality(Ledger!OrdersIn(i))>>}
  BY <1>3, <1>5
<1>8. Ledger!Count(i)
  <2> HIDE DEF i
  <2> QED BY <1>4, <1>6, <1>7, LedgerCardinality DEF Ledger!Count
<1> QED BY <1>1, <1>8, LedgerRows DEF Ledger!Next

\* ... files it ...
LEMMA ClosingIsFiling ==
  ASSUME IndInv, NEW c \in Calls, CloseSession(c)
  PROVE  Ledger!Next
<1> DEFINE i == call[c].sid
           n == call[c].count
<1>1. /\ TypeOK /\ call \in [Calls -> Call] /\ sessions \in [Sids -> SessionRow] /\ i \in Sids
      /\ UNCHANGED <<orders, indexed>> /\ call[c].pc = "shut"
  BY DEF IndInv, TypeOK, CloseSession, At, Call
<1>2. /\ \A d \in Calls \ {c} : call'[d] = call[d]
      /\ call'[c].pc = "complete"
  BY <1>1 DEF CloseSession, Goto, Call
<1>3. <<i, n>> \in UnderWay
  BY <1>1 DEF UnderWay, At
<1>4. UnderWay' \subseteq UnderWay /\ UnderWay \ {<<i, n>>} \subseteq UnderWay'
  BY <1>2, CountsFewer
<1>5. \A j \in Sids : /\ sessions'[j].status = IF j = i THEN "CLOSED" ELSE sessions[j].status
                      /\ sessions'[j].final = IF j = i THEN n ELSE sessions[j].final
  BY <1>1 DEF CloseSession, SessionRow
<1>6. Standing' = [Standing EXCEPT ![i] = "CLOSED"] /\ Filed' = [Filed EXCEPT ![i] = n]
  BY <1>5 DEF Standing, Filed
<1>7. Ledger!File(i, n)
  BY <1>1, <1>3, <1>4, <1>6, LinesKept DEF Ledger!File
<1>8. \E e \in UnderWay : Ledger!File(e[1], e[2])
  <2>1. <<i, n>>[1] = i /\ <<i, n>>[2] = n
    OBVIOUS
  <2> HIDE DEF i, n
  <2> QED BY <1>3, <1>7, <2>1
<1> QED BY <1>8 DEF Ledger!Next

\* ... and settles the orders.
LEMMA CompletingIsSettling ==
  ASSUME IndInv, NEW c \in Calls, CompleteAllSessionOrders(c)
  PROVE  Ledger!Next
<1> DEFINE i == call[c].sid
<1>1. /\ TypeOK /\ call \in [Calls -> Call] /\ orders \in [Oids -> OrderRow] /\ i \in Sids
      /\ UNCHANGED <<sessions, indexed>> /\ call[c].pc = "complete"
  BY DEF IndInv, TypeOK, CompleteAllSessionOrders, At, Call
<1>2. UNCHANGED UnderWay
  <2>1. (\A d \in Calls \ {c} : call'[d] = call[d]) /\ call'[c].pc = "done"
    BY <1>1 DEF CompleteAllSessionOrders, Answer, Call
  <2> QED BY <1>1, <2>1, CountsKept
<1>3. \A o \in Oids :
        /\ orders'[o].session = orders[o].session
        /\ orders'[o].status = IF o \in OpenIn(i) THEN "COMPLETED" ELSE orders[o].status
  BY <1>1 DEF CompleteAllSessionOrders, OrderRow
<1>4. \A o \in Oids : o \in OrdersIn(i) \ OpenIn(i) => orders[o].status = "COMPLETED"
  BY DEF OpenIn
<1>5. OpenIn(i) \subseteq OrdersIn(i)
  BY DEF OpenIn
<1>6. /\ Owner' = Owner
      /\ Status' = [o \in Oids |-> IF o \in OrdersIn(i) THEN "COMPLETED" ELSE Status[o]]
  BY <1>3, <1>4, <1>5 DEF Owner, Status
<1>7. Filed[i] # NoStats
  BY <1>1, LedgerRows DEF IndInv, ClosesCounted, At
<1>8. Ledger!Settle(i)
  BY <1>1, <1>2, <1>6, <1>7, PagesKept, LedgerRows DEF Ledger!Settle
<1> QED BY <1>1, <1>8, LedgerRows DEF Ledger!Next

\* An order is placed in the session its handler has found.
LEMMA PlacingIsPlacing ==
  ASSUME IndInv, NEW c \in Calls, NEW o \in Oids, PlaceOrder(c, o)
  PROVE  Ledger!Next
<1> DEFINE i == call[c].sid
<1>1. /\ TypeOK /\ call \in [Calls -> Call] /\ orders \in [Oids -> OrderRow] /\ i \in Sids
      /\ UNCHANGED <<sessions, indexed>> /\ call[c].pc = "place"
  BY DEF IndInv, TypeOK, PlaceOrder, At, Call
<1>2. UNCHANGED UnderWay
  <2>1. (\A d \in Calls \ {c} : call'[d] = call[d]) /\ call'[c].pc = "statsExpire"
    BY <1>1 DEF PlaceOrder, Call
  <2> QED BY <1>1, <2>1, CountsKept
<1>3. /\ \A p \in Oids : orders'[p].session = IF p = o THEN i ELSE orders[p].session
      /\ \A p \in Oids : orders'[p].status = IF p = o THEN "NEW" ELSE orders[p].status
      /\ \A p \in Oids : orders[p].status # "NONE" <=> p < o
  BY <1>1 DEF PlaceOrder
<1>4. Owner' = [Owner EXCEPT ![o] = i] /\ Status' = [Status EXCEPT ![o] = "NEW"]
  BY <1>3 DEF Owner, Status
<1>5. Standing[i] # "NONE"
  BY <1>1, LedgerRows DEF IndInv, SessionsFound
<1>6. \A p \in Oids : Status[p] # "NONE" <=> p < o
  BY <1>3, LedgerRows
<1>7. Ledger!Place(o, i)
  BY <1>1, <1>2, <1>4, <1>5, <1>6, PagesKept, LedgerRows DEF Ledger!Place
<1> QED BY <1>1, <1>7, LedgerRows DEF Ledger!Next

\* An order that is there is marked.
LEMMA WritingIsMarking ==
  ASSUME IndInv, NEW c \in Calls, WriteOrder(c)
  PROVE  Ledger!Next
<1> DEFINE o == call[c].oid
           st == call[c].status
<1>1. /\ TypeOK /\ call \in [Calls -> Call] /\ orders \in [Oids -> OrderRow]
      /\ o \in Oids /\ st \in OrderStatus /\ InTable(o)
      /\ UNCHANGED <<sessions, indexed>> /\ call[c].pc \in {"mark", "rewrite"}
  BY DEF IndInv, TypeOK, WriteOrder, At, Call
<1>2. UNCHANGED UnderWay
  <2>1. (\A d \in Calls \ {c} : call'[d] = call[d]) /\ call'[c].pc = "statsExpire"
    BY <1>1 DEF WriteOrder, Goto, Call
  <2> QED BY <1>1, <2>1, CountsKept
<1>3. \A p \in Oids : /\ orders'[p].session = orders[p].session
                      /\ orders'[p].status = IF p = o THEN st ELSE orders[p].status
  BY <1>1 DEF WriteOrder, OrderRow
<1>4. Owner' = Owner /\ Status' = [Status EXCEPT ![o] = st]
  BY <1>3 DEF Owner, Status
<1>5. Ledger!Mark(o, st)
  BY <1>1, <1>2, <1>4, PagesKept, LedgerRows DEF Ledger!Mark
<1> QED BY <1>1, <1>5, LedgerRows DEF Ledger!Next

\* Orders that are there are discarded.
LEMMA PurgingIsDiscarding ==
  ASSUME IndInv, NEW c \in Calls, NEW scope, PurgeOrders(c, scope)
  PROVE  Ledger!Next
<1> DEFINE os == {o \in Oids : InTable(o) /\ (scope = "all" \/ orders[o].day = call[c].expires)}
<1>1. /\ TypeOK /\ call \in [Calls -> Call] /\ orders \in [Oids -> OrderRow]
      /\ UNCHANGED <<sessions, indexed>> /\ call[c].pc = "delete"
  BY DEF IndInv, TypeOK, PurgeOrders, At
<1>2. UNCHANGED UnderWay
  <2>1. (\A d \in Calls \ {c} : call'[d] = call[d]) /\ call'[c].pc = "statsExpire"
    BY <1>1 DEF PurgeOrders, Goto, Call
  <2> QED BY <1>1, <2>1, CountsKept
<1>3. /\ os \in SUBSET Oids /\ \A o \in os : InTable(o)
      /\ orders' = [o \in Oids |-> IF o \in os THEN [orders[o] EXCEPT !.status = "DELETED"]
                                               ELSE orders[o]]
  BY DEF PurgeOrders
<1> HIDE DEF os
<1>4. \A o \in Oids : /\ orders'[o].session = orders[o].session
                      /\ orders'[o].status = IF o \in os THEN "DELETED" ELSE orders[o].status
  BY <1>1, <1>3 DEF OrderRow
<1>5. Owner' = Owner /\ Status' = [o \in Oids |-> IF o \in os THEN "DELETED" ELSE Status[o]]
  BY <1>4 DEF Owner, Status
<1>6. Ledger!Discard(os)
  BY <1>1, <1>2, <1>3, <1>5, PagesKept, LedgerRows DEF Ledger!Discard
<1> QED BY <1>3, <1>6, LedgerRows DEF Ledger!Next

\* The statements that only read, and handlers that end, make no entry.
LEMMA OthersAreReading ==
  ASSUME IndInv, NEW c \in Calls,
         \/ SelectNone(c) \/ CheckExpiry(c) \/ WriteDeletedOrder(c) \/ ReadDayToPurge(c) \/ Fail(c)
         \/ \E i \in Sids : SelectActive(c, i) \/ ReadSessionToClose(c, i)
         \/ \E i \in Sids : \E end \in EndChoices \cup {sessions[i].expires} :
              ReadSessionToUpdate(c, i, end)
         \/ \E o \in Oids : ReadOrderToEdit(c, o)
         \/ \E o \in Oids, target \in OrderStatus : ReadOrderToMark(c, o, target)
  PROVE  Ledger!Next
<1>1. call \in [Calls -> Call]
  BY DEF IndInv, TypeOK
<1>2. UNCHANGED <<sessions, orders, indexed>>
  BY DEF SelectNone, CheckExpiry, WriteDeletedOrder, ReadDayToPurge, Fail, SelectActive,
         ReadSessionToClose, ReadSessionToUpdate, ReadOrderToEdit, ReadOrderToMark
<1>3. ASSUME \/ \E a : Answer(c, a)
             \/ \E pc \in Pcs \ {"shut"} : Goto(c, pc)
      PROVE  Ledger!Next
  <2>1. (\A d \in Calls \ {c} : call'[d] = call[d]) /\ call'[c].pc # "shut"
    BY <1>1, <1>3 DEF Answer, Goto, Call
  <2> QED BY <1>2, <2>1, ReadingIsForgetting
<1>4. ASSUME NEW pc \in Pcs \ {"shut"}, \A d \in Calls \ {c} : call'[d] = call[d],
             call'[c].pc = pc
      PROVE  Ledger!Next
  BY <1>2, <1>4, ReadingIsForgetting
<1>5. ASSUME SelectNone(c) PROVE Ledger!Next
  <2>1. ASSUME NEW end, call' = [call EXCEPT ![c].pc = "insert", ![c].started = now,
                                             ![c].expires = end]
        PROVE  (\A d \in Calls \ {c} : call'[d] = call[d]) /\ call'[c].pc = "insert"
    BY <1>1, <2>1 DEF Call
  <2> QED BY <1>3, <1>4, <1>5, <2>1, PcNames DEF SelectNone
<1>6. ASSUME NEW i \in Sids, SelectActive(c, i) PROVE Ledger!Next
  <2>1. ASSUME call' = [call EXCEPT ![c].pc = "check", ![c].sid = i,
                                    ![c].expires = sessions[i].expires]
        PROVE  (\A d \in Calls \ {c} : call'[d] = call[d]) /\ call'[c].pc = "check"
    BY <1>1, <2>1 DEF Call
  <2> QED BY <1>3, <1>4, <1>6, <2>1, PcNames DEF SelectActive
<1>7. ASSUME NEW i \in Sids, ReadSessionToClose(c, i) PROVE Ledger!Next
  <2>1. ASSUME call' = [call EXCEPT ![c].pc = "stats", ![c].sid = i]
        PROVE  (\A d \in Calls \ {c} : call'[d] = call[d]) /\ call'[c].pc = "stats"
    BY <1>1, <2>1 DEF Call
  <2> QED BY <1>3, <1>4, <1>7, <2>1, PcNames DEF ReadSessionToClose
<1>8. ASSUME NEW i \in Sids, NEW end, ReadSessionToUpdate(c, i, end) PROVE Ledger!Next
  <2>1. ASSUME call' = [call EXCEPT ![c].pc = "write", ![c].sid = i, ![c].expires = end]
        PROVE  (\A d \in Calls \ {c} : call'[d] = call[d]) /\ call'[c].pc = "write"
    BY <1>1, <2>1 DEF Call
  <2> QED BY <1>3, <1>4, <1>8, <2>1, PcNames DEF ReadSessionToUpdate
<1>9. ASSUME NEW o \in Oids, ReadOrderToEdit(c, o) PROVE Ledger!Next
  <2>1. ASSUME call' = [call EXCEPT ![c].pc = "rewrite", ![c].oid = o,
                                    ![c].status = orders[o].status]
        PROVE  (\A d \in Calls \ {c} : call'[d] = call[d]) /\ call'[c].pc = "rewrite"
    BY <1>1, <2>1 DEF Call
  <2> QED BY <1>3, <1>4, <1>9, <2>1, PcNames DEF ReadOrderToEdit
<1>10. ASSUME NEW o \in Oids, NEW target, ReadOrderToMark(c, o, target) PROVE Ledger!Next
  <2>1. ASSUME call' = [call EXCEPT ![c].pc = "mark", ![c].oid = o, ![c].status = target]
        PROVE  (\A d \in Calls \ {c} : call'[d] = call[d]) /\ call'[c].pc = "mark"
    BY <1>1, <2>1 DEF Call
  <2> QED BY <1>3, <1>4, <1>10, <2>1, PcNames DEF ReadOrderToMark
<1>11. ASSUME ReadDayToPurge(c) PROVE Ledger!Next
  <2>1. (\A d \in Calls \ {c} : call'[d] = call[d]) /\ call'[c].pc = "delete"
    BY <1>1, <1>11 DEF ReadDayToPurge, Call
  <2> QED BY <1>4, <2>1, PcNames
<1>12. ASSUME CheckExpiry(c) \/ WriteDeletedOrder(c) \/ Fail(c) PROVE Ledger!Next
  BY <1>3, <1>12, PcNames DEF CheckExpiry, WriteDeletedOrder, Fail
<1> QED BY <1>5, <1>6, <1>7, <1>8, <1>9, <1>10, <1>11, <1>12

\* Every step is an entry of the ledger.
LEMMA StepIsEntry == IndInv /\ [Next]_vars => [Ledger!Next]_(Ledger!ledger)
<1> SUFFICES ASSUME IndInv, [Next]_vars PROVE [Ledger!Next]_(Ledger!ledger)
  OBVIOUS
<1>1. ASSUME NEW c \in Calls, SessionStep(c) PROVE Ledger!Next
  BY <1>1, ReconcilingIsShutting, CreatingIsOpening, UpdatingIsReopening, StatsAreCounting,
     ClosingIsFiling, CompletingIsSettling, OthersAreReading DEF SessionStep
<1>2. ASSUME NEW c \in Calls, OrderStep(c) PROVE Ledger!Next
  BY <1>2, PlacingIsPlacing, WritingIsMarking, PurgingIsDiscarding, OthersAreReading
     DEF OrderStep
<1>3. ASSUME NEW c \in Calls, Fail(c) PROVE Ledger!Next
  BY <1>3, OthersAreReading
<1>4. ASSUME Tick \/ UNCHANGED vars PROVE UNCHANGED Ledger!ledger
  <2>1. UNCHANGED <<sessions, orders, indexed, call>>
    BY <1>4 DEF Tick, vars
  <2>2. UNCHANGED UnderWay
    BY <2>1 DEF UnderWay, At
  <2> QED BY <2>1, <2>2, PagesKept, LinesKept DEF Ledger!ledger
<1> QED BY <1>1, <1>2, <1>3, <1>4, MigratingIsRestricting DEF Next

\* The handlers, statement by statement and under every interleaving, keep the
\* ledger.
THEOREM Implementation == Spec => KeepsTheLedger
  BY LedgerInit, StepIsEntry, Invariance, PTL DEF Spec, KeepsTheLedger, Ledger!Spec
================================================================================
