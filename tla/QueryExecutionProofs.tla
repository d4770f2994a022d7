------------------------ MODULE QueryExecutionProofs ------------------------
(***************************************************************************)
(* Safety of one query, for every number of rows, every high-water mark    *)
(* and every set of rows that cannot be deserialized, or are null.         *)
(*                                                                         *)
(* None of the safety properties is inductive alone. IInv adds what links  *)
(* them: QueryPhase (which answers the query's callback may still carry,   *)
(* and who holds the native result), StreamPhase (what an open or finished *)
(* stream knows of the core), and Accounting (each row the core has handed *)
(* out is taken, buffered, on its way to the one outstanding _read, or was *)
(* null and ended the stream).                                             *)
(***************************************************************************)
EXTENDS QueryExecution, TLAPS

Answering == queryCookie \in {"armed", "ok", "error", "canceled"}

\* The promise is pending exactly while the core owes, or the event loop holds,
\* an answer; a cancelled answer is only there when the signal is aborted.
QueryPhase ==
    /\ promise = "none" => /\ js = "idle" /\ queryCookie = "none"
                           /\ ~coreQueryResult
    /\ promise = "pending" <=> Answering
    /\ js = "inQuery" => promise = "pending" /\ ~coreQueryResult
    /\ (Idle /\ Answering) => coreQueryResult
    /\ coreQueryResult <=> pendingOp
    /\ opCancelled => aborted /\ pendingOp
    /\ queryCookie = "canceled" => opCancelled
    /\ js # "crashedInNextRow"
    /\ promise # "resolved" => stream = "none" /\ ~result

\* The stream took a null row for its end: the core has not come to the end.
EndedByNull == ended /\ ~rowsEnded

\* An open stream has a result and no abort; a row is only awaited by a stream
\* that exists; the end, once pushed, is the last thing the stream waits for.
StreamPhase ==
    /\ stream = "none" => /\ rowCookie = "none" /\ sent = 0
                          /\ ~reading /\ ~ended /\ ~rowsEnded
    /\ stream = "open" => result /\ ~aborted
    /\ stream = "finished" => result /\ ended /\ buffer = <<>>
    /\ rowCookie \in {"armed", "row", "end", "error"} => reading /\ ~ended
    /\ rowCookie = "row" => sent > 0
    /\ rowCookie = "end" => rowsEnded
    /\ rowsEnded => sent = NumRows
    /\ ended => ~reading
    /\ EndedByNull => sent \in NullRows
    /\ metadataRead => rowsEnded
    /\ rowsEnded /\ stream = "open" => ended \/ rowCookie = "end"

InFlight == IF (reading /\ rowCookie \in {"row", "done"}) \/ EndedByNull THEN 1 ELSE 0
Awaited == IF reading \/ EndedByNull THEN 1 ELSE 0

Accounting ==
    /\ stream = "none" => Len(buffer) = 0 /\ Len(consumed) = 0
    /\ stream \in {"open", "finished"} =>
           Len(consumed) + Len(buffer) + InFlight = sent
    /\ stream = "open" => Len(buffer) + Awaited <= HighWaterMark

IInv == TypeOK /\ QueryPhase /\ StreamPhase /\ Accounting /\ RowsInOrder
-----------------------------------------------------------------------------
(* Lemmas on the two queues of rows *)

\* Taking the first row of a queue leaves a queue of rows, one shorter.
LEMMA TailOfRows ==
    ASSUME NEW S, NEW q \in Seq(S), q # <<>>
    PROVE  /\ Head(q) \in S
           /\ Tail(q) \in Seq(S)
           /\ Len(q) > 0
           /\ Len(Tail(q)) = Len(q) - 1
           /\ Head(q) = q[1]
           /\ \A i \in 1..Len(Tail(q)) : Tail(q)[i] = q[i + 1]
  OBVIOUS

\* Appending a row to a queue leaves a queue of rows, one longer.
LEMMA AppendOfRows ==
    ASSUME NEW S, NEW q \in Seq(S), NEW r \in S
    PROVE  /\ Append(q, r) \in Seq(S)
           /\ Len(Append(q, r)) = Len(q) + 1
           /\ \A i \in 1..Len(q) : Append(q, r)[i] = q[i]
           /\ Append(q, r)[Len(q) + 1] = r
  OBVIOUS

-----------------------------------------------------------------------------
(* Type correctness *)

\* Every step of the executor, the stream, the native callbacks and the core
\* keeps every variable in its type.
LEMMA TypeStep ==
    ASSUME TypeOK, StreamPhase, [Next]_vars
    PROVE  TypeOK'
  <1> USE ConstantsAssumption DEF TypeOK, StreamingState, QueryAnswer, RowAnswer,
             executor, native, core, readable
  <1>1. CASE ExecuteQuery
    BY <1>1 DEF ExecuteQuery
  <1>2. CASE ExecuteQueryRefused
    BY <1>2 DEF ExecuteQueryRefused
  <1>3. CASE ExecuteQueryInvalid
    BY <1>3 DEF ExecuteQueryInvalid
  <1>4. CASE ReturnFromQuery
    BY <1>4 DEF ReturnFromQuery, KeepCoreResult
  <1>5. CASE QueryCallback
    BY <1>5 DEF QueryCallback, Settle, NewStream
  <1>6. CASE Abort
    BY <1>6 DEF Abort, HandleAbort, JsCancel, CancelledState, AbortedStream
  <1>7. CASE StreamRead
    BY <1>7 DEF StreamRead, WantsRow
  <1>8. CASE RowArrives
    <2>1. sent \in 1..NumRows
      BY <1>8 DEF RowArrives, AfterRow, StreamPhase
    <2>2. Push(sent) \in Seq(1..NumRows)
      BY <2>1, AppendOfRows DEF Push
    <2> QED
      BY <1>8, <2>2 DEF RowArrives, AfterRow
  <1>9. CASE RowIsNull \/ RowThrows
    <2>1. CASE RowIsNull
      <3>1. reading' \in BOOLEAN /\ ended' \in BOOLEAN
        BY <2>1, Zenon DEF RowIsNull, PushEnd
      <3> QED
        BY <2>1, <3>1 DEF RowIsNull
    <2>2. CASE RowThrows
      BY <2>2 DEF RowThrows
    <2> QED
      BY <1>9, <2>1, <2>2
  <1>10. CASE RowEnd
    <2>1. reading' \in BOOLEAN
      BY <1>10, Zenon DEF RowEnd
    <2> QED
      BY <1>10, <2>1 DEF RowEnd, PushEnd
  <1>11. CASE RowError
    BY <1>11 DEF RowError, DestroyWithError
  <1>12. CASE Consume
    BY <1>12 DEF Consume
  <1>13. CASE EmitEnd
    BY <1>13 DEF EmitEnd
  <1>14. CASE Destroy
    BY <1>14 DEF Destroy
  <1>15. CASE Metadata
    BY <1>15 DEF Metadata
  <1>16. CASE MetadataWithoutResult
    BY <1>16 DEF MetadataWithoutResult
  <1>17. CASE CoreComplete
    BY <1>17 DEF CoreComplete
  <1>18. CASE CoreSendsRow
    BY <1>18 DEF CoreSendsRow
  <1>19. CASE CoreSendsEnd
    BY <1>19 DEF CoreSendsEnd
  <1>20. CASE CoreSendsError
    BY <1>20 DEF CoreSendsError
  <1>21. CASE UNCHANGED vars
    BY <1>21 DEF vars
  <1> QED
    BY <1>1, <1>2, <1>3, <1>4, <1>5, <1>6, <1>7, <1>8, <1>9, <1>10, <1>11,
       <1>12, <1>13, <1>14, <1>15, <1>16, <1>17, <1>18, <1>19, <1>20, <1>21
       DEF Next

-----------------------------------------------------------------------------
(* The phases of the query and of its stream *)

\* No step lets an answer arrive twice, arrive at an executor that does not
\* hold the native result, or be a cancellation nobody asked for.
LEMMA QueryPhaseStep ==
    ASSUME IInv, [Next]_vars
    PROVE  QueryPhase'
  <1> USE DEF IInv, StreamPhase, EndedByNull, TypeOK, QueryPhase, Answering,
             StreamingState, QueryAnswer, RowAnswer, Idle, Alive, executor, native, core, readable
  <1>1. CASE ExecuteQuery
    BY <1>1 DEF ExecuteQuery
  <1>2. CASE ExecuteQueryRefused
    BY <1>2 DEF ExecuteQueryRefused
  <1>3. CASE ExecuteQueryInvalid
    BY <1>3 DEF ExecuteQueryInvalid
  <1>4. CASE ReturnFromQuery
    BY <1>4 DEF ReturnFromQuery, KeepCoreResult
  <1>5. CASE QueryCallback
    BY <1>5 DEF QueryCallback, Settle, NewStream
  <1>6. CASE Abort
    BY <1>6 DEF Abort, HandleAbort, JsCancel, CancelledState, AbortedStream
  <1>7. CASE StreamRead
    BY <1>7 DEF StreamRead, WantsRow
  <1>8. CASE RowArrives
    BY <1>8 DEF RowArrives, AfterRow, Push
  <1>9. CASE RowIsNull \/ RowThrows
    BY <1>9 DEF RowIsNull, RowThrows, PushEnd
  <1>10. CASE RowEnd
    BY <1>10 DEF RowEnd, PushEnd
  <1>11. CASE RowError
    BY <1>11 DEF RowError, DestroyWithError
  <1>12. CASE Consume
    BY <1>12 DEF Consume
  <1>13. CASE EmitEnd
    BY <1>13 DEF EmitEnd
  <1>14. CASE Destroy
    BY <1>14 DEF Destroy
  <1>15. CASE Metadata
    BY <1>15 DEF Metadata
  <1>16. CASE MetadataWithoutResult
    BY <1>16 DEF MetadataWithoutResult
  <1>17. CASE CoreComplete
    BY <1>17 DEF CoreComplete
  <1>18. CASE CoreSendsRow
    BY <1>18 DEF CoreSendsRow
  <1>19. CASE CoreSendsEnd
    BY <1>19 DEF CoreSendsEnd
  <1>20. CASE CoreSendsError
    BY <1>20 DEF CoreSendsError
  <1>21. CASE UNCHANGED vars
    BY <1>21 DEF vars
  <1> QED
    BY <1>1, <1>2, <1>3, <1>4, <1>5, <1>6, <1>7, <1>8, <1>9, <1>10, <1>11,
       <1>12, <1>13, <1>14, <1>15, <1>16, <1>17, <1>18, <1>19, <1>20, <1>21
       DEF Next

\* No step opens a stream without a result, or lets it ask for a row, or end,
\* in another order than one request, one answer, one callback.
LEMMA StreamPhaseStep ==
    ASSUME IInv, [Next]_vars
    PROVE  StreamPhase'
  <1> USE ConstantsAssumption DEF IInv, StreamPhase, EndedByNull, TypeOK, QueryPhase, Answering,
             StreamingState, QueryAnswer, RowAnswer, Idle, Alive, executor, native, core, readable
  <1>1. CASE ExecuteQuery
    BY <1>1 DEF ExecuteQuery
  <1>2. CASE ExecuteQueryRefused
    BY <1>2 DEF ExecuteQueryRefused
  <1>3. CASE ExecuteQueryInvalid
    BY <1>3 DEF ExecuteQueryInvalid
  <1>4. CASE ReturnFromQuery
    BY <1>4 DEF ReturnFromQuery, KeepCoreResult
  <1>5. CASE QueryCallback
    BY <1>5 DEF QueryCallback, Settle, NewStream
  <1>6. CASE Abort
    BY <1>6 DEF Abort, HandleAbort, JsCancel, CancelledState, AbortedStream
  <1>7. CASE StreamRead
    BY <1>7 DEF StreamRead, WantsRow
  <1>8. CASE RowArrives
    BY <1>8 DEF RowArrives, AfterRow, Push
  <1>9. CASE RowIsNull \/ RowThrows
    BY <1>9 DEF RowIsNull, RowThrows, PushEnd
  <1>10. CASE RowEnd
    BY <1>10 DEF RowEnd, PushEnd
  <1>11. CASE RowError
    BY <1>11 DEF RowError, DestroyWithError
  <1>12. CASE Consume
    BY <1>12 DEF Consume
  <1>13. CASE EmitEnd
    BY <1>13 DEF EmitEnd
  <1>14. CASE Destroy
    BY <1>14 DEF Destroy
  <1>15. CASE Metadata
    BY <1>15 DEF Metadata
  <1>16. CASE MetadataWithoutResult
    BY <1>16 DEF MetadataWithoutResult
  <1>17. CASE CoreComplete
    BY <1>17 DEF CoreComplete
  <1>18. CASE CoreSendsRow
    BY <1>18 DEF CoreSendsRow
  <1>19. CASE CoreSendsEnd
    BY <1>19 DEF CoreSendsEnd
  <1>20. CASE CoreSendsError
    BY <1>20 DEF CoreSendsError
  <1>21. CASE UNCHANGED vars
    BY <1>21 DEF vars
  <1> QED
    BY <1>1, <1>2, <1>3, <1>4, <1>5, <1>6, <1>7, <1>8, <1>9, <1>10, <1>11,
       <1>12, <1>13, <1>14, <1>15, <1>16, <1>17, <1>18, <1>19, <1>20, <1>21
       DEF Next

-----------------------------------------------------------------------------
(* Where every row is *)

\* No step loses, repeats or over-fetches a row: what the core has handed out is
\* taken, buffered or on its way to the one _read that waits for it.
LEMMA AccountingStep ==
    ASSUME IInv, [Next]_vars
    PROVE  Accounting'
  <1> USE ConstantsAssumption DEF IInv, Accounting, InFlight, Awaited, EndedByNull, StreamPhase,
             QueryPhase, Answering, TypeOK, Idle,
             Alive, QueryAnswer, RowAnswer, executor, native, core, readable
  <1>1. CASE ExecuteQuery
    BY <1>1 DEF ExecuteQuery
  <1>2. CASE ExecuteQueryRefused
    BY <1>2 DEF ExecuteQueryRefused
  <1>3. CASE ExecuteQueryInvalid
    BY <1>3 DEF ExecuteQueryInvalid
  <1>4. CASE ReturnFromQuery
    BY <1>4 DEF ReturnFromQuery, KeepCoreResult
  <1>5. CASE QueryCallback
    BY <1>5 DEF QueryCallback, Settle, NewStream
  <1>6. CASE Abort
    BY <1>6 DEF Abort, HandleAbort, JsCancel, CancelledState, AbortedStream
  <1>7. CASE StreamRead
    BY <1>7 DEF StreamRead, WantsRow
  <1>8. CASE RowArrives
    <2>1. sent \in 1..NumRows /\ reading /\ rowCookie = "row"
      BY <1>8 DEF RowArrives, AfterRow
    <2>2. CASE stream = "open"
      <3>1. Len(buffer') = Len(buffer) + 1
        BY <1>8, <2>1, <2>2, AppendOfRows DEF RowArrives, AfterRow, Push
      <3>2. InFlight = 1 /\ Awaited = 1 /\ InFlight' = 0 /\ Awaited' = 0
        BY <1>8, <2>1, <2>2 DEF RowArrives, AfterRow
      <3>3. consumed' = consumed /\ sent' = sent /\ stream' = "open"
        BY <1>8, <2>2 DEF RowArrives, AfterRow
      <3> QED
        BY <2>2, <3>1, <3>2, <3>3
    <2>3. CASE stream # "open"
      BY <1>8, <2>1, <2>3 DEF RowArrives, AfterRow, Push
    <2> QED
      BY <2>2, <2>3
  <1>9. CASE RowIsNull \/ RowThrows
    <2>1. CASE RowIsNull
      <3>1. reading /\ rowCookie = "row" /\ ~ended
        BY <2>1 DEF RowIsNull
      <3>2. stream = "open" => ~rowsEnded
        BY <3>1
      <3>3. stream # "finished"
        BY <3>1
      <3>4. /\ UNCHANGED <<stream, buffer, consumed, sent, rowsEnded>>
            /\ ended' /\ ~reading'
        BY <2>1 DEF RowIsNull, PushEnd
      <3>5. stream = "open" => InFlight = 1 /\ Awaited = 1 /\ InFlight' = 1 /\ Awaited' = 1
        BY <3>1, <3>2, <3>4
      <3> HIDE DEF InFlight, Awaited, EndedByNull
      <3> QED
        BY <3>3, <3>4, <3>5
    <2>2. CASE RowThrows
      BY <2>2 DEF RowThrows
    <2> QED
      BY <1>9, <2>1, <2>2
  <1>10. CASE RowEnd
    BY <1>10 DEF RowEnd, PushEnd
  <1>11. CASE RowError
    BY <1>11 DEF RowError, DestroyWithError
  <1>12. CASE Consume
    <2>1. Len(consumed') = Len(consumed) + 1 /\ Len(buffer') = Len(buffer) - 1
      BY <1>12, TailOfRows, AppendOfRows DEF Consume
    <2>2. /\ stream = "open" /\ UNCHANGED <<stream, reading, ended, rowsEnded, rowCookie, sent>>
      BY <1>12 DEF Consume
    <2>3. InFlight' = InFlight /\ Awaited' = Awaited
      BY <2>2
    <2>4. /\ Len(consumed) + Len(buffer) + InFlight = sent
          /\ Len(buffer) + Awaited <= HighWaterMark
      BY <2>2
    <2>5. /\ Len(consumed) \in Nat /\ Len(buffer) \in Nat
          /\ InFlight \in Nat /\ Awaited \in Nat /\ sent \in Nat
      OBVIOUS
    <2> HIDE DEF InFlight, Awaited, IInv
    <2>6. /\ Len(consumed') + Len(buffer') + InFlight' = sent'
          /\ Len(buffer') + Awaited' <= HighWaterMark
      BY <2>1, <2>2, <2>3, <2>4, <2>5
    <2> QED
      BY <2>2, <2>6
  <1>13. CASE EmitEnd
    BY <1>13 DEF EmitEnd
  <1>14. CASE Destroy
    BY <1>14 DEF Destroy
  <1>15. CASE Metadata
    BY <1>15 DEF Metadata
  <1>16. CASE MetadataWithoutResult
    BY <1>16 DEF MetadataWithoutResult
  <1>17. CASE CoreComplete
    BY <1>17 DEF CoreComplete
  <1>18. CASE CoreSendsRow
    BY <1>18 DEF CoreSendsRow
  <1>19. CASE CoreSendsEnd
    BY <1>19 DEF CoreSendsEnd
  <1>20. CASE CoreSendsError
    BY <1>20 DEF CoreSendsError
  <1>21. CASE UNCHANGED vars
    BY <1>21 DEF vars
  <1> QED
    BY <1>1, <1>2, <1>3, <1>4, <1>5, <1>6, <1>7, <1>8, <1>9, <1>10, <1>11,
       <1>12, <1>13, <1>14, <1>15, <1>16, <1>17, <1>18, <1>19, <1>20, <1>21
       DEF Next

\* No step reorders the rows: the buffer always continues what was taken.
LEMMA RowsInOrderStep ==
    ASSUME IInv, [Next]_vars
    PROVE  RowsInOrder'
  <1> USE ConstantsAssumption DEF IInv, Accounting, InFlight, EndedByNull, RowsInOrder, StreamPhase,
             TypeOK, Idle,
             Alive, QueryAnswer, RowAnswer, executor, native, core, readable
  <1>1. CASE ExecuteQuery
    BY <1>1 DEF ExecuteQuery
  <1>2. CASE ExecuteQueryRefused
    BY <1>2 DEF ExecuteQueryRefused
  <1>3. CASE ExecuteQueryInvalid
    BY <1>3 DEF ExecuteQueryInvalid
  <1>4. CASE ReturnFromQuery
    BY <1>4 DEF ReturnFromQuery, KeepCoreResult
  <1>5. CASE QueryCallback
    BY <1>5 DEF QueryCallback, Settle, NewStream
  <1>6. CASE Abort
    BY <1>6 DEF Abort, HandleAbort, JsCancel, CancelledState, AbortedStream
  <1>7. CASE StreamRead
    BY <1>7 DEF StreamRead, WantsRow
  <1>8. CASE RowArrives
    BY <1>8, AppendOfRows DEF RowArrives, AfterRow, Push
  <1>9. CASE RowIsNull \/ RowThrows
    BY <1>9 DEF RowIsNull, RowThrows, PushEnd
  <1>10. CASE RowEnd
    BY <1>10 DEF RowEnd, PushEnd
  <1>11. CASE RowError
    BY <1>11 DEF RowError, DestroyWithError
  <1>12. CASE Consume
    BY <1>12, AppendOfRows, TailOfRows DEF Consume
  <1>13. CASE EmitEnd
    BY <1>13 DEF EmitEnd
  <1>14. CASE Destroy
    BY <1>14 DEF Destroy
  <1>15. CASE Metadata
    BY <1>15 DEF Metadata
  <1>16. CASE MetadataWithoutResult
    BY <1>16 DEF MetadataWithoutResult
  <1>17. CASE CoreComplete
    BY <1>17 DEF CoreComplete
  <1>18. CASE CoreSendsRow
    BY <1>18 DEF CoreSendsRow
  <1>19. CASE CoreSendsEnd
    BY <1>19 DEF CoreSendsEnd
  <1>20. CASE CoreSendsError
    BY <1>20 DEF CoreSendsError
  <1>21. CASE UNCHANGED vars
    BY <1>21 DEF vars
  <1> QED
    BY <1>1, <1>2, <1>3, <1>4, <1>5, <1>6, <1>7, <1>8, <1>9, <1>10, <1>11,
       <1>12, <1>13, <1>14, <1>15, <1>16, <1>17, <1>18, <1>19, <1>20, <1>21
       DEF Next

-----------------------------------------------------------------------------
(* The inductive invariant *)

\* The state before the query is issued satisfies every part of it.
LEMMA InitInvariant == Init => IInv
  <1> SUFFICES ASSUME Init PROVE IInv
    OBVIOUS
  <1>1. /\ aborted \in BOOLEAN /\ coreQueryResult \in BOOLEAN
        /\ pendingOp \in BOOLEAN /\ result \in BOOLEAN
        /\ opCancelled \in BOOLEAN /\ rowsCancelled \in BOOLEAN /\ rowsEnded \in BOOLEAN
        /\ reading \in BOOLEAN /\ ended \in BOOLEAN /\ metadataRead \in BOOLEAN
    BY ConstantsAssumption, Zenon DEF Init
  <1>2. TypeOK
    BY <1>1, ConstantsAssumption DEF Init, TypeOK, StreamingState, QueryAnswer, RowAnswer
  <1>3. QueryPhase /\ StreamPhase
    BY DEF Init, QueryPhase, Answering, Idle, StreamPhase, EndedByNull
  <1>4. Accounting /\ RowsInOrder
    BY ConstantsAssumption DEF Init, Accounting, InFlight, Awaited, EndedByNull, RowsInOrder
  <1> QED
    BY <1>2, <1>3, <1>4 DEF IInv

\* Every step preserves it.
LEMMA StepInvariant == IInv /\ [Next]_vars => IInv'
  <1> SUFFICES ASSUME IInv, [Next]_vars PROVE IInv'
    OBVIOUS
  <1>1. TypeOK'
    BY TypeStep DEF IInv
  <1> QED
    BY <1>1, QueryPhaseStep, StreamPhaseStep, AccountingStep, RowsInOrderStep DEF IInv

\* The threads of a query keep the whole invariant, for every number of rows.
THEOREM Invariance == Spec => []IInv
  BY InitInvariant, StepInvariant, PTL DEF Spec

\* Every variable of a query keeps its type.
THEOREM TypeCorrect == Spec => []TypeOK
  <1>1. IInv => TypeOK
    BY DEF IInv
  <1> QED
    BY <1>1, Invariance, PTL

\* The native nextRow never runs without a result, whatever the order of the
\* abort, the core's answer and the callback.
THEOREM NextRowSafe == Spec => []NextRowHasResult
  <1>1. IInv => NextRowHasResult
    BY DEF IInv, QueryPhase, NextRowHasResult
  <1> QED
    BY <1>1, Invariance, PTL

\* The application sees the rows of the server in order, without gap or repeat.
THEOREM RowsStayInOrder == Spec => []RowsInOrder
  <1>1. IInv => RowsInOrder
    BY DEF IInv
  <1> QED
    BY <1>1, Invariance, PTL

\* Where the rows are when the end was pushed and the buffer is drained.
LEMMA DrainedStream ==
    ASSUME IInv, stream \in {"open", "finished"}, ended, buffer = <<>>
    PROVE  /\ rowsEnded => Len(consumed) = NumRows
           /\ ~rowsEnded => sent \in NullRows /\ Len(consumed) + 1 = sent
  <1>1. ~reading /\ Len(buffer) = 0 /\ Len(consumed) \in Nat
    BY DEF IInv, StreamPhase, TypeOK
  <1>2. Len(consumed) + 0 + InFlight = sent
    BY <1>1 DEF IInv, Accounting
  <1>3. CASE rowsEnded
    BY <1>1, <1>2, <1>3 DEF IInv, StreamPhase, InFlight, EndedByNull
  <1>4. CASE ~rowsEnded
    BY <1>1, <1>2, <1>4 DEF IInv, StreamPhase, InFlight, EndedByNull
  <1> QED
    BY <1>3, <1>4

\* A stream that emits 'end' has delivered every row, or all those before a row
\* that was null.
THEOREM FinishedIsComplete == Spec => []FinishedMeansComplete
  <1>1. IInv => FinishedMeansComplete
    BY DrainedStream DEF FinishedMeansComplete, IInv, StreamPhase
  <1> QED
    BY <1>1, Invariance, PTL

\* If no row of the query deserializes to null, a stream that emits 'end' has
\* delivered every row, as the documentation of rows() has it.
THEOREM FinishedIsWhole ==
    ASSUME NullRows = {}
    PROVE  Spec => []FinishedHasEveryRow
  <1>1. IInv => FinishedHasEveryRow
    BY DrainedStream DEF FinishedHasEveryRow, IInv, StreamPhase
  <1> QED
    BY <1>1, Invariance, PTL

\* The rows fetched and not yet taken never exceed the high-water mark.
THEOREM BackpressureHolds == Spec => []Backpressure
  <1>1. ASSUME IInv, stream = "open"
        PROVE  sent - Len(consumed) + (IF rowCookie = "armed" THEN 1 ELSE 0)
                   <= HighWaterMark
    <2>1. /\ Len(consumed) + Len(buffer) + InFlight = sent
          /\ Len(buffer) + Awaited <= HighWaterMark
      BY <1>1 DEF IInv, Accounting
    <2>2. InFlight + (IF rowCookie = "armed" THEN 1 ELSE 0) <= Awaited
      BY <1>1 DEF IInv, StreamPhase, InFlight, Awaited, EndedByNull
    <2>3. /\ Len(consumed) \in Nat /\ Len(buffer) \in Nat /\ sent \in Nat
          /\ InFlight \in Nat /\ Awaited \in Nat /\ HighWaterMark \in Nat
      BY <1>1, ConstantsAssumption DEF IInv, TypeOK, InFlight, Awaited
    <2> QED
      BY <2>1, <2>2, <2>3
  <1>2. IInv => Backpressure
    BY <1>1 DEF Backpressure
  <1> QED
    BY <1>2, Invariance, PTL

\* Once 'end' is emitted, metadata() returns if and only if no null row has cut
\* the result short.
THEOREM MetadataAtEnd == Spec => []MetadataTellsTheEnd
  <1>1. ASSUME IInv, stream = "finished"
        PROVE  result /\ (rowsEnded <=> Len(consumed) = NumRows)
    <2>1. result /\ ended /\ buffer = <<>>
      BY <1>1 DEF IInv, StreamPhase
    <2>2. ~rowsEnded => Len(consumed) # NumRows
      BY <1>1, <2>1, DrainedStream DEF IInv, TypeOK
    <2> QED
      BY <1>1, <2>1, <2>2, DrainedStream
  <1>2. IInv => MetadataTellsTheEnd
    BY <1>1 DEF MetadataTellsTheEnd
  <1> QED
    BY <1>2, Invariance, PTL

\* The object the core's answer is written to stays reachable until then.
THEOREM NativeResultStaysPinned == Spec => []NativeResultPinned
  <1>1. IInv => NativeResultPinned
    BY DEF IInv, QueryPhase, Answering, NativeResultPinned, QueryAnswer
  <1> QED
    BY <1>1, Invariance, PTL

\* After an abort no row is delivered, none is asked for, and 'end' never comes.
THEOREM AbortStaysFinal == Spec => AbortIsFinal
  <1> DEFINE A == aborted => /\ consumed' = consumed
                             /\ rowCookie' = "armed" => rowCookie = "armed"
                             /\ stream' = "finished" => stream = "finished"
  <1>1. ASSUME IInv, [Next]_vars, aborted PROVE A
    <2> USE DEF executor, native, core, readable
    <2>1. stream # "open"
      BY <1>1 DEF IInv, StreamPhase
    <2>2. CASE UNCHANGED vars
      BY <2>2 DEF vars
    <2>3. CASE ExecuteQuery \/ ExecuteQueryRefused \/ ExecuteQueryInvalid
               \/ ReturnFromQuery
      BY <2>3 DEF ExecuteQuery, ExecuteQueryRefused, ExecuteQueryInvalid, ReturnFromQuery
    <2>4. CASE QueryCallback
      BY <2>4 DEF QueryCallback, NewStream
    <2>5. CASE Abort
      BY <1>1, <2>5 DEF Abort
    <2>6. CASE StreamRead \/ Consume \/ EmitEnd \/ Destroy
      BY <2>1, <2>6 DEF StreamRead, Consume, EmitEnd, Destroy
    <2>7. CASE RowArrives \/ RowIsNull \/ RowThrows \/ RowEnd
      BY <2>7 DEF RowArrives, AfterRow, RowIsNull, RowThrows, RowEnd
    <2>8. CASE RowError
      BY <2>1, <2>8 DEF RowError, DestroyWithError
    <2>9. CASE Metadata \/ MetadataWithoutResult
      BY <2>9 DEF Metadata, MetadataWithoutResult
    <2>10. CASE CoreComplete \/ CoreSendsRow \/ CoreSendsEnd \/ CoreSendsError
      BY <2>10 DEF CoreComplete, CoreSendsRow, CoreSendsEnd, CoreSendsError
    <2> QED
      BY <1>1, <2>2, <2>3, <2>4, <2>5, <2>6, <2>7, <2>8, <2>9, <2>10 DEF Next
  <1>2. IInv /\ [Next]_vars => [A]_vars
    BY <1>1
  <1> QED
    BY <1>2, Invariance, PTL DEF Spec, AbortIsFinal

-----------------------------------------------------------------------------
(* Aborts reach the core *)

\* What a signal that was not aborted beforehand adds: no abort slips in before
\* the executor holds the native result, and "Cancelled" is never set without
\* a cancel() that the core received.
AbortSeen ==
    /\ promise = "none" \/ js = "inQuery" => ~aborted
    /\ coreQueryResult => streamingState # "NotStarted"
    /\ streamingState = "Cancelled" => opCancelled \/ rowsCancelled
    /\ AbortReachesCore

\* No step aborts a running query behind the back of the core.
LEMMA AbortSeenStep ==
    ASSUME IInv, AbortSeen, [Next]_vars
    PROVE  AbortSeen'
  <1> USE DEF IInv, TypeOK, QueryPhase, StreamingState, AbortSeen,
             AbortReachesCore, Idle, executor, native, core, readable
  <1>1. CASE ExecuteQuery
    BY <1>1 DEF ExecuteQuery
  <1>2. CASE ExecuteQueryRefused
    BY <1>2 DEF ExecuteQueryRefused
  <1>3. CASE ExecuteQueryInvalid
    BY <1>3 DEF ExecuteQueryInvalid
  <1>4. CASE ReturnFromQuery
    BY <1>4 DEF ReturnFromQuery, KeepCoreResult
  <1>5. CASE QueryCallback
    BY <1>5 DEF QueryCallback, Settle, NewStream
  <1>6. CASE Abort
    BY <1>6 DEF Abort, HandleAbort, JsCancel, CancelledState, AbortedStream
  <1>7. CASE StreamRead
    BY <1>7 DEF StreamRead, WantsRow
  <1>8. CASE RowArrives
    BY <1>8 DEF RowArrives, AfterRow, Push
  <1>9. CASE RowIsNull \/ RowThrows
    BY <1>9 DEF RowIsNull, RowThrows, PushEnd
  <1>10. CASE RowEnd
    BY <1>10 DEF RowEnd, PushEnd
  <1>11. CASE RowError
    BY <1>11 DEF RowError, DestroyWithError
  <1>12. CASE Consume
    BY <1>12 DEF Consume
  <1>13. CASE EmitEnd
    BY <1>13 DEF EmitEnd
  <1>14. CASE Destroy
    BY <1>14 DEF Destroy
  <1>15. CASE Metadata
    BY <1>15 DEF Metadata
  <1>16. CASE MetadataWithoutResult
    BY <1>16 DEF MetadataWithoutResult
  <1>17. CASE CoreComplete
    BY <1>17 DEF CoreComplete
  <1>18. CASE CoreSendsRow
    BY <1>18 DEF CoreSendsRow
  <1>19. CASE CoreSendsEnd
    BY <1>19 DEF CoreSendsEnd
  <1>20. CASE CoreSendsError
    BY <1>20 DEF CoreSendsError
  <1>21. CASE UNCHANGED vars
    BY <1>21 DEF vars
  <1> QED
    BY <1>1, <1>2, <1>3, <1>4, <1>5, <1>6, <1>7, <1>8, <1>9, <1>10, <1>11,
       <1>12, <1>13, <1>14, <1>15, <1>16, <1>17, <1>18, <1>19, <1>20, <1>21
       DEF Next

\* If the caller's signal is not aborted before the query starts, an abort is
\* passed on to the core for every query that still runs.
THEOREM AbortsReachCore ==
    ASSUME PreAborted = FALSE
    PROVE  Spec => []AbortReachesCore
  <1>1. Init => AbortSeen
    BY DEF Init, AbortSeen, AbortReachesCore
  <1>2. IInv /\ AbortSeen /\ [Next]_vars => AbortSeen'
    BY AbortSeenStep
  <1>3. AbortSeen => AbortReachesCore
    BY DEF AbortSeen
  <1> QED
    BY <1>1, <1>2, <1>3, Invariance, PTL DEF Spec

-----------------------------------------------------------------------------
(* The contract of executeQuery *)

\* Every step of the component is a step of the contract, or changes nothing
\* that the contract speaks of.
LEMMA ContractStep ==
    ASSUME IInv, [Next]_vars
    PROVE  [Contract!Next]_(Contract!vars)
  <1> USE DEF executor, native, core, readable, Contract!vars
  <1>1. CASE UNCHANGED vars
    BY <1>1 DEF vars
  <1>2. CASE ExecuteQuery \/ ExecuteQueryRefused \/ ExecuteQueryInvalid
    BY <1>2 DEF ExecuteQuery, ExecuteQueryRefused, ExecuteQueryInvalid,
       Contract!Next, Contract!Issue
  <1>3. CASE QueryCallback
    <2>1. promise = "pending"
      BY <1>3 DEF QueryCallback, IInv, QueryPhase, Answering, QueryAnswer
    <2> QED
      BY <1>3, <2>1 DEF QueryCallback, Settle, NewStream,
         Contract!Next, Contract!Resolve, Contract!Reject
  <1>4. CASE Consume
    <2>1. /\ stream = "open" /\ stream' = stream /\ promise' = promise
          /\ consumed' = Append(consumed, Head(buffer))
          /\ buffer # <<>> /\ buffer \in Seq(1..NumRows)
          /\ consumed \in Seq(1..NumRows)
      BY <1>4 DEF Consume, IInv, TypeOK
    <2>2. Head(buffer) = Len(consumed) + 1
      BY <2>1, TailOfRows DEF IInv, RowsInOrder
    <2>3. Len(consumed) < NumRows
      <3>1. Head(buffer) \in 1..NumRows
        BY <2>1, TailOfRows
      <3> QED
        BY <2>1, <2>2, <3>1, ConstantsAssumption
    <2> QED
      BY <2>1, <2>2, <2>3 DEF Contract!Next, Contract!Deliver
  <1>5. CASE EmitEnd
    <2>1. Len(consumed) = NumRows \/ Len(consumed) + 1 \in NullRows
      <3>1. stream = "open" /\ ended /\ buffer = <<>>
        BY <1>5 DEF EmitEnd
      <3> QED
        BY <3>1, DrainedStream
    <2> QED
      BY <1>5, <2>1 DEF EmitEnd, Contract!Next, Contract!End, Contract!Final
  <1>6. CASE Abort
    BY <1>6 DEF Abort, AbortedStream, Contract!Next, Contract!End, Contract!Final
  <1>7. CASE RowError
    BY <1>7 DEF RowError, DestroyWithError, Contract!Next, Contract!End, Contract!Final
  <1>8. CASE Destroy
    BY <1>8 DEF Destroy, Contract!Next, Contract!End, Contract!Final
  <1>9. CASE ReturnFromQuery \/ StreamRead \/ RowArrives \/ RowIsNull \/ RowThrows \/ RowEnd
    BY <1>9 DEF ReturnFromQuery, StreamRead, RowArrives, AfterRow, RowIsNull, RowThrows,
       RowEnd
  <1>10. CASE Metadata \/ MetadataWithoutResult
    BY <1>10 DEF Metadata, MetadataWithoutResult
  <1>11. CASE CoreComplete \/ CoreSendsRow \/ CoreSendsEnd \/ CoreSendsError
    BY <1>11 DEF CoreComplete, CoreSendsRow, CoreSendsEnd, CoreSendsError
  <1> QED
    BY <1>1, <1>2, <1>3, <1>4, <1>5, <1>6, <1>7, <1>8, <1>9, <1>10, <1>11 DEF Next

\* The executor, the stream and the native callbacks implement the contract of
\* executeQuery, whatever rows fail to deserialize or are null and whenever an
\* abort comes. Where no row is null, 'end' comes only after the last row.
THEOREM QueryImplementsContract == Spec => ImplementsSafety
  <1>1. Init => Contract!Init
    BY DEF Init, Contract!Init
  <1>2. IInv /\ [Next]_vars => [Contract!Next]_(Contract!vars)
    BY ContractStep
  <1> QED
    BY <1>1, <1>2, Invariance, PTL DEF Spec, ImplementsSafety, Contract!Safety

-----------------------------------------------------------------------------
(* What a promise and a stream wait for *)

\* What makes OnlyABadRowStalls inductive: a Readable that waits has asked, and a process that
\* died in metadata() had a promise resolved without a result.
Waiting ==
    /\ (stream = "open" /\ reading) =>
          rowCookie \in RowAnswer \cup {"armed"} \/ (rowCookie = "done" /\ sent \in BadRows)
    /\ js = "crashedInMetadata" => promise = "resolved" /\ ~result

\* No step leaves a Readable waiting without an answer under way, but for a row
\* that does not deserialize.
LEMMA WaitingStep ==
    ASSUME IInv, Waiting, [Next]_vars
    PROVE  Waiting'
  <1> USE DEF Waiting, IInv, TypeOK, QueryPhase, StreamPhase, Answering, Idle, RowAnswer,
              QueryAnswer, executor, native, core, readable
  <1>1. CASE ExecuteQuery \/ ExecuteQueryRefused \/ ExecuteQueryInvalid \/ ReturnFromQuery
    BY <1>1 DEF ExecuteQuery, ExecuteQueryRefused, ExecuteQueryInvalid, ReturnFromQuery
  <1>2. CASE QueryCallback
    BY <1>2 DEF QueryCallback
  <1>3. CASE Abort
    BY <1>3 DEF Abort, AbortedStream
  <1>4. CASE StreamRead
    BY <1>4 DEF StreamRead
  <1>5. CASE RowArrives
    BY <1>5 DEF RowArrives, AfterRow
  <1>6. CASE RowIsNull \/ RowThrows
    BY <1>6 DEF RowIsNull, RowThrows
  <1>7. CASE RowEnd
    BY <1>7 DEF RowEnd
  <1>8. CASE RowError
    BY <1>8 DEF RowError, DestroyWithError
  <1>9. CASE Consume \/ EmitEnd \/ Destroy
    BY <1>9 DEF Consume, EmitEnd, Destroy
  <1>10. CASE Metadata \/ MetadataWithoutResult
    BY <1>10 DEF Metadata, MetadataWithoutResult
  <1>11. CASE CoreComplete \/ CoreSendsRow \/ CoreSendsEnd \/ CoreSendsError
    BY <1>11 DEF CoreComplete, CoreSendsRow, CoreSendsEnd, CoreSendsError
  <1>12. CASE UNCHANGED vars
    BY <1>12 DEF vars
  <1> QED
    BY <1>1, <1>2, <1>3, <1>4, <1>5, <1>6, <1>7, <1>8, <1>9, <1>10, <1>11, <1>12 DEF Next

\* For any rows and mark: an open stream or a pending promise is never left with
\* nobody to bring it on, unless a row could not be deserialized. This is what
\* PromiseSettles and StreamSettles need besides fairness.
THEOREM WaitsAreServed == Spec => []OnlyABadRowStalls
  <1>1. Init => Waiting
    BY DEF Init, Waiting
  <1>2. IInv /\ Waiting /\ [Next]_vars => Waiting'
    BY WaitingStep
  <1>3. ASSUME IInv, Waiting PROVE OnlyABadRowStalls
    <2> USE <1>3 DEF IInv, TypeOK, QueryPhase, StreamPhase, Answering, Idle
    <2>1. promise = "pending" => Alive /\ queryCookie \in QueryAnswer \cup {"armed"}
      BY DEF Waiting, Alive, QueryAnswer
    <2>2. stream = "open" => Idle
      BY DEF Waiting
    <2>3. buffer = <<>> => WantsRow
      BY ConstantsAssumption DEF WantsRow
    <2>4. ASSUME stream = "open", buffer = <<>>, reading, rowCookie = "done", sent \in BadRows
          PROVE  Stuck
      <3>1. InFlight = 1 /\ Len(buffer) = 0 /\ Len(consumed) \in Nat
        BY <2>4 DEF InFlight
      <3> QED
        BY <2>4, <3>1 DEF Accounting, Stuck
    <2> QED
      BY <2>1, <2>2, <2>3, <2>4 DEF Waiting, OnlyABadRowStalls
  <1> QED
    BY <1>1, <1>2, <1>3, Invariance, PTL DEF Spec

=============================================================================
