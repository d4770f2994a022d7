--------------------------- MODULE QueryExecution ---------------------------
(***************************************************************************)
(* One query from Cluster.executeQuery to the end of its row stream:       *)
(*   - QueryExecutor, QueryResult and QueryResultStream on the JavaScript  *)
(*     thread (lib/queryexecutor.ts, lib/querytypes.ts),                   *)
(*   - the native QueryResult and the two thread-safe callbacks that carry *)
(*     answers from the io thread to the JavaScript thread                 *)
(*     (src/query_result.cpp, src/connection.cpp, src/connection.hpp),     *)
(*   - the C++ core, external: it answers the query once, and each request *)
(*     for a row once, whenever it likes.                                  *)
(* The JavaScript thread runs one action at a time; the io thread can act  *)
(* between any two of them, and also while jsQuery is on the stack, before *)
(* the executor has stored what jsQuery returns (js = "inQuery").          *)
(***************************************************************************)
EXTENDS Integers, Sequences

CONSTANTS
    NumRows,        \* how many rows the server has for the query
    HighWaterMark,  \* rows the Readable buffers before it stops asking
    BadRows,        \* rows whose deserializer may throw
    NullRows,       \* rows that may deserialize to null, as the JSON null does
    PreAborted      \* may the caller's signal be aborted before the query?

ASSUME ConstantsAssumption ==
    /\ NumRows \in Nat
    /\ HighWaterMark \in Nat \ {0}
    /\ BadRows \subseteq 1..NumRows
    /\ NullRows \subseteq 1..NumRows
    /\ PreAborted \in BOOLEAN

VARIABLES
    js,               \* what the JavaScript thread is doing, or died of
    aborted,          \* _signal.aborted, of the caller or of cancel()
    streamingState,   \* QueryExecutor._streamingState
    coreQueryResult,  \* is QueryExecutor._coreQueryResult set?
    promise,          \* the Promise executeQuery returns
    pendingOp,        \* is the native pending_op_ set?
    result,           \* is the native result_ set?
    queryCookie,      \* CallCookie of the query: what the core answered
    rowCookie,        \* CallCookie of the last next_row: what the core answered
    opCancelled,      \* the core was told to cancel the pending operation
    rowsCancelled,    \* the core was told to cancel the row stream
    sent,             \* rows the core has handed out
    rowsEnded,        \* the core handed out query_result_end: it has metadata
    stream,           \* the QueryResultStream
    reading,          \* the Readable waits for a push
    ended,            \* push(null) was called
    buffer,           \* rows pushed, not yet taken by the application
    consumed,         \* rows the application has taken
    metadataRead      \* metadata() has returned a QueryMetadata

executor == <<aborted, streamingState, coreQueryResult>>
native   == <<pendingOp, result>>
core     == <<opCancelled, rowsCancelled, sent, rowsEnded>>
readable == <<stream, reading, ended, buffer, consumed>>
vars == <<js, executor, promise, native, queryCookie, rowCookie, core,
          readable, metadataRead>>

StreamingState == {"NotStarted", "Started", "Cancelled", "Complete"}
QueryAnswer == {"ok", "error", "canceled"}
RowAnswer == {"row", "end", "error"}

Idle == js = "idle"                    \* the event loop can run a callback
Alive == js \in {"idle", "inQuery"}    \* the process has not crashed

Init ==
    /\ js = "idle"
    /\ aborted \in {FALSE, PreAborted}
    /\ streamingState = "NotStarted"
    /\ promise = "none"
    /\ queryCookie = "none" /\ rowCookie = "none"
    /\ stream = "none"
    /\ sent = 0
    /\ buffer = <<>> /\ consumed = <<>>
    /\ coreQueryResult = FALSE /\ pendingOp = FALSE /\ result = FALSE
    /\ opCancelled = FALSE /\ rowsCancelled = FALSE /\ rowsEnded = FALSE
    /\ reading = FALSE /\ ended = FALSE /\ metadataRead = FALSE

-----------------------------------------------------------------------------
(* Issuing the query *)

\* jsQuery has handed the query to the core and has not returned yet.
ExecuteQuery ==
    /\ Idle /\ promise = "none"
    /\ js' = "inQuery"
    /\ promise' = "pending"
    /\ queryCookie' = "armed"
    /\ UNCHANGED <<executor, native, rowCookie, core, readable, metadataRead>>

\* The core refuses the query at once: jsQuery returns cppQueryErr, query()
\* throws it, and the callback is destroyed without ever being invoked.
ExecuteQueryRefused ==
    /\ Idle /\ promise = "none"
    /\ promise' = "rejected"
    /\ queryCookie' = "dropped"
    /\ UNCHANGED <<js, executor, native, rowCookie, core, readable, metadataRead>>

\* An option cannot be converted (scan consistency, JSON.stringify, the
\* js_to_cbpp of an option): query() throws before a callback exists.
ExecuteQueryInvalid ==
    /\ Idle /\ promise = "none"
    /\ promise' = "rejected"
    /\ UNCHANGED <<js, executor, native, queryCookie, rowCookie, core, readable,
                   metadataRead>>

\* A bug: forget what jsQuery returned.
KeepNothing == coreQueryResult' = coreQueryResult

\* The executor stores what jsQuery returned.
KeepCoreResult == coreQueryResult' = TRUE

\* jsQuery stores the pending operation and returns to query().
ReturnFromQuery ==
    /\ js = "inQuery"
    /\ js' = "idle"
    /\ pendingOp' = TRUE
    /\ KeepCoreResult
    /\ streamingState' = "Started"
    /\ UNCHANGED <<aborted, promise, result, queryCookie, rowCookie, core,
                   readable, metadataRead>>

\* Bugs: only errors settle the promise; a stream built without the signal.
SettleUnlessCanceled ==
    CASE queryCookie = "canceled" -> "pending"
      [] queryCookie = "error" \/ ~coreQueryResult -> "rejected"
      [] OTHER -> "resolved"
NewStreamIgnoringSignal == "open"

\* A canceled query resolves like a successful one; any other error rejects;
\* the QueryResult constructor refuses an executor without a core result.
Settle == IF queryCookie = "error" \/ ~coreQueryResult THEN "rejected" ELSE "resolved"

\* Readable's constructor destroys a stream whose signal is already aborted.
NewStream == IF aborted THEN "aborted" ELSE "open"

\* The JavaScript thread runs the callback of the query.
QueryCallback ==
    /\ Idle /\ queryCookie \in QueryAnswer
    /\ queryCookie' = "done"
    /\ result' = (result \/ queryCookie = "ok")
    /\ promise' = Settle
    /\ stream' = IF Settle = "resolved" THEN NewStream ELSE stream
    /\ UNCHANGED <<js, executor, pendingOp, rowCookie, core, reading, ended,
                   buffer, consumed, metadataRead>>

-----------------------------------------------------------------------------
(* Cancelling it *)

\* Bugs: cancel() that knows only the row stream; the core's spelling
\* stored as the state; a stream the signal does not destroy.
JsCancelRowsOnly ==
    /\ rowsCancelled' = (rowsCancelled \/ result)
    /\ UNCHANGED opCancelled
CancelledStateOfCore == IF pendingOp \/ result THEN "canceled" ELSE streamingState
StreamIgnoresSignal == stream

\* The native cancel(): the pending operation until there is a result, the
\* result from then on. It returns false when there is neither.
JsCancel ==
    /\ opCancelled' = (opCancelled \/ (pendingOp /\ ~result))
    /\ rowsCancelled' = (rowsCancelled \/ result)
CancelledState == IF pendingOp \/ result THEN "Cancelled" ELSE streamingState

\* The executor's 'abort' listener.
HandleAbort ==
    IF coreQueryResult /\ streamingState \notin {"Cancelled", "Complete"}
    THEN /\ JsCancel
         /\ streamingState' = CancelledState
    ELSE UNCHANGED <<opCancelled, rowsCancelled, streamingState>>

\* The stream's 'abort' listener destroys it; it is gone once 'end' was emitted.
AbortedStream == IF stream = "open" THEN "aborted" ELSE stream

\* The application aborts its signal or calls QueryResult.cancel().
Abort ==
    /\ Idle /\ promise # "none" /\ ~aborted
    /\ aborted' = TRUE
    /\ HandleAbort
    /\ stream' = AbortedStream
    /\ UNCHANGED <<js, coreQueryResult, promise, native, queryCookie, rowCookie,
                   sent, rowsEnded, reading, ended, buffer, consumed, metadataRead>>

-----------------------------------------------------------------------------
(* Streaming its rows *)

\* When Readable calls _read: below the mark, and not waiting for a push.
WantsRow == Len(buffer) < HighWaterMark

\* _read asks the native result for a row. jsNextRow dereferences result_
\* unconditionally: without one the process dies.
StreamRead ==
    /\ Idle /\ stream = "open" /\ ~reading /\ ~ended /\ WantsRow
    /\ js' = IF result THEN js ELSE "crashedInNextRow"
    /\ rowCookie' = IF result THEN "armed" ELSE rowCookie
    /\ reading' = result
    /\ UNCHANGED <<executor, promise, native, queryCookie, core, stream, ended,
                   buffer, consumed, metadataRead>>

\* Bugs: rows put back at the front; an end that is not pushed; an error taken
\* for the end of the rows, or kept from the stream.
PushFirst(row) == IF stream = "open" THEN <<row>> \o buffer ELSE buffer
EndUnpushed == FALSE
ErrorEndsStream == IF stream = "open" THEN "finished" ELSE stream
ErrorUntold == stream

\* The row is pushed; a destroyed stream drops it.
Push(row) == IF stream = "open" THEN Append(buffer, row) ELSE buffer

\* Readable.push(null).
PushEnd == TRUE

\* Readable.destroy(err): a stream that is already destroyed stays as it is.
DestroyWithError == IF stream = "open" THEN "failed" ELSE stream

\* A bug: the callback asks for the next row itself.
AsksAgain == IF stream = "open" THEN "armed" ELSE "done"

\* The callback asks for nothing: Readable calls _read again when it wants to.
AfterRow == "done"

\* _read's callback with a row, which the stream deserializes and pushes. The
\* core has one request at a time, so it is the last row sent.
RowArrives ==
    /\ Idle /\ rowCookie = "row"
    /\ rowCookie' = AfterRow
    /\ buffer' = Push(sent)
    /\ reading' = (reading /\ stream # "open")
    /\ UNCHANGED <<js, executor, promise, native, queryCookie, core, stream, ended,
                   consumed, metadataRead>>

\* A row that deserializes to null is pushed all the same, and push(null) is the
\* end of the stream: the executor and the core, which may have more rows, are
\* not told.
RowIsNull ==
    /\ Idle /\ rowCookie = "row" /\ sent \in NullRows
    /\ rowCookie' = "done"
    /\ ended' = PushEnd
    /\ reading' = FALSE
    /\ UNCHANGED <<js, executor, promise, native, queryCookie, core, stream,
                   buffer, consumed, metadataRead>>

\* If the deserializer throws, nothing is pushed and jscbForward swallows the
\* exception: the Readable goes on waiting.
RowThrows ==
    /\ Idle /\ rowCookie = "row" /\ sent \in BadRows
    /\ rowCookie' = "done"
    /\ UNCHANGED <<js, executor, promise, native, queryCookie, core, readable,
                   metadataRead>>

\* _read's callback without a row: push(null), then streamingComplete(), which
\* overwrites a cancellation.
RowEnd ==
    /\ Idle /\ rowCookie = "end"
    /\ rowCookie' = "done"
    /\ ended' = PushEnd
    /\ reading' = FALSE
    /\ streamingState' = "Complete"
    /\ UNCHANGED <<js, aborted, coreQueryResult, promise, native, queryCookie, core,
                   stream, buffer, consumed, metadataRead>>

\* _read's callback with an error.
RowError ==
    /\ Idle /\ rowCookie = "error"
    /\ rowCookie' = "done"
    /\ stream' = DestroyWithError
    /\ UNCHANGED <<js, executor, promise, native, queryCookie, core, reading, ended,
                   buffer, consumed, metadataRead>>

\* The JavaScript thread runs the callback of next_row.
RowCallback == RowArrives \/ RowIsNull \/ RowThrows \/ RowEnd \/ RowError

\* The application takes a row: a 'data' event, or a step of for await.
Consume ==
    /\ Idle /\ stream = "open" /\ buffer # <<>>
    /\ buffer' = Tail(buffer)
    /\ consumed' = Append(consumed, Head(buffer))
    /\ UNCHANGED <<js, executor, promise, native, queryCookie, rowCookie, core,
                   stream, reading, ended, metadataRead>>

\* Readable emits 'end' once the end was pushed and the buffer is drained.
EmitEnd ==
    /\ Idle /\ stream = "open" /\ ended /\ buffer = <<>>
    /\ stream' = "finished"
    /\ UNCHANGED <<js, executor, promise, native, queryCookie, rowCookie, core,
                   reading, ended, buffer, consumed, metadataRead>>

\* The application leaves a for await loop early, or calls destroy(): _destroy
\* tells nobody, so neither the executor nor the core learns of it.
Destroy ==
    /\ Idle /\ stream = "open"
    /\ stream' = "destroyed"
    /\ UNCHANGED <<js, executor, promise, native, queryCookie, rowCookie, core,
                   reading, ended, buffer, consumed, metadataRead>>

\* The application calls metadata(). Before the core has seen the end of the
\* rows metadata() throws and changes nothing: that case is a stuttering step.
Metadata ==
    /\ Idle /\ promise = "resolved" /\ result
    /\ rowsEnded
    /\ metadataRead' = TRUE
    /\ UNCHANGED <<js, executor, promise, native, queryCookie, rowCookie, core, readable>>

\* jsMetadata dereferences result_ unconditionally, too.
MetadataWithoutResult ==
    /\ Idle /\ promise = "resolved" /\ ~result
    /\ js' = "crashedInMetadata"
    /\ UNCHANGED <<executor, promise, native, queryCookie, rowCookie, core, readable,
                   metadataRead>>

-----------------------------------------------------------------------------
(* The core, on the io thread *)

\* The core answers the query. It reports a cancellation only when asked for
\* one, and may still answer otherwise when it was.
CoreComplete ==
    /\ Alive /\ queryCookie = "armed"
    /\ \/ queryCookie' \in {"ok", "error"}
       \/ opCancelled /\ queryCookie' = "canceled"
    /\ UNCHANGED <<js, executor, promise, native, rowCookie, core, readable,
                   metadataRead>>

\* The core answers a request for a row: the next row, the end, or an error
\* (a timeout, a lost connection, a cancellation).
CoreSendsRow ==
    /\ Alive /\ rowCookie = "armed" /\ sent < NumRows
    /\ sent' = sent + 1
    /\ rowCookie' = "row"
    /\ UNCHANGED <<js, executor, promise, native, queryCookie, opCancelled,
                   rowsCancelled, rowsEnded, readable, metadataRead>>

CoreSendsEnd ==
    /\ Alive /\ rowCookie = "armed" /\ sent = NumRows
    /\ rowsEnded' = TRUE
    /\ rowCookie' = "end"
    /\ UNCHANGED <<js, executor, promise, native, queryCookie, opCancelled,
                   rowsCancelled, sent, readable, metadataRead>>

CoreSendsError ==
    /\ Alive /\ rowCookie = "armed"
    /\ rowCookie' = "error"
    /\ UNCHANGED <<js, executor, promise, native, queryCookie, core, readable,
                   metadataRead>>

CoreRow == CoreSendsRow \/ CoreSendsEnd \/ CoreSendsError

-----------------------------------------------------------------------------
Next ==
    \/ ExecuteQuery \/ ExecuteQueryRefused \/ ExecuteQueryInvalid
    \/ ReturnFromQuery \/ QueryCallback
    \/ Abort
    \/ StreamRead \/ RowArrives \/ RowIsNull \/ RowThrows \/ RowEnd \/ RowError
    \/ Consume \/ EmitEnd \/ Destroy
    \/ Metadata \/ MetadataWithoutResult
    \/ CoreComplete \/ CoreSendsRow \/ CoreSendsEnd \/ CoreSendsError

Spec == Init /\ [][Next]_vars

\* The event loop runs every callback that is queued; the core answers every
\* request (each has a timeout); the application iterates the rows. Nothing
\* obliges it to issue the query, to abort it, to leave it or to ask for metadata.
Fairness ==
    /\ WF_vars(ReturnFromQuery) /\ WF_vars(QueryCallback)
    /\ WF_vars(StreamRead) /\ WF_vars(RowCallback)
    /\ WF_vars(Consume) /\ WF_vars(EmitEnd)
    /\ WF_vars(CoreComplete) /\ WF_vars(CoreRow)

FairSpec == Spec /\ Fairness
-----------------------------------------------------------------------------
(* Properties *)

TypeOK ==
    /\ js \in {"idle", "inQuery", "crashedInNextRow", "crashedInMetadata"}
    /\ streamingState \in StreamingState
    /\ promise \in {"none", "pending", "resolved", "rejected"}
    /\ queryCookie \in QueryAnswer \cup {"none", "armed", "done", "dropped"}
    /\ rowCookie \in RowAnswer \cup {"none", "armed", "done"}
    /\ stream \in {"none", "open", "finished", "failed", "aborted", "destroyed"}
    /\ sent \in 0..NumRows
    /\ buffer \in Seq(1..NumRows) /\ consumed \in Seq(1..NumRows)
    /\ aborted \in BOOLEAN /\ coreQueryResult \in BOOLEAN
    /\ pendingOp \in BOOLEAN /\ result \in BOOLEAN
    /\ opCancelled \in BOOLEAN /\ rowsCancelled \in BOOLEAN /\ rowsEnded \in BOOLEAN
    /\ reading \in BOOLEAN /\ ended \in BOOLEAN /\ metadataRead \in BOOLEAN

\* jsNextRow never dereferences a missing result_: every path that resolves
\* the promise without a result (a cancellation) leaves the stream destroyed,
\* whatever the order of abort, answer and callback.
NextRowHasResult == js # "crashedInNextRow"

\* The application sees the server's rows in order, none twice, none skipped,
\* and what is buffered continues what it has taken.
RowsInOrder ==
    /\ \A i \in 1..Len(consumed) : consumed[i] = i
    /\ \A i \in 1..Len(buffer) : buffer[i] = Len(consumed) + i

\* 'end' is emitted only when every row was delivered, or all those before a row
\* that was null: neither an error, a cancellation, a row that could not be
\* deserialized nor a full buffer makes a truncated result look complete.
FinishedMeansComplete ==
    stream = "finished" =>
        \/ Len(consumed) = NumRows
        \/ sent \in NullRows /\ Len(consumed) + 1 = sent

\* The rows of a result are the rows of the query, says its documentation
\* (lib/querytypes.ts:44): a stream that ends has delivered every one.
FinishedHasEveryRow == stream = "finished" => Len(consumed) = NumRows

\* The rows fetched from the core and not yet taken never exceed the mark:
\* a slow application throttles the core, one request at a time.
Backpressure ==
    stream = "open" =>
        sent - Len(consumed) + (IF rowCookie = "armed" THEN 1 ELSE 0) <= HighWaterMark

\* An abort that arrives while a query runs is passed on to the core, by the
\* handle that is valid at that moment, unless all the rows have arrived.
AbortReachesCore ==
    (aborted /\ coreQueryResult) =>
        opCancelled \/ rowsCancelled \/ streamingState = "Complete"

\* Once 'end' has been emitted metadata() can be called, and tells a complete
\* result from one that a null row cut short: it returns if every row was
\* delivered, and throws if not.
MetadataTellsTheEnd ==
    stream = "finished" => result /\ (rowsEnded <=> Len(consumed) = NumRows)

\* The metadata becomes available once all rows have been iterated, and not
\* before, says its documentation (lib/querytypes.ts:60-62).
MetadataOnlyAtEnd == metadataRead /\ stream = "open" => Len(consumed) = NumRows

\* While the core may still answer the query, the executor holds the native
\* object the answer is written to: the raw queryResultPtr of jsQuery cannot
\* be collected before its callback has run.
NativeResultPinned ==
    (Idle /\ queryCookie \in QueryAnswer \cup {"armed"}) => coreQueryResult

\* The Readable waits for a row that its deserializer threw away.
Stuck == reading /\ rowCookie = "done" /\ sent \in BadRows /\ Len(consumed) + 1 = sent

\* A promise and an open stream always have something that will bring them on:
\* an answer the core owes or the event loop holds, a row to take, an end to
\* emit, a row to ask for. As far as the library's own code goes, the one way to
\* wait for nothing is behind a row whose deserializer threw, the exception that
\* jscbForward (src/connection.cpp:43) swallows. (A listener of the application
\* that throws from the same callback is not modelled; an error that
\* errorFromCpp cannot convert is in Addon.)
OnlyABadRowStalls ==
    /\ promise = "pending" => Alive /\ queryCookie \in QueryAnswer \cup {"armed"}
    /\ stream = "open" =>
          /\ Idle
          /\ \/ buffer # <<>>
             \/ ended
             \/ ~reading /\ WantsRow
             \/ rowCookie \in RowAnswer \cup {"armed"}
             \/ Stuck

\* An abort is final: no row is delivered, no row is asked for and 'end' is
\* not emitted after it.
AbortIsFinal ==
    [][aborted => /\ consumed' = consumed
                  /\ rowCookie' = "armed" => rowCookie = "armed"
                  /\ stream' = "finished" => stream = "finished"]_vars

\* The promise of a query the core accepted settles.
PromiseSettles == promise = "pending" ~> promise \in {"resolved", "rejected"}

\* An iterated stream ends, fails or is destroyed: the application does not
\* wait forever.
StreamSettles == stream = "open" ~> stream # "open"

\* ... unless it is stuck, for as long as it is open, behind a row that its
\* deserializer threw away.
StreamSettlesOrStuck ==
    stream = "open" ~> (stream # "open" \/ [](stream = "open" => Stuck))

\* What metadata() does when it is called too early is to throw an Error, says
\* its documentation (lib/querytypes.ts:62).
MetadataNeverCrashes == js # "crashedInMetadata"
-----------------------------------------------------------------------------
(* The contract this component implements *)

Contract == INSTANCE QueryContract WITH rows <- consumed, outcome <- stream

\* The executor, the stream and the native callbacks together implement what
\* executeQuery promises: rows in order, one outcome, 'end' only after the last,
\* or at a null row.
ImplementsSafety == Contract!Safety

\* ... and they implement its progress too, but for rows that do not deserialize.
ImplementsContract == Contract!Spec
=============================================================================
