-------------------------------- MODULE Addon --------------------------------
(***************************************************************************)
(* The native addon in one process that runs several JavaScript            *)
(* environments (the main thread and worker threads). Each environment     *)
(* loads the addon for itself (src/binding.cpp, src/constants.cpp,         *)
(* src/addondata.hpp), sends one query through a Cluster or a Scope        *)
(* (lib/queryexecutor.ts, src/connection.cpp), and reads answers that an   *)
(* io thread of the core hands over (src/connection.hpp,                   *)
(* src/query_result.cpp). The environment may end at any moment; the io    *)
(* thread goes on.                                                         *)
(*                                                                         *)
(* The values of a query, its errors and its metadata are carried through  *)
(* the conversions of Marshalling and ErrorMapping. What the stream does   *)
(* with rows, and when a query is cancelled, is QueryExecution's matter;   *)
(* when an environment's cluster opens and closes, ClusterLifecycle's.     *)
(***************************************************************************)
EXTENDS ErrorMapping, FiniteSets

CONSTANTS
    Env,          \* the JavaScript environments
    Queries,      \* what an environment may pass to executeQuery, per environment
    Failures,     \* how the core may fail an environment's query, per environment
    Metadatas,    \* what the core may know of a query at its end
    Releases,     \* releases of the core: the number of each enumerator
    LogLevels     \* values of CBPPLOGLEVEL, "unset" when there is none

\* The enumerations that Constants::InitAutogen exports, and their enumerators.
Enumerators ==
    [retry_reason |->
        {"do_not_retry", "unknown", "socket_not_available", "service_not_available",
         "node_not_available", "key_value_not_my_vbucket", "key_value_collection_outdated",
         "key_value_error_map_retry_indicated", "key_value_locked",
         "key_value_temporary_failure", "key_value_sync_write_in_progress",
         "key_value_sync_write_re_commit_in_progress", "service_response_code_indicated",
         "socket_closed_while_in_flight", "circuit_breaker_open",
         "query_prepared_statement_failure", "query_index_not_found",
         "analytics_temporary_failure", "search_too_many_requests",
         "views_temporary_failure", "views_no_active_partition"},
     columnar_query_scan_consistency |-> {"not_bounded", "request_plus"},
     columnar_errc |-> ErrorName,
     columnar_client_errc |-> {"canceled", "invalid_argument", "cluster_closed"}]

Enumeration == DOMAIN Enumerators

ASSUME ReleasesAssumption ==
    /\ \A r \in Releases : \A n \in Enumeration : r[n] \in [Enumerators[n] -> Int]
    /\ \A r \in Releases : \A n \in ErrorName : r["columnar_errc"][n] # 0

\* A columnar error has one of the names; what a server sends is a code and a
\* message.
ASSUME FailuresAssumption ==
    \A e \in Env : \A f \in Failures[e] :
        /\ f.category = "columnar_errc" => f.name \in ErrorName
        /\ f.properties # Absent => f.properties = Present(PropertiesToJs(f.properties[1]))

ASSUME MetadatasAssumption ==
    \A m \in Metadatas :
        /\ m.warnings \in Seq([code : Int, message : STRING])
        /\ m.metrics.elapsed_time \in Nat /\ m.metrics.execution_time \in Nat

VARIABLES
    release,    \* the core the addon is built with
    logLevel,   \* CBPPLOGLEVEL now
    logger,     \* the loggers of the core and their level, for the process
    env,        \* how far each environment is
    addonData,  \* its instance data: which environment made its constructors
    query,      \* what its application asked for
    request,    \* the query_options its query gave the core
    call,       \* where its query, or its request for a row, is
    answer,     \* the error of the core's last answer
    object,     \* the environment whose constructor made its native QueryResult
    promise,    \* what executeQuery returned
    stream,     \* its QueryResultStream
    error,      \* what it was rejected or destroyed with
    metadata    \* what metadata() returned, with what the core knew

queryVars == <<query, request, call, answer, object, promise, stream, error, metadata>>
vars == <<release, logLevel, logger, env, addonData, queryVars>>

NoObject == "none"    \* no environment has this name
NoConstructors == [connection |-> NoObject, queryResult |-> NoObject]
NothingThrown == [class |-> "none", message |-> FALSE, server |-> Absent]

Init ==
    /\ release \in Releases
    /\ logLevel \in LogLevels
    /\ logger = [console |-> "none", protocol |-> FALSE, level |-> "off"]
    /\ env = [e \in Env |-> "none"]
    /\ addonData = [e \in Env |-> NoConstructors]
    /\ query = [e \in Env |-> Absent] /\ request = [e \in Env |-> Absent]
    /\ call = [e \in Env |-> "none"]
    /\ answer = [e \in Env |-> NoError]
    /\ object = [e \in Env |-> NoObject]
    /\ promise = [e \in Env |-> "none"] /\ stream = [e \in Env |-> "none"]
    /\ error = [e \in Env |-> NothingThrown]
    /\ metadata = [e \in Env |-> Absent]

-----------------------------------------------------------------------------
(* Loading the addon *)

\* The application sets process.env.CBPPLOGLEVEL; bounded to when it will be read.
SetLogLevel ==
    /\ \E e \in Env : env[e] = "none"
    /\ logLevel' \in LogLevels \ {logLevel}
    /\ UNCHANGED <<release, logger, env, addonData, queryVars>>

\* Bug: the environment's value is passed on as it is.
RawLevel == IF logLevel = "unset" THEN "off" ELSE logLevel

\* A level the addon does not know is off.
Level ==
    IF logLevel \in {"trace", "debug", "info", "warn", "err", "critical"}
    THEN logLevel ELSE "off"

\* Bug: the console logger is made by the first environment only.
ConsoleOfFirst ==
    IF Level # "off" /\ \A e \in Env : env[e] = "none" THEN "open" ELSE logger.console

Console == IF Level # "off" THEN "open" ELSE logger.console

\* Bug: an enumeration with duplicates is exported all the same.
AcceptsDuplicates(numbers) == TRUE

\* cbppEnumToJs: it throws on the second enumerator of a number.
IsExported(numbers) ==
    \A m, n \in DOMAIN numbers : numbers[m] = numbers[n] => m = n

\* Bug: the constructors are static, the last environment's for all of them.
StaticConstructors(e) ==
    [f \in Env |-> IF f = e \/ env[f] = "loaded"
                   THEN [connection |-> e, queryResult |-> e] ELSE addonData[f]]

\* Connection::Init and QueryResult::Init keep them in the instance data.
Constructors(e) == [addonData EXCEPT ![e] = [connection |-> e, queryResult |-> e]]

\* couchnode::Init. The levels and the console logger are set before anything
\* that can throw, and for the whole process.
LoadAddon(e) ==
    /\ env[e] = "none"
    /\ logger' = [logger EXCEPT !.console = Console, !.level = Level]
    /\ IF \A n \in Enumeration : IsExported(release[n])
       THEN /\ env' = [env EXCEPT ![e] = "loaded"]
            /\ addonData' = Constructors(e)
       ELSE /\ env' = [env EXCEPT ![e] = "failed"]
            /\ UNCHANGED addonData
    /\ UNCHANGED <<release, logLevel, queryVars>>

EnableProtocolLogger(e) ==
    /\ env[e] = "loaded"
    /\ logger' = [logger EXCEPT !.protocol = TRUE]
    /\ UNCHANGED <<release, logLevel, env, addonData, queryVars>>

\* Every logger of the process, whichever environment asks for it.
ShutdownLogger(e) ==
    /\ env[e] = "loaded"
    /\ logger' = [logger EXCEPT !.protocol = FALSE,
                                !.console = IF @ = "open" THEN "shut" ELSE @]
    /\ UNCHANGED <<release, logLevel, env, addonData, queryVars>>

-----------------------------------------------------------------------------
(* Sending the query *)

\* JSON.stringify, of the values used here; a function has no JSON text.
Quoted(text) == "\"" \o text \o "\""
Stringify(v) ==
    IF v.js = "string" THEN Text(Quoted(v.text))
    ELSE IF v.js = "null" THEN Text("null")
    ELSE Undefined

\* The values of a query are of the types they say, and no text is, between its
\* quotes, the JSON text of null.
ASSUME QueriesAssumption ==
    \A e \in Env : \A q \in Queries[e] :
        /\ q.priority.js = "boolean" => q.priority.bool \in BOOLEAN
        /\ q.timeout.js = "number" => q.timeout.num \in Int
        /\ q.positionalParameters.js = "array" =>
               LET asked == q.positionalParameters.items IN
               /\ Len(asked) \in Nat
               /\ \A i \in 1..Len(asked) : asked[i].js = "string" => Quoted(asked[i].text) # "null"

\* Bug: a parameter that is undefined is left out, and the others move up.
DefinedParameters(v) ==
    IF IsUnset(v) THEN Array(<<>>)
    ELSE LET Defined == SelectSeq(v.items, LAMBDA w : ~IsUndefined(w)) IN
         Array([i \in 1..Len(Defined) |-> Stringify(Defined[i])])

\* JSON.stringify(v ?? null) keeps the place of every parameter. A hole of the
\* array stays one (map skips it): reading it gives undefined.
PositionalParameters(v) ==
    IF IsUnset(v) THEN Array(<<>>)
    ELSE Array([i \in 1..Len(v.items) |->
                   Stringify(IF IsUnset(v.items[i]) THEN Null ELSE v.items[i])])

\* named_parameters and raw leave out what is undefined.
DefinedProperties(v) ==
    IF IsUnset(v) THEN Object(<<>>)
    ELSE Object([k \in {k \in DOMAIN v.props : ~IsUndefined(v.props[k])} |->
                    Stringify(v.props[k])])

\* queryScanConsistencyToCpp of a value it knows.
ScanConsistency(v) ==
    IF ~ToBool(v) THEN Undefined
    ELSE Number(release["columnar_query_scan_consistency"][v.text])

ScanConsistencyIsValid(v) ==
    ToBool(v) => v \in {Text("not_bounded"), Text("request_plus")}

\* The query_options that js_to_cbpp makes of what query() passes. A Cluster
\* passes no database and no scope.
RequestOf(q) ==
    [database_name |-> ToOptional(q.database, ToText(q.database)),
     scope_name |-> ToOptional(q.scope, ToText(q.scope)),
     priority |-> ToOptional(q.priority, ToBool(q.priority)),
     positional_parameters |-> ToTexts(PositionalParameters(q.positionalParameters)),
     named_parameters |-> ToTextMap(DefinedProperties(q.namedParameters)),
     read_only |-> ToOptional(q.readOnly, ToBool(q.readOnly)),
     scan_consistency |-> ToOptional(ScanConsistency(q.scanConsistency),
                                     ToEnum(ScanConsistency(q.scanConsistency))),
     raw |-> ToTextMap(DefinedProperties(q.raw)),
     timeout |-> ToOptional(q.timeout, ToMilliseconds(q.timeout))]

TimeoutIsNegative(v) ==
    \/ v.js = "number" /\ v.num < 0
    \/ v.js = "infinity" /\ v.sign = "-"

CanQuery(e) == env[e] = "loaded" /\ call[e] = "none" /\ promise[e] = "none"

\* executeQuery throws for a negative timeout, before there is a promise.
ExecuteQueryThrows(e, q) ==
    /\ CanQuery(e) /\ TimeoutIsNegative(q.timeout)
    /\ query' = [query EXCEPT ![e] = Present(q)]
    /\ promise' = [promise EXCEPT ![e] = "thrown"]
    /\ UNCHANGED <<release, logLevel, logger, env, addonData, request, call, answer, object,
                   stream, error, metadata>>

\* queryScanConsistencyToCpp throws inside the promise's executor.
ExecuteQueryInvalid(e, q) ==
    /\ CanQuery(e)
    /\ ~TimeoutIsNegative(q.timeout) /\ ~ScanConsistencyIsValid(q.scanConsistency)
    /\ query' = [query EXCEPT ![e] = Present(q)]
    /\ promise' = [promise EXCEPT ![e] = "rejected"]
    /\ error' = [error EXCEPT ![e] = PlainError]
    /\ UNCHANGED <<release, logLevel, logger, env, addonData, request, call, answer, object,
                   stream, metadata>>

\* The error of a failure, with its number in this release.
ErrorOf(failure) ==
    [category |-> failure.category, name |-> failure.name, properties |-> failure.properties,
     value |-> IF failure.category \in Enumeration
               THEN release[failure.category][failure.name] ELSE failure.number]

\* What errorFromCpp makes of an error of the core.
Thrown(cause) == ErrorFromCpp(ErrorToJs(cause), release["columnar_errc"])

\* The part of query() and jsQuery up to execute_query.
SendQuery(e, q) ==
    /\ CanQuery(e)
    /\ ~TimeoutIsNegative(q.timeout) /\ ScanConsistencyIsValid(q.scanConsistency)
    /\ query' = [query EXCEPT ![e] = Present(q)]
    /\ request' = [request EXCEPT ![e] = Present(RequestOf(q))]
    /\ object' = [object EXCEPT ![e] = addonData[e].queryResult]

ExecuteQuery(e, q) ==
    /\ SendQuery(e, q)
    /\ call' = [call EXCEPT ![e] = "query"]
    /\ promise' = [promise EXCEPT ![e] = "pending"]
    /\ UNCHANGED <<release, logLevel, logger, env, addonData, answer, stream, error, metadata>>

\* The core refuses it: query() throws, and the callback is dropped un-run.
ExecuteQueryRefused(e, q, failure) ==
    /\ SendQuery(e, q)
    /\ call' = [call EXCEPT ![e] = "dropped"]
    /\ answer' = [answer EXCEPT ![e] = ErrorOf(failure)]
    /\ promise' = [promise EXCEPT ![e] = "rejected"]
    /\ error' = [error EXCEPT ![e] = Thrown(ErrorOf(failure))]
    /\ UNCHANGED <<release, logLevel, logger, env, addonData, stream, metadata>>

-----------------------------------------------------------------------------
(* Its answers *)

\* CallCookie::invoke on the io thread: a function queued for the environment,
\* or lost when the environment no longer takes calls.
Invoke(e, stage) ==
    call' = [call EXCEPT ![e] = IF env[e] = "loaded" THEN stage ELSE "lost"]

CoreAnswersQuery(e) ==
    /\ call[e] = "query"
    /\ Invoke(e, "query answered")
    /\ \/ UNCHANGED answer
       \/ \E f \in Failures[e] : answer' = [answer EXCEPT ![e] = ErrorOf(f)]
    /\ UNCHANGED <<release, logLevel, logger, env, addonData, query, request, object, promise,
                   stream, error, metadata>>

\* Bug: the functions still queued when the environment ends are run.
RunsWhenGone(e) == env[e] \in {"loaded", "gone"}

\* jscbForward runs a function unless the environment is gone.
Runs(e) == env[e] = "loaded"

\* Bug: the exception of the callback is left to jscbForward, which drops it.
NoSecondCall(thrown) == NothingThrown

\* When the callback throws, the handler calls it again with the exception.
SecondCall(thrown) == ErrorFromCpp(TypeErrorJs, release["columnar_errc"])

\* What the application gets: a callback that throws a TypeError has not
\* rejected the promise yet.
Delivered(cause) ==
    IF Thrown(cause) = TypeError THEN SecondCall(Thrown(cause)) ELSE Thrown(cause)

IsRejection(thrown) == thrown.class \notin {"none", "OperationCanceledError"}

\* jsQuery's handler without an error, or with one that says it was canceled: the
\* promise resolves. The stream of a canceled query is destroyed by its signal.
QueryResolves(e) ==
    /\ Runs(e) /\ call[e] = "query answered"
    /\ \/ answer[e] = NoError /\ stream' = [stream EXCEPT ![e] = "open"]
       \/ /\ answer[e] # NoError /\ Delivered(answer[e]).class = "OperationCanceledError"
          /\ stream' = [stream EXCEPT ![e] = "aborted"]
    /\ call' = [call EXCEPT ![e] = "open"]
    /\ promise' = [promise EXCEPT ![e] = "resolved"]
    /\ UNCHANGED <<release, logLevel, logger, env, addonData, query, request, answer, object,
                   error, metadata>>

QueryFails(e) ==
    /\ Runs(e) /\ call[e] = "query answered"
    /\ answer[e] # NoError /\ Delivered(answer[e]).class # "OperationCanceledError"
    /\ call' = [call EXCEPT ![e] = "over"]
    /\ promise' = [promise EXCEPT ![e] = IF IsRejection(Delivered(answer[e]))
                                         THEN "rejected" ELSE @]
    /\ error' = [error EXCEPT ![e] = Delivered(answer[e])]
    /\ UNCHANGED <<release, logLevel, logger, env, addonData, query, request, answer, object,
                   stream, metadata>>

\* The stream reads: jsNextRow.
NextRow(e) ==
    /\ env[e] = "loaded" /\ call[e] = "open" /\ stream[e] = "open"
    /\ call' = [call EXCEPT ![e] = "row"]
    /\ UNCHANGED <<release, logLevel, logger, env, addonData, query, request, answer, object,
                   promise, stream, error, metadata>>

CoreAnswersRow(e) ==
    /\ call[e] = "row"
    /\ \/ Invoke(e, "row answered") /\ UNCHANGED answer
       \/ Invoke(e, "end answered") /\ UNCHANGED answer
       \/ /\ Invoke(e, "error answered")
          /\ \E f \in Failures[e] : answer' = [answer EXCEPT ![e] = ErrorOf(f)]
    /\ UNCHANGED <<release, logLevel, logger, env, addonData, query, request, object, promise,
                   stream, error, metadata>>

RowCallback(e) ==
    /\ Runs(e) /\ call[e] \in {"row answered", "end answered"}
    /\ call' = [call EXCEPT ![e] = IF @ = "row answered" THEN "open" ELSE "over"]
    /\ stream' = [stream EXCEPT ![e] = IF call[e] = "row answered" THEN @ ELSE "ended"]
    /\ UNCHANGED <<release, logLevel, logger, env, addonData, query, request, answer, object,
                   promise, error, metadata>>

\* jsNextRow's handler calls the callback outside its try: an exception of
\* errorFromCpp is dropped, and the stream is never told.
RowError(e) ==
    /\ Runs(e) /\ call[e] = "error answered"
    /\ call' = [call EXCEPT ![e] = "over"]
    /\ IF Thrown(answer[e]) = TypeError
       THEN UNCHANGED <<stream, error>>
       ELSE /\ stream' = [stream EXCEPT ![e] = "failed"]
            /\ error' = [error EXCEPT ![e] = Thrown(answer[e])]
    /\ UNCHANGED <<release, logLevel, logger, env, addonData, query, request, answer, object,
                   promise, metadata>>

-----------------------------------------------------------------------------
(* Its metadata *)

\* query_warning, a vector of them, query_metrics, and the query_metadata that has both.
WarningToJs(w) == Object([code |-> Number(w.code), message |-> Text(w.message)])
WarningsToJs(s) == Array([i \in 1..Len(s) |-> WarningToJs(s[i])])
MetricsToJs(m) ==
    [elapsed_time |-> FromNanoseconds(m.elapsed_time),
     execution_time |-> FromNanoseconds(m.execution_time),
     result_count |-> Number(m.result_count), result_size |-> Number(m.result_size),
     processed_objects |-> Number(m.processed_objects)]
MetadataToJs(m) ==
    [request_id |-> Text(m.request_id), warnings |-> WarningsToJs(m.warnings),
     metrics |-> MetricsToJs(m.metrics)]

\* The QueryMetadata that metadata() builds from it.
QueryMetadata(j) ==
    [requestId |-> j.request_id.text,
     warnings |-> [i \in 1..Len(j.warnings.items) |-> j.warnings.items[i].props],
     elapsedTime |-> j.metrics.elapsed_time.num, executionTime |-> j.metrics.execution_time.num,
     resultCount |-> j.metrics.result_count.num, resultSize |-> j.metrics.result_size.num,
     processedObjects |-> j.metrics.processed_objects.num]

\* The core has metadata once it has handed out the end of the rows.
ReadMetadata(e, m) ==
    /\ env[e] = "loaded" /\ stream[e] = "ended" /\ metadata[e] = Absent
    /\ metadata' = [metadata EXCEPT ![e] = Present([core |-> m,
                                                    js |-> QueryMetadata(MetadataToJs(m))])]
    /\ UNCHANGED <<release, logLevel, logger, env, addonData, query, request, call, answer,
                   object, promise, stream, error>>

-----------------------------------------------------------------------------
(* The end of an environment *)

Teardown(e) ==
    /\ env[e] = "loaded"
    /\ env' = [env EXCEPT ![e] = "gone"]
    /\ UNCHANGED <<release, logLevel, logger, addonData, queryVars>>

\* jscbForward without an environment: the function is deleted, not run.
Discard(e) ==
    /\ env[e] = "gone"
    /\ call[e] \in {"query answered", "row answered", "end answered", "error answered"}
    /\ call' = [call EXCEPT ![e] = "discarded"]
    /\ UNCHANGED <<release, logLevel, logger, env, addonData, query, request, answer, object,
                   promise, stream, error, metadata>>

Next ==
    \/ SetLogLevel
    \/ \E e \in Env :
        \/ LoadAddon(e) \/ EnableProtocolLogger(e) \/ ShutdownLogger(e) \/ Teardown(e)
        \/ \E q \in Queries[e] :
            \/ ExecuteQueryThrows(e, q) \/ ExecuteQueryInvalid(e, q) \/ ExecuteQuery(e, q)
            \/ \E f \in Failures[e] : ExecuteQueryRefused(e, q, f)
        \/ CoreAnswersQuery(e) \/ QueryResolves(e) \/ QueryFails(e)
        \/ NextRow(e) \/ CoreAnswersRow(e) \/ RowCallback(e) \/ RowError(e)
        \/ \E m \in Metadatas : ReadMetadata(e, m)
        \/ Discard(e)

Spec == Init /\ [][Next]_vars

-----------------------------------------------------------------------------
(* Properties *)

Stage == {"none", "query", "query answered", "open", "row", "row answered", "end answered",
          "error answered", "over", "dropped", "lost", "discarded"}

TypeOK ==
    /\ release \in Releases
    /\ logger \in [console : {"none", "open", "shut"}, protocol : BOOLEAN,
                   level : {"trace", "debug", "info", "warn", "err", "critical", "off"}]
    /\ env \in [Env -> {"none", "loaded", "failed", "gone"}]
    /\ addonData \in [Env -> [connection : Env \cup {NoObject}, queryResult : Env \cup {NoObject}]]
    /\ object \in [Env -> Env \cup {NoObject}]
    /\ call \in [Env -> Stage]
    /\ promise \in [Env -> {"none", "thrown", "pending", "resolved", "rejected"}]
    /\ stream \in [Env -> {"none", "open", "aborted", "ended", "failed"}]

\* The native QueryResult an environment holds is of the class it registered
\* itself, however many environments loaded the addon in between: an object of
\* another environment could not be passed back to its own methods
\* (src/addondata.hpp, the constructor(env) of src/connection.hpp).
OwnClass == \A e \in Env : object[e] \in {NoObject, e}

\* Once an environment has ended, no answer of the io thread, not even one that
\* was queued before, changes anything an application of it could see
\* (the null check of jscbForward, src/connection.cpp).
DeadEnvironmentUntouched ==
    [][\A e \in Env : env[e] = "gone" =>
           UNCHANGED <<promise[e], stream[e], error[e], metadata[e]>>]_vars

IsCanceled(cause) == cause.category = "columnar_client_errc" /\ cause.name = "canceled"

\* The number of a query error, without the properties that go with it.
LacksProperties(cause) ==
    /\ cause.value = release["columnar_errc"]["query_error"]
    /\ cause.properties = Absent /\ ~IsCanceled(cause)

\* An answer is heard: when the callback of a query has run, its promise is
\* settled even if errorFromCpp threw in it; a stream waits for nothing, except
\* after a query error of a row that came without its properties.
AnswerSettles ==
    \A e \in Env :
        /\ promise[e] = "pending" =>
               \/ call[e] \in {"query", "query answered"}
               \/ env[e] = "gone" /\ call[e] \in {"lost", "discarded"}
        /\ stream[e] = "open" /\ call[e] = "over" => LacksProperties(answer[e])

\* The class lib/errors.ts documents for each error of the columnar core.
Documented(name) ==
    CASE name = "generic"            -> "ColumnarError"
      [] name = "invalid_credential" -> "InvalidCredentialError"
      [] name = "timeout"            -> "TimeoutError"
      [] name = "query_error"        -> "QueryError"

\* Whatever numbers a release gives the enumerators, an error of the columnar core
\* is thrown as the class documented for it, with its message, and with the
\* server's code and message exactly if the server sent them; nothing else becomes
\* a QueryError with an answer of the server; a canceled query does not reject.
ErrorKeepsItsMeaning ==
    \A e \in Env : answer[e] # NoError =>
        /\ (error[e] # NothingThrown /\ answer[e].category = "columnar_errc"
                /\ ~LacksProperties(answer[e]))
               => error[e].class = Documented(answer[e].name) /\ error[e].message
        /\ error[e].class = "QueryError" => error[e].server = answer[e].properties
        /\ IsCanceled(answer[e]) /\ call[e] # "dropped" => promise[e] # "rejected"

\* An option of a query is in the request exactly if it is not undefined.
IsGiven(optional, v) == optional = Absent <=> IsUndefined(v)

\* A name is sent as it was given.
IsNamed(optional, v) ==
    IsGiven(optional, v) /\ (v.js = "string" => optional = Present(v.text))

\* The named parameters a request has are those that were given, each with its
\* own value.
SameParameters(map, v) ==
    /\ DOMAIN map = IF IsUnset(v) THEN {}
                    ELSE {k \in DOMAIN v.props : ~IsUndefined(v.props[k])}
    /\ \A k \in DOMAIN map : v.props[k].js = "string" => map[k] = Quoted(v.props[k].text)

\* What a request says of the positional parameters: each is in its place,
\* whatever is undefined, null or a hole between them.
InTheirPlaces(sent, asked) ==
    /\ Len(sent) = Len(asked)
    /\ \A i \in 1..Len(asked) :
           /\ IsUnset(asked[i]) <=> sent[i] = "null"
           /\ asked[i].js = "string" => sent[i] = Quoted(asked[i].text)

\* A request has every option of the query and no other.
Asks(r, q) ==
    /\ IsNamed(r.database_name, q.database) /\ IsNamed(r.scope_name, q.scope)
    /\ IsGiven(r.priority, q.priority) /\ IsGiven(r.read_only, q.readOnly)
    /\ IsGiven(r.timeout, q.timeout)
    /\ q.priority.js = "boolean" => r.priority = Present(q.priority.bool)
    /\ q.timeout.js = "number" => r.timeout = Present(q.timeout.num) /\ q.timeout.num >= 0
    /\ r.scan_consistency =
           IF q.scanConsistency.js = "string" /\ q.scanConsistency.text # ""
           THEN Present(release["columnar_query_scan_consistency"][q.scanConsistency.text])
           ELSE Absent
    /\ q.positionalParameters.js = "array" =>
           InTheirPlaces(r.positional_parameters, q.positionalParameters.items)
    /\ SameParameters(r.named_parameters, q.namedParameters)
    /\ SameParameters(r.raw, q.raw)

\* The core is asked what the application asked: every option it gave and no
\* other, the database and the scope by their own names, every positional
\* parameter in its place, the named ones that are defined with their own values,
\* and never a negative timeout.
RequestSaysWhatWasAsked ==
    \A e \in Env : request[e] # Absent => Asks(request[e][1], query[e][1])

\* A measured duration in whole milliseconds, never longer than measured.
InMilliseconds(ms, ns) ==
    ms * NanosInMilli <= ns /\ ns < (ms + 1) * NanosInMilli

Says(told, known) ==
    /\ InMilliseconds(told.elapsedTime, known.metrics.elapsed_time)
    /\ InMilliseconds(told.executionTime, known.metrics.execution_time)
    /\ Len(told.warnings) = Len(known.warnings)
    /\ \A i \in 1..Len(known.warnings) :
           /\ told.warnings[i].code.num = known.warnings[i].code
           /\ told.warnings[i].message.text = known.warnings[i].message
    /\ told.resultCount = known.metrics.result_count
    /\ told.resultSize = known.metrics.result_size
    /\ told.processedObjects = known.metrics.processed_objects

\* metadata() says what the core knew: durations in whole milliseconds and never
\* longer than measured, the warnings in the server's order, the exact counts.
MetadataArrives ==
    \A e \in Env : metadata[e] # Absent => Says(metadata[e][1].js, metadata[e][1].core)

\* When a level was asked for, a console logger has been made, even if the first
\* environment that loaded the addon asked for none (src/binding.cpp).
LogsGoSomewhere == logger.level # "off" => logger.console # "none"
=============================================================================
