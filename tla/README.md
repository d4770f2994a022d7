# A TLA+ model of the Columnar Node.js client

The Couchbase Columnar Node.js client is a TypeScript API (`lib/`) over a native
addon (`src/`, C++) that drives the couchbase C++ core on a thread of its own. This
directory holds TLA+ modules that model the parts of it where the order of events
matters and the conversions a value passes between the two languages, TLC configurations
that check them on small instances, and proofs, checked by TLAPS, that the main safety
results hold for every size. Paths below are those of the repository.

## 1. Inventory

| component | state | operations | modelled |
|---|---|---|---|
| Query execution: `lib/queryexecutor.ts`, `src/query_result.cpp` | streaming state, abort signal, native handle, `pending_op_`, `result_` | query, abort, nextRow, cancel, metadata | `QueryExecution` |
| Result stream: `lib/querytypes.ts` | a `Readable`: buffer, reading, ended, destroyed | `_read`, push, end, destroy, iterate | `QueryExecution` |
| Native connection: `src/connection.cpp`, `.hpp` | `_instance`, call cookies | connect, shutdown, query, destructor | `QueryExecution`, `ClusterLifecycle`, `ClusterOptions`, `Addon` |
| Instance: `src/instance.cpp` | io context, io thread, core cluster, agent | constructor, asyncDestroy | `ClusterLifecycle` |
| Cluster: `lib/cluster.ts` | options, native connection | createInstance, executeQuery, close | `ClusterLifecycle`, `ClusterOptions` |
| Connection string: `lib/connspec.ts` | the `lastIndex` of two shared matchers | parse, toString | `ConnectionString` |
| Error mapping: `lib/bindingutilities.ts`, `lib/errors.ts`, `src/jstocbpp_errors.hpp` | none | to_js of an error, errorFromCpp | `ErrorMapping`, used by `Addon` |
| Marshalling: `src/jstocbpp_*.hpp` | none | js_to_cbpp, cbpp_to_js | `Marshalling`, used by `ErrorMapping`, `Addon`, `ClusterOptions` |
| Binding, constants, logging: `src/binding.cpp`, `src/constants.cpp`, `src/addondata.hpp` | instance data of each environment, loggers of the process, exported enumerations | load, enableProtocolLogger, shutdownLogger | `Addon` |
| Database, Scope: `lib/database.ts`, `lib/scope.ts` | immutable names | executeQuery | `Addon` (the request) |
| Credentials, certificates | immutable; files | constructors | the credential, in `ClusterOptions` |
| Deserializers, helpers | none | deserialize, PromiseHelper.wrap | as far as `QueryExecution` and `ClusterLifecycle` need them |
| Prebuild scripts: `scripts/`; generators: `tools/` | files on disk | install, resolve, build, generate | no |

How they interact. `Cluster.executeQuery` makes a `QueryExecutor`, which calls the
native `query` with a callback. The C++ side wraps the callback in a `CallCookie` (a
thread-safe function), hands it to the core's agent, and returns a native
`QueryResult` at once. The io thread invokes the cookie with the answer; the event
loop runs the callback later, which stores the core's result in the native object
and settles the promise with a `QueryResult` whose `Readable` asks for one row at a
time through further cookies. The `Cluster` owns the native `Connection`, which owns
the `Instance` with the io thread; collecting the `Connection` closes the core's
cluster and starts a thread that joins the io thread and deletes the `Instance`.

What is hard:

- two threads and a queue between them: the core's answer, an abort and the
  callbacks meet in any order, also while `jsQuery` is still on the stack;
- the native object has two handles for cancelling (the pending operation, then the
  result), and null checks in one of its three methods only;
- the stream reads ahead, so the core's end and the application's end differ;
- exceptions thrown in callbacks of the core are swallowed (`jscbForward`);
- close handlers that run on the io thread or on the JavaScript thread, depending on
  whether somebody closed before, and a destructor that may race with `close()`;
- a row that is the JSON null: pushed into a `Readable`, it is the end of the stream;
- options that can be set in two places and pass through three renamings;
- environments (worker threads) that share a process, its loggers and the core's
  threads, and may end while an answer to them is queued;
- an error, an option or a duration that passes three conversions, each with its own
  idea of what is absent, how wide an integer is and what a number means.

What makes each component correct: a query settles, its rows come in order and
without gaps, at the application's pace, and end once, with 'end' only after the last
(which holds as long as no row deserializes to null);
an abort reaches the core and is final; no native call uses what is not there. Every
close settles, nothing uses a freed `Instance`, and a collected one is freed. Each
option reaches the core under the name it is documented with and with its value, the
connection string wins, and the trust in force is the one asked for, never two. A query's options, errors and
metadata mean the same on both sides of the addon, and environments do not disturb each
other.

The hazards behind these, each at its line, are the `hazards` of `PROJECT.json`.

## 2. Modules

`QueryExecution` (core) — one query from `executeQuery` to the end of its stream.
Variables follow the code's fields (`streamingState`, `coreQueryResult`, `pendingOp`,
`result`, `reading`, `ended`, `buffer`); a `CallCookie` is its answer (`armed` while
the core owes one, then the answer, then `done`). JavaScript is one thread: its actions
(`ExecuteQuery…`, `ReturnFromQuery`, `QueryCallback`, `Abort`, `StreamRead`,
`RowArrives`/`RowIsNull`/`RowThrows`/`RowEnd`/`RowError`, `Consume`, `EmitEnd`, `Destroy`,
`Metadata…`) need `Idle`; the core's (`CoreComplete`, `CoreSends…`) do not, so an answer
may also come between the core's acceptance of a query and the moment `jsQuery`'s
result is stored. A crash of the process (a null dereference in the addon) is a value
of `js`. `Readable` is external and modelled by what the code relies on: one `_read` at
a time, none at or above the high-water mark, none after it was destroyed; a push to a
destroyed stream is dropped; a signal that is aborted destroys it, in its constructor
too. Row contents are their numbers, and what a row may deserialize to is given by two
sets: a row of `BadRows` may throw (`RowThrows`), one of `NullRows` may be null
(`RowIsNull`). `_read` pushes what it gets, so a null row is `push(null)`, the end of the
stream: no further row is asked for, the executor is not told that streaming is complete,
and the core, which has not handed out its own end, has no metadata. Both sets say "may",
because the choice is the deserializer's, which the application can supply.

`QueryContract` — what `executeQuery` promises: a promise that settles once; rows in
order; an outcome, with `finished` only after all rows; and that it comes to an end. Two
of its constants qualify it: a row of `NullRows` may be taken for the end, and one of
`BadRows` may never come. With both empty it is the whole promise.
`QueryExecution` implements it with `rows <- consumed`, `outcome <- stream`
(`promise` is shared). Its actions that the contract does not see stutter.

`ClusterLifecycle` — one `Cluster` from its constructor to the deletion of its
`Instance`, with a set of queries and a set of calls of `close()`. Three threads: the
JavaScript thread (`js`, with `connecting` while `jsConnect` blocks in `f.get()`), the io
thread (`io`) and the one `asyncDestroy` starts (`destroyer`). The core's `close` is
external: it posts its handler the first time and runs it on the caller's thread the
other times, which is why `asyncDestroy` needs a thread of its own and why
superfluous closes still call back. A query is here only a callback that is pinned,
answered and run.

`ClusterOptions` — the way of the options of `createInstance` through the constructor,
`_validateTimeoutOptions`, `_connect` and `jsConnect`. A value is modelled by where it
came from (the option's name, `connstr` or `default`), which is all that precedence and
naming can get wrong; a duration is valid or `garbage`. The DNS timeout of the connection
string may also be repeated: it is then an array, which `_connect` (looking for a string)
leaves where it is. A trust may be empty (`trustOnlyCertificates: []`, or
`security.trust_only_pem_file=` in the connection string): `_connect` looks whether the
option is there, `jsConnect` and the core whether there is something in it. The nameserver, the port and the
credential are values, carried through the conversions of `Marshalling`: `jsConnect`
writes the core's defaults into the JavaScript object and reads them back. `ClusterOptionsMC`
gives the inputs.

`ConnectionString` — a sequence of calls of `ConnSpec.parse` and `toString`, one action
per turn of the option loop, because the matcher that loop uses is a constant of the
module and remembers `lastIndex` from one exec to the next. Options are sequences of
tokens: names, the characters that separate, and the same characters escaped. An option
named like a property that every object inherits (`toString`) throws inside the loop:
`optKey in spec.options` is true and what it finds has no `push`. The matcher then stays
where it was, and the next string loses what lies before; `ParseIsComplete` therefore
speaks of parses that find the matcher at the start. What precedes the options is a record of
what `partsMatcher` and `hostMatcher` find: a scheme, whether there is a host part
(`hostPart`; without it `parse` throws), and the hosts in it, which may be none when it
holds only separators. `Meaning` says what a string's options mean without the loop; it
is what `ParseIsComplete` compares with. `ParseWritten` stands for the reader of what
`_connect` writes: that is the core's own parser, external, taken to read as `parse` does.
`_connect` itself does not parse again. `ConnectionStringMC` gives the strings.

`Marshalling` — the templates `js_to_cbpp` and `cbpp_to_js` as operators, one for each C++
type in the direction the library uses: what is absent and what is converted (`null` is a
value of an optional, and no value of a vector), how wide an integer is, where a
duration is cut off. A JavaScript value is a record tagged with its type; the two infinities
and NaN are values of their own, since they differ in truth and in spelling.

`ErrorMapping` — an error of the core (category, number, name, the server's properties)
through `js_to_cbpp_t<columnar::error>` and `errorFromCpp` to the class an application
sees. The switch is modelled as it is: over the numbers the addon exports, whatever the
category, with the literal 6 last; the TypeError that `errorFromCpp` throws for a query
error without properties is one of its results.

`Addon` — one process with a set of JavaScript environments. Each loads the addon (the log
level and the loggers of the process first, then the enumerations, which may throw on
duplicates, then the constructors in its instance data), sends one query, reads answers
and metadata, and may end at any moment; the io thread goes on and queues answers nobody
takes (`lost`, `discarded`). `RequestOf` is `js_to_cbpp` of what `query()` passes;
`Delivered` includes the second call of a callback that threw. The numbers of the core's
enumerators are a constant (`Releases`), because they are the core's. What the stream
does with rows is left to `QueryExecution`, opening and closing to `ClusterLifecycle`:
here a stream is open, aborted, ended or failed. (An error of a row that `errorFromCpp`
cannot convert is here, and not in `QueryExecution`, where an error always arrives.) `AddonMC` gives queries, failures,
metadata and releases.

`QueryExecutionProofs`, `ClusterLifecycleProofs`, `ClusterOptionsProofs`,
`ConnectionStringProofs`, `RoundTripProofs`, `AddonProofs` — the theorems.
`InductionLemmas` — induction, recursive functions and two operators on sequences, for
the proofs about connection strings.

Definitions marked "Bug" in a comment are faulty variants of the definition below
them. They are used by no specification; substituting one of them must break the
property it is paired with in `PROJECT.json` ("mutants").

## 3. Runs

| run | instance | shows |
|---|---|---|
| `query` | 5 rows, high-water mark 3; row 4 may throw, rows 2 and 5 may be null | all safety, abort finality and settlement; 'end' only after all rows or at a null one, and `metadata()` tells which; a stream waits for nothing only behind a row that threw; `QueryContract` is implemented with its progress |
| `lifecycle` | 2 queries, 3 closes | no use after free, no self-join; whoever waits has a thread that will serve it; closes, accepted queries and destruction finish |
| `options` | every combination of timeouts in both places; of trust, pem file (also empty), DNS timeout (also repeated) and parser verdict; of nameserver, nine ports around the limits of 16 bits, credential | naming, precedence, the trust asked for, no garbage, values unchanged, every option but `managementTimeout` forwarded |
| `connection_string` | every sequence of up to 3 of 7 option tokens, some long ones; any number of parses | a spec survives writing and parsing; no option or value is lost; a parse that returns resets the matcher |
| `addon` | two environments, seven queries, ten failures, three releases (one renumbered, one with a duplicate), two log levels | options, errors and metadata keep their meaning; own classes; every answer heard; ended environments untouched |
| `query_null_row` | 3 rows, mark 2, row 2 may be null | 'end' on a truncated result |
| `query_metadata_early` | 3 rows, mark 2 | `metadata()` returns with rows left to iterate |
| `query_metadata_crash` | 3 rows, mark 2 | `metadata()` of a query cancelled before its answer dereferences null |
| `query_pre_aborted` | signal aborted before the query | the core is never told |
| `query_stall` | row 2 does not deserialize | the stream never ends |
| `lifecycle_late_query` | 1 query, 1 close | a query after `close()` hangs (a skipped test asks for an error) |
| `lifecycle_unconnected` | same | the destructor uses an uninitialised `_instance` when `createInstance` throws early |

Bounds. Five rows with a mark of three let the buffer fill, stall, drain and refill
before the end; the bad row lies beyond the first buffer's worth, one null row within it and
one at the end, where the result is all but complete. The signal is not aborted beforehand
in `query`, since `AbortReachesCore` does not hold otherwise (`query_pre_aborted`); the
proofs of all the other safety properties cover that case, `OnlyABadRowStalls` among them,
and every other number and set. Two queries and three closes give a query on each side of a close,
a first close and two superfluous ones, which is as many as the test of `close()`
distinguishes; no action relates more than one query or close with another. The options
are enumerated completely in two slices: timeouts do not interact with trust in the
code. `zero` stands for every falsy value, and one negative is enough, since the
constructor throws at the first. (`disableServerCertificateVerification` is ignored when
the connection string names a pem file: `SecurityOptions` models that.) Three
tokens are enough for a pair and its separator in every order; the long strings add
repeated keys, `srv` beside its translation and separators in keys and values.

Two environments are a
main thread that tries every query and failure and a worker that disturbs it: the
properties relate at most two of them, and the proofs cover any number. The releases are
the numbers of today, a permutation in which a columnar error has the number 6 that
`errorFromCpp` reserves, and one in which two codes share a number, which must not load.
Ports are taken at 0, 53, both sides of 2^15 and 2^16, and negative; durations on both sides
of a whole millisecond.

Deadlock is not checked: a query that has ended, a cluster that was freed and options
that were used have nothing left to do.

Fairness. The event loop runs every queued callback (libuv), so the JavaScript
callbacks are weakly fair, and so is `_read`, which `Readable` schedules by itself. The
core answers every query and every request for a row: each has a timeout there. (`Addon`
states no fairness: its environments may end at any moment.) The
application is taken to iterate the rows (`Consume`), otherwise no stream ends. The io
thread, the destroyer and the open that `jsConnect` waits for make progress. Nothing is
assumed of the garbage collector, nor of whether the application queries, aborts,
closes or drops anything; and nothing of answers to queries issued after a close.

Assumptions about the core, which is not part of the repository (its submodule):
it answers each handler once; it reports `canceled` only for a query it was told to
cancel (`lib/errors.ts:77-79` says so); a second `close` calls its handler at once.
`NextRowHasResult` depends on the second one: a core that cancels queries on its own
would have the stream call `nextRow` without a result. In `Addon` a canceled query has
been canceled by its signal, and the message of a client error's category is its name, as
`errorFromCpp` relies on.

Where the code and its documentation part. Seven runs expect a violation of what the
repository says (see `findings`). Four more disagreements have no run of their own:

- `managementTimeout` is validated, kept, documented like the other timeouts
  (`lib/cluster.ts:49-52`) and never forwarded: `OptionsReachCore` says so of it, and of the
  other five that they arrive.
- An empty trust opens a cluster with no trust option in force: the core is told "not
  Capella" and nothing else (`lib/cluster.ts:458` and `503`, `src/connection.cpp:149`).
  `OneTrust` says when.
- A DNS timeout that is repeated in the connection string yields to one of the DNS options,
  although the code means to set a timeout only "if the timeout value is not already in the
  connstr" (`lib/cluster.ts:400`). `ConnectionStringWins` says so of this one.
- A client error other than `canceled` is read as the columnar error of the same number
  (`cluster_closed` as a timeout; the TODO at `lib/bindingutilities.ts:53`), which is why
  `ErrorKeepsItsMeaning` speaks of the columnar category.

## 4. Proofs

Every invariant and every action property of the passing runs is proved, for all values
of the constants; what is left to TLC is liveness. The recurring question of liveness,
whether somebody could wait for something that nobody will do, is a safety property here
and proved as well (`OnlyABadRowStalls`, `NobodyWaitsInVain`, `AnswerSettles`,
`EveryParseEnds`): what remains of the liveness properties is that fair threads run.

`QueryExecutionProofs` proves, for every number of rows, mark, and sets of bad and of null
rows: type correctness, `NextRowHasResult`, `RowsInOrder`, `FinishedMeansComplete`,
`Backpressure`, `MetadataTellsTheEnd`, `NativeResultPinned`, the action property
`AbortIsFinal`, `AbortReachesCore` (when the signal is not aborted beforehand: the
run `query_pre_aborted` shows that the hypothesis is needed), and that every behaviour
implements the safety of `QueryContract`. `FinishedIsWhole` proves what `rows()` promises,
`FinishedHasEveryRow`, from the hypothesis `NullRows = {}`, which `query_null_row` shows to be
needed. None of these is inductive. The invariant
`IInv` has five parts: `TypeOK`; the phases of the query (what the cookie, the native
handles and the promise may be together); the phases of the stream (there is a stream
only after the promise resolved, an open one only with a result, a waiting reader
only with a cookie under way); the accounting of rows (an open stream's rows are either
taken, buffered or in the cookie, unless the reader is stuck behind a bad one, or the
stream was ended by a null one, `EndedByNull`, and every row before it is there); and
`RowsInOrder`. It is preserved action by action; the contract's steps are then read off
the actions. `OnlyABadRowStalls` needs one more fact
(`Waiting`): a `Readable` that waits has a request under way, or the row of its last one
threw. As far as the library's own code goes, the row of `query_stall` is thus one of two
ways in which a stream can hang. The other, a query error that comes without its
properties, is in `Addon`: `RowError` leaves the stream open, as
`src/query_result.cpp:96` does, and `AnswerSettles` excepts exactly that case, so it says
that there is no third, not that this one cannot happen. (A 'data' listener of the
application that throws is swallowed by the same callback, and is not modelled.)

`ClusterLifecycleProofs` proves `TypeOK` (with it that only a thread of its own joins
the io thread) and `FreedIsUnused` for any sets of queries and closes, from an invariant
that says who may still reach the `Instance` in each phase of its destruction. It proves
`NobodyWaitsInVain` and `CallsBackOnce` (the callback of each `close()` is queued once and
run once) from a second one, `Waiting`: the handler posted in the io context is the one
that is waited for, and the io thread cannot have left before it has run it.

`ClusterOptionsProofs` proves `TypeOK`, `TimeoutsAreNotMixed`, `ConnectionStringWins`,
`BadDnsRefused`, `OneTrust`, `DnsArrives` and `OptionsReachCore` for any set of calls, names
and ports, empty trusts and repeated timeouts included. The invariant says what each step
has established, as a function of the call (`Constructed`, `Connecting`, `CoreIsGiven`);
that one trust is left when there are not too many is a fact about cardinalities, that a
port survives two conversions one about remainders.

`AddonProofs` proves, for any environments, queries, failures, metadata, releases and log
levels: `TypeOK`, `OwnClass`, `AnswerSettles`, `ErrorKeepsItsMeaning`, `MetadataArrives`,
`LogsGoSomewhere`, `RequestSaysWhatWasAsked` and the action property
`DeadEnvironmentUntouched`. The invariant `IInv`
says of each environment which classes it has (`Classes`), what the stage of its call
means for its promise, stream and error (`Phase`), and that what it was told is what its
last answer means (`Meaning`). `AnswerSettles` and `ErrorKeepsItsMeaning` are not inductive
without `Phase`: a promise is only known to be settled when the stage says that its
callback has run. There is one lemma for each action, and `OneEnvironment` reduces it to the
environment that acts. What `errorFromCpp` returns is settled by lemmas on the operators
alone (`ColumnarMeaning` rests on the check for duplicates), and so is what a request says
(`RequestAsks`: the checks of `query()` and each conversion, for arbitrary JavaScript
values; the invariant `AskedInv` only carries it to the end of the query). It compares names
and values: the database with the scope, each parameter with its place or its name. A hole in
the positional parameters and a function arrive as an empty text, in their place.

`ConnectionStringProofs` proves, for any strings parsed in any order: `TypeOK`;
`MatcherIsReset`; that every parse ends (`ParseMovesOn`: no match is empty, wherever an
earlier exception left the matcher); and `ParseIsComplete`. For the last, the invariant
says that what the matcher has still to find are the pairs of the string from `lastIndex`
on, and what is in `spec.options` are the pairs before them, grouped (`ReadSoFar`); one turn
of the loop moves one pair over. The type invariant needs to say that options are finitely
many (`IsOptions`), or `toString` could not list them.

`RoundTripProofs` proves `RoundTrip` for all options, hosts and buckets. On operators
alone, `WrittenOptionsAreMeant`: `Meaning(Joined(Listed(options))) = options`, whatever
order the keys come in. The pairs of one key stand together in the list
(`ListedAreGrouped`); an escaped text holds no separator, so where a written pair begins
the matcher finds that pair and goes on to the next one (`JoinedAreRead`); and unescaping
undoes escaping (`EscapeIsUndone`). The invariant `WriteInv` then says of a string that was
written what it was written from, that it was under the core's names already (so nothing is
translated twice), and that the matcher was at its start: it may be elsewhere only after an
exception, and a spec made since then has no options, so that nothing is matched.

`InductionLemmas` is what these two rest on. The library's induction theorems take an
operator as a parameter and the provers cannot use them; but that finite sets are well
founded under inclusion is a fact about sets, and gives the least element of a set of
naturals (`LeastNatural`), induction over a set (`Induction`, `InductionUp`,
`InductionDown`) and that a recursive function is what its equation says (`Recursion`,
`RecursionIsUnique`). From these it proves what `FlattenSeq` and `SetToSeq` of the
community modules return (`FlattenSeqPositions`: where each element of each part ends up).

The theorems assume what the modules assume of their constants (`ConstantsAssumption`,
`HandlersAssumption`, `InputsAssumption`, `ReleasesAssumption`, `FailuresAssumption`,
`MetadatasAssumption`, `QueriesAssumption`), which TLC evaluates in every run. They say
which type a value has, and a little more: that no close is called "none" or "destroy",
that special characters, escapes and names are different tokens, that no release gives an
error of the columnar core the number 0 (success), and that a quoted text is not the text
`null`.

Only model-checked: liveness (fairness and ENABLED are beyond the prover), with it the
progress of `QueryContract` (`ImplementsContract`). The only RECURSIVE operator is in
`AddonMC`, which nothing is proved about.

## 5. Not modelled

- Contents of rows, wording of errors, the text of logs; TLS, DNS and HTTP (in the core).
- `openBucket`, `executeOp` and the templates only they reach (the analytics and http
  error contexts, sets, arrays, variants, maps of enumerations, byte vectors, floating
  point numbers, durations other than those above, the opposite directions of query options
  and metadata, `security_options`, `timeout_config`): nothing in `lib/` runs them.
- Numbers beyond what a double holds exactly, and the saturation of Int64Value.
- That `disableServerCertificateVerification` is ignored beside a pem file of the connection
  string (`lib/cluster.ts:457`) is modelled; no document says what should happen.
- `prebuilds.js`, `install.js` and the other scripts: sequential functions of the file
  system that run when the package is installed or required; the generators in `tools/`:
  text to text.
- Several clusters in one environment: they share nothing but the addon's constructors.

## 6. Left to do

1. `ClusterQueries`: several `QueryExecution`s on one `ClusterLifecycle`, with a core that
   cancels on close.
2. `ConnectionString` composed with `ClusterOptions` (repeated options, `srv`).
3. Proofs: that what `ConnectionString` writes is what `ClusterOptions` reads, once the two
   are composed.
