-------------------------- MODULE ClusterLifecycle --------------------------
(***************************************************************************)
(* The life of a Cluster: the JavaScript Cluster, its native Connection    *)
(* (src/connection.cpp), the Instance with its io thread that Connection   *)
(* owns (src/instance.cpp), and the three threads that meet there:         *)
(*   - the JavaScript thread, which connects, queries, closes, runs the    *)
(*     callbacks of all these, and finalizes collected objects;            *)
(*   - the io thread, which runs _io.run() until it is out of work;        *)
(*   - the thread asyncDestroy starts, which joins the io thread and       *)
(*     deletes the Instance.                                               *)
(* The core's cluster is external. Its close(handler) posts to the io      *)
(* context the first time, and calls the handler at once, on the caller's  *)
(* thread, every other time.                                               *)
(***************************************************************************)
CONSTANTS
    Queries,   \* the calls of executeQuery
    Closes     \* the calls of Cluster.close

ASSUME HandlersAssumption == {"none", "destroy"} \cap Closes = {}

VARIABLES
    js,           \* the JavaScript thread: "idle", or "connecting" (f.get())
    appHolds,     \* the application can still reach the Cluster
    connection,   \* the native Connection
    instance,     \* what Connection._instance points to
    stopped,      \* the core's cluster was told to close
    posted,       \* the close handler waiting in the io context
    work,         \* the core keeps the io context busy
    io,           \* the io thread
    destroyer,    \* the thread that joins the io thread
    query,        \* per call of executeQuery, where it is
    closes        \* per call of close, where it is

jsState == <<js, appHolds>>
core == <<stopped, posted, work>>
vars == <<jsState, connection, instance, core, io, destroyer, query, closes>>

Handler == Closes \cup {"none", "destroy"}

\* A query pins its Connection from the moment the core has its callback until
\* the callback has run: callback -> executor -> Cluster -> Connection. A
\* refused one pins it forever: its thread-safe function is never released.
Pinning == {"running", "late", "answered", "refused"}

Init ==
    /\ js = "idle" /\ appHolds = FALSE
    /\ connection = "none"
    /\ instance = "uninitialised"
    /\ stopped = FALSE /\ posted = "none" /\ work = FALSE
    /\ io = "none" /\ destroyer = "none"
    /\ query = [q \in Queries |-> "none"]
    /\ closes = [c \in Closes |-> "none"]

Idle == js = "idle" /\ instance # "corrupt"

-----------------------------------------------------------------------------
(* Connecting *)

\* new binding.Connection(), in the constructor of Cluster.
Construct ==
    /\ Idle /\ connection = "none"
    /\ connection' = "unconnected"
    /\ appHolds' = TRUE
    /\ UNCHANGED <<js, instance, core, io, destroyer, query, closes>>

\* _connect throws before jsConnect reaches `new Instance` (two trust options,
\* an invalid connection string or option): createInstance throws, and the
\* application is left without the Cluster.
ConnectRefused ==
    /\ Idle /\ connection = "unconnected" /\ appHolds
    /\ appHolds' = FALSE
    /\ UNCHANGED <<js, connection, instance, core, io, destroyer, query, closes>>

\* Bug: the io thread is started before the core's cluster gives it work.
ThreadBeforeWork ==
    /\ instance' = "live"
    /\ work' = FALSE
    /\ io' = "running"

\* `new Instance` starts the io thread, which the core's cluster keeps busy.
NewInstance ==
    /\ instance' = "live"
    /\ work' = TRUE
    /\ io' = "running"

\* jsConnect throws after it: the DNS timeout cannot be parsed.
ConnectInvalidDns ==
    /\ Idle /\ connection = "unconnected" /\ appHolds
    /\ NewInstance
    /\ appHolds' = FALSE
    /\ UNCHANGED <<js, connection, stopped, posted, destroyer, query, closes>>

\* jsConnect opens the cluster and blocks the JavaScript thread in f.get().
ConnectStarts ==
    /\ Idle /\ connection = "unconnected" /\ appHolds
    /\ NewInstance
    /\ js' = "connecting"
    /\ UNCHANGED <<appHolds, connection, stopped, posted, destroyer, query, closes>>

\* The io thread has opened the cluster, or failed to: jsConnect returns. The
\* error it may return is ignored by _connect.
ConnectReturns ==
    /\ js = "connecting" /\ io = "running"
    /\ js' = "idle"
    /\ connection' = "connected"
    /\ UNCHANGED <<appHolds, instance, core, io, destroyer, query, closes>>

-----------------------------------------------------------------------------
(* Queries *)

Usable == Idle /\ appHolds /\ connection = "connected"

\* executeQuery hands its callback to the core. A core that was told to close
\* no longer answers for sure.
ExecuteQuery(q) ==
    /\ Usable /\ query[q] = "none"
    /\ query' = [query EXCEPT ![q] = IF stopped THEN "late" ELSE "running"]
    /\ UNCHANGED <<jsState, connection, instance, core, io, destroyer, closes>>

\* The core refuses it at once: the CallCookie is destroyed without a Release.
RefuseQuery(q) ==
    /\ Usable /\ query[q] = "none"
    /\ query' = [query EXCEPT ![q] = "refused"]
    /\ UNCHANGED <<jsState, connection, instance, core, io, destroyer, closes>>

\* The io thread answers a query; a closing core cancels those it has.
IoAnswers(q) ==
    /\ io = "running" /\ query[q] \in {"running", "late"}
    /\ query' = [query EXCEPT ![q] = "answered"]
    /\ UNCHANGED <<jsState, connection, instance, core, io, destroyer, closes>>

\* The JavaScript thread runs its callback.
QueryCallback(q) ==
    /\ Idle /\ query[q] = "answered"
    /\ query' = [query EXCEPT ![q] = "settled"]
    /\ UNCHANGED <<jsState, connection, instance, core, io, destroyer, closes>>

-----------------------------------------------------------------------------
(* Closing *)

\* Bugs: asyncDestroy joins in the handler itself; a shutdown handler that
\* never invokes its cookie.
JoinInHandler(thread) == destroyer' = thread
HandlerForgets(handler, thread) ==
    IF handler = "destroy" THEN destroyer' = "thread" /\ UNCHANGED closes
                           ELSE UNCHANGED <<destroyer, closes>>

\* The handler of asyncDestroy may run on the io thread: it leaves the join to
\* a thread of its own.
StartDestroyer(thread) == destroyer' = "thread"

\* A close handler runs on a thread: asyncDestroy's, or jsShutdown's, which
\* queues the callback of close() to the JavaScript thread.
RunHandler(handler, thread) ==
    IF handler = "destroy"
    THEN StartDestroyer(thread) /\ UNCHANGED closes
    ELSE closes' = [closes EXCEPT ![handler] = "queued"] /\ UNCHANGED destroyer

\* The core's close(handler).
CoreClose(handler) ==
    IF stopped
    THEN RunHandler(handler, "js") /\ UNCHANGED <<stopped, posted>>
    ELSE /\ stopped' = TRUE
         /\ posted' = handler
         /\ IF handler = "destroy" THEN UNCHANGED closes
                                   ELSE closes' = [closes EXCEPT ![handler] = "posted"]
         /\ UNCHANGED destroyer

\* The application calls close(): at any time, as often as it likes.
Close(c) ==
    /\ Usable /\ closes[c] = "none"
    /\ CoreClose(c)
    /\ UNCHANGED <<jsState, connection, instance, work, io, query>>

\* The io thread runs the posted close: the work ends, the handler runs.
IoCloses ==
    /\ io = "running" /\ posted # "none"
    /\ posted' = "none"
    /\ work' = FALSE
    /\ RunHandler(posted, "io")
    /\ UNCHANGED <<jsState, connection, instance, stopped, io, query>>

\* The JavaScript thread runs the callback of close(): its Promise resolves.
CloseCallback(c) ==
    /\ Idle /\ closes[c] = "queued"
    /\ closes' = [closes EXCEPT ![c] = "resolved"]
    /\ UNCHANGED <<jsState, connection, instance, core, io, destroyer, query>>

\* _io.run() returns when nothing is left to do. A query that came after the
\* close does not keep it; a thread that joins itself would never get here.
IoExits ==
    /\ io = "running" /\ ~work /\ posted = "none" /\ destroyer # "io"
    /\ \A q \in Queries : query[q] # "running"
    /\ io' = "exited"
    /\ UNCHANGED <<jsState, connection, instance, core, destroyer, query, closes>>

-----------------------------------------------------------------------------
(* Destruction *)

\* The application drops its last reference to the Cluster.
Drop ==
    /\ Idle /\ appHolds /\ connection = "connected"
    /\ appHolds' = FALSE
    /\ UNCHANGED <<js, connection, instance, core, io, destroyer, query, closes>>

Reachable == appHolds \/ \E q \in Queries : query[q] \in Pinning

\* The garbage collector finalizes the Connection: its destructor calls
\* asyncDestroy on whatever _instance points to. When jsConnect never set it,
\* that is an indeterminate pointer.
Collect ==
    /\ Idle /\ connection \in {"unconnected", "connected"} /\ ~Reachable
    /\ connection' = "collected"
    /\ IF instance = "live"
       THEN CoreClose("destroy") /\ UNCHANGED instance
       ELSE instance' = "corrupt" /\ UNCHANGED <<stopped, posted, destroyer, closes>>
    /\ UNCHANGED <<jsState, work, io, query>>

\* Bug: delete without waiting for the io thread.
JoinsAtOnce == TRUE

IoHasExited == io = "exited"

\* asyncDestroy's thread joins the io thread and deletes the Instance.
Destroy ==
    /\ destroyer = "thread" /\ IoHasExited
    /\ destroyer' = "done"
    /\ instance' = "freed"
    /\ UNCHANGED <<jsState, connection, core, io, query, closes>>

-----------------------------------------------------------------------------
Next ==
    \/ Construct \/ ConnectRefused \/ ConnectInvalidDns
    \/ ConnectStarts \/ ConnectReturns
    \/ \E q \in Queries : ExecuteQuery(q) \/ RefuseQuery(q) \/ IoAnswers(q) \/ QueryCallback(q)
    \/ \E c \in Closes : Close(c) \/ CloseCallback(c)
    \/ IoCloses \/ IoExits
    \/ Drop \/ Collect \/ Destroy

Spec == Init /\ [][Next]_vars

\* The io thread and the destroyer run; the event loop runs what is queued; the
\* core answers the queries it accepted. The garbage collector promises nothing.
Fairness ==
    /\ WF_vars(ConnectReturns) /\ WF_vars(IoCloses) /\ WF_vars(IoExits) /\ WF_vars(Destroy)
    /\ \A q \in Queries :
          WF_vars(IoAnswers(q) /\ query[q] = "running") /\ WF_vars(QueryCallback(q))
    /\ \A c \in Closes : WF_vars(CloseCallback(c))

FairSpec == Spec /\ Fairness

-----------------------------------------------------------------------------
(* Properties *)

\* The thread that joins the io thread is one of its own: neither the io thread
\* itself nor the JavaScript thread (src/instance.cpp:48-49).
TypeOK ==
    /\ js \in {"idle", "connecting"} /\ appHolds \in BOOLEAN
    /\ connection \in {"none", "unconnected", "connected", "collected"}
    /\ instance \in {"uninitialised", "live", "freed", "corrupt"}
    /\ stopped \in BOOLEAN /\ posted \in Handler /\ work \in BOOLEAN
    /\ io \in {"none", "running", "exited"}
    /\ destroyer \in {"none", "thread", "done"}
    /\ query \in [Queries -> {"none", "settled"} \cup Pinning]
    /\ closes \in [Closes -> {"none", "posted", "queued", "resolved"}]

\* Nothing uses an Instance that was deleted: the io thread has left it, no
\* close is waiting in it, no query's answer is still to come from it or to be
\* read by its callback, and JavaScript can no longer call into it.
FreedIsUnused ==
    instance = "freed" =>
        /\ io = "exited" /\ posted = "none"
        /\ \A q \in Queries : query[q] \notin Pinning
        /\ ~appHolds /\ connection = "collected"

\* Whatever is waited for has a thread that will do it, and that thread is not
\* gone: the posted handler of a close() is the one the io thread will run, a
\* callback in the event loop's queue meets an idle JavaScript thread, an
\* accepted query an io thread that has not left, and a collected Connection
\* either a posted destroy handler or the thread that joins.
NobodyWaitsInVain ==
    /\ js = "connecting" => io = "running"
    /\ \A c \in Closes :
          /\ closes[c] = "posted" => posted = c /\ io = "running"
          /\ closes[c] = "queued" => Idle
    /\ \A q \in Queries :
          /\ query[q] = "running" => io = "running"
          /\ query[q] = "answered" => Idle
    /\ (connection = "collected" /\ instance = "live") =>
          posted = "destroy" \/ destroyer = "thread"
    /\ (destroyer = "thread" /\ io = "running") =>
          /\ posted # "none" \/ ~work
          /\ \A q \in Queries : query[q] # "running"

\* Every close() settles, the first and the superfluous ones, also when the
\* Connection is collected while the first one is still posted.
ClosesSettle ==
    \A c \in Closes : closes[c] \in {"posted", "queued"} ~> closes[c] = "resolved"

\* A query the core accepted before the first close() settles, also when a
\* close overtakes it.
AcceptedQueriesSettle ==
    \A q \in Queries : query[q] = "running" ~> query[q] = "settled"

\* The Instance of a collected Connection is deleted, whether or not it was
\* closed before, and the io thread ends.
CollectedIsFreed ==
    (connection = "collected" /\ instance = "live") ~> instance = "freed"

\* What test/cluster.test.js:201-222 asks for: an operation after close() ends
\* (with an error).
LateQueriesSettle ==
    \A q \in Queries : query[q] = "late" ~> query[q] = "settled"

\* The destructor of Connection only ever acts on an Instance: a createInstance
\* that throws leaves nothing worse behind than the exception.
DestructorActsOnInstance == instance # "corrupt"
=============================================================================
