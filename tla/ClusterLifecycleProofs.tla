----------------------- MODULE ClusterLifecycleProofs -----------------------
(***************************************************************************)
(* An Instance is deleted only when nothing can use it any more, for every *)
(* number of queries and of close() calls, in every order of the three     *)
(* threads.                                                                *)
(*                                                                         *)
(* The argument: a query that is under way pins the Connection, so a       *)
(* collected Connection has none (Pinned); the destroyer exists only for a *)
(* collected Connection (Ownership); and an io context that has run out of *)
(* work was closed, so no close handler can be posted to it again          *)
(* (IoContext). Nobody waits in vain: the handler posted to the io context *)
(* is the one that is waited for, and the io thread cannot leave before it *)
(* has run it (Waiting).                                                   *)
(***************************************************************************)
EXTENDS ClusterLifecycle, TLAPS

\* There is an Instance only from `new Instance` on, and a destroyer only for
\* an Instance whose Connection was collected.
Ownership ==
    /\ appHolds => connection \in {"unconnected", "connected"}
    /\ js = "connecting" => connection = "unconnected" /\ appHolds
    /\ connection = "none" => instance = "uninitialised"
    /\ (connection = "unconnected" /\ appHolds /\ js = "idle") => instance = "uninitialised"
    /\ instance \in {"live", "freed"} <=> io # "none"
    /\ destroyer # "none" => connection = "collected" /\ instance \in {"live", "freed"}
    /\ instance = "freed" <=> destroyer = "done"

Pinned == \A q \in Queries : query[q] \in Pinning => connection = "connected"

IoContext ==
    /\ posted # "none" => stopped
    /\ posted = "destroy" => connection = "collected"
    /\ (io # "none" /\ ~work) => stopped
    /\ io = "exited" => posted = "none" /\ ~work
    /\ instance = "freed" => io = "exited"

IInv == TypeOK /\ Ownership /\ Pinned /\ IoContext

\* Before a Cluster is constructed every part of the invariant holds.
LEMMA InitInvariant == Init => IInv
  <1> SUFFICES ASSUME Init PROVE IInv
    OBVIOUS
  <1>1. appHolds \in BOOLEAN /\ stopped \in BOOLEAN /\ work \in BOOLEAN
    BY Zenon DEF Init
  <1>2. TypeOK
    BY <1>1 DEF Init, TypeOK, Handler
  <1> QED
    BY <1>2 DEF Init, IInv, Ownership, Pinned, Pinning, IoContext

\* What close(handler) does to the core and to asyncDestroy's thread: it posts
\* the handler only to a cluster that was not closed.
LEMMA CoreCloseEffect ==
    ASSUME TypeOK, NEW h \in Closes \cup {"destroy"}, CoreClose(h)
    PROVE  /\ stopped' = TRUE /\ stopped' \in BOOLEAN
           /\ posted' \in Handler
           /\ posted' = posted \/ (posted' = h /\ ~stopped)
           /\ closes' \in [Closes -> {"none", "posted", "queued", "resolved"}]
           /\ destroyer' = destroyer \/ (h = "destroy" /\ destroyer' = "thread")
  <1> USE HandlersAssumption DEF TypeOK, Handler
  <1>1. CASE stopped
    <2>1. CASE h = "destroy"
      BY <1>1, <2>1 DEF CoreClose, RunHandler, StartDestroyer
    <2>2. CASE h # "destroy"
      BY <1>1, <2>2 DEF CoreClose, RunHandler
    <2> QED
      BY <2>1, <2>2
  <1>2. CASE ~stopped
    <2>1. CASE h = "destroy"
      BY <1>2, <2>1 DEF CoreClose
    <2>2. CASE h # "destroy"
      BY <1>2, <2>2 DEF CoreClose
    <2> QED
      BY <2>1, <2>2
  <1> QED
    BY <1>1, <1>2

\* What running a close handler on a thread does.
LEMMA RunHandlerEffect ==
    ASSUME TypeOK, NEW h \in Closes \cup {"destroy"}, NEW t, RunHandler(h, t)
    PROVE  /\ closes' \in [Closes -> {"none", "posted", "queued", "resolved"}]
           /\ destroyer' = destroyer \/ (h = "destroy" /\ destroyer' = "thread")
  BY HandlersAssumption DEF TypeOK, RunHandler, StartDestroyer

-----------------------------------------------------------------------------
(* Every step preserves the invariant *)

\* Every step of the three threads keeps an Instance owned by its Connection
\* until nothing can use it.
LEMMA StepInvariant ==
    ASSUME IInv, [Next]_vars
    PROVE  IInv'
  <1> USE DEF IInv, TypeOK, Ownership, Pinned, Pinning, IoContext, Handler,
              Idle, Usable, jsState, core
  <1>1. CASE Construct \/ ConnectRefused
    BY <1>1 DEF Construct, ConnectRefused
  <1>2. CASE ConnectInvalidDns
    BY <1>2 DEF ConnectInvalidDns, NewInstance
  <1>3. CASE ConnectStarts
    BY <1>3 DEF ConnectStarts, NewInstance
  <1>4. CASE ConnectReturns
    BY <1>4 DEF ConnectReturns
  <1>5. ASSUME NEW q \in Queries, ExecuteQuery(q) PROVE IInv'
    BY <1>5 DEF ExecuteQuery
  <1>6. ASSUME NEW q \in Queries, RefuseQuery(q) PROVE IInv'
    BY <1>6 DEF RefuseQuery
  <1>7. ASSUME NEW q \in Queries, IoAnswers(q) PROVE IInv'
    BY <1>7 DEF IoAnswers
  <1>8. ASSUME NEW q \in Queries, QueryCallback(q) PROVE IInv'
    BY <1>8 DEF QueryCallback
  <1>9. ASSUME NEW c \in Closes, Close(c) PROVE IInv'
    <2>1. CoreClose(c) /\ c \in Closes \cup {"destroy"} /\ c # "destroy"
      BY <1>9, HandlersAssumption DEF Close
    <2> QED
      BY <1>9, <2>1, CoreCloseEffect DEF Close
  <1>10. ASSUME NEW c \in Closes, CloseCallback(c) PROVE IInv'
    BY <1>10 DEF CloseCallback
  <1>11. CASE IoCloses
    <2>1. RunHandler(posted, "io") /\ posted \in Closes \cup {"destroy"}
      BY <1>11 DEF IoCloses
    <2> QED
      BY <1>11, <2>1, RunHandlerEffect DEF IoCloses
  <1>12. CASE IoExits
    BY <1>12 DEF IoExits
  <1>13. CASE Drop
    BY <1>13 DEF Drop
  <1>14. CASE Collect
    <2>1. ~appHolds /\ \A q \in Queries : query[q] \notin Pinning
      BY <1>14 DEF Collect, Reachable
    <2>2. CASE instance = "live"
      <3>1. CoreClose("destroy")
        BY <1>14, <2>2 DEF Collect
      <3> QED
        BY <1>14, <2>1, <2>2, <3>1, CoreCloseEffect DEF Collect
    <2>3. CASE instance # "live"
      BY <1>14, <2>1, <2>3 DEF Collect
    <2> QED
      BY <2>2, <2>3
  <1>15. CASE Destroy
    BY <1>15 DEF Destroy, IoHasExited
  <1>16. CASE UNCHANGED vars
    BY <1>16 DEF vars
  <1> QED
    BY <1>1, <1>2, <1>3, <1>4, <1>5, <1>6, <1>7, <1>8, <1>9, <1>10, <1>11, <1>12,
       <1>13, <1>14, <1>15, <1>16 DEF Next

-----------------------------------------------------------------------------
(* Theorems *)

\* The invariant holds for every number of queries and close() calls.
THEOREM Invariance == Spec => []IInv
  <1>1. IInv /\ [Next]_vars => IInv'
    BY StepInvariant
  <1> QED
    BY <1>1, InitInvariant, PTL DEF Spec

\* Every variable keeps its type; in particular only a thread of its own ever
\* joins the io thread.
THEOREM ClusterTypeCorrect == Spec => []TypeOK
  <1>1. IInv => TypeOK
    BY DEF IInv
  <1> QED
    BY <1>1, Invariance, PTL

\* A deleted Instance is used by no thread, no close handler, no query and no
\* JavaScript object.
THEOREM FreedStaysUnused == Spec => []FreedIsUnused
  <1>1. IInv => FreedIsUnused
    BY DEF IInv, TypeOK, Ownership, Pinned, Pinning, IoContext, FreedIsUnused
  <1> QED
    BY <1>1, Invariance, PTL

-----------------------------------------------------------------------------
(* What closes, queries and a collected Connection wait for *)

\* A close() calls back once: a handler that waits in the io context is that of
\* a close that has not called back, and no step takes a close backwards.
CloseGoesOn(c) ==
    /\ closes[c] = "posted" => closes'[c] \in {"posted", "queued"}
    /\ closes[c] = "queued" => closes'[c] \in {"queued", "resolved"}
    /\ closes[c] = "resolved" => closes'[c] = "resolved"

CallsBackOnce == [][\A c \in Closes : CloseGoesOn(c)]_vars

\* What makes both inductive: only a connected Cluster queries and closes, its
\* Instance is a real one, and the one posted handler is the one waited for.
Waiting ==
    /\ connection = "connected" => instance = "live"
    /\ js = "connecting" => instance = "live" /\ io = "running"
    /\ \A c \in Closes :
          /\ closes[c] # "none" => connection \in {"connected", "collected"} /\ instance # "corrupt"
          /\ closes[c] = "posted" <=> posted = c
    /\ \A q \in Queries :
          /\ query[q] # "none" => connection \in {"connected", "collected"} /\ instance # "corrupt"
          /\ query[q] = "running" => io = "running"
    /\ (stopped /\ io = "running") => posted # "none" \/ ~work
    /\ (connection = "collected" /\ instance = "live") =>
          posted = "destroy" \/ destroyer = "thread"
    /\ connection \in {"none", "unconnected"} => ~stopped
    /\ posted # "none" => io = "running"
    /\ destroyer # "none" => stopped

\* Every step of the three threads keeps a waiting close, query or Connection
\* with the thread that serves it, and takes no close backwards.
LEMMA WaitingStep ==
    ASSUME IInv, Waiting, [Next]_vars
    PROVE  Waiting' /\ \A c \in Closes : CloseGoesOn(c)
  <1> DEFINE Goal == Waiting' /\ \A c \in Closes : CloseGoesOn(c)
  <1> USE HandlersAssumption DEF IInv, TypeOK, Ownership, Pinned, Pinning, IoContext, Handler,
              Idle, Usable, jsState, core, Waiting, CloseGoesOn
  <1>1. CASE Construct \/ ConnectRefused
    BY <1>1 DEF Construct, ConnectRefused
  <1>2. CASE ConnectInvalidDns
    BY <1>2 DEF ConnectInvalidDns, NewInstance
  <1>3. CASE ConnectStarts
    BY <1>3 DEF ConnectStarts, NewInstance
  <1>4. CASE ConnectReturns
    BY <1>4 DEF ConnectReturns
  <1>5. ASSUME NEW q \in Queries, ExecuteQuery(q) PROVE Goal
    BY <1>5 DEF ExecuteQuery
  <1>6. ASSUME NEW q \in Queries, RefuseQuery(q) PROVE Goal
    BY <1>6 DEF RefuseQuery
  <1>7. ASSUME NEW q \in Queries, IoAnswers(q) PROVE Goal
    BY <1>7 DEF IoAnswers
  <1>8. ASSUME NEW q \in Queries, QueryCallback(q) PROVE Goal
    BY <1>8 DEF QueryCallback
  <1>9. ASSUME NEW c \in Closes, Close(c) PROVE Goal
    <2>1. CASE stopped
      BY <1>9, <2>1 DEF Close, CoreClose, RunHandler
    <2>2. CASE ~stopped
      BY <1>9, <2>2 DEF Close, CoreClose
    <2> QED
      BY <2>1, <2>2
  <1>10. ASSUME NEW c \in Closes, CloseCallback(c) PROVE Goal
    BY <1>10 DEF CloseCallback
  <1>11. CASE IoCloses
    <2>1. CASE posted = "destroy"
      BY <1>11, <2>1 DEF IoCloses, RunHandler, StartDestroyer
    <2>2. CASE posted # "destroy"
      BY <1>11, <2>2 DEF IoCloses, RunHandler
    <2> QED
      BY <2>1, <2>2
  <1>12. CASE IoExits
    BY <1>12 DEF IoExits
  <1>13. CASE Drop
    BY <1>13 DEF Drop
  <1>14. CASE Collect
    <2>1. CASE instance = "live" /\ stopped
      BY <1>14, <2>1 DEF Collect, CoreClose, RunHandler, StartDestroyer
    <2>2. CASE instance = "live" /\ ~stopped
      BY <1>14, <2>2 DEF Collect, CoreClose
    <2>3. CASE instance # "live"
      BY <1>14, <2>3 DEF Collect
    <2> QED
      BY <2>1, <2>2, <2>3
  <1>15. CASE Destroy
    BY <1>15 DEF Destroy, IoHasExited
  <1>16. CASE UNCHANGED vars
    BY <1>16 DEF vars
  <1> QED
    BY <1>1, <1>2, <1>3, <1>4, <1>5, <1>6, <1>7, <1>8, <1>9, <1>10, <1>11, <1>12,
       <1>13, <1>14, <1>15, <1>16 DEF Next

\* Before a Cluster is constructed nobody waits.
LEMMA InitWaiting == Init => Waiting
  BY HandlersAssumption DEF Init, Waiting

\* The invariant behind the next two theorems.
LEMMA WaitingHolds == Spec => []Waiting
  <1>1. IInv /\ Waiting /\ [Next]_vars => Waiting'
    BY WaitingStep
  <1> QED
    BY <1>1, InitWaiting, Invariance, PTL DEF Spec

\* For any queries and closes: no close(), no accepted query and no collected
\* Connection is ever left without the thread that will serve it. This is what
\* ClosesSettle, AcceptedQueriesSettle and CollectedIsFreed need besides
\* fairness (src/connection.cpp:73 and 220, src/instance.cpp:44).
THEOREM EveryWaitIsServed == Spec => []NobodyWaitsInVain
  <1>1. ASSUME IInv, Waiting PROVE NobodyWaitsInVain
    <2> USE <1>1 DEF IInv, Waiting
    <2>1. js \in {"idle", "connecting"}
      BY DEF TypeOK
    <2>2. js = "connecting" => io = "running"
      OBVIOUS
    <2>3. (connection \in {"connected", "collected"} /\ instance # "corrupt") => Idle
      BY <2>1 DEF Ownership, Idle
    <2>4. ASSUME NEW c \in Closes
          PROVE  /\ closes[c] = "posted" => posted = c /\ io = "running"
                 /\ closes[c] = "queued" => Idle
      BY <2>3, HandlersAssumption
    <2>5. ASSUME NEW q \in Queries
          PROVE  /\ query[q] = "running" => io = "running"
                 /\ query[q] = "answered" => Idle
      BY <2>3
    <2>6. destroyer = "thread" => \A q \in Queries : query[q] # "running"
      BY DEF Ownership, Pinned, Pinning
    <2>7. (destroyer = "thread" /\ io = "running") => posted # "none" \/ ~work
      OBVIOUS
    <2> QED
      BY <2>2, <2>4, <2>5, <2>6, <2>7 DEF NobodyWaitsInVain
  <1> QED
    BY <1>1, Invariance, WaitingHolds, PTL

\* For any queries and closes: the callback of a close() is queued once and run
\* once, by whichever thread runs its handler.
THEOREM ClosesCallBackOnce == Spec => CallsBackOnce
  <1>1. IInv /\ Waiting /\ [Next]_vars => [\A c \in Closes : CloseGoesOn(c)]_vars
    BY WaitingStep
  <1> QED
    BY <1>1, Invariance, WaitingHolds, PTL DEF Spec, CallsBackOnce

=============================================================================
