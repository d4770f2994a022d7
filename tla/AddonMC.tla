------------------------------- MODULE AddonMC -------------------------------
\* A main thread that tries the interesting queries and failures, and a worker
\* thread with a plain query, under three releases of the core.
EXTENDS Addon, TLC

Environments == {"main", "worker"}

Unset == [database |-> Undefined, scope |-> Undefined, priority |-> Undefined,
          positionalParameters |-> Undefined, namedParameters |-> Undefined,
          readOnly |-> Undefined, scanConsistency |-> Undefined, raw |-> Undefined,
          timeout |-> Undefined]

Function == [js |-> "function"]
Hole == [js |-> "hole"]    \* an element that an array does not have

\* An empty scan consistency is none, null is no named parameters.
InScope == [Unset EXCEPT !.database = Text("db"), !.scope = Text("sc"),
                         !.priority = Bool(FALSE), !.timeout = Number(0),
                         !.scanConsistency = Text(""), !.namedParameters = Null]

\* undefined, null, holes and functions between parameters; null for an option.
WithParameters ==
    [Unset EXCEPT
        !.positionalParameters = Array(<<Text("a"), Undefined, Null, Text(""), Hole, Function>>),
        !.namedParameters = Object([x |-> Text("a"), y |-> Undefined, z |-> Null]),
        !.raw = Object([client |-> Text("c"), mode |-> Undefined]),
        !.readOnly = Infinity(""), !.priority = Null,
        !.scanConsistency = Text("request_plus"), !.timeout = Number(75000)]

QueriesOf == [e \in Environments |->
    IF e = "worker" THEN {InScope}
    ELSE {Unset, WithParameters,
          [Unset EXCEPT !.timeout = Number(-1)],
          [Unset EXCEPT !.timeout = NaN, !.positionalParameters = Array(<<>>)],
          [Unset EXCEPT !.timeout = Infinity("-"), !.scanConsistency = Infinity("")],
          [Unset EXCEPT !.scanConsistency = Text("at_plus")]}]

Failure(category, name, number, properties) ==
    [category |-> category, name |-> name, number |-> number, properties |-> properties]

FailuresOf == [e \in Environments |->
    IF e = "worker" THEN {Failure("columnar_errc", "timeout", 0, Absent)}
    ELSE {Failure("columnar_errc", n, 0, Absent) : n \in ErrorName}
         \cup {Failure("columnar_errc", "query_error", 0,
                       Present([code |-> 24045, server_message |-> "no such"]))}
         \cup {Failure("columnar_client_errc", n, 0, Absent) :
                   n \in Enumerators["columnar_client_errc"]}
         \cup {Failure("other", "auth", 6, Absent), Failure("other", "eof", 4, Absent)}]

MetadataOf(ns, warnings) ==
    [request_id |-> "r", warnings |-> warnings,
     metrics |-> [elapsed_time |-> ns, execution_time |-> ns \div 2,
                  result_count |-> 2, result_size |-> 30, processed_objects |-> 0]]

SomeMetadata ==
    {MetadataOf(1999999, <<>>),
     MetadataOf(3000000, <<[code |-> 2, message |-> "b"], [code |-> 1, message |-> "a"]>>)}

\* The numbers of a release: an enumerator's place in a list, from a first number.
RECURSIVE Numbered(_, _)
Numbered(names, first) ==
    IF names = {} THEN <<>>
    ELSE LET n == CHOOSE n \in names : TRUE IN (n :> first) @@ Numbered(names \ {n}, first + 1)

Release(errors, client) ==
    [retry_reason |-> Numbered(Enumerators["retry_reason"], 0),
     columnar_query_scan_consistency |-> [not_bounded |-> 0, request_plus |-> 1],
     columnar_errc |-> errors,
     columnar_client_errc |-> client]

Client == [canceled |-> 1, invalid_argument |-> 2, cluster_closed |-> 3]
Current == Release([generic |-> 1, invalid_credential |-> 2, timeout |-> 3, query_error |-> 4],
                   Client)
Renumbered == Release([generic |-> 9, invalid_credential |-> 7, timeout |-> 1, query_error |-> 6],
                      [canceled |-> 6, invalid_argument |-> 2, cluster_closed |-> 3])
Duplicate == Release([generic |-> 1, invalid_credential |-> 2, timeout |-> 2, query_error |-> 4],
                     Client)

ReleasesOf == {Current, Renumbered, Duplicate}
Levels == {"debug", "loud"}
=============================================================================
