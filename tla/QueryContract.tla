---------------------------- MODULE QueryContract ----------------------------
(***************************************************************************)
(* What executeQuery promises an application, with nothing of how the      *)
(* threads and the core bring it about: a promise that settles once, rows  *)
(* that arrive one by one in the server's order, and one outcome, which is *)
(* "finished" only after the last row and never changes again. Two sets    *)
(* qualify it: a row of NullRows may be taken for the end, and a row of    *)
(* BadRows may never come. When both are empty it is the whole promise.    *)
(***************************************************************************)
EXTENDS Integers, Sequences

CONSTANTS
    NumRows,   \* how many rows the server has for the query
    BadRows,   \* rows that may not deserialize
    NullRows   \* rows that may deserialize to null

VARIABLES
    promise,   \* "none" before executeQuery, then as a Promise
    rows,      \* the rows the application was given
    outcome    \* "none" until there are rows to iterate, "open", then final

vars == <<promise, rows, outcome>>

Final == {"finished", "failed", "aborted", "destroyed"}

Init == promise = "none" /\ rows = <<>> /\ outcome = "none"

\* executeQuery is called; it may be refused at once.
Issue ==
    /\ promise = "none"
    /\ promise' \in {"pending", "rejected"}
    /\ UNCHANGED <<rows, outcome>>

\* The promise settles. Cancelled beforehand, it resolves to an aborted stream.
Resolve ==
    /\ promise = "pending"
    /\ promise' = "resolved"
    /\ outcome' \in {"open", "aborted"}
    /\ UNCHANGED rows

Reject ==
    /\ promise = "pending"
    /\ promise' = "rejected"
    /\ UNCHANGED <<rows, outcome>>

\* The next row of the server's result.
Deliver ==
    /\ outcome = "open" /\ Len(rows) < NumRows
    /\ rows' = Append(rows, Len(rows) + 1)
    /\ UNCHANGED <<promise, outcome>>

\* The end, an error, or the application's own wish ends the iteration.
End ==
    /\ outcome = "open"
    /\ outcome' \in Final
    /\ outcome' = "finished" => Len(rows) = NumRows \/ Len(rows) + 1 \in NullRows
    /\ UNCHANGED <<promise, rows>>

Next == Issue \/ Resolve \/ Reject \/ Deliver \/ End

Safety == Init /\ [][Next]_vars

\* An open result makes progress, except at a row that may not deserialize.
Progress == Len(rows) + 1 \notin BadRows /\ (Deliver \/ End)

\* A pending promise settles, and an open result makes progress to its end.
Spec == Safety /\ WF_vars(Resolve \/ Reject) /\ WF_vars(Progress)
=============================================================================
