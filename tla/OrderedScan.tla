---------------------------- MODULE OrderedScan ----------------------------
(***************************************************************************)
(* What a scan promises to its caller (CellStream in kdi/cell.h, and the   *)
(* comments in kdi/tablet/Scanner.h and kdi/net/net_table.cc): the cells   *)
(* come in increasing order, each at most once, and none is passed over    *)
(* that was in the table and in the scanned rows all the time the scan     *)
(* has been open.  Cells written or erased meanwhile may or may not be     *)
(* seen.                                                                   *)
(***************************************************************************)
EXTENDS Integers, Sequences

CONSTANT Cell       \* the cells, numbered in scan order

VARIABLES
    due,            \* cells in the scanned rows ever since the scan began
    seen,           \* the cells returned, in that order
    status          \* "new", "open", "end", "error", or "lost"

vars == <<due, seen, status>>

Init == due = {} /\ seen = <<>> /\ status = "new"

\* The scan begins; it owes some cells.
Begin ==
    /\ status = "new"
    /\ due' \in SUBSET Cell
    /\ status' = "open"
    /\ UNCHANGED seen

Returned == {seen[i] : i \in DOMAIN seen}
Before(c) == {d \in due : d < c}

\* The caller gets the cell c: the next of those owed, or one before it.  A
\* scan that has lost its place promises nothing.
Deliver(c) ==
    /\ status \in {"open", "lost"}
    /\ status = "open" => /\ \A d \in Returned : d < c
                          /\ Before(c) \subseteq Returned
    /\ seen' = Append(seen, c)
    /\ UNCHANGED <<due, status>>

\* The end of the stream: nothing owed is missing.
End ==
    /\ status \in {"open", "lost"}
    /\ status = "open" => due \subseteq Returned
    /\ status' = "end"
    /\ UNCHANGED <<due, seen>>

\* The caller gets an error instead.
Fail ==
    /\ status \in {"open", "lost"}
    /\ status' = "error"
    /\ UNCHANGED <<due, seen>>

\* A cell is erased: the scan no longer owes it.
Forget(c) == due' = due \ {c} /\ UNCHANGED <<seen, status>>

\* The scan forgets where it is, without an error.
Lose == status = "open" /\ status' = "lost" /\ UNCHANGED <<due, seen>>

Next ==
    \/ Begin
    \/ \E c \in Cell : Deliver(c) \/ Forget(c)
    \/ End \/ Fail

Spec == Init /\ [][Next]_vars

\* A scan that may lose its place.
LossySpec == Init /\ [][Next \/ Lose]_vars
=============================================================================
