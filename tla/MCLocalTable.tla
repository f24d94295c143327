---------------------------- MODULE MCLocalTable ----------------------------
(* Instances of LocalTable for TLC. *)
EXTENDS LocalTable

CONSTANTS k1, k2

Set(k) == [key |-> k, erase |-> FALSE]
Erasure(k) == [key |-> k, erase |-> TRUE]

\* The first cell was set and then erased; callers set the second one, over
\* and over.
ErasedCell == <<Set(k1), Erasure(k1)>>
Calls == {Set(k2)}
=============================================================================
