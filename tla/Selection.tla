----------------------------- MODULE Selection -----------------------------
(***************************************************************************)
(* SelectSeq of the module Sequences, for a set in place of a test.        *)
(***************************************************************************)
EXTENDS Integers, Sequences

\* The elements of s that are in S, in their order.
Selected(s, S) ==
    LET sel[i \in 0..Len(s)] ==
            IF i = 0 THEN <<>>
            ELSE IF s[i] \in S THEN Append(sel[i - 1], s[i]) ELSE sel[i - 1]
    IN  sel[Len(s)]
=============================================================================
