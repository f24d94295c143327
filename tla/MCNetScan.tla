----------------------------- MODULE MCNetScan -----------------------------
(* Instances of NetScan for TLC. *)
EXTENDS NetScan

\* Two rows, the first with two versions of its cell.
Versions == [c \in Cell |-> IF c <= 2 THEN 1 ELSE 2]
=============================================================================
