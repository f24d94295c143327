---------------------------- MODULE MCTableScan ----------------------------
(* Instances of TableScan for TLC. *)
EXTENDS TableScan

CONSTANTS f1, f2

\* Two cells to a row, so that a scan can stop within one.
TwoPerRow == [c \in Cell |-> (c + 1) \div 2]
=============================================================================
