--------------------------- MODULE MCSharedLogger ---------------------------
(* Instances of SharedLogger for TLC: the constants that its .cfg files      *)
(* give model values.                                                        *)
EXTENDS SharedLogger

CONSTANTS c1, c2, u1
=============================================================================
