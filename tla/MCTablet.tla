------------------------------ MODULE MCTablet ------------------------------
(* Instances of Tablet for TLC. *)
EXTENDS Tablet

CONSTANTS s1, l1, l2, d0, d1, d2, d3

OneLog == {l1}
TwoLogs == {l1, l2}
ThreeDisks == {d0, d1, d2}
FourDisks == {d0, d1, d2, d3}
OneLoaded == <<d0>>
TwoLoaded == <<d0, d1>>

SameLogs == Permutations(TwoLogs)
=============================================================================
