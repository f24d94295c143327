----------------------------- MODULE MCTabletGc -----------------------------
(* Instances of TabletGc for TLC. *)
EXTENDS TabletGc

CONSTANTS s1, l1, d0, d1, d2

OneLog == {l1}
ThreeDisks == {d0, d1, d2}
OneLoaded == <<d0>>

\* Which writes a sync() covers decides no step, and no invariant that is
\* checked depends on it.
NotCovered(s) == IF save[s].pc = "idle" THEN save[s]
                 ELSE [save[s] EXCEPT !.covers = {}]
WithoutAcked ==
    <<trackerVars, tabletVars, dag, meta, workVars,
      [s \in Saver |-> NotCovered(s)], race, loggerVars, serVars, compVars, died,
      gcVars>>
=============================================================================
