--------------------------- MODULE TableScanProofs ---------------------------
(***************************************************************************)
(* Proofs about TableScan, for any rows, cells, fragments and writes.      *)
(*                                                                         *)
(* FilesHeld says where the files of an open merge are kept alive: by the  *)
(* chain of the Scanner's tablet or by the replacement that has not reset  *)
(* the Scanners yet.                                                       *)
(*                                                                         *)
(* The rest is about a scan that is not lost.  What is still due lies past *)
(* the last cell returned, in the rows that remain (DueIsAhead); what of   *)
(* it lies in the rows of the Scanner will come from the open merge        *)
(* (DueIsInMerge); and what the Scanner reads next is past the last cell   *)
(* returned, unless get() skips it (ReadsAhead).                           *)
(***************************************************************************)
EXTENDS TableScan, SequenceLemmas

Types ==
    /\ live \subseteq Row /\ minRow \in [Row -> Nat]
    /\ chain \in [Row -> SUBSET Frag] /\ disk \subseteq Frag
    /\ made \subseteq Frag /\ table \subseteq Cell
    /\ split \in {"idle", "update"}
    /\ \/ repl = NoRepl
       \/ repl \in [pc : {"swapped", "updated"}, tab : Row, old : SUBSET Frag]
    /\ pc \in {"idle", "open", "inner", "validate", "merge", "read", "next"}
    /\ skip \in BOOLEAN /\ remaining \subseteq Row
    /\ last \in Cell \cup {0}
    /\ sc \in Scanners \cup {None} /\ cells \in Merges \cup {None}
    /\ due \subseteq table /\ seen \in Seq(Cell)
    /\ status \in {"new", "open", "end", "error"} /\ lost \in BOOLEAN

\* The tablets cover the rows and are disjoint, so that Owner() finds one; a Scanner is on a
\* tablet of the table.
TabletsCover ==
    /\ \A r \in Row : \E t \in live : r \in Rows(t)
    /\ \A t, u \in live : t < u => t <= minRow[u]
    /\ sc # None => sc.tab \in live

\* Where the client is, and what it then has.
ClientAt ==
    /\ pc # "idle" => status = "open"
    /\ status = "new" => ~lost /\ seen = <<>> /\ last = 0 /\ sc = None
    /\ pc \notin {"idle", "open"} => sc # None
    /\ pc = "read" => cells # None
    /\ sc = None => cells = None

FilesHeld ==
    /\ \A t \in live : chain[t] \subseteq disk
    /\ repl.pc # "idle" => repl.old \subseteq disk
    /\ cells # None =>
           cells.files \subseteq
               chain[sc.tab] \cup
               (IF repl.pc = "swapped" /\ repl.tab = sc.tab THEN repl.old
                ELSE {})

Opened == sc # None /\ pc # "open" /\ status = "open"

\* What the Scanner has been opened for: the rows that remain, as far as its
\* tablet goes.  It does not start behind the row of the last cell.
ScannerRows ==
    /\ Opened => sc.rows = {r \in remaining : r <= sc.tab}
    /\ Opened /\ last # 0 => RowOf[last] <= sc.tab
    /\ pc = "open" /\ last # 0 => \A r \in remaining : RowOf[last] <= r
    /\ Opened /\ ~lost =>
           /\ sc.last <= last
           /\ sc.last # last => \A r \in sc.rows : RowOf[last] <= r

\* The open merge is for rows of the Scanner, and has what is due of them.
DueIsInMerge ==
    cells # None =>
        /\ \A c \in cells.may : RowOf[c] \in sc.rows
        /\ \A d \in due : RowOf[d] \in sc.rows /\ d > sc.last => d \in cells.must
        /\ cells.ended => \A d \in cells.must : d <= sc.last

ReadsAhead ==
    cells # None /\ Opened /\ ~lost =>
        \/ skip \/ sc.last = last \/ cells.ended
        \/ \A r \in sc.rows : RowOf[last] < r

Returned == {seen[i] : i \in DOMAIN seen}

DueIsAhead ==
    status = "open" /\ ~lost =>
        /\ \A d \in Returned : d <= last
        /\ \A d \in due \ Returned : last < d /\ RowOf[d] \in remaining
        /\ pc = "next" => \A d \in due \ Returned : sc.tab < RowOf[d]

IInv == /\ Types /\ TabletsCover /\ ClientAt /\ FilesHeld /\ ScannerRows
        /\ DueIsInMerge /\ ReadsAhead /\ DueIsAhead

\* The first row that remains, and the tablet that has it: openScanner() finds
\* a tablet.
LEMMA FirstRow ==
    ASSUME Types, TabletsCover, remaining # {}
    PROVE  /\ Min(remaining) \in remaining
           /\ \A r \in remaining : Min(remaining) <= r
           /\ Owner(Min(remaining)) \in live
           /\ Min(remaining) \in Rows(Owner(Min(remaining)))
<1>1. remaining \in SUBSET Nat
  BY TableScanAssumption DEF Types, Row
<1>2. \E n \in remaining : \A m \in remaining : n <= m
  BY <1>1, LeastNat
<1>3. Min(remaining) \in remaining /\ \A r \in remaining : Min(remaining) <= r
  BY <1>2 DEF Min
<1>4. \E t \in live : Min(remaining) \in Rows(t)
  BY <1>3 DEF TabletsCover, Types
<1> QED
  BY <1>3, <1>4 DEF Owner

-----------------------------------------------------------------------------
(* What the actions do to the Scanner and its merge.                       *)

\* Cells and rows are numbers, and later cells are in later rows.
LEMMA CellOrder ==
    /\ \A r \in Row : r \in Nat
    /\ \A c \in Cell : c \in Nat /\ c # 0 /\ RowOf[c] \in Row /\ RowOf[c] \in Nat
    /\ \A c, d \in Cell : c <= d => RowOf[c] <= RowOf[d]
<1>1. \A r \in Row : r \in Nat
  BY TableScanAssumption DEF Row
<1>2. \A c \in Cell : c \in Nat /\ c # 0 /\ RowOf[c] \in Row
  BY TableScanAssumption
<1>3. ASSUME NEW c \in Cell, NEW d \in Cell, c <= d
      PROVE  RowOf[c] <= RowOf[d]
  <2>1. RowOf[c] \in Nat /\ RowOf[d] \in Nat /\ c \in Nat /\ d \in Nat
    BY <1>1, <1>2
  <2>2. CASE c = d
    BY <2>1, <2>2
  <2>3. CASE c < d
    BY <2>3, TableScanAssumption
  <2> QED
    BY <1>3, <2>1, <2>2, <2>3
<1> QED
  BY <1>1, <1>2, <1>3

\* A Scanner opens its merge for all that lies past its last cell.
LEMMA ReopenRowsOf ==
    ASSUME sc \in Scanners
    PROVE  /\ ReopenRows \subseteq sc.rows
           /\ \A d \in Cell : RowOf[d] \in sc.rows /\ d > sc.last
                                 => RowOf[d] \in ReopenRows
<1>1. sc.last \in Cell \cup {0} /\ sc.rows \subseteq Row
  BY DEF Scanners
<1>2. ReopenRows \subseteq sc.rows
  BY DEF ReopenRows, From
<1>3. ASSUME NEW d \in Cell, RowOf[d] \in sc.rows, d > sc.last
      PROVE  RowOf[d] \in ReopenRows
  <2>1. CASE sc.last = 0
    BY <1>3, <2>1 DEF ReopenRows
  <2>2. CASE sc.last # 0
    <3>1. RowOf[sc.last] <= RowOf[d] /\ RowOf[sc.last] \in Nat /\ RowOf[d] \in Nat
      BY <1>1, <1>3, <2>2, CellOrder
    <3> QED
      BY <1>3, <2>2, <3>1 DEF ReopenRows, From
  <2> QED
    BY <2>1, <2>2
<1> QED
  BY <1>2, <1>3

\* The tablet that a split makes is a new one.
LEMMA SplitIsNew ==
    ASSUME IInv, NEW t \in Row, NEW r \in Row, SplitTablet(t, r)
    PROVE  r \notin live
<1>1. t \in Nat /\ r \in Nat /\ minRow[t] \in Nat
  BY CellOrder DEF IInv, Types
<1> QED
  BY <1>1 DEF SplitTablet, IInv, TabletsCover

\* openScanner() sets up a Scanner at the start of its rows.
LEMMA OpenScannerFacts ==
    ASSUME IInv, OpenScanner
    PROVE  LET t == Owner(Min(remaining)) IN
           /\ sc' \in Scanners /\ sc' # None
           /\ sc'.tab = t /\ t \in live /\ sc'.last = 0
           /\ sc'.rows = remaining \cap Rows(t)
<1> DEFINE t == Owner(Min(remaining))
<1>1. t \in live /\ t \in Row
  BY FirstRow DEF IInv, Types, OpenScanner
<1> HIDE DEF t
<1>2. sc' = [tab |-> t, rows |-> remaining \cap Rows(t), last |-> 0]
  BY DEF OpenScanner, t
<1>3. sc' \in Scanners
  BY <1>1, <1>2 DEF Scanners, IInv, Types
<1> QED
  BY <1>1, <1>2, <1>3, NoneAssumption DEF t

\* getMergedScan() opens a merge on the fragments of the tablet.
LEMMA MergeFacts ==
    ASSUME IInv, Merge
    PROVE  /\ sc \in Scanners /\ cells' \in Merges /\ cells' # None
           /\ cells'.files = chain[sc.tab] /\ ~cells'.ended
           /\ cells'.must = OnRows(table, ReopenRows)
           /\ cells'.may = OnRows(table, ReopenRows)
<1> DEFINE C == OnRows(table, ReopenRows)
<1>1. sc \in Scanners /\ sc.tab \in Row /\ C \subseteq Cell
  BY DEF Merge, IInv, Types, ClientAt, Scanners, OnRows
<1>2. chain[sc.tab] \subseteq Frag
  BY <1>1 DEF IInv, Types
<1>3. cells' = [files |-> chain[sc.tab], must |-> C, may |-> C,
                ended |-> FALSE]
  BY DEF Merge
<1> HIDE DEF C
<1>4. cells' \in Merges
  BY <1>1, <1>2, <1>3 DEF Merges
<1> QED
  BY <1>1, <1>3, <1>4, NoneAssumption DEF C

\* A cell that is read becomes the Scanner's last.
LEMMA ReadFacts ==
    ASSUME IInv, NEW c \in Cell, Read(c)
    PROVE  /\ sc \in Scanners /\ cells \in Merges /\ cells # None
           /\ sc' \in Scanners /\ sc' # None
           /\ sc'.tab = sc.tab /\ sc'.rows = sc.rows /\ sc'.last = c
<1>1. sc \in Scanners /\ cells \in Merges /\ cells # None
  BY DEF Read, IInv, Types, ClientAt
<1>2. sc' = [sc EXCEPT !.last = c]
  BY DEF Read
<1>3. sc' \in Scanners
  BY <1>1, <1>2 DEF Scanners
<1> QED
  BY <1>1, <1>2, <1>3, NoneAssumption DEF Scanners

\* A merge that has ended stays as it was otherwise.
LEMMA ReadEndFacts ==
    ASSUME IInv, ReadEnd
    PROVE  /\ sc \in Scanners /\ cells \in Merges /\ cells # None
           /\ cells' \in Merges /\ cells' # None
           /\ cells'.ended /\ cells'.files = cells.files
           /\ cells'.must = cells.must /\ cells'.may = cells.may
<1>1. sc \in Scanners /\ cells \in Merges /\ cells # None
  BY DEF ReadEnd, IInv, Types, ClientAt
<1>2. cells' = [cells EXCEPT !.ended = TRUE]
  BY DEF ReadEnd
<1>3. cells' \in Merges
  BY <1>1, <1>2 DEF Merges
<1> QED
  BY <1>1, <1>2, <1>3, NoneAssumption DEF Merges

\* A write may add a cell to an open merge of its row.
LEMMA InsertFacts ==
    ASSUME IInv, NEW c \in Cell, Insert(c)
    PROVE  /\ cells = None => cells' = None
           /\ cells # None =>
                 /\ sc \in Scanners /\ cells \in Merges
                 /\ cells' \in Merges /\ cells' # None
                 /\ cells'.ended = cells.ended /\ cells'.files = cells.files
                 /\ cells'.must = cells.must
                 /\ \/ cells'.may = cells.may
                    \/ /\ cells'.may = cells.may \cup {c}
                       /\ RowOf[c] \in ReopenRows
<1>1. CASE cells = None
  BY <1>1 DEF Insert
<1>2. CASE cells # None /\ RowOf[c] \in ReopenRows
  <2>1. cells \in Merges /\ sc \in Scanners
    BY <1>2 DEF IInv, Types, ClientAt
  <2>2. cells' = [cells EXCEPT !.may = @ \cup {c}]
    BY <1>2 DEF Insert
  <2>3. cells' \in Merges
    BY <2>1, <2>2 DEF Merges
  <2> QED
    BY <1>2, <2>1, <2>2, <2>3, NoneAssumption DEF Merges
<1>3. CASE cells # None /\ RowOf[c] \notin ReopenRows
  BY <1>3 DEF Insert, IInv, Types, ClientAt
<1> QED
  BY <1>1, <1>2, <1>3

\* An open merge need not return a cell that is erased.
LEMMA EraseFacts ==
    ASSUME IInv, NEW c \in Cell, Erase(c)
    PROVE  /\ cells = None => cells' = None
           /\ cells # None =>
                 /\ sc \in Scanners /\ cells \in Merges
                 /\ cells' \in Merges /\ cells' # None
                 /\ cells'.ended = cells.ended /\ cells'.files = cells.files
                 /\ cells'.may = cells.may
                 /\ cells'.must = cells.must \ {c}
<1>1. CASE cells = None
  BY <1>1 DEF Erase
<1>2. CASE cells # None
  <2>1. cells \in Merges /\ sc \in Scanners
    BY <1>2 DEF IInv, Types, ClientAt
  <2>2. cells' = [cells EXCEPT !.must = @ \ {c}]
    BY <1>2 DEF Erase
  <2>3. cells' \in Merges
    BY <2>1, <2>2 DEF Merges
  <2> QED
    BY <1>2, <2>1, <2>2, <2>3, NoneAssumption DEF Merges
<1> QED
  BY <1>1, <1>2

-----------------------------------------------------------------------------
(* Each part is kept by every action.                                      *)

\* The types are kept.
LEMMA TypesKept == ASSUME IInv, [Next]_vars PROVE Types'
<1> USE TableScanAssumption
<1>1. ASSUME NEW R \in SUBSET Row \ {{}}, Scan(R) PROVE Types'
  BY <1>1 DEF Scan, OnRows, IInv, Types, vars, tableVars, scanVars,
     historyVars
<1>2. ASSUME Get PROVE Types'
  BY <1>2 DEF Get, From, IInv, Types, vars, tableVars, scanVars, historyVars
<1>3. ASSUME NothingLeft PROVE Types'
  BY <1>3 DEF NothingLeft, IInv, Types, vars, tableVars, scanVars, historyVars
<1>4. ASSUME OpenScanner PROVE Types'
  BY <1>4, OpenScannerFacts DEF OpenScanner, IInv, Types, vars, tableVars,
     scanVars, historyVars
<1>5. ASSUME InnerOpen PROVE Types'
  BY <1>5 DEF InnerOpen, IInv, Types, vars, tableVars, scanVars, historyVars
<1>6. ASSUME InnerReopen PROVE Types'
  BY <1>6 DEF InnerReopen, IInv, Types, vars, tableVars, scanVars, historyVars
<1>7. ASSUME InnerOutOfTablet PROVE Types'
  BY <1>7 DEF InnerOutOfTablet, InnerEnd, IInv, Types, vars, tableVars,
     scanVars, historyVars
<1>8. ASSUME Validate PROVE Types'
  BY <1>8 DEF Validate, IInv, Types, vars, tableVars, scanVars, historyVars
<1>9. ASSUME NotInTablet PROVE Types'
  BY <1>9 DEF NotInTablet, IInv, Types, vars, tableVars, scanVars, historyVars
<1>10. ASSUME Merge PROVE Types'
  BY <1>10, MergeFacts DEF Merge, IInv, Types, Rescans, vars, tableVars,
     scanVars, historyVars
<1>11. ASSUME NEW c \in Cell, Read(c) PROVE Types'
  <2>1. seen \in Seq(Cell) /\ (seen' = seen \/ seen' = Append(seen, c))
    BY <1>11 DEF Read, IInv, Types
  <2>2. seen' \in Seq(Cell)
    BY <2>1
  <2> QED
    BY <1>11, <2>2, ReadFacts DEF Read, IInv, Types, tableVars
<1>12. ASSUME ReadEnd PROVE Types'
  BY <1>12, ReadEndFacts DEF ReadEnd, InnerEnd, IInv, Types, vars, tableVars,
     scanVars, historyVars
<1>13. ASSUME OpenNext PROVE Types'
  BY <1>13 DEF OpenNext, RowsAfter, From, IInv, Types, vars, tableVars,
     scanVars, historyVars
<1>14. ASSUME NEW t \in Row, NEW r \in Row, SplitTablet(t, r) PROVE Types'
  <2>1. /\ minRow \in [Row -> Nat] /\ minRow[t] \in Nat /\ r \in Nat
        /\ minRow' = [minRow EXCEPT ![r] = minRow[t], ![t] = r]
    BY <1>14 DEF SplitTablet, IInv, Types, Row
  <2>2. minRow' \in [Row -> Nat]
    BY <2>1
  <2> QED
    BY <1>14, <2>2 DEF SplitTablet, IInv, Types, scanVars, historyVars, NoRepl
<1>15. ASSUME UpdateSuperScanners PROVE Types'
  BY <1>15 DEF UpdateSuperScanners, IInv, Types, vars, tableVars, scanVars,
     historyVars
<1>16. ASSUME NEW t \in Row, NEW F \in SUBSET chain[t], NEW f \in Frag,
             SwapFragments(t, F, f)
      PROVE  Types'
  BY <1>16 DEF SwapFragments, IInv, Types, vars, tableVars, scanVars,
     historyVars
<1>17. ASSUME UpdateScanners PROVE Types'
  <2>1. repl # NoRepl /\ repl' = [repl EXCEPT !.pc = "updated"]
    BY <1>17 DEF UpdateScanners, NoRepl
  <2>2. repl' \in [pc : {"swapped", "updated"}, tab : Row, old : SUBSET Frag]
    BY <2>1 DEF IInv, Types
  <2> QED
    BY <1>17, <2>2 DEF UpdateScanners, ResetCells, IInv, Types, tableVars,
       historyVars
<1>18. ASSUME ReleaseOld PROVE Types'
  BY <1>18 DEF ReleaseOld, NoRepl, IInv, Types, vars, tableVars, scanVars,
     historyVars
<1>19. ASSUME NEW c \in Cell, Insert(c) PROVE Types'
  <2>1. cells' \in Merges \cup {None}
    BY <1>19, InsertFacts
  <2> QED
    BY <1>19, <2>1 DEF Insert, IInv, Types, NoRepl, historyVars
<1>20. ASSUME NEW c \in Cell, Erase(c) PROVE Types'
  <2>1. table' \subseteq Cell /\ due' \subseteq table'
    BY <1>20 DEF Erase, IInv, Types
  <2>2. cells' \in Merges \cup {None}
    BY <1>20, EraseFacts
  <2> QED
    BY <1>20, <2>1, <2>2 DEF Erase, IInv, Types, NoRepl
<1>21. ASSUME UNCHANGED vars
      PROVE  Types'
  BY <1>21 DEF IInv, Types, vars, tableVars, scanVars, historyVars
<1> QED BY <1>1, <1>2, <1>3, <1>4, <1>5, <1>6, <1>7, <1>8, <1>9, <1>10, <1>11,
   <1>12, <1>13, <1>14, <1>15, <1>16, <1>17, <1>18, <1>19, <1>20, <1>21 DEF
   Next, Client, Server

\* The tablets go on covering the rows, and the Scanner has one of them.
LEMMA CoverKept == ASSUME IInv, [Next]_vars PROVE TabletsCover'
<1>1. ASSUME OpenScanner PROVE TabletsCover'
  BY <1>1, OpenScannerFacts DEF OpenScanner, IInv, TabletsCover, Rows, vars,
     tableVars, scanVars, historyVars
<1>2. ASSUME NEW c \in Cell, Read(c) PROVE TabletsCover'
  BY <1>2, ReadFacts DEF Read, IInv, TabletsCover, Rows, ClientAt, vars,
     tableVars, scanVars, historyVars
<1>3. ASSUME NEW t \in Row, NEW r \in Row,
             SplitTablet(t, r)
      PROVE  TabletsCover'
  <2>1. /\ t \in Nat /\ r \in Nat /\ minRow[t] \in Nat
        /\ minRow \in [Row -> Nat] /\ live \subseteq Row /\ Row \subseteq Nat
    BY TableScanAssumption DEF IInv, Types, Row
  <2>2. /\ live' = live \cup {r} /\ t \in live /\ r < t /\ minRow[t] < r
        /\ minRow'[r] = minRow[t] /\ minRow'[t] = r
        /\ \A v \in Row : v # r /\ v # t => minRow'[v] = minRow[v]
    BY <1>3, <2>1 DEF SplitTablet
  <2>3. \A u, v \in live : u < v => u <= minRow[v]
    BY DEF IInv, TabletsCover
  <2>4. r \notin live
    BY <1>3, SplitIsNew
  <2>5. ASSUME NEW q \in Row PROVE \E u \in live' : q \in Rows(u)'
    <3>1. PICK u \in live : q \in Rows(u)
      BY DEF IInv, TabletsCover
    <3>2. CASE u = t /\ q <= r
      <4>1. q \in Rows(r)'
        BY <3>1, <3>2, <2>1, <2>2 DEF Rows
      <4> QED BY <2>2, <4>1
    <3>3. CASE u = t /\ q > r
      <4>1. q \in Rows(t)'
        BY <3>1, <3>3, <2>1, <2>2 DEF Rows
      <4> QED BY <2>2, <4>1
    <3>4. CASE u # t
      <4>1. q \in Rows(u)'
        BY <3>1, <3>4, <2>1, <2>2, <2>4 DEF Rows
      <4> QED BY <2>2, <4>1
    <3> QED
      BY <2>1, <3>2, <3>3, <3>4
  <2>6. \A u, v \in live' : u < v => u <= minRow'[v]
    <3> SUFFICES ASSUME NEW u \in live', NEW v \in live', u < v
                 PROVE  u <= minRow'[v]
      OBVIOUS
    <3>1. CASE v = r
      BY <3>1, <2>1, <2>2, <2>3
    <3>2. CASE v = t
      BY <3>2, <2>1, <2>2, <2>3
    <3>3. CASE v # r /\ v # t
      BY <3>3, <2>1, <2>2, <2>3
    <3> QED
      BY <3>1, <3>2, <3>3
  <2> QED
    BY <1>3, <2>5, <2>6 DEF SplitTablet, IInv, TabletsCover, scanVars
<1>4. ASSUME UpdateSuperScanners PROVE TabletsCover'
  BY <1>4 DEF UpdateSuperScanners, IInv, TabletsCover, Rows, vars, tableVars,
     scanVars, historyVars
<1>5. ASSUME (\E R \in SUBSET Row \ {{}} : Scan(R)) \/ Get \/ NothingLeft \/
                InnerOpen \/ InnerReopen \/ InnerOutOfTablet \/ Validate \/
                NotInTablet \/ Merge \/ ReadEnd \/ OpenNext \/ (\E t, F,
                f : SwapFragments(t, F, f)) \/ UpdateScanners \/ ReleaseOld
                \/ (\E c \in Cell : Insert(c)) \/ (\E c \in Cell : Erase(c))
                \/ UNCHANGED vars
      PROVE  TabletsCover'
  BY <1>5 DEF Scan, Get, NothingLeft, InnerOpen, InnerReopen,
     InnerOutOfTablet, Validate, NotInTablet, Merge, ReadEnd, OpenNext,
     SwapFragments, UpdateScanners, ReleaseOld, Insert, Erase, IInv,
     TabletsCover, Rows, InnerEnd, vars, tableVars, scanVars, historyVars
<1> QED BY <1>1, <1>2, <1>3, <1>4, <1>5 DEF Next, Client, Server

\* The client's place, and what it has there, go together.
LEMMA ClientKept == ASSUME IInv, [Next]_vars PROVE ClientAt'
<1> USE NoneAssumption
<1>1. ASSUME NEW R \in SUBSET Row \ {{}}, Scan(R) PROVE ClientAt'
  BY <1>1 DEF Scan, IInv, Types, ClientAt, vars, tableVars, scanVars,
     historyVars
<1>2. ASSUME Get PROVE ClientAt'
  BY <1>2 DEF Get, IInv, Types, ClientAt, vars, tableVars, scanVars,
     historyVars
<1>3. ASSUME NothingLeft PROVE ClientAt'
  BY <1>3 DEF NothingLeft, IInv, Types, ClientAt, vars, tableVars, scanVars,
     historyVars
<1>4. ASSUME OpenScanner PROVE ClientAt'
  BY <1>4, OpenScannerFacts DEF OpenScanner, IInv, Types, ClientAt, vars,
     tableVars, scanVars, historyVars
<1>5. ASSUME InnerOpen PROVE ClientAt'
  BY <1>5 DEF InnerOpen, IInv, Types, ClientAt, vars, tableVars, scanVars,
     historyVars
<1>6. ASSUME InnerReopen PROVE ClientAt'
  BY <1>6 DEF InnerReopen, IInv, Types, ClientAt, vars, tableVars, scanVars,
     historyVars
<1>7. ASSUME InnerOutOfTablet PROVE ClientAt'
  BY <1>7 DEF InnerOutOfTablet, InnerEnd, IInv, Types, ClientAt, vars,
     tableVars, scanVars, historyVars
<1>8. ASSUME Validate PROVE ClientAt'
  BY <1>8 DEF Validate, IInv, Types, ClientAt, vars, tableVars, scanVars,
     historyVars
<1>9. ASSUME NotInTablet PROVE ClientAt'
  BY <1>9 DEF NotInTablet, IInv, Types, ClientAt, vars, tableVars, scanVars,
     historyVars
<1>10. ASSUME Merge PROVE ClientAt'
  BY <1>10, MergeFacts DEF Merge, IInv, Types, ClientAt, vars, tableVars,
     scanVars, historyVars
<1>11. ASSUME NEW c \in Cell, Read(c) PROVE ClientAt'
  BY <1>11, ReadFacts DEF Read, IInv, Types, ClientAt, vars, tableVars,
     scanVars, historyVars
<1>12. ASSUME ReadEnd PROVE ClientAt'
  BY <1>12, ReadEndFacts DEF ReadEnd, IInv, Types, ClientAt, InnerEnd, vars,
     tableVars, scanVars, historyVars
<1>13. ASSUME OpenNext PROVE ClientAt'
  BY <1>13 DEF OpenNext, IInv, Types, ClientAt, vars, tableVars, scanVars,
     historyVars
<1>14. ASSUME UpdateSuperScanners PROVE ClientAt'
  BY <1>14 DEF UpdateSuperScanners, OutsideGet, IInv, Types, ClientAt, vars,
     tableVars, scanVars, historyVars
<1>15. ASSUME UpdateScanners PROVE ClientAt'
  BY <1>15 DEF UpdateScanners, ResetCells, IInv, Types, ClientAt, vars,
     tableVars, scanVars, historyVars
<1>16. ASSUME NEW c \in Cell, Insert(c) PROVE ClientAt'
  BY <1>16, InsertFacts DEF Insert, IInv, Types, ClientAt, vars, tableVars,
     scanVars, historyVars
<1>17. ASSUME NEW c \in Cell, Erase(c) PROVE ClientAt'
  BY <1>17, EraseFacts DEF Erase, IInv, Types, ClientAt, vars, tableVars,
     scanVars, historyVars
<1>18. ASSUME (\E t, r \in Row : SplitTablet(t, r)) \/ (\E t, F, f :
                SwapFragments(t, F, f)) \/ ReleaseOld \/ UNCHANGED vars
      PROVE  ClientAt'
  BY <1>18 DEF SplitTablet, SwapFragments, ReleaseOld, IInv, Types, ClientAt,
     vars, tableVars, scanVars, historyVars
<1> QED BY <1>1, <1>2, <1>3, <1>4, <1>5, <1>6, <1>7, <1>8, <1>9, <1>10, <1>11,
   <1>12, <1>13, <1>14, <1>15, <1>16, <1>17, <1>18 DEF Next, Client, Server

\* Files that a merge reads are kept.
LEMMA FilesKept == ASSUME IInv, [Next]_vars PROVE FilesHeld'
<1>1. ASSUME OpenScanner PROVE FilesHeld'
  BY <1>1, OpenScannerFacts DEF OpenScanner, IInv, Types, ClientAt, FilesHeld,
     vars, tableVars, scanVars, historyVars
<1>2. ASSUME Merge PROVE FilesHeld'
  BY <1>2, MergeFacts DEF Merge, IInv, Types, ClientAt, FilesHeld, vars,
     tableVars, scanVars, historyVars
<1>3. ASSUME NEW c \in Cell, Read(c) PROVE FilesHeld'
  BY <1>3, ReadFacts DEF Read, IInv, Types, ClientAt, FilesHeld, vars,
     tableVars, scanVars, historyVars
<1>4. ASSUME ReadEnd PROVE FilesHeld'
  BY <1>4, ReadEndFacts DEF ReadEnd, IInv, Types, ClientAt, FilesHeld, vars,
     tableVars, scanVars, historyVars
<1>5. ASSUME NEW t \in Row, NEW r \in Row, SplitTablet(t, r) PROVE FilesHeld'
  <2>1. /\ r \notin live /\ t \in live /\ live' = live \cup {r}
        /\ chain' = [chain EXCEPT ![r] = chain[t]]
    BY <1>5, SplitIsNew DEF SplitTablet
  <2>2. chain'[r] = chain[t] /\ \A u \in live : chain'[u] = chain[u]
    BY <2>1 DEF IInv, Types
  <2>3. cells # None => chain'[sc.tab] = chain[sc.tab]
    BY <2>2 DEF IInv, ClientAt, TabletsCover
  <2> QED
    BY <1>5, <2>1, <2>2, <2>3 DEF SplitTablet, IInv, FilesHeld, scanVars
<1>6. ASSUME UpdateSuperScanners PROVE FilesHeld'
  BY <1>6 DEF UpdateSuperScanners, IInv, Types, ClientAt, FilesHeld, vars,
     tableVars, scanVars, historyVars
<1>7. ASSUME NEW t \in Row, NEW F \in SUBSET chain[t], NEW f \in Frag,
             SwapFragments(t, F, f)
      PROVE  FilesHeld'
  BY <1>7 DEF SwapFragments, NoRepl, TabletsCover, Scanners, IInv, Types,
     ClientAt, FilesHeld, vars, tableVars, scanVars, historyVars
<1>8. ASSUME UpdateScanners PROVE FilesHeld'
  BY <1>8 DEF UpdateScanners, ResetCells, NoRepl, IInv, Types, ClientAt,
     FilesHeld, vars, tableVars, scanVars, historyVars
<1>9. ASSUME ReleaseOld PROVE FilesHeld'
  BY <1>9 DEF ReleaseOld, NoRepl, TabletsCover, IInv, Types, ClientAt,
     FilesHeld, vars, tableVars, scanVars, historyVars
<1>10. ASSUME NEW c \in Cell, Insert(c) PROVE FilesHeld'
  BY <1>10, InsertFacts DEF Insert, IInv, Types, ClientAt, FilesHeld, vars,
     tableVars, scanVars, historyVars
<1>11. ASSUME NEW c \in Cell, Erase(c) PROVE FilesHeld'
  BY <1>11, EraseFacts DEF Erase, IInv, Types, ClientAt, FilesHeld, vars,
     tableVars, scanVars, historyVars
<1>12. ASSUME (\E R \in SUBSET Row \ {{}} : Scan(R)) \/ Get \/ NothingLeft \/
                InnerOpen \/ InnerReopen \/ InnerOutOfTablet \/ Validate \/
                NotInTablet \/ OpenNext \/ UNCHANGED vars
      PROVE  FilesHeld'
  BY <1>12 DEF Scan, Get, NothingLeft, InnerOpen, InnerReopen,
     InnerOutOfTablet, Validate, NotInTablet, OpenNext, IInv, Types, ClientAt,
     FilesHeld, vars, tableVars, scanVars, historyVars
<1> QED BY <1>1, <1>2, <1>3, <1>4, <1>5, <1>6, <1>7, <1>8, <1>9, <1>10, <1>11,
   <1>12 DEF Next, Client, Server

\* The Scanner keeps to the rows that remain.
LEMMA ScannerRowsKept == ASSUME IInv, [Next]_vars PROVE ScannerRows'
<1>1. ASSUME NEW R \in SUBSET Row \ {{}}, Scan(R) PROVE ScannerRows'
  BY <1>1 DEF Scan, IInv, Types, ClientAt, ScannerRows, Opened, vars,
     tableVars, scanVars, historyVars
<1>2. ASSUME Get PROVE ScannerRows'
  <2>1. CASE sc = None
    <3>1. \A r \in remaining' : last # 0 => RowOf[last] <= r
      BY <1>2, <2>1 DEF Get, From
    <3> QED
      BY <1>2, <2>1, <3>1 DEF Get, ScannerRows, Opened, historyVars
  <2>2. CASE sc # None
    BY <1>2, <2>2 DEF Get, IInv, ScannerRows, Opened, historyVars
  <2> QED
    BY <2>1, <2>2
<1>3. ASSUME NothingLeft PROVE ScannerRows'
  BY <1>3 DEF NothingLeft, IInv, Types, ClientAt, ScannerRows, Opened, vars,
     tableVars, scanVars, historyVars
<1>4. ASSUME OpenScanner PROVE ScannerRows'
  <2> DEFINE t == Owner(Min(remaining))
  <2>1. remaining # {} /\ pc = "open" /\ UNCHANGED <<remaining, last>>
    BY <1>4 DEF OpenScanner
  <2>2. /\ Min(remaining) \in remaining /\ Min(remaining) \in Rows(t)
        /\ \A r \in remaining : Min(remaining) <= r
    BY <2>1, FirstRow DEF IInv
  <2>3. /\ sc' # None /\ sc'.tab = t /\ sc'.last = 0 /\ t \in live
        /\ sc'.rows = remaining \cap Rows(t)
    BY <1>4, OpenScannerFacts
  <2>4. /\ t \in Nat /\ minRow[t] \in Nat /\ remaining \subseteq Nat
        /\ last \in Nat /\ (last # 0 => RowOf[last] \in Nat)
    BY <2>3, CellOrder DEF IInv, Types
  <2>5. last # 0 => \A r \in remaining : RowOf[last] <= r
    BY <2>1 DEF IInv, ScannerRows
  <2> HIDE DEF t
  <2>6. sc'.rows = {r \in remaining' : r <= sc'.tab}
    <3>1. \A r \in remaining : r \in Rows(t) <=> r <= t
      BY <2>2, <2>4 DEF Rows
    <3> QED
      BY <2>1, <2>3, <3>1
  <2>7. last # 0 => RowOf[last] <= t
    BY <2>2, <2>4, <2>5 DEF Rows
  <2>8. pc' = "inner"
    BY <1>4 DEF OpenScanner
  <2>9. sc'.last <= last' /\ (sc'.last # last' =>
                                 \A r \in sc'.rows : RowOf[last'] <= r)
    <3>1. last' = last /\ sc'.last = 0 /\ 0 <= last
      BY <2>1, <2>3, <2>4
    <3>2. \A r \in sc'.rows : r \in remaining
      BY <2>3
    <3> QED
      BY <2>5, <3>1, <3>2
  <2>10. last' # 0 => RowOf[last'] <= sc'.tab
    BY <2>1, <2>3, <2>7
  <2> QED
    BY <2>6, <2>8, <2>9, <2>10 DEF ScannerRows
<1>5. ASSUME InnerOpen PROVE ScannerRows'
  BY <1>5 DEF InnerOpen, IInv, Types, ClientAt, ScannerRows, Opened, vars,
     tableVars, scanVars, historyVars
<1>6. ASSUME InnerReopen PROVE ScannerRows'
  BY <1>6 DEF InnerReopen, IInv, Types, ClientAt, ScannerRows, Opened, vars,
     tableVars, scanVars, historyVars
<1>7. ASSUME InnerOutOfTablet PROVE ScannerRows'
  BY <1>7 DEF InnerOutOfTablet, InnerEnd, IInv, ClientAt, ScannerRows, Opened
<1>8. ASSUME Validate PROVE ScannerRows'
  BY <1>8 DEF Validate, IInv, Types, ClientAt, ScannerRows, Opened, vars,
     tableVars, scanVars, historyVars
<1>9. ASSUME NotInTablet PROVE ScannerRows'
  BY <1>9 DEF NotInTablet, IInv, Types, ClientAt, ScannerRows, Opened, vars,
     tableVars, scanVars, historyVars
<1>10. ASSUME Merge PROVE ScannerRows'
  BY <1>10, MergeFacts DEF Merge, IInv, Types, ClientAt, ScannerRows, Opened,
     vars, tableVars, scanVars, historyVars
<1>11. ASSUME NEW c \in Cell, Read(c) PROVE ScannerRows'
  <2>1. /\ sc \in Scanners /\ sc'.tab = sc.tab /\ sc'.rows = sc.rows
        /\ sc'.last = c /\ Opened /\ status' = status /\ remaining' = remaining
        /\ lost' = lost /\ cells # None /\ c \in cells.may /\ pc' # "open"
    BY <1>11, ReadFacts DEF Read, IInv, ClientAt, Opened
  <2>2. c \in Nat /\ last \in Nat /\ sc.tab \in Nat /\ sc.rows \subseteq Nat
    BY <2>1, CellOrder DEF IInv, Types, Scanners
  <2>3. RowOf[c] \in sc.rows
    BY <2>1 DEF IInv, DueIsInMerge
  <2>4. sc.rows = {r \in remaining : r <= sc.tab}
    BY <2>1 DEF IInv, ScannerRows
  <2>5. last' = c \/ (last' = last /\ c <= last)
    BY <1>11 DEF Read
  <2>6. CASE last' = c
    BY <2>1, <2>2, <2>3, <2>4, <2>6 DEF ScannerRows, Opened
  <2>7. CASE last' = last /\ c <= last
    <3>1. ~lost /\ c # last => \A r \in sc.rows : RowOf[last] <= r
      BY <1>11, <2>1, <2>2, <2>7 DEF Read, Position, IInv, ScannerRows, Scanners
    <3> QED
      BY <2>1, <2>2, <2>7, <3>1 DEF IInv, ScannerRows, Opened
  <2> QED
    BY <2>5, <2>6, <2>7
<1>12. ASSUME ReadEnd PROVE ScannerRows'
  BY <1>12 DEF ReadEnd, InnerEnd, IInv, ClientAt, ScannerRows, Opened, historyVars
<1>13. ASSUME OpenNext PROVE ScannerRows'
  <2>1. Opened /\ sc \in Scanners
    BY <1>13 DEF OpenNext, IInv, Types, ClientAt, Opened
  <2>2. last # 0 => RowOf[last] <= sc.tab /\ RowOf[last] \in Nat
    BY <2>1, CellOrder DEF IInv, ScannerRows, Types
  <2>3. sc.tab \in Nat /\ remaining \subseteq Nat
    BY <2>1, CellOrder DEF Scanners, IInv, Types
  <2>4. CASE sc.tab = NRows
    BY <1>13, <2>4 DEF OpenNext, ScannerRows, Opened
  <2>5. CASE sc.tab # NRows
    <3>1. \A r \in remaining' : sc.tab < r
      <4>1. remaining' = {r \in remaining : r >= sc.tab + 1}
        BY <1>13, <2>5 DEF OpenNext, RowsAfter, From
      <4> QED
        BY <2>3, <4>1
    <3>2. remaining' \subseteq Nat
      BY <1>13, <2>3, <2>5 DEF OpenNext, RowsAfter, From
    <3> QED
      BY <1>13, <2>2, <2>3, <2>5, <3>1, <3>2 DEF OpenNext, ScannerRows, Opened
  <2> QED
    BY <2>4, <2>5
<1>14. ASSUME UpdateSuperScanners PROVE ScannerRows'
  BY <1>14 DEF UpdateSuperScanners, IInv, Types, ClientAt, ScannerRows,
     Opened, vars, tableVars, scanVars, historyVars
<1>15. ASSUME (\E t, r \in Row : SplitTablet(t, r)) \/ (\E t, F, f :
                SwapFragments(t, F, f)) \/ UpdateScanners \/ ReleaseOld \/ (\E
                c \in Cell : Insert(c)) \/ (\E c \in Cell : Erase(c)) \/
                UNCHANGED vars
      PROVE  ScannerRows'
  BY <1>15 DEF SplitTablet, SwapFragments, UpdateScanners, ReleaseOld, Insert,
     Erase, IInv, Types, ClientAt, ScannerRows, Opened, vars, tableVars,
     scanVars, historyVars
<1> QED BY <1>1, <1>2, <1>3, <1>4, <1>5, <1>6, <1>7, <1>8, <1>9, <1>10, <1>11,
   <1>12, <1>13, <1>14, <1>15 DEF Next, Client, Server

\* The open merge goes on to have what is due.
LEMMA DueIsInMergeKept == ASSUME IInv, [Next]_vars PROVE DueIsInMerge'
<1>1. ASSUME NEW R \in SUBSET Row \ {{}}, Scan(R) PROVE DueIsInMerge'
  BY <1>1 DEF Scan, IInv, Types, ClientAt, DueIsInMerge, vars, tableVars,
     scanVars, historyVars
<1>2. ASSUME OpenScanner PROVE DueIsInMerge'
  BY <1>2, OpenScannerFacts DEF OpenScanner, IInv, Types, ClientAt,
     DueIsInMerge, vars, tableVars, scanVars, historyVars
<1>3. ASSUME Merge PROVE DueIsInMerge'
  <2>1. sc \in Scanners /\ UNCHANGED <<sc, due>> /\ due \subseteq table
        /\ table \subseteq Cell
    BY <1>3, MergeFacts DEF Merge, IInv, Types
  <2>2. /\ cells'.must = {c \in table : RowOf[c] \in ReopenRows}
        /\ cells'.may = {c \in table : RowOf[c] \in ReopenRows}
        /\ ~cells'.ended
    BY <1>3, MergeFacts DEF OnRows
  <2>3. ReopenRows \subseteq sc.rows /\ \A d \in Cell :
            RowOf[d] \in sc.rows /\ d > sc.last => RowOf[d] \in ReopenRows
    BY <2>1, ReopenRowsOf
  <2> QED
    BY <2>1, <2>2, <2>3 DEF DueIsInMerge
<1>4. ASSUME NEW c \in Cell, Read(c) PROVE DueIsInMerge'
  <2>1. /\ sc \in Scanners /\ sc'.rows = sc.rows /\ sc'.last = c
        /\ cells # None /\ UNCHANGED <<cells, due>> /\ ~cells.ended
        /\ c > sc.last
    BY <1>4, ReadFacts DEF Read, Position
  <2>2. c \in Nat /\ sc.last \in Nat /\ due \subseteq Nat
    BY <2>1, CellOrder DEF IInv, Types, Scanners
  <2> QED
    BY <2>1, <2>2 DEF IInv, DueIsInMerge
<1>5. ASSUME ReadEnd PROVE DueIsInMerge'
  <2>1. /\ cells # None /\ cells'.must = cells.must /\ cells'.may = cells.may
        /\ UNCHANGED <<sc, due>>
    BY <1>5, ReadEndFacts DEF ReadEnd, historyVars
  <2>2. cells.ended \/ \A d \in cells.must : d <= sc.last
    BY <1>5 DEF ReadEnd, Position
  <2> QED
    BY <2>1, <2>2 DEF IInv, DueIsInMerge
<1>6. ASSUME UpdateSuperScanners PROVE DueIsInMerge'
  BY <1>6 DEF UpdateSuperScanners, IInv, Types, ClientAt, DueIsInMerge, vars,
     tableVars, scanVars, historyVars
<1>7. ASSUME UpdateScanners PROVE DueIsInMerge'
  BY <1>7 DEF UpdateScanners, ResetCells, IInv, Types, ClientAt, DueIsInMerge,
     vars, tableVars, scanVars, historyVars
<1>8. ASSUME NEW c \in Cell, Insert(c) PROVE DueIsInMerge'
  <2>1. UNCHANGED <<sc, due>>
    BY <1>8 DEF Insert, historyVars
  <2>2. CASE cells # None
    <3>1. /\ sc \in Scanners /\ cells'.ended = cells.ended
          /\ cells'.must = cells.must
          /\ \/ cells'.may = cells.may
             \/ cells'.may = cells.may \cup {c} /\ RowOf[c] \in ReopenRows
      BY <1>8, <2>2, InsertFacts
    <3>2. ReopenRows \subseteq sc.rows
      BY <3>1, ReopenRowsOf
    <3> QED
      BY <2>1, <2>2, <3>1, <3>2 DEF IInv, DueIsInMerge
  <2> QED
    BY <1>8, <2>2, InsertFacts DEF DueIsInMerge
<1>9. ASSUME NEW c \in Cell, Erase(c) PROVE DueIsInMerge'
  BY <1>9, EraseFacts DEF Erase, IInv, Types, ClientAt, DueIsInMerge, vars,
     tableVars, scanVars, historyVars
<1>10. ASSUME Get \/ NothingLeft \/ InnerOpen \/ InnerReopen \/
                InnerOutOfTablet \/ Validate \/ NotInTablet \/ OpenNext \/ (\E
                t, r \in Row : SplitTablet(t, r)) \/ (\E t, F, f :
                SwapFragments(t, F, f)) \/ ReleaseOld \/ UNCHANGED vars
      PROVE  DueIsInMerge'
  BY <1>10 DEF Get, NothingLeft, InnerOpen, InnerReopen, InnerOutOfTablet,
     Validate, NotInTablet, OpenNext, SplitTablet, SwapFragments, ReleaseOld,
     IInv, Types, ClientAt, DueIsInMerge, vars, tableVars, scanVars,
     historyVars
<1> QED BY <1>1, <1>2, <1>3, <1>4, <1>5, <1>6, <1>7, <1>8, <1>9, <1>10 DEF
   Next, Client, Server

\* The Scanner goes on to read ahead of the last cell.
LEMMA ReadsAheadKept == ASSUME IInv, [Next]_vars PROVE ReadsAhead'
<1>1. ASSUME NEW R \in SUBSET Row \ {{}}, Scan(R) PROVE ReadsAhead'
  BY <1>1 DEF Scan, IInv, Types, ClientAt, ReadsAhead, Opened, vars,
     tableVars, scanVars, historyVars
<1>2. ASSUME Get PROVE ReadsAhead'
  BY <1>2 DEF Get, IInv, Types, ClientAt, ReadsAhead, Opened, vars, tableVars,
     scanVars, historyVars
<1>3. ASSUME NothingLeft PROVE ReadsAhead'
  BY <1>3 DEF NothingLeft, IInv, Types, ClientAt, ReadsAhead, Opened, vars,
     tableVars, scanVars, historyVars
<1>4. ASSUME OpenScanner PROVE ReadsAhead'
  BY <1>4, OpenScannerFacts DEF OpenScanner, IInv, Types, ClientAt,
     ReadsAhead, Opened, vars, tableVars, scanVars, historyVars
<1>5. ASSUME InnerOpen PROVE ReadsAhead'
  BY <1>5 DEF InnerOpen, IInv, Types, ClientAt, ReadsAhead, Opened, vars,
     tableVars, scanVars, historyVars
<1>6. ASSUME InnerReopen PROVE ReadsAhead'
  BY <1>6 DEF InnerReopen, IInv, Types, ClientAt, ReadsAhead, Opened, vars,
     tableVars, scanVars, historyVars
<1>7. ASSUME InnerOutOfTablet PROVE ReadsAhead'
  BY <1>7 DEF InnerOutOfTablet, IInv, Types, ClientAt, ReadsAhead, Opened,
     vars, tableVars, scanVars, historyVars
<1>8. ASSUME Validate PROVE ReadsAhead'
  BY <1>8 DEF Validate, IInv, Types, ClientAt, ReadsAhead, Opened, vars,
     tableVars, scanVars, historyVars
<1>9. ASSUME NotInTablet PROVE ReadsAhead'
  BY <1>9 DEF NotInTablet, IInv, Types, ClientAt, ReadsAhead, Opened, vars,
     tableVars, scanVars, historyVars
<1>10. ASSUME Merge PROVE ReadsAhead'
  <2>1. sc \in Scanners /\ UNCHANGED <<sc, last, skip>> /\ Opened
    BY <1>10, MergeFacts DEF Merge, IInv, ClientAt, Opened
  <2> SUFFICES ASSUME ~lost', ~skip, sc.last # last
               PROVE  \A r \in sc.rows : RowOf[last] < r
    BY <2>1 DEF ReadsAhead
  <2>2. ~lost /\ ~Rescans
    BY <1>10 DEF Merge
  <2>3. sc.last <= last /\ \A r \in sc.rows : RowOf[last] <= r
    BY <2>1, <2>2 DEF IInv, ScannerRows
  <2>4. /\ last \in Cell \cup {0} /\ sc.last \in Cell \cup {0}
        /\ sc.rows \subseteq Row
    BY <2>1 DEF IInv, Types, Scanners
  <2>5. last # 0 /\ last \in Cell /\ sc.last < last
    BY <2>3, <2>4, CellOrder
  <2>6. RowOf[last] \notin ReopenRows
    BY <2>2, <2>5 DEF Rescans
  <2>7. RowOf[last] \notin sc.rows
    BY <2>1, <2>5, <2>6, ReopenRowsOf
  <2> QED
    BY <2>3, <2>4, <2>5, <2>7, CellOrder
<1>11. ASSUME NEW c \in Cell, Read(c) PROVE ReadsAhead'
  BY <1>11, ReadFacts DEF Read, IInv, Types, ClientAt, ReadsAhead, Opened,
     vars, tableVars, scanVars, historyVars
<1>12. ASSUME ReadEnd PROVE ReadsAhead'
  BY <1>12, ReadEndFacts DEF ReadEnd, IInv, Types, ClientAt, ReadsAhead,
     Opened, vars, tableVars, scanVars, historyVars
<1>13. ASSUME OpenNext PROVE ReadsAhead'
  BY <1>13 DEF OpenNext, IInv, Types, ClientAt, ReadsAhead, Opened, vars,
     tableVars, scanVars, historyVars
<1>14. ASSUME UpdateSuperScanners PROVE ReadsAhead'
  BY <1>14 DEF UpdateSuperScanners, IInv, Types, ClientAt, ReadsAhead, Opened,
     vars, tableVars, scanVars, historyVars
<1>15. ASSUME UpdateScanners PROVE ReadsAhead'
  BY <1>15 DEF UpdateScanners, ResetCells, IInv, Types, ClientAt, ReadsAhead,
     Opened, vars, tableVars, scanVars, historyVars
<1>16. ASSUME NEW c \in Cell, Insert(c) PROVE ReadsAhead'
  BY <1>16, InsertFacts DEF Insert, IInv, Types, ClientAt, ReadsAhead, Opened,
     vars, tableVars, scanVars, historyVars
<1>17. ASSUME NEW c \in Cell, Erase(c) PROVE ReadsAhead'
  BY <1>17, EraseFacts DEF Erase, IInv, Types, ClientAt, ReadsAhead, Opened,
     vars, tableVars, scanVars, historyVars
<1>18. ASSUME (\E t, r \in Row : SplitTablet(t, r)) \/ (\E t, F, f :
                SwapFragments(t, F, f)) \/ ReleaseOld \/ UNCHANGED vars
      PROVE  ReadsAhead'
  BY <1>18 DEF SplitTablet, SwapFragments, ReleaseOld, IInv, Types, ClientAt,
     ReadsAhead, Opened, vars, tableVars, scanVars, historyVars
<1> QED BY <1>1, <1>2, <1>3, <1>4, <1>5, <1>6, <1>7, <1>8, <1>9, <1>10, <1>11,
   <1>12, <1>13, <1>14, <1>15, <1>16, <1>17, <1>18 DEF Next, Client, Server

\* The cells returned, when one more is.
LEMMA ReturnedGrows ==
    ASSUME seen \in Seq(Cell)
    PROVE  /\ Returned \subseteq Cell
           /\ \A c \in Cell :
                  seen' = Append(seen, c) => Returned' = Returned \cup {c}
<1>1. Returned \subseteq Cell
  BY DEF Returned
<1>2. ASSUME NEW c \in Cell, seen' = Append(seen, c)
      PROVE  Returned' = Returned \cup {c}
  BY <1>2 DEF Returned
<1> QED
  BY <1>1, <1>2

\* A cell that get() returns is past the last one, and nothing that is due is
\* before it.
LEMMA ReadIsNext ==
    ASSUME IInv, NEW c \in Cell, Read(c), ~lost, seen' = Append(seen, c),
           last' = c
    PROVE  last < c /\ \A d \in due : d < c => d \in Returned
<1>1. /\ sc \in Scanners /\ cells \in Merges /\ cells # None /\ Opened
      /\ status = "open" /\ ~cells.ended /\ c \in cells.may /\ c > sc.last
      /\ \A d \in cells.must : d > sc.last => d >= c
  BY ReadFacts DEF Read, Position, Opened, IInv, ClientAt
<1>2. /\ c \in Nat /\ last \in Nat /\ sc.last \in Nat /\ sc.tab \in Nat
      /\ due \subseteq Cell /\ Cell \subseteq Nat
      /\ last \in Cell \cup {0}
  BY <1>1, CellOrder DEF IInv, Types, Scanners
<1>3. RowOf[c] \in sc.rows /\ sc.rows = {r \in remaining : r <= sc.tab}
  BY <1>1 DEF IInv, DueIsInMerge, ScannerRows
<1>4. last < c
  <2>1. CASE skip
    <3>1. seen # Append(seen, c)
      BY DEF IInv, Types
    <3>2. ~(c <= last)
      BY <2>1, <3>1 DEF Read
    <3> QED
      BY <1>2, <3>2
  <2>2. CASE ~skip /\ sc.last = last
    BY <1>1, <1>2, <2>2
  <2>3. CASE ~skip /\ sc.last # last
    <3>1. RowOf[last] < RowOf[c]
      BY <1>1, <1>3, <2>3 DEF IInv, ReadsAhead
    <3>2. CASE last = 0
      BY <1>2, <3>2, CellOrder
    <3>3. CASE last # 0
      BY <1>2, <3>1, <3>3, CellOrder
    <3> QED
      BY <3>2, <3>3
  <2> QED
    BY <2>1, <2>2, <2>3
<1>5. ASSUME NEW d \in due, d < c, d \notin Returned PROVE FALSE
  <2>1. last < d /\ RowOf[d] \in remaining /\ sc.last <= last
    BY <1>1, <1>5 DEF IInv, DueIsAhead, ScannerRows
  <2>2. RowOf[d] <= RowOf[c] /\ RowOf[d] \in Nat /\ RowOf[c] \in Nat
    BY <1>2, <1>5, CellOrder
  <2>3. RowOf[d] \in sc.rows
    BY <1>2, <1>3, <2>1, <2>2
  <2>4. d > sc.last
    BY <1>2, <2>1
  <2>5. d \in cells.must
    BY <1>1, <2>3, <2>4 DEF IInv, DueIsInMerge
  <2>6. d >= c /\ d \in Nat
    BY <1>1, <1>2, <2>4, <2>5
  <2> QED
    BY <1>2, <1>5, <2>6
<1> QED
  BY <1>4, <1>5

\* What is due stays ahead.
LEMMA DueIsAheadKept == ASSUME IInv, [Next]_vars PROVE DueIsAhead'
<1>1. ASSUME NEW R \in SUBSET Row \ {{}}, Scan(R) PROVE DueIsAhead'
  <2>1. seen = <<>> /\ last = 0 /\ UNCHANGED <<seen, last>> /\ pc' # "next"
    BY <1>1 DEF Scan, IInv, ClientAt
  <2>2. due' \subseteq Cell /\ \A d \in due' : RowOf[d] \in remaining'
    BY <1>1 DEF Scan, OnRows, IInv, Types
  <2>3. Returned' = {}
    BY <2>1 DEF Returned
  <2> QED
    BY <2>1, <2>2, <2>3, CellOrder DEF DueIsAhead
<1>2. ASSUME Get PROVE DueIsAhead'
  <2>1. UNCHANGED <<seen, last, due, status, lost, sc>> /\ pc' # "next"
    BY <1>2 DEF Get, historyVars
  <2>2. Returned' = Returned
    BY <2>1 DEF Returned
  <2>3. due \subseteq Cell /\ last \in Cell \cup {0}
    BY DEF IInv, Types
  <2>4. CASE sc = None /\ last # 0
    BY <1>2, <2>1, <2>2, <2>3, <2>4, CellOrder DEF Get, From, IInv, DueIsAhead
  <2>5. CASE ~(sc = None /\ last # 0)
    BY <1>2, <2>1, <2>2, <2>5 DEF Get, IInv, DueIsAhead
  <2> QED
    BY <2>4, <2>5
<1>3. ASSUME NothingLeft PROVE DueIsAhead'
  BY <1>3 DEF NothingLeft, IInv, Types, ClientAt, DueIsAhead, Returned, vars,
     tableVars, scanVars, historyVars
<1>4. ASSUME OpenScanner PROVE DueIsAhead'
  BY <1>4, OpenScannerFacts DEF OpenScanner, IInv, Types, ClientAt,
     DueIsAhead, Returned, vars, tableVars, scanVars, historyVars
<1>5. ASSUME InnerOpen PROVE DueIsAhead'
  BY <1>5 DEF InnerOpen, IInv, Types, ClientAt, DueIsAhead, Returned, vars,
     tableVars, scanVars, historyVars
<1>6. ASSUME InnerReopen PROVE DueIsAhead'
  BY <1>6 DEF InnerReopen, IInv, Types, ClientAt, DueIsAhead, Returned, vars,
     tableVars, scanVars, historyVars
<1>7. ASSUME InnerOutOfTablet PROVE DueIsAhead'
  BY <1>7 DEF InnerOutOfTablet, IInv, Types, ClientAt, DueIsAhead, Returned,
     vars, tableVars, scanVars, historyVars
<1>8. ASSUME Validate PROVE DueIsAhead'
  BY <1>8 DEF Validate, IInv, Types, ClientAt, DueIsAhead, Returned, vars,
     tableVars, scanVars, historyVars
<1>9. ASSUME NotInTablet PROVE DueIsAhead'
  BY <1>9 DEF NotInTablet, IInv, Types, ClientAt, DueIsAhead, Returned, vars,
     tableVars, scanVars, historyVars
<1>10. ASSUME Merge PROVE DueIsAhead'
  BY <1>10, MergeFacts DEF Merge, IInv, Types, ClientAt, DueIsAhead, Returned,
     vars, tableVars, scanVars, historyVars
<1>11. ASSUME NEW c \in Cell, Read(c) PROVE DueIsAhead'
  <2> SUFFICES ASSUME ~lost PROVE DueIsAhead'
    BY <1>11 DEF Read, DueIsAhead
  <2>1. /\ status = "open" /\ status' = "open" /\ lost' = FALSE /\ pc' # "next"
        /\ UNCHANGED <<due, remaining>>
    BY <1>11 DEF Read, IInv, ClientAt
  <2>2. CASE UNCHANGED <<seen, last>>
    BY <2>1, <2>2 DEF IInv, DueIsAhead, Returned
  <2>3. CASE last' = c /\ seen' = Append(seen, c)
    <3>1. Returned' = Returned \cup {c}
      BY <2>3, ReturnedGrows DEF IInv, Types
    <3>2. last < c /\ (\A d \in due : d < c => d \in Returned)
      BY <1>11, <2>3, ReadIsNext
    <3>3. due \subseteq Nat /\ last \in Nat /\ c \in Nat /\ Returned \subseteq Nat
      BY CellOrder, ReturnedGrows DEF IInv, Types
    <3>4. \A d \in Returned' : d <= c
      BY <2>1, <3>1, <3>2, <3>3 DEF IInv, DueIsAhead
    <3>5. \A d \in due \ Returned' : c < d /\ RowOf[d] \in remaining
      BY <2>1, <3>1, <3>2, <3>3 DEF IInv, DueIsAhead
    <3> QED
      BY <2>1, <2>3, <3>4, <3>5 DEF DueIsAhead
  <2> QED
    BY <1>11, <2>2, <2>3 DEF Read
<1>12. ASSUME ReadEnd PROVE DueIsAhead'
  <2>1. UNCHANGED <<seen, last, due, status, lost, sc, remaining>>
    BY <1>12 DEF ReadEnd, historyVars
  <2>2. Returned' = Returned
    BY <2>1 DEF Returned
  <2>3. ASSUME pc' = "next", ~lost, NEW d \in due \ Returned
        PROVE  sc.tab < RowOf[d]
    <3>1. /\ Opened /\ sc \in Scanners /\ cells # None
          /\ cells.ended \/ \A e \in cells.must : e <= sc.last
      BY <1>12, ReadEndFacts DEF ReadEnd, Position, IInv, ClientAt, Opened
    <3>2. \A e \in cells.must : e <= sc.last
      BY <3>1 DEF IInv, DueIsInMerge
    <3>3. last < d /\ RowOf[d] \in remaining /\ sc.last <= last
      BY <2>3, <3>1 DEF IInv, DueIsAhead, ScannerRows, Opened
    <3>4. /\ d \in Cell /\ d \in Nat /\ last \in Nat /\ sc.last \in Nat
          /\ sc.tab \in Nat /\ RowOf[d] \in Nat
      BY <3>1, CellOrder DEF IInv, Types, Scanners
    <3>5. RowOf[d] \notin sc.rows
      BY <3>1, <3>2, <3>3, <3>4 DEF IInv, DueIsInMerge
    <3>6. sc.rows = {r \in remaining : r <= sc.tab}
      BY <3>1 DEF IInv, ScannerRows
    <3> QED
      BY <3>3, <3>4, <3>5, <3>6
  <2> QED
    BY <2>1, <2>2, <2>3 DEF IInv, DueIsAhead
<1>13. ASSUME OpenNext PROVE DueIsAhead'
  <2>1. UNCHANGED <<seen, last, due, lost, sc>> /\ pc' # "next" /\ pc = "next"
        /\ status = "open"
    BY <1>13 DEF OpenNext, IInv, ClientAt
  <2>2. Returned' = Returned
    BY <2>1 DEF Returned
  <2>3. CASE sc.tab = NRows
    BY <1>13, <2>3 DEF OpenNext, DueIsAhead
  <2>4. CASE sc.tab # NRows
    <3>1. sc \in Scanners /\ sc.tab \in Nat /\ \A d \in due : RowOf[d] \in Nat
      BY <1>13, CellOrder DEF OpenNext, IInv, Types, ClientAt, Scanners
    <3>2. ~lost => \A d \in due \ Returned :
                       RowOf[d] \in remaining /\ sc.tab < RowOf[d]
      BY <2>1 DEF IInv, DueIsAhead
    <3>3. ~lost => \A d \in due \ Returned : RowOf[d] \in remaining'
      BY <1>13, <2>4, <3>1, <3>2 DEF OpenNext, RowsAfter, From
    <3> QED
      BY <2>1, <2>2, <3>3 DEF IInv, DueIsAhead
  <2> QED
    BY <2>3, <2>4
<1>14. ASSUME UpdateSuperScanners PROVE DueIsAhead'
  BY <1>14 DEF UpdateSuperScanners, OutsideGet, IInv, DueIsAhead, Returned,
     historyVars
<1>15. ASSUME NEW c \in Cell, Erase(c) PROVE DueIsAhead'
  BY <1>15 DEF Erase, IInv, Types, ClientAt, DueIsAhead, Returned, vars,
     tableVars, scanVars, historyVars
<1>16. ASSUME (\E t, r \in Row : SplitTablet(t, r)) \/ (\E t, F, f :
                SwapFragments(t, F, f)) \/ UpdateScanners \/ ReleaseOld \/ (\E
                c \in Cell : Insert(c)) \/ UNCHANGED vars
      PROVE  DueIsAhead'
  BY <1>16 DEF SplitTablet, SwapFragments, UpdateScanners, ReleaseOld, Insert,
     IInv, Types, ClientAt, DueIsAhead, Returned, vars, tableVars, scanVars,
     historyVars
<1> QED BY <1>1, <1>2, <1>3, <1>4, <1>5, <1>6, <1>7, <1>8, <1>9, <1>10, <1>11,
   <1>12, <1>13, <1>14, <1>15, <1>16 DEF Next, Client, Server

\* The invariant holds at first.
LEMMA InitInv == ASSUME Init PROVE IInv
<1> USE TableScanAssumption DEF Init
<1>1. Types
  <2>1. /\ minRow \in [Row -> Nat] /\ chain \in [Row -> SUBSET Frag]
        /\ live \subseteq Row
    BY DEF Row
  <2>2. seen \in Seq(Cell)
    OBVIOUS
  <2> QED
    BY <2>1, <2>2 DEF Types
<1>2. TabletsCover
  BY DEF TabletsCover, Rows, Row
<1>3. ClientAt /\ FilesHeld
  BY DEF ClientAt, FilesHeld, NoRepl, Row
<1>4. ScannerRows /\ DueIsInMerge /\ ReadsAhead /\ DueIsAhead
  BY DEF ScannerRows, Opened, DueIsInMerge, ReadsAhead, DueIsAhead
<1> QED
  BY <1>1, <1>2, <1>3, <1>4 DEF IInv

\* Every step keeps the invariant.
LEMMA NextInv == ASSUME IInv, [Next]_vars PROVE IInv'
<1> QED
  BY TypesKept, CoverKept, ClientKept, FilesKept, ScannerRowsKept,
     DueIsInMergeKept, ReadsAheadKept, DueIsAheadKept DEF IInv

\* The parts of the invariant hold together, for any rows, cells and files.
THEOREM ScanInvariant == Spec => []IInv
<1>1. Init => IInv
  BY InitInv
<1>2. IInv /\ [Next]_vars => IInv'
  BY NextInv
<1> QED
  BY <1>1, <1>2, PTL DEF Spec

\* An open merge reads files that exist: replaceFragments() resets the Scanners
\* of the tablet before its old files are given up, and whatever splits come
\* between, the Scanner's tablet refers to all the files of the merge.
THEOREM MergesReadExistingFiles == Spec => []OpenFilesExist
<1>1. ASSUME IInv PROVE OpenFilesExist
  <2> SUFFICES ASSUME cells # None PROVE cells.files \subseteq disk
    BY DEF OpenFilesExist
  <2>1. sc.tab \in live
    BY <1>1 DEF IInv, ClientAt, TabletsCover
  <2> QED
    BY <1>1, <2>1 DEF IInv, FilesHeld
<1> QED
  BY <1>1, ScanInvariant, PTL

\* SuperScanner over Scanner implements OrderedScan: whatever is split,
\* replaced, written and erased meanwhile, get() returns the cells in order,
\* each once, and passes over none that was there all along; only a scan that
\* ends because its tablet has shrunk, or is opened again behind its last cell,
\* is lost.
THEOREM ScanIsOrdered == Spec => ImplementsOrderedScan
<1>1. ASSUME Init PROVE OS!Init
  BY <1>1 DEF Init, OS!Init
<1>2. ASSUME IInv, [Next]_vars PROVE [OS!Next \/ OS!Lose]_OS!vars
  <2>1. ASSUME NEW R \in SUBSET Row \ {{}}, Scan(R) PROVE OS!Begin
    <3>1. ~lost /\ due' \subseteq Cell
      BY <1>2, <2>1 DEF Scan, OnRows, IInv, ClientAt, Types
    <3> QED
      BY <2>1, <3>1 DEF Scan, OS!Begin
  <2>2. ASSUME NothingLeft PROVE OS!End
    <3>1. ~lost => due \subseteq Returned
      BY <1>2, <2>2 DEF NothingLeft, IInv, ClientAt, DueIsAhead
    <3> QED
      BY <1>2, <2>2, <3>1 DEF NothingLeft, OS!End, OS!Returned, Returned,
         IInv, ClientAt
  <2>3. ASSUME NotInTablet PROVE OS!Fail
    BY <1>2, <2>3 DEF NotInTablet, OS!Fail, IInv, ClientAt
  <2>4. ASSUME InnerOutOfTablet PROVE OS!Lose \/ UNCHANGED OS!vars
    BY <1>2, <2>4 DEF InnerOutOfTablet, OS!Lose, OS!vars, IInv, ClientAt
  <2>5. ASSUME Merge PROVE OS!Lose \/ UNCHANGED OS!vars
    BY <1>2, <2>5 DEF Merge, OS!Lose, OS!vars, IInv, ClientAt
  <2>6. ASSUME NEW c \in Cell, Read(c) PROVE OS!Deliver(c) \/ UNCHANGED OS!vars
    <3>1. status = "open" /\ UNCHANGED <<due, status, lost>>
      BY <1>2, <2>6 DEF Read, IInv, ClientAt
    <3>2. CASE UNCHANGED seen
      BY <3>1, <3>2 DEF OS!vars
    <3>3. CASE last' = c /\ seen' = Append(seen, c)
      <4>1. ~lost => last < c /\ \A d \in due : d < c => d \in Returned
        BY <1>2, <2>6, <3>3, ReadIsNext
      <4>2. ~lost => \A d \in Returned : d <= last
        BY <1>2, <3>1 DEF IInv, DueIsAhead
      <4>3. c \in Nat /\ last \in Nat /\ \A d \in Returned : d \in Nat
        BY <1>2, CellOrder, ReturnedGrows DEF IInv, Types
      <4>4. ~lost => \A d \in Returned : d < c
        BY <4>1, <4>2, <4>3
      <4> QED
        BY <3>1, <3>3, <4>1, <4>4 DEF OS!Deliver, OS!Before, OS!Returned,
           Returned
    <3> QED
      BY <2>6, <3>2, <3>3 DEF Read
  <2>7. ASSUME OpenNext PROVE OS!End \/ UNCHANGED OS!vars
    <3>1. pc = "next" /\ status = "open" /\ UNCHANGED <<due, seen, lost>>
      BY <1>2, <2>7 DEF OpenNext, IInv, ClientAt
    <3>2. CASE sc.tab = NRows
      <4>1. ~lost => due \subseteq Returned
        <5>1. \A d \in due : ~(NRows < RowOf[d])
          BY <1>2, TableScanAssumption DEF IInv, Types, Row
        <5> QED
          BY <1>2, <3>1, <3>2, <5>1 DEF IInv, DueIsAhead
      <4> QED
        BY <2>7, <3>1, <3>2, <4>1 DEF OpenNext, OS!End, OS!Returned, Returned
    <3>3. CASE sc.tab # NRows
      BY <2>7, <3>1, <3>3 DEF OpenNext, OS!vars
    <3> QED
      BY <3>2, <3>3
  <2>8. ASSUME NEW c \in Cell, Erase(c) PROVE OS!Forget(c)
    BY <2>8 DEF Erase, OS!Forget
  <2>9. ASSUME Get \/ OpenScanner \/ InnerOpen \/ InnerReopen \/ Validate
               \/ ReadEnd \/ (\E t, r \in Row : SplitTablet(t, r))
               \/ UpdateSuperScanners \/ (\E t, F, f : SwapFragments(t, F, f))
               \/ UpdateScanners \/ ReleaseOld \/ (\E c \in Cell : Insert(c))
               \/ UNCHANGED vars
        PROVE  UNCHANGED OS!vars
    BY <2>9 DEF Get, OpenScanner, InnerOpen, InnerReopen, Validate, ReadEnd,
       SplitTablet, UpdateSuperScanners, SwapFragments, UpdateScanners,
       ReleaseOld, Insert, vars, historyVars, OS!vars
  <2> QED
    BY <1>2, <2>1, <2>2, <2>3, <2>4, <2>5, <2>6, <2>7, <2>8, <2>9
       DEF Next, Client, Server, OS!Next
<1>3. Init => OS!Init
  BY <1>1
<1>4. IInv /\ [Next]_vars => [OS!Next \/ OS!Lose]_OS!vars
  BY <1>2
<1> QED
  BY <1>3, <1>4, ScanInvariant, PTL DEF Spec, ImplementsOrderedScan,
     OS!LossySpec
=============================================================================
