----------------------------- MODULE TableScan -----------------------------
(***************************************************************************)
(* A client's scan of a table while its tablets are split and their        *)
(* fragments replaced (kdi/tablet/SuperScanner.cc, Scanner.cc, and the     *)
(* parts of SuperTablet.cc and Tablet.cc that open and reopen scanners).   *)
(*                                                                         *)
(* Threads: the client in SuperScanner::get(); the work thread that splits *)
(* a tablet and then resets the SuperScanners; the serialize thread, which *)
(* replaces fragments of a tablet, resets its Scanners and then gives up   *)
(* the old files (it does not hold dagMutex, so splits fall between its    *)
(* steps); writers.                                                        *)
(*                                                                         *)
(* A tablet is named by its last row and covers (minRow[t], t].  Cells are *)
(* numbers in scan order; 0 stands for no last cell.                       *)
(***************************************************************************)
EXTENDS Integers, FiniteSetsExt, SequencesExt

CONSTANTS
    NRows,          \* rows are 1..NRows; the table starts as one tablet
    Cell,           \* cells that can be in the table
    RowOf,          \* the row of each cell
    InitTable,      \* the cells in the table at first
    Frag,           \* fragment files
    InitFrags,      \* fragments of the tablet at first
    MaxWrites,      \* bound on inserts and erasures
    None

Row == 1..NRows

ASSUME TableScanAssumption ==
    /\ NRows \in Nat \ {0}
    /\ Cell \subseteq Nat \ {0}
    /\ RowOf \in [Cell -> Row]
    /\ \A c, d \in Cell : c < d => RowOf[c] <= RowOf[d]
    /\ InitTable \subseteq Cell
    /\ InitFrags \subseteq Frag
    /\ None \notin Frag
    /\ MaxWrites \in Nat

\* Scanner objects, and merges of fragments.
Scanners == [tab : Row, rows : SUBSET Row, last : Cell \cup {0}]
Merges == [files : SUBSET Frag, must : SUBSET Cell, may : SUBSET Cell,
           ended : BOOLEAN]

ASSUME NoneAssumption == None \notin Scanners \cup Merges

VARIABLES
    live,           \* SuperTablet::tablets
    minRow,         \* Tablet::minRow (exclusive)
    chain,          \* the files of Tablet::fragments
    disk, made,     \* files that exist; files ever created
    table, writes,  \* the cells in the table; writes so far
    split,          \* "idle", or "update": scanners not yet reset
    repl,           \* the running replaceFragments()
    pc,             \* the client: "idle" is outside SuperScanner::mutex
    skip,           \* get() is in the loop that passes lastCell
    remaining,      \* SuperScanner::remainingRows
    last,           \* SuperScanner::lastCell
    sc,             \* SuperScanner::scanner: tablet, predicate, lastCell
    cells,          \* Scanner::cells: the open merge, or None
    due, seen, status,      \* history: see OrderedScan
    lost            \* history: the scan is no longer at its last cell

tableVars == <<live, minRow, chain, disk, made, table, writes>>
scanVars == <<pc, skip, remaining, last, sc, cells>>
historyVars == <<due, seen, status, lost>>
vars == <<tableVars, split, repl, scanVars, historyVars>>

Rows(t) == (minRow[t] + 1)..t
OnRows(C, R) == {c \in C : RowOf[c] \in R}
From(R, r) == {q \in R : q >= r}
Hull(R) == Min(R)..Max(R)

\* getTabletInternal() for the first row of the predicate.
Owner(r) == CHOOSE t \in live : r \in Rows(t)

NoRepl == [pc |-> "idle"]

Init ==
    /\ live = {NRows} /\ minRow = [t \in Row |-> 0]
    /\ chain = [t \in Row |-> IF t = NRows THEN InitFrags ELSE {}]
    /\ disk = InitFrags /\ made = InitFrags
    /\ table = InitTable /\ writes = 0
    /\ split = "idle" /\ repl = NoRepl
    /\ pc = "idle" /\ skip = FALSE
    /\ remaining = {} /\ last = 0
    /\ sc = None /\ cells = None
    /\ due = {} /\ seen = <<>> /\ status = "new" /\ lost = FALSE

-----------------------------------------------------------------------------
(* The client.  From Get until a result, SuperScanner::mutex is held.      *)

\* SuperTablet::scan() with the row predicate R.
Scan(R) ==
    /\ status = "new"
    /\ status' = "open"
    /\ remaining' = R
    /\ due' = OnRows(table, R)
    /\ UNCHANGED <<tableVars, split, repl, pc, skip, last, sc, cells, seen,
                   lost>>

\* The head of SuperScanner::get(): a scanner that was reset is opened again
\* from the row of the last cell.
Get ==
    /\ status = "open" /\ pc = "idle"
    /\ IF sc = None
       THEN /\ remaining' = IF last = 0 THEN remaining
                            ELSE From(remaining, RowOf[last])
            /\ skip' = (last # 0)
            /\ pc' = "open"
       ELSE pc' = "inner" /\ UNCHANGED <<remaining, skip>>
    /\ UNCHANGED <<tableVars, split, repl, last, sc, cells, historyVars>>

\* openScanner() with nothing left: end of stream.
NothingLeft ==
    /\ pc = "open" /\ remaining = {}
    /\ pc' = "idle" /\ status' = "end"
    /\ UNCHANGED <<tableVars, split, repl, skip, remaining, last, sc, cells,
                   due, seen, lost>>

\* openScanner() and scanFirstTablet(): a new Scanner on the tablet of the
\* first row.  SuperTablet::mutex keeps splits out.
OpenScanner ==
    /\ pc = "open" /\ remaining # {}
    /\ LET t == Owner(Min(remaining)) IN
       sc' = [tab |-> t, rows |-> remaining \cap Rows(t), last |-> 0]
    /\ cells' = None
    /\ pc' = "inner"
    /\ UNCHANGED <<tableVars, split, repl, skip, remaining, last, historyVars>>

\* The tablet still covers the row of the last cell: getRows().contains().
CellInTablet == RowOf[sc.last] \in Rows(sc.tab)

\* Scanner::get() takes Scanner::mutex.
InnerOpen ==
    /\ pc = "inner" /\ cells # None
    /\ pc' = "read"
    /\ UNCHANGED <<tableVars, split, repl, skip, remaining, last, sc, cells,
                   historyVars>>

InnerReopen ==
    /\ pc = "inner" /\ cells = None
    /\ sc.last # 0 => CellInTablet
    /\ pc' = "validate"
    /\ UNCHANGED <<tableVars, split, repl, skip, remaining, last, sc, cells,
                   historyVars>>

\* Where get() goes when the Scanner has no more cells: out of the skipping
\* loop, or to the next tablet.
InnerEnd ==
    /\ pc' = IF skip THEN "inner" ELSE "next"
    /\ skip' = FALSE

\* A reset scanner whose last cell is no longer in the tablet ends.
InnerOutOfTablet ==
    /\ pc = "inner" /\ cells = None
    /\ sc.last # 0 /\ ~CellInTablet
    /\ InnerEnd
    /\ lost' = TRUE
    /\ UNCHANGED <<tableVars, split, repl, remaining, last, sc, cells, due,
                   seen, status>>

\* The rows the Scanner opens its merge for.
ReopenRows == IF sc.last = 0 THEN sc.rows ELSE From(sc.rows, RowOf[sc.last])

\* validateRows() in getMergedScan(), with the tablet's rows of this moment.
Validate ==
    /\ pc = "validate" /\ Hull(ReopenRows) \subseteq Rows(sc.tab)
    /\ pc' = "merge"
    /\ UNCHANGED <<tableVars, split, repl, skip, remaining, last, sc, cells,
                   historyVars>>

\* RowNotInTabletError goes to the caller of get().
NotInTablet ==
    /\ pc = "validate" /\ ~(Hull(ReopenRows) \subseteq Rows(sc.tab))
    /\ pc' = "idle" /\ status' = "error"
    /\ UNCHANGED <<tableVars, split, repl, skip, remaining, last, sc, cells,
                   due, seen, lost>>

\* The Scanner was reset after the loop that passes lastCell had found nothing
\* there, and is opened again on rows that get() has left behind.
Rescans ==
    last # 0 /\ ~skip /\ sc.last < last /\ RowOf[last] \in ReopenRows

\* getMergedScan() under Tablet::mutex: the merge of the fragments of this
\* moment.  A cell erased or written later may still, or already, be seen.
Merge ==
    /\ pc = "merge"
    /\ LET C == OnRows(table, ReopenRows) IN
       cells' = [files |-> chain[sc.tab], must |-> C, may |-> C,
                 ended |-> FALSE]
    /\ pc' = "read"
    /\ lost' = (lost \/ Rescans)
    /\ UNCHANGED <<tableVars, split, repl, skip, remaining, last, sc, due,
                   seen, status>>

\* Mutant: a scan that is opened again is not advanced past the last cell.
PositionForgotten == 0

\* The merge is read, or advanced, past the Scanner's last cell.
Position == sc.last

\* The next cell of the merge; in the skipping loop it may be an old one.
Read(c) ==
    /\ pc = "read" /\ ~cells.ended
    /\ c \in cells.may /\ c > Position
    /\ \A d \in cells.must : d > Position => d >= c
    /\ sc' = [sc EXCEPT !.last = c]
    /\ IF skip /\ c <= last
       THEN pc' = "inner" /\ UNCHANGED <<last, skip, seen>>
       ELSE pc' = "idle" /\ last' = c /\ skip' = FALSE
            /\ seen' = Append(seen, c)
    /\ UNCHANGED <<tableVars, split, repl, remaining, cells, due, status, lost>>

ReadEnd ==
    /\ pc = "read"
    /\ cells.ended \/ \A d \in cells.must : d <= Position
    /\ cells' = [cells EXCEPT !.ended = TRUE]
    /\ InnerEnd
    /\ UNCHANGED <<tableVars, split, repl, remaining, last, sc, historyVars>>

\* Mutant: the upper bound itself is scanned again.
RowsAfterSame(t) == From(remaining, t)

\* setMinRow() with the complement of currentRows' upper bound.
RowsAfter(t) == From(remaining, t + 1)

\* openNextScanner(); currentRows are the rows sc.tab had when sc was opened.
OpenNext ==
    /\ pc = "next"
    /\ IF sc.tab = NRows
       THEN pc' = "idle" /\ status' = "end" /\ UNCHANGED remaining
       ELSE /\ remaining' = RowsAfter(sc.tab)
            /\ pc' = "open" /\ UNCHANGED status
    /\ UNCHANGED <<tableVars, split, repl, skip, last, sc, cells, due, seen,
                   lost>>

-----------------------------------------------------------------------------
(* The server's threads.                                                   *)

\* performSplit(): under SuperTablet::mutex the tablet keeps the rows above r
\* and its clone, with the same fragments, gets the rest.
SplitTablet(t, r) ==
    /\ split = "idle"
    /\ t \in live /\ minRow[t] < r /\ r < t
    /\ live' = live \cup {r}
    /\ minRow' = [minRow EXCEPT ![r] = minRow[t], ![t] = r]
    /\ chain' = [chain EXCEPT ![r] = chain[t]]
    /\ split' = "update"
    /\ UNCHANGED <<disk, made, table, writes, repl, scanVars, historyVars>>

\* SuperScanner::mutex is free.
OutsideGet == pc = "idle"

\* SuperTablet::updateScanners() and SuperScanner::reopen(): the SuperScanner
\* drops its Scanner, once it is not inside get().
UpdateSuperScanners ==
    /\ split = "update"
    /\ OutsideGet
    /\ sc' = None /\ cells' = None
    /\ split' = "idle"
    /\ UNCHANGED <<tableVars, repl, pc, skip, remaining, last, historyVars>>

\* replaceFragmentsInternal() swaps the fragments F of tablet t for f, under
\* Tablet::mutex.
SwapFragments(t, F, f) ==
    /\ repl.pc = "idle"
    /\ t \in live /\ F # {} /\ F \subseteq chain[t]
    /\ f \in Frag \ made
    /\ chain' = [chain EXCEPT ![t] = (@ \ F) \cup {f}]
    /\ disk' = disk \cup {f} /\ made' = made \cup {f}
    /\ repl' = [pc |-> "swapped", tab |-> t, old |-> F]
    /\ UNCHANGED <<live, minRow, table, writes, split, scanVars, historyVars>>

\* Mutant: the scanners are not reset.
ResetCellsNever == cells

\* Scanner::reopen() on the Scanners of the tablet.
ResetCells == IF sc # None /\ sc.tab = repl.tab THEN None ELSE cells

\* Tablet::updateScanners() waits for Scanner::mutex.
UpdateScanners ==
    /\ repl.pc = "swapped"
    /\ sc # None /\ sc.tab = repl.tab => pc \notin {"validate", "merge", "read"}
    /\ cells' = ResetCells
    /\ repl' = [repl EXCEPT !.pc = "updated"]
    /\ UNCHANGED <<tableVars, split, pc, skip, remaining, last, sc,
                   historyVars>>

\* The old files are marked dead.  Those that no tablet refers to are deleted
\* at the next save of the configuration: here, as soon as it can be.
ReleaseOld ==
    /\ repl.pc = "updated"
    /\ disk' = disk \ {f \in repl.old : \A t \in live : f \notin chain[t]}
    /\ repl' = NoRepl
    /\ UNCHANGED <<live, minRow, chain, made, table, writes, split, scanVars,
                   historyVars>>

\* A writer sets or erases a cell.  A merge that is open keeps what it has
\* buffered and may pick up the change (BufferedScanner over MemoryTable).
Insert(c) ==
    /\ writes < MaxWrites /\ c \notin table
    /\ table' = table \cup {c} /\ writes' = writes + 1
    /\ cells' = IF cells # None /\ RowOf[c] \in ReopenRows
                THEN [cells EXCEPT !.may = @ \cup {c}] ELSE cells
    /\ UNCHANGED <<live, minRow, chain, disk, made, split, repl, pc, skip,
                   remaining, last, sc, historyVars>>

Erase(c) ==
    /\ writes < MaxWrites /\ c \in table
    /\ table' = table \ {c} /\ writes' = writes + 1
    /\ cells' = IF cells = None THEN None
                ELSE [cells EXCEPT !.must = @ \ {c}]
    /\ due' = due \ {c}
    /\ UNCHANGED <<live, minRow, chain, disk, made, split, repl, pc, skip,
                   remaining, last, sc, seen, status, lost>>

Client ==
    \/ Get \/ NothingLeft \/ OpenScanner \/ InnerOpen \/ InnerReopen
    \/ InnerOutOfTablet \/ Validate \/ NotInTablet \/ Merge
    \/ (\E c \in Cell : Read(c)) \/ ReadEnd \/ OpenNext
Server ==
    \/ \E t, r \in Row : SplitTablet(t, r)
    \/ UpdateSuperScanners
    \/ \E t \in Row : \E F \in SUBSET chain[t], f \in Frag :
           SwapFragments(t, F, f)
    \/ UpdateScanners \/ ReleaseOld

Next ==
    \/ \E R \in SUBSET Row \ {{}} : Scan(R)
    \/ Client \/ Server
    \/ \E c \in Cell : Insert(c) \/ Erase(c)

Spec == Init /\ [][Next]_vars

\* The client that has begun a get() is scheduled, and so are the threads that
\* reset scanners; nobody owes a split, a replacement or another get().
Fairness ==
    /\ WF_vars(pc # "idle" /\ Client)
    /\ WF_vars(UpdateSuperScanners)
    /\ WF_vars(UpdateScanners)
FairSpec == Spec /\ Fairness

-----------------------------------------------------------------------------
(* Properties.                                                             *)

\* A merge that is open reads files that exist: a tablet resets its Scanners
\* before it gives up a file, and no Scanner is opened on the old fragments
\* meanwhile, whatever splits and clones share the file.
OpenFilesExist == cells # None => cells.files \subseteq disk

\* Through any splits, replacements, writes and erasures the scan implements
\* OrderedScan: in order, each cell once, no cell passed over.  It is lost only
\* where Scanner::get() ends because the tablet has shrunk, or rescans.
OS == INSTANCE OrderedScan WITH
          status <- IF lost /\ status = "open" THEN "lost" ELSE status
ImplementsOrderedScan == OS!LossySpec

\* A get() that has begun returns, and the threads that reset scanners get
\* through: SuperScanner::mutex, Scanner::mutex and the loop over the tablets
\* hold nobody up for ever.
GetsReturn ==
    /\ pc # "idle" ~> pc = "idle"
    /\ split = "update" ~> split = "idle"
    /\ repl.pc = "swapped" ~> repl.pc # "swapped"

\* "The scan will resume after the last cell seen in the current scan": a scan
\* that reaches its end has returned every cell that was there all along.
ScanComplete == status = "end" => due \subseteq ToSet(seen)
=============================================================================
