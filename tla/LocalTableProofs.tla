--------------------------- MODULE LocalTableProofs ---------------------------
(***************************************************************************)
(* Proofs about LocalTable: scans and restarts see the newest of every     *)
(* key, whatever has been serialized, compacted or lost in memory since.   *)
(*                                                                         *)
(* The inductive invariant IInv follows the list of tables.  It tells      *)
(* where the logs of the list are (LogsQueued), which files are in use     *)
(* (EntriesHaveFiles, StateFile, WorkersFiles), that a table has the       *)
(* newest cells of its file (TablesFollowFiles), and that the merge of the *)
(* files is what was synced (FilesAreComplete).  MergeFlushed and          *)
(* MergeCompacted say why a flush and a compaction keep the last one.      *)
(***************************************************************************)
EXTENDS LocalTable, SequenceLemmas, FiniteSetTheorems

-----------------------------------------------------------------------------
(* The inductive invariant.                                                *)

Mutations == Mutation \cup Range(Old)
FileSet == [disk : BOOLEAN, cells : SUBSET Nat]
EntrySet == [name : Nat, disk : BOOLEAN]
StateSet == [names : Seq(Nat), nDisk : Nat, next : Nat]
SerSet == [pc : {"index", "swap", "remove"}, name : Nat, out : Nat]
CompSet == [pc : {"replace", "finish"}, job : JobSet, out : Nat]
MainPc == {"down", "load", "loadpush", "create", "publish", "idle", "push",
           "blocked", "awake", "join"}
MainSet == [pc : MainPc, todo : Seq(EntrySet)]

HistTypes ==
    /\ hist \in Seq(Mutations) /\ Len(hist) <= MaxWrites
    /\ applied \in Nat /\ synced \in Nat
    /\ synced <= applied /\ applied <= Len(hist)
FileTypes ==
    /\ DOMAIN files \subseteq Nat /\ files \in [DOMAIN files -> FileSet]
    /\ \A i \in DOMAIN files : \A c \in files[i].cells : c \in 1..synced
TableTypes ==
    /\ tables \in Seq(TableSet) /\ nextIndex \in Nat /\ state \in StateSet
CallerTypes ==
    /\ main \in MainSet /\ initialized \in BOOLEAN /\ torn \in BOOLEAN
    /\ requests \in 0..MaxRequests /\ stops \in 0..MaxStops
SerTypes ==
    /\ squeue \in Seq(Nat) /\ Len(squeue) <= QMax
    /\ ser \in SerSet \cup {Idle}
CompTypes ==
    /\ cqueue \in Seq(JobSet) /\ comp \in CompSet \cup {Idle}
    /\ scheduled \in BOOLEAN /\ fullRequested \in BOOLEAN
Types ==
    /\ HistTypes /\ FileTypes /\ TableTypes /\ CallerTypes /\ SerTypes
    /\ CompTypes

\* Where the caller is, and what that says about the rest.
CallerAt ==
    /\ main.pc \in {"down", "load", "loadpush"} => ~initialized
    /\ main.pc \in {"create", "idle", "push", "blocked", "awake", "join"}
           => initialized
    /\ main.pc \notin {"load", "loadpush"} => main.todo = <<>>
    /\ main.pc = "down" => tables = <<>> /\ squeue = <<>> /\ ser = Idle
    /\ main.pc \notin {"idle", "awake", "blocked", "join"} =>
           synced = Len(hist)
    /\ main.pc # "down" =>
           nextIndex = state.next + (IF main.pc = "publish" THEN 1 ELSE 0)

\* One compaction at a time, and none before the table is initialized.
OneCompaction ==
    /\ ~initialized => ~scheduled
    /\ ~scheduled => cqueue = <<>> /\ comp = Idle
    /\ comp # Idle => cqueue = <<>>
    /\ Len(cqueue) <= 1

\* The tables that there are or will be: those of the state file at first,
\* then those loaded and those to load.
InState(s) ==
    [p \in 1..Len(s.names) |-> [name |-> s.names[p], disk |-> p <= s.nDisk]]
Listed(T, todo) ==
    [p \in 1..(Len(T) + Len(todo)) |->
        IF p <= Len(T) THEN [name |-> T[p].name, disk |-> T[p].disk]
                       ELSE todo[p - Len(T)]]
Entries ==
    IF main.pc = "down" THEN InState(state) ELSE Listed(tables, main.todo)

\* Each of the tables E has a file of its own, and disk tables come first.
HaveFiles(E, F, next) ==
    /\ \A p \in DOMAIN E :
           /\ E[p].name \in DOMAIN F /\ E[p].name < next
           /\ F[E[p].name].disk = E[p].disk
    /\ \A p, q \in DOMAIN E : E[p].name = E[q].name => p = q
    /\ \A p, q \in DOMAIN E : p < q /\ E[q].disk => E[p].disk
EntriesHaveFiles == HaveFiles(Entries, files, state.next)

\* The state file, and the file that a crash in createWritableTable() leaves.
StateFile ==
    /\ HaveFiles(InState(state), files, state.next)
    /\ initialized => state.names = [p \in DOMAIN tables |-> tables[p].name]
    /\ \A i \in DOMAIN files : i <= state.next
    /\ state.next \in DOMAIN files =>
           ~files[state.next].disk /\ files[state.next].cells = {}
    /\ main.pc = "publish" => state.next \in DOMAIN files

\* Files that the workers are about to make, and those they are about to
\* remove, are not in use.
Used(E, s) == {E[p].name : p \in DOMAIN E} \cup Range(s.names)
Apart(used, next) ==
    /\ ser.pc = "swap" => ser.out < next /\ ser.out \notin used
    /\ ser.pc = "remove" => ser.name < next /\ ser.name \notin used
    /\ comp.pc = "replace" =>
           /\ comp.out < next /\ comp.out \notin used
           /\ ser.pc = "swap" => ser.out # comp.out
           /\ ser.pc = "remove" => ser.name # comp.out
    /\ comp.pc = "finish" => \A k \in DOMAIN comp.job.names :
           /\ comp.job.names[k] < next /\ comp.job.names[k] \notin used
           /\ ser.pc = "swap" => ser.out # comp.job.names[k]
WorkersFiles == Apart(Used(Entries, state), state.next)

\* Logs are serialized in the order of the list: it ends with the log that
\* the serializer works on, those that are queued and the one that is written
\* or, while the tables are loaded, not yet queued.
LastIsLog == main.pc \in {"idle", "awake", "blocked", "push", "join", "loadpush"}
Pend == IF ser.pc \in {"index", "swap"} THEN 1 ELSE 0
NDisk == Len(tables) - Pend - Len(squeue) - (IF LastIsLog THEN 1 ELSE 0)
LogsQueued ==
    /\ NDisk \in Nat
    /\ \A p \in DOMAIN tables : tables[p].disk <=> p <= NDisk
    /\ Pend = 1 => tables[NDisk + 1].name = ser.name
    /\ \A k \in DOMAIN squeue : tables[NDisk + Pend + k].name = squeue[k]

\* A table has the newest of what its file has, and of what has been written
\* to the table but not to its file.
Unsynced(T, p, s, a) == IF p = Len(T) THEN (s + 1)..a ELSE {}
Follow(h, T, F, s, a) ==
    \A p \in DOMAIN T :
        T[p].cells = Newest(h, F[T[p].name].cells \cup Unsynced(T, p, s, a))
TablesFollowFiles == Follow(hist, tables, files, synced, applied)

\* Merged and Visible, for any history.
MergedIn(h, T, filterErasures) ==
    {i \in UNION {T[p].cells : p \in DOMAIN T} :
        /\ filterErasures => ~h[i].erase
        /\ \E p \in DOMAIN T :
              /\ i \in T[p].cells
              /\ \A q \in DOMAIN T : q > p =>
                    \A j \in T[q].cells : h[j].key # h[i].key}
Shown(h, T) == MergedIn(h, T, TRUE)
VisibleIn(h, n) == {i \in Newest(h, 1..n) : ~h[i].erase}

\* The merge of the files has what was synced.
OnFile(h, F, E) == [p \in DOMAIN E |-> [cells |-> Newest(h, F[E[p].name].cells)]]
Whole(h, F, E, n) == Shown(h, OnFile(h, F, E)) = VisibleIn(h, n)
FilesAreComplete == ~torn => Whole(hist, files, Entries, synced)

IInv ==
    /\ Types /\ CallerAt /\ OneCompaction /\ EntriesHaveFiles /\ StateFile
    /\ WorkersFiles /\ LogsQueued /\ CompactionsAreValid /\ TablesFollowFiles
    /\ FilesAreComplete
-----------------------------------------------------------------------------
(* What the merge of the tables gives.                                     *)

\* A cell at p that no later table hides.
Top(h, T, i, p) ==
    /\ p \in DOMAIN T /\ i \in T[p].cells
    /\ \A q \in DOMAIN T : q > p => \A j \in T[q].cells : h[j].key # h[i].key

\* The merge has the cells that nothing hides.
LEMMA MergedIsTop ==
    /\ \A h, T, f, i : i \in MergedIn(h, T, f) <=>
                           (f => ~h[i].erase) /\ \E p : Top(h, T, i, p)
    /\ \A h, T, i : i \in Shown(h, T) <=>
                        ~h[i].erase /\ \E p : Top(h, T, i, p)
BY DEF Shown, MergedIn, Top

\* The same cells, of mutations that two histories agree on.
SameCells(T, U) ==
    DOMAIN T = DOMAIN U /\ \A p \in DOMAIN T : T[p].cells = U[p].cells
Agree(h, g, T) == \A p \in DOMAIN T : \A i \in T[p].cells : h[i] = g[i]

\* Two lists with the same cells, under histories that agree on them, give the
\* same merge.
LEMMA MergeSame ==
    ASSUME NEW h, NEW g, NEW T, NEW U, SameCells(T, U), Agree(h, g, T)
    PROVE  Shown(h, T) = Shown(g, U)
<1>1. ASSUME NEW i, NEW p PROVE Top(h, T, i, p) <=> Top(g, U, i, p)
  BY DEF Top, SameCells, Agree
<1>2. ASSUME NEW i PROVE i \in Shown(h, T) <=> i \in Shown(g, U)
  <2>1. \A p : Top(h, T, i, p) => h[i] = g[i]
    BY DEF Top, Agree
  <2> QED
    BY <1>1, <2>1, MergedIsTop
<1> QED
  BY <1>2

\* An empty table at the end adds nothing.
LEMMA MergeEmptyLast ==
    ASSUME NEW h, NEW T, NEW U, NEW n \in Nat, DOMAIN T = 1..n,
           DOMAIN U = 1..(n + 1), \A p \in 1..n : U[p].cells = T[p].cells,
           U[n + 1].cells = {}
    PROVE  Shown(h, U) = Shown(h, T)
<1>1. ASSUME NEW i, NEW p PROVE Top(h, U, i, p) <=> Top(h, T, i, p)
  <2>1. Top(h, U, i, p) => Top(h, T, i, p)
    BY DEF Top
  <2>2. Top(h, T, i, p) => Top(h, U, i, p)
    BY DEF Top
  <2> QED
    BY <2>1, <2>2
<1>2. \A i : i \in Shown(h, U) <=> i \in Shown(h, T)
  BY <1>1, MergedIsTop
<1> QED
  BY <1>2

\* A set of numbers up to n has a greatest.
LEMMA GreatestNat ==
    ASSUME NEW n \in Nat, NEW S \in SUBSET (1..n), S # {}
    PROVE  \E m \in S : \A i \in S : i <= m
<1> DEFINE D == {n - i : i \in S}
<1>1. D \in SUBSET Nat /\ D # {}
  <2>1. \A i \in S : n - i \in Nat
    OBVIOUS
  <2> QED
    BY <2>1
<1>2. PICK d \in D : \A e \in D : d <= e
  BY <1>1, LeastNat
<1>3. PICK m \in S : d = n - m
  OBVIOUS
<1>4. ASSUME NEW i \in S PROVE i <= m
  <2>1. n - m <= n - i
    BY <1>2, <1>3
  <2> QED
    BY <2>1
<1> QED
  BY <1>4

\* Each key of S is a key of Newest(h, S), and the newest of it is not older.
LEMMA NewestHasKeys ==
    ASSUME NEW h, NEW n \in Nat, NEW S \in SUBSET (1..n)
    PROVE  \A i \in S : \E j \in Newest(h, S) : h[j].key = h[i].key /\ i <= j
<1> SUFFICES ASSUME NEW i \in S
             PROVE  \E j \in Newest(h, S) : h[j].key = h[i].key /\ i <= j
  OBVIOUS
<1> DEFINE K == {j \in S : h[j].key = h[i].key}
<1>1. K \in SUBSET (1..n) /\ i \in K
  OBVIOUS
<1>2. PICK j \in K : \A k \in K : k <= j
  BY <1>1, GreatestNat
<1>3. j \in Newest(h, S)
  BY <1>2 DEF Newest
<1> QED
  BY <1>1, <1>2, <1>3

\* Sets of mutations up to the n-th.
UpTo(n) == SUBSET (1..n)

\* Only what S has of a key later than its newest makes a difference.
LEMMA NewestTwice ==
    ASSUME NEW h, NEW n \in Nat, NEW S \in UpTo(n), NEW N \in UpTo(n)
    PROVE  Newest(h, Newest(h, S) \cup N) = Newest(h, S \cup N)
<1> USE DEF UpTo
<1>1. Newest(h, S) \subseteq S
  BY DEF Newest
<1>2. ASSUME NEW i \in Newest(h, S \cup N)
      PROVE  i \in Newest(h, Newest(h, S) \cup N)
  <2>1. i \in S => i \in Newest(h, S)
    BY DEF Newest
  <2> QED
    BY <1>1, <2>1 DEF Newest
<1>3. ASSUME NEW i \in Newest(h, Newest(h, S) \cup N)
      PROVE  i \in Newest(h, S \cup N)
  <2>1. i \in S \cup N /\ i \in Nat
    BY <1>1 DEF Newest
  <2>2. ASSUME NEW j \in S, h[j].key = h[i].key PROVE j <= i
    <3>1. PICK k \in Newest(h, S) : h[k].key = h[j].key /\ j <= k
      BY NewestHasKeys
    <3>2. k <= i /\ k \in Nat /\ j \in Nat
      BY <1>1, <2>2, <3>1 DEF Newest
    <3> QED
      BY <2>1, <3>1, <3>2
  <2> QED
    BY <2>1, <2>2 DEF Newest
<1> QED
  BY <1>2, <1>3

\* The newest of S depends on the history of S only.
LEMMA NewestSame ==
    ASSUME NEW h, NEW g, NEW S, \A i \in S : h[i] = g[i]
    PROVE  Newest(h, S) = Newest(g, S)
BY DEF Newest

\* The last of n tables takes up the mutations from lo to hi.
TakesUp(h, T, U, n, lo, hi) ==
    /\ n \in Nat \ {0} /\ lo \in Nat /\ hi \in Nat /\ lo <= hi
    /\ DOMAIN T = 1..n /\ DOMAIN U = 1..n
    /\ \A p \in 1..n : T[p].cells \subseteq 1..lo
    /\ \A p \in 1..(n - 1) : U[p].cells = T[p].cells
    /\ U[n].cells = Newest(h, T[n].cells \cup (lo + 1)..hi)

\* The merge that was right up to lo is right up to hi.
LEMMA MergeFlushed ==
    ASSUME NEW h, NEW T, NEW U, NEW n, NEW lo, NEW hi,
           TakesUp(h, T, U, n, lo, hi), Shown(h, T) = VisibleIn(h, lo)
    PROVE  Shown(h, U) = VisibleIn(h, hi)
<1> SUFFICES ASSUME n \in Nat \ {0}, lo \in Nat, hi \in Nat, lo <= hi,
                    DOMAIN T = 1..n, DOMAIN U = 1..n,
                    \A p \in 1..n : T[p].cells \subseteq 1..lo,
                    \A p \in 1..(n - 1) : U[p].cells = T[p].cells,
                    U[n].cells = Newest(h, T[n].cells \cup (lo + 1)..hi)
             PROVE  Shown(h, U) = VisibleIn(h, hi)
  BY DEF TakesUp
<1> DEFINE S == T[n].cells \cup (lo + 1)..hi
<1>1. S \in SUBSET (1..hi) /\ U[n].cells = Newest(h, S)
  <2>1. T[n].cells \subseteq 1..lo
    OBVIOUS
  <2>2. 1..lo \subseteq 1..hi /\ (lo + 1)..hi \subseteq 1..hi
    OBVIOUS
  <2> QED
    BY <2>1, <2>2
<1>2. \A i : i \in VisibleIn(h, lo) <=>
          /\ i \in 1..lo /\ ~h[i].erase
          /\ \A j \in 1..lo : h[j].key = h[i].key => j <= i
  BY DEF VisibleIn, Newest
<1>3. \A i : i \in VisibleIn(h, hi) <=>
          /\ i \in 1..hi /\ ~h[i].erase
          /\ \A j \in 1..hi : h[j].key = h[i].key => j <= i
  BY DEF VisibleIn, Newest
<1>4. ASSUME NEW i, i \in Shown(h, U) PROVE i \in VisibleIn(h, hi)
  <2>1. PICK p : Top(h, U, i, p)
    BY <1>4, MergedIsTop
  <2>2. ~h[i].erase /\ p \in 1..n /\ i \in U[p].cells
    BY <1>4, <2>1, MergedIsTop DEF Top
  <2>3. CASE i \in (lo + 1)..hi
    <3>1. p = n
      <4>1. p < n => i \in 1..lo
        BY <2>2
      <4> QED
        BY <2>2, <2>3, <4>1
    <3>2. i \in Newest(h, S)
      BY <1>1, <2>2, <3>1
    <3>3. \A j \in 1..hi : h[j].key = h[i].key => j <= i
      BY <2>3, <3>2 DEF Newest
    <3> QED
      BY <1>3, <2>2, <2>3, <3>3
  <2>4. CASE i \notin (lo + 1)..hi
    <3>1. i \in T[p].cells
      <4>1. CASE p < n
        BY <2>2, <4>1
      <4>2. CASE p = n
        <5>1. i \in S
          BY <1>1, <2>2, <4>2 DEF Newest
        <5> QED
          BY <2>4, <4>2, <5>1
      <4> QED
        BY <2>2, <4>1, <4>2
    <3>2. \A j \in S : p < n => h[j].key # h[i].key
      <4> SUFFICES ASSUME NEW j \in S, p < n, h[j].key = h[i].key PROVE FALSE
        OBVIOUS
      <4>1. PICK k \in U[n].cells : h[k].key = h[j].key
        <5>1. \E k \in Newest(h, S) : h[k].key = h[j].key /\ j <= k
          <6> HIDE DEF S
          <6> QED BY <1>1, NewestHasKeys
        <5> QED
          BY <1>1, <5>1
      <4> QED
        BY <2>1, <4>1 DEF Top
    <3>3. Top(h, T, i, p)
      <4>1. ASSUME NEW q \in 1..n, q > p, NEW j \in T[q].cells
            PROVE  h[j].key # h[i].key
        <5>1. CASE q = n
          BY <2>2, <3>2, <4>1, <5>1
        <5>2. CASE q < n
          BY <2>1, <4>1, <5>2 DEF Top
        <5> QED
          BY <5>1, <5>2
      <4> QED
        BY <2>2, <3>1, <4>1 DEF Top
    <3>4. i \in VisibleIn(h, lo)
      BY <2>2, <3>3, MergedIsTop
    <3>5. i \in 1..lo /\ \A j \in 1..lo : h[j].key = h[i].key => j <= i
      BY <1>2, <3>4
    <3>6. ASSUME NEW j \in (lo + 1)..hi, h[j].key = h[i].key PROVE FALSE
      <4>1. j \in S
        OBVIOUS
      <4>2. p = n
        BY <2>2, <3>2, <3>6, <4>1
      <4>3. i \in Newest(h, S)
        BY <1>1, <2>2, <4>2
      <4>4. j <= i
        BY <3>6, <4>1, <4>3 DEF Newest
      <4> QED
        BY <3>5, <4>4
    <3>7. \A j \in 1..hi : j \in 1..lo \/ j \in (lo + 1)..hi
      OBVIOUS
    <3>8. \A j \in 1..hi : h[j].key = h[i].key => j <= i
      BY <3>5, <3>6, <3>7
    <3>9. i \in 1..hi
      BY <3>5
    <3> QED
      BY <1>3, <2>2, <3>8, <3>9
  <2> QED
    BY <2>3, <2>4
<1>5. ASSUME NEW i, i \in VisibleIn(h, hi) PROVE i \in Shown(h, U)
  <2>1. /\ i \in 1..hi /\ ~h[i].erase
        /\ \A j \in 1..hi : h[j].key = h[i].key => j <= i
    BY <1>3, <1>5
  <2>2. i \in S => i \in Newest(h, S)
    BY <1>1, <2>1 DEF Newest
  <2>3. CASE i \in (lo + 1)..hi
    <3>1. Top(h, U, i, n)
      BY <1>1, <2>2, <2>3 DEF Top
    <3> QED
      BY <2>1, <3>1, MergedIsTop
  <2>4. CASE i \notin (lo + 1)..hi
    <3>1. i \in 1..lo
      BY <2>1, <2>4
    <3>2. i \in VisibleIn(h, lo)
      <4>1. \A j \in 1..lo : j \in 1..hi
        OBVIOUS
      <4> QED
        BY <1>2, <2>1, <3>1, <4>1
    <3>3. PICK p : Top(h, T, i, p)
      BY <3>2, MergedIsTop
    <3>4. p \in 1..n /\ i \in T[p].cells
      BY <3>3 DEF Top
    <3>5. i \in U[p].cells
      <4>1. CASE p = n
        BY <1>1, <2>2, <3>4, <4>1
      <4>2. CASE p < n
        BY <3>4, <4>2
      <4> QED
        BY <3>4, <4>1, <4>2
    <3>6. ASSUME NEW q \in 1..n, q > p, NEW j \in U[q].cells
          PROVE  h[j].key # h[i].key
      <4>1. CASE q < n
        BY <3>3, <3>6, <4>1 DEF Top
      <4>2. CASE q = n /\ j \in T[n].cells
        BY <3>3, <3>6, <4>2 DEF Top
      <4>3. CASE q = n /\ j \notin T[n].cells
        <5>1. j \in (lo + 1)..hi
          BY <1>1, <3>6, <4>3 DEF Newest
        <5>2. j \in 1..hi /\ j > i
          BY <3>1, <5>1
        <5> QED
          BY <2>1, <5>2
      <4> QED
        BY <4>1, <4>2, <4>3
    <3>7. Top(h, U, i, p)
      BY <3>4, <3>5, <3>6 DEF Top
    <3> QED
      BY <2>1, <3>7, MergedIsTop
  <2> QED
    BY <2>3, <2>4
<1> QED
  BY <1>4, <1>5

\* Of n tables, those from a to a + k - 1 give way to their merge.
Compacts(h, T, U, n, a, k, f) ==
    /\ n \in Nat /\ a \in 1..n /\ k \in 1..n /\ a + k - 1 <= n
    /\ DOMAIN T = 1..n /\ DOMAIN U = 1..(n - k + 1)
    /\ \A p \in 1..(a - 1) : U[p].cells = T[p].cells
    /\ \E W : /\ DOMAIN W = 1..k
              /\ \A p \in 1..k : W[p].cells = T[a + p - 1].cells
              /\ U[a].cells = MergedIn(h, W, f)
    /\ \A p \in (a + 1)..(n - k + 1) : U[p].cells = T[p + k - 1].cells

\* The merge of all tables stays what it was, also if erasures are dropped of
\* the first ones.
LEMMA MergeCompacted ==
    ASSUME NEW h, NEW T, NEW U, NEW n, NEW a, NEW k, NEW f \in BOOLEAN,
           f => a = 1, Compacts(h, T, U, n, a, k, f)
    PROVE  Shown(h, U) = Shown(h, T)
<1> SUFFICES ASSUME n \in Nat, a \in 1..n, k \in 1..n, a + k - 1 <= n,
                    DOMAIN T = 1..n, DOMAIN U = 1..(n - k + 1),
                    \A p \in 1..(a - 1) : U[p].cells = T[p].cells,
                    NEW W, DOMAIN W = 1..k,
                    \A p \in 1..k : W[p].cells = T[a + p - 1].cells,
                    U[a].cells = MergedIn(h, W, f),
                    \A p \in (a + 1)..(n - k + 1) : U[p].cells = T[p + k - 1].cells
             PROVE  Shown(h, U) = Shown(h, T)
  BY DEF Compacts
<1>1. \A j \in U[a].cells : \E q \in a..(a + k - 1) : j \in T[q].cells
  <2> SUFFICES ASSUME NEW j \in U[a].cells
               PROVE  \E q \in a..(a + k - 1) : j \in T[q].cells
    OBVIOUS
  <2>1. PICK p : Top(h, W, j, p)
    BY MergedIsTop
  <2>2. p \in 1..k /\ j \in W[p].cells
    BY <2>1 DEF Top
  <2>3. a + p - 1 \in a..(a + k - 1) /\ j \in T[a + p - 1].cells
    BY <2>2
  <2> QED
    BY <2>3
<1>2. ASSUME NEW i, i \in Shown(h, T) PROVE i \in Shown(h, U)
  <2>1. PICK p : Top(h, T, i, p)
    BY <1>2, MergedIsTop
  <2>2. ~h[i].erase /\ p \in 1..n /\ i \in T[p].cells
    BY <1>2, <2>1, MergedIsTop DEF Top
  <2>3. \A q \in 1..n : q > p => \A j \in T[q].cells : h[j].key # h[i].key
    BY <2>1 DEF Top
  <2>4. CASE p < a
    <3>1. ASSUME NEW q \in 1..(n - k + 1), q > p, NEW j \in U[q].cells
          PROVE  h[j].key # h[i].key
      <4>1. CASE q < a
        BY <2>3, <3>1, <4>1
      <4>2. CASE q = a
        <5>1. PICK r \in a..(a + k - 1) : j \in T[r].cells
          BY <1>1, <3>1, <4>2
        <5>2. r \in 1..n /\ r > p
          BY <2>2, <2>4
        <5> QED
          BY <2>3, <5>1, <5>2
      <4>3. CASE q > a
        <5>1. q + k - 1 \in 1..n /\ q + k - 1 > p /\ j \in T[q + k - 1].cells
          <6>1. q \in (a + 1)..(n - k + 1)
            BY <3>1, <4>3
          <6>2. q + k - 1 \in 1..n /\ q + k - 1 > p
            BY <2>2, <3>1
          <6> QED
            BY <3>1, <6>1, <6>2
        <5> QED
          BY <2>3, <5>1
      <4> QED
        BY <4>1, <4>2, <4>3
    <3>2. p \in DOMAIN U /\ i \in U[p].cells
      BY <2>2, <2>4
    <3>3. Top(h, U, i, p)
      BY <3>1, <3>2 DEF Top
    <3> QED
      BY <2>2, <3>3, MergedIsTop
  <2>5. CASE p >= a /\ p <= a + k - 1
    <3> DEFINE w == p - a + 1
    <3>1. w \in 1..k /\ i \in W[w].cells
      BY <2>2, <2>5
    <3>2. ASSUME NEW q \in 1..k, q > w, NEW j \in W[q].cells
          PROVE  h[j].key # h[i].key
      <4>1. a + q - 1 \in 1..n /\ a + q - 1 > p /\ j \in T[a + q - 1].cells
        BY <2>2, <2>5, <3>2
      <4> QED
        BY <2>3, <4>1
    <3>3. Top(h, W, i, w)
      BY <3>1, <3>2 DEF Top
    <3>4. i \in U[a].cells
      BY <2>2, <3>3, MergedIsTop
    <3>5. ASSUME NEW q \in 1..(n - k + 1), q > a, NEW j \in U[q].cells
          PROVE  h[j].key # h[i].key
      <4>1. q + k - 1 \in 1..n /\ q + k - 1 > p /\ j \in T[q + k - 1].cells
        BY <2>2, <2>5, <3>5
      <4> QED
        BY <2>3, <4>1
    <3>6. Top(h, U, i, a)
      BY <3>4, <3>5 DEF Top
    <3> QED
      BY <2>2, <3>6, MergedIsTop
  <2>6. CASE p > a + k - 1
    <3> DEFINE u == p - k + 1
    <3>1. u \in 1..(n - k + 1) /\ u > a /\ i \in U[u].cells
      <4>1. u \in (a + 1)..(n - k + 1) /\ u \in 1..(n - k + 1) /\ u > a
        BY <2>2, <2>6
      <4>2. u + k - 1 = p
        BY <2>2
      <4> HIDE DEF u
      <4>3. U[u].cells = T[p].cells
        BY <4>1, <4>2
      <4> QED
        BY <2>2, <4>1, <4>3
    <3>2. ASSUME NEW q \in 1..(n - k + 1), q > u, NEW j \in U[q].cells
          PROVE  h[j].key # h[i].key
      <4>1. q + k - 1 \in 1..n /\ q + k - 1 > p /\ j \in T[q + k - 1].cells
        BY <2>2, <2>6, <3>1, <3>2
      <4> QED
        BY <2>3, <4>1
    <3>3. Top(h, U, i, u)
      BY <3>1, <3>2 DEF Top
    <3> QED
      BY <2>2, <3>3, MergedIsTop
  <2>7. p < a \/ (p >= a /\ p <= a + k - 1) \/ p > a + k - 1
    BY <2>2
  <2> QED
    BY <2>4, <2>5, <2>6, <2>7
<1>3. ASSUME NEW i, i \in Shown(h, U) PROVE i \in Shown(h, T)
  <2>1. PICK p : Top(h, U, i, p)
    BY <1>3, MergedIsTop
  <2>2. ~h[i].erase /\ p \in 1..(n - k + 1) /\ i \in U[p].cells
    BY <1>3, <2>1, MergedIsTop DEF Top
  <2>3. \A q \in 1..(n - k + 1) :
            q > p => \A j \in U[q].cells : h[j].key # h[i].key
    BY <2>1 DEF Top
  <2>4. ASSUME NEW q \in 1..n, q > a + k - 1, p <= a, NEW j \in T[q].cells
        PROVE  h[j].key # h[i].key
    <3>1. q - k + 1 \in 1..(n - k + 1) /\ q - k + 1 > a
          /\ j \in U[q - k + 1].cells
      <4>1. q - k + 1 \in (a + 1)..(n - k + 1) /\ (q - k + 1) + k - 1 = q
        BY <2>4
      <4>2. U[q - k + 1].cells = T[q].cells
        BY <4>1
      <4> QED
        BY <4>1, <4>2
    <3>2. q - k + 1 > p
      BY <2>2, <2>4, <3>1
    <3> QED
      BY <2>3, <3>1, <3>2
  <2>5. CASE p < a
    <3>1. ~f
      BY <2>2, <2>5
    <3>2. ASSUME NEW q \in a..(a + k - 1), NEW j \in T[q].cells,
                 h[j].key = h[i].key
          PROVE  FALSE
      <4> DEFINE K == {w \in 1..k : \E c \in W[w].cells : h[c].key = h[i].key}
      <4>1. q - a + 1 \in K
        <5>1. q - a + 1 \in 1..k /\ j \in W[q - a + 1].cells
          <6>1. q - a + 1 \in 1..k /\ a + (q - a + 1) - 1 = q
            OBVIOUS
          <6> QED
            BY <6>1
        <5> QED
          BY <3>2, <5>1
      <4>2. PICK w \in K : \A v \in K : v <= w
        <5>1. K \in SUBSET (1..k)
          OBVIOUS
        <5>2. K # {}
          BY <4>1
        <5>3. k \in Nat
          OBVIOUS
        <5> HIDE DEF K
        <5> QED
          BY <5>1, <5>2, <5>3, GreatestNat
      <4>3. PICK c \in W[w].cells : h[c].key = h[i].key
        BY <4>2
      <4>4. ASSUME NEW v \in 1..k, v > w, NEW e \in W[v].cells
            PROVE  h[e].key # h[c].key
        BY <4>2, <4>3, <4>4
      <4>5. Top(h, W, c, w)
        BY <4>3, <4>4 DEF Top
      <4>6. c \in U[a].cells
        BY <3>1, <4>5, MergedIsTop
      <4>7. a \in 1..(n - k + 1) /\ a > p
        BY <2>2, <2>5
      <4> QED
        BY <2>3, <4>3, <4>6, <4>7
    <3>3. ASSUME NEW q \in 1..n, q > p, NEW j \in T[q].cells
          PROVE  h[j].key # h[i].key
      <4>1. CASE q < a
        <5>1. q \in 1..(n - k + 1) /\ j \in U[q].cells
          BY <3>3, <4>1
        <5> QED
          BY <2>3, <3>3, <5>1
      <4>2. CASE q >= a /\ q <= a + k - 1
        <5>1. q \in a..(a + k - 1)
          BY <4>2
        <5> QED
          BY <3>2, <3>3, <5>1
      <4>3. CASE q > a + k - 1
        <5>1. p <= a
          BY <2>2, <2>5
        <5> QED
          BY <2>4, <3>3, <4>3, <5>1
      <4> QED
        BY <4>1, <4>2, <4>3
    <3>4. p \in 1..n /\ i \in T[p].cells
      <4>1. p \in 1..(a - 1) /\ p \in 1..n
        BY <2>2, <2>5
      <4> QED
        BY <2>2, <4>1
    <3>5. Top(h, T, i, p)
      BY <3>3, <3>4 DEF Top
    <3> QED
      BY <2>2, <3>5, MergedIsTop
  <2>6. CASE p = a
    <3>1. PICK w : Top(h, W, i, w)
      BY <2>2, <2>6, MergedIsTop
    <3>2. w \in 1..k /\ i \in W[w].cells
      BY <3>1 DEF Top
    <3> DEFINE t == a + w - 1
    <3>3. t \in 1..n /\ i \in T[t].cells
      <4>1. t \in 1..n
        BY <3>2
      <4>2. W[w].cells = T[t].cells
        BY <3>2
      <4> QED
        BY <3>2, <4>1, <4>2
    <3>4. ASSUME NEW q \in 1..n, q > t, NEW j \in T[q].cells
          PROVE  h[j].key # h[i].key
      <4>1. CASE q <= a + k - 1
        <5>1. q - a + 1 \in 1..k /\ q - a + 1 > w /\ j \in W[q - a + 1].cells
          <6>1. /\ q - a + 1 \in 1..k /\ q - a + 1 > w
                /\ a + (q - a + 1) - 1 = q
            BY <3>2, <3>4, <4>1
          <6> QED
            BY <3>4, <6>1
        <5> QED
          BY <3>1, <5>1 DEF Top
      <4>2. CASE q > a + k - 1
        BY <2>4, <2>6, <3>4, <4>2
      <4> QED
        BY <4>1, <4>2
    <3> HIDE DEF t
    <3>5. Top(h, T, i, t)
      BY <3>3, <3>4 DEF Top
    <3> QED
      BY <2>2, <3>5, MergedIsTop
  <2>7. CASE p > a
    <3> DEFINE t == p + k - 1
    <3>1. t \in 1..n /\ i \in T[t].cells
      BY <2>2, <2>7
    <3>2. ASSUME NEW q \in 1..n, q > t, NEW j \in T[q].cells
          PROVE  h[j].key # h[i].key
      <4>1. /\ q - k + 1 \in 1..(n - k + 1) /\ q - k + 1 > p
            /\ j \in U[q - k + 1].cells
        BY <2>2, <2>7, <3>2
      <4> QED
        BY <2>3, <4>1
    <3> HIDE DEF t
    <3>3. Top(h, T, i, t)
      BY <3>1, <3>2 DEF Top
    <3> QED
      BY <2>2, <3>3, MergedIsTop
  <2>8. p < a \/ p = a \/ p > a
    BY <2>2
  <2> QED
    BY <2>5, <2>6, <2>7, <2>8
<1> QED
  BY <1>2, <1>3
-----------------------------------------------------------------------------
(* Lists of tables and their files.                                        *)

\* What a list of entries is.
LEMMA ListedShape ==
    ASSUME NEW T \in Seq(TableSet), NEW todo \in Seq(EntrySet)
    PROVE  /\ Len(T) \in Nat /\ Len(todo) \in Nat
           /\ DOMAIN Listed(T, todo) = 1..(Len(T) + Len(todo))
           /\ \A p \in 1..Len(T) : /\ p \in DOMAIN Listed(T, todo)
                                   /\ Listed(T, todo)[p].name = T[p].name
                                   /\ Listed(T, todo)[p].disk = T[p].disk
           /\ \A p \in 1..(Len(T) + Len(todo)) :
                  p > Len(T) => /\ p - Len(T) \in 1..Len(todo)
                                /\ Listed(T, todo)[p] = todo[p - Len(T)]
           /\ \A p \in 1..(Len(T) + Len(todo)) : Listed(T, todo)[p] \in EntrySet
<1>1. Len(T) \in Nat /\ Len(todo) \in Nat
  OBVIOUS
<1>2. DOMAIN Listed(T, todo) = 1..(Len(T) + Len(todo))
  BY DEF Listed
<1>3. ASSUME NEW p \in 1..Len(T)
      PROVE  /\ p \in 1..(Len(T) + Len(todo))
             /\ Listed(T, todo)[p] = [name |-> T[p].name, disk |-> T[p].disk]
             /\ T[p] \in TableSet
  <2>1. p \in 1..(Len(T) + Len(todo)) /\ p <= Len(T)
    BY <1>1
  <2> QED
    BY <2>1 DEF Listed
<1>4. ASSUME NEW p \in 1..(Len(T) + Len(todo)), p > Len(T)
      PROVE  p - Len(T) \in 1..Len(todo) /\ Listed(T, todo)[p] = todo[p - Len(T)]
  <2>1. p - Len(T) \in 1..Len(todo) /\ ~(p <= Len(T))
    BY <1>1, <1>4
  <2> QED
    BY <2>1 DEF Listed
<1>5. ASSUME NEW p \in 1..(Len(T) + Len(todo)) PROVE Listed(T, todo)[p] \in EntrySet
  <2>1. CASE p <= Len(T)
    <3>1. p \in 1..Len(T)
      BY <2>1
    <3>2. T[p].name \in Nat /\ T[p].disk \in BOOLEAN
      BY <1>3, <3>1 DEF TableSet
    <3>3. [name |-> T[p].name, disk |-> T[p].disk] \in EntrySet
      BY <3>2 DEF EntrySet
    <3> QED
      BY <1>3, <3>1, <3>3
  <2>2. CASE p > Len(T)
    BY <1>4, <2>2
  <2> QED
    BY <1>1, <2>1, <2>2
<1>6. ASSUME NEW p \in 1..Len(T)
      PROVE  /\ p \in DOMAIN Listed(T, todo)
             /\ Listed(T, todo)[p].name = T[p].name
             /\ Listed(T, todo)[p].disk = T[p].disk
  <2>1. p \in DOMAIN Listed(T, todo)
    BY <1>2, <1>3
  <2>2. Listed(T, todo)[p] = [name |-> T[p].name, disk |-> T[p].disk]
    BY <1>3
  <2>3. Listed(T, todo)[p].name = T[p].name /\ Listed(T, todo)[p].disk = T[p].disk
    BY <2>2
  <2> QED
    BY <2>1, <2>3
<1> QED
  BY <1>1, <1>2, <1>4, <1>5, <1>6

\* What a state file lists.
LEMMA InStateShape ==
    ASSUME NEW s \in StateSet
    PROVE  /\ Len(s.names) \in Nat /\ DOMAIN InState(s) = 1..Len(s.names)
           /\ \A p \in 1..Len(s.names) :
                  /\ p \in Nat /\ s.names[p] \in Nat
                  /\ InState(s)[p].name = s.names[p]
                  /\ InState(s)[p].disk = (p <= s.nDisk)
           /\ Range(s.names) = {s.names[p] : p \in 1..Len(s.names)}
BY DEF InState, StateSet, Range

\* Two lists that say the same are the same.
LEMMA ListsEqual ==
    ASSUME NEW T \in Seq(TableSet), NEW U \in Seq(TableSet),
           NEW todo \in Seq(EntrySet), NEW rest \in Seq(EntrySet),
           Len(T) + Len(todo) = Len(U) + Len(rest),
           \A p \in 1..(Len(T) + Len(todo)) :
               Listed(T, todo)[p] = Listed(U, rest)[p]
    PROVE  Listed(T, todo) = Listed(U, rest)
BY DEF Listed

\* Other tables of the same names and kinds are listed alike.
LEMMA ListedSame ==
    ASSUME NEW T \in Seq(TableSet), NEW U \in Seq(TableSet),
           NEW todo \in Seq(EntrySet), Len(T) = Len(U),
           \A p \in 1..Len(T) : T[p].name = U[p].name /\ T[p].disk = U[p].disk
    PROVE  Listed(T, todo) = Listed(U, todo)
<1>1. Len(T) + Len(todo) = Len(U) + Len(todo) /\ Len(T) \in Nat /\ Len(todo) \in Nat
  OBVIOUS
<1>2. ASSUME NEW p \in 1..(Len(T) + Len(todo))
      PROVE  Listed(T, todo)[p] = Listed(U, todo)[p]
  <2>1. CASE p <= Len(T)
    <3>1. p \in 1..Len(T)
      BY <2>1
    <3> QED
      BY <2>1, <3>1 DEF Listed
  <2>2. CASE ~(p <= Len(T))
    BY <2>2 DEF Listed
  <2> QED
    BY <2>1, <2>2
<1> QED
  BY <1>1, <1>2, ListsEqual

\* Files may come, change their cells and get out of use.
LEMMA FilesChange ==
    ASSUME NEW E, NEW F, NEW G, NEW next \in Nat, NEW more \in Nat,
           next <= more, HaveFiles(E, F, next),
           \A p \in DOMAIN E : E[p].name \in Nat,
           \A p \in DOMAIN E : /\ E[p].name \in DOMAIN G
                               /\ G[E[p].name].disk = F[E[p].name].disk
    PROVE  HaveFiles(E, G, more)
BY DEF HaveFiles

\* What a start finds depends on the cells of the files in use.
LEMMA WholeSame ==
    ASSUME NEW h, NEW F, NEW G, NEW E, NEW n,
           \A p \in DOMAIN E : F[E[p].name].cells = G[E[p].name].cells,
           Whole(h, F, E, n)
    PROVE  Whole(h, G, E, n)
<1>1. OnFile(h, F, E) = OnFile(h, G, E)
  BY DEF OnFile
<1> QED
  BY <1>1 DEF Whole

\* Merged and Visible are those of the history.
LEMMA MergedHere ==
    /\ \A T, f : Merged(T, f) = MergedIn(hist, T, f)
    /\ \A n : Visible(n) = VisibleIn(hist, n)
BY DEF Merged, MergedIn, Visible, VisibleIn

\* The cells of Newest(h, S) are cells of S.
LEMMA NewestSubset == \A h, S : Newest(h, S) \subseteq S
BY DEF Newest

\* The disk tables are the first d of the list.
LEMMA CountDisk ==
    ASSUME NEW T \in Seq(TableSet), NEW d \in Nat, d <= Len(T),
           \A p \in DOMAIN T : T[p].disk <=> p <= d
    PROVE  NumDiskTables(T) = d /\ DiskCount(T) = d
<1>1. Len(T) \in Nat /\ DOMAIN T = 1..Len(T)
  OBVIOUS
<1>2. {p \in DOMAIN T : T[p].disk} = 1..d
  BY <1>1
<1>3. Cardinality(1..d) = d
  BY FS_Interval
<1>4. NumDiskTables(T) = d
  BY <1>2, <1>3 DEF NumDiskTables
<1> DEFINE D == {n \in DOMAIN T : \A p \in 1..n : T[p].disk}
<1>5. D = 1..d
  <2>1. ASSUME NEW n \in D PROVE n \in 1..d
    <3>1. n \in 1..n /\ n \in DOMAIN T
      BY <1>1
    <3>2. T[n].disk
      BY <3>1
    <3> QED
      BY <1>1, <3>1, <3>2
  <2>2. ASSUME NEW n \in 1..d PROVE n \in D
    <3>1. n \in DOMAIN T
      BY <1>1
    <3>2. \A p \in 1..n : p \in DOMAIN T /\ p <= d
      BY <1>1
    <3> QED
      BY <3>1, <3>2
  <2> QED
    BY <2>1, <2>2
<1>6. {0} \cup D = 0..d
  BY <1>5
<1>7. d \in 0..d /\ \A y \in 0..d : d >= y
  OBVIOUS
<1>8. Max(0..d) = d
  <2>1. \A x \in 0..d : (\A y \in 0..d : x >= y) => x = d
    BY <1>7
  <2> QED
    BY <1>7, <2>1 DEF Max
<1>9. DiskCount(T) = d
  BY <1>6, <1>8 DEF DiskCount
<1> QED
  BY <1>4, <1>9

\* JobIsValid, for any list.
ValidIn(T, job) ==
    \E first \in DOMAIN T :
        /\ Len(job.names) > 1 /\ first + Len(job.names) <= Len(T)
        /\ \A k \in 1..Len(job.names) : /\ T[first + k - 1].name = job.names[k]
                                        /\ T[first + k - 1].disk
        /\ job.filterErasures => first = 1
LEMMA ValidHere == \A job : JobIsValid(job) <=> ValidIn(tables, job)
BY DEF JobIsValid, ValidIn

\* A job that is made of two or more disk tables is valid.
LEMMA JobIsMade ==
    ASSUME NEW T \in Seq(TableSet), NEW d \in Nat, d < Len(T),
           \A p \in DOMAIN T : T[p].disk <=> p <= d,
           NEW w, w[1] \in 1..d, w[2] \in 1..d, w[2] - w[1] + 1 > 1
    PROVE  Compaction(T, w) \in JobSet /\ ValidIn(T, Compaction(T, w))
<1> DEFINE a == w[1]
           n == w[2] - w[1] + 1
           N == NamesOf(T, w)
<1>1. a \in Nat /\ a >= 1 /\ n \in Nat /\ n > 1 /\ a + n <= Len(T) /\ a \in DOMAIN T
      /\ a + n - 1 <= d
  OBVIOUS
<1>2. ASSUME NEW k \in 1..n
      PROVE  a + k - 1 \in DOMAIN T /\ T[a + k - 1].disk /\ T[a + k - 1].name \in Nat
  <2> HIDE DEF a, n
  <2>1. DOMAIN T = 1..Len(T) /\ Len(T) \in Nat
    OBVIOUS
  <2>2. a + k - 1 \in 1..Len(T) /\ a + k - 1 <= d
    BY <1>1, <2>1
  <2>3. T[a + k - 1] \in TableSet
    BY <2>2
  <2>4. T[a + k - 1].disk
    BY <2>1, <2>2
  <2> QED
    BY <2>1, <2>2, <2>3, <2>4 DEF TableSet
<1>3. N = [p \in 1..n |-> T[a + p - 1].name]
  BY DEF NamesOf
<1>4. N \in Seq(Nat) /\ Len(N) = n /\ \A k \in 1..n : N[k] = T[a + k - 1].name
  <2> DEFINE nm(p) == T[a + p - 1].name
  <2>1. N = [p \in 1..n |-> nm(p)] /\ n \in Nat /\ \A p \in 1..n : nm(p) \in Nat
    BY <1>1, <1>2, <1>3
  <2>2. \A p \in 1..n : nm(p) = T[a + p - 1].name
    OBVIOUS
  <2> HIDE DEF N, n, a, nm
  <2>3. N \in Seq(Nat) /\ Len(N) = n /\ \A k \in 1..n : N[k] = nm(k)
    BY <2>1
  <2> QED
    BY <2>2, <2>3
<1>5. Compaction(T, w) = [names |-> N, filterErasures |-> a = 1]
  BY DEF Compaction
<1> HIDE DEF N, n, a
<1>6. /\ Compaction(T, w).names = N /\ Compaction(T, w).filterErasures = (a = 1)
      /\ Compaction(T, w) \in JobSet
  BY <1>4, <1>5 DEF JobSet
<1> QED
  BY <1>1, <1>2, <1>4, <1>6 DEF ValidIn

\* The windows of scheduleCompaction() are of two or more disk tables.
LEMMA WindowsAreLarge ==
    ASSUME NEW T \in Seq(TableSet), NEW d \in Nat, d < Len(T), d > 1,
           \A p \in DOMAIN T : T[p].disk <=> p <= d, Len(T) > CompactAt,
           NEW w \in Windows(T, Len(T) - Slack)
    PROVE  w[1] \in 1..d /\ w[2] \in 1..d /\ w[2] - w[1] + 1 > 1
<1>1. DiskCount(T) = d
  BY CountDisk
<1> DEFINE least == Min({Len(T) - Slack, MaxWayMerge})
           W == {v \in (1..d) \X (1..d) : v[2] - v[1] + 1 \in least..MaxWayMerge}
<1>2. Len(T) - Slack \in Nat /\ MaxWayMerge \in Nat /\ Len(T) - Slack > 1 /\ MaxWayMerge > 1
  BY LocalTableAssumption
<1>3. least \in Nat /\ least > 1
  <2>1. \A x, y \in Nat : \E m \in {x, y} : \A z \in {x, y} : m <= z
    <3> SUFFICES ASSUME NEW x \in Nat, NEW y \in Nat
                 PROVE  \E m \in {x, y} : \A z \in {x, y} : m <= z
      OBVIOUS
    <3>1. CASE x <= y
      BY <3>1
    <3>2. CASE y <= x
      BY <3>2
    <3> QED
      BY <3>1, <3>2
  <2>2. least \in {Len(T) - Slack, MaxWayMerge}
    BY <1>2, <2>1 DEF Min
  <2> QED
    BY <1>2, <2>2
<1>4. w \in IF W = {} THEN {<<1, d>>} ELSE W
  BY <1>1 DEF Windows
<1>5. CASE W = {}
  BY <1>4, <1>5
<1>6. CASE w \in W
  <2>1. w[1] \in 1..d /\ w[2] \in 1..d /\ w[2] - w[1] + 1 \in least..MaxWayMerge
    BY <1>6
  <2> HIDE DEF least
  <2> QED
    BY <1>2, <1>3, <2>1
<1> QED
  BY <1>4, <1>5, <1>6
-----------------------------------------------------------------------------
(* What the invariant says.                                                *)

\* The states of the workers.
LEMMA WorkerStates ==
    /\ Idle.pc = "idle"
    /\ \A s \in SerSet \cup {Idle} :
           /\ s.pc \in {"idle", "index", "swap", "remove"}
           /\ s.pc = "idle" <=> s = Idle
           /\ s.pc # "idle" => s \in SerSet /\ s.name \in Nat /\ s.out \in Nat
    /\ \A c \in CompSet \cup {Idle} :
           /\ c.pc \in {"idle", "replace", "finish"}
           /\ c.pc = "idle" <=> c = Idle
           /\ c.pc # "idle" => /\ c \in CompSet /\ c.job \in JobSet
                               /\ c.out \in Nat /\ c.job.names \in Seq(Nat)
<1>1. Idle.pc = "idle"
  BY DEF Idle
<1>2. \A s \in SerSet : /\ s.pc \in {"index", "swap", "remove"}
                        /\ s.name \in Nat /\ s.out \in Nat
  BY DEF SerSet
<1>3. \A c \in CompSet : /\ c.pc \in {"replace", "finish"} /\ c.job \in JobSet
                         /\ c.out \in Nat
  BY DEF CompSet
<1>4. \A j \in JobSet : j.names \in Seq(Nat)
  BY DEF JobSet
<1> QED
  BY <1>1, <1>2, <1>3, <1>4

\* The caller goes to another place.
LEMMA CallerMoves ==
    ASSUME CallerTypes, NEW pc \in MainPc
    PROVE  At(pc) \in MainSet /\ At(pc).pc = pc /\ At(pc).todo = main.todo
BY DEF CallerTypes, At, MainSet

\* The tables that are loaded.
LEMMA TablesInUse ==
    ASSUME IInv
    PROVE  /\ Len(tables) \in Nat /\ DOMAIN tables = 1..Len(tables)
           /\ state.next \in Nat
           /\ \A p \in 1..Len(tables) :
                  /\ tables[p] \in TableSet /\ tables[p].name \in Nat
                  /\ tables[p].disk \in BOOLEAN
                  /\ tables[p].name \in DOMAIN files /\ tables[p].name < state.next
                  /\ files[tables[p].name].disk = tables[p].disk
                  /\ tables[p].name \in Used(Entries, state)
           /\ \A p, q \in 1..Len(tables) : tables[p].name = tables[q].name => p = q
<1>1. /\ TableTypes /\ CallerTypes /\ CallerAt /\ EntriesHaveFiles
  BY DEF IInv, Types
<1>2. /\ tables \in Seq(TableSet) /\ main.todo \in Seq(EntrySet) /\ state.next \in Nat
  BY <1>1 DEF TableTypes, CallerTypes, MainSet, StateSet
<1>3. Len(tables) \in Nat /\ DOMAIN tables = 1..Len(tables)
  BY <1>2
<1>4. ASSUME NEW p \in 1..Len(tables)
      PROVE tables[p] \in TableSet /\ tables[p].name \in Nat /\ tables[p].disk \in BOOLEAN
  <2>1. tables[p] \in TableSet
    BY <1>2
  <2> QED
    BY <2>1 DEF TableSet
<1>5. CASE main.pc = "down"
  <2>1. Len(tables) = 0
    BY <1>1, <1>5 DEF CallerAt
  <2> QED
    BY <1>2, <1>3, <2>1
<1>6. CASE main.pc # "down"
  <2>1. Entries = Listed(tables, main.todo)
    BY <1>6 DEF Entries
  <2>2. HaveFiles(Entries, files, state.next)
    BY <1>1 DEF EntriesHaveFiles
  <2>3. \A p \in 1..Len(tables) : /\ p \in DOMAIN Entries
                                  /\ Entries[p].name = tables[p].name
                                  /\ Entries[p].disk = tables[p].disk
    BY <1>2, <2>1, ListedShape
  <2>4. \A p \in 1..Len(tables) :
            /\ tables[p].name \in DOMAIN files /\ tables[p].name < state.next
            /\ files[tables[p].name].disk = tables[p].disk
    BY <2>2, <2>3 DEF HaveFiles
  <2>5. \A p, q \in 1..Len(tables) : tables[p].name = tables[q].name => p = q
    BY <2>2, <2>3 DEF HaveFiles
  <2>6. \A p \in 1..Len(tables) : tables[p].name \in Used(Entries, state)
    BY <2>3 DEF Used
  <2> QED
    BY <1>2, <1>3, <1>4, <2>4, <2>5, <2>6
<1> QED
  BY <1>5, <1>6

\* The entries, loaded or not, and the files in use.
LEMMA EntriesInUse ==
    ASSUME IInv
    PROVE  /\ \A p \in DOMAIN Entries : Entries[p].name \in Nat
           /\ \A p \in DOMAIN InState(state) : InState(state)[p].name \in Nat
           /\ \A i \in Used(Entries, state) :
                  i \in Nat /\ i \in DOMAIN files /\ i < state.next
<1>1. /\ TableTypes /\ CallerTypes /\ EntriesHaveFiles /\ StateFile
  BY DEF IInv, Types
<1>2. /\ tables \in Seq(TableSet) /\ main.todo \in Seq(EntrySet) /\ state \in StateSet
  BY <1>1 DEF TableTypes, CallerTypes, MainSet
<1>3. ASSUME NEW p \in DOMAIN InState(state)
      PROVE  InState(state)[p].name \in Nat /\ InState(state)[p].name = state.names[p]
  BY <1>2, InStateShape
<1>4. ASSUME NEW p \in DOMAIN Entries PROVE Entries[p].name \in Nat
  <2>1. CASE main.pc = "down"
    BY <1>3, <2>1 DEF Entries
  <2>2. CASE main.pc # "down"
    <3>1. Entries[p] \in EntrySet
      BY <1>2, <2>2, ListedShape DEF Entries
    <3> QED
      BY <3>1 DEF EntrySet
  <2> QED
    BY <2>1, <2>2
<1>5. ASSUME NEW i \in Used(Entries, state)
      PROVE  i \in Nat /\ i \in DOMAIN files /\ i < state.next
  <2>1. CASE \E p \in DOMAIN Entries : i = Entries[p].name
    BY <1>1, <1>4, <2>1 DEF EntriesHaveFiles, HaveFiles
  <2>2. CASE i \in Range(state.names)
    <3>1. PICK p \in 1..Len(state.names) : i = state.names[p]
      BY <1>2, <2>2, InStateShape
    <3>2. p \in DOMAIN InState(state) /\ InState(state)[p].name = i
      BY <1>2, <3>1, InStateShape
    <3> QED
      BY <1>1, <1>3, <3>2 DEF StateFile, HaveFiles
  <2> QED
    BY <2>1, <2>2 DEF Used
<1> QED
  BY <1>3, <1>4, <1>5

\* The disk tables of the list: there is a table after them when the caller is
\* at rest.
LEMMA DiskTables ==
    ASSUME IInv
    PROVE  /\ NDisk \in Nat /\ NDisk <= Len(tables)
           /\ LastIsLog => NDisk < Len(tables)
           /\ NumDiskTables(tables) = NDisk /\ DiskCount(tables) = NDisk
<1>1. tables \in Seq(TableSet) /\ Len(tables) \in Nat /\ LogsQueued /\ SerTypes
  BY TablesInUse DEF IInv, Types, TableTypes
<1>2. /\ NDisk \in Nat /\ NDisk <= Len(tables)
      /\ LastIsLog => NDisk < Len(tables)
  <2>1. Len(squeue) \in Nat /\ Pend \in {0, 1}
    BY <1>1 DEF SerTypes, Pend
  <2>2. NDisk \in Nat
    BY <1>1 DEF LogsQueued
  <2>3. NDisk = Len(tables) - Pend - Len(squeue) - (IF LastIsLog THEN 1 ELSE 0)
    BY DEF NDisk
  <2> QED
    BY <1>1, <2>1, <2>2, <2>3
<1>3. \A p \in DOMAIN tables : tables[p].disk <=> p <= NDisk
  BY <1>1 DEF LogsQueued
<1> QED
  BY <1>1, <1>2, <1>3, CountDisk

\* Files are not ahead of what was synced, and the tables before the last have
\* what their files have.
LEMMA CellsOfTables ==
    ASSUME IInv, NEW p \in 1..Len(tables),
           p # Len(tables) \/ synced = applied
    PROVE  /\ tables[p].cells = Newest(hist, files[tables[p].name].cells)
           /\ tables[p].cells \in SUBSET (1..synced)
<1>1. TablesFollowFiles /\ FileTypes /\ HistTypes
  BY DEF IInv, Types
<1>2. /\ p \in DOMAIN tables /\ tables[p].name \in DOMAIN files
  BY TablesInUse
<1>3. Unsynced(tables, p, synced, applied) = {}
  BY <1>1 DEF Unsynced, HistTypes
<1>4. tables[p].cells = Newest(hist, files[tables[p].name].cells)
  BY <1>1, <1>2, <1>3 DEF TablesFollowFiles, Follow
<1>5. \A c \in files[tables[p].name].cells : c \in 1..synced
  BY <1>1, <1>2 DEF FileTypes
<1> QED
  BY <1>4, <1>5, NewestSubset

-----------------------------------------------------------------------------
(* Compactions that are scheduled.                                         *)

\* scheduleCompaction() queues a valid job, if any.
LEMMA JobScheduled ==
    ASSUME NEW T \in Seq(TableSet), NEW d \in Nat, d < Len(T),
           \A p \in DOMAIN T : T[p].disk <=> p <= d, Len(T) > CompactAt,
           ScheduleCompaction(T), cqueue = <<>>
    PROVE  /\ scheduled' = TRUE /\ cqueue' \in Seq(JobSet) /\ Len(cqueue') <= 1
           /\ \A p \in DOMAIN cqueue' : ValidIn(T, cqueue'[p])
<1>1. scheduled' = TRUE
  BY DEF ScheduleCompaction
<1>2. DiskCount(T) = d
  BY CountDisk
<1>3. CASE d <= 1
  <2>1. cqueue' = <<>>
    BY <1>2, <1>3 DEF ScheduleCompaction
  <2> QED
    BY <1>1, <2>1
<1>4. CASE d > 1
  <2>1. PICK w \in Windows(T, Len(T) - Slack) :
            cqueue' = Append(cqueue, Compaction(T, w))
    BY <1>2, <1>4 DEF ScheduleCompaction
  <2>2. w[1] \in 1..d /\ w[2] \in 1..d /\ w[2] - w[1] + 1 > 1
    BY <1>4, WindowsAreLarge
  <2>3. Compaction(T, w) \in JobSet /\ ValidIn(T, Compaction(T, w))
    BY <2>2, JobIsMade
  <2>4. cqueue' = <<Compaction(T, w)>>
    BY <2>1
  <2>5. /\ cqueue' \in Seq(JobSet) /\ Len(cqueue') = 1 /\ DOMAIN cqueue' = {1}
        /\ cqueue'[1] = Compaction(T, w)
    BY <2>3, <2>4
  <2>6. \A p \in DOMAIN cqueue' : ValidIn(T, cqueue'[p])
    BY <2>3, <2>5
  <2>7. Len(cqueue') <= 1
    BY <2>5
  <2> QED
    BY <1>1, <2>5, <2>6, <2>7
<1>5. d <= 1 \/ d > 1
  OBVIOUS
<1> QED
  BY <1>3, <1>4, <1>5

\* scheduleFullCompaction() likewise.
LEMMA FullScheduled ==
    ASSUME NEW T \in Seq(TableSet), NEW d \in Nat, d < Len(T),
           \A p \in DOMAIN T : T[p].disk <=> p <= d,
           NEW full \in BOOLEAN, ScheduleFullCompaction(T, full), cqueue = <<>>
    PROVE  /\ scheduled' \in BOOLEAN /\ fullRequested' \in BOOLEAN
           /\ cqueue' \in Seq(JobSet) /\ Len(cqueue') <= 1
           /\ ~scheduled' => cqueue' = <<>>
           /\ \A p \in DOMAIN cqueue' : ValidIn(T, cqueue'[p])
<1>1. DiskCount(T) = d
  BY CountDisk
<1>2. CASE Len(T) > MaxWayMerge
  <2>1. Len(T) > CompactAt /\ ScheduleCompaction(T) /\ fullRequested' = TRUE
    BY <1>2, LocalTableAssumption DEF ScheduleFullCompaction
  <2> QED
    BY <2>1, JobScheduled
<1>3. CASE ~(Len(T) > MaxWayMerge)
  <2>1. /\ fullRequested' = full /\ scheduled' = (d > 1)
        /\ cqueue' = IF d > 1 THEN Append(cqueue, Compaction(T, <<1, d>>))
                     ELSE cqueue
    BY <1>1, <1>3 DEF ScheduleFullCompaction
  <2>2. CASE d > 1
    <3> DEFINE w == <<1, d>>
    <3>1. w[1] = 1 /\ w[2] = d
      OBVIOUS
    <3>2. cqueue' = <<Compaction(T, w)>>
      BY <2>1, <2>2
    <3> HIDE DEF w
    <3>3. w[1] \in 1..d /\ w[2] \in 1..d /\ w[2] - w[1] + 1 > 1
      BY <2>2, <3>1
    <3>4. Compaction(T, w) \in JobSet /\ ValidIn(T, Compaction(T, w))
      BY <3>3, JobIsMade
    <3>5. /\ cqueue' \in Seq(JobSet) /\ Len(cqueue') = 1 /\ DOMAIN cqueue' = {1}
          /\ cqueue'[1] = Compaction(T, w)
      BY <3>2, <3>4
    <3>6. scheduled' = TRUE
      BY <2>1, <2>2
    <3>7. fullRequested' \in BOOLEAN
      BY <2>1
    <3>8. \A p \in DOMAIN cqueue' : ValidIn(T, cqueue'[p])
      BY <3>4, <3>5
    <3>9. Len(cqueue') <= 1
      BY <3>5
    <3> QED
      BY <3>5, <3>6, <3>7, <3>8, <3>9
  <2>3. CASE ~(d > 1)
    <3>1. cqueue' = <<>>
      BY <2>1, <2>3
    <3>2. scheduled' \in BOOLEAN
      BY <2>1
    <3>3. fullRequested' \in BOOLEAN
      BY <2>1
    <3> QED
      BY <3>1, <3>2, <3>3
  <2> QED
    BY <2>2, <2>3
<1> QED
  BY <1>2, <1>3

-----------------------------------------------------------------------------
(* Each action keeps the invariant: those that leave tables and files.     *)

\* LoadPush keeps the invariant.
LEMMA LoadPushKept == ASSUME IInv, LoadPush PROVE IInv'
<1>1. /\ Types /\ HistTypes /\ FileTypes /\ TableTypes /\ CallerTypes
      /\ SerTypes /\ CompTypes /\ CallerAt /\ OneCompaction
      /\ EntriesHaveFiles /\ StateFile /\ WorkersFiles /\ LogsQueued
      /\ CompactionsAreValid /\ TablesFollowFiles /\ FilesAreComplete
  BY DEF IInv, Types
<1>2. /\ hist' = hist /\ applied' = applied /\ synced' = synced
      /\ files' = files /\ state' = state /\ tables' = tables
      /\ nextIndex' = nextIndex /\ initialized' = initialized /\ ser' = ser
      /\ cqueue' = cqueue /\ comp' = comp /\ scheduled' = scheduled
      /\ fullRequested' = fullRequested /\ requests' = requests /\ stops' = stops
      /\ torn' = torn
  BY DEF LoadPush, callVars, diskVars, serVars, compVars, bounds
<1>3. /\ main.pc = "loadpush"
      /\ main' \in MainSet /\ main'.pc = "load" /\ main'.todo = main.todo
  <2>1. main.pc = "loadpush" /\ main' = At("load")
    BY DEF LoadPush
  <2>2. At("load") \in MainSet /\ At("load").pc = "load" /\ At("load").todo = main.todo
    BY <1>1, CallerMoves DEF MainPc
  <2> QED
    BY <2>1, <2>2
<1>4. main.pc # "down" /\ main'.pc # "down" /\ main'.todo = main.todo
  BY <1>3
<1>5. Entries' = Entries
  BY <1>2, <1>4 DEF Entries
<1>11. HistTypes'
  BY <1>1, <1>2 DEF HistTypes
<1>12. FileTypes'
  BY <1>1, <1>2 DEF FileTypes
<1>13. TableTypes'
  BY <1>1, <1>2 DEF TableTypes
<1>14. CallerTypes'
  BY <1>1, <1>2, <1>3 DEF CallerTypes
<1>15. SerTypes'
  <2>1. /\ squeue' = Append(squeue, LastTable.name) /\ Len(squeue) < QMax
    BY DEF LoadPush
  <2>2. LastIsLog /\ ~LastIsLog'
    BY <1>3 DEF LastIsLog
  <2>3. /\ NDisk \in Nat /\ NDisk < Len(tables) /\ Pend \in {0, 1}
        /\ Len(squeue) \in Nat /\ Len(tables) \in Nat /\ QMax \in Nat
    BY <2>2, DiskTables, TablesInUse, <1>1, LocalTableAssumption DEF Pend, SerTypes
  <2>4. LastTable.name \in Nat
    BY <2>3, TablesInUse DEF LastTable
  <2>5. squeue' \in Seq(Nat) /\ Len(squeue') = Len(squeue) + 1
    BY <1>1, <2>1, <2>4 DEF SerTypes
  <2> QED
    BY <1>1, <1>2, <2>1, <2>3, <2>5 DEF SerTypes
<1>16. CompTypes'
  BY <1>1, <1>2 DEF CompTypes
<1>17. CallerAt'
  BY <1>1, <1>2, <1>3 DEF CallerAt
<1>18. OneCompaction'
  BY <1>1, <1>2 DEF OneCompaction
<1>19. EntriesHaveFiles'
  BY <1>1, <1>2, <1>5 DEF EntriesHaveFiles
<1>20. StateFile'
  BY <1>1, <1>2, <1>3 DEF StateFile
<1>21. WorkersFiles'
  BY <1>1, <1>2, <1>5 DEF WorkersFiles, Apart
<1>22. LogsQueued'
  <2>1. /\ squeue' = Append(squeue, LastTable.name) /\ Len(squeue) < QMax
    BY DEF LoadPush
  <2>2. LastIsLog /\ ~LastIsLog'
    BY <1>3 DEF LastIsLog
  <2>3. /\ NDisk \in Nat /\ NDisk < Len(tables) /\ Pend \in {0, 1}
        /\ Len(squeue) \in Nat /\ Len(tables) \in Nat /\ QMax \in Nat
    BY <2>2, DiskTables, TablesInUse, <1>1, LocalTableAssumption DEF Pend, SerTypes
  <2>4. LastTable.name \in Nat
    BY <2>3, TablesInUse DEF LastTable
  <2>5. squeue \in Seq(Nat)
    BY <1>1 DEF SerTypes
  <2>6. /\ Len(squeue') = Len(squeue) + 1
        /\ \A k \in 1..Len(squeue) : squeue'[k] = squeue[k]
        /\ squeue'[Len(squeue) + 1] = LastTable.name
        /\ DOMAIN squeue' = 1..(Len(squeue) + 1)
    BY <2>1, <2>4, <2>5
  <2>7. Pend' = Pend
    BY <1>2 DEF Pend
  <2>8. NDisk = Len(tables) - Pend - Len(squeue) - 1
    BY <2>2 DEF NDisk
  <2>9. NDisk' = NDisk
    BY <1>2, <2>2, <2>3, <2>6, <2>7, <2>8 DEF NDisk
  <2>10. \A k \in 1..(Len(squeue) + 1) :
             tables[NDisk + Pend + k].name = squeue'[k]
    <3> TAKE k \in 1..(Len(squeue) + 1)
    <3>1. CASE k \in 1..Len(squeue)
      BY <1>1, <2>5, <2>6, <3>1 DEF LogsQueued
    <3>2. CASE k = Len(squeue) + 1
      <4>1. NDisk + Pend + k = Len(tables)
        BY <2>3, <2>8, <3>2
      <4> QED
        BY <2>6, <3>2, <4>1 DEF LastTable
    <3> QED
      BY <2>3, <3>1, <3>2
  <2> QED
    BY <1>1, <1>2, <2>6, <2>7, <2>9, <2>10 DEF LogsQueued
<1>23. CompactionsAreValid'
  BY <1>1, <1>2 DEF CompactionsAreValid, JobIsValid
<1>24. TablesFollowFiles'
  BY <1>1, <1>2 DEF TablesFollowFiles
<1>25. FilesAreComplete'
  BY <1>1, <1>2, <1>5 DEF FilesAreComplete
<1> QED
  BY <1>11, <1>12, <1>13, <1>14, <1>15, <1>16, <1>17, <1>18, <1>19,
     <1>20, <1>21, <1>22, <1>23, <1>24, <1>25 DEF IInv, Types

\* PushSerialization keeps the invariant.
LEMMA PushSerializationKept == ASSUME IInv, PushSerialization PROVE IInv'
<1>1. /\ Types /\ HistTypes /\ FileTypes /\ TableTypes /\ CallerTypes
      /\ SerTypes /\ CompTypes /\ CallerAt /\ OneCompaction
      /\ EntriesHaveFiles /\ StateFile /\ WorkersFiles /\ LogsQueued
      /\ CompactionsAreValid /\ TablesFollowFiles /\ FilesAreComplete
  BY DEF IInv, Types
<1>2. /\ hist' = hist /\ applied' = applied /\ synced' = synced
      /\ files' = files /\ state' = state /\ tables' = tables
      /\ nextIndex' = nextIndex /\ initialized' = initialized /\ ser' = ser
      /\ cqueue' = cqueue /\ comp' = comp /\ scheduled' = scheduled
      /\ fullRequested' = fullRequested /\ requests' = requests /\ stops' = stops
      /\ torn' = torn
  BY DEF PushSerialization, callVars, diskVars, serVars, compVars, bounds
<1>3. /\ main.pc = "push"
      /\ main' \in MainSet /\ main'.pc = "create" /\ main'.todo = main.todo
  <2>1. main.pc = "push" /\ main' = At("create")
    BY DEF PushSerialization
  <2>2. At("create") \in MainSet /\ At("create").pc = "create" /\ At("create").todo = main.todo
    BY <1>1, CallerMoves DEF MainPc
  <2> QED
    BY <2>1, <2>2
<1>4. main.pc # "down" /\ main'.pc # "down" /\ main'.todo = main.todo
  BY <1>3
<1>5. Entries' = Entries
  BY <1>2, <1>4 DEF Entries
<1>11. HistTypes'
  BY <1>1, <1>2 DEF HistTypes
<1>12. FileTypes'
  BY <1>1, <1>2 DEF FileTypes
<1>13. TableTypes'
  BY <1>1, <1>2 DEF TableTypes
<1>14. CallerTypes'
  BY <1>1, <1>2, <1>3 DEF CallerTypes
<1>15. SerTypes'
  <2>1. /\ squeue' = Append(squeue, LastTable.name) /\ Len(squeue) < QMax
    BY DEF PushSerialization
  <2>2. LastIsLog /\ ~LastIsLog'
    BY <1>3 DEF LastIsLog
  <2>3. /\ NDisk \in Nat /\ NDisk < Len(tables) /\ Pend \in {0, 1}
        /\ Len(squeue) \in Nat /\ Len(tables) \in Nat /\ QMax \in Nat
    BY <2>2, DiskTables, TablesInUse, <1>1, LocalTableAssumption DEF Pend, SerTypes
  <2>4. LastTable.name \in Nat
    BY <2>3, TablesInUse DEF LastTable
  <2>5. squeue' \in Seq(Nat) /\ Len(squeue') = Len(squeue) + 1
    BY <1>1, <2>1, <2>4 DEF SerTypes
  <2> QED
    BY <1>1, <1>2, <2>1, <2>3, <2>5 DEF SerTypes
<1>16. CompTypes'
  BY <1>1, <1>2 DEF CompTypes
<1>17. CallerAt'
  BY <1>1, <1>2, <1>3 DEF CallerAt
<1>18. OneCompaction'
  BY <1>1, <1>2 DEF OneCompaction
<1>19. EntriesHaveFiles'
  BY <1>1, <1>2, <1>5 DEF EntriesHaveFiles
<1>20. StateFile'
  BY <1>1, <1>2, <1>3 DEF StateFile
<1>21. WorkersFiles'
  BY <1>1, <1>2, <1>5 DEF WorkersFiles, Apart
<1>22. LogsQueued'
  <2>1. /\ squeue' = Append(squeue, LastTable.name) /\ Len(squeue) < QMax
    BY DEF PushSerialization
  <2>2. LastIsLog /\ ~LastIsLog'
    BY <1>3 DEF LastIsLog
  <2>3. /\ NDisk \in Nat /\ NDisk < Len(tables) /\ Pend \in {0, 1}
        /\ Len(squeue) \in Nat /\ Len(tables) \in Nat /\ QMax \in Nat
    BY <2>2, DiskTables, TablesInUse, <1>1, LocalTableAssumption DEF Pend, SerTypes
  <2>4. LastTable.name \in Nat
    BY <2>3, TablesInUse DEF LastTable
  <2>5. squeue \in Seq(Nat)
    BY <1>1 DEF SerTypes
  <2>6. /\ Len(squeue') = Len(squeue) + 1
        /\ \A k \in 1..Len(squeue) : squeue'[k] = squeue[k]
        /\ squeue'[Len(squeue) + 1] = LastTable.name
        /\ DOMAIN squeue' = 1..(Len(squeue) + 1)
    BY <2>1, <2>4, <2>5
  <2>7. Pend' = Pend
    BY <1>2 DEF Pend
  <2>8. NDisk = Len(tables) - Pend - Len(squeue) - 1
    BY <2>2 DEF NDisk
  <2>9. NDisk' = NDisk
    BY <1>2, <2>2, <2>3, <2>6, <2>7, <2>8 DEF NDisk
  <2>10. \A k \in 1..(Len(squeue) + 1) :
             tables[NDisk + Pend + k].name = squeue'[k]
    <3> TAKE k \in 1..(Len(squeue) + 1)
    <3>1. CASE k \in 1..Len(squeue)
      BY <1>1, <2>5, <2>6, <3>1 DEF LogsQueued
    <3>2. CASE k = Len(squeue) + 1
      <4>1. NDisk + Pend + k = Len(tables)
        BY <2>3, <2>8, <3>2
      <4> QED
        BY <2>6, <3>2, <4>1 DEF LastTable
    <3> QED
      BY <2>3, <3>1, <3>2
  <2> QED
    BY <1>1, <1>2, <2>6, <2>7, <2>9, <2>10 DEF LogsQueued
<1>23. CompactionsAreValid'
  BY <1>1, <1>2 DEF CompactionsAreValid, JobIsValid
<1>24. TablesFollowFiles'
  BY <1>1, <1>2 DEF TablesFollowFiles
<1>25. FilesAreComplete'
  BY <1>1, <1>2, <1>5 DEF FilesAreComplete
<1> QED
  BY <1>11, <1>12, <1>13, <1>14, <1>15, <1>16, <1>17, <1>18, <1>19,
     <1>20, <1>21, <1>22, <1>23, <1>24, <1>25 DEF IInv, Types

\* ScanOpens keeps the invariant.
LEMMA ScanOpensKept == ASSUME IInv, ScanOpens PROVE IInv'
<1>1. /\ Types /\ HistTypes /\ FileTypes /\ TableTypes /\ CallerTypes
      /\ SerTypes /\ CompTypes /\ CallerAt /\ OneCompaction
      /\ EntriesHaveFiles /\ StateFile /\ WorkersFiles /\ LogsQueued
      /\ CompactionsAreValid /\ TablesFollowFiles /\ FilesAreComplete
  BY DEF IInv, Types
<1>2. /\ hist' = hist /\ applied' = applied /\ synced' = synced
      /\ files' = files /\ state' = state /\ tables' = tables
      /\ nextIndex' = nextIndex /\ initialized' = initialized /\ squeue' = squeue
      /\ ser' = ser /\ cqueue' = cqueue /\ comp' = comp
      /\ scheduled' = scheduled /\ fullRequested' = fullRequested /\ requests' = requests
      /\ stops' = stops /\ torn' = torn
  BY DEF ScanOpens, callVars, diskVars, serVars, compVars, bounds
<1>3. /\ main.pc = "awake"
      /\ main' \in MainSet /\ main'.pc = "idle" /\ main'.todo = main.todo
  <2>1. main.pc = "awake" /\ main' = At("idle")
    BY DEF ScanOpens
  <2>2. At("idle") \in MainSet /\ At("idle").pc = "idle" /\ At("idle").todo = main.todo
    BY <1>1, CallerMoves DEF MainPc
  <2> QED
    BY <2>1, <2>2
<1>4. main.pc # "down" /\ main'.pc # "down" /\ main'.todo = main.todo
  BY <1>3
<1>5. Entries' = Entries
  BY <1>2, <1>4 DEF Entries
<1>11. HistTypes'
  BY <1>1, <1>2 DEF HistTypes
<1>12. FileTypes'
  BY <1>1, <1>2 DEF FileTypes
<1>13. TableTypes'
  BY <1>1, <1>2 DEF TableTypes
<1>14. CallerTypes'
  BY <1>1, <1>2, <1>3 DEF CallerTypes
<1>15. SerTypes'
  BY <1>1, <1>2 DEF SerTypes
<1>16. CompTypes'
  BY <1>1, <1>2 DEF CompTypes
<1>17. CallerAt'
  BY <1>1, <1>2, <1>3 DEF CallerAt
<1>18. OneCompaction'
  BY <1>1, <1>2 DEF OneCompaction
<1>19. EntriesHaveFiles'
  BY <1>1, <1>2, <1>5 DEF EntriesHaveFiles
<1>20. StateFile'
  BY <1>1, <1>2, <1>3 DEF StateFile
<1>21. WorkersFiles'
  BY <1>1, <1>2, <1>5 DEF WorkersFiles, Apart
<1>22. LogsQueued'
  BY <1>1, <1>2, <1>3 DEF LogsQueued, NDisk, Pend, LastIsLog
<1>23. CompactionsAreValid'
  BY <1>1, <1>2 DEF CompactionsAreValid, JobIsValid
<1>24. TablesFollowFiles'
  BY <1>1, <1>2 DEF TablesFollowFiles
<1>25. FilesAreComplete'
  BY <1>1, <1>2, <1>5 DEF FilesAreComplete
<1> QED
  BY <1>11, <1>12, <1>13, <1>14, <1>15, <1>16, <1>17, <1>18, <1>19,
     <1>20, <1>21, <1>22, <1>23, <1>24, <1>25 DEF IInv, Types

\* Shutdown keeps the invariant.
LEMMA ShutdownKept == ASSUME IInv, Shutdown PROVE IInv'
<1>1. /\ Types /\ HistTypes /\ FileTypes /\ TableTypes /\ CallerTypes
      /\ SerTypes /\ CompTypes /\ CallerAt /\ OneCompaction
      /\ EntriesHaveFiles /\ StateFile /\ WorkersFiles /\ LogsQueued
      /\ CompactionsAreValid /\ TablesFollowFiles /\ FilesAreComplete
  BY DEF IInv, Types
<1>2. /\ hist' = hist /\ applied' = applied /\ synced' = synced
      /\ files' = files /\ state' = state /\ tables' = tables
      /\ nextIndex' = nextIndex /\ initialized' = initialized /\ squeue' = squeue
      /\ ser' = ser /\ cqueue' = cqueue /\ comp' = comp
      /\ scheduled' = scheduled /\ fullRequested' = fullRequested /\ requests' = requests
      /\ torn' = torn
  BY DEF Shutdown, callVars, diskVars, serVars, compVars, bounds
<1>3. /\ main.pc = "idle"
      /\ main' \in MainSet /\ main'.pc = "join" /\ main'.todo = main.todo
  <2>1. main.pc = "idle" /\ main' = At("join")
    BY DEF Shutdown
  <2>2. At("join") \in MainSet /\ At("join").pc = "join" /\ At("join").todo = main.todo
    BY <1>1, CallerMoves DEF MainPc
  <2> QED
    BY <2>1, <2>2
<1>4. main.pc # "down" /\ main'.pc # "down" /\ main'.todo = main.todo
  BY <1>3
<1>5. Entries' = Entries
  BY <1>2, <1>4 DEF Entries
<1>11. HistTypes'
  BY <1>1, <1>2 DEF HistTypes
<1>12. FileTypes'
  BY <1>1, <1>2 DEF FileTypes
<1>13. TableTypes'
  BY <1>1, <1>2 DEF TableTypes
<1>14. CallerTypes'
  <2>1. stops < MaxStops /\ stops' = stops + 1
    BY DEF Shutdown
  <2> QED
    BY <1>1, <1>2, <1>3, <2>1, LocalTableAssumption DEF CallerTypes
<1>15. SerTypes'
  BY <1>1, <1>2 DEF SerTypes
<1>16. CompTypes'
  BY <1>1, <1>2 DEF CompTypes
<1>17. CallerAt'
  BY <1>1, <1>2, <1>3 DEF CallerAt
<1>18. OneCompaction'
  BY <1>1, <1>2 DEF OneCompaction
<1>19. EntriesHaveFiles'
  BY <1>1, <1>2, <1>5 DEF EntriesHaveFiles
<1>20. StateFile'
  BY <1>1, <1>2, <1>3 DEF StateFile
<1>21. WorkersFiles'
  BY <1>1, <1>2, <1>5 DEF WorkersFiles, Apart
<1>22. LogsQueued'
  BY <1>1, <1>2, <1>3 DEF LogsQueued, NDisk, Pend, LastIsLog
<1>23. CompactionsAreValid'
  BY <1>1, <1>2 DEF CompactionsAreValid, JobIsValid
<1>24. TablesFollowFiles'
  BY <1>1, <1>2 DEF TablesFollowFiles
<1>25. FilesAreComplete'
  BY <1>1, <1>2, <1>5 DEF FilesAreComplete
<1> QED
  BY <1>11, <1>12, <1>13, <1>14, <1>15, <1>16, <1>17, <1>18, <1>19,
     <1>20, <1>21, <1>22, <1>23, <1>24, <1>25 DEF IInv, Types

\* ScanBlocks keeps the invariant.
LEMMA ScanBlocksKept == ASSUME IInv, ScanBlocks PROVE IInv'
<1>1. /\ Types /\ HistTypes /\ FileTypes /\ TableTypes /\ CallerTypes
      /\ SerTypes /\ CompTypes /\ CallerAt /\ OneCompaction
      /\ EntriesHaveFiles /\ StateFile /\ WorkersFiles /\ LogsQueued
      /\ CompactionsAreValid /\ TablesFollowFiles /\ FilesAreComplete
  BY DEF IInv, Types
<1>2. /\ hist' = hist /\ applied' = applied /\ synced' = synced
      /\ files' = files /\ state' = state /\ tables' = tables
      /\ nextIndex' = nextIndex /\ initialized' = initialized /\ squeue' = squeue
      /\ ser' = ser /\ comp' = comp /\ fullRequested' = fullRequested
      /\ requests' = requests /\ stops' = stops /\ torn' = torn
  BY DEF ScanBlocks, callVars, diskVars, serVars, compVars, bounds
<1>3. /\ main.pc \in {"idle", "awake"}
      /\ main' \in MainSet /\ main'.pc = "blocked" /\ main'.todo = main.todo
  <2>1. main.pc \in {"idle", "awake"} /\ main' = At("blocked")
    BY DEF ScanBlocks
  <2>2. At("blocked") \in MainSet /\ At("blocked").pc = "blocked" /\ At("blocked").todo = main.todo
    BY <1>1, CallerMoves DEF MainPc
  <2> QED
    BY <2>1, <2>2
<1>4. main.pc # "down" /\ main'.pc # "down" /\ main'.todo = main.todo
  BY <1>3
<1>5. Entries' = Entries
  BY <1>2, <1>4 DEF Entries
<1>6. /\ tables \in Seq(TableSet) /\ NDisk \in Nat /\ NDisk < Len(tables)
      /\ \A p \in DOMAIN tables : tables[p].disk <=> p <= NDisk
  <2>1. LastIsLog
    BY <1>3 DEF LastIsLog
  <2> QED
    BY <1>1, <2>1, DiskTables DEF TableTypes, LogsQueued
<1>7. /\ scheduled' = TRUE /\ cqueue' \in Seq(JobSet) /\ Len(cqueue') <= 1
      /\ \A p \in DOMAIN cqueue' : ValidIn(tables, cqueue'[p])
      /\ comp # Idle => cqueue' = <<>>
  <2>1. Len(tables) > CompactAt
    <3>1. Len(tables) > MaxWayMerge /\ Len(tables) \in Nat
      BY TablesInUse DEF ScanBlocks
    <3> QED
      BY <3>1, LocalTableAssumption
  <2>2. CASE scheduled
    <3>1. cqueue' = cqueue /\ scheduled' = scheduled
      BY <2>2 DEF ScanBlocks
    <3> QED
      BY <1>1, <2>2, <3>1, ValidHere
         DEF CompTypes, OneCompaction, CompactionsAreValid
  <2>3. CASE ~scheduled
    <3>1. ScheduleCompaction(tables) /\ cqueue = <<>> /\ comp = Idle
      BY <1>1, <2>3 DEF ScanBlocks, OneCompaction
    <3> QED
      BY <1>6, <2>1, <3>1, JobScheduled
  <2> QED
    BY <2>2, <2>3
<1>11. HistTypes'
  BY <1>1, <1>2 DEF HistTypes
<1>12. FileTypes'
  BY <1>1, <1>2 DEF FileTypes
<1>13. TableTypes'
  BY <1>1, <1>2 DEF TableTypes
<1>14. CallerTypes'
  BY <1>1, <1>2, <1>3 DEF CallerTypes
<1>15. SerTypes'
  BY <1>1, <1>2 DEF SerTypes
<1>16. CompTypes'
  BY <1>1, <1>2, <1>7 DEF CompTypes
<1>17. CallerAt'
  BY <1>1, <1>2, <1>3 DEF CallerAt
<1>18. OneCompaction'
  <2>1. initialized
    BY <1>1, <1>3 DEF CallerAt
  <2> QED
    BY <1>1, <1>2, <1>7, <2>1 DEF OneCompaction
<1>19. EntriesHaveFiles'
  BY <1>1, <1>2, <1>5 DEF EntriesHaveFiles
<1>20. StateFile'
  BY <1>1, <1>2, <1>3 DEF StateFile
<1>21. WorkersFiles'
  BY <1>1, <1>2, <1>5 DEF WorkersFiles, Apart
<1>22. LogsQueued'
  BY <1>1, <1>2, <1>3 DEF LogsQueued, NDisk, Pend, LastIsLog
<1>23. CompactionsAreValid'
  <2>1. ASSUME NEW job PROVE JobIsValid(job)' <=> ValidIn(tables, job)
    BY <1>2 DEF JobIsValid, ValidIn
  <2>2. comp.pc = "replace" => ValidIn(tables, comp.job)
    BY <1>1, ValidHere DEF CompactionsAreValid
  <2> QED
    BY <1>2, <1>7, <2>1, <2>2 DEF CompactionsAreValid
<1>24. TablesFollowFiles'
  BY <1>1, <1>2 DEF TablesFollowFiles
<1>25. FilesAreComplete'
  BY <1>1, <1>2, <1>5 DEF FilesAreComplete
<1> QED
  BY <1>11, <1>12, <1>13, <1>14, <1>15, <1>16, <1>17, <1>18, <1>19,
     <1>20, <1>21, <1>22, <1>23, <1>24, <1>25 DEF IInv, Types

\* CompactTable keeps the invariant.
LEMMA CompactTableKept == ASSUME IInv, CompactTable PROVE IInv'
<1>1. /\ Types /\ HistTypes /\ FileTypes /\ TableTypes /\ CallerTypes
      /\ SerTypes /\ CompTypes /\ CallerAt /\ OneCompaction
      /\ EntriesHaveFiles /\ StateFile /\ WorkersFiles /\ LogsQueued
      /\ CompactionsAreValid /\ TablesFollowFiles /\ FilesAreComplete
  BY DEF IInv, Types
<1>2. /\ hist' = hist /\ applied' = applied /\ synced' = synced
      /\ files' = files /\ state' = state /\ tables' = tables
      /\ nextIndex' = nextIndex /\ initialized' = initialized /\ main' = main
      /\ squeue' = squeue /\ ser' = ser /\ comp' = comp
      /\ stops' = stops /\ torn' = torn
  BY DEF CompactTable, callVars, diskVars, serVars, compVars, bounds
<1>3. main.pc = "idle"
  BY DEF CompactTable
<1>4. main.pc # "down" /\ main'.pc # "down" /\ main'.todo = main.todo
  BY <1>2, <1>3
<1>5. Entries' = Entries
  BY <1>2, <1>4 DEF Entries
<1>6. /\ tables \in Seq(TableSet) /\ NDisk \in Nat /\ NDisk < Len(tables)
      /\ \A p \in DOMAIN tables : tables[p].disk <=> p <= NDisk
  <2>1. LastIsLog
    BY <1>3 DEF LastIsLog
  <2> QED
    BY <1>1, <2>1, DiskTables DEF TableTypes, LogsQueued
<1>7. /\ scheduled' \in BOOLEAN /\ fullRequested' \in BOOLEAN
      /\ cqueue' \in Seq(JobSet) /\ Len(cqueue') <= 1
      /\ \A p \in DOMAIN cqueue' : ValidIn(tables, cqueue'[p])
      /\ comp # Idle => cqueue' = <<>> /\ scheduled'
      /\ ~scheduled' => cqueue' = <<>>
  <2>1. CASE scheduled
    <3>1. cqueue' = cqueue /\ scheduled' = scheduled /\ fullRequested' = TRUE
      BY <2>1 DEF CompactTable
    <3> QED
      BY <1>1, <2>1, <3>1, ValidHere
         DEF CompTypes, OneCompaction, CompactionsAreValid
  <2>2. CASE ~scheduled
    <3>1. /\ ScheduleFullCompaction(tables, fullRequested)
          /\ cqueue = <<>> /\ comp = Idle /\ fullRequested \in BOOLEAN
      BY <1>1, <2>2 DEF CompactTable, OneCompaction, CompTypes
    <3> QED
      BY <1>6, <3>1, FullScheduled
  <2> QED
    BY <2>1, <2>2
<1>11. HistTypes'
  BY <1>1, <1>2 DEF HistTypes
<1>12. FileTypes'
  BY <1>1, <1>2 DEF FileTypes
<1>13. TableTypes'
  BY <1>1, <1>2 DEF TableTypes
<1>14. CallerTypes'
  <2>1. requests < MaxRequests /\ requests' = requests + 1
    BY DEF CompactTable
  <2> QED
    BY <1>1, <1>2, <2>1, LocalTableAssumption DEF CallerTypes
<1>15. SerTypes'
  BY <1>1, <1>2 DEF SerTypes
<1>16. CompTypes'
  BY <1>1, <1>2, <1>7 DEF CompTypes
<1>17. CallerAt'
  BY <1>1, <1>2 DEF CallerAt
<1>18. OneCompaction'
  <2>1. initialized
    BY <1>1, <1>3 DEF CallerAt
  <2> QED
    BY <1>1, <1>2, <1>7, <2>1 DEF OneCompaction
<1>19. EntriesHaveFiles'
  BY <1>1, <1>2, <1>5 DEF EntriesHaveFiles
<1>20. StateFile'
  BY <1>1, <1>2 DEF StateFile
<1>21. WorkersFiles'
  BY <1>1, <1>2, <1>5 DEF WorkersFiles, Apart
<1>22. LogsQueued'
  BY <1>1, <1>2 DEF LogsQueued, NDisk, Pend, LastIsLog
<1>23. CompactionsAreValid'
  <2>1. ASSUME NEW job PROVE JobIsValid(job)' <=> ValidIn(tables, job)
    BY <1>2 DEF JobIsValid, ValidIn
  <2>2. comp.pc = "replace" => ValidIn(tables, comp.job)
    BY <1>1, ValidHere DEF CompactionsAreValid
  <2> QED
    BY <1>2, <1>7, <2>1, <2>2 DEF CompactionsAreValid
<1>24. TablesFollowFiles'
  BY <1>1, <1>2 DEF TablesFollowFiles
<1>25. FilesAreComplete'
  BY <1>1, <1>2, <1>5 DEF FilesAreComplete
<1> QED
  BY <1>11, <1>12, <1>13, <1>14, <1>15, <1>16, <1>17, <1>18, <1>19,
     <1>20, <1>21, <1>22, <1>23, <1>24, <1>25 DEF IInv, Types

\* SerializePop keeps the invariant.
LEMMA SerializePopKept == ASSUME IInv, SerializePop PROVE IInv'
<1>1. /\ Types /\ HistTypes /\ FileTypes /\ TableTypes /\ CallerTypes
      /\ SerTypes /\ CompTypes /\ CallerAt /\ OneCompaction
      /\ EntriesHaveFiles /\ StateFile /\ WorkersFiles /\ LogsQueued
      /\ CompactionsAreValid /\ TablesFollowFiles /\ FilesAreComplete
  BY DEF IInv, Types
<1>2. /\ hist' = hist /\ applied' = applied /\ synced' = synced
      /\ files' = files /\ state' = state /\ tables' = tables
      /\ nextIndex' = nextIndex /\ initialized' = initialized /\ main' = main
      /\ cqueue' = cqueue /\ comp' = comp /\ scheduled' = scheduled
      /\ fullRequested' = fullRequested /\ requests' = requests /\ stops' = stops
      /\ torn' = torn
  BY DEF SerializePop, callVars, diskVars, serVars, compVars, bounds
<1>3. /\ ser = Idle /\ squeue # <<>> /\ squeue' = Tail(squeue)
      /\ ser' \in SerSet /\ ser'.pc = "index" /\ ser'.name = Head(squeue)
      /\ ser.pc = "idle"
  <2>1. /\ ser.pc = "idle" /\ squeue # <<>> /\ squeue' = Tail(squeue)
        /\ ser' = [pc |-> "index", name |-> Head(squeue), out |-> 0]
    BY DEF SerializePop
  <2>2. Head(squeue) \in Nat
    BY <1>1, <2>1 DEF SerTypes
  <2>3. ser = Idle
    BY <1>1, <2>1, WorkerStates DEF SerTypes
  <2> QED
    BY <2>1, <2>2, <2>3 DEF SerSet
<1>5. Entries' = Entries
  BY <1>2 DEF Entries
<1>11. HistTypes'
  BY <1>1, <1>2 DEF HistTypes
<1>12. FileTypes'
  BY <1>1, <1>2 DEF FileTypes
<1>13. TableTypes'
  BY <1>1, <1>2 DEF TableTypes
<1>14. CallerTypes'
  BY <1>1, <1>2 DEF CallerTypes
<1>15. SerTypes'
  <2>1. squeue' \in Seq(Nat) /\ Len(squeue') = Len(squeue) - 1 /\ Len(squeue) \in Nat
    BY <1>1, <1>3 DEF SerTypes
  <2> QED
    BY <1>1, <1>3, <2>1, LocalTableAssumption DEF SerTypes
<1>16. CompTypes'
  BY <1>1, <1>2 DEF CompTypes
<1>17. CallerAt'
  <2>1. main.pc # "down"
    BY <1>1, <1>3 DEF CallerAt
  <2> QED
    BY <1>1, <1>2, <2>1 DEF CallerAt
<1>18. OneCompaction'
  BY <1>1, <1>2 DEF OneCompaction
<1>19. EntriesHaveFiles'
  BY <1>1, <1>2, <1>5 DEF EntriesHaveFiles
<1>20. StateFile'
  BY <1>1, <1>2 DEF StateFile
<1>21. WorkersFiles'
  <2>1. ser.pc \notin {"swap", "remove"} /\ ser'.pc \notin {"swap", "remove"}
    BY <1>3
  <2> QED
    BY <1>1, <1>2, <1>5, <2>1 DEF WorkersFiles, Apart
<1>22. LogsQueued'
  <2>1. /\ squeue \in Seq(Nat) /\ Len(squeue) \in Nat /\ Len(squeue) > 0
        /\ Len(squeue') = Len(squeue) - 1 /\ DOMAIN squeue' = 1..(Len(squeue) - 1)
        /\ \A k \in 1..(Len(squeue) - 1) : squeue'[k] = squeue[k + 1]
        /\ Head(squeue) = squeue[1] /\ DOMAIN squeue = 1..Len(squeue)
    BY <1>1, <1>3 DEF SerTypes
  <2>2. Pend = 0 /\ Pend' = 1
    BY <1>3 DEF Pend
  <2>3. LastIsLog' = LastIsLog
    BY <1>2 DEF LastIsLog
  <2>4. NDisk' = NDisk /\ NDisk \in Nat
    BY <1>1, <1>2, <2>1, <2>2, <2>3, TablesInUse DEF NDisk, LogsQueued
  <2>5. tables[NDisk + 1].name = squeue[1]
    BY <1>1, <2>1, <2>2, <2>4, SMTT(30) DEF LogsQueued
  <2>6. \A k \in 1..(Len(squeue) - 1) :
            tables[NDisk + 1 + k].name = squeue'[k]
    <3> TAKE k \in 1..(Len(squeue) - 1)
    <3>1. k + 1 \in 1..Len(squeue) /\ NDisk + 0 + (k + 1) = NDisk + 1 + k
      BY <2>1, <2>4
    <3>2. tables[NDisk + 0 + (k + 1)].name = squeue[k + 1]
      BY <1>1, <2>1, <2>2, <3>1 DEF LogsQueued
    <3> QED
      BY <2>1, <3>1, <3>2
  <2> QED
    BY <1>1, <1>2, <1>3, <2>1, <2>2, <2>4, <2>5, <2>6 DEF LogsQueued
<1>23. CompactionsAreValid'
  BY <1>1, <1>2 DEF CompactionsAreValid, JobIsValid
<1>24. TablesFollowFiles'
  BY <1>1, <1>2 DEF TablesFollowFiles
<1>25. FilesAreComplete'
  BY <1>1, <1>2, <1>5 DEF FilesAreComplete
<1> QED
  BY <1>11, <1>12, <1>13, <1>14, <1>15, <1>16, <1>17, <1>18, <1>19,
     <1>20, <1>21, <1>22, <1>23, <1>24, <1>25 DEF IInv, Types

-----------------------------------------------------------------------------
(* Each action keeps the invariant: loading, and files that come and go.   *)

\* Part of a list, with the files it has.
LEMMA FewerEntries ==
    ASSUME NEW E, NEW G, NEW F, NEW next, NEW s,
           DOMAIN G \subseteq DOMAIN E, \A p \in DOMAIN G : G[p] = E[p],
           HaveFiles(E, F, next)
    PROVE  HaveFiles(G, F, next) /\ Used(G, s) \subseteq Used(E, s)
BY DEF HaveFiles, Used

\* What writeConfig() writes lists the tables.
LEMMA ConfigWritten ==
    ASSUME NEW T \in Seq(TableSet), NEW d \in Nat, d <= Len(T),
           \A p \in DOMAIN T : T[p].disk <=> p <= d,
           NEW next \in Nat, WriteConfig(T, next)
    PROVE  /\ state' \in StateSet /\ state'.next = next
           /\ state'.names = [p \in DOMAIN T |-> T[p].name]
           /\ InState(state') = Listed(T, <<>>)
<1> DEFINE N == [p \in DOMAIN T |-> T[p].name]
<1>1. NumDiskTables(T) = d
  BY CountDisk
<1>2. state' = [names |-> N, nDisk |-> d, next |-> next]
  BY <1>1 DEF WriteConfig
<1>3. Len(T) \in Nat /\ DOMAIN T = 1..Len(T)
  OBVIOUS
<1>4. \A p \in 1..Len(T) : T[p].name \in Nat /\ T[p].disk \in BOOLEAN
  <2> TAKE p \in 1..Len(T)
  <2>1. T[p] \in TableSet
    OBVIOUS
  <2> QED
    BY <2>1 DEF TableSet
<1>5. N \in Seq(Nat) /\ Len(N) = Len(T) /\ \A p \in 1..Len(T) : N[p] = T[p].name
  <2> DEFINE nm(p) == T[p].name
  <2>1. N = [p \in 1..Len(T) |-> nm(p)] /\ \A p \in 1..Len(T) : nm(p) \in Nat
    BY <1>3, <1>4
  <2>2. \A p \in 1..Len(T) : nm(p) = T[p].name
    OBVIOUS
  <2> HIDE DEF N, nm
  <2>3. N \in Seq(Nat) /\ Len(N) = Len(T) /\ \A p \in 1..Len(T) : N[p] = nm(p)
    BY <1>3, <2>1
  <2> QED
    BY <2>2, <2>3
<1> HIDE DEF N
<1>6. /\ state' \in StateSet /\ state'.next = next /\ state'.names = N
      /\ state'.nDisk = d
  BY <1>2, <1>5 DEF StateSet
<1>7. InState(state') = Listed(T, <<>>)
  <2>1. InState(state') = [p \in 1..Len(T) |-> [name |-> N[p], disk |-> p <= d]]
    BY <1>5, <1>6 DEF InState
  <2>2. Listed(T, <<>>) = [p \in 1..Len(T) |->
                              [name |-> T[p].name, disk |-> T[p].disk]]
    <3>1. Len(T) + Len(<<>>) = Len(T)
      BY <1>3
    <3>2. \A p \in 1..Len(T) : p <= Len(T)
      OBVIOUS
    <3> QED
      BY <3>1, <3>2 DEF Listed
  <2>3. ASSUME NEW p \in 1..Len(T)
        PROVE  [name |-> N[p], disk |-> p <= d] = [name |-> T[p].name, disk |-> T[p].disk]
    <3>1. N[p] = T[p].name
      BY <1>5
    <3>2. (p <= d) = T[p].disk
      BY <1>3, <1>4
    <3> QED
      BY <3>1, <3>2
  <2> QED
    BY <2>1, <2>2, <2>3
<1> QED
  BY <1>6, <1>7 DEF N

\* Files that are not in use come or go.
LEMMA FilesElsewhere ==
    ASSUME IInv, hist' = hist, applied' = applied, synced' = synced,
           state' = state, tables' = tables, torn' = torn, Entries' = Entries,
           \A i \in Used(Entries, state) :
               i \in DOMAIN files' /\ files'[i] = files[i]
    PROVE  /\ EntriesHaveFiles' /\ TablesFollowFiles' /\ FilesAreComplete'
           /\ HaveFiles(InState(state'), files', state'.next)
<1>1. /\ TableTypes /\ EntriesHaveFiles /\ StateFile /\ TablesFollowFiles
      /\ FilesAreComplete /\ state.next \in Nat /\ state \in StateSet
  BY TablesInUse DEF IInv, Types, TableTypes
<1>2. \A p \in DOMAIN Entries : /\ Entries[p].name \in DOMAIN files'
                                 /\ files'[Entries[p].name] = files[Entries[p].name]
  BY DEF Used
<1>3. \A p \in DOMAIN InState(state) :
          /\ InState(state)[p].name \in DOMAIN files'
          /\ files'[InState(state)[p].name] = files[InState(state)[p].name]
  <2>1. ASSUME NEW p \in DOMAIN InState(state)
        PROVE  InState(state)[p].name \in Range(state.names)
    <3>1. p \in 1..Len(state.names) /\ InState(state)[p].name = state.names[p]
      BY <1>1, InStateShape
    <3>2. state.names[p] \in Range(state.names)
      BY <1>1, <3>1, InStateShape
    <3> QED
      BY <3>1, <3>2
  <2> QED
    BY <2>1 DEF Used
<1>4. EntriesHaveFiles'
  BY <1>1, <1>2, EntriesInUse, FilesChange DEF EntriesHaveFiles
<1>5. HaveFiles(InState(state'), files', state'.next)
  <2>1. HaveFiles(InState(state), files, state.next)
    BY <1>1 DEF StateFile
  <2>2. HaveFiles(InState(state), files', state.next)
    BY <1>1, <1>3, <2>1, EntriesInUse, FilesChange
  <2> QED
    BY <2>2
<1>6. TablesFollowFiles'
  <2>1. \A p \in DOMAIN tables : files'[tables[p].name] = files[tables[p].name]
    BY TablesInUse
  <2> QED
    BY <1>1, <2>1 DEF TablesFollowFiles, Follow
<1>7. FilesAreComplete'
  BY <1>1, <1>2, WholeSame DEF FilesAreComplete
<1> QED
  BY <1>4, <1>5, <1>6, <1>7

\* A worker takes an index and the state is written.
LEMMA IndexTaken ==
    ASSUME IInv, main.pc \notin {"down", "push", "create", "publish"},
           main' = main, tables' = tables, files' = files, hist' = hist,
           synced' = synced, squeue' = squeue, initialized' = initialized,
           nextIndex' = nextIndex + 1, WriteConfig(tables, nextIndex + 1)
    PROVE  /\ TableTypes' /\ CallerAt' /\ EntriesHaveFiles' /\ StateFile'
           /\ Entries' = Entries /\ nextIndex = state.next
           /\ state'.next = state.next + 1
           /\ Used(Entries', state') \subseteq Used(Entries, state)
<1>1. /\ TableTypes /\ CallerTypes /\ CallerAt /\ EntriesHaveFiles /\ StateFile
      /\ FileTypes /\ LogsQueued
  BY DEF IInv, Types
<1>2. nextIndex = state.next /\ state.next \in Nat
  BY <1>1, TablesInUse DEF CallerAt
<1>3. tables \in Seq(TableSet) /\ main.todo \in Seq(EntrySet)
  BY <1>1 DEF TableTypes, CallerTypes, MainSet
<1>4. /\ state' \in StateSet /\ state'.next = state.next + 1
      /\ state'.names = [p \in DOMAIN tables |-> tables[p].name]
      /\ InState(state') = Listed(tables, <<>>)
  <2>1. /\ NDisk \in Nat /\ NDisk <= Len(tables) /\ nextIndex + 1 \in Nat
        /\ \A p \in DOMAIN tables : tables[p].disk <=> p <= NDisk
    BY <1>1, <1>2, DiskTables DEF LogsQueued
  <2> HIDE DEF NDisk
  <2> QED
    BY <1>2, <1>3, <2>1, ConfigWritten
<1>5. Entries' = Entries /\ Entries = Listed(tables, main.todo)
  BY DEF Entries
<1>6. /\ HaveFiles(Entries, files, state.next)
      /\ \A p \in DOMAIN Entries : Entries[p].name \in Nat
  BY <1>1, EntriesInUse DEF EntriesHaveFiles
<1> DEFINE G == InState(state')
<1>7. DOMAIN G \subseteq DOMAIN Entries /\ \A p \in DOMAIN G : G[p] = Entries[p]
  <2>1. Len(tables) \in Nat /\ Len(main.todo) \in Nat
    BY <1>3
  <2>2. Len(tables) + Len(<<>>) = Len(tables)
    BY <2>1
  <2>3. DOMAIN G = 1..Len(tables)
    BY <1>4, <2>2 DEF Listed
  <2>4. DOMAIN Entries = 1..(Len(tables) + Len(main.todo))
    BY <1>5 DEF Listed
  <2>5. ASSUME NEW p \in 1..Len(tables) PROVE G[p] = Entries[p]
    <3>1. p <= Len(tables) /\ p \in 1..(Len(tables) + Len(main.todo))
      BY <2>1
    <3> QED
      BY <1>4, <1>5, <2>2, <3>1 DEF Listed
  <2> QED
    BY <2>1, <2>3, <2>4, <2>5
<1> HIDE DEF G
<1>8. HaveFiles(G, files, state.next) /\ \A p \in DOMAIN G : G[p].name \in Nat
  BY <1>6, <1>7, FewerEntries
<1>9. state.next + 1 \in Nat /\ state.next <= state.next + 1
  BY <1>2
<1>10. HaveFiles(G, files, state.next + 1) /\ HaveFiles(Entries, files, state.next + 1)
  <2>1. \A p \in DOMAIN G : G[p].name \in DOMAIN files
    BY <1>8 DEF HaveFiles
  <2>2. \A p \in DOMAIN Entries : Entries[p].name \in DOMAIN files
    BY <1>6 DEF HaveFiles
  <2> QED
    BY <1>2, <1>6, <1>8, <1>9, <2>1, <2>2, FilesChange
<1>11. TableTypes'
  BY <1>1, <1>2, <1>4, <1>9 DEF TableTypes
<1>12. CallerAt'
  BY <1>1, <1>2, <1>4 DEF CallerAt
<1>13. EntriesHaveFiles'
  BY <1>4, <1>5, <1>10 DEF EntriesHaveFiles
<1>14. StateFile'
  <2>1. \A i \in DOMAIN files : i \in Nat /\ i <= state.next
    BY <1>1 DEF FileTypes, StateFile
  <2>2. \A i \in DOMAIN files : i <= state.next + 1 /\ i # state.next + 1
    BY <1>2, <2>1
  <2> QED
    BY <1>4, <1>10, <2>2 DEF StateFile, G
<1>15. Used(Entries', state') \subseteq Used(Entries, state)
  <2>1. ASSUME NEW i \in Range(state'.names)
        PROVE  \E p \in DOMAIN G : i = G[p].name
    <3>0. state'.names \in Seq(Nat)
      BY <1>4 DEF StateSet
    <3>1. PICK p \in 1..Len(state'.names) : i = state'.names[p]
      <4>1. \A n \in Seq(Nat) : \A j \in Range(n) : \E k \in 1..Len(n) : j = n[k]
        BY DEF Range
      <4> QED
        BY <2>1, <3>0, <4>1
    <3>2. p \in DOMAIN G /\ G[p].name = state'.names[p]
      BY <1>4, InStateShape DEF G
    <3> QED
      BY <3>1, <3>2
  <2> QED
    BY <1>5, <1>7, <2>1 DEF Used
<1> QED
  BY <1>2, <1>4, <1>5, <1>11, <1>12, <1>13, <1>14, <1>15

\* Start keeps the invariant.
LEMMA StartKept == ASSUME IInv, Start PROVE IInv'
<1>1. /\ Types /\ HistTypes /\ FileTypes /\ TableTypes /\ CallerTypes
      /\ SerTypes /\ CompTypes /\ CallerAt /\ OneCompaction
      /\ EntriesHaveFiles /\ StateFile /\ WorkersFiles /\ LogsQueued
      /\ CompactionsAreValid /\ TablesFollowFiles /\ FilesAreComplete
  BY DEF IInv, Types
<1>2. /\ hist' = hist /\ applied' = applied /\ synced' = synced
      /\ files' = files /\ state' = state /\ tables' = tables
      /\ initialized' = initialized /\ squeue' = squeue /\ ser' = ser
      /\ cqueue' = cqueue /\ comp' = comp /\ scheduled' = scheduled
      /\ fullRequested' = fullRequested /\ requests' = requests /\ stops' = stops
      /\ torn' = torn
  BY DEF Start, callVars, diskVars, serVars, compVars, bounds
<1> DEFINE E == InState(state)
<1>3. /\ main.pc = "down" /\ nextIndex' = state.next /\ tables = <<>>
      /\ state \in StateSet
  BY <1>1 DEF Start, CallerAt, TableTypes
<1>4. main' \in MainSet /\ main'.pc = "load" /\ main'.todo = E /\ E \in Seq(EntrySet)
      /\ Len(E) \in Nat /\ DOMAIN E = 1..Len(E)
  <2>1. /\ state.names \in Seq(Nat) /\ state.nDisk \in Nat
        /\ DOMAIN state.names = 1..Len(state.names)
    BY <1>3 DEF StateSet
  <2>2. main' = [pc |-> "load", todo |-> E]
    BY <2>1 DEF Start, InState
  <2>3. ASSUME NEW p \in 1..Len(state.names)
        PROVE  [name |-> state.names[p], disk |-> p <= state.nDisk] \in EntrySet
    BY <2>1 DEF EntrySet
  <2>4. E \in Seq(EntrySet)
    <3> DEFINE e(p) == [name |-> state.names[p], disk |-> p <= state.nDisk]
    <3>1. E = [p \in 1..Len(state.names) |-> e(p)] /\ Len(state.names) \in Nat
          /\ \A p \in 1..Len(state.names) : e(p) \in EntrySet
      BY <2>1, <2>3 DEF InState
    <3> HIDE DEF E, e
    <3> QED
      BY <3>1
  <2> HIDE DEF E
  <2>5. Len(E) \in Nat /\ DOMAIN E = 1..Len(E)
    BY <2>4
  <2> QED
    BY <2>2, <2>4, <2>5 DEF MainSet, MainPc
<1>5. Entries' = Entries
  <2>1. Entries = E
    BY <1>3 DEF Entries
  <2>2. Entries' = Listed(<<>>, E)
    BY <1>2, <1>3, <1>4 DEF Entries
  <2> HIDE DEF E
  <2>3. Len(<<>>) + Len(E) = Len(E) /\ Len(<<>>) = 0
    BY <1>4
  <2>4. ASSUME NEW p \in 1..Len(E) PROVE ~(p <= 0) /\ p - 0 = p
    OBVIOUS
  <2>5. Listed(<<>>, E) = [p \in 1..Len(E) |-> E[p]]
    BY <2>3, <2>4 DEF Listed
  <2>6. E = [p \in 1..Len(E) |-> E[p]]
    BY <1>4
  <2> QED
    BY <2>1, <2>2, <2>5, <2>6
<1> HIDE DEF E
<1>11. HistTypes'
  BY <1>1, <1>2 DEF HistTypes
<1>12. FileTypes'
  BY <1>1, <1>2 DEF FileTypes
<1>13. TableTypes'
  BY <1>1, <1>2, <1>3 DEF TableTypes, StateSet
<1>14. CallerTypes'
  BY <1>1, <1>2, <1>4 DEF CallerTypes
<1>15. SerTypes'
  BY <1>1, <1>2 DEF SerTypes
<1>16. CompTypes'
  BY <1>1, <1>2 DEF CompTypes
<1>17. CallerAt'
  <2>1. state.next \in Nat
    BY <1>3 DEF StateSet
  <2>2. nextIndex' = state'.next + 0
    BY <1>2, <1>3, <2>1
  <2>3. ~initialized' /\ synced' = Len(hist')
    BY <1>1, <1>2, <1>3 DEF CallerAt
  <2> QED
    BY <1>4, <2>2, <2>3 DEF CallerAt
<1>18. OneCompaction'
  BY <1>1, <1>2 DEF OneCompaction
<1>19. EntriesHaveFiles'
  BY <1>1, <1>2, <1>5 DEF EntriesHaveFiles
<1>20. StateFile'
  BY <1>1, <1>2, <1>4 DEF StateFile
<1>21. WorkersFiles'
  BY <1>1, <1>2, <1>5 DEF WorkersFiles, Apart
<1>22. LogsQueued'
  <2>1. ~LastIsLog /\ ~LastIsLog'
    BY <1>3, <1>4 DEF LastIsLog
  <2> QED
    BY <1>1, <1>2, <2>1 DEF LogsQueued, NDisk, Pend
<1>23. CompactionsAreValid'
  BY <1>1, <1>2 DEF CompactionsAreValid, JobIsValid
<1>24. TablesFollowFiles'
  BY <1>1, <1>2 DEF TablesFollowFiles
<1>25. FilesAreComplete'
  BY <1>1, <1>2, <1>5 DEF FilesAreComplete
<1> QED
  BY <1>11, <1>12, <1>13, <1>14, <1>15, <1>16, <1>17, <1>18, <1>19,
     <1>20, <1>21, <1>22, <1>23, <1>24, <1>25 DEF IInv, Types

\* LoadTable keeps the invariant.
LEMMA LoadTableKept == ASSUME IInv, LoadTable PROVE IInv'
<1>1. /\ Types /\ HistTypes /\ FileTypes /\ TableTypes /\ CallerTypes
      /\ SerTypes /\ CompTypes /\ CallerAt /\ OneCompaction
      /\ EntriesHaveFiles /\ StateFile /\ WorkersFiles /\ LogsQueued
      /\ CompactionsAreValid /\ TablesFollowFiles /\ FilesAreComplete
  BY DEF IInv, Types
<1>2. /\ hist' = hist /\ applied' = applied /\ synced' = synced
      /\ files' = files /\ state' = state /\ nextIndex' = nextIndex
      /\ initialized' = initialized /\ squeue' = squeue /\ ser' = ser
      /\ cqueue' = cqueue /\ comp' = comp /\ scheduled' = scheduled
      /\ fullRequested' = fullRequested /\ requests' = requests /\ stops' = stops
      /\ torn' = torn
  BY DEF LoadTable, callVars, diskVars, serVars, compVars, bounds
<1> DEFINE e == Head(main.todo)
           x == [name |-> e.name, disk |-> e.disk,
                 cells |-> Newest(hist, files[e.name].cells)]
<1>3. /\ main.pc = "load" /\ main.todo # <<>> /\ e \in EntrySet
      /\ e.name \in DOMAIN files /\ tables' = Append(tables, x)
      /\ main.todo \in Seq(EntrySet) /\ tables \in Seq(TableSet)
  <2>1. main.todo \in Seq(EntrySet) /\ tables \in Seq(TableSet)
    BY <1>1 DEF CallerTypes, TableTypes, MainSet
  <2> QED
    BY <2>1 DEF LoadTable
<1>4. /\ main' \in MainSet /\ main'.pc = (IF e.disk THEN "load" ELSE "loadpush")
      /\ main'.todo = Tail(main.todo) /\ main'.pc \in {"load", "loadpush"}
  <2>1. main' = [pc |-> IF e.disk THEN "load" ELSE "loadpush", todo |-> Tail(main.todo)]
    BY DEF LoadTable
  <2>2. Tail(main.todo) \in Seq(EntrySet)
    BY <1>3
  <2> HIDE DEF e
  <2> QED
    BY <2>1, <2>2 DEF MainSet, MainPc
<1>6. /\ tables' \in Seq(TableSet) /\ Len(tables') = Len(tables) + 1
      /\ Len(tables) \in Nat /\ DOMAIN tables' = 1..(Len(tables) + 1)
      /\ DOMAIN tables = 1..Len(tables)
      /\ \A p \in 1..Len(tables) : tables'[p] = tables[p]
      /\ tables'[Len(tables) + 1].name = e.name
      /\ tables'[Len(tables) + 1].disk = e.disk
      /\ tables'[Len(tables) + 1].cells = Newest(hist, files[e.name].cells)
  <2>1. x.name = e.name /\ x.disk = e.disk
        /\ x.cells = Newest(hist, files[e.name].cells)
    OBVIOUS
  <2>2. x \in TableSet
    <3>1. e.name \in Nat /\ e.disk \in BOOLEAN
      BY <1>3 DEF EntrySet
    <3>2. \A c \in Newest(hist, files[e.name].cells) : c \in 1..MaxWrites
      <4>1. \A c \in files[e.name].cells : c \in 1..synced
        BY <1>1, <1>3 DEF FileTypes
      <4>2. \A c \in 1..synced : c \in 1..MaxWrites
        BY <1>1, LocalTableAssumption DEF HistTypes
      <4> QED
        BY <4>1, <4>2, NewestSubset
    <3> QED
      BY <3>1, <3>2 DEF TableSet
  <2> HIDE DEF x, e
  <2> QED
    BY <1>3, <2>1, <2>2
<1>7. /\ Len(main.todo) \in Nat /\ Len(main.todo) > 0
      /\ Len(tables) + 1 \in 1..(Len(tables) + Len(main.todo))
      /\ (Len(tables) + 1) - Len(tables) = 1 /\ main.todo[1] = e
      /\ Len(Tail(main.todo)) = Len(main.todo) - 1 /\ Tail(main.todo) \in Seq(EntrySet)
      /\ \A k \in 1..(Len(main.todo) - 1) : Tail(main.todo)[k] = main.todo[k + 1]
      /\ Len(tables) + 1 > Len(tables)
  BY <1>3, <1>6
<1>5. Entries' = Entries
  <2>1. Entries = Listed(tables, main.todo) /\ Entries' = Listed(tables', Tail(main.todo))
    BY <1>3, <1>4 DEF Entries
  <2> DEFINE rest == Tail(main.todo)
  <2>3. rest \in Seq(EntrySet) /\ Len(rest) = Len(main.todo) - 1
        /\ \A k \in 1..(Len(main.todo) - 1) : rest[k] = main.todo[k + 1]
    BY <1>7
  <2> HIDE DEF rest, e
  <2>2. Len(tables) + Len(main.todo) = Len(tables') + Len(rest)
    <3>1. Len(rest) = Len(main.todo) - 1
      BY <2>3
    <3>2. Len(tables') = Len(tables) + 1 /\ Len(tables) \in Nat
      BY <1>6
    <3>3. Len(main.todo) \in Nat
      BY <1>7
    <3>4. \A a, b \in Nat : a + b = (a + 1) + (b - 1)
      OBVIOUS
    <3>5. Len(tables) + Len(main.todo) = (Len(tables) + 1) + (Len(main.todo) - 1)
      BY <3>2, <3>3, <3>4
    <3> QED
      BY <3>1, <3>2, <3>5
  <2>4. ASSUME NEW p \in 1..(Len(tables) + Len(main.todo))
        PROVE  Listed(tables, main.todo)[p] = Listed(tables', rest)[p]
    <3>1. p \in 1..(Len(tables') + Len(rest))
      BY <2>2
    <3>2. CASE p <= Len(tables)
      <4>1. p <= Len(tables') /\ p \in 1..Len(tables)
        BY <1>6, <3>2
      <4> QED
        BY <1>6, <3>1, <3>2, <4>1 DEF Listed
    <3>3. CASE p = Len(tables) + 1
      <4>1. p <= Len(tables') /\ ~(p <= Len(tables)) /\ p - Len(tables) = 1
        BY <1>6, <3>3
      <4>2. Listed(tables, main.todo)[p] = e
        BY <1>7, <4>1 DEF Listed
      <4>3. Listed(tables', rest)[p] = [name |-> e.name, disk |-> e.disk]
        BY <1>6, <3>1, <3>3, <4>1 DEF Listed
      <4> QED
        BY <1>3, <4>2, <4>3 DEF EntrySet
    <3>4. CASE p > Len(tables) + 1
      <4>1. /\ ~(p <= Len(tables')) /\ ~(p <= Len(tables))
            /\ p - Len(tables') \in 1..(Len(main.todo) - 1)
            /\ (p - Len(tables')) + 1 = p - Len(tables)
        BY <1>6, <1>7, <3>4
      <4>2. Listed(tables, main.todo)[p] = main.todo[p - Len(tables)]
        BY <4>1 DEF Listed
      <4>3. Listed(tables', rest)[p] = rest[p - Len(tables')]
        BY <3>1, <4>1 DEF Listed
      <4>4. rest[p - Len(tables')] = main.todo[(p - Len(tables')) + 1]
        BY <2>3, <4>1
      <4> QED
        BY <4>1, <4>2, <4>3, <4>4
    <3> QED
      BY <1>6, <3>2, <3>3, <3>4
  <2>5. Listed(tables, main.todo) = Listed(tables', rest)
    BY <1>3, <1>6, <2>2, <2>3, <2>4, ListsEqual DEF rest
  <2> QED
    BY <2>1, <2>5 DEF rest
<1> HIDE DEF e, x
<1>8. ~initialized
  BY <1>1, <1>3 DEF CallerAt
<1>9. synced = applied /\ (synced + 1)..applied = {}
  BY <1>1, <1>3 DEF CallerAt, HistTypes
<1>11. HistTypes'
  BY <1>1, <1>2 DEF HistTypes
<1>12. FileTypes'
  BY <1>1, <1>2 DEF FileTypes
<1>13. TableTypes'
  BY <1>1, <1>2, <1>6 DEF TableTypes
<1>14. CallerTypes'
  BY <1>1, <1>2, <1>4 DEF CallerTypes
<1>15. SerTypes'
  BY <1>1, <1>2 DEF SerTypes
<1>16. CompTypes'
  BY <1>1, <1>2 DEF CompTypes
<1>17. CallerAt'
  BY <1>1, <1>2, <1>3, <1>4 DEF CallerAt
<1>18. OneCompaction'
  BY <1>1, <1>2 DEF OneCompaction
<1>19. EntriesHaveFiles'
  BY <1>1, <1>2, <1>5 DEF EntriesHaveFiles
<1>20. StateFile'
  BY <1>1, <1>2, <1>4, <1>8 DEF StateFile
<1>21. WorkersFiles'
  BY <1>1, <1>2, <1>5 DEF WorkersFiles, Apart
<1>22. LogsQueued'
  <2>1. ~LastIsLog /\ (LastIsLog' <=> ~e.disk)
    BY <1>3, <1>4 DEF LastIsLog
  <2>6. Pend \in {0, 1} /\ Pend' = Pend /\ Len(squeue) \in Nat
    BY <1>1, <1>2 DEF SerTypes, Pend
  <2>7. NDisk = Len(tables) - Pend - Len(squeue)
    <3>1. NDisk = Len(tables) - Pend - Len(squeue) - 0
      BY <2>1 DEF NDisk
    <3> QED
      BY <1>6, <2>6, <3>1
  <2>8. NDisk' = (Len(tables) + 1) - Pend - Len(squeue) - (IF e.disk THEN 0 ELSE 1)
    BY <1>2, <1>6, <2>1, <2>6 DEF NDisk
  <2>2. /\ NDisk \in Nat /\ Len(squeue) \in Nat /\ Pend \in {0, 1} /\ Pend' = Pend
        /\ NDisk = Len(tables) - Pend - Len(squeue)
        /\ \A p \in 1..Len(tables) : tables[p].disk <=> p <= NDisk
    BY <1>1, <1>6, <2>6, <2>7 DEF LogsQueued
  <2>3. CASE e.disk
    <3>1. NDisk = Len(tables) /\ Pend = 0 /\ Len(squeue) = 0
      <4>1. HaveFiles(Entries, files, state.next)
        BY <1>1 DEF EntriesHaveFiles
      <4>2. /\ Len(tables) + 1 \in DOMAIN Entries /\ Entries[Len(tables) + 1].disk
            /\ \A p \in 1..Len(tables) : /\ p \in DOMAIN Entries /\ p < Len(tables) + 1
                                           /\ Entries[p].disk = tables[p].disk
        <5>1. Entries = Listed(tables, main.todo)
          BY <1>3 DEF Entries
        <5>2. Len(tables) + 1 \in DOMAIN Entries
          BY <1>3, <1>7, <5>1, ListedShape
        <5>3. Entries[Len(tables) + 1] = e
          BY <1>3, <1>7, <5>1, ListedShape
        <5>4. \A p \in 1..Len(tables) : /\ p \in DOMAIN Entries
                                        /\ Entries[p].disk = tables[p].disk
          BY <1>3, <5>1, ListedShape
        <5>5. \A p \in 1..Len(tables) : p < Len(tables) + 1
          BY <1>6
        <5> QED
          BY <2>3, <5>2, <5>3, <5>4, <5>5
      <4>3. \A p \in 1..Len(tables) : tables[p].disk
        BY <4>1, <4>2 DEF HaveFiles
      <4>4. Len(tables) # 0 => Len(tables) <= NDisk
        <5>1. Len(tables) # 0 => Len(tables) \in 1..Len(tables)
          BY <1>6
        <5> QED
          BY <2>2, <4>3, <5>1
      <4>5. Len(tables) = NDisk + Pend + Len(squeue)
        BY <1>6, <2>2
      <4>6. Len(tables) \in Nat /\ NDisk \in Nat /\ Len(squeue) \in Nat
        BY <1>6, <2>2
      <4>7. Pend >= 0 /\ Pend \in Int
        BY <2>2
      <4> HIDE DEF NDisk, Pend
      <4> QED
        BY <4>4, <4>5, <4>6, <4>7
    <3>2. NDisk' = Len(tables) + 1 /\ Pend' = 0
      BY <1>6, <2>2, <2>3, <2>8, <3>1
    <3>3. \A p \in 1..(Len(tables) + 1) : tables'[p].disk <=> p <= Len(tables) + 1
      <4> TAKE p \in 1..(Len(tables) + 1)
      <4>1. p <= Len(tables) + 1 /\ (p = Len(tables) + 1 \/ p \in 1..Len(tables))
        BY <1>6
      <4>2. p \in 1..Len(tables) => tables'[p].disk
        BY <1>6, <2>2, <3>1
      <4> QED
        BY <1>6, <2>3, <4>1, <4>2
    <3>4. DOMAIN squeue' = {}
      BY <1>1, <1>2, <3>1 DEF SerTypes
    <3> QED
      BY <1>6, <3>2, <3>3, <3>4 DEF LogsQueued
  <2>4. CASE ~e.disk
    <3>1. NDisk' = NDisk
      BY <1>6, <2>2, <2>4, <2>8
    <3>2. \A p \in 1..(Len(tables) + 1) : tables'[p].disk <=> p <= NDisk
      BY <1>6, <2>2, <2>4
    <3>3. /\ Pend = 1 => NDisk + 1 \in 1..Len(tables)
          /\ \A k \in DOMAIN squeue : NDisk + Pend + k \in 1..Len(tables)
      <4>1. DOMAIN squeue = 1..Len(squeue)
        BY <1>1 DEF SerTypes
      <4> QED
        BY <1>6, <2>2, <4>1
    <3> QED
      BY <1>1, <1>2, <1>6, <2>2, <3>1, <3>2, <3>3, SMTT(30) DEF LogsQueued
  <2>5. e.disk \in BOOLEAN
    BY <1>3 DEF EntrySet
  <2> QED
    BY <2>3, <2>4, <2>5
<1>23. CompactionsAreValid'
  <2>1. cqueue = <<>> /\ comp.pc = "idle"
    BY <1>1, <1>8, WorkerStates DEF OneCompaction
  <2> QED
    BY <1>2, <2>1 DEF CompactionsAreValid
<1>24. TablesFollowFiles'
  <2>1. \A p, n : Unsynced(tables, p, synced, applied) = {}
                   /\ Unsynced(tables', p, synced, applied) = {}
    BY <1>9 DEF Unsynced
  <2>2. \A p \in 1..Len(tables) :
            tables[p].cells = Newest(hist, files[tables[p].name].cells)
    BY <1>1, <1>6, <2>1 DEF TablesFollowFiles, Follow
  <2>3. \A p \in 1..(Len(tables) + 1) :
            tables'[p].cells = Newest(hist, files[tables'[p].name].cells)
    BY <1>6, <2>2
  <2>4. \A p \in 1..(Len(tables) + 1) :
            tables'[p].cells = Newest(hist, files[tables'[p].name].cells
                                      \cup Unsynced(tables', p, synced, applied))
    BY <2>1, <2>3
  <2> QED
    BY <1>2, <1>6, <2>4 DEF TablesFollowFiles, Follow
<1>25. FilesAreComplete'
  BY <1>1, <1>2, <1>5 DEF FilesAreComplete
<1> QED
  BY <1>11, <1>12, <1>13, <1>14, <1>15, <1>16, <1>17, <1>18, <1>19,
     <1>20, <1>21, <1>22, <1>23, <1>24, <1>25 DEF IInv, Types

\* LoadFails keeps the invariant.
LEMMA LoadFailsKept == ASSUME IInv, LoadFails PROVE IInv'
<1>1. /\ Types /\ HistTypes /\ FileTypes /\ TableTypes /\ CallerTypes
      /\ SerTypes /\ CompTypes /\ CallerAt /\ OneCompaction
      /\ EntriesHaveFiles /\ StateFile /\ WorkersFiles /\ LogsQueued
      /\ CompactionsAreValid /\ TablesFollowFiles /\ FilesAreComplete
  BY DEF IInv, Types
<1>2. /\ hist' = hist /\ applied' = applied /\ synced' = synced
      /\ files' = files /\ state' = state /\ tables' = tables
      /\ nextIndex' = nextIndex /\ initialized' = initialized /\ squeue' = squeue
      /\ ser' = ser /\ cqueue' = cqueue /\ comp' = comp
      /\ scheduled' = scheduled /\ fullRequested' = fullRequested /\ requests' = requests
  BY DEF LoadFails, callVars, diskVars, serVars, compVars, bounds
<1>3. /\ main.pc = "load" /\ stops < MaxStops /\ stops' = stops + 1 /\ torn' = TRUE
      /\ main' \in MainSet /\ main'.pc = "load" /\ main'.todo = <<>>
  <2>1. /\ main.pc = "load" /\ stops < MaxStops /\ stops' = stops + 1 /\ torn' = TRUE
        /\ main' = [main EXCEPT !.todo = <<>>]
    BY DEF LoadFails
  <2>2. <<>> \in Seq(EntrySet) /\ main \in MainSet
    BY <1>1 DEF CallerTypes
  <2> QED
    BY <2>1, <2>2 DEF MainSet
<1>4. DOMAIN Entries' \subseteq DOMAIN Entries /\ \A p \in DOMAIN Entries' : Entries'[p] = Entries[p]
  <2>1. tables \in Seq(TableSet) /\ main.todo \in Seq(EntrySet)
    BY <1>1 DEF CallerTypes, TableTypes, MainSet
  <2>2. /\ Len(tables) \in Nat /\ Len(main.todo) \in Nat
        /\ Len(tables) + Len(<<>>) = Len(tables)
    BY <2>1
  <2>3. Entries = Listed(tables, main.todo) /\ Entries' = Listed(tables, <<>>)
    BY <1>2, <1>3 DEF Entries
  <2>4. ASSUME NEW p \in 1..Len(tables)
        PROVE  p <= Len(tables) /\ p \in 1..(Len(tables) + Len(main.todo))
    BY <2>2
  <2> QED
    BY <2>2, <2>3, <2>4 DEF Listed
<1>11. HistTypes'
  BY <1>1, <1>2 DEF HistTypes
<1>12. FileTypes'
  BY <1>1, <1>2 DEF FileTypes
<1>13. TableTypes'
  BY <1>1, <1>2 DEF TableTypes
<1>14. CallerTypes'
  BY <1>1, <1>2, <1>3, LocalTableAssumption DEF CallerTypes
<1>15. SerTypes'
  BY <1>1, <1>2 DEF SerTypes
<1>16. CompTypes'
  BY <1>1, <1>2 DEF CompTypes
<1>17. CallerAt'
  BY <1>1, <1>2, <1>3 DEF CallerAt
<1>18. OneCompaction'
  BY <1>1, <1>2 DEF OneCompaction
<1>19. EntriesHaveFiles'
  BY <1>1, <1>2, <1>4, FewerEntries DEF EntriesHaveFiles
<1>20. StateFile'
  BY <1>1, <1>2, <1>3 DEF StateFile
<1>21. WorkersFiles'
  <2>1. Used(Entries', state) \subseteq Used(Entries, state)
    BY <1>1, <1>4, FewerEntries DEF EntriesHaveFiles
  <2> QED
    BY <1>1, <1>2, <2>1 DEF WorkersFiles, Apart
<1>22. LogsQueued'
  BY <1>1, <1>2, <1>3 DEF LogsQueued, NDisk, Pend, LastIsLog
<1>23. CompactionsAreValid'
  BY <1>1, <1>2 DEF CompactionsAreValid, JobIsValid
<1>24. TablesFollowFiles'
  BY <1>1, <1>2 DEF TablesFollowFiles
<1>25. FilesAreComplete'
  BY <1>3 DEF FilesAreComplete
<1> QED
  BY <1>11, <1>12, <1>13, <1>14, <1>15, <1>16, <1>17, <1>18, <1>19,
     <1>20, <1>21, <1>22, <1>23, <1>24, <1>25 DEF IInv, Types

-----------------------------------------------------------------------------
(* Each action keeps the invariant: indices, new logs and old files.       *)

\* CreateLog keeps the invariant: the index is not in use.
LEMMA CreateLogKept == ASSUME IInv, CreateLog PROVE IInv'
<1>1. /\ Types /\ HistTypes /\ FileTypes /\ TableTypes /\ CallerTypes
      /\ SerTypes /\ CompTypes /\ CallerAt /\ OneCompaction
      /\ EntriesHaveFiles /\ StateFile /\ WorkersFiles /\ LogsQueued
      /\ CompactionsAreValid /\ TablesFollowFiles /\ FilesAreComplete
  BY DEF IInv, Types
<1>2. /\ hist' = hist /\ applied' = applied /\ synced' = synced
      /\ state' = state /\ tables' = tables /\ initialized' = initialized
      /\ squeue' = squeue /\ ser' = ser /\ cqueue' = cqueue
      /\ comp' = comp /\ scheduled' = scheduled /\ fullRequested' = fullRequested
      /\ requests' = requests /\ stops' = stops /\ torn' = torn
  BY DEF CreateLog, callVars, diskVars, serVars, compVars, bounds
<1>3. /\ main.pc = "create" \/ (main.pc = "load" /\ main.todo = <<>>)
      /\ main' \in MainSet /\ main'.pc = "publish" /\ main'.todo = main.todo
  <2>1. /\ main.pc = "create" \/ (main.pc = "load" /\ main.todo = <<>>)
        /\ main' = At("publish")
    BY DEF CreateLog
  <2>2. At("publish") \in MainSet /\ At("publish").pc = "publish" /\ At("publish").todo = main.todo
    BY <1>1, CallerMoves DEF MainPc
  <2> QED
    BY <2>1, <2>2
<1>5. Entries' = Entries
  BY <1>2, <1>3 DEF Entries
<1>6. /\ nextIndex = state.next /\ nextIndex \in Nat /\ nextIndex' = nextIndex + 1
      /\ nextIndex' \in Nat
  <2>1. nextIndex = state.next /\ nextIndex \in Nat
    BY <1>1, <1>3, TablesInUse DEF CallerAt
  <2>2. nextIndex' = nextIndex + 1
    BY DEF CreateLog, IndexAfter
  <2> QED
    BY <2>1, <2>2
<1>7. /\ DOMAIN files' = DOMAIN files \cup {state.next}
      /\ \A i \in DOMAIN files : files'[i] = files[i]
      /\ state.next \notin DOMAIN files =>
             /\ files'[state.next] = [disk |-> FALSE, cells |-> {}]
             /\ files'[state.next] \in FileSet /\ ~files'[state.next].disk
             /\ files'[state.next].cells = {}
      /\ files' = [i \in DOMAIN files' |-> files'[i]]
  <2>1. files' = IF nextIndex \in DOMAIN files THEN files
                 ELSE [i \in DOMAIN files \cup {nextIndex} |->
                          IF i = nextIndex THEN [disk |-> FALSE, cells |-> {}]
                          ELSE files[i]]
    BY DEF CreateLog
  <2>2. files = [i \in DOMAIN files |-> files[i]]
    BY <1>1 DEF FileTypes
  <2>3. CASE nextIndex \in DOMAIN files
    BY <1>6, <2>1, <2>2, <2>3
  <2>4. CASE nextIndex \notin DOMAIN files
    BY <1>6, <2>1, <2>4 DEF FileSet
  <2> QED
    BY <2>3, <2>4
<1>8. \A i \in Used(Entries, state) : i \in DOMAIN files' /\ files'[i] = files[i]
  BY <1>7, EntriesInUse
<1>11. HistTypes'
  BY <1>1, <1>2 DEF HistTypes
<1>12. FileTypes'
  <2>1. FileSet = [disk : BOOLEAN, cells : SUBSET Nat]
    BY DEF FileSet
  <2>2. \A i \in DOMAIN files' : i \in Nat /\ files'[i] \in FileSet
    BY <1>1, <1>6, <1>7, <2>1 DEF FileTypes
  <2>3. \A i \in DOMAIN files' : \A c \in files'[i].cells : c \in 1..synced
    BY <1>1, <1>6, <1>7 DEF FileTypes
  <2>4. files' \in [DOMAIN files' -> FileSet]
    BY <1>7, <2>2
  <2> QED
    BY <1>2, <2>2, <2>3, <2>4 DEF FileTypes
<1>13. TableTypes'
  BY <1>1, <1>2, <1>6 DEF TableTypes
<1>14. CallerTypes'
  BY <1>1, <1>2, <1>3 DEF CallerTypes
<1>15. SerTypes'
  BY <1>1, <1>2 DEF SerTypes
<1>16. CompTypes'
  BY <1>1, <1>2 DEF CompTypes
<1>17. CallerAt'
  <2>1. synced = Len(hist) /\ main.todo = <<>>
    BY <1>1, <1>3 DEF CallerAt
  <2>2. nextIndex' = state'.next + 1
    BY <1>2, <1>6
  <2> QED
    BY <1>2, <1>3, <2>1, <2>2 DEF CallerAt
<1>18. OneCompaction'
  BY <1>1, <1>2 DEF OneCompaction
<1>19. EntriesHaveFiles'
  BY <1>2, <1>5, <1>8, FilesElsewhere
<1>20. StateFile'
  <2>1. HaveFiles(InState(state'), files', state'.next)
    BY <1>2, <1>5, <1>8, FilesElsewhere
  <2>2. \A i \in DOMAIN files' : i <= state.next
    BY <1>1, <1>6, <1>7 DEF StateFile
  <2>3. ~files'[state.next].disk /\ files'[state.next].cells = {}
    BY <1>1, <1>7 DEF StateFile
  <2> QED
    BY <1>1, <1>2, <1>7, <2>1, <2>2, <2>3 DEF StateFile
<1>21. WorkersFiles'
  BY <1>1, <1>2, <1>5 DEF WorkersFiles, Apart
<1>22. LogsQueued'
  BY <1>1, <1>2, <1>3 DEF LogsQueued, NDisk, Pend, LastIsLog
<1>23. CompactionsAreValid'
  BY <1>1, <1>2 DEF CompactionsAreValid, JobIsValid
<1>24. TablesFollowFiles'
  BY <1>2, <1>5, <1>8, FilesElsewhere
<1>25. FilesAreComplete'
  BY <1>2, <1>5, <1>8, FilesElsewhere
<1> QED
  BY <1>11, <1>12, <1>13, <1>14, <1>15, <1>16, <1>17, <1>18, <1>19,
     <1>20, <1>21, <1>22, <1>23, <1>24, <1>25 DEF IInv, Types

\* SerializeIndex keeps the invariant: the index is fresh.
LEMMA SerializeIndexKept == ASSUME IInv, SerializeIndex PROVE IInv'
<1>1. /\ Types /\ HistTypes /\ FileTypes /\ TableTypes /\ CallerTypes
      /\ SerTypes /\ CompTypes /\ CallerAt /\ OneCompaction
      /\ EntriesHaveFiles /\ StateFile /\ WorkersFiles /\ LogsQueued
      /\ CompactionsAreValid /\ TablesFollowFiles /\ FilesAreComplete
  BY DEF IInv, Types
<1>2. /\ hist' = hist /\ applied' = applied /\ synced' = synced
      /\ files' = files /\ tables' = tables /\ initialized' = initialized
      /\ main' = main /\ squeue' = squeue /\ cqueue' = cqueue
      /\ comp' = comp /\ scheduled' = scheduled /\ fullRequested' = fullRequested
      /\ requests' = requests /\ stops' = stops /\ torn' = torn
  BY DEF SerializeIndex, callVars, diskVars, serVars, compVars, bounds
<1>3. /\ ser.pc = "index" /\ ser' \in SerSet /\ ser'.pc = "swap"
      /\ ser'.out = nextIndex /\ ser'.name = ser.name
      /\ main.pc \notin {"down", "push", "create", "publish"}
  <2>1. /\ ser.pc = "index" /\ main.pc \notin {"push", "create", "publish"}
        /\ ser' = [ser EXCEPT !.pc = "swap", !.out = nextIndex]
    BY DEF SerializeIndex, MutexFree
  <2>2. ser \in SerSet /\ ser # Idle /\ nextIndex \in Nat
    BY <1>1, <2>1, WorkerStates DEF SerTypes, TableTypes
  <2>3. main.pc # "down"
    BY <1>1, <2>2 DEF CallerAt
  <2> QED
    BY <2>1, <2>2, <2>3 DEF SerSet
<1>4. /\ TableTypes' /\ CallerAt' /\ EntriesHaveFiles' /\ StateFile'
      /\ nextIndex = state.next /\ state'.next = state.next + 1
      /\ Used(Entries', state') \subseteq Used(Entries, state)
      /\ Entries' = Entries
  <2>1. nextIndex' = nextIndex + 1 /\ WriteConfig(tables, nextIndex + 1)
    BY DEF SerializeIndex, IndexAfter
  <2> QED
    BY <1>2, <1>3, <2>1, IndexTaken
<1>5. Entries' = Entries
  BY <1>4
<1>6. nextIndex \in Nat /\ \A i \in Used(Entries', state') : i \in Nat /\ i < nextIndex
  BY <1>4, EntriesInUse, TablesInUse
<1>11. HistTypes'
  BY <1>1, <1>2 DEF HistTypes
<1>12. FileTypes'
  BY <1>1, <1>2 DEF FileTypes
<1>13. TableTypes'
  BY <1>4
<1>14. CallerTypes'
  BY <1>1, <1>2 DEF CallerTypes
<1>15. SerTypes'
  BY <1>1, <1>2, <1>3 DEF SerTypes
<1>16. CompTypes'
  BY <1>1, <1>2 DEF CompTypes
<1>17. CallerAt'
  BY <1>4
<1>18. OneCompaction'
  BY <1>1, <1>2 DEF OneCompaction
<1>19. EntriesHaveFiles'
  BY <1>4
<1>20. StateFile'
  BY <1>4
<1>21. WorkersFiles'
  <2>1. comp.pc = "replace" => comp.out < state.next /\ comp.out \in Nat
    BY <1>1, WorkerStates DEF WorkersFiles, Apart, CompTypes
  <2>2. comp.pc = "finish" =>
            \A k \in DOMAIN comp.job.names :
                comp.job.names[k] < state.next /\ comp.job.names[k] \in Nat
    BY <1>1, WorkerStates DEF WorkersFiles, Apart, CompTypes
  <2>3. /\ ser'.pc = "swap" /\ ser'.out = state.next /\ state.next \in Nat
        /\ state.next < state'.next /\ \A i \in Nat : i < state.next => i < state'.next
    BY <1>3, <1>4, <1>6
  <2>4. ser'.out \notin Used(Entries', state')
    BY <1>6, <2>3, <1>4
  <2>5. Apart(Used(Entries, state), state.next)
    BY <1>1 DEF WorkersFiles
  <2> QED
    BY <1>2, <1>4, <2>1, <2>2, <2>3, <2>4, <2>5 DEF WorkersFiles, Apart
<1>22. LogsQueued'
  <2>1. Pend = 1 /\ Pend' = 1
    BY <1>3 DEF Pend
  <2>2. NDisk' = NDisk
    BY <1>2, <2>1 DEF NDisk, LastIsLog
  <2> QED
    BY <1>1, <1>2, <1>3, <2>1, <2>2 DEF LogsQueued
<1>23. CompactionsAreValid'
  BY <1>1, <1>2 DEF CompactionsAreValid, JobIsValid
<1>24. TablesFollowFiles'
  BY <1>1, <1>2 DEF TablesFollowFiles
<1>25. FilesAreComplete'
  BY <1>1, <1>2, <1>5 DEF FilesAreComplete
<1> QED
  BY <1>11, <1>12, <1>13, <1>14, <1>15, <1>16, <1>17, <1>18, <1>19,
     <1>20, <1>21, <1>22, <1>23, <1>24, <1>25 DEF IInv, Types

\* CompactIndex keeps the invariant: the index is fresh.
LEMMA CompactIndexKept == ASSUME IInv, CompactIndex PROVE IInv'
<1>1. /\ Types /\ HistTypes /\ FileTypes /\ TableTypes /\ CallerTypes
      /\ SerTypes /\ CompTypes /\ CallerAt /\ OneCompaction
      /\ EntriesHaveFiles /\ StateFile /\ WorkersFiles /\ LogsQueued
      /\ CompactionsAreValid /\ TablesFollowFiles /\ FilesAreComplete
  BY DEF IInv, Types
<1>2. /\ hist' = hist /\ applied' = applied /\ synced' = synced
      /\ files' = files /\ tables' = tables /\ initialized' = initialized
      /\ main' = main /\ squeue' = squeue /\ ser' = ser
      /\ scheduled' = scheduled /\ fullRequested' = fullRequested /\ requests' = requests
      /\ stops' = stops /\ torn' = torn
  BY DEF CompactIndex, callVars, diskVars, serVars, compVars, bounds
<1>3. /\ comp' \in CompSet /\ comp'.pc = "replace" /\ comp'.out = nextIndex
      /\ 1 \in DOMAIN cqueue /\ comp'.job = cqueue[1] /\ cqueue' = <<>>
      /\ initialized /\ scheduled
      /\ main.pc \notin {"down", "push", "create", "publish"}
  <2>1. /\ cqueue # <<>> /\ main.pc \notin {"push", "create", "publish"}
        /\ comp' = [pc |-> "replace", job |-> Head(cqueue), out |-> nextIndex]
        /\ cqueue' = Tail(cqueue)
    BY DEF CompactIndex, MutexFree
  <2>2. scheduled /\ initialized
    BY <1>1, <2>1 DEF OneCompaction
  <2>3. main.pc # "down"
    BY <1>1, <2>2 DEF CallerAt
  <2>4. cqueue \in Seq(JobSet) /\ Len(cqueue) <= 1 /\ nextIndex \in Nat
    BY <1>1 DEF CompTypes, OneCompaction, TableTypes
  <2>5. /\ Len(cqueue) = 1 /\ 1 \in DOMAIN cqueue /\ Head(cqueue) = cqueue[1]
        /\ cqueue[1] \in JobSet /\ Tail(cqueue) = <<>>
    <3>1. Len(cqueue) \in Nat /\ Len(cqueue) # 0
      BY <2>1, <2>4
    <3>2. Len(cqueue) = 1
      BY <2>4, <3>1
    <3>3. 1 \in DOMAIN cqueue /\ Head(cqueue) = cqueue[1] /\ cqueue[1] \in JobSet
      BY <2>4, <3>2
    <3>4. Tail(cqueue) \in Seq(JobSet) /\ Len(Tail(cqueue)) = 0
      BY <2>1, <2>4, <3>2
    <3>5. \A q \in Seq(JobSet) : Len(q) = 0 => q = <<>>
      OBVIOUS
    <3> QED
      BY <3>2, <3>3, <3>4, <3>5
  <2>6. comp'.pc = "replace" /\ comp'.job = cqueue[1] /\ comp'.out = nextIndex
    BY <2>1, <2>5
  <2>7. comp' \in CompSet
    BY <2>1, <2>4, <2>5 DEF CompSet
  <2> QED
    BY <2>1, <2>2, <2>3, <2>5, <2>6, <2>7
<1>4. /\ TableTypes' /\ CallerAt' /\ EntriesHaveFiles' /\ StateFile'
      /\ nextIndex = state.next /\ state'.next = state.next + 1
      /\ Used(Entries', state') \subseteq Used(Entries, state)
      /\ Entries' = Entries
  <2>1. nextIndex' = nextIndex + 1 /\ WriteConfig(tables, nextIndex + 1)
    BY DEF CompactIndex, IndexAfter
  <2> QED
    BY <1>2, <1>3, <2>1, IndexTaken
<1>5. Entries' = Entries
  BY <1>4
<1>6. nextIndex \in Nat /\ \A i \in Used(Entries', state') : i \in Nat /\ i < nextIndex
  BY <1>4, EntriesInUse, TablesInUse
<1>11. HistTypes'
  BY <1>1, <1>2 DEF HistTypes
<1>12. FileTypes'
  BY <1>1, <1>2 DEF FileTypes
<1>13. TableTypes'
  BY <1>4
<1>14. CallerTypes'
  BY <1>1, <1>2 DEF CallerTypes
<1>15. SerTypes'
  BY <1>1, <1>2 DEF SerTypes
<1>16. CompTypes'
  <2>1. cqueue' \in Seq(JobSet)
    BY <1>3
  <2> QED
    BY <1>1, <1>2, <1>3, <2>1 DEF CompTypes
<1>17. CallerAt'
  BY <1>4
<1>18. OneCompaction'
  <2>1. Len(cqueue') <= 1
    BY <1>3
  <2> QED
    BY <1>1, <1>2, <1>3, <2>1 DEF OneCompaction
<1>19. EntriesHaveFiles'
  BY <1>4
<1>20. StateFile'
  BY <1>4
<1>21. WorkersFiles'
  <2>1. ser.pc = "swap" => ser.out < state.next /\ ser.out \in Nat
    BY <1>1, WorkerStates DEF WorkersFiles, Apart, SerTypes
  <2>2. ser.pc = "remove" => ser.name < state.next /\ ser.name \in Nat
    BY <1>1, WorkerStates DEF WorkersFiles, Apart, SerTypes
  <2>3. /\ comp'.pc = "replace" /\ comp'.out = state.next /\ state.next \in Nat
        /\ state.next < state'.next /\ \A i \in Nat : i < state.next => i < state'.next
    BY <1>3, <1>4, <1>6
  <2>4. comp'.out \notin Used(Entries', state')
    BY <1>6, <2>3, <1>4
  <2>5. Apart(Used(Entries, state), state.next)
    BY <1>1 DEF WorkersFiles
  <2> QED
    BY <1>2, <1>4, <2>1, <2>2, <2>3, <2>4, <2>5 DEF WorkersFiles, Apart
<1>22. LogsQueued'
  BY <1>1, <1>2 DEF LogsQueued, NDisk, Pend, LastIsLog
<1>23. CompactionsAreValid'
  <2>1. ASSUME NEW job PROVE JobIsValid(job)' <=> ValidIn(tables, job)
    BY <1>2 DEF JobIsValid, ValidIn
  <2>2. ValidIn(tables, comp'.job)
    BY <1>1, <1>3, ValidHere DEF CompactionsAreValid
  <2>3. DOMAIN cqueue' = {}
    BY <1>3
  <2> QED
    BY <1>2, <2>1, <2>2, <2>3 DEF CompactionsAreValid
<1>24. TablesFollowFiles'
  BY <1>1, <1>2 DEF TablesFollowFiles
<1>25. FilesAreComplete'
  BY <1>1, <1>2, <1>5 DEF FilesAreComplete
<1> QED
  BY <1>11, <1>12, <1>13, <1>14, <1>15, <1>16, <1>17, <1>18, <1>19,
     <1>20, <1>21, <1>22, <1>23, <1>24, <1>25 DEF IInv, Types

\* Files that are not in use are removed.
LEMMA FilesRemoved ==
    ASSUME IInv, NEW R, \A i \in R : i \notin Used(Entries, state) /\ i \in Nat,
           \A i \in R : i < state.next,
           files' = Restrict(files, DOMAIN files \ R),
           hist' = hist, applied' = applied, synced' = synced, state' = state,
           tables' = tables, torn' = torn, initialized' = initialized,
           Entries' = Entries, main'.pc = "publish" => main.pc = "publish"
    PROVE  /\ FileTypes' /\ EntriesHaveFiles' /\ StateFile'
           /\ TablesFollowFiles' /\ FilesAreComplete'
<1>1. FileTypes /\ StateFile /\ state.next \in Nat
  BY TablesInUse DEF IInv, Types
<1>2. /\ DOMAIN files' = DOMAIN files \ R
      /\ \A i \in DOMAIN files \ R : files'[i] = files[i]
      /\ files' = [i \in DOMAIN files \ R |-> files'[i]]
  BY DEF Restrict
<1>3. \A i \in Used(Entries, state) : i \in DOMAIN files' /\ files'[i] = files[i]
  BY <1>2, EntriesInUse
<1>4. /\ EntriesHaveFiles' /\ TablesFollowFiles' /\ FilesAreComplete'
      /\ HaveFiles(InState(state'), files', state'.next)
  BY <1>3, FilesElsewhere
<1>5. FileTypes'
  <2>1. \A i \in DOMAIN files' : files'[i] \in FileSet
    BY <1>1, <1>2 DEF FileTypes
  <2>2. files' \in [DOMAIN files' -> FileSet]
    BY <1>2, <2>1
  <2> QED
    BY <1>1, <1>2, <2>2 DEF FileTypes
<1>6. StateFile'
  <2>1. state.next \notin R
    BY <1>1
  <2> QED
    BY <1>1, <1>2, <1>4, <2>1 DEF StateFile
<1> QED
  BY <1>4, <1>5, <1>6

\* SerializeRemove keeps the invariant.
LEMMA SerializeRemoveKept == ASSUME IInv, SerializeRemove PROVE IInv'
<1>1. /\ Types /\ HistTypes /\ FileTypes /\ TableTypes /\ CallerTypes
      /\ SerTypes /\ CompTypes /\ CallerAt /\ OneCompaction
      /\ EntriesHaveFiles /\ StateFile /\ WorkersFiles /\ LogsQueued
      /\ CompactionsAreValid /\ TablesFollowFiles /\ FilesAreComplete
  BY DEF IInv, Types
<1>2. /\ hist' = hist /\ applied' = applied /\ synced' = synced
      /\ state' = state /\ tables' = tables /\ nextIndex' = nextIndex
      /\ initialized' = initialized /\ main' = main /\ squeue' = squeue
      /\ cqueue' = cqueue /\ comp' = comp /\ scheduled' = scheduled
      /\ fullRequested' = fullRequested /\ requests' = requests /\ stops' = stops
      /\ torn' = torn
  BY DEF SerializeRemove, callVars, diskVars, serVars, compVars, bounds
<1>3. /\ ser.pc = "remove" /\ ser' = Idle /\ ser.name \in Nat
      /\ files' = Restrict(files, DOMAIN files \ {ser.name})
  BY <1>1, WorkerStates DEF SerializeRemove, SerTypes
<1>5. Entries' = Entries
  BY <1>2 DEF Entries
<1>6. /\ FileTypes' /\ EntriesHaveFiles' /\ StateFile'
      /\ TablesFollowFiles' /\ FilesAreComplete'
  <2>1. ser.name \notin Used(Entries, state) /\ ser.name < state.next
    BY <1>1, <1>3 DEF WorkersFiles, Apart
  <2> DEFINE R == {ser.name}
  <2>2. /\ \A i \in R : i \notin Used(Entries, state) /\ i \in Nat
        /\ \A i \in R : i < state.next
        /\ files' = Restrict(files, DOMAIN files \ R)
    BY <1>3, <2>1
  <2>3. main'.pc = "publish" => main.pc = "publish"
    BY <1>2
  <2> HIDE DEF R
  <2> QED
    BY <1>2, <1>5, <2>2, <2>3, FilesRemoved
<1>11. HistTypes'
  BY <1>1, <1>2 DEF HistTypes
<1>12. FileTypes'
  BY <1>6
<1>13. TableTypes'
  BY <1>1, <1>2 DEF TableTypes
<1>14. CallerTypes'
  BY <1>1, <1>2 DEF CallerTypes
<1>15. SerTypes'
  BY <1>1, <1>2, <1>3 DEF SerTypes
<1>16. CompTypes'
  BY <1>1, <1>2 DEF CompTypes
<1>17. CallerAt'
  BY <1>1, <1>2, <1>3 DEF CallerAt
<1>18. OneCompaction'
  BY <1>1, <1>2 DEF OneCompaction
<1>19. EntriesHaveFiles'
  BY <1>6
<1>20. StateFile'
  BY <1>6
<1>21. WorkersFiles'
  BY <1>1, <1>2, <1>3, <1>5, WorkerStates DEF WorkersFiles, Apart
<1>22. LogsQueued'
  <2>1. Pend = 0 /\ Pend' = 0
    BY <1>3, WorkerStates DEF Pend
  <2>2. NDisk' = NDisk
    BY <1>2, <2>1 DEF NDisk, LastIsLog
  <2> QED
    BY <1>1, <1>2, <2>1, <2>2 DEF LogsQueued
<1>23. CompactionsAreValid'
  BY <1>1, <1>2 DEF CompactionsAreValid, JobIsValid
<1>24. TablesFollowFiles'
  BY <1>6
<1>25. FilesAreComplete'
  BY <1>6
<1> QED
  BY <1>11, <1>12, <1>13, <1>14, <1>15, <1>16, <1>17, <1>18, <1>19,
     <1>20, <1>21, <1>22, <1>23, <1>24, <1>25 DEF IInv, Types

\* CompactFinish keeps the invariant.
LEMMA CompactFinishKept == ASSUME IInv, CompactFinish PROVE IInv'
<1>1. /\ Types /\ HistTypes /\ FileTypes /\ TableTypes /\ CallerTypes
      /\ SerTypes /\ CompTypes /\ CallerAt /\ OneCompaction
      /\ EntriesHaveFiles /\ StateFile /\ WorkersFiles /\ LogsQueued
      /\ CompactionsAreValid /\ TablesFollowFiles /\ FilesAreComplete
  BY DEF IInv, Types
<1>2. /\ hist' = hist /\ applied' = applied /\ synced' = synced
      /\ state' = state /\ tables' = tables /\ nextIndex' = nextIndex
      /\ initialized' = initialized /\ squeue' = squeue /\ ser' = ser
      /\ requests' = requests /\ stops' = stops /\ torn' = torn
  BY DEF CompactFinish, callVars, diskVars, serVars, compVars, bounds
<1>3. /\ comp.pc = "finish" /\ comp' = Idle /\ cqueue = <<>>
      /\ initialized /\ comp.job.names \in Seq(Nat)
      /\ main.pc \in {"idle", "awake", "blocked", "join"}
  <2>1. comp.pc = "finish" /\ comp' = Idle /\ main.pc \notin {"push", "create", "publish"}
    BY DEF CompactFinish, MutexFree
  <2>2. comp # Idle /\ comp.job.names \in Seq(Nat)
    BY <1>1, <2>1, WorkerStates DEF CompTypes
  <2>3. cqueue = <<>> /\ initialized
    BY <1>1, <2>2 DEF OneCompaction
  <2>4. main.pc \in MainPc
    BY <1>1 DEF CallerTypes, MainSet
  <2> QED
    BY <1>1, <2>1, <2>2, <2>3, <2>4 DEF CallerAt, MainPc
<1>4. /\ main' \in MainSet /\ main'.pc \in {"idle", "awake", "join"}
      /\ main'.todo = main.todo
  <2>1. main' = IF main.pc = "blocked" THEN At("awake") ELSE main
    BY DEF CompactFinish, Notified
  <2>2. At("awake") \in MainSet /\ At("awake").pc = "awake" /\ At("awake").todo = main.todo
    BY <1>1, CallerMoves DEF MainPc
  <2> QED
    BY <1>1, <1>3, <2>1, <2>2 DEF CallerTypes
<1>5. Entries' = Entries
  BY <1>2, <1>3, <1>4 DEF Entries
<1>6. /\ FileTypes' /\ EntriesHaveFiles' /\ StateFile'
      /\ TablesFollowFiles' /\ FilesAreComplete'
  <2> DEFINE R == Range(comp.job.names)
  <2>1. \A k \in DOMAIN comp.job.names :
            /\ comp.job.names[k] < state.next /\ comp.job.names[k] \in Nat
            /\ comp.job.names[k] \notin Used(Entries, state)
    BY <1>1, <1>3 DEF WorkersFiles, Apart
  <2>2. \A i \in R : i \notin Used(Entries, state) /\ i \in Nat /\ i < state.next
    BY <2>1 DEF Range
  <2>3. files' = Restrict(files, DOMAIN files \ R)
    BY DEF CompactFinish
  <2> HIDE DEF R
  <2> QED
    BY <1>2, <1>4, <1>5, <2>2, <2>3, FilesRemoved
<1>7. /\ tables \in Seq(TableSet) /\ NDisk \in Nat /\ NDisk < Len(tables)
      /\ \A p \in DOMAIN tables : tables[p].disk <=> p <= NDisk
  <2>1. LastIsLog
    BY <1>3 DEF LastIsLog
  <2> QED
    BY <1>1, <2>1, DiskTables DEF TableTypes, LogsQueued
<1>8. /\ scheduled' \in BOOLEAN /\ fullRequested' \in BOOLEAN
      /\ cqueue' \in Seq(JobSet) /\ Len(cqueue') <= 1
      /\ ~scheduled' => cqueue' = <<>>
      /\ \A p \in DOMAIN cqueue' : ValidIn(tables, cqueue'[p])
  <2> HIDE DEF NDisk
  <2>1. CASE fullRequested
    <3>1. ScheduleFullCompaction(tables, FALSE)
      BY <2>1 DEF CompactFinish
    <3> QED
      BY <1>3, <1>7, <3>1, FullScheduled
  <2>2. CASE ~fullRequested /\ Len(tables) > CompactAt
    <3>1. ScheduleCompaction(tables) /\ fullRequested' = fullRequested
      BY <2>2 DEF CompactFinish
    <3>2. /\ scheduled' = TRUE /\ cqueue' \in Seq(JobSet) /\ Len(cqueue') <= 1
          /\ \A p \in DOMAIN cqueue' : ValidIn(tables, cqueue'[p])
      BY <1>3, <1>7, <2>2, <3>1, JobScheduled
    <3> QED
      BY <1>1, <3>1, <3>2 DEF CompTypes
  <2>3. CASE ~fullRequested /\ ~(Len(tables) > CompactAt)
    <3>1. scheduled' = FALSE /\ cqueue' = cqueue /\ fullRequested' = fullRequested
      BY <2>3 DEF CompactFinish
    <3>2. DOMAIN cqueue' = {} /\ Len(cqueue') <= 1 /\ cqueue' \in Seq(JobSet)
      BY <1>1, <1>3, <3>1 DEF CompTypes
    <3>3. scheduled' \in BOOLEAN
      BY <3>1
    <3>4. fullRequested' \in BOOLEAN
      BY <1>1, <3>1 DEF CompTypes
    <3>5. cqueue' = <<>>
      BY <1>3, <3>1
    <3>6. \A p \in DOMAIN cqueue' : ValidIn(tables, cqueue'[p])
      BY <3>2
    <3> QED
      BY <3>2, <3>3, <3>4, <3>5, <3>6
  <2> QED
    BY <2>1, <2>2, <2>3
<1>11. HistTypes'
  BY <1>1, <1>2 DEF HistTypes
<1>12. FileTypes'
  BY <1>6
<1>13. TableTypes'
  BY <1>1, <1>2 DEF TableTypes
<1>14. CallerTypes'
  BY <1>1, <1>2, <1>4 DEF CallerTypes
<1>15. SerTypes'
  BY <1>1, <1>2 DEF SerTypes
<1>16. CompTypes'
  BY <1>1, <1>3, <1>8 DEF CompTypes
<1>17. CallerAt'
  <2>1. main.todo = <<>> /\ nextIndex = state.next + 0
    BY <1>1, <1>3 DEF CallerAt
  <2>2. nextIndex' = state'.next + 0
    BY <1>2, <2>1
  <2> QED
    BY <1>2, <1>3, <1>4, <2>1, <2>2 DEF CallerAt
<1>18. OneCompaction'
  BY <1>2, <1>3, <1>8 DEF OneCompaction
<1>19. EntriesHaveFiles'
  BY <1>6
<1>20. StateFile'
  BY <1>6
<1>21. WorkersFiles'
  BY <1>1, <1>2, <1>3, <1>5, WorkerStates DEF WorkersFiles, Apart
<1>22. LogsQueued'
  <2>1. LastIsLog /\ LastIsLog'
    BY <1>3, <1>4 DEF LastIsLog
  <2>2. Pend' = Pend /\ NDisk' = NDisk
    BY <1>2, <2>1 DEF NDisk, Pend
  <2> QED
    BY <1>1, <1>2, <2>2 DEF LogsQueued
<1>23. CompactionsAreValid'
  <2>1. ASSUME NEW job PROVE JobIsValid(job)' <=> ValidIn(tables, job)
    BY <1>2 DEF JobIsValid, ValidIn
  <2> QED
    BY <1>3, <1>8, <2>1, WorkerStates DEF CompactionsAreValid
<1>24. TablesFollowFiles'
  BY <1>6
<1>25. FilesAreComplete'
  BY <1>6
<1> QED
  BY <1>11, <1>12, <1>13, <1>14, <1>15, <1>16, <1>17, <1>18, <1>19,
     <1>20, <1>21, <1>22, <1>23, <1>24, <1>25 DEF IInv, Types

-----------------------------------------------------------------------------
(* Each action keeps the invariant: the writable table.                    *)

\* The list of all tables, when none is yet to load.
LEMMA ListedTables ==
    ASSUME NEW T \in Seq(TableSet)
    PROVE  /\ Len(T) \in Nat /\ DOMAIN T = 1..Len(T)
           /\ DOMAIN Listed(T, <<>>) = 1..Len(T)
           /\ \A p \in 1..Len(T) : /\ T[p] \in TableSet /\ T[p].name \in Nat
                                   /\ Listed(T, <<>>)[p].name = T[p].name
                                   /\ Listed(T, <<>>)[p].disk = T[p].disk
<1>1. <<>> \in Seq(EntrySet) /\ Len(<<>>) = 0
  OBVIOUS
<1>2. Len(T) \in Nat /\ DOMAIN T = 1..Len(T) /\ Len(T) + Len(<<>>) = Len(T)
  <2>1. Len(T) \in Nat /\ DOMAIN T = 1..Len(T)
    OBVIOUS
  <2> QED
    BY <1>1, <2>1
<1>3. \A p \in 1..Len(T) : T[p] \in TableSet /\ T[p].name \in Nat
  <2> TAKE p \in 1..Len(T)
  <2>1. T[p] \in TableSet
    OBVIOUS
  <2> QED
    BY <2>1 DEF TableSet
<1>4. DOMAIN Listed(T, <<>>) = 1..Len(T)
  BY <1>1, <1>2, ListedShape
<1>5. \A p \in 1..Len(T) : /\ Listed(T, <<>>)[p].name = T[p].name
                           /\ Listed(T, <<>>)[p].disk = T[p].disk
  BY <1>1, ListedShape
<1> QED
  BY <1>2, <1>3, <1>4, <1>5

\* A job stays valid when the disk tables stay and others are added.
LEMMA ValidStays ==
    ASSUME NEW T \in Seq(TableSet), NEW U \in Seq(TableSet), Len(T) <= Len(U),
           \A p \in 1..Len(T) : T[p].disk => U[p].name = T[p].name /\ U[p].disk,
           NEW job \in JobSet, ValidIn(T, job)
    PROVE  ValidIn(U, job)
<1>1. PICK first \in DOMAIN T :
        /\ Len(job.names) > 1 /\ first + Len(job.names) <= Len(T)
        /\ \A k \in 1..Len(job.names) : /\ T[first + k - 1].name = job.names[k]
                                        /\ T[first + k - 1].disk
        /\ job.filterErasures => first = 1
  BY DEF ValidIn
<1>2. /\ Len(job.names) \in Nat /\ Len(T) \in Nat /\ Len(U) \in Nat
      /\ DOMAIN T = 1..Len(T) /\ DOMAIN U = 1..Len(U)
  BY DEF JobSet
<1>3. \A k \in 1..Len(job.names) : first + k - 1 \in 1..Len(T)
  BY <1>1, <1>2
<1>4. first \in DOMAIN U /\ first + Len(job.names) <= Len(U)
  BY <1>1, <1>2
<1>5. \A k \in 1..Len(job.names) : /\ U[first + k - 1].name = job.names[k]
                                   /\ U[first + k - 1].disk
  BY <1>1, <1>3
<1> QED
  BY <1>1, <1>4, <1>5 DEF ValidIn

\* What a start finds depends on the synced part of the history.
LEMMA WholeLonger ==
    ASSUME NEW h, NEW g, NEW n \in Nat, NEW F, NEW E,
           \A p \in DOMAIN E : \A c \in F[E[p].name].cells : c \in 1..n,
           \A i \in 1..n : h[i] = g[i], Whole(h, F, E, n)
    PROVE  Whole(g, F, E, n)
<1> DEFINE A == OnFile(h, F, E)
           B == OnFile(g, F, E)
<1>1. DOMAIN A = DOMAIN E /\ DOMAIN B = DOMAIN E
  BY DEF OnFile
<1>2. ASSUME NEW p \in DOMAIN E
      PROVE  A[p].cells = B[p].cells /\ \A i \in A[p].cells : h[i] = g[i]
  <2> DEFINE C == F[E[p].name].cells
  <2>1. \A i \in C : h[i] = g[i]
    OBVIOUS
  <2>2. A[p].cells = Newest(h, C) /\ B[p].cells = Newest(g, C)
    BY DEF OnFile
  <2> HIDE DEF C, A, B
  <2>3. Newest(h, C) = Newest(g, C)
    BY <2>1, NewestSame
  <2> QED
    BY <2>1, <2>2, <2>3, NewestSubset
<1>3. Shown(h, A) = VisibleIn(h, n)
  BY DEF Whole
<1> HIDE DEF A, B
<1>4. Shown(h, A) = Shown(g, B)
  <2>1. SameCells(A, B) /\ Agree(h, g, A)
    BY <1>1, <1>2 DEF SameCells, Agree
  <2> QED
    BY <2>1, MergeSame
<1>5. VisibleIn(h, n) = VisibleIn(g, n)
  <2>1. Newest(h, 1..n) = Newest(g, 1..n)
    BY NewestSame
  <2>2. \A i \in Newest(h, 1..n) : h[i] = g[i]
    BY NewestSubset
  <2> QED
    BY <2>1, <2>2 DEF VisibleIn
<1> QED
  BY <1>3, <1>4, <1>5 DEF Whole, B

\* A sync of the last file adds to what a start finds.
LEMMA WholeSynced ==
    ASSUME NEW h, NEW F, NEW G, NEW E, NEW lo \in Nat, NEW hi \in Nat, lo <= hi,
           NEW n \in Nat \ {0}, DOMAIN E = 1..n,
           \A p \in 1..n : \A c \in F[E[p].name].cells : c \in 1..lo,
           \A p \in 1..(n - 1) : G[E[p].name].cells = F[E[p].name].cells,
           G[E[n].name].cells = F[E[n].name].cells \cup (lo + 1)..hi,
           Whole(h, F, E, lo)
    PROVE  Whole(h, G, E, hi)
<1> DEFINE A == OnFile(h, F, E)
           B == OnFile(h, G, E)
           C == F[E[n].name].cells
           M == (lo + 1)..hi
<1>1. DOMAIN A = 1..n /\ DOMAIN B = 1..n
  BY DEF OnFile
<1>2. \A p \in 1..n : /\ A[p].cells = Newest(h, F[E[p].name].cells)
                      /\ B[p].cells = Newest(h, G[E[p].name].cells)
  BY DEF OnFile
<1>3. \A p \in 1..n : A[p].cells \subseteq 1..lo
  BY <1>2, NewestSubset
<1>4. n \in 1..n /\ \A p \in 1..(n - 1) : p \in 1..n
  OBVIOUS
<1>5. C \in SUBSET (1..hi) /\ M \in SUBSET (1..hi)
  <2>1. \A c \in C : c \in 1..lo
    BY <1>4
  <2>2. \A c \in 1..lo : c \in 1..hi
    OBVIOUS
  <2>3. M \in SUBSET (1..hi)
    OBVIOUS
  <2> QED
    BY <2>1, <2>2, <2>3
<1>6. A[n].cells = Newest(h, C) /\ B[n].cells = Newest(h, C \cup M)
  BY <1>2, <1>4
<1>7. Shown(h, A) = VisibleIn(h, lo)
  BY DEF Whole
<1>8. \A p \in 1..(n - 1) : B[p].cells = A[p].cells
  BY <1>2, <1>4
<1> HIDE DEF A, B, C
<1>9. B[n].cells = Newest(h, A[n].cells \cup M)
  <2> HIDE DEF M
  <2>1. hi \in Nat /\ C \in UpTo(hi) /\ M \in UpTo(hi)
    BY <1>5 DEF UpTo
  <2>2. Newest(h, Newest(h, C) \cup M) = Newest(h, C \cup M)
    BY <2>1, NewestTwice
  <2> QED
    BY <1>6, <2>2
<1>10. Shown(h, B) = VisibleIn(h, hi)
  <2>1. B[n].cells = Newest(h, A[n].cells \cup (lo + 1)..hi)
    BY <1>9 DEF M
  <2>2. TakesUp(h, A, B, n, lo, hi)
    BY <1>1, <1>3, <1>8, <2>1 DEF TakesUp
  <2> QED
    BY <1>7, <2>2, MergeFlushed
<1> QED
  BY <1>10 DEF Whole, B

\* Publish keeps the invariant: the new table is empty.
LEMMA PublishKept == ASSUME IInv, Publish PROVE IInv'
<1>1. /\ Types /\ HistTypes /\ FileTypes /\ TableTypes /\ CallerTypes
      /\ SerTypes /\ CompTypes /\ CallerAt /\ OneCompaction
      /\ EntriesHaveFiles /\ StateFile /\ WorkersFiles /\ LogsQueued
      /\ CompactionsAreValid /\ TablesFollowFiles /\ FilesAreComplete
  BY DEF IInv, Types
<1>2. /\ hist' = hist /\ applied' = applied /\ synced' = synced
      /\ files' = files /\ nextIndex' = nextIndex /\ squeue' = squeue
      /\ ser' = ser /\ comp' = comp /\ fullRequested' = fullRequested
      /\ requests' = requests /\ stops' = stops /\ torn' = torn
  BY DEF Publish, callVars, diskVars, serVars, compVars, bounds
<1>3. /\ main.pc = "publish" /\ main'.pc = "idle" /\ main' \in MainSet
      /\ initialized' = TRUE /\ main.todo = <<>> /\ main'.todo = <<>>
  <2>1. main.pc = "publish" /\ main' = At("idle") /\ initialized' = TRUE
    BY DEF Publish
  <2>2. At("idle") \in MainSet /\ At("idle").pc = "idle" /\ At("idle").todo = main.todo
    BY <1>1, CallerMoves DEF MainPc
  <2> QED
    BY <1>1, <2>1, <2>2 DEF CallerAt
<1>4. /\ nextIndex = state.next + 1 /\ nextIndex - 1 = state.next /\ state.next \in Nat
      /\ nextIndex \in Nat /\ state.next \in DOMAIN files
      /\ files[state.next].cells = {} /\ ~files[state.next].disk
  <2>1. nextIndex = state.next + 1 /\ state.next \in Nat
    BY <1>1, <1>3, TablesInUse DEF CallerAt
  <2> QED
    BY <1>1, <1>3, <2>1 DEF StateFile
<1> DEFINE x == [name |-> nextIndex - 1, disk |-> FALSE,
                 cells |-> Newest(hist, files[nextIndex - 1].cells)]
           T == Append(tables, x)
<1>6. tables' = T /\ WriteConfig(T, nextIndex)
      /\ (~scheduled /\ Len(T) > CompactAt => ScheduleCompaction(T))
      /\ (scheduled \/ ~(Len(T) > CompactAt) => cqueue' = cqueue /\ scheduled' = scheduled)
  BY DEF Publish
<1>7. /\ T \in Seq(TableSet) /\ Len(T) = Len(tables) + 1 /\ Len(tables) \in Nat
      /\ DOMAIN T = 1..(Len(tables) + 1) /\ DOMAIN tables = 1..Len(tables)
      /\ \A p \in 1..Len(tables) : T[p] = tables[p]
      /\ T[Len(tables) + 1].name = state.next /\ ~T[Len(tables) + 1].disk
      /\ T[Len(tables) + 1].cells = {} /\ T[Len(tables) + 1].cells =
             Newest(hist, files[state.next].cells)
      /\ tables \in Seq(TableSet)
  <2>1. Newest(hist, files[state.next].cells) = {}
    BY <1>4, NewestSubset
  <2>2. /\ x.name = state.next /\ ~x.disk /\ x.cells = {} /\ x \in TableSet
    BY <1>4, <2>1 DEF TableSet
  <2>3. tables \in Seq(TableSet)
    BY <1>1 DEF TableTypes
  <2> HIDE DEF x
  <2> QED
    BY <2>1, <2>2, <2>3
<1> HIDE DEF x, T
<1>8. /\ NDisk \in Nat /\ NDisk <= Len(tables) /\ NDisk < Len(T) /\ NDisk <= Len(T)
      /\ \A p \in DOMAIN T : T[p].disk <=> p <= NDisk
  <2>1. /\ NDisk \in Nat /\ NDisk <= Len(tables)
        /\ \A p \in DOMAIN tables : tables[p].disk <=> p <= NDisk
    BY <1>1, DiskTables DEF LogsQueued
  <2> HIDE DEF NDisk
  <2>2. NDisk < Len(T) /\ NDisk <= Len(T) /\ ~(Len(tables) + 1 <= NDisk)
    BY <1>7, <2>1
  <2>3. \A p \in 1..(Len(tables) + 1) : p \in 1..Len(tables) \/ p = Len(tables) + 1
    BY <1>7
  <2> QED
    BY <1>7, <2>1, <2>2, <2>3
<1>9. /\ state' \in StateSet /\ state'.next = nextIndex
      /\ state'.names = [p \in DOMAIN T |-> T[p].name]
      /\ InState(state') = Listed(T, <<>>)
  <2> HIDE DEF NDisk
  <2> QED
    BY <1>4, <1>6, <1>7, <1>8, ConfigWritten
<1>10. /\ Entries' = Listed(T, <<>>) /\ Entries = Listed(tables, <<>>)
       /\ DOMAIN Entries' = 1..(Len(tables) + 1) /\ DOMAIN Entries = 1..Len(tables)
       /\ \A p \in 1..Len(tables) : /\ Entries[p].name = tables[p].name
                                    /\ Entries[p].disk = tables[p].disk
       /\ \A p \in 1..(Len(tables) + 1) : /\ Entries'[p].name = T[p].name
                                          /\ Entries'[p].disk = T[p].disk
       /\ HaveFiles(Entries', files, nextIndex)
  <2>1. Entries' = Listed(T, <<>>) /\ Entries = Listed(tables, <<>>)
    BY <1>2, <1>3, <1>6 DEF Entries
  <2>2. /\ DOMAIN Entries = 1..Len(tables)
        /\ \A p \in 1..Len(tables) : /\ Entries[p].name = tables[p].name
                                     /\ Entries[p].disk = tables[p].disk
    BY <1>7, <2>1, ListedTables
  <2>3. /\ DOMAIN Entries' = 1..(Len(tables) + 1)
        /\ \A p \in 1..(Len(tables) + 1) : /\ Entries'[p].name = T[p].name
                                           /\ Entries'[p].disk = T[p].disk
    BY <1>7, <2>1, ListedTables
  <2>4. \A p \in 1..(Len(tables) + 1) : p \in 1..Len(tables) \/ p = Len(tables) + 1
    BY <1>7
  <2>5. \A p \in 1..Len(tables) :
            /\ tables[p].name \in DOMAIN files /\ tables[p].name < state.next
            /\ tables[p].name < nextIndex /\ tables[p].name # state.next
            /\ files[tables[p].name].disk = tables[p].disk
            /\ \A q \in 1..Len(tables) : tables[p].name = tables[q].name => p = q
    BY <1>4, TablesInUse
  <2>6. \A p \in 1..(Len(tables) + 1) :
            /\ T[p].name \in DOMAIN files /\ T[p].name < nextIndex
            /\ files[T[p].name].disk = T[p].disk
    <3> TAKE p \in 1..(Len(tables) + 1)
    <3>1. CASE p \in 1..Len(tables)
      BY <1>7, <2>5, <3>1
    <3>2. CASE p = Len(tables) + 1
      <4>1. T[p].name = state.next /\ ~T[p].disk /\ T[p].disk \in BOOLEAN
        <5>1. T[p] \in TableSet
          BY <1>7
        <5> QED
          BY <1>7, <3>2, <5>1 DEF TableSet
      <4>2. state.next < nextIndex /\ files[state.next].disk \in BOOLEAN
        BY <1>1, <1>4 DEF FileTypes, FileSet
      <4> QED
        BY <1>4, <4>1, <4>2
    <3> QED
      BY <2>4, <3>1, <3>2
  <2>7. \A p, q \in 1..(Len(tables) + 1) : T[p].name = T[q].name => p = q
    BY <1>7, <2>4, <2>5
  <2>8. \A p, q \in 1..(Len(tables) + 1) : p < q /\ T[q].disk => T[p].disk
    <3> HIDE DEF NDisk
    <3> QED
      BY <1>7, <1>8
  <2>9. HaveFiles(Entries', files, nextIndex)
    BY <2>3, <2>6, <2>7, <2>8 DEF HaveFiles
  <2> QED
    BY <2>1, <2>2, <2>3, <2>9
<1>30. /\ scheduled' \in BOOLEAN /\ cqueue' \in Seq(JobSet) /\ Len(cqueue') <= 1
       /\ ~scheduled' => cqueue' = <<>>
       /\ ~scheduled' => comp = Idle
       /\ comp # Idle => cqueue' = <<>>
       /\ \A p \in DOMAIN cqueue' : ValidIn(T, cqueue'[p])
       /\ comp.pc = "replace" => ValidIn(T, comp.job)
  <2> HIDE DEF NDisk
  <2>1. \A job \in JobSet : ValidIn(tables, job) => ValidIn(T, job)
    <3>1. Len(tables) <= Len(T)
      BY <1>7
    <3> QED
      BY <1>7, <3>1, ValidStays
  <2>2. comp.pc = "replace" => ValidIn(T, comp.job)
    BY <1>1, <2>1, ValidHere, WorkerStates DEF CompactionsAreValid, CompTypes
  <2>3. CASE scheduled \/ ~(Len(T) > CompactAt)
    <3>1. cqueue' = cqueue /\ scheduled' = scheduled
      BY <1>6, <2>3
    <3>2. \A p \in DOMAIN cqueue : ValidIn(T, cqueue[p])
      <4>1. \A p \in DOMAIN cqueue : cqueue[p] \in JobSet /\ ValidIn(tables, cqueue[p])
        BY <1>1, ValidHere DEF CompactionsAreValid, CompTypes
      <4> QED
        BY <2>1, <4>1
    <3> QED
      BY <1>1, <2>2, <3>1, <3>2 DEF CompTypes, OneCompaction
  <2>4. CASE ~scheduled /\ Len(T) > CompactAt
    <3>1. ScheduleCompaction(T) /\ cqueue = <<>> /\ comp = Idle
      BY <1>1, <1>6, <2>4 DEF OneCompaction
    <3>2. /\ scheduled' = TRUE /\ cqueue' \in Seq(JobSet) /\ Len(cqueue') <= 1
          /\ \A p \in DOMAIN cqueue' : ValidIn(T, cqueue'[p])
      BY <1>7, <1>8, <2>4, <3>1, JobScheduled
    <3> QED
      BY <2>2, <3>1, <3>2
  <2> QED
    BY <2>3, <2>4
<1>11. HistTypes'
  BY <1>1, <1>2 DEF HistTypes
<1>12. FileTypes'
  BY <1>1, <1>2 DEF FileTypes
<1>13. TableTypes'
  BY <1>2, <1>4, <1>6, <1>7, <1>9 DEF TableTypes
<1>14. CallerTypes'
  BY <1>1, <1>2, <1>3 DEF CallerTypes
<1>15. SerTypes'
  BY <1>1, <1>2 DEF SerTypes
<1>16. CompTypes'
  BY <1>1, <1>2, <1>30 DEF CompTypes
<1>17. CallerAt'
  <2>1. nextIndex' = state'.next + 0
    BY <1>2, <1>4, <1>9
  <2> QED
    BY <1>2, <1>3, <2>1 DEF CallerAt
<1>18. OneCompaction'
  BY <1>2, <1>3, <1>30 DEF OneCompaction
<1>19. EntriesHaveFiles'
  BY <1>2, <1>9, <1>10 DEF EntriesHaveFiles
<1>20. StateFile'
  <2>1. InState(state') = Entries'
    BY <1>9, <1>10
  <2>2. HaveFiles(InState(state'), files', state'.next)
    BY <1>2, <1>9, <1>10, <2>1
  <2>3. state'.names = [p \in DOMAIN tables' |-> tables'[p].name]
    BY <1>6, <1>9
  <2>4. \A i \in DOMAIN files : i \in Nat /\ i <= state.next
    BY <1>1 DEF FileTypes, StateFile
  <2>5. \A i \in DOMAIN files : i <= state.next + 1 /\ i # state.next + 1
    BY <1>4, <2>4
  <2> QED
    BY <1>2, <1>3, <1>4, <1>9, <2>2, <2>3, <2>5 DEF StateFile
<1>21. WorkersFiles'
  <2>1. Used(Entries', state') \subseteq Used(Entries, state) \cup {state.next}
    <3>1. \A p \in DOMAIN Entries' : Entries'[p].name \in Used(Entries, state) \cup {state.next}
      <4>1. ASSUME NEW p \in 1..Len(tables)
            PROVE  Entries'[p].name \in Used(Entries, state)
        BY <1>7, <1>10, <4>1, TablesInUse
      <4>2. Entries'[Len(tables) + 1].name = state.next
        BY <1>7, <1>10
      <4> QED
        BY <1>7, <1>10, <4>1, <4>2
    <3>2. \A i \in Range(state'.names) : \E p \in DOMAIN Entries' : i = Entries'[p].name
      BY <1>7, <1>9, <1>10 DEF Range
    <3> QED
      BY <3>1, <3>2 DEF Used
  <2>2. state.next \in Nat /\ state'.next = state.next + 1
    BY <1>4, <1>9
  <2>3. \A i \in Nat : i < state.next => i < state'.next /\ i # state.next
    BY <2>2
  <2>4. /\ ser.pc \in {"swap", "remove"} => ser.out \in Nat /\ ser.name \in Nat
        /\ comp.pc \in {"replace", "finish"} =>
               /\ comp.out \in Nat
               /\ \A k \in DOMAIN comp.job.names : comp.job.names[k] \in Nat
    BY <1>1, WorkerStates DEF SerTypes, CompTypes
  <2>5. Apart(Used(Entries, state), state.next)
    BY <1>1 DEF WorkersFiles
  <2>6. \A i \in Nat : i < state.next /\ i \notin Used(Entries, state)
                           => i < state'.next /\ i \notin Used(Entries', state')
    BY <2>1, <2>3
  <2> QED
    BY <1>2, <2>4, <2>5, <2>6 DEF WorkersFiles, Apart
<1>22. LogsQueued'
  <2>1. ~LastIsLog /\ LastIsLog'
    BY <1>3 DEF LastIsLog
  <2>2. Pend \in {0, 1} /\ Pend' = Pend /\ Len(squeue) \in Nat
    BY <1>1, <1>2 DEF SerTypes, Pend
  <2>3. NDisk = Len(tables) - Pend - Len(squeue) - 0
    BY <2>1 DEF NDisk
  <2>4. NDisk' = (Len(tables) + 1) - Pend - Len(squeue) - 1
    BY <1>2, <1>6, <1>7, <2>1, <2>2 DEF NDisk
  <2>5. NDisk' = NDisk
    BY <1>7, <2>2, <2>3, <2>4
  <2>6. /\ Pend = 1 => NDisk + 1 \in 1..Len(tables)
        /\ \A k \in DOMAIN squeue : NDisk + Pend + k \in 1..Len(tables)
    <3>1. DOMAIN squeue = 1..Len(squeue) /\ NDisk \in Nat
      BY <1>1 DEF SerTypes, LogsQueued
    <3> QED
      BY <1>7, <2>2, <2>3, <3>1
  <2> QED
    BY <1>1, <1>2, <1>6, <1>7, <1>8, <2>2, <2>5, <2>6 DEF LogsQueued
<1>23. CompactionsAreValid'
  <2>1. ASSUME NEW job PROVE JobIsValid(job)' <=> ValidIn(T, job)
    BY <1>6 DEF JobIsValid, ValidIn
  <2> QED
    BY <1>2, <1>30, <2>1 DEF CompactionsAreValid
<1>24. TablesFollowFiles'
  <2>1. (synced + 1)..applied = {} /\ synced = applied
    BY <1>1, <1>3 DEF CallerAt, HistTypes
  <2>2. \A p : Unsynced(T, p, synced, applied) = {}
    BY <2>1 DEF Unsynced
  <2>3. \A p \in 1..Len(tables) :
            tables[p].cells = Newest(hist, files[tables[p].name].cells)
    BY <2>1, CellsOfTables
  <2>4. \A p \in 1..(Len(tables) + 1) :
            T[p].cells = Newest(hist, files[T[p].name].cells)
    <3>1. \A p \in 1..(Len(tables) + 1) : p \in 1..Len(tables) \/ p = Len(tables) + 1
      BY <1>7
    <3> QED
      BY <1>7, <2>3, <3>1
  <2>5. \A p \in 1..(Len(tables) + 1) :
            T[p].cells = Newest(hist, files[T[p].name].cells
                                          \cup Unsynced(T, p, synced, applied))
    BY <2>2, <2>4
  <2> QED
    BY <1>2, <1>6, <1>7, <2>5 DEF TablesFollowFiles, Follow
<1>25. FilesAreComplete'
  <2> SUFFICES ASSUME ~torn PROVE Whole(hist, files, Entries', synced)
    BY <1>2 DEF FilesAreComplete
  <2>1. Whole(hist, files, Entries, synced)
    BY <1>1 DEF FilesAreComplete
  <2> DEFINE A == OnFile(hist, files, Entries)
             B == OnFile(hist, files, Entries')
             n == Len(tables)
  <2>2. n \in Nat /\ DOMAIN A = 1..n /\ DOMAIN B = 1..(n + 1)
    BY <1>7, <1>10 DEF OnFile
  <2>3. \A p \in 1..n : B[p].cells = A[p].cells
    <3> TAKE p \in 1..n
    <3>1. p \in DOMAIN Entries /\ p \in DOMAIN Entries' /\ Entries'[p].name = Entries[p].name
      BY <1>7, <1>10
    <3> QED
      BY <3>1 DEF OnFile
  <2>4. B[n + 1].cells = {}
    <3>1. n + 1 \in DOMAIN Entries' /\ Entries'[n + 1].name = state.next
      BY <1>7, <1>10
    <3>2. Newest(hist, files[state.next].cells) = {}
      BY <1>4, NewestSubset
    <3> QED
      BY <3>1, <3>2 DEF OnFile
  <2> HIDE DEF A, B, n
  <2>5. Shown(hist, B) = Shown(hist, A)
    BY <2>2, <2>3, <2>4, MergeEmptyLast
  <2> QED
    BY <2>1, <2>5 DEF Whole, A, B
<1> QED
  BY <1>11, <1>12, <1>13, <1>14, <1>15, <1>16, <1>17, <1>18, <1>19,
     <1>20, <1>21, <1>22, <1>23, <1>24, <1>25 DEF IInv, Types

-----------------------------------------------------------------------------
(* Each action keeps the invariant: calls that write.                      *)

\* The history h goes on from hist.
Continues(h) ==
    /\ h \in Seq(Mutations) /\ Len(hist) <= Len(h) /\ Len(h) <= MaxWrites
    /\ \A i \in 1..Len(hist) : hist[i] = h[i]

\* The writable table is the last one, a log that has its own file.
LEMMA WritableTable ==
    ASSUME IInv, LastIsLog, NEW h, Continues(h)
    PROVE  /\ tables \in Seq(TableSet) /\ Len(tables) \in Nat \ {0}
           /\ Len(tables) \in 1..Len(tables) /\ LastTable.name \in DOMAIN files
           /\ LastTable = tables[Len(tables)]
           /\ LastTable.name < state.next /\ ~LastTable.disk
           /\ \A p \in 1..Len(tables) :
                  p # Len(tables) => tables[p].name # LastTable.name
           /\ LastTable.cells = Newest(h, files[LastTable.name].cells
                                              \cup (synced + 1)..applied)
           /\ files[LastTable.name].cells \in UpTo(Len(h))
           /\ (synced + 1)..applied \in UpTo(Len(h))
           /\ Len(hist) \in Nat /\ Len(h) \in Nat
<1>1. HistTypes /\ FileTypes /\ TableTypes /\ LogsQueued /\ TablesFollowFiles
  BY DEF IInv, Types
<1> DEFINE L == Len(tables)
           C == files[LastTable.name].cells
           M == (synced + 1)..applied
<1>2. L \in Nat \ {0} /\ L \in 1..L /\ NDisk < L /\ NDisk \in Nat
  <2> HIDE DEF NDisk
  <2>1. L \in Nat /\ NDisk < L /\ NDisk \in Nat
    BY DiskTables, TablesInUse
  <2> QED
    BY <2>1
<1>3. LastTable = tables[L]
  BY DEF LastTable
<1> HIDE DEF L
<1>4. /\ LastTable.name \in DOMAIN files /\ LastTable.name < state.next
      /\ \A p \in 1..L : p # L => tables[p].name # LastTable.name
  BY <1>2, <1>3, TablesInUse DEF L
<1>5. ~LastTable.disk
  <2> HIDE DEF NDisk
  <2>1. L \in DOMAIN tables /\ ~(L <= NDisk)
    BY <1>2, TablesInUse DEF L
  <2> QED
    BY <1>1, <1>3, <2>1 DEF LogsQueued
<1>6. Len(hist) \in Nat /\ Len(h) \in Nat
  BY <1>1 DEF HistTypes, Continues
<1>7. /\ \A c \in C : c \in 1..synced /\ c \in 1..Len(hist) /\ c \in 1..Len(h)
      /\ \A c \in M : c \in 1..Len(hist) /\ c \in 1..Len(h)
  <2>1. \A c \in C : c \in 1..synced
    BY <1>1, <1>4 DEF FileTypes
  <2>2. /\ synced \in Nat /\ applied \in Nat /\ synced <= applied
        /\ applied <= Len(hist) /\ Len(hist) <= Len(h)
    BY <1>1 DEF HistTypes, Continues
  <2>3. \A c \in 1..synced : c \in 1..Len(hist) /\ c \in 1..Len(h)
    BY <1>6, <2>2
  <2>4. \A c \in M : c \in 1..Len(hist) /\ c \in 1..Len(h)
    BY <1>6, <2>2
  <2> HIDE DEF C, M
  <2> QED
    BY <2>1, <2>3, <2>4
<1>8. LastTable.cells = Newest(hist, C \cup M)
  <2>1. L \in DOMAIN tables
    BY <1>2, TablesInUse DEF L
  <2>2. Unsynced(tables, L, synced, applied) = M
    BY DEF Unsynced, L
  <2> QED
    BY <1>1, <1>3, <2>1, <2>2 DEF TablesFollowFiles, Follow
<1>9. Newest(hist, C \cup M) = Newest(h, C \cup M)
  <2>1. \A i \in C \cup M : hist[i] = h[i]
    BY <1>7 DEF Continues
  <2> HIDE DEF C, M
  <2> QED
    BY <2>1, NewestSame
<1>10. C \in UpTo(Len(h)) /\ M \in UpTo(Len(h))
  <2> HIDE DEF C, M
  <2> QED
    BY <1>7 DEF UpTo
<1>11. tables \in Seq(TableSet)
  BY <1>1 DEF TableTypes
<1> QED
  BY <1>2, <1>3, <1>4, <1>5, <1>6, <1>8, <1>9, <1>10, <1>11 DEF L

\* The buffer is flushed.
LEMMA FlushedTables ==
    ASSUME IInv, LastIsLog, NEW h, Continues(h)
    PROVE  /\ Flushed(h) \in Seq(TableSet) /\ Len(Flushed(h)) = Len(tables)
           /\ \A p \in 1..Len(tables) : /\ Flushed(h)[p].name = tables[p].name
                                        /\ Flushed(h)[p].disk = tables[p].disk
                                        /\ p # Len(tables) =>
                                               Flushed(h)[p] = tables[p]
           /\ Flushed(h)[Len(tables)].cells =
                  Newest(h, files[LastTable.name].cells \cup (synced + 1)..Len(h))
<1> DEFINE L == Len(tables)
           C == files[LastTable.name].cells
           M == (synced + 1)..applied
           N == (applied + 1)..Len(h)
           new == Newest(h, tables[L].cells \cup N)
<1>1. /\ tables \in Seq(TableSet) /\ L \in Nat \ {0} /\ L \in 1..L
      /\ tables[L].cells = Newest(h, C \cup M) /\ C \in UpTo(Len(h))
      /\ M \in UpTo(Len(h)) /\ Len(h) \in Nat
  BY WritableTable
<1>2. /\ synced \in Nat /\ applied \in Nat /\ synced <= applied
      /\ applied <= Len(h) /\ Len(h) <= MaxWrites
  BY DEF IInv, Types, HistTypes, Continues
<1>3. N \in UpTo(Len(h)) /\ M \cup N = (synced + 1)..Len(h)
  BY <1>1, <1>2 DEF UpTo
<1>4. Flushed(h) = [tables EXCEPT ![L].cells = new]
  BY DEF Flushed
<1>5. new = Newest(h, C \cup (synced + 1)..Len(h))
  <2>1. C \cup M \in UpTo(Len(h))
    BY <1>1 DEF UpTo
  <2> DEFINE S == C \cup M
  <2>2. S \cup N = C \cup (synced + 1)..Len(h)
    BY <1>3
  <2>5. Len(h) \in Nat /\ S \in UpTo(Len(h)) /\ N \in UpTo(Len(h))
    BY <1>1, <1>3, <2>1
  <2> HIDE DEF S, N
  <2>3. Newest(h, Newest(h, S) \cup N) = Newest(h, S \cup N)
    BY <2>5, NewestTwice
  <2>4. tables[L].cells = Newest(h, S)
    BY <1>1 DEF S
  <2> QED
    BY <2>2, <2>3, <2>4
<1>6. new \in SUBSET (1..MaxWrites)
  <2>1. \A c \in 1..Len(h) : c \in 1..MaxWrites
    BY <1>1, <1>2, LocalTableAssumption
  <2>2. \A c \in C : c \in 1..Len(h)
    BY <1>1 DEF UpTo
  <2>3. \A c \in (synced + 1)..Len(h) : c \in 1..Len(h)
    BY <1>1, <1>2
  <2> HIDE DEF C, new
  <2> QED
    BY <1>5, <2>1, <2>2, <2>3, NewestSubset
<1>7. tables[L] \in TableSet
  BY <1>1
<1>8. /\ [tables[L] EXCEPT !.cells = new] \in TableSet
      /\ [tables[L] EXCEPT !.cells = new].name = tables[L].name
      /\ [tables[L] EXCEPT !.cells = new].disk = tables[L].disk
      /\ [tables[L] EXCEPT !.cells = new].cells = new
  <2> HIDE DEF new, L
  <2> QED
    BY <1>6, <1>7 DEF TableSet
<1> DEFINE x == [tables[L] EXCEPT !.cells = new]
<1>9. Flushed(h) = [tables EXCEPT ![L] = x]
  BY <1>1, <1>4
<1>10. x \in TableSet /\ x.name = tables[L].name /\ x.disk = tables[L].disk /\ x.cells = new
  BY <1>8
<1> HIDE DEF x, new, C, M, N
<1>11. /\ Flushed(h) \in Seq(TableSet) /\ Len(Flushed(h)) = L
       /\ Flushed(h)[L] = x /\ \A p \in 1..L : p # L => Flushed(h)[p] = tables[p]
  BY <1>1, <1>9, <1>10
<1>12. ASSUME NEW p \in 1..L
       PROVE  Flushed(h)[p].name = tables[p].name /\ Flushed(h)[p].disk = tables[p].disk
  BY <1>10, <1>11
<1> QED
  BY <1>5, <1>10, <1>11, <1>12 DEF C

\* What the calls that write may do: buffer, flush, or sync.
Writes(h) ==
    /\ hist' = h
    /\ \/ /\ tables' = tables /\ files' = files /\ applied' = applied
          /\ synced' = synced /\ main' = main
       \/ /\ tables' = Flushed(h) /\ files' = files /\ applied' = Len(h)
          /\ synced' = synced /\ main' = main
       \/ SyncWritable(h) /\ main' \in {main, At("push")}
    /\ UNCHANGED <<state, nextIndex, initialized, serVars, compVars, bounds, torn>>

\* The tables, and the file of the last one, afterwards.
LEMMA AfterWriting ==
    ASSUME IInv, main.pc = "idle", NEW h, Continues(h), Writes(h)
    PROVE  /\ applied' \in Nat /\ synced' \in Nat
           /\ synced <= synced' /\ synced' <= applied' /\ applied' <= Len(h)
           /\ synced' = synced \/ synced' = applied'
           /\ main'.pc \in {"idle", "push"} /\ main' \in MainSet /\ main'.todo = main.todo
           /\ main'.pc = "push" => synced' = Len(h)
           /\ tables' \in Seq(TableSet) /\ Len(tables') = Len(tables)
           /\ \A p \in 1..Len(tables) : /\ tables'[p].name = tables[p].name
                                        /\ tables'[p].disk = tables[p].disk
                                        /\ p # Len(tables) => tables'[p] = tables[p]
           /\ tables'[Len(tables)].cells =
                  Newest(h, files[LastTable.name].cells \cup (synced + 1)..applied')
           /\ DOMAIN files' = DOMAIN files
           /\ \A i \in DOMAIN files : /\ i # LastTable.name => files'[i] = files[i]
                                      /\ files'[i].disk = files[i].disk
           /\ files'[LastTable.name].cells =
                  files[LastTable.name].cells \cup (synced + 1)..synced'
           /\ files' \in [DOMAIN files -> FileSet]
<1>1. HistTypes /\ FileTypes /\ CallerTypes
  BY DEF IInv, Types
<1>2. LastIsLog
  BY DEF LastIsLog
<1>3. /\ synced \in Nat /\ applied \in Nat /\ Len(h) \in Nat /\ synced <= applied
      /\ applied <= Len(h)
  BY <1>1, <1>2, WritableTable DEF HistTypes, Continues
<1>4. /\ tables \in Seq(TableSet)
      /\ tables[Len(tables)].cells =
             Newest(h, files[LastTable.name].cells \cup (synced + 1)..applied)
      /\ LastTable.name \in DOMAIN files
  BY <1>2, WritableTable
<1>5. /\ files \in [DOMAIN files -> FileSet] /\ (synced + 1)..synced = {}
  BY <1>1, <1>3 DEF FileTypes
<1>6. main \in MainSet /\ main.pc = "idle"
  BY <1>1 DEF CallerTypes
<1>7. CASE /\ tables' = tables /\ files' = files /\ applied' = applied
           /\ synced' = synced /\ main' = main
  <2>1. files'[LastTable.name].cells =
            files[LastTable.name].cells \cup (synced + 1)..synced'
    BY <1>5, <1>7
  <2>2. synced <= synced' /\ synced' <= applied' /\ applied' <= Len(h)
    BY <1>3, <1>7
  <2> QED
    BY <1>3, <1>4, <1>5, <1>6, <1>7, <2>1, <2>2
<1>8. CASE /\ tables' = Flushed(h) /\ files' = files /\ applied' = Len(h)
           /\ synced' = synced /\ main' = main
  <2>1. files'[LastTable.name].cells =
            files[LastTable.name].cells \cup (synced + 1)..synced'
    BY <1>5, <1>8
  <2>2. synced <= synced' /\ synced' <= applied' /\ applied' <= Len(h)
    BY <1>3, <1>8
  <2>3. /\ tables' \in Seq(TableSet) /\ Len(tables') = Len(tables)
        /\ \A p \in 1..Len(tables) : /\ tables'[p].name = tables[p].name
                                     /\ tables'[p].disk = tables[p].disk
                                     /\ p # Len(tables) => tables'[p] = tables[p]
        /\ tables'[Len(tables)].cells =
               Newest(h, files[LastTable.name].cells \cup (synced + 1)..applied')
    BY <1>2, <1>8, FlushedTables
  <2> QED
    BY <1>3, <1>5, <1>6, <1>8, <2>1, <2>2, <2>3
<1>9. CASE SyncWritable(h) /\ main' \in {main, At("push")}
  <2> DEFINE n == LastTable.name
             new == files[n].cells \cup (synced + 1)..Len(h)
  <2>1. /\ applied' = Len(h) /\ synced' = Len(h) /\ tables' = Flushed(h)
        /\ files' = [files EXCEPT ![n].cells = new]
    BY <1>9 DEF SyncWritable, Durable
  <2>2. synced <= synced' /\ synced' <= applied' /\ applied' <= Len(h)
    BY <1>3, <2>1
  <2>3. /\ tables' \in Seq(TableSet) /\ Len(tables') = Len(tables)
        /\ \A p \in 1..Len(tables) : /\ tables'[p].name = tables[p].name
                                     /\ tables'[p].disk = tables[p].disk
                                     /\ p # Len(tables) => tables'[p] = tables[p]
        /\ tables'[Len(tables)].cells =
               Newest(h, files[n].cells \cup (synced + 1)..applied')
    BY <1>2, <2>1, FlushedTables
  <2>4. /\ main' \in MainSet /\ main'.pc \in {"idle", "push"} /\ main'.todo = main.todo
    <3>1. At("push") \in MainSet /\ At("push").pc = "push" /\ At("push").todo = main.todo
      BY <1>1, CallerMoves DEF MainPc
    <3> QED
      BY <1>6, <1>9, <3>1
  <2>5. /\ DOMAIN files' = DOMAIN files
        /\ \A i \in DOMAIN files : i # n => files'[i] = files[i]
        /\ files'[n] = [files[n] EXCEPT !.cells = new]
        /\ files' = [i \in DOMAIN files |-> files'[i]]
    <3> HIDE DEF n, new
    <3> QED
      BY <1>4, <1>5, <2>1 DEF n
  <2>6. /\ new \in SUBSET Nat /\ files[n] \in FileSet
    <3>1. files[n].cells \in SUBSET Nat /\ files[n] \in FileSet
      BY <1>4, <1>5 DEF FileSet
    <3>2. (synced + 1)..Len(h) \in SUBSET Nat
      BY <1>3
    <3> QED
      BY <3>1, <3>2
  <2> HIDE DEF n, new
  <2>7. /\ [files[n] EXCEPT !.cells = new] \in FileSet
        /\ [files[n] EXCEPT !.cells = new].disk = files[n].disk
        /\ [files[n] EXCEPT !.cells = new].cells = new
    BY <2>6 DEF FileSet
  <2>8. /\ files'[n] \in FileSet /\ files'[n].disk = files[n].disk
        /\ files'[n].cells = new
    BY <2>5, <2>7
  <2>9. files' \in [DOMAIN files -> FileSet]
    <3>1. \A i \in DOMAIN files : files'[i] \in FileSet
      BY <1>5, <2>5, <2>8
    <3> QED
      BY <2>5, <3>1
  <2>10. \A i \in DOMAIN files : files'[i].disk = files[i].disk
    BY <2>5, <2>8
  <2>11. files'[n].cells = files[n].cells \cup (synced + 1)..synced'
    BY <2>1, <2>8 DEF new
  <2> QED
    BY <1>3, <2>1, <2>2, <2>3, <2>4, <2>5, <2>9, <2>10, <2>11 DEF n
<1> QED
  BY <1>7, <1>8, <1>9 DEF Writes

\* The calls that write keep the invariant.
LEMMA WrittenKept == ASSUME IInv, main.pc = "idle", NEW h, Continues(h), Writes(h) PROVE IInv'
<1>1. /\ Types /\ HistTypes /\ FileTypes /\ TableTypes /\ CallerTypes
      /\ SerTypes /\ CompTypes /\ CallerAt /\ OneCompaction
      /\ EntriesHaveFiles /\ StateFile /\ WorkersFiles /\ LogsQueued
      /\ CompactionsAreValid /\ TablesFollowFiles /\ FilesAreComplete
  BY DEF IInv, Types
<1>2. /\ state' = state /\ nextIndex' = nextIndex /\ initialized' = initialized
      /\ squeue' = squeue /\ ser' = ser /\ cqueue' = cqueue
      /\ comp' = comp /\ scheduled' = scheduled /\ fullRequested' = fullRequested
      /\ requests' = requests /\ stops' = stops /\ torn' = torn
  BY DEF Writes, callVars, diskVars, serVars, compVars, bounds
<1>3. hist' = h
  BY DEF Writes
<1>4. /\ applied' \in Nat /\ synced' \in Nat
      /\ synced <= synced' /\ synced' <= applied' /\ applied' <= Len(h)
      /\ main'.pc \in {"idle", "push"} /\ main' \in MainSet /\ main'.todo = main.todo
      /\ main'.pc = "push" => synced' = Len(h)
      /\ tables' \in Seq(TableSet) /\ Len(tables') = Len(tables)
      /\ \A p \in 1..Len(tables) : /\ tables'[p].name = tables[p].name
                                   /\ tables'[p].disk = tables[p].disk
                                   /\ p # Len(tables) => tables'[p] = tables[p]
      /\ tables'[Len(tables)].cells =
             Newest(h, files[LastTable.name].cells \cup (synced + 1)..applied')
      /\ DOMAIN files' = DOMAIN files
      /\ \A i \in DOMAIN files : /\ i # LastTable.name => files'[i] = files[i]
                                 /\ files'[i].disk = files[i].disk
      /\ files'[LastTable.name].cells =
             files[LastTable.name].cells \cup (synced + 1)..synced'
      /\ files' \in [DOMAIN files -> FileSet]
  BY AfterWriting
<1>6. /\ tables \in Seq(TableSet) /\ Len(tables) \in Nat \ {0}
      /\ Len(tables) \in 1..Len(tables) /\ LastTable.name \in DOMAIN files
      /\ LastTable = tables[Len(tables)] /\ LastTable.name < state.next
      /\ \A p \in 1..Len(tables) : p # Len(tables) => tables[p].name # LastTable.name
  <2>1. LastIsLog
    BY DEF LastIsLog
  <2> QED
    BY <2>1, WritableTable
<1>7. Entries = Listed(tables, <<>>) /\ Entries' = Listed(tables', <<>>)
  <2>1. main.todo = <<>>
    BY <1>1 DEF CallerAt
  <2> QED
    BY <1>4, <2>1 DEF Entries
<1>5. Entries' = Entries
  <2>1. <<>> \in Seq(EntrySet)
    OBVIOUS
  <2>2. /\ tables \in Seq(TableSet) /\ tables' \in Seq(TableSet)
        /\ Len(tables) = Len(tables')
        /\ \A p \in 1..Len(tables) : /\ tables[p].name = tables'[p].name
                                     /\ tables[p].disk = tables'[p].disk
    BY <1>4, <1>6
  <2>3. Listed(tables, <<>>) = Listed(tables', <<>>)
    BY <2>1, <2>2, ListedSame
  <2> QED
    BY <1>7, <2>3
<1>11. HistTypes'
  BY <1>3, <1>4 DEF HistTypes, Continues
<1>12. FileTypes'
  <2>1. DOMAIN files' \subseteq Nat /\ files' \in [DOMAIN files' -> FileSet]
    BY <1>1, <1>4 DEF FileTypes
  <2>2. \A c \in 1..synced : c \in 1..synced'
    BY <1>1, <1>4 DEF HistTypes
  <2>3. \A i \in DOMAIN files : i # LastTable.name =>
            \A c \in files'[i].cells : c \in 1..synced'
    BY <1>1, <1>4, <2>2 DEF FileTypes
  <2>4. \A c \in files'[LastTable.name].cells : c \in 1..synced'
    <3>1. \A c \in files[LastTable.name].cells : c \in 1..synced
      BY <1>1, <1>6 DEF FileTypes
    <3>2. \A c \in (synced + 1)..synced' : c \in 1..synced'
      BY <1>1, <1>4 DEF HistTypes
    <3> QED
      BY <1>4, <2>2, <3>1, <3>2
  <2> QED
    BY <1>4, <2>1, <2>3, <2>4 DEF FileTypes
<1>13. TableTypes'
  BY <1>1, <1>2, <1>4 DEF TableTypes
<1>14. CallerTypes'
  BY <1>1, <1>2, <1>4 DEF CallerTypes
<1>15. SerTypes'
  BY <1>1, <1>2 DEF SerTypes
<1>16. CompTypes'
  BY <1>1, <1>2 DEF CompTypes
<1>17. CallerAt'
  <2>1. main.todo = <<>> /\ nextIndex = state.next + 0 /\ initialized
    BY <1>1 DEF CallerAt
  <2>2. nextIndex' = state'.next + 0 /\ main'.todo = <<>> /\ initialized'
    BY <1>2, <1>4, <2>1
  <2> QED
    BY <1>3, <1>4, <2>2 DEF CallerAt
<1>18. OneCompaction'
  BY <1>1, <1>2 DEF OneCompaction
<1>19. EntriesHaveFiles'
  <2>1. \A p \in DOMAIN Entries : /\ Entries[p].name \in DOMAIN files'
                                 /\ files'[Entries[p].name].disk = files[Entries[p].name].disk
    BY <1>1, <1>4 DEF EntriesHaveFiles, HaveFiles
  <2> QED
    BY <1>1, <1>2, <1>5, <2>1, EntriesInUse, TablesInUse, FilesChange DEF EntriesHaveFiles
<1>20. StateFile'
  <2>1. HaveFiles(InState(state), files, state.next) /\ state.next \in Nat
    BY <1>1, TablesInUse DEF StateFile
  <2>2. \A p \in DOMAIN InState(state) :
            /\ InState(state)[p].name \in DOMAIN files'
            /\ files'[InState(state)[p].name].disk = files[InState(state)[p].name].disk
    BY <1>4, <2>1 DEF HaveFiles
  <2>3. HaveFiles(InState(state), files', state.next)
    BY <2>1, <2>2, EntriesInUse, FilesChange
  <2>4. [p \in DOMAIN tables' |-> tables'[p].name] = [p \in DOMAIN tables |-> tables[p].name]
    <3>1. DOMAIN tables' = DOMAIN tables /\ DOMAIN tables = 1..Len(tables)
      BY <1>4, TablesInUse
    <3> QED
      BY <1>4, <3>1
  <2>5. state.next \in DOMAIN files => files'[state.next] = files[state.next]
    BY <1>4, <1>6, <2>1
  <2> QED
    BY <1>1, <1>2, <1>4, <2>3, <2>4, <2>5 DEF StateFile
<1>21. WorkersFiles'
  BY <1>1, <1>2, <1>5 DEF WorkersFiles, Apart
<1>22. LogsQueued'
  <2>1. LastIsLog /\ LastIsLog'
    BY <1>4 DEF LastIsLog
  <2>2. Pend' = Pend /\ NDisk' = NDisk
    BY <1>2, <1>4, <2>1 DEF Pend, NDisk
  <2>3. DOMAIN tables' = DOMAIN tables /\ DOMAIN tables = 1..Len(tables)
    BY <1>4, TablesInUse
  <2>4. /\ Pend = 1 => NDisk + 1 \in 1..Len(tables)
        /\ \A k \in DOMAIN squeue : NDisk + Pend + k \in 1..Len(tables)
    <3>1. /\ DOMAIN squeue = 1..Len(squeue) /\ NDisk \in Nat /\ Len(squeue) \in Nat
          /\ Pend \in {0, 1} /\ Len(tables) \in Nat
      BY <1>1, TablesInUse DEF SerTypes, LogsQueued, Pend
    <3>2. NDisk = Len(tables) - Pend - Len(squeue) - 1
      BY <2>1 DEF NDisk
    <3> QED
      BY <3>1, <3>2
  <2> QED
    <3>1. NDisk' \in Nat /\ \A p \in DOMAIN tables' : tables'[p].disk <=> p <= NDisk'
      BY <1>1, <1>4, <2>2, <2>3 DEF LogsQueued
    <3>2. Pend' = 1 => tables'[NDisk' + 1].name = ser'.name
      <4> HIDE DEF NDisk, Pend
      <4> QED
        BY <1>1, <1>2, <1>4, <2>2, <2>4 DEF LogsQueued
    <3>3. ASSUME NEW k \in DOMAIN squeue'
          PROVE  tables'[NDisk' + Pend' + k].name = squeue'[k]
      <4> HIDE DEF NDisk, Pend
      <4>1. k \in DOMAIN squeue /\ squeue'[k] = squeue[k]
        BY <1>2
      <4>2. /\ NDisk + Pend + k \in 1..Len(tables)
            /\ tables[NDisk + Pend + k].name = squeue[k]
        BY <1>1, <2>4, <4>1 DEF LogsQueued
      <4> QED
        BY <1>4, <2>2, <4>1, <4>2
    <3> QED
      BY <3>1, <3>2, <3>3 DEF LogsQueued
<1>23. CompactionsAreValid'
  <2>1. ASSUME NEW job PROVE JobIsValid(job)' <=> ValidIn(tables', job)
    BY <1>2 DEF JobIsValid, ValidIn
  <2>2. \A job \in JobSet : ValidIn(tables, job) => ValidIn(tables', job)
    <3>1. Len(tables) <= Len(tables') /\ tables \in Seq(TableSet)
      BY <1>1, <1>4, TablesInUse DEF TableTypes
    <3> QED
      BY <1>4, <3>1, ValidStays
  <2>3. /\ \A p \in DOMAIN cqueue : cqueue[p] \in JobSet /\ ValidIn(tables, cqueue[p])
        /\ comp.pc = "replace" => comp.job \in JobSet /\ ValidIn(tables, comp.job)
    BY <1>1, ValidHere, WorkerStates DEF CompactionsAreValid, CompTypes
  <2> QED
    BY <1>2, <2>1, <2>2, <2>3 DEF CompactionsAreValid
<1>24. TablesFollowFiles'
  <2>1. ASSUME NEW p \in 1..Len(tables), p # Len(tables)
        PROVE  tables'[p].cells = Newest(h, files'[tables'[p].name].cells
                                    \cup Unsynced(tables', p, synced', applied'))
    <3> DEFINE S == files[tables[p].name].cells
    <3>1. tables[p].cells = Newest(hist, S)
      BY <2>1, CellsOfTables
    <3>2. \A i \in S : hist[i] = h[i]
      <4>1. \A i \in S : i \in 1..synced
        BY <1>1, TablesInUse DEF FileTypes
      <4>2. \A i \in 1..synced : i \in 1..Len(hist)
        BY <1>1 DEF HistTypes
      <4> HIDE DEF S
      <4> QED
        BY <4>1, <4>2 DEF Continues
    <3>3. Unsynced(tables', p, synced', applied') = {}
      BY <1>4, <2>1 DEF Unsynced
    <3>4. files'[tables'[p].name].cells = S
      BY <1>4, <1>6, <2>1, TablesInUse
    <3>5. tables'[p].cells = tables[p].cells
      BY <1>4, <2>1
    <3> HIDE DEF S
    <3>6. Newest(hist, S) = Newest(h, S)
      BY <3>2, NewestSame
    <3>7. S \cup {} = S
      OBVIOUS
    <3> QED
      BY <3>1, <3>3, <3>4, <3>5, <3>6, <3>7
  <2>2. tables'[Len(tables)].cells =
            Newest(h, files'[tables'[Len(tables)].name].cells
                      \cup Unsynced(tables', Len(tables), synced', applied'))
    <3> DEFINE S == files[LastTable.name].cells
    <3>1. tables'[Len(tables)].name = LastTable.name
      BY <1>4, <1>6
    <3>2. Unsynced(tables', Len(tables), synced', applied') = (synced' + 1)..applied'
      BY <1>4 DEF Unsynced
    <3>3. (S \cup (synced + 1)..synced') \cup (synced' + 1)..applied'
              = S \cup (synced + 1)..applied'
      <4>1. (synced + 1)..synced' \cup (synced' + 1)..applied' = (synced + 1)..applied'
        BY <1>1, <1>4 DEF HistTypes
      <4> QED
        BY <4>1
    <3> QED
      BY <1>4, <3>1, <3>2, <3>3
  <2>3. DOMAIN tables' = 1..Len(tables)
    BY <1>4, TablesInUse
  <2> QED
    BY <1>3, <2>1, <2>2, <2>3 DEF TablesFollowFiles, Follow
<1>25. FilesAreComplete'
  <2> SUFFICES ASSUME ~torn PROVE Whole(h, files', Entries, synced')
    BY <1>2, <1>3, <1>5 DEF FilesAreComplete
  <2>1. /\ DOMAIN Entries = 1..Len(tables)
        /\ \A p \in 1..Len(tables) : Entries[p].name = tables[p].name
    BY <1>6, <1>7, ListedTables
  <2>2. \A p \in DOMAIN Entries : \A c \in files[Entries[p].name].cells : c \in 1..synced
    BY <1>1, <2>1, TablesInUse DEF FileTypes
  <2>3. synced \in Nat /\ synced' \in Nat /\ synced <= synced' /\ \A i \in 1..synced : hist[i] = h[i]
    BY <1>1, <1>4 DEF HistTypes, Continues
  <2>4. Whole(h, files, Entries, synced)
    <3>1. Whole(hist, files, Entries, synced)
      BY <1>1 DEF FilesAreComplete
    <3> QED
      BY <2>2, <2>3, <3>1, WholeLonger
  <2> DEFINE n == Len(tables)
  <2>5. n \in Nat \ {0} /\ DOMAIN Entries = 1..n
    BY <1>6, <2>1
  <2>6. \A p \in 1..(n - 1) : files'[Entries[p].name].cells = files[Entries[p].name].cells
    <3> TAKE p \in 1..(n - 1)
    <3>1. p \in 1..n /\ p # n
      BY <2>5
    <3>2. tables[p].name # LastTable.name /\ tables[p].name \in DOMAIN files
      BY <1>6, <3>1, TablesInUse
    <3> QED
      BY <1>4, <2>1, <3>1, <3>2
  <2>7. files'[Entries[n].name].cells = files[Entries[n].name].cells \cup (synced + 1)..synced'
    <3>1. Entries[n].name = LastTable.name
      BY <1>6, <2>1
    <3> QED
      BY <1>4, <3>1
  <2> HIDE DEF n
  <2>8. \A p \in 1..n : \A c \in files[Entries[p].name].cells : c \in 1..synced
    BY <2>2, <2>5
  <2> QED
    BY <2>3, <2>4, <2>5, <2>6, <2>7, <2>8, WholeSynced
<1> QED
  BY <1>11, <1>12, <1>13, <1>14, <1>15, <1>16, <1>17, <1>18, <1>19,
     <1>20, <1>21, <1>22, <1>23, <1>24, <1>25 DEF IInv, Types

\* set() and erase() keep the invariant.
LEMMA WriteKept == ASSUME IInv, NEW m \in Mutation, Write(m) PROVE IInv'
<1> DEFINE h == Append(hist, m)
           full == Len(h) - applied >= BufferSize
           T == IF full THEN Flushed(h) ELSE tables
<1>1. HistTypes
  BY DEF IInv, Types
<1>2. main.pc = "idle" /\ Len(hist) < MaxWrites
  BY DEF Write
<1>3. Continues(h)
  <2>1. hist \in Seq(Mutations) /\ m \in Mutations
    BY <1>1 DEF HistTypes, Mutations
  <2>2. /\ h \in Seq(Mutations) /\ Len(h) = Len(hist) + 1 /\ Len(hist) \in Nat
        /\ \A i \in 1..Len(hist) : h[i] = hist[i]
    BY <2>1
  <2> HIDE DEF h
  <2>3. Len(hist) <= Len(h) /\ Len(h) <= MaxWrites
    BY <1>2, <2>2, LocalTableAssumption
  <2> QED
    BY <2>2, <2>3 DEF Continues
<1>4. Writes(h)
  <2>1. /\ hist' = h
        /\ UNCHANGED <<state, nextIndex, initialized, serVars, compVars, bounds, torn>>
    BY DEF Write
  <2>2. CASE Cardinality(T[Len(T)].cells) >= MemLimit
    <3>1. SyncWritable(h) /\ main' = At("push")
      BY <2>2 DEF Write, StartNewWritableTable
    <3> QED
      BY <2>1, <3>1 DEF Writes
  <2>3. CASE ~(Cardinality(T[Len(T)].cells) >= MemLimit)
    <3>1. /\ applied' = IF full THEN Len(h) ELSE applied
          /\ tables' = T /\ UNCHANGED <<synced, files, main>>
      BY <2>3 DEF Write
    <3> HIDE DEF h
    <3> QED
      BY <2>1, <3>1 DEF Writes
  <2> QED
    BY <2>2, <2>3
<1> HIDE DEF h
<1> QED
  BY <1>2, <1>3, <1>4, WrittenKept

\* The history as it is.
LEMMA HistContinues == ASSUME IInv PROVE Continues(hist)
BY DEF IInv, Types, HistTypes, Continues

\* sync() keeps the invariant.
LEMMA SyncKept == ASSUME IInv, Sync PROVE IInv'
<1>1. main.pc = "idle" /\ Continues(hist)
  BY HistContinues DEF Sync
<1>2. Writes(hist)
  BY DEF Sync, Writes
<1> QED
  BY <1>1, <1>2, WrittenKept

\* flushMemory() keeps the invariant.
LEMMA FlushMemoryKept == ASSUME IInv, FlushMemory PROVE IInv'
<1>1. main.pc = "idle" /\ Continues(hist)
  BY HistContinues DEF FlushMemory
<1>2. Writes(hist)
  BY DEF FlushMemory, StartNewWritableTable, Writes
<1> QED
  BY <1>1, <1>2, WrittenKept

-----------------------------------------------------------------------------
(* Each action keeps the invariant: a new disk table takes the place of     *)
(* others.                                                                 *)

\* The tables that are yet to load.
LEMMA TodoInUse ==
    ASSUME IInv, main.pc # "down"
    PROVE  /\ main.todo \in Seq(EntrySet) /\ Len(main.todo) \in Nat
           /\ \A k \in 1..Len(main.todo) :
                  /\ main.todo[k] \in EntrySet
                  /\ main.todo[k].name \in DOMAIN files
                  /\ main.todo[k].name < state.next
                  /\ files[main.todo[k].name].disk = main.todo[k].disk
                  /\ main.todo[k].name \in Used(Entries, state)
                  /\ \A p \in 1..Len(tables) :
                         /\ tables[p].name # main.todo[k].name
                         /\ main.todo[k].disk => tables[p].disk
           /\ \A k, j \in 1..Len(main.todo) :
                  /\ main.todo[k].name = main.todo[j].name => k = j
                  /\ k < j /\ main.todo[j].disk => main.todo[k].disk
           /\ main.pc \notin {"load", "loadpush"} => Len(main.todo) = 0
<1>1. main \in MainSet /\ tables \in Seq(TableSet) /\ CallerAt
  BY DEF IInv, Types, CallerTypes, TableTypes
<1> DEFINE todo == main.todo
           n == Len(tables)
<1>2. todo \in Seq(EntrySet) /\ Len(todo) \in Nat /\ n \in Nat
  BY <1>1 DEF MainSet
<1>3. Entries = Listed(tables, todo)
  BY DEF Entries
<1>4. HaveFiles(Entries, files, state.next)
  BY DEF IInv, EntriesHaveFiles
<1>5. /\ DOMAIN Entries = 1..(n + Len(todo))
      /\ \A p \in 1..n : p \in DOMAIN Entries /\ Entries[p].name = tables[p].name
                         /\ Entries[p].disk = tables[p].disk
      /\ \A p \in 1..(n + Len(todo)) : p > n => Entries[p] = todo[p - n]
      /\ \A p \in 1..(n + Len(todo)) : Entries[p] \in EntrySet
  BY <1>1, <1>2, <1>3, ListedShape
<1> HIDE DEF todo, n
<1>6. \A k \in 1..Len(todo) : /\ n + k \in 1..(n + Len(todo)) /\ n + k > n
                              /\ (n + k) - n = k /\ n + k \in DOMAIN Entries
                              /\ \A p \in 1..n : p < n + k /\ p # n + k
  BY <1>2, <1>5
<1>7. \A k \in 1..Len(todo) : Entries[n + k] = todo[k]
  <2> TAKE k \in 1..Len(todo)
  <2>1. Entries[n + k] = todo[(n + k) - n]
    BY <1>5, <1>6
  <2> QED
    BY <1>6, <2>1
<1>8. ASSUME NEW k \in 1..Len(todo)
      PROVE  /\ todo[k] \in EntrySet /\ todo[k].name \in DOMAIN files
             /\ todo[k].name < state.next
             /\ files[todo[k].name].disk = todo[k].disk
             /\ todo[k].name \in Used(Entries, state)
             /\ \A p \in 1..n : /\ tables[p].name # todo[k].name
                                /\ todo[k].disk => tables[p].disk
  <2>1. n + k \in DOMAIN Entries /\ Entries[n + k] = todo[k]
    BY <1>6, <1>7
  <2>2. todo[k] \in EntrySet
    BY <1>5, <1>6, <2>1
  <2>3. \A p \in 1..n : tables[p].name # todo[k].name /\ (todo[k].disk => tables[p].disk)
    BY <1>4, <1>5, <1>6, <2>1 DEF HaveFiles
  <2> QED
    BY <1>4, <2>1, <2>2, <2>3 DEF HaveFiles, Used
<1>9. ASSUME NEW k \in 1..Len(todo), NEW j \in 1..Len(todo)
      PROVE  /\ todo[k].name = todo[j].name => k = j
             /\ k < j /\ todo[j].disk => todo[k].disk
  <2>1. /\ n + k \in DOMAIN Entries /\ Entries[n + k] = todo[k]
        /\ n + j \in DOMAIN Entries /\ Entries[n + j] = todo[j]
    BY <1>6, <1>7
  <2>2. (n + k = n + j => k = j) /\ (k < j => n + k < n + j)
    BY <1>2
  <2> QED
    BY <1>4, <2>1, <2>2 DEF HaveFiles
<1>10. main.pc \notin {"load", "loadpush"} => Len(todo) = 0
  BY <1>1 DEF CallerAt, todo
<1> QED
  BY <1>2, <1>8, <1>9, <1>10 DEF todo, n

\* In the list T, of which the first d are disk tables, each is one that there
\* was, or a disk table in the new file `out' with the cells C.
Replaces(T, d, out, C) ==
    /\ T \in Seq(TableSet) /\ d \in Nat /\ d <= Len(T)
    /\ \A p \in DOMAIN T : T[p].disk <=> p <= d
    /\ \A p, q \in 1..Len(T) : T[p].name = T[q].name => p = q
    /\ \A p \in 1..Len(T) :
           \/ T[p].name = out /\ T[p].disk
           \/ \E q \in 1..Len(tables) : /\ T[p].name = tables[q].name
                                        /\ T[p].disk = tables[q].disk
    /\ out \in Nat /\ out < state.next /\ out \notin Used(Entries, state)
    /\ C \subseteq Nat /\ \A c \in C : c \in 1..synced
NamesIn(T, todo) ==
    {T[p].name : p \in 1..Len(T)} \cup {todo[k].name : k \in 1..Len(todo)}

\* The new list has its files, and so has the state that is written.
LEMMA FileReplaced ==
    ASSUME IInv, NEW T, NEW d, NEW out, NEW C, Replaces(T, d, out, C),
           main.pc \in {"load", "loadpush", "idle", "awake", "blocked", "join"},
           tables' = T, files' = WithFile(out, C), WriteConfig(T, nextIndex),
           nextIndex' = nextIndex, main' = main, initialized' = initialized,
           hist' = hist, synced' = synced
    PROVE  /\ FileTypes' /\ TableTypes' /\ CallerAt' /\ EntriesHaveFiles'
           /\ StateFile' /\ Entries' = Listed(T, main.todo)
           /\ state'.next = state.next
           /\ Used(Entries', state') \subseteq NamesIn(T, main.todo)
           /\ files'[out].cells = C
           /\ \A i \in Used(Entries, state) : files'[i] = files[i]
<1>1. /\ FileTypes /\ TableTypes /\ CallerTypes /\ CallerAt /\ StateFile
      /\ EntriesHaveFiles
  BY DEF IInv, Types
<1>2. main.pc # "down" /\ main.pc # "publish"
  OBVIOUS
<1> DEFINE todo == main.todo
           n == Len(T)
           x == [disk |-> TRUE, cells |-> C]
<1>3. /\ T \in Seq(TableSet) /\ d \in Nat /\ d <= Len(T)
      /\ \A p \in DOMAIN T : T[p].disk <=> p <= d
      /\ out \in Nat /\ out < state.next /\ out \notin Used(Entries, state)
      /\ C \in SUBSET Nat /\ \A c \in C : c \in 1..synced
  BY DEF Replaces
<1>4. /\ state.next \in Nat /\ nextIndex = state.next /\ nextIndex \in Nat
  <2>1. state.next \in Nat
    BY TablesInUse
  <2>2. nextIndex = state.next + 0
    BY <1>1, <1>2 DEF CallerAt
  <2> QED
    BY <2>1, <2>2
<1>5. /\ files' = [i \in DOMAIN files \cup {out} |-> IF i = out THEN x ELSE files[i]]
      /\ DOMAIN files \subseteq Nat /\ files \in [DOMAIN files -> FileSet]
  BY <1>1 DEF WithFile, FileTypes
<1>6. /\ DOMAIN files' = DOMAIN files \cup {out} /\ files'[out] = x
      /\ \A i \in DOMAIN files : i # out => files'[i] = files[i]
      /\ x \in FileSet /\ x.disk = TRUE /\ x.cells = C
  <2>1. x \in FileSet /\ x.disk = TRUE /\ x.cells = C
    BY <1>3 DEF FileSet
  <2> HIDE DEF x
  <2> QED
    BY <1>5, <2>1
<1> HIDE DEF x
<1>7. FileTypes'
  <2>1. files' \in [DOMAIN files' -> FileSet]
    <3>1. \A i \in DOMAIN files' : files'[i] \in FileSet
      BY <1>5, <1>6
    <3> QED
      BY <1>5, <1>6, <3>1
  <2>2. \A i \in DOMAIN files' : \A c \in files'[i].cells : c \in 1..synced
    BY <1>1, <1>3, <1>6 DEF FileTypes
  <2> QED
    BY <1>3, <1>5, <1>6, <2>1, <2>2 DEF FileTypes
<1>8. \A i \in Used(Entries, state) : /\ i \in DOMAIN files' /\ files'[i] = files[i]
                                      /\ i # out
  BY <1>3, <1>6, EntriesInUse
<1>9. /\ state' \in StateSet /\ state'.next = nextIndex
      /\ state'.names = [p \in DOMAIN T |-> T[p].name]
      /\ InState(state') = Listed(T, <<>>)
  BY <1>3, <1>4, ConfigWritten
<1>10. TableTypes'
  BY <1>3, <1>4, <1>9 DEF TableTypes
<1>11. CallerAt'
  <2>1. /\ main.pc \in {"load", "loadpush"} => ~initialized
        /\ main.pc \in {"idle", "awake", "blocked", "join"} => initialized
        /\ main.pc \notin {"load", "loadpush"} => main.todo = <<>>
        /\ main.pc \notin {"idle", "awake", "blocked", "join"} => synced = Len(hist)
    BY <1>1 DEF CallerAt
  <2>2. nextIndex' = state'.next + 0
    BY <1>4, <1>9
  <2> QED
    BY <1>2, <2>1, <2>2 DEF CallerAt
<1>12. Entries' = Listed(T, todo)
  BY <1>2 DEF Entries
<1>13. /\ todo \in Seq(EntrySet) /\ Len(todo) \in Nat
       /\ \A k \in 1..Len(todo) :
              /\ todo[k].name \in DOMAIN files' /\ todo[k].name < state.next
              /\ files'[todo[k].name].disk = todo[k].disk /\ todo[k].name # out
              /\ \A p \in 1..Len(tables) : /\ tables[p].name # todo[k].name
                                           /\ todo[k].disk => tables[p].disk
       /\ \A k, j \in 1..Len(todo) :
              /\ todo[k].name = todo[j].name => k = j
              /\ k < j /\ todo[j].disk => todo[k].disk
  BY <1>2, <1>8, TodoInUse
<1>14. n \in Nat /\ DOMAIN T = 1..n /\ \A p \in 1..n : T[p].name \in Nat /\ T[p].disk \in BOOLEAN
  <2>1. n \in Nat /\ DOMAIN T = 1..n /\ \A p \in 1..n : T[p] \in TableSet
    BY <1>3
  <2> QED
    BY <2>1 DEF TableSet
<1> DEFINE E == Listed(T, todo)
<1>15. /\ DOMAIN E = 1..(n + Len(todo))
       /\ \A p \in 1..n : E[p].name = T[p].name /\ E[p].disk = T[p].disk
       /\ \A p \in 1..(n + Len(todo)) :
              p > n => p - n \in 1..Len(todo) /\ E[p] = todo[p - n]
  <2>1. /\ T \in Seq(TableSet) /\ todo \in Seq(EntrySet) /\ Len(T) = n
    BY <1>3, <1>13
  <2>2. DOMAIN E = 1..(Len(T) + Len(todo))
    BY <2>1, ListedShape
  <2>3. \A p \in 1..Len(T) : E[p].name = T[p].name /\ E[p].disk = T[p].disk
    BY <2>1, ListedShape
  <2>4. \A p \in 1..(Len(T) + Len(todo)) :
            p > Len(T) => p - Len(T) \in 1..Len(todo) /\ E[p] = todo[p - Len(T)]
    BY <2>1, ListedShape
  <2> HIDE DEF n, E
  <2> QED
    BY <2>1, <2>2, <2>3, <2>4
<1> HIDE DEF todo, n, E
<1>16. \A p \in 1..n : /\ T[p].name \in DOMAIN files' /\ T[p].name < state.next
                       /\ files'[T[p].name].disk = T[p].disk
                       /\ \A k \in 1..Len(todo) : /\ T[p].name # todo[k].name
                                                  /\ todo[k].disk => T[p].disk
  <2> TAKE p \in 1..n
  <2>1. \/ T[p].name = out /\ T[p].disk
        \/ \E q \in 1..Len(tables) : T[p].name = tables[q].name /\ T[p].disk = tables[q].disk
    BY DEF Replaces, n
  <2>2. CASE T[p].name = out /\ T[p].disk
    <3>1. T[p].disk = TRUE
      BY <1>14, <2>2
    <3> QED
      BY <1>3, <1>6, <1>13, <2>2, <3>1
  <2>3. CASE \E q \in 1..Len(tables) : T[p].name = tables[q].name /\ T[p].disk = tables[q].disk
    <3>1. PICK q \in 1..Len(tables) : T[p].name = tables[q].name /\ T[p].disk = tables[q].disk
      BY <2>3
    <3>2. /\ tables[q].name \in Used(Entries, state) /\ tables[q].name < state.next
          /\ files[tables[q].name].disk = tables[q].disk
      BY TablesInUse
    <3> QED
      BY <1>8, <1>13, <3>1, <3>2
  <2> QED
    BY <2>1, <2>2, <2>3
<1>17. \A p, q \in 1..n : /\ T[p].name = T[q].name => p = q
                          /\ p < q /\ T[q].disk => T[p].disk
  <2>1. \A p, q \in 1..n : T[p].name = T[q].name => p = q
    BY DEF Replaces, n
  <2>2. \A p, q \in 1..n : p < q /\ T[q].disk => T[p].disk
    BY <1>3, <1>14, SMTT(30)
  <2> QED
    BY <2>1, <2>2
<1>18. HaveFiles(E, files', state.next)
  <2>1. \A p \in 1..(n + Len(todo)) : p \in 1..n \/ p > n
    BY <1>14
  <2>2. \A p \in DOMAIN E : /\ E[p].name \in DOMAIN files' /\ E[p].name < state.next
                            /\ files'[E[p].name].disk = E[p].disk
    BY <1>13, <1>15, <1>16, <2>1
  <2>3. ASSUME NEW p \in DOMAIN E, NEW q \in DOMAIN E
        PROVE  /\ E[p].name = E[q].name => p = q
               /\ p < q /\ E[q].disk => E[p].disk
    <3>1. CASE p \in 1..n /\ q \in 1..n
      BY <1>15, <1>17, <3>1
    <3>2. CASE p \in 1..n /\ q > n
      <4>1. q - n \in 1..Len(todo) /\ E[q] = todo[q - n]
        BY <1>15, <3>2
      <4> QED
        BY <1>15, <1>16, <3>2, <4>1
    <3>3. CASE p > n /\ q \in 1..n
      <4>1. p - n \in 1..Len(todo) /\ E[p] = todo[p - n] /\ ~(p < q)
        BY <1>14, <1>15, <3>3
      <4> QED
        BY <1>15, <1>16, <3>3, <4>1
    <3>4. CASE p > n /\ q > n
      <4>1. /\ p - n \in 1..Len(todo) /\ E[p] = todo[p - n]
            /\ q - n \in 1..Len(todo) /\ E[q] = todo[q - n]
        BY <1>15, <3>4
      <4>2. (p - n = q - n => p = q) /\ (p < q => p - n < q - n)
        BY <1>13, <1>14, <1>15
      <4> QED
        BY <1>13, <4>1, <4>2
    <3> QED
      BY <1>15, <2>1, <3>1, <3>2, <3>3, <3>4
  <2> QED
    BY <2>2, <2>3 DEF HaveFiles
<1> DEFINE S == Listed(T, <<>>)
<1>19. DOMAIN S = 1..n /\ \A p \in 1..n : S[p].name = T[p].name /\ S[p].disk = T[p].disk
  BY <1>3, ListedTables DEF n
<1> HIDE DEF S
<1>20. HaveFiles(S, files', state.next)
  BY <1>16, <1>17, <1>19 DEF HaveFiles
<1>21. EntriesHaveFiles'
  BY <1>4, <1>9, <1>12, <1>18 DEF EntriesHaveFiles, E
<1>22. StateFile'
  <2>1. HaveFiles(InState(state'), files', state'.next)
    BY <1>4, <1>9, <1>20 DEF S
  <2>2. \A i \in DOMAIN files' : i <= state.next
    BY <1>1, <1>3, <1>4, <1>6 DEF StateFile
  <2>3. state.next # out
    BY <1>3, <1>4
  <2>4. state.next \in DOMAIN files' => ~files'[state.next].disk /\ files'[state.next].cells = {}
    BY <1>1, <1>6, <2>3 DEF StateFile
  <2> QED
    BY <1>2, <1>4, <1>9, <2>1, <2>2, <2>4 DEF StateFile
<1>23. Used(Entries', state') \subseteq NamesIn(T, todo)
  <2>1. \A p \in DOMAIN E : E[p].name \in NamesIn(T, todo)
    <3>1. \A p \in 1..(n + Len(todo)) : p \in 1..n \/ p > n
      BY <1>14
    <3>2. /\ \A p \in 1..n : T[p].name \in NamesIn(T, todo)
          /\ \A k \in 1..Len(todo) : todo[k].name \in NamesIn(T, todo)
      BY DEF NamesIn, n
    <3> QED
      BY <1>15, <3>1, <3>2
  <2>2. \A i \in Range(state'.names) : i \in NamesIn(T, todo)
    BY <1>9, <1>14 DEF Range, NamesIn, n
  <2> QED
    BY <1>12, <2>1, <2>2 DEF Used, E
<1> QED
  BY <1>4, <1>6, <1>7, <1>8, <1>9, <1>10, <1>11, <1>12, <1>21, <1>22, <1>23 DEF todo

\* The newest of a newest.
LEMMA NewestAgain ==
    ASSUME NEW h, NEW n \in Nat, NEW S \in UpTo(n)
    PROVE  Newest(h, Newest(h, S)) = Newest(h, S)
<1>1. {} \in UpTo(n)
  BY DEF UpTo
<1>2. Newest(h, Newest(h, S) \cup {}) = Newest(h, S \cup {})
  BY <1>1, NewestTwice
<1>3. S \cup {} = S /\ Newest(h, S) \cup {} = Newest(h, S)
  OBVIOUS
<1> QED
  BY <1>2, <1>3

\* SerializeSwap keeps the invariant: the disk table has the cells of the log.
LEMMA SerializeSwapKept == ASSUME IInv, SerializeSwap PROVE IInv'
<1>1. /\ Types /\ HistTypes /\ FileTypes /\ TableTypes /\ CallerTypes
      /\ SerTypes /\ CompTypes /\ CallerAt /\ OneCompaction
      /\ EntriesHaveFiles /\ StateFile /\ WorkersFiles /\ LogsQueued
      /\ CompactionsAreValid /\ TablesFollowFiles /\ FilesAreComplete
  BY DEF IInv, Types
<1>2. /\ hist' = hist /\ applied' = applied /\ synced' = synced
      /\ nextIndex' = nextIndex /\ initialized' = initialized /\ main' = main
      /\ squeue' = squeue /\ cqueue' = cqueue /\ comp' = comp
      /\ scheduled' = scheduled /\ fullRequested' = fullRequested /\ requests' = requests
      /\ stops' = stops /\ torn' = torn
  BY DEF SerializeSwap, callVars, diskVars, serVars, compVars, bounds
<1>3. /\ ser.pc = "swap" /\ ser \in SerSet /\ ser.name \in Nat /\ ser.out \in Nat
      /\ ser' = [ser EXCEPT !.pc = "remove"] /\ ser'.pc = "remove"
      /\ ser'.name = ser.name /\ ser'.out = ser.out
  <2>1. ser.pc = "swap" /\ ser' = [ser EXCEPT !.pc = "remove"]
    BY DEF SerializeSwap
  <2>2. ser \in SerSet
    BY <1>1, <2>1, WorkerStates DEF SerTypes
  <2> QED
    BY <2>1, <2>2 DEF SerSet
<1>4. /\ main.pc \in {"load", "loadpush", "idle", "awake", "blocked", "join"}
      /\ main.pc # "down"
  <2>1. main.pc \notin {"push", "create", "publish"}
    BY DEF SerializeSwap, MutexFree
  <2>2. main.pc # "down"
    BY <1>1, <1>3, WorkerStates DEF CallerAt
  <2>3. main.pc \in MainPc
    BY <1>1 DEF CallerTypes, MainSet
  <2> QED
    BY <2>1, <2>2, <2>3 DEF MainPc
<1> DEFINE m == NDisk + 1
           C == tables[m].cells
<1>5. /\ m \in 1..Len(tables) /\ tables[m].name = ser.name /\ ~tables[m].disk
      /\ m # Len(tables) \/ synced = applied
      /\ Position(ser.name) = m
  <2>1. Pend = 1 /\ Len(squeue) \in Nat /\ Len(tables) \in Nat /\ NDisk \in Nat
    BY <1>1, <1>3, TablesInUse DEF Pend, SerTypes, LogsQueued
  <2>2. /\ LastIsLog => NDisk = Len(tables) - 1 - Len(squeue) - 1
        /\ ~LastIsLog => NDisk = Len(tables) - 1 - Len(squeue) - 0
    BY <2>1 DEF NDisk
  <2>3. ~LastIsLog => synced = applied
    <3>1. ~LastIsLog => synced = Len(hist)
      BY <1>1, <1>4 DEF LastIsLog, CallerAt
    <3> QED
      BY <1>1, <3>1 DEF HistTypes
  <2>4. tables[m].name = ser.name
    BY <1>1, <2>1 DEF LogsQueued
  <2> HIDE DEF NDisk
  <2>5. m \in 1..Len(tables) /\ (LastIsLog => m # Len(tables)) /\ ~(m <= NDisk)
    BY <2>1, <2>2
  <2>6. ~tables[m].disk
    BY <1>1, <2>5, TablesInUse DEF LogsQueued
  <2>7. \A p \in DOMAIN tables : tables[p].name = ser.name <=> p = m
    BY <2>4, <2>5, TablesInUse
  <2>8. m \in DOMAIN tables
    BY <2>5, TablesInUse
  <2> HIDE DEF m
  <2>9. Position(ser.name) = m
    BY <2>7, <2>8 DEF Position
  <2> QED
    BY <2>3, <2>4, <2>5, <2>6, <2>9
<1> DEFINE T == [tables EXCEPT ![m] = DiskTable(ser.out, C)]
<1>30. /\ tables' = T /\ files' = WithFile(ser.out, C) /\ WriteConfig(T, nextIndex)
  <2> HIDE DEF m
  <2>1. tables' = [tables EXCEPT ![m] = DiskTable(ser.out, @.cells)]
    BY <1>5 DEF SerializeSwap
  <2>2. m \in DOMAIN tables
    BY <1>5, TablesInUse
  <2>3. tables' = T
    BY <2>1, <2>2
  <2>4. files' = WithFile(ser.out, C) /\ WriteConfig(tables', nextIndex)
    BY <1>5, <2>1 DEF SerializeSwap
  <2> QED
    BY <2>3, <2>4
<1> HIDE DEF m
<1>6. /\ tables' = T /\ T \in Seq(TableSet) /\ Len(T) = Len(tables)
      /\ DOMAIN T = 1..Len(tables) /\ DOMAIN tables = 1..Len(tables)
      /\ T[m].name = ser.out /\ T[m].disk /\ T[m].cells = C
      /\ \A p \in 1..Len(tables) : p # m => T[p] = tables[p]
  <2> DEFINE x == DiskTable(ser.out, C)
  <2>1. tables \in Seq(TableSet)
    BY <1>1 DEF TableTypes
  <2>2. tables[m] \in TableSet
    BY <1>5, TablesInUse
  <2>3. x \in TableSet /\ x.name = ser.out /\ x.disk /\ x.cells = C
    BY <1>3, <2>2 DEF DiskTable, TableSet
  <2> HIDE DEF x
  <2>4. T \in Seq(TableSet) /\ Len(T) = Len(tables) /\ T[m] = x
        /\ DOMAIN T = 1..Len(tables) /\ DOMAIN tables = 1..Len(tables)
        /\ \A p \in 1..Len(tables) : p # m => T[p] = tables[p]
    BY <1>5, <2>1, <2>3 DEF x
  <2> QED
    BY <1>30, <2>3, <2>4
<1>7. ser.out \notin Used(Entries, state) /\ ser.out < state.next
  BY <1>1, <1>3 DEF WorkersFiles, Apart
<1> HIDE DEF T
<1>8. Replaces(T, m, ser.out, C)
  <2>1. m \in Nat /\ m <= Len(T) /\ NDisk \in Nat
    <3>1. NDisk \in Nat
      BY <1>1 DEF LogsQueued
    <3> HIDE DEF NDisk
    <3>2. m \in Nat /\ m <= Len(T)
      <4>1. Len(tables) \in Nat
        BY TablesInUse
      <4>2. m \in 1..Len(tables) /\ Len(T) = Len(tables)
        BY <1>5, <1>6
      <4> QED
        BY <4>1, <4>2
    <3> QED
      BY <3>1, <3>2
  <2>2. \A p \in DOMAIN T : T[p].disk <=> p <= m
    <3>1. \A p \in 1..Len(tables) : tables[p].disk <=> p <= NDisk
      BY <1>1, <1>6 DEF LogsQueued
    <3>2. \A p \in 1..Len(tables) : p # m => (p <= m <=> p <= NDisk)
      <4> HIDE DEF NDisk
      <4> QED
        BY <2>1 DEF m
    <3>3. m <= m
      BY <2>1
    <3> HIDE DEF NDisk
    <3> QED
      BY <1>6, <3>1, <3>2, <3>3
  <2>3. \A p \in 1..Len(tables) : tables[p].name # ser.out
    BY <1>7, TablesInUse
  <2>4. \A p, q \in 1..Len(T) : T[p].name = T[q].name => p = q
    BY <1>6, <2>3, TablesInUse
  <2>5. \A p \in 1..Len(T) :
            \/ T[p].name = ser.out /\ T[p].disk
            \/ \E q \in 1..Len(tables) : /\ T[p].name = tables[q].name
                                         /\ T[p].disk = tables[q].disk
    BY <1>6
  <2>6. C \subseteq Nat /\ \A c \in C : c \in 1..synced
    <3>1. C \in SUBSET (1..synced)
      BY <1>5, CellsOfTables
    <3> HIDE DEF C
    <3> QED
      BY <3>1
  <2> HIDE DEF C
  <2> QED
    BY <1>3, <1>6, <1>7, <2>1, <2>2, <2>4, <2>5, <2>6 DEF Replaces
<1>9. /\ C = Newest(hist, files[ser.name].cells) /\ Newest(hist, C) = C
  <2> DEFINE S == files[ser.name].cells
  <2>1. C = Newest(hist, S)
    BY <1>5, CellsOfTables
  <2>2. synced \in Nat /\ S \in UpTo(synced)
    <3>1. \A c \in S : c \in 1..synced
      BY <1>1, <1>5, TablesInUse DEF FileTypes
    <3> HIDE DEF S
    <3> QED
      BY <1>1, <3>1 DEF HistTypes, UpTo
  <2> HIDE DEF C, S
  <2>3. Newest(hist, Newest(hist, S)) = Newest(hist, S)
    BY <2>2, NewestAgain
  <2> QED
    BY <2>1, <2>3 DEF S
<1> HIDE DEF C
<1>10. /\ FileTypes' /\ TableTypes' /\ CallerAt' /\ EntriesHaveFiles'
       /\ StateFile' /\ Entries' = Listed(T, main.todo)
       /\ state'.next = state.next
       /\ Used(Entries', state') \subseteq NamesIn(T, main.todo)
       /\ files'[ser.out].cells = C
       /\ \A i \in Used(Entries, state) : files'[i] = files[i]
  BY <1>2, <1>4, <1>8, <1>30, FileReplaced
<1>11. HistTypes'
  BY <1>1, <1>2 DEF HistTypes
<1>12. FileTypes'
  BY <1>10
<1>13. TableTypes'
  BY <1>10
<1>14. CallerTypes'
  BY <1>1, <1>2 DEF CallerTypes
<1>15. SerTypes'
  <2>1. ser' \in SerSet
    BY <1>3, WorkerStates DEF SerSet
  <2> QED
    BY <1>1, <1>2, <2>1 DEF SerTypes
<1>16. CompTypes'
  BY <1>1, <1>2 DEF CompTypes
<1>17. CallerAt'
  BY <1>10
<1>18. OneCompaction'
  BY <1>1, <1>2 DEF OneCompaction
<1>19. EntriesHaveFiles'
  BY <1>10
<1>20. StateFile'
  BY <1>10
<1>21. WorkersFiles'
  <2> DEFINE U == Used(Entries, state)
             V == Used(Entries', state')
  <2>1. \A i \in V : i = ser.out \/ i \in U
    <3>1. \A p \in 1..Len(T) : T[p].name = ser.out \/ T[p].name \in U
      BY <1>6, TablesInUse
    <3>2. \A k \in 1..Len(main.todo) : main.todo[k].name \in U
      BY <1>4, TodoInUse
    <3> QED
      BY <1>10, <3>1, <3>2 DEF NamesIn
  <2>2. ser.name \notin V /\ ser.name \in U /\ ser.name < state.next
    <3>1. ser.name \in U /\ ser.name < state.next /\ ser.name # ser.out
      BY <1>5, <1>7, TablesInUse
    <3>2. \A p \in 1..Len(T) : T[p].name # ser.name
      BY <1>5, <1>6, <3>1, TablesInUse
    <3>3. \A k \in 1..Len(main.todo) : main.todo[k].name # ser.name
      BY <1>4, <1>5, TodoInUse
    <3> QED
      BY <1>10, <3>1, <3>2, <3>3 DEF NamesIn
  <2>3. Apart(U, state.next)
    BY <1>1 DEF WorkersFiles
  <2>4. state'.next = state.next
    BY <1>10
  <2> QED
    BY <1>2, <1>3, <2>1, <2>2, <2>3, <2>4 DEF WorkersFiles, Apart
<1>22. LogsQueued'
  <2>1. Pend = 1 /\ Pend' = 0 /\ Len(squeue) \in Nat
    BY <1>1, <1>3 DEF Pend, SerTypes
  <2>2. \E b \in {0, 1} : /\ NDisk = Len(tables) - 1 - Len(squeue) - b
                          /\ NDisk' = Len(tables) - 0 - Len(squeue) - b
    <3>1. LastIsLog' <=> LastIsLog
      BY <1>2 DEF LastIsLog
    <3> QED
      BY <1>2, <1>6, <2>1, <3>1 DEF NDisk
  <2>3. NDisk \in Nat /\ Len(tables) \in Nat
    BY <1>1, TablesInUse DEF LogsQueued
  <2>4. NDisk' = m /\ m \in Nat
    BY <2>1, <2>2, <2>3 DEF m
  <2>5. \A k \in DOMAIN squeue : tables[NDisk + Pend + k].name = squeue[k]
    BY <1>1 DEF LogsQueued
  <2>6. DOMAIN squeue = 1..Len(squeue)
    BY <1>1 DEF SerTypes
  <2>7. ASSUME NEW k \in DOMAIN squeue
        PROVE  T[NDisk' + Pend' + k].name = squeue[k]
    <3>1. /\ NDisk + Pend + k = m + k /\ NDisk' + Pend' + k = m + k
          /\ m + k \in 1..Len(tables) /\ m + k # m
      <4> HIDE DEF NDisk
      <4>1. NDisk + Pend + k = m + k
        BY <2>1, <2>3, <2>6 DEF m
      <4>2. NDisk' + Pend' + k = m + k
        BY <2>1, <2>4, <2>6
      <4>3. m + k \in 1..Len(tables) /\ m + k # m
        BY <2>1, <2>2, <2>3, <2>6 DEF m
      <4> QED
        BY <4>1, <4>2, <4>3
    <3> QED
      BY <1>6, <2>5, <3>1
  <2>8. \A p \in DOMAIN T : T[p].disk <=> p <= m
    BY <1>8 DEF Replaces
  <2> HIDE DEF NDisk, m
  <2> QED
    BY <1>2, <1>6, <2>1, <2>4, <2>7, <2>8 DEF LogsQueued
<1>23. CompactionsAreValid'
  <2>1. ASSUME NEW job PROVE JobIsValid(job)' <=> ValidIn(T, job)
    BY <1>6 DEF JobIsValid, ValidIn
  <2>2. \A job \in JobSet : ValidIn(tables, job) => ValidIn(T, job)
    <3>1. Len(tables) <= Len(T) /\ tables \in Seq(TableSet) /\ T \in Seq(TableSet)
      BY <1>1, <1>6, TablesInUse DEF TableTypes
    <3>2. \A p \in 1..Len(tables) : tables[p].disk => T[p].name = tables[p].name /\ T[p].disk
      BY <1>5, <1>6
    <3> QED
      BY <3>1, <3>2, ValidStays
  <2>3. /\ \A p \in DOMAIN cqueue : cqueue[p] \in JobSet /\ ValidIn(tables, cqueue[p])
        /\ comp.pc = "replace" => comp.job \in JobSet /\ ValidIn(tables, comp.job)
    BY <1>1, ValidHere, WorkerStates DEF CompactionsAreValid, CompTypes
  <2> QED
    BY <1>2, <2>1, <2>2, <2>3 DEF CompactionsAreValid
<1>24. TablesFollowFiles'
  <2>1. ASSUME NEW p \in 1..Len(tables), p # m
        PROVE  T[p].cells = Newest(hist, files'[T[p].name].cells
                                             \cup Unsynced(T, p, synced, applied))
    <3>1. T[p] = tables[p] /\ files'[tables[p].name] = files[tables[p].name]
      BY <1>6, <1>10, <2>1, TablesInUse
    <3>2. Unsynced(T, p, synced, applied) = Unsynced(tables, p, synced, applied)
      BY <1>6 DEF Unsynced
    <3>3. p \in DOMAIN tables
      BY TablesInUse
    <3> QED
      BY <1>1, <3>1, <3>2, <3>3 DEF TablesFollowFiles, Follow
  <2>2. T[m].cells = Newest(hist, files'[T[m].name].cells
                                      \cup Unsynced(T, m, synced, applied))
    <3>1. Unsynced(T, m, synced, applied) = {}
      <4>1. (synced + 1)..applied = {} \/ m # Len(T)
        BY <1>1, <1>5, <1>6 DEF HistTypes
      <4> QED
        BY <4>1 DEF Unsynced
    <3>2. T[m].cells = C /\ T[m].name = ser.out /\ files'[ser.out].cells = C
      BY <1>6, <1>10
    <3>3. C \cup {} = C
      OBVIOUS
    <3> QED
      BY <1>9, <3>1, <3>2, <3>3
  <2>3. DOMAIN T = 1..Len(tables)
    BY <1>6
  <2> QED
    BY <1>2, <1>6, <2>1, <2>2, <2>3 DEF TablesFollowFiles, Follow
<1>25. FilesAreComplete'
  <2> SUFFICES ASSUME ~torn PROVE Whole(hist, files', Entries', synced)
    BY <1>2 DEF FilesAreComplete
  <2>1. Whole(hist, files, Entries, synced)
    BY <1>1 DEF FilesAreComplete
  <2> DEFINE A == OnFile(hist, files, Entries)
             B == OnFile(hist, files', Entries')
  <2>2. /\ DOMAIN A = DOMAIN Entries /\ DOMAIN B = DOMAIN Entries'
        /\ \A p \in DOMAIN A : A[p].cells = Newest(hist, files[Entries[p].name].cells)
        /\ \A p \in DOMAIN B : B[p].cells = Newest(hist, files'[Entries'[p].name].cells)
    BY DEF OnFile
  <2> HIDE DEF A, B
  <2>3. /\ DOMAIN Entries' = DOMAIN Entries /\ m \in DOMAIN Entries
        /\ Entries[m].name = ser.name /\ Entries'[m].name = ser.out
        /\ \A p \in DOMAIN Entries : p # m => Entries'[p] = Entries[p]
    <3> DEFINE todo == main.todo
    <3>1. /\ Entries = Listed(tables, todo) /\ Entries' = Listed(T, todo)
          /\ todo \in Seq(EntrySet) /\ tables \in Seq(TableSet) /\ T \in Seq(TableSet)
      BY <1>1, <1>4, <1>6, <1>10, TodoInUse DEF Entries, TableTypes
    <3> HIDE DEF todo
    <3>2. Len(tables) \in Nat /\ Len(todo) \in Nat /\ Len(T) = Len(tables)
      BY <1>6, <3>1, ListedShape
    <3>3. DOMAIN Entries = 1..(Len(tables) + Len(todo)) /\ Entries[m].name = tables[m].name
      BY <1>5, <3>1, ListedShape
    <3>4. DOMAIN Entries' = 1..(Len(T) + Len(todo)) /\ Entries'[m].name = T[m].name
      <4>1. m \in 1..Len(T)
        BY <1>5, <3>2
      <4> QED
        BY <3>1, <4>1, ListedShape
    <3>5. m \in DOMAIN Entries
      BY <1>5, <3>2, <3>3
    <3>6. ASSUME NEW p \in DOMAIN Entries, p # m PROVE Entries'[p] = Entries[p]
      <4>1. p <= Len(tables) => p \in 1..Len(tables)
        BY <3>2, <3>3
      <4>2. p <= Len(tables) => T[p] = tables[p]
        BY <1>6, <3>6, <4>1
      <4>3. p \in DOMAIN Listed(tables, todo) /\ p \in DOMAIN Listed(T, todo)
        BY <3>1, <3>2, <3>3, <3>4
      <4>4. Listed(tables, todo)[p] = Listed(T, todo)[p]
        BY <3>2, <4>2, <4>3 DEF Listed
      <4> QED
        BY <3>1, <4>4
    <3> QED
      BY <1>5, <1>6, <3>2, <3>3, <3>4, <3>5, <3>6
  <2>4. ASSUME NEW p \in DOMAIN A PROVE A[p].cells = B[p].cells
    <3>1. CASE p = m
      BY <1>9, <1>10, <2>2, <2>3, <3>1
    <3>2. CASE p # m
      <4>1. Entries'[p] = Entries[p] /\ p \in DOMAIN Entries
        BY <2>2, <2>3, <3>2
      <4>2. files'[Entries[p].name] = files[Entries[p].name]
        BY <1>10, <4>1 DEF Used
      <4> QED
        BY <2>2, <2>3, <4>1, <4>2
    <3> QED
      BY <3>1, <3>2
  <2>5. SameCells(A, B) /\ Agree(hist, hist, A)
    BY <2>2, <2>3, <2>4 DEF SameCells, Agree
  <2>6. Shown(hist, A) = Shown(hist, B)
    BY <2>5, MergeSame
  <2> QED
    BY <2>1, <2>6 DEF Whole, A, B
<1> QED
  BY <1>11, <1>12, <1>13, <1>14, <1>15, <1>16, <1>17, <1>18, <1>19,
     <1>20, <1>21, <1>22, <1>23, <1>24, <1>25 DEF IInv, Types

\* One cell of each key.
OneEach(h, S) == \A i, j \in S : h[i].key = h[j].key => i = j

\* That is what the newest are.
LEMMA NewestOneEach ==
    /\ \A h, S : S \subseteq Nat => OneEach(h, Newest(h, S))
    /\ \A h, S : S \subseteq Nat /\ OneEach(h, S) => Newest(h, S) = S
<1>1. ASSUME NEW h, NEW S, S \subseteq Nat PROVE OneEach(h, Newest(h, S))
  BY <1>1 DEF OneEach, Newest
<1>2. ASSUME NEW h, NEW S, S \subseteq Nat, OneEach(h, S) PROVE Newest(h, S) = S
  <2>1. \A i \in S : \A j \in S : h[j].key = h[i].key => j <= i
    BY <1>2 DEF OneEach
  <2> QED
    BY <2>1 DEF Newest
<1> QED
  BY <1>1, <1>2

\* A merge of tables with one cell of each key has one cell of each key.
LEMMA MergedOneEach ==
    ASSUME NEW h, NEW T, NEW n \in Nat, NEW f, DOMAIN T = 1..n,
           \A p \in 1..n : OneEach(h, T[p].cells)
    PROVE  OneEach(h, MergedIn(h, T, f))
<1> SUFFICES ASSUME NEW i \in MergedIn(h, T, f), NEW j \in MergedIn(h, T, f),
                    h[i].key = h[j].key
             PROVE  i = j
  BY DEF OneEach
<1>1. (\E p : Top(h, T, i, p)) /\ (\E p : Top(h, T, j, p))
  BY MergedIsTop
<1>2. PICK p : Top(h, T, i, p)
  BY <1>1
<1>3. PICK q : Top(h, T, j, q)
  BY <1>1
<1>4. p \in 1..n /\ q \in 1..n /\ i \in T[p].cells /\ j \in T[q].cells
  BY <1>2, <1>3 DEF Top
<1>5. ~(q > p) /\ ~(p > q)
  BY <1>2, <1>3, <1>4 DEF Top
<1>6. p = q
  BY <1>4, <1>5
<1> QED
  BY <1>4, <1>6 DEF OneEach

\* Two sequences in a row.
LEMMA ConcatShape ==
    ASSUME NEW S, NEW T \in Seq(S), NEW U \in Seq(S)
    PROVE  /\ T \o U \in Seq(S) /\ Len(T \o U) = Len(T) + Len(U)
           /\ \A p \in 1..Len(T) : (T \o U)[p] = T[p]
           /\ \A p \in (Len(T) + 1)..(Len(T) + Len(U)) :
                  (T \o U)[p] = U[p - Len(T)]
OBVIOUS

\* In T, x takes the place of n elements from the a-th on.
Splice(T, a, n, x) ==
    SubSeq(T, 1, a - 1) \o <<x>> \o SubSeq(T, a + n, Len(T))
LEMMA SpliceShape ==
    ASSUME NEW S, NEW T \in Seq(S), NEW x \in S, NEW a \in 1..Len(T),
           NEW n \in Nat \ {0}, a + n <= Len(T)
    PROVE  /\ Splice(T, a, n, x) \in Seq(S)
           /\ Len(Splice(T, a, n, x)) = Len(T) - n + 1
           /\ \A p \in 1..(a - 1) : Splice(T, a, n, x)[p] = T[p]
           /\ Splice(T, a, n, x)[a] = x
           /\ \A p \in (a + 1)..(Len(T) - n + 1) :
                  Splice(T, a, n, x)[p] = T[p + n - 1]
<1> DEFINE L == Len(T)
           A == SubSeq(T, 1, a - 1)
           B == SubSeq(T, a + n, L)
           X == <<x>>
<1>1. L \in Nat
  OBVIOUS
<1>2. A \in Seq(S) /\ Len(A) = a - 1 /\ \A p \in 1..(a - 1) : A[p] = T[p]
  <2>1. \A i \in 1..(a - 1) : T[i] \in S
    OBVIOUS
  <2> QED
    BY <1>1, <2>1
<1>3. B \in Seq(S) /\ Len(B) = L - (a + n) + 1
      /\ \A p \in 1..(L - (a + n) + 1) : B[p] = T[(a + n) + p - 1]
  <2>1. \A i \in (a + n)..L : T[i] \in S
    OBVIOUS
  <2> QED
    BY <1>1, <2>1
<1>4. X \in Seq(S) /\ Len(X) = 1 /\ X[1] = x
  OBVIOUS
<1> HIDE DEF A, B, X
<1>5. /\ A \o X \in Seq(S) /\ Len(A \o X) = a /\ (A \o X)[a] = x
      /\ \A p \in 1..(a - 1) : (A \o X)[p] = T[p]
  <2>1. /\ A \o X \in Seq(S) /\ Len(A \o X) = Len(A) + Len(X)
        /\ \A p \in 1..Len(A) : (A \o X)[p] = A[p]
        /\ \A p \in (Len(A) + 1)..(Len(A) + Len(X)) : (A \o X)[p] = X[p - Len(A)]
    BY <1>2, <1>4, ConcatShape
  <2>2. Len(A) + Len(X) = a /\ a \in (Len(A) + 1)..(Len(A) + Len(X)) /\ a - Len(A) = 1
    BY <1>1, <1>2, <1>4
  <2> QED
    BY <1>2, <1>4, <2>1, <2>2
<1> DEFINE Y == A \o X
<1> HIDE DEF Y
<1>6. Y \in Seq(S) /\ Len(Y) = a /\ Y[a] = x /\ \A p \in 1..(a - 1) : Y[p] = T[p]
  BY <1>5 DEF Y
<1>7. /\ Y \o B \in Seq(S) /\ Len(Y \o B) = L - n + 1
      /\ \A p \in 1..a : (Y \o B)[p] = Y[p]
      /\ \A p \in (a + 1)..(L - n + 1) : (Y \o B)[p] = B[p - a]
  <2>1. Y \o B \in Seq(S) /\ Len(Y \o B) = Len(Y) + Len(B)
    BY <1>3, <1>6, ConcatShape
  <2>2. Len(Y) + Len(B) = L - n + 1
    BY <1>1, <1>3, <1>6
  <2>3. /\ \A p \in 1..Len(Y) : (Y \o B)[p] = Y[p]
        /\ \A p \in (Len(Y) + 1)..(Len(Y) + Len(B)) : (Y \o B)[p] = B[p - Len(Y)]
    BY <1>3, <1>6, ConcatShape, SMTT(30), ZenonT(30)
  <2> QED
    BY <1>6, <2>1, <2>2, <2>3
<1>8. \A p \in (a + 1)..(L - n + 1) : B[p - a] = T[p + n - 1]
  <2> TAKE p \in (a + 1)..(L - n + 1)
  <2>1. p - a \in 1..(L - (a + n) + 1) /\ (a + n) + (p - a) - 1 = p + n - 1
    BY <1>1
  <2>2. B[p - a] = T[(a + n) + (p - a) - 1]
    BY <1>3, <2>1
  <2> QED
    BY <2>1, <2>2
<1>9. Splice(T, a, n, x) = Y \o B
  BY DEF Splice, Y, A, X, B
<1>10. \A p \in 1..(a - 1) : p \in 1..a /\ a \in 1..a
  BY <1>1
<1>11. a \in 1..a
  BY <1>1
<1> HIDE DEF L
<1>12. /\ Y \o B \in Seq(S) /\ Len(Y \o B) = L - n + 1
       /\ \A p \in 1..(a - 1) : (Y \o B)[p] = T[p]
       /\ (Y \o B)[a] = x
       /\ \A p \in (a + 1)..(L - n + 1) : (Y \o B)[p] = T[p + n - 1]
  BY <1>6, <1>7, <1>8, <1>10, <1>11
<1> QED
  BY <1>9, <1>12 DEF L

\* CompactReplace keeps the invariant: the merge of its tables hides nothing.
LEMMA CompactReplaceKept == ASSUME IInv, CompactReplace PROVE IInv'
<1>1. /\ Types /\ HistTypes /\ FileTypes /\ TableTypes /\ CallerTypes
      /\ SerTypes /\ CompTypes /\ CallerAt /\ OneCompaction
      /\ EntriesHaveFiles /\ StateFile /\ WorkersFiles /\ LogsQueued
      /\ CompactionsAreValid /\ TablesFollowFiles /\ FilesAreComplete
  BY DEF IInv, Types
<1>2. /\ hist' = hist /\ applied' = applied /\ synced' = synced
      /\ nextIndex' = nextIndex /\ initialized' = initialized /\ main' = main
      /\ squeue' = squeue /\ ser' = ser /\ cqueue' = cqueue
      /\ scheduled' = scheduled /\ fullRequested' = fullRequested /\ requests' = requests
      /\ stops' = stops /\ torn' = torn
  BY DEF CompactReplace, callVars, diskVars, serVars, compVars, bounds
<1> DEFINE job == comp.job
<1>3. /\ comp.pc = "replace" /\ comp \in CompSet /\ job \in JobSet /\ comp.out \in Nat
      /\ comp' \in CompSet /\ comp'.pc = "finish" /\ comp'.job = job
      /\ comp'.out = comp.out /\ comp # Idle /\ comp' # Idle
      /\ cqueue = <<>> /\ initialized /\ scheduled /\ LastIsLog /\ main.todo = <<>>
      /\ main.pc \in {"idle", "awake", "blocked", "join"} /\ job.names \in Seq(Nat)
  <2>1. /\ comp.pc = "replace" /\ comp' = [comp EXCEPT !.pc = "finish"]
        /\ main.pc \notin {"push", "create", "publish"}
    BY DEF CompactReplace, MutexFree
  <2>2. comp \in CompSet /\ comp # Idle /\ job.names \in Seq(Nat)
    BY <1>1, <2>1, WorkerStates DEF CompTypes
  <2>3. /\ comp' \in CompSet /\ comp'.pc = "finish" /\ comp'.job = job
        /\ comp'.out = comp.out /\ job \in JobSet /\ comp.out \in Nat
    BY <2>1, <2>2 DEF CompSet
  <2>4. comp' # Idle
    BY <2>3, WorkerStates
  <2>5. cqueue = <<>> /\ initialized /\ scheduled
    BY <1>1, <2>2 DEF OneCompaction
  <2>6. main.pc \in {"idle", "awake", "blocked", "join"} /\ main.todo = <<>>
    <3>1. main.pc \in MainPc
      BY <1>1 DEF CallerTypes, MainSet
    <3> QED
      BY <1>1, <2>1, <2>5, <3>1 DEF CallerAt, MainPc
  <2> HIDE DEF job
  <2> QED
    BY <2>1, <2>2, <2>3, <2>4, <2>5, <2>6 DEF LastIsLog
<1>4. comp.out \notin Used(Entries, state) /\ comp.out < state.next
  BY <1>1, <1>3 DEF WorkersFiles, Apart
<1> DEFINE n == Len(job.names)
<1> HIDE DEF job
<1>30. \E first \in 1..Len(tables) :
           /\ n > 1 /\ first + n <= Len(tables)
           /\ \A k \in 1..n : /\ tables[first + k - 1].name = job.names[k]
                              /\ tables[first + k - 1].disk
           /\ job.filterErasures => first = 1
  <2>1. JobIsValid(job)
    BY <1>1, <1>3 DEF CompactionsAreValid, job
  <2>2. DOMAIN tables = 1..Len(tables)
    BY TablesInUse
  <2> QED
    BY <2>1, <2>2 DEF JobIsValid
<1>31. PICK a \in 1..Len(tables) :
           /\ n > 1 /\ a + n <= Len(tables)
           /\ \A k \in 1..n : /\ tables[a + k - 1].name = job.names[k]
                              /\ tables[a + k - 1].disk
           /\ job.filterErasures => a = 1
  BY <1>30
<1>5. /\ n \in Nat /\ n > 1 /\ n \in 1..Len(tables) /\ a \in Nat /\ a >= 1
      /\ a + n <= Len(tables) /\ Len(tables) \in Nat /\ DOMAIN job.names = 1..n
      /\ \A k \in 1..n :
             /\ a + k - 1 \in 1..Len(tables) /\ a + k - 1 # Len(tables)
             /\ tables[a + k - 1].name = job.names[k] /\ tables[a + k - 1].disk
             /\ Position(job.names[k]) = a + k - 1
      /\ (job.filterErasures => a = 1) /\ job.filterErasures \in BOOLEAN
      /\ a + n - 1 <= NDisk /\ NDisk \in Nat
  <2>1. n \in Nat /\ DOMAIN job.names = 1..n /\ job.filterErasures \in BOOLEAN
    BY <1>3 DEF JobSet
  <2>2. Len(tables) \in Nat /\ DOMAIN tables = 1..Len(tables)
    BY TablesInUse
  <2> HIDE DEF n
  <2>3. /\ n \in 1..Len(tables) /\ a \in Nat /\ a >= 1 /\ n \in 1..n
        /\ \A k \in 1..n : a + k - 1 \in 1..Len(tables) /\ a + k - 1 # Len(tables)
    BY <1>31, <2>1, <2>2
  <2>4. ASSUME NEW k \in 1..n PROVE Position(job.names[k]) = a + k - 1
    <3> DEFINE q == a + k - 1
    <3>1. q \in DOMAIN tables /\ tables[q].name = job.names[k]
      BY <1>31, <2>2, <2>3
    <3> HIDE DEF q
    <3>2. \A p \in DOMAIN tables : tables[p].name = job.names[k] => p = q
      BY <2>2, <3>1, TablesInUse
    <3>3. Position(job.names[k]) = q
      BY <3>1, <3>2 DEF Position
    <3> QED
      BY <3>3 DEF q
  <2>5. a + n - 1 <= NDisk /\ NDisk \in Nat
    <3> HIDE DEF NDisk
    <3>1. a + n - 1 \in DOMAIN tables /\ tables[a + n - 1].disk
      BY <1>31, <2>2, <2>3
    <3> QED
      BY <1>1, <3>1 DEF LogsQueued
  <2> HIDE DEF NDisk
  <2> QED
    BY <1>31, <2>1, <2>2, <2>3, <2>4, <2>5
<1>34. /\ n \in Nat /\ n > 1 /\ a \in Nat /\ a >= 1 /\ a \in 1..Len(tables)
       /\ a + n <= Len(tables) /\ Len(tables) \in Nat
  <2> HIDE DEF n
  <2> QED
    BY <1>5, <1>31
<1> DEFINE W == JobTables(job)
           C == Merged(W, job.filterErasures)
           x == DiskTable(comp.out, C)
           T == Splice(tables, a, n, x)
           d == NDisk - n + 1
           From(p) == IF p < a THEN p ELSE p + n - 1
<1>6. /\ DOMAIN W = 1..n /\ \A k \in 1..n : W[k] = tables[a + k - 1]
      /\ C = MergedIn(hist, W, job.filterErasures)
  <2>1. DOMAIN W = 1..n /\ \A k \in 1..n : W[k] = tables[a + k - 1]
    BY <1>5 DEF JobTables
  <2> HIDE DEF W
  <2> QED
    BY <2>1, MergedHere
<1>32. tables' = T /\ files' = WithFile(comp.out, C) /\ WriteConfig(T, nextIndex)
  <2>1. 1 \in 1..n
    BY <1>5
  <2>2. a + 1 - 1 = a
    OBVIOUS
  <2>3. Position(job.names[1]) = a
    BY <1>5, <2>1, <2>2
  <2> QED
    BY <2>3 DEF CompactReplace, Splice, job
<1> HIDE DEF W
<1>33. /\ C \subseteq Nat /\ C \subseteq 1..MaxWrites /\ \A c \in C : c \in 1..synced
       /\ \A k \in 1..n : OneEach(hist, W[k].cells)
  <2>1. ASSUME NEW k \in 1..n
        PROVE  /\ OneEach(hist, W[k].cells)
               /\ \A c \in W[k].cells : c \in 1..synced /\ c \in Nat /\ c \in 1..MaxWrites
    <3>1. a + k - 1 \in 1..Len(tables) /\ a + k - 1 # Len(tables) /\ W[k] = tables[a + k - 1]
      BY <1>5, <1>6
    <3> DEFINE S == files[tables[a + k - 1].name].cells
    <3>2. W[k].cells = Newest(hist, S) /\ W[k].cells \in SUBSET (1..synced)
      BY <3>1, CellsOfTables
    <3>3. \A c \in S : c \in 1..synced
      BY <1>1, <3>1, TablesInUse DEF FileTypes
    <3> HIDE DEF S
    <3>4. S \subseteq Nat
      BY <3>3
    <3>5. \A c \in 1..synced : c \in Nat /\ c \in 1..MaxWrites
      BY <1>1, LocalTableAssumption DEF HistTypes
    <3> QED
      BY <3>2, <3>4, <3>5, NewestOneEach
  <2>2. \A c \in C : \E k \in 1..n : c \in W[k].cells
    BY <1>6, MergedIsTop DEF Top
  <2> HIDE DEF C
  <2> QED
    BY <2>1, <2>2
<1>9. Newest(hist, C) = C
  <2>1. OneEach(hist, C)
    <3>1. n \in Nat /\ DOMAIN W = 1..n /\ \A k \in 1..n : OneEach(hist, W[k].cells)
      BY <1>5, <1>6, <1>33
    <3> HIDE DEF n, C
    <3>2. OneEach(hist, MergedIn(hist, W, job.filterErasures))
      BY <3>1, MergedOneEach
    <3> QED
      BY <1>6, <3>2
  <2> HIDE DEF C
  <2> QED
    BY <1>33, <2>1, NewestOneEach
<1> HIDE DEF C, n
<1>7. /\ tables' = T /\ T \in Seq(TableSet) /\ Len(T) = Len(tables) - n + 1
      /\ DOMAIN T = 1..Len(T) /\ Len(T) \in Nat /\ a \in 1..Len(T) /\ a # Len(T)
      /\ T[a].name = comp.out /\ T[a].disk /\ T[a].cells = C
      /\ \A p \in (a + 1)..(Len(tables) - n + 1) : T[p] = tables[p + n - 1]
      /\ \A p \in 1..Len(T) : p # a =>
             /\ T[p] = tables[From(p)] /\ From(p) \in 1..Len(tables)
             /\ From(p) = Len(tables) <=> p = Len(T)
             /\ \A k \in 1..n : From(p) # a + k - 1
      /\ \A p, q \in 1..Len(T) : p # a /\ q # a /\ From(p) = From(q) => p = q
  <2>1. x \in TableSet /\ x.name = comp.out /\ x.disk /\ x.cells = C
    BY <1>3, <1>33 DEF DiskTable, TableSet
  <2> HIDE DEF x
  <2>2. tables \in Seq(TableSet)
    BY <1>1 DEF TableTypes
  <2>3. n \in Nat \ {0}
    BY <1>5
  <2>4. /\ T \in Seq(TableSet) /\ Len(T) = Len(tables) - n + 1
        /\ \A p \in 1..(a - 1) : T[p] = tables[p]
        /\ T[a] = x
        /\ \A p \in (a + 1)..(Len(tables) - n + 1) : T[p] = tables[p + n - 1]
    <3>1. /\ tables \in Seq(TableSet) /\ x \in TableSet /\ a \in 1..Len(tables)
          /\ n \in Nat \ {0} /\ a + n <= Len(tables)
      BY <1>34, <2>1, <2>2, <2>3
    <3>2. /\ Splice(tables, a, n, x) \in Seq(TableSet)
          /\ Len(Splice(tables, a, n, x)) = Len(tables) - n + 1
          /\ \A p \in 1..(a - 1) : Splice(tables, a, n, x)[p] = tables[p]
          /\ Splice(tables, a, n, x)[a] = x
          /\ \A p \in (a + 1)..(Len(tables) - n + 1) :
                 Splice(tables, a, n, x)[p] = tables[p + n - 1]
      BY <3>1, SpliceShape
    <3> QED
      BY <3>2
  <2> HIDE DEF T
  <2>5. DOMAIN T = 1..Len(T) /\ Len(T) \in Nat /\ a \in 1..Len(T) /\ a # Len(T)
    BY <1>5, <2>4, SMTT(30)
  <2>6. ASSUME NEW p \in 1..Len(T), p # a
        PROVE  /\ T[p] = tables[From(p)] /\ From(p) \in 1..Len(tables)
               /\ From(p) = Len(tables) <=> p = Len(T)
               /\ \A k \in 1..n : From(p) # a + k - 1
    <3>1. CASE p < a
      <4>1. p \in 1..(a - 1) /\ From(p) = p
        <5>1. p \in 1..(a - 1)
          <6>1. Len(T) \in Nat /\ a \in Nat
            BY <1>34, <2>5
          <6> QED
            BY <3>1, <6>1
        <5> QED
          BY <3>1, <5>1
      <4> QED
        BY <1>5, <2>4, <2>5, <4>1
    <3>2. CASE ~(p < a)
      <4>1. p \in (a + 1)..(Len(tables) - n + 1) /\ From(p) = p + n - 1
        BY <1>5, <2>4, <2>5, <2>6, <3>2
      <4>2. T[p] = tables[From(p)]
        BY <2>4, <4>1
      <4>3. /\ p + n - 1 \in 1..Len(tables) /\ (p + n - 1 = Len(tables) <=> p = Len(T))
            /\ \A k \in 1..n : p + n - 1 # a + k - 1
        BY <1>5, <2>4, <4>1
      <4> QED
        BY <4>1, <4>2, <4>3
    <3> QED
      BY <3>1, <3>2
  <2>7. \A p, q \in 1..Len(T) : p # a /\ q # a /\ From(p) = From(q) => p = q
    <3> TAKE p, q \in 1..Len(T)
    <3> HAVE p # a /\ q # a /\ From(p) = From(q)
    <3>1. p \in Nat /\ q \in Nat /\ n \in Nat /\ a \in Nat /\ n > 1
      <4>1. Len(T) \in Nat
        BY <2>5
      <4> QED
        BY <1>34, <4>1
    <3>2. (p < a \/ p > a) /\ (q < a \/ q > a)
      BY <3>1
    <3>3. (p < a => From(p) = p) /\ (p > a => From(p) = p + n - 1)
          /\ (q < a => From(q) = q) /\ (q > a => From(q) = q + n - 1)
      <4>1. (p > a => ~(p < a)) /\ (q > a => ~(q < a))
        BY <3>1
      <4> QED
        BY <4>1
    <3> HIDE DEF From
    <3> QED
      BY <3>1, <3>2, <3>3
  <2>8. tables' = T
    BY <1>32
  <2> QED
    BY <2>1, <2>4, <2>5, <2>6, <2>7, <2>8
<1> HIDE DEF T, x, From
<1>8. Replaces(T, d, comp.out, C)
  <2>1. d \in Nat /\ d <= Len(T) /\ NDisk \in Nat /\ NDisk < Len(tables) /\ a <= d
    <3>1. NDisk < Len(tables) /\ NDisk \in Nat
      BY <1>3, DiskTables
    <3> HIDE DEF NDisk
    <3> QED
      BY <1>5, <1>7, <3>1
  <2>2. \A p \in DOMAIN T : T[p].disk <=> p <= d
    <3> TAKE p \in DOMAIN T
    <3> HIDE DEF NDisk
    <3>1. CASE p = a
      BY <1>7, <2>1, <3>1
    <3>2. CASE p # a
      <4>1. T[p] = tables[From(p)] /\ From(p) \in 1..Len(tables)
        BY <1>7, <3>2
      <4>2. From(p) \in DOMAIN tables
        BY <4>1, TablesInUse
      <4>3. tables[From(p)].disk <=> From(p) <= NDisk
        BY <1>1, <4>2 DEF LogsQueued
      <4>4. From(p) <= NDisk <=> p <= d
        BY <1>5, <1>7, <2>1, <3>2, SMTT(30) DEF From
      <4> QED
        BY <4>1, <4>3, <4>4
    <3> QED
      BY <3>1, <3>2
  <2> HIDE DEF d
  <2>3. \A p, q \in 1..Len(T) : T[p].name = T[q].name => p = q
    <3>1. \A p \in 1..Len(T) : p # a => T[p].name # comp.out
      BY <1>4, <1>7, TablesInUse
    <3>2. \A p, q \in 1..Len(T) : p # a /\ q # a /\ T[p].name = T[q].name => From(p) = From(q)
      BY <1>7, TablesInUse
    <3> QED
      BY <1>7, <3>1, <3>2
  <2>4. \A p \in 1..Len(T) :
            \/ T[p].name = comp.out /\ T[p].disk
            \/ \E q \in 1..Len(tables) : /\ T[p].name = tables[q].name
                                         /\ T[p].disk = tables[q].disk
    BY <1>7
  <2> QED
    BY <1>3, <1>4, <1>7, <1>33, <2>1, <2>2, <2>3, <2>4 DEF Replaces
<1> HIDE DEF d
<1>10. /\ FileTypes' /\ TableTypes' /\ CallerAt' /\ EntriesHaveFiles'
       /\ StateFile' /\ Entries' = Listed(T, <<>>)
       /\ state'.next = state.next
       /\ Used(Entries', state') \subseteq NamesIn(T, <<>>)
       /\ files'[comp.out].cells = C
       /\ \A i \in Used(Entries, state) : files'[i] = files[i]
  <2>1. main.pc \in {"load", "loadpush", "idle", "awake", "blocked", "join"}
    BY <1>3
  <2> QED
    BY <1>2, <1>3, <1>8, <1>32, <2>1, FileReplaced
<1>11. HistTypes'
  BY <1>1, <1>2 DEF HistTypes
<1>12. FileTypes'
  BY <1>10
<1>13. TableTypes'
  BY <1>10
<1>14. CallerTypes'
  BY <1>1, <1>2 DEF CallerTypes
<1>15. SerTypes'
  BY <1>1, <1>2 DEF SerTypes
<1>16. CompTypes'
  BY <1>1, <1>2, <1>3 DEF CompTypes
<1>17. CallerAt'
  BY <1>10
<1>18. OneCompaction'
  BY <1>1, <1>2, <1>3 DEF OneCompaction
<1>19. EntriesHaveFiles'
  BY <1>10
<1>20. StateFile'
  BY <1>10
<1>21. WorkersFiles'
  <2> DEFINE U == Used(Entries, state)
             V == Used(Entries', state')
  <2>1. \A i \in V : \E p \in 1..Len(T) : i = T[p].name
    BY <1>3, <1>10 DEF NamesIn
  <2>2. \A i \in V : i = comp.out \/ i \in U
    <3>1. \A p \in 1..Len(T) : T[p].name = comp.out \/ T[p].name \in U
      BY <1>7, TablesInUse
    <3> QED
      BY <2>1, <3>1
  <2>3. \A k \in 1..n : /\ job.names[k] \notin V /\ job.names[k] \in U
                        /\ job.names[k] < state.next
    <3> TAKE k \in 1..n
    <3>1. /\ a + k - 1 \in 1..Len(tables) /\ tables[a + k - 1].name = job.names[k]
      BY <1>5
    <3>2. job.names[k] \in U /\ job.names[k] < state.next /\ job.names[k] # comp.out
      BY <1>4, <3>1, TablesInUse
    <3>3. \A p \in 1..Len(T) : T[p].name # job.names[k]
      <4> TAKE p \in 1..Len(T)
      <4>1. CASE p = a
        BY <1>7, <3>2, <4>1
      <4>2. CASE p # a
        <5>1. /\ T[p] = tables[From(p)] /\ From(p) \in 1..Len(tables)
              /\ From(p) # a + k - 1
          BY <1>7, <4>2
        <5> QED
          BY <3>1, <5>1, TablesInUse
      <4> QED
        BY <4>1, <4>2
    <3> QED
      BY <2>1, <3>2, <3>3
  <2>4. Apart(U, state.next)
    BY <1>1 DEF WorkersFiles
  <2>5. state'.next = state.next /\ DOMAIN job.names = 1..n
    BY <1>5, <1>10
  <2> HIDE DEF From, T, n
  <2> QED
    BY <1>2, <1>3, <2>2, <2>3, <2>4, <2>5 DEF WorkersFiles, Apart
<1>22. LogsQueued'
  <2>1. Pend \in {0, 1} /\ Pend' = Pend /\ Len(squeue) \in Nat
    BY <1>1, <1>2 DEF SerTypes, Pend
  <2>2. NDisk = Len(tables) - Pend - Len(squeue) - 1 /\ NDisk \in Nat
    BY <1>1, <1>3 DEF NDisk, LogsQueued
  <2>3. NDisk' = Len(T) - Pend - Len(squeue) - 1
    <3>1. LastIsLog'
      BY <1>2, <1>3 DEF LastIsLog
    <3> QED
      BY <1>2, <1>7, <2>1, <3>1 DEF NDisk
  <2>4. Len(tables) \in Nat /\ Len(T) = Len(tables) - n + 1 /\ n \in Nat /\ a \in Nat
        /\ a + n - 1 <= NDisk /\ a >= 1
    BY <1>5, <1>7
  <2> HIDE DEF NDisk
  <2>5. NDisk' = d /\ d = NDisk - n + 1 /\ a <= d /\ d \in Nat
    BY <2>1, <2>2, <2>3, <2>4 DEF d
  <2>6. ASSUME NEW q \in 1..Len(tables), q > NDisk
        PROVE  T[q - n + 1] = tables[q]
    <3>1. q - n + 1 \in (a + 1)..(Len(tables) - n + 1) /\ (q - n + 1) + n - 1 = q
      BY <2>2, <2>4, <2>6
    <3> QED
      BY <1>7, <3>1
  <2>7. Pend = 1 => T[NDisk' + 1].name = ser.name
    <3> HAVE Pend = 1
    <3>1. NDisk + 1 \in 1..Len(tables) /\ NDisk + 1 > NDisk
      BY <2>1, <2>2
    <3>2. (NDisk + 1) - n + 1 = NDisk' + 1
      BY <2>2, <2>4, <2>5
    <3>3. tables[NDisk + 1].name = ser.name
      BY <1>1 DEF LogsQueued
    <3> QED
      BY <2>6, <3>1, <3>2, <3>3
  <2>8. ASSUME NEW k \in DOMAIN squeue
        PROVE  T[NDisk' + Pend' + k].name = squeue[k]
    <3>1. k \in 1..Len(squeue) /\ k \in Nat
      BY <1>1 DEF SerTypes
    <3>2. NDisk + Pend + k \in 1..Len(tables) /\ NDisk + Pend + k > NDisk
      BY <2>1, <2>2, <3>1
    <3>3. (NDisk + Pend + k) - n + 1 = NDisk' + Pend' + k
      BY <2>1, <2>2, <2>4, <2>5, <3>1, SMTT(30)
    <3>4. tables[NDisk + Pend + k].name = squeue[k]
      BY <1>1 DEF LogsQueued
    <3> QED
      BY <2>6, <3>2, <3>3, <3>4
  <2>9. \A p \in DOMAIN T : T[p].disk <=> p <= NDisk'
    BY <1>8, <2>5 DEF Replaces
  <2>10. tables' = T /\ squeue' = squeue /\ ser' = ser /\ NDisk' \in Nat
    BY <1>2, <1>7, <2>5
  <2> HIDE DEF d
  <2> QED
    BY <2>1, <2>7, <2>8, <2>9, <2>10 DEF LogsQueued
<1>23. CompactionsAreValid'
  BY <1>2, <1>3 DEF CompactionsAreValid
<1>24. TablesFollowFiles'
  <2>1. ASSUME NEW p \in 1..Len(T), p # a
        PROVE  T[p].cells = Newest(hist, files'[T[p].name].cells
                                             \cup Unsynced(T, p, synced, applied))
    <3>1. /\ T[p] = tables[From(p)] /\ From(p) \in 1..Len(tables)
          /\ From(p) = Len(tables) <=> p = Len(T)
      BY <1>7, <2>1
    <3> HIDE DEF From, T
    <3>2. files'[tables[From(p)].name] = files[tables[From(p)].name]
      BY <1>10, <3>1, TablesInUse
    <3>3. Unsynced(T, p, synced, applied) = Unsynced(tables, From(p), synced, applied)
      BY <3>1 DEF Unsynced
    <3>4. From(p) \in DOMAIN tables
      BY <3>1, TablesInUse
    <3>5. tables[From(p)].cells =
              Newest(hist, files[tables[From(p)].name].cells
                           \cup Unsynced(tables, From(p), synced, applied))
      BY <1>1, <3>4 DEF TablesFollowFiles, Follow
    <3> QED
      BY <3>1, <3>2, <3>3, <3>5
  <2>2. T[a].cells = Newest(hist, files'[T[a].name].cells
                                      \cup Unsynced(T, a, synced, applied))
    <3>1. Unsynced(T, a, synced, applied) = {}
      <4>1. a # Len(T)
        BY <1>7
      <4> QED
        BY <4>1 DEF Unsynced
    <3>2. T[a].cells = C /\ T[a].name = comp.out /\ files'[comp.out].cells = C
      BY <1>7, <1>10
    <3>3. C \cup {} = C
      OBVIOUS
    <3> QED
      BY <1>9, <3>1, <3>2, <3>3
  <2>3. tables' = T /\ DOMAIN T = 1..Len(T)
    BY <1>7
  <2> HIDE DEF From, T
  <2> QED
    BY <1>2, <2>1, <2>2, <2>3 DEF TablesFollowFiles, Follow
<1>25. FilesAreComplete'
  <2> SUFFICES ASSUME ~torn PROVE Whole(hist, files', Entries', synced)
    BY <1>2 DEF FilesAreComplete
  <2>1. Whole(hist, files, Entries, synced)
    BY <1>1 DEF FilesAreComplete
  <2> DEFINE A == OnFile(hist, files, Entries)
             B == OnFile(hist, files', Entries')
             f == job.filterErasures
             N == Len(tables)
  <2>2. /\ DOMAIN A = DOMAIN Entries /\ DOMAIN B = DOMAIN Entries'
        /\ \A p \in DOMAIN A : A[p].cells = Newest(hist, files[Entries[p].name].cells)
        /\ \A p \in DOMAIN B : B[p].cells = Newest(hist, files'[Entries'[p].name].cells)
    BY DEF OnFile
  <2> HIDE DEF A, B, f
  <2>3. /\ DOMAIN Entries = 1..N /\ DOMAIN Entries' = 1..Len(T)
        /\ \A p \in 1..N : Entries[p].name = tables[p].name
        /\ \A p \in 1..Len(T) : Entries'[p].name = T[p].name
    <3>1. Entries = Listed(tables, <<>>) /\ Entries' = Listed(T, <<>>)
      BY <1>3, <1>10 DEF Entries
    <3>2. tables \in Seq(TableSet) /\ T \in Seq(TableSet)
      BY <1>1, <1>7 DEF TableTypes
    <3> QED
      BY <3>1, <3>2, ListedTables
  <2>4. ASSUME NEW p \in 1..Len(T), p # a
        PROVE  From(p) \in 1..N /\ B[p].cells = A[From(p)].cells
    <3>1. T[p] = tables[From(p)] /\ From(p) \in 1..N
      BY <1>7, <2>4
    <3> HIDE DEF From
    <3>2. files'[tables[From(p)].name] = files[tables[From(p)].name]
      BY <1>10, <3>1, TablesInUse
    <3> QED
      BY <2>2, <2>3, <3>1, <3>2
  <2>5. B[a].cells = C
    <3>1. a \in 1..Len(T) /\ T[a].name = comp.out /\ files'[comp.out].cells = C
      BY <1>7, <1>10
    <3> QED
      BY <1>9, <2>2, <2>3, <3>1
  <2>6. \A k \in 1..n : W[k].cells = A[a + k - 1].cells
    <3> TAKE k \in 1..n
    <3>1. a + k - 1 \in 1..N /\ a + k - 1 # N /\ W[k] = tables[a + k - 1]
      BY <1>5, <1>6
    <3>2. tables[a + k - 1].cells = Newest(hist, files[tables[a + k - 1].name].cells)
      BY <3>1, CellsOfTables
    <3> QED
      BY <2>2, <2>3, <3>1, <3>2
  <2>7. /\ Len(T) = N - n + 1 /\ N \in Nat /\ a \in 1..N /\ n \in 1..N
        /\ a + n - 1 <= N
    BY <1>5, <1>7
  <2>8. /\ \A p \in 1..(a - 1) : p \in 1..Len(T) /\ p # a /\ From(p) = p
        /\ \A p \in (a + 1)..(N - n + 1) : p \in 1..Len(T) /\ p # a /\ From(p) = p + n - 1
    BY <2>7 DEF From
  <2> HIDE DEF From, N, T
  <2>9. /\ \A p \in 1..(a - 1) : B[p].cells = A[p].cells
        /\ \A p \in (a + 1)..(N - n + 1) : B[p].cells = A[p + n - 1].cells
    BY <2>4, <2>8
  <2>10. /\ DOMAIN W = 1..n /\ C = MergedIn(hist, W, f) /\ f \in BOOLEAN
         /\ f => a = 1
    BY <1>5, <1>6 DEF f
  <2> HIDE DEF W, C
  <2>11. Compacts(hist, A, B, N, a, n, f)
    <3>1. /\ DOMAIN A = 1..N /\ DOMAIN B = 1..(N - n + 1)
      BY <2>2, <2>3, <2>7
    <3>2. \E Z : /\ DOMAIN Z = 1..n /\ \A p \in 1..n : Z[p].cells = A[a + p - 1].cells
                 /\ B[a].cells = MergedIn(hist, Z, f)
      BY <2>5, <2>6, <2>10
    <3> QED
      BY <2>7, <2>9, <3>1, <3>2 DEF Compacts
  <2>12. Shown(hist, B) = Shown(hist, A)
    BY <2>10, <2>11, MergeCompacted
  <2> QED
    BY <2>1, <2>12 DEF Whole, A, B
<1> QED
  BY <1>11, <1>12, <1>13, <1>14, <1>15, <1>16, <1>17, <1>18, <1>19,
     <1>20, <1>21, <1>22, <1>23, <1>24, <1>25 DEF IInv, Types

-----------------------------------------------------------------------------
(* Each action keeps the invariant: the end of the process.                *)

\* What a start finds depends on the names of the tables.
LEMMA WholeNamed ==
    ASSUME NEW h, NEW F, NEW D, NEW E, NEW n, DOMAIN D = DOMAIN E,
           \A p \in DOMAIN D : D[p].name = E[p].name
    PROVE  Whole(h, F, D, n) <=> Whole(h, F, E, n)
<1>1. OnFile(h, F, D) = OnFile(h, F, E)
  BY DEF OnFile
<1> QED
  BY <1>1 DEF Whole

\* Complete says that of the state file.
LEMMA CompleteIsWhole ==
    ASSUME IInv
    PROVE  Complete <=> Whole(hist, files, InState(state), synced)
<1> DEFINE E == InState(state)
           R == [p \in DOMAIN state.names |->
                    [cells |-> IF state.names[p] \in DOMAIN files
                               THEN Newest(hist, files[state.names[p]].cells)
                               ELSE {}]]
<1>1. state \in StateSet /\ HaveFiles(E, files, state.next)
  BY DEF IInv, Types, TableTypes, StateFile
<1>2. /\ DOMAIN E = 1..Len(state.names) /\ DOMAIN state.names = 1..Len(state.names)
      /\ \A p \in 1..Len(state.names) : E[p].name = state.names[p]
  <2>1. DOMAIN state.names = 1..Len(state.names)
    BY <1>1 DEF StateSet
  <2> QED
    BY <1>1, <2>1, InStateShape
<1> HIDE DEF E
<1>3. \A p \in 1..Len(state.names) : state.names[p] \in DOMAIN files
  BY <1>1, <1>2 DEF HaveFiles
<1>4. R = OnFile(hist, files, E)
  BY <1>2, <1>3 DEF OnFile
<1> HIDE DEF R
<1>5. Recovered = Shown(hist, R)
  <2>1. Recovered = Merged(R, TRUE)
    BY DEF Recovered, R
  <2>2. Merged(R, TRUE) = MergedIn(hist, R, TRUE)
    BY DEF Merged, MergedIn
  <2> QED
    BY <2>1, <2>2 DEF Shown
<1>6. Visible(synced) = VisibleIn(hist, synced)
  BY MergedHere
<1> QED
  BY <1>4, <1>5, <1>6 DEF Complete, Whole, E

\* Once there is a writable table, the state file names the tables.
LEMMA StateListsTables ==
    ASSUME IInv, initialized
    PROVE  /\ main.pc # "down" /\ Entries = Listed(tables, <<>>)
           /\ DOMAIN Entries = 1..Len(tables)
           /\ DOMAIN InState(state) = 1..Len(tables)
           /\ \A p \in 1..Len(tables) : /\ Entries[p].name = tables[p].name
                                        /\ InState(state)[p].name = tables[p].name
           /\ Whole(hist, files, Entries, synced) <=>
                  Whole(hist, files, InState(state), synced)
<1>1. /\ CallerAt /\ StateFile /\ tables \in Seq(TableSet) /\ state \in StateSet
  BY DEF IInv, Types, TableTypes
<1>2. main.pc # "down" /\ main.todo = <<>>
  BY <1>1 DEF CallerAt
<1>3. Entries = Listed(tables, <<>>)
  BY <1>2 DEF Entries
<1>4. /\ DOMAIN Entries = 1..Len(tables)
      /\ \A p \in 1..Len(tables) : Entries[p].name = tables[p].name
  BY <1>1, <1>3, ListedTables
<1>5. state.names = [p \in DOMAIN tables |-> tables[p].name] /\ DOMAIN tables = 1..Len(tables)
  BY <1>1 DEF StateFile
<1>6. /\ Len(state.names) = Len(tables)
      /\ \A p \in 1..Len(tables) : state.names[p] = tables[p].name
  BY <1>1, <1>5 DEF StateSet
<1>7. /\ DOMAIN InState(state) = 1..Len(tables)
      /\ \A p \in 1..Len(tables) : InState(state)[p].name = tables[p].name
  BY <1>1, <1>6, InStateShape
<1>8. Whole(hist, files, Entries, synced) <=> Whole(hist, files, InState(state), synced)
  <2> DEFINE E == Entries
             D == InState(state)
  <2>1. DOMAIN D = DOMAIN E /\ \A p \in DOMAIN D : D[p].name = E[p].name
    BY <1>4, <1>7
  <2> HIDE DEF D, E
  <2>2. Whole(hist, files, D, synced) <=> Whole(hist, files, E, synced)
    BY <2>1, WholeNamed
  <2> QED
    BY <2>2 DEF D, E
<1> QED
  BY <1>2, <1>3, <1>4, <1>7, <1>8

\* A process that ends leaves what the next one needs.
LEMMA StopKept == ASSUME IInv, NEW n \in Nat, main.pc # "down",
           synced <= n, n <= Len(hist), n # synced => initialized /\ LastIsLog,
           Stop(n), stops' \in 0..MaxStops PROVE IInv'
<1>1. /\ Types /\ HistTypes /\ FileTypes /\ TableTypes /\ CallerTypes
      /\ SerTypes /\ CompTypes /\ CallerAt /\ OneCompaction
      /\ EntriesHaveFiles /\ StateFile /\ WorkersFiles /\ LogsQueued
      /\ CompactionsAreValid /\ TablesFollowFiles /\ FilesAreComplete
  BY DEF IInv, Types
<1>2. /\ state' = state /\ requests' = requests
  BY DEF Stop, callVars, diskVars, serVars, compVars, bounds
<1> DEFINE E == InState(state)
           F == IF n = synced THEN files
                ELSE [files EXCEPT ![LastTable.name].cells = @ \cup (synced + 1)..n]
<1>3. /\ hist' = SubSeq(hist, 1, n) /\ applied' = n /\ synced' = n
      /\ files' = Restrict(F, DOMAIN F \ Garbage(F))
      /\ tables' = <<>> /\ nextIndex' = 0 /\ initialized' = FALSE
      /\ main' = [pc |-> "down", todo |-> <<>>]
      /\ squeue' = <<>> /\ ser' = Idle /\ cqueue' = <<>> /\ comp' = Idle
      /\ scheduled' = FALSE /\ fullRequested' = FALSE
      /\ torn' = (torn \/ (~initialized /\ ~Complete))
  BY DEF Stop
<1>4. /\ n \in Nat /\ synced \in Nat /\ synced <= n /\ n <= Len(hist)
      /\ Len(hist) \in Nat
  BY <1>1 DEF HistTypes
<1>5. Entries' = E
  BY <1>2, <1>3 DEF Entries
<1>6. /\ hist' \in Seq(Mutations) /\ Len(hist') = n
      /\ \A i \in 1..n : hist[i] = hist'[i]
  <2>1. hist \in Seq(Mutations) /\ \A i \in 1..n : hist[i] \in Mutations
    BY <1>1, <1>4 DEF HistTypes
  <2> QED
    BY <1>3, <1>4, <2>1
<1>7. /\ DOMAIN F = DOMAIN files /\ F \in [DOMAIN files -> FileSet]
      /\ n = synced => F = files
      /\ \A i \in DOMAIN files : /\ F[i].disk = files[i].disk
                                 /\ \A c \in F[i].cells : c \in 1..n
      /\ state.next \in DOMAIN files => F[state.next] = files[state.next]
      /\ n # synced =>
             /\ \A i \in DOMAIN files : i # LastTable.name => F[i] = files[i]
             /\ F[LastTable.name].cells =
                    files[LastTable.name].cells \cup (synced + 1)..n
  <2>1. /\ files \in [DOMAIN files -> FileSet]
        /\ \A i \in DOMAIN files : \A c \in files[i].cells : c \in 1..synced
        /\ \A c \in 1..synced : c \in 1..n
    BY <1>1, <1>4 DEF FileTypes
  <2>2. CASE n = synced
    BY <2>1, <2>2
  <2>3. CASE n # synced
    <3> DEFINE l == LastTable.name
               C == files[l].cells \cup (synced + 1)..n
               x == [files[l] EXCEPT !.cells = C]
    <3>1. l \in DOMAIN files /\ l < state.next /\ state.next \in Nat /\ l # state.next
      <4>1. LastIsLog /\ Continues(hist)
        BY <2>3, HistContinues
      <4>2. LastTable.name \in DOMAIN files /\ LastTable.name < state.next
        BY <4>1, WritableTable
      <4>3. state.next \in Nat
        BY TablesInUse
      <4>4. LastTable.name \in Nat
        BY <1>1, <4>2 DEF FileTypes
      <4> QED
        BY <4>2, <4>3, <4>4
    <3>2. F = [files EXCEPT ![l] = x]
      BY <2>3, <3>1
    <3> HIDE DEF l
    <3>3. \A c \in C : c \in 1..n
      <4>1. \A c \in (synced + 1)..n : c \in 1..n
        BY <1>4
      <4> QED
        BY <2>1, <3>1, <4>1
    <3> HIDE DEF C
    <3>4. files[l] \in FileSet /\ C \in SUBSET Nat
      BY <2>1, <3>1, <3>3
    <3>5. x \in FileSet /\ x.disk = files[l].disk /\ x.cells = C
      BY <3>4 DEF FileSet
    <3> HIDE DEF x, F
    <3>6. /\ DOMAIN F = DOMAIN files /\ F \in [DOMAIN files -> FileSet]
          /\ F[l] = x /\ \A i \in DOMAIN files : i # l => F[i] = files[i]
      BY <2>1, <3>1, <3>2, <3>5
    <3>7. \A i \in DOMAIN files : F[i].disk = files[i].disk /\ \A c \in F[i].cells : c \in 1..n
      BY <2>1, <3>3, <3>5, <3>6
    <3> QED
      BY <2>3, <3>1, <3>5, <3>6, <3>7 DEF l, C
  <2> QED
    BY <2>2, <2>3
<1> HIDE DEF F
<1>8. /\ DOMAIN files' = DOMAIN F \ Garbage(F)
      /\ \A i \in DOMAIN files' : i \in DOMAIN files /\ files'[i] = F[i]
      /\ files' = [i \in DOMAIN files' |-> files'[i]]
  <2>1. files' = [i \in DOMAIN F \ Garbage(F) |-> F[i]]
    BY <1>3 DEF Restrict
  <2> QED
    BY <1>7, <2>1
<1>10. \A p \in DOMAIN E : /\ E[p].name \in DOMAIN files' /\ files'[E[p].name] = F[E[p].name]
                           /\ files'[E[p].name].disk = files[E[p].name].disk
  <2> TAKE p \in DOMAIN E
  <2>1. E[p].name \in DOMAIN files
    BY <1>1 DEF StateFile, HaveFiles
  <2>2. E[p].name \in Range(state.names)
    <3>1. state \in StateSet
      BY <1>1 DEF TableTypes
    <3>2. /\ DOMAIN E = 1..Len(state.names)
          /\ \A q \in 1..Len(state.names) : E[q].name = state.names[q]
          /\ Range(state.names) = {state.names[q] : q \in 1..Len(state.names)}
      BY <3>1, InStateShape
    <3> HIDE DEF E
    <3> QED
      BY <3>2
  <2>3. E[p].name \notin Garbage(F)
    BY <2>2 DEF Garbage
  <2> QED
    BY <1>7, <1>8, <2>1, <2>3
<1>9. HaveFiles(E, files', state.next)
  <2>1. state.next \in Nat /\ state.next <= state.next /\ HaveFiles(E, files, state.next)
    BY <1>1, TablesInUse DEF StateFile
  <2>2. \A p \in DOMAIN E : E[p].name \in Nat
    BY EntriesInUse
  <2>3. \A p \in DOMAIN E : /\ E[p].name \in DOMAIN files'
                            /\ files'[E[p].name].disk = files[E[p].name].disk
    BY <1>10
  <2> HIDE DEF E
  <2> QED
    BY <2>1, <2>2, <2>3, FilesChange
<1>11. HistTypes'
  <2>1. hist' \in Seq(Mutations) /\ Len(hist') = n
    BY <1>6
  <2>2. n <= MaxWrites
    BY <1>1, <1>4, LocalTableAssumption DEF HistTypes
  <2> QED
    BY <1>3, <1>4, <2>1, <2>2 DEF HistTypes
<1>12. FileTypes'
  <2>1. DOMAIN files' \subseteq Nat /\ files' \in [DOMAIN files' -> FileSet]
    BY <1>1, <1>7, <1>8 DEF FileTypes
  <2>2. \A i \in DOMAIN files' : \A c \in files'[i].cells : c \in 1..synced'
    BY <1>3, <1>7, <1>8
  <2> QED
    BY <2>1, <2>2 DEF FileTypes
<1>13. TableTypes'
  <2>1. tables' \in Seq(TableSet) /\ nextIndex' \in Nat
    BY <1>3
  <2> QED
    BY <1>1, <1>2, <2>1 DEF TableTypes
<1>14. CallerTypes'
  <2>1. main' \in MainSet /\ initialized' \in BOOLEAN
    <3>1. <<>> \in Seq(EntrySet) /\ "down" \in MainPc
      BY DEF MainPc
    <3> QED
      BY <1>3, <3>1 DEF MainSet
  <2>2. torn' \in BOOLEAN
    BY <1>3
  <2> QED
    BY <1>1, <1>2, <2>1, <2>2 DEF CallerTypes
<1>15. SerTypes'
  <2>1. squeue' = <<>> /\ Len(<<>>) = 0 /\ <<>> \in Seq(Nat) /\ ser' = Idle
    BY <1>3
  <2> QED
    BY <2>1, LocalTableAssumption DEF SerTypes
<1>16. CompTypes'
  <2>1. cqueue' \in Seq(JobSet) /\ scheduled' \in BOOLEAN /\ fullRequested' \in BOOLEAN
    <3>1. <<>> \in Seq(JobSet)
      OBVIOUS
    <3> QED
      BY <1>3, <3>1
  <2> QED
    BY <1>3, <2>1 DEF CompTypes
<1>17. CallerAt'
  <2>1. synced' = Len(hist')
    BY <1>3, <1>6
  <2>2. main'.pc = "down" /\ main'.todo = <<>>
    BY <1>3
  <2> QED
    BY <1>3, <2>1, <2>2 DEF CallerAt
<1>18. OneCompaction'
  <2>1. Len(<<>>) = 0
    OBVIOUS
  <2> QED
    BY <1>3, <2>1 DEF OneCompaction
<1>19. EntriesHaveFiles'
  BY <1>2, <1>5, <1>9 DEF EntriesHaveFiles
<1>20. StateFile'
  <2>1. main'.pc = "down" /\ ~initialized'
    BY <1>3
  <2>2. \A i \in DOMAIN files' : i <= state.next
    BY <1>1, <1>7, <1>8 DEF StateFile
  <2>3. state.next \in DOMAIN files' =>
            ~files'[state.next].disk /\ files'[state.next].cells = {}
    BY <1>1, <1>7, <1>8 DEF StateFile
  <2> QED
    BY <1>2, <1>9, <2>1, <2>2, <2>3 DEF StateFile
<1>21. WorkersFiles'
  BY <1>3, WorkerStates DEF WorkersFiles, Apart
<1>22. LogsQueued'
  <2>1. tables' = <<>> /\ squeue' = <<>> /\ ser'.pc = "idle" /\ main'.pc = "down"
    BY <1>3, WorkerStates
  <2>2. Len(<<>>) = 0 /\ DOMAIN <<>> = {}
    OBVIOUS
  <2>3. Pend' = 0 /\ ~LastIsLog'
    BY <2>1 DEF Pend, LastIsLog
  <2>4. NDisk' = 0
    <3>1. Len(tables') = 0 /\ Len(squeue') = 0
      BY <2>1, <2>2
    <3>2. NDisk' = 0 - 0 - 0 - 0
      BY <2>3, <3>1 DEF NDisk
    <3> QED
      BY <3>2
  <2> QED
    BY <2>1, <2>2, <2>3, <2>4 DEF LogsQueued
<1>23. CompactionsAreValid'
  <2>1. DOMAIN <<>> = {}
    OBVIOUS
  <2> QED
    BY <1>3, <2>1, WorkerStates DEF CompactionsAreValid
<1>24. TablesFollowFiles'
  <2>1. DOMAIN <<>> = {}
    OBVIOUS
  <2> QED
    BY <1>3, <2>1 DEF TablesFollowFiles, Follow
<1>25. FilesAreComplete'
  <2> SUFFICES ASSUME ~torn' PROVE Whole(hist', files', E, n)
    BY <1>3, <1>5 DEF FilesAreComplete
  <2>1. ~torn /\ (initialized \/ Complete)
    BY <1>1, <1>3 DEF CallerTypes
  <2>2. Whole(hist, files, E, synced)
    <3>1. CASE Complete
      BY <3>1, CompleteIsWhole DEF E
    <3>2. CASE initialized
      <4>1. Whole(hist, files, Entries, synced)
        BY <1>1, <2>1 DEF FilesAreComplete
      <4> QED
        BY <3>2, <4>1, StateListsTables DEF E
    <3> QED
      BY <2>1, <3>1, <3>2
  <2>3. Whole(hist, F, E, n)
    <3>1. CASE n = synced
      BY <1>7, <2>2, <3>1
    <3>2. CASE n # synced
      <4> DEFINE L == Len(tables)
      <4>1. initialized /\ LastIsLog
        BY <3>2
      <4>2. /\ L \in Nat \ {0} /\ DOMAIN E = 1..L
            /\ \A p \in 1..L : E[p].name = tables[p].name
        BY <4>1, HistContinues, WritableTable, StateListsTables DEF E
      <4>3. /\ L \in 1..L /\ LastTable.name = tables[L].name
            /\ \A p \in 1..L : p # L => tables[p].name # LastTable.name
        BY <4>1, HistContinues, WritableTable
      <4>4. \A p \in 1..L : \A c \in files[E[p].name].cells : c \in 1..synced
        BY <1>1, <4>2, TablesInUse DEF FileTypes
      <4>5. \A p \in 1..(L - 1) : F[E[p].name].cells = files[E[p].name].cells
        <5> TAKE p \in 1..(L - 1)
        <5>1. p \in 1..L /\ p # L
          BY <4>2
        <5>2. tables[p].name \in DOMAIN files /\ tables[p].name # LastTable.name
          BY <4>3, <5>1, TablesInUse
        <5> QED
          BY <1>7, <4>2, <5>1, <5>2
      <4>6. F[E[L].name].cells = files[E[L].name].cells \cup (synced + 1)..n
        BY <1>7, <3>2, <4>2, <4>3
      <4>7. synced \in Nat
        BY <1>1 DEF HistTypes
      <4> HIDE DEF L, F, E
      <4> QED
        BY <1>4, <2>2, <4>2, <4>4, <4>5, <4>6, <4>7, WholeSynced
    <3> QED
      BY <3>1, <3>2
  <2>4. Whole(hist, files', E, n)
    <3>1. \A p \in DOMAIN E : F[E[p].name].cells = files'[E[p].name].cells
      BY <1>9, <1>10
    <3> HIDE DEF F, E
    <3> QED
      BY <2>3, <3>1, WholeSame
  <2>5. \A p \in DOMAIN E : \A c \in files'[E[p].name].cells : c \in 1..n
    <3>1. \A p \in DOMAIN E : E[p].name \in DOMAIN files'
      BY <1>9 DEF HaveFiles
    <3> QED
      BY <1>7, <1>8, <3>1
  <2>6. \A i \in 1..n : hist[i] = hist'[i]
    BY <1>6
  <2> HIDE DEF E, F
  <2> QED
    BY <1>4, <2>4, <2>5, <2>6, WholeLonger
<1> QED
  BY <1>11, <1>12, <1>13, <1>14, <1>15, <1>16, <1>17, <1>18, <1>19,
     <1>20, <1>21, <1>22, <1>23, <1>24, <1>25 DEF IInv, Types

\* A crash keeps the invariant.
LEMMA CrashKept == ASSUME IInv, Crash PROVE IInv'
<1>1. HistTypes /\ CallerTypes /\ CallerAt
  BY DEF IInv, Types
<1>2. main.pc # "down" /\ stops < MaxStops /\ stops' = stops + 1
  BY DEF Crash
<1>3. PICK n \in synced..applied : Stop(n)
  BY DEF Crash
<1>4. /\ n \in Nat /\ synced <= n /\ n <= Len(hist)
      /\ synced = Len(hist) => n = synced
  BY <1>1, <1>3 DEF HistTypes
<1>5. n # synced => initialized /\ LastIsLog
  <2>1. synced # Len(hist) => main.pc \in {"idle", "awake", "blocked", "join"}
    BY <1>1 DEF CallerAt
  <2>2. main.pc \in {"idle", "awake", "blocked", "join"} => initialized /\ LastIsLog
    BY <1>1 DEF CallerAt, LastIsLog
  <2> QED
    BY <1>4, <2>1, <2>2
<1>6. stops' \in 0..MaxStops
  <2>1. stops \in 0..MaxStops /\ MaxStops \in Nat
    BY <1>1, LocalTableAssumption DEF CallerTypes
  <2> QED
    BY <1>2, <2>1
<1> QED
  BY <1>2, <1>3, <1>4, <1>5, <1>6, StopKept

\* The end of a shutdown keeps the invariant.
LEMMA JoinedKept == ASSUME IInv, Joined PROVE IInv'
<1>1. HistTypes /\ CallerTypes /\ CallerAt
  BY DEF IInv, Types
<1>2. main.pc = "join" /\ stops' = stops
  BY DEF Joined
<1>3. PICK n \in synced..Len(hist) : Stop(n)
  BY DEF Joined
<1>4. n \in Nat /\ synced <= n /\ n <= Len(hist)
  BY <1>1, <1>3 DEF HistTypes
<1>5. initialized /\ LastIsLog
  BY <1>1, <1>2 DEF CallerAt, LastIsLog
<1>6. stops' \in 0..MaxStops
  BY <1>1, <1>2 DEF CallerTypes
<1>7. main.pc # "down"
  BY <1>2
<1> QED
  BY <1>3, <1>4, <1>5, <1>6, <1>7, StopKept

-----------------------------------------------------------------------------
(* The invariant, and what follows from it.                                *)

\* The directory at first: each file has one mutation, and the merge of them
\* shows the last of each key.
LEMMA InitKept == ASSUME Init PROVE IInv
<1> DEFINE n == Len(Old)
           F == [i \in 1..n |-> [disk |-> i <= OldDisk, cells |-> {i}]]
<1>1. /\ n \in Nat /\ DOMAIN Old = 1..n /\ n <= MaxWrites /\ OldDisk \in Nat
      /\ OldDisk <= n /\ QMax \in Nat /\ MaxRequests \in Nat /\ MaxStops \in Nat
      /\ Old \in Seq(Mutations)
  <2>1. /\ Old \in Seq(Range(Old)) /\ n <= MaxWrites /\ OldDisk \in 0..n
        /\ QMax \in Nat \ {0} /\ MaxRequests \in Nat /\ MaxStops \in Nat
    BY LocalTableAssumption
  <2>2. n \in Nat /\ DOMAIN Old = 1..n
    BY <2>1
  <2>3. Old \in Seq(Mutations)
    <3>1. Range(Old) \subseteq Mutations
      BY DEF Mutations
    <3> HIDE DEF n
    <3> QED
      BY <2>1, <3>1
  <2> QED
    BY <2>1, <2>2, <2>3
<1> HIDE DEF n
<1>2. /\ hist = Old /\ applied = n /\ synced = n /\ files = F
      /\ state = [names |-> [i \in 1..n |-> i], nDisk |-> OldDisk, next |-> n + 1]
      /\ tables = <<>> /\ nextIndex = 0 /\ initialized = FALSE
      /\ main = [pc |-> "down", todo |-> <<>>]
      /\ squeue = <<>> /\ ser = Idle /\ cqueue = <<>> /\ comp = Idle
      /\ scheduled = FALSE /\ fullRequested = FALSE
      /\ requests = 0 /\ stops = 0 /\ torn = FALSE
  BY <1>1 DEF Init, n
<1>3. Len(<<>>) = 0 /\ DOMAIN <<>> = {}
  OBVIOUS
<1>4. HistTypes
  BY <1>1, <1>2 DEF HistTypes, n
<1>5. /\ DOMAIN files = 1..n
      /\ \A i \in 1..n : /\ files[i] \in FileSet /\ files[i].cells = {i}
                         /\ files[i].disk = (i <= OldDisk)
  <2>1. \A i \in 1..n : F[i] = [disk |-> i <= OldDisk, cells |-> {i}]
    OBVIOUS
  <2>2. \A i \in 1..n : (i <= OldDisk) \in BOOLEAN /\ {i} \in SUBSET Nat
    BY <1>1
  <2>3. \A i \in 1..n : [disk |-> i <= OldDisk, cells |-> {i}] \in FileSet
    BY <2>2 DEF FileSet
  <2> QED
    BY <1>2, <2>1, <2>3
<1>6. FileTypes
  <2>1. DOMAIN files \subseteq Nat
    BY <1>1, <1>5
  <2>2. files \in [DOMAIN files -> FileSet]
    <3>1. files = [i \in DOMAIN files |-> files[i]]
      BY <1>2
    <3> QED
      BY <1>5, <3>1
  <2>3. \A i \in DOMAIN files : \A c \in files[i].cells : c \in 1..synced
    BY <1>2, <1>5
  <2> QED
    BY <2>1, <2>2, <2>3 DEF FileTypes
<1>7. /\ state \in StateSet /\ state.next = n + 1 /\ state.nDisk = OldDisk
      /\ Len(state.names) = n /\ \A i \in 1..n : state.names[i] = i
  <2> DEFINE N == [i \in 1..n |-> i]
  <2>1. N \in Seq(Nat) /\ Len(N) = n /\ \A i \in 1..n : N[i] = i
    BY <1>1
  <2>2. state = [names |-> N, nDisk |-> OldDisk, next |-> n + 1]
    BY <1>2
  <2>3. n + 1 \in Nat
    BY <1>1
  <2> HIDE DEF N
  <2> QED
    BY <1>1, <2>1, <2>2, <2>3 DEF StateSet
<1>8. TableTypes
  <2>1. tables \in Seq(TableSet) /\ nextIndex \in Nat
    BY <1>2
  <2> QED
    BY <1>7, <2>1 DEF TableTypes
<1>9. CallerTypes
  <2>1. <<>> \in Seq(EntrySet) /\ "down" \in MainPc
    BY DEF MainPc
  <2>2. main \in MainSet
    BY <1>2, <2>1 DEF MainSet
  <2>3. initialized \in BOOLEAN /\ torn \in BOOLEAN
    BY <1>2
  <2> QED
    BY <1>1, <1>2, <2>2, <2>3 DEF CallerTypes
<1>10. SerTypes
  <2>1. squeue \in Seq(Nat)
    BY <1>2
  <2> QED
    BY <1>1, <1>2, <1>3, <2>1 DEF SerTypes
<1>11. CompTypes
  <2>1. cqueue \in Seq(JobSet)
    BY <1>2
  <2>2. scheduled \in BOOLEAN
    BY <1>2
  <2>3. fullRequested \in BOOLEAN
    BY <1>2
  <2> QED
    BY <1>2, <2>1, <2>2, <2>3 DEF CompTypes
<1>12. CallerAt
  <2>1. main.pc = "down" /\ main.todo = <<>>
    BY <1>2
  <2> QED
    BY <1>2, <2>1 DEF CallerAt, n
<1>13. OneCompaction
  BY <1>2, <1>3 DEF OneCompaction
<1> DEFINE E == InState(state)
<1>14. /\ Entries = E /\ DOMAIN E = 1..n
       /\ \A p \in 1..n : E[p].name = p /\ E[p].disk = (p <= OldDisk)
  <2>1. Entries = E
    BY <1>2 DEF Entries
  <2>2. /\ DOMAIN E = 1..Len(state.names)
        /\ \A p \in 1..Len(state.names) : /\ E[p].name = state.names[p]
                                          /\ E[p].disk = (p <= state.nDisk)
    BY <1>7, InStateShape
  <2> HIDE DEF E
  <2> QED
    BY <1>7, <2>1, <2>2
<1> HIDE DEF E, F
<1>15. HaveFiles(E, files, state.next)
  <2>1. \A p \in 1..n : p < n + 1
    BY <1>1
  <2>2. \A p, q \in 1..n : p < q /\ q <= OldDisk => p <= OldDisk
    BY <1>1
  <2>3. \A p \in DOMAIN E : E[p].name \in DOMAIN files /\ E[p].name < state.next
    BY <1>5, <1>7, <1>14, <2>1
  <2>4. \A p \in DOMAIN E : files[E[p].name].disk = E[p].disk
    <3> TAKE p \in DOMAIN E
    <3>1. p \in 1..n /\ E[p].name = p
      BY <1>14
    <3>2. files[p].disk = (p <= OldDisk) /\ E[p].disk = (p <= OldDisk)
      BY <1>5, <1>14, <3>1
    <3> QED
      BY <3>1, <3>2
  <2>5. \A p, q \in DOMAIN E : E[p].name = E[q].name => p = q
    BY <1>14
  <2>6. \A p, q \in DOMAIN E : p < q /\ E[q].disk => E[p].disk
    BY <1>14, <2>2
  <2> QED
    BY <2>3, <2>4, <2>5, <2>6 DEF HaveFiles
<1>16. EntriesHaveFiles
  BY <1>14, <1>15 DEF EntriesHaveFiles
<1>17. StateFile
  <2>1. \A i \in 1..n : i <= n + 1 /\ n + 1 \notin 1..n
    BY <1>1
  <2>2. n + 1 \notin 1..n
    BY <1>1
  <2>3. main.pc # "publish" /\ ~initialized
    BY <1>2
  <2> QED
    BY <1>5, <1>7, <1>15, <2>1, <2>2, <2>3 DEF StateFile, E
<1>18. WorkersFiles
  BY <1>2, WorkerStates DEF WorkersFiles, Apart
<1>19. LogsQueued
  <2>1. main.pc = "down" /\ ser.pc = "idle"
    BY <1>2, WorkerStates
  <2>2. Pend = 0 /\ ~LastIsLog
    BY <2>1 DEF Pend, LastIsLog
  <2>3. NDisk = 0
    <3>1. Len(tables) = 0 /\ Len(squeue) = 0
      BY <1>2, <1>3
    <3>2. NDisk = 0 - 0 - 0 - 0
      BY <2>2, <3>1 DEF NDisk
    <3> QED
      BY <3>2
  <2> QED
    BY <1>2, <1>3, <2>2, <2>3 DEF LogsQueued
<1>20. CompactionsAreValid
  BY <1>2, <1>3, WorkerStates DEF CompactionsAreValid
<1>21. TablesFollowFiles
  BY <1>2, <1>3 DEF TablesFollowFiles, Follow
<1>22. FilesAreComplete
  <2> DEFINE A == OnFile(Old, files, E)
  <2>1. DOMAIN A = 1..n /\ \A p \in 1..n : A[p].cells = {p}
    <3>1. \A p \in 1..n : Newest(Old, {p}) = {p}
      BY <1>1 DEF Newest
    <3> QED
      BY <1>5, <1>14, <3>1 DEF OnFile
  <2> HIDE DEF A
  <2>2. \A i, p : Top(Old, A, i, p) <=>
            /\ p \in 1..n /\ i = p
            /\ \A q \in 1..n : q > p => Old[q].key # Old[p].key
    BY <2>1 DEF Top
  <2>3. \A i : i \in VisibleIn(Old, n) <=>
            /\ i \in 1..n /\ ~Old[i].erase
            /\ \A j \in 1..n : Old[j].key = Old[i].key => j <= i
    BY DEF VisibleIn, Newest
  <2>4. ASSUME NEW i PROVE i \in Shown(Old, A) <=> i \in VisibleIn(Old, n)
    <3>1. i \in Shown(Old, A) <=> ~Old[i].erase /\ \E p : Top(Old, A, i, p)
      BY MergedIsTop
    <3>2. (\E p : Top(Old, A, i, p)) <=>
              /\ i \in 1..n
              /\ \A q \in 1..n : q > i => Old[q].key # Old[i].key
      BY <2>2
    <3>3. i \in 1..n =>
              ((\A q \in 1..n : q > i => Old[q].key # Old[i].key) <=>
               (\A j \in 1..n : Old[j].key = Old[i].key => j <= i))
      <4> HAVE i \in 1..n
      <4>1. \A q \in 1..n : q > i <=> ~(q <= i)
        BY <1>1
      <4> QED
        BY <4>1
    <3> QED
      BY <2>3, <3>1, <3>2, <3>3
  <2>5. Shown(Old, A) = VisibleIn(Old, n)
    BY <2>4
  <2> QED
    BY <1>2, <1>14, <2>5 DEF FilesAreComplete, Whole, A
<1> QED
  BY <1>4, <1>6, <1>8, <1>9, <1>10, <1>11, <1>12, <1>13, <1>16, <1>17, <1>18,
     <1>19, <1>20, <1>21, <1>22 DEF IInv, Types

\* Every step keeps the invariant.
LEMMA NextKept == ASSUME IInv, [Next]_vars PROVE IInv'
<1>1. CASE UNCHANGED vars
  <2>1. /\ Types /\ HistTypes /\ FileTypes /\ TableTypes /\ CallerTypes
        /\ SerTypes /\ CompTypes /\ CallerAt /\ OneCompaction
        /\ EntriesHaveFiles /\ StateFile /\ WorkersFiles /\ LogsQueued
        /\ CompactionsAreValid /\ TablesFollowFiles /\ FilesAreComplete
    BY DEF IInv, Types
  <2>2. /\ hist' = hist /\ applied' = applied /\ synced' = synced
        /\ files' = files /\ state' = state /\ tables' = tables
        /\ nextIndex' = nextIndex /\ initialized' = initialized /\ main' = main
        /\ squeue' = squeue /\ ser' = ser /\ cqueue' = cqueue /\ comp' = comp
        /\ scheduled' = scheduled /\ fullRequested' = fullRequested
        /\ requests' = requests /\ stops' = stops /\ torn' = torn
    BY <1>1 DEF vars, callVars, diskVars, serVars, compVars, bounds
  <2>3. HistTypes'
    BY <2>1, <2>2 DEF HistTypes
  <2>4. FileTypes'
    BY <2>1, <2>2 DEF FileTypes
  <2>5. TableTypes'
    BY <2>1, <2>2 DEF TableTypes
  <2>6. CallerTypes'
    BY <2>1, <2>2 DEF CallerTypes
  <2>7. SerTypes'
    BY <2>1, <2>2 DEF SerTypes
  <2>8. CompTypes'
    BY <2>1, <2>2 DEF CompTypes
  <2>9. CallerAt'
    BY <2>1, <2>2 DEF CallerAt
  <2>10. OneCompaction'
    BY <2>1, <2>2 DEF OneCompaction
  <2>11. EntriesHaveFiles'
    BY <2>1, <2>2 DEF EntriesHaveFiles, Entries
  <2>12. StateFile'
    BY <2>1, <2>2 DEF StateFile
  <2>13. WorkersFiles'
    BY <2>1, <2>2 DEF WorkersFiles, Apart, Entries
  <2>14. LogsQueued'
    BY <2>1, <2>2 DEF LogsQueued, NDisk, Pend, LastIsLog
  <2>15. CompactionsAreValid'
    BY <2>1, <2>2 DEF CompactionsAreValid, JobIsValid
  <2>16. TablesFollowFiles'
    BY <2>1, <2>2 DEF TablesFollowFiles
  <2>17. FilesAreComplete'
    BY <2>1, <2>2 DEF FilesAreComplete, Entries
  <2> QED
    BY <2>3, <2>4, <2>5, <2>6, <2>7, <2>8, <2>9, <2>10, <2>11, <2>12, <2>13,
       <2>14, <2>15, <2>16, <2>17 DEF IInv, Types
<1>2. CASE Caller
  <2>1. CASE Start
    BY <2>1, StartKept
  <2>2. CASE LoadTable
    BY <2>2, LoadTableKept
  <2>3. CASE LoadPush
    BY <2>3, LoadPushKept
  <2>4. CASE LoadFails
    BY <2>4, LoadFailsKept
  <2>5. CASE CreateLog
    BY <2>5, CreateLogKept
  <2>6. CASE Publish
    BY <2>6, PublishKept
  <2>7. CASE \E m \in Mutation : Write(m)
    BY <2>7, WriteKept
  <2>8. CASE Sync
    BY <2>8, SyncKept
  <2>9. CASE FlushMemory
    BY <2>9, FlushMemoryKept
  <2>10. CASE PushSerialization
    BY <2>10, PushSerializationKept
  <2>11. CASE CompactTable
    BY <2>11, CompactTableKept
  <2>12. CASE ScanBlocks
    BY <2>12, ScanBlocksKept
  <2>13. CASE ScanOpens
    BY <2>13, ScanOpensKept
  <2>14. CASE Shutdown
    BY <2>14, ShutdownKept
  <2>15. CASE Joined
    BY <2>15, JoinedKept
  <2> QED
    BY <1>2, <2>1, <2>2, <2>3, <2>4, <2>5, <2>6, <2>7, <2>8, <2>9, <2>10,
       <2>11, <2>12, <2>13, <2>14, <2>15 DEF Caller
<1>3. CASE Serializer
  BY <1>3, SerializePopKept, SerializeIndexKept, SerializeSwapKept,
     SerializeRemoveKept DEF Serializer
<1>4. CASE Compactor
  BY <1>4, CompactIndexKept, CompactReplaceKept, CompactFinishKept DEF Compactor
<1>5. CASE Crash
  BY <1>5, CrashKept
<1> QED
  BY <1>1, <1>2, <1>3, <1>4, <1>5 DEF Next

\* The inductive invariant of the table: its files, the list of its tables and
\* what the workers are about to do fit together, and the merge of the files in
\* use is what was synced.
THEOREM LocalTableInvariant == Spec => []IInv
<1>1. Init => IInv
  BY InitKept
<1>2. IInv /\ [Next]_vars => IInv'
  BY NextKept
<1> QED
  BY <1>1, <1>2, PTL DEF Spec

\* Every variable has its type, table names are distinct and below nextIndex,
\* and the queues keep to their limits.
THEOREM LocalTableTypes == Spec => []TypeOK
<1>1. ASSUME IInv PROVE TypeOK
  <2>1. HistTypes /\ FileTypes /\ TableTypes /\ CallerTypes /\ SerTypes /\ CompTypes
        /\ CallerAt /\ OneCompaction
    BY <1>1 DEF IInv, Types
  <2>2. \A i \in DOMAIN files : files[i] \in [disk : BOOLEAN, cells : SUBSET DOMAIN hist]
    <3> TAKE i \in DOMAIN files
    <3>1. files[i] \in FileSet /\ \A c \in files[i].cells : c \in 1..synced
      BY <2>1 DEF FileTypes
    <3>2. \A c \in 1..synced : c \in DOMAIN hist
      BY <2>1 DEF HistTypes
    <3>3. files[i].cells \in SUBSET DOMAIN hist
      BY <3>1, <3>2
    <3> HIDE DEF Mutations
    <3> QED
      BY <3>1, <3>3 DEF FileSet
  <2>3. \A p, q \in DOMAIN tables : tables[p].name = tables[q].name => p = q
    BY <1>1, TablesInUse
  <2>4. \A p \in DOMAIN tables : tables[p].name < nextIndex
    <3> TAKE p \in DOMAIN tables
    <3>1. /\ tables[p].name \in Nat /\ tables[p].name < state.next
          /\ state.next \in Nat /\ main.pc # "down"
      <4>1. DOMAIN <<>> = {}
        OBVIOUS
      <4> QED
        BY <1>1, <2>1, <4>1, TablesInUse DEF CallerAt
    <3>2. nextIndex = state.next + 0 \/ nextIndex = state.next + 1
      BY <2>1, <3>1 DEF CallerAt
    <3> QED
      BY <3>1, <3>2
  <2> QED
    BY <2>1, <2>2, <2>3, <2>4 DEF TypeOK, HistTypes, TableTypes, CallerTypes,
                                  SerTypes, CompTypes, OneCompaction
<1>2. Spec => []IInv
  BY LocalTableInvariant
<1>3. IInv => TypeOK
  BY <1>1
<1> QED
  BY <1>2, <1>3, PTL

\* scan() sees the newest mutation of every key that is past the buffer,
\* whatever was serialized or compacted meanwhile.
THEOREM ScansSeeNewest == Spec => []ReadsSeeNewest
<1>1. ASSUME IInv, initialized, ~torn PROVE Merged(tables, TRUE) = Visible(applied)
  <2> DEFINE A == OnFile(hist, files, Entries)
             L == Len(tables)
  <2>1. /\ HistTypes /\ FileTypes /\ TableTypes /\ CallerTypes /\ CallerAt
        /\ TablesFollowFiles
        /\ Whole(hist, files, Entries, synced)
    BY <1>1 DEF IInv, Types, FilesAreComplete
  <2>2. /\ synced \in Nat /\ applied \in Nat /\ synced <= applied
        /\ applied <= Len(hist)
    BY <2>1 DEF HistTypes
  <2>3. DOMAIN tables = 1..L /\ L \in Nat
    BY <1>1, TablesInUse
  <2>4. /\ DOMAIN A = 1..L
        /\ \A p \in 1..L : A[p].cells = Newest(hist, files[tables[p].name].cells)
    BY <1>1, StateListsTables DEF OnFile
  <2>5. Shown(hist, A) = VisibleIn(hist, synced)
    BY <2>1 DEF Whole
  <2> HIDE DEF A
  <2>6. \A p \in 1..L : \A c \in files[tables[p].name].cells : c \in 1..synced
    BY <1>1, <2>1, TablesInUse DEF FileTypes
  <2>7. Shown(hist, tables) = VisibleIn(hist, applied)
    <3>1. CASE synced = applied
      <4>1. \A p \in 1..L : A[p].cells = tables[p].cells
        BY <1>1, <2>4, <3>1, CellsOfTables
      <4>2. SameCells(A, tables) /\ Agree(hist, hist, A)
        BY <2>3, <2>4, <4>1 DEF SameCells, Agree
      <4>3. Shown(hist, A) = Shown(hist, tables)
        BY <4>2, MergeSame
      <4> QED
        BY <2>5, <3>1, <4>3
    <3>2. CASE synced # applied
      <4>1. LastIsLog
        <5>1. synced # Len(hist)
          BY <2>1, <2>2, <3>2 DEF HistTypes
        <5> QED
          BY <2>1, <5>1 DEF CallerAt, LastIsLog
      <4>2. L \in Nat \ {0} /\ L \in 1..L
        BY <1>1, <4>1, HistContinues, WritableTable
      <4>3. \A p \in 1..(L - 1) : tables[p].cells = A[p].cells
        <5> TAKE p \in 1..(L - 1)
        <5>1. p \in 1..L /\ p # L
          BY <4>2
        <5> QED
          BY <1>1, <2>4, <5>1, CellsOfTables
      <4>4. tables[L].cells = Newest(hist, A[L].cells \cup (synced + 1)..applied)
        <5> DEFINE S == files[tables[L].name].cells
                   M == (synced + 1)..applied
        <5>1. tables[L].cells = Newest(hist, S \cup Unsynced(tables, L, synced, applied))
          BY <2>1, <2>3, <4>2 DEF TablesFollowFiles, Follow
        <5>2. Unsynced(tables, L, synced, applied) = M
          BY DEF Unsynced
        <5>3. A[L].cells = Newest(hist, S)
          BY <2>4, <4>2
        <5>4. S \in UpTo(applied) /\ M \in UpTo(applied)
          <6>1. \A c \in S : c \in 1..synced
            BY <2>6, <4>2
          <6>2. \A c \in 1..synced : c \in 1..applied
            BY <2>2
          <6>3. \A c \in M : c \in 1..applied
            BY <2>2
          <6> HIDE DEF S, M
          <6> QED
            BY <6>1, <6>2, <6>3 DEF UpTo
        <5> HIDE DEF S, M
        <5>5. Newest(hist, Newest(hist, S) \cup M) = Newest(hist, S \cup M)
          BY <2>2, <5>4, NewestTwice
        <5> QED
          BY <5>1, <5>2, <5>3, <5>5 DEF M
      <4>5. \A p \in 1..L : A[p].cells \subseteq 1..synced
        BY <2>4, <2>6, NewestSubset
      <4> HIDE DEF L
      <4>6. TakesUp(hist, A, tables, L, synced, applied)
        BY <2>2, <2>3, <2>4, <4>2, <4>3, <4>4, <4>5 DEF TakesUp
      <4> QED
        BY <2>5, <4>6, MergeFlushed
    <3> QED
      BY <3>1, <3>2
  <2>8. Merged(tables, TRUE) = Shown(hist, tables)
    <3>1. Merged(tables, TRUE) = MergedIn(hist, tables, TRUE)
      BY DEF Merged, MergedIn
    <3> QED
      BY <3>1 DEF Shown
  <2>9. Visible(applied) = VisibleIn(hist, applied)
    BY MergedHere
  <2> QED
    BY <2>7, <2>8, <2>9
<1>2. Spec => []IInv
  BY LocalTableInvariant
<1>3. IInv => ReadsSeeNewest
  BY <1>1 DEF ReadsSeeNewest
<1> QED
  BY <1>2, <1>3, PTL

\* A process that stops finds everything that was synced when it is started
\* again: the logs and the disk tables that the state file names have it.
THEOREM RestartsSeeSynced == Spec => []SyncedSurvives
<1>1. ASSUME IInv, initialized \/ main.pc = "down", ~torn PROVE Complete
  <2>1. Whole(hist, files, Entries, synced)
    BY <1>1 DEF IInv, FilesAreComplete
  <2>2. CASE initialized
    BY <1>1, <2>1, <2>2, StateListsTables, CompleteIsWhole
  <2>3. CASE main.pc = "down"
    <3>1. Entries = InState(state)
      BY <2>3 DEF Entries
    <3> QED
      BY <1>1, <2>1, <3>1, CompleteIsWhole
  <2> QED
    BY <1>1, <2>2, <2>3
<1>2. Spec => []IInv
  BY LocalTableInvariant
<1>3. IInv => SyncedSurvives
  BY <1>1 DEF SyncedSurvives
<1> QED
  BY <1>2, <1>3, PTL

\* The state file names only files that are there, and numDiskTables tells the
\* disk tables from the logs.
THEOREM StateFileIsSound == Spec => []StateNamesItsFiles
<1>1. ASSUME IInv PROVE StateNamesItsFiles
  <2>1. state \in StateSet /\ HaveFiles(InState(state), files, state.next)
    BY <1>1 DEF IInv, Types, TableTypes, StateFile
  <2>2. DOMAIN state.names = 1..Len(state.names)
    BY <2>1 DEF StateSet
  <2>3. /\ DOMAIN InState(state) = 1..Len(state.names)
        /\ \A p \in 1..Len(state.names) :
               /\ InState(state)[p].name = state.names[p]
               /\ InState(state)[p].disk = (p <= state.nDisk)
    BY <2>1, InStateShape
  <2> QED
    BY <2>1, <2>2, <2>3 DEF StateNamesItsFiles, HaveFiles
<1>2. Spec => []IInv
  BY LocalTableInvariant
<1>3. IInv => StateNamesItsFiles
  BY <1>1
<1> QED
  BY <1>2, <1>3, PTL

\* The tables that compactTables() is to merge are still there, next to each
\* other and on disk, and the first of all if it drops erasures.
THEOREM CompactionsStayValid == Spec => []CompactionsAreValid
<1>1. IInv => CompactionsAreValid
  BY DEF IInv
<1> QED
  BY <1>1, LocalTableInvariant, PTL

=============================================================================
