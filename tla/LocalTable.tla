----------------------------- MODULE LocalTable -----------------------------
(***************************************************************************)
(* A table kept in one directory (kdi/local/local_table.cc), with the      *)
(* logged memory table that takes its writes (kdi/logged_memory_table.cc,  *)
(* memory_table.cc), the buffer in front of that one (BufferedTable in     *)
(* kdi/synchronized_table.cc) and the merge that reads it                  *)
(* (kdi/cell_merge.h).                                                     *)
(*                                                                         *)
(* Threads: the caller, who is alone ("the main table interface is not     *)
(* thread-safe"); the serialization thread, which turns a log into a disk  *)
(* table; the compaction thread, which merges disk tables.  They share the *)
(* list of readable tables under Impl::mutex.  The process may stop at any *)
(* time and is started again on what the files hold.                       *)
(*                                                                         *)
(* Mutations are numbered in the order of the calls, and a set of cells is *)
(* the set of the mutations that wrote them.  Files are named by an index. *)
(***************************************************************************)
EXTENDS Integers, Sequences, FiniteSetsExt, Functions

CONSTANTS
    Mutation,       \* what a caller may set or erase
    Old,            \* mutations in the files at first, one in each
    OldDisk,        \* how many of those files are disk tables, not logs
    MaxWrites,      \* bound on the mutations, Old included
    MaxRequests,    \* bound on calls of compactTable()
    MaxStops,       \* bound on shutdowns, crashes and failed loads
    BufferSize,     \* BufferedTable::mutationBufferSize (32)
    MemLimit,       \* MAX_TABLE_MEMORY, in cells
    QMax,           \* limit of serializationQueue (2)
    CompactAt,      \* more readable tables ask for a compaction (8)
    Slack,          \* tables that need not take part in one (4)
    MaxWayMerge     \* MAX_WAY_MERGE (16)

ASSUME LocalTableAssumption ==
    /\ \A m \in Mutation : m.erase \in BOOLEAN
    /\ Old \in Seq(Range(Old)) /\ OldDisk \in 0..Len(Old)
    /\ MaxWrites \in Nat /\ Len(Old) <= MaxWrites
    /\ MaxRequests \in Nat /\ MaxStops \in Nat
    /\ CompactAt \in Nat /\ MaxWayMerge \in Nat
    /\ BufferSize \in Nat \ {0} /\ MemLimit \in Nat \ {0}
    /\ QMax \in Nat \ {0}
    \* As in the code: the tables not yet on disk are within the slack, and
    \* there are two others before a compaction is asked for.
    /\ Slack = QMax + 2 /\ CompactAt > Slack /\ MaxWayMerge >= CompactAt

VARIABLES
    hist,           \* the mutations: callers', less those a crash has lost
    applied,        \* how many of them are past BufferedTable::buffer
    synced,         \* how many of them are known to be in files
    files,          \* the files of the directory
    state,          \* the "state" file
    tables,         \* Impl::readableTables
    nextIndex,      \* Impl::nextIndex
    initialized,    \* Impl::initialized
    main,           \* the caller: where it is, and the tables yet to load
    squeue, ser,    \* serializationQueue and its thread
    cqueue, comp,   \* compactionQueue and its thread
    scheduled,      \* Impl::compactionScheduled
    fullRequested,  \* Impl::fullCompactionRequested
    requests,       \* calls of compactTable() so far
    stops,          \* shutdowns, crashes and failed loads so far
    torn            \* history: tables went missing while they were loaded

diskVars == <<files, state>>
callVars == <<hist, applied, synced>>
serVars == <<squeue, ser>>
compVars == <<cqueue, comp, scheduled, fullRequested>>
bounds == <<requests, stops>>
vars == <<callVars, diskVars, tables, nextIndex, initialized, main, serVars,
          compVars, bounds, torn>>

Idle == [pc |-> "idle"]
At(pc) == [main EXCEPT !.pc = pc]
LastTable == tables[Len(tables)]

\* Of the mutations S, those that MemoryTable::insert() leaves in its set: the
\* last one of each key.
Newest(h, S) == {i \in S : \A j \in S : h[j].key = h[i].key => j <= i}

\* CellMerge over the tables T, the last of them first: a cell hides the cells
\* of the same key in the tables before its own.
Merged(T, filterErasures) ==
    {i \in UNION {T[p].cells : p \in DOMAIN T} :
        /\ filterErasures => ~hist[i].erase
        /\ \E p \in DOMAIN T :
              /\ i \in T[p].cells
              /\ \A q \in DOMAIN T : q > p =>
                    \A j \in T[q].cells : hist[j].key # hist[i].key}

\* Mutant: everything but the writable table counts as a disk table.
NumDiskTablesAllButLast(T) == Len(T) - 1

NumDiskTables(T) == Cardinality({p \in DOMAIN T : T[p].disk})

\* writeConfig(): the names in order, how many are disk tables, the next index.
\* The file is written aside and renamed.
WriteConfig(T, next) ==
    state' = [names |-> [p \in DOMAIN T |-> T[p].name],
              nDisk |-> NumDiskTables(T),
              next |-> next]

\* The directory at first, as a process may have left it: each of Old in a
\* disk table or a log of its own.
Init ==
    /\ hist = Old /\ applied = Len(Old) /\ synced = Len(Old)
    /\ files = [i \in DOMAIN Old |-> [disk |-> i <= OldDisk, cells |-> {i}]]
    /\ state = [names |-> [i \in DOMAIN Old |-> i], nDisk |-> OldDisk,
                next |-> Len(Old) + 1]
    /\ tables = <<>> /\ nextIndex = 0 /\ initialized = FALSE
    /\ main = [pc |-> "down", todo |-> <<>>]
    /\ squeue = <<>> /\ ser = Idle
    /\ cqueue = <<>> /\ comp = Idle
    /\ scheduled = FALSE /\ fullRequested = FALSE
    /\ requests = 0 /\ stops = 0 /\ torn = FALSE

\* Mutant: a worker does not count its output file.
IndexAfterSame == nextIndex

\* nextIndex++.
IndexAfter == nextIndex + 1

\* Nobody else can hold Impl::mutex: the workers take and leave it in one
\* step, and a blocked scan has left it.
MutexFree == main.pc \notin {"push", "create", "publish"}

-----------------------------------------------------------------------------
(* Which tables to compact.                                                *)

\* Mutant: everything but the writable table is taken for a disk table.
DiskCountAllButLast(T) == Len(T) - 1

\* The disk tables at the head of the list.
DiskCount(T) ==
    Max({0} \cup {n \in DOMAIN T : \A p \in 1..n : T[p].disk})

\* The windows scheduleCompaction() chooses from, by a score that depends on
\* the sizes of the tables; all of the disk tables if there is none.
Windows(T, minWayMerge) ==
    LET d == DiskCount(T)
        least == Min({minWayMerge, MaxWayMerge})
        W == {w \in (1..d) \X (1..d) : w[2] - w[1] + 1 \in least..MaxWayMerge}
    IN  IF W = {} THEN {<<1, d>>} ELSE W

NamesOf(T, w) == [p \in 1..(w[2] - w[1] + 1) |-> T[w[1] + p - 1].name]

\* Mutant: erasures are dropped wherever the range begins.
CompactionFilters(T, w) ==
    [names |-> NamesOf(T, w), filterErasures |-> TRUE]

\* A compaction that begins with the first table may drop erasures: there is
\* nothing before them that they could hide.
Compaction(T, w) == [names |-> NamesOf(T, w), filterErasures |-> w[1] = 1]

\* scheduleCompaction(readableTables.size() - 4).
ScheduleCompaction(T) ==
    /\ scheduled' = TRUE
    /\ IF DiskCount(T) <= 1
       THEN UNCHANGED cqueue
       ELSE \E w \in Windows(T, Len(T) - Slack) :
               cqueue' = Append(cqueue, Compaction(T, w))

\* scheduleFullCompaction(), called with fullCompactionRequested = full.
ScheduleFullCompaction(T, full) ==
    IF Len(T) > MaxWayMerge
    THEN ScheduleCompaction(T) /\ fullRequested' = TRUE
    ELSE /\ fullRequested' = full
         /\ scheduled' = (DiskCount(T) > 1)
         /\ cqueue' = IF DiskCount(T) > 1
                      THEN Append(cqueue, Compaction(T, <<1, DiskCount(T)>>))
                      ELSE cqueue

-----------------------------------------------------------------------------
(* Starting: init() and loadFromConfig().  The workers already run.        *)

Start ==
    /\ main.pc = "down"
    /\ main' = [pc |-> "load",
                todo |-> [p \in DOMAIN state.names |->
                             [name |-> state.names[p],
                              disk |-> p <= state.nDisk]]]
    /\ nextIndex' = state.next
    /\ UNCHANGED <<callVars, diskVars, tables, initialized, serVars, compVars,
                   bounds, torn>>

\* A disk table is opened, or a log replayed.
LoadTable ==
    /\ main.pc = "load" /\ main.todo # <<>>
    /\ LET e == Head(main.todo) IN
       /\ e.name \in DOMAIN files
       /\ tables' = Append(tables,
                           [name |-> e.name, disk |-> e.disk,
                            cells |-> Newest(hist, files[e.name].cells)])
       /\ main' = [pc |-> IF e.disk THEN "load" ELSE "loadpush",
                   todo |-> Tail(main.todo)]
    /\ UNCHANGED <<callVars, diskVars, nextIndex, initialized, serVars,
                   compVars, bounds, torn>>

\* A log that was replayed is scheduled for serialization, without the mutex.
LoadPush ==
    /\ main.pc = "loadpush" /\ Len(squeue) < QMax
    /\ squeue' = Append(squeue, LastTable.name)
    /\ main' = At("load")
    /\ UNCHANGED <<callVars, diskVars, tables, nextIndex, initialized, ser,
                   compVars, bounds, torn>>

\* A file cannot be opened: init() takes any IOError for a missing state file
\* and goes on with the tables it has.
LoadFails ==
    /\ main.pc = "load" /\ main.todo # <<>>
    /\ stops < MaxStops
    /\ main' = [main EXCEPT !.todo = <<>>]
    /\ stops' = stops + 1 /\ torn' = TRUE
    /\ UNCHANGED <<callVars, diskVars, tables, nextIndex, initialized, serVars,
                   compVars, requests>>

\* createWritableTable(), first half: the new log file.  A file that is there
\* already would be replayed.
CreateLog ==
    /\ main.pc = "create" \/ (main.pc = "load" /\ main.todo = <<>>)
    /\ files' = IF nextIndex \in DOMAIN files THEN files
                ELSE [i \in DOMAIN files \cup {nextIndex} |->
                         IF i = nextIndex THEN [disk |-> FALSE, cells |-> {}]
                         ELSE files[i]]
    /\ nextIndex' = IndexAfter
    /\ main' = At("publish")
    /\ UNCHANGED <<callVars, state, tables, initialized, serVars, compVars,
                   bounds, torn>>

\* Second half: the table is readable, the state is written, and too many
\* tables ask for a compaction.
Publish ==
    /\ main.pc = "publish"
    /\ LET log == nextIndex - 1
           T == Append(tables, [name |-> log, disk |-> FALSE,
                                cells |-> Newest(hist, files[log].cells)])
       IN  /\ tables' = T
           /\ WriteConfig(T, nextIndex)
           /\ IF ~scheduled /\ Len(T) > CompactAt
              THEN ScheduleCompaction(T)
              ELSE UNCHANGED <<cqueue, scheduled>>
    /\ main' = At("idle")
    /\ initialized' = TRUE
    /\ UNCHANGED <<callVars, files, nextIndex, serVars, comp, fullRequested,
                   bounds, torn>>

-----------------------------------------------------------------------------
(* Calls.                                                                  *)

\* The writable table once BufferedTable::flush() has applied all of h.
Flushed(h) ==
    [tables EXCEPT ![Len(tables)].cells = Newest(h, @ \cup (applied + 1)..Len(h))]

\* Mutant: the log is written to the file before the buffer is flushed.
DurableBuffered(h) == (synced + 1)..applied

\* The mutations that a sync adds to the log file.
Durable(h) == (synced + 1)..Len(h)

\* BufferedTable::sync() and LoggedMemoryTable::sync(): the buffer goes to the
\* memory table and its log, and the log to the file.
SyncWritable(h) ==
    /\ applied' = Len(h) /\ synced' = Len(h)
    /\ tables' = Flushed(h)
    /\ files' = [files EXCEPT ![LastTable.name].cells = @ \cup Durable(h)]

\* startNewWritableTable() as far as the mutex.
StartNewWritableTable(h) == SyncWritable(h) /\ main' = At("push")

\* set() and erase(): the mutation is buffered, a full buffer is flushed, and
\* a memory table that is too big gives way to a new one.
Write(m) ==
    /\ main.pc = "idle" /\ Len(hist) < MaxWrites
    /\ LET h == Append(hist, m)
           full == Len(h) - applied >= BufferSize
           T == IF full THEN Flushed(h) ELSE tables
       IN  /\ hist' = h
           /\ IF Cardinality(T[Len(T)].cells) >= MemLimit
              THEN StartNewWritableTable(h)
              ELSE /\ applied' = IF full THEN Len(h) ELSE applied
                   /\ tables' = T
                   /\ UNCHANGED <<synced, files, main>>
    /\ UNCHANGED <<state, nextIndex, initialized, serVars, compVars, bounds,
                   torn>>

Sync ==
    /\ main.pc = "idle" /\ synced < Len(hist)
    /\ SyncWritable(hist)
    /\ UNCHANGED <<hist, state, nextIndex, initialized, main, serVars,
                   compVars, bounds, torn>>

\* flushMemory() looks at the memory table only, not at the buffer.
FlushMemory ==
    /\ main.pc = "idle" /\ LastTable.cells # {}
    /\ StartNewWritableTable(hist)
    /\ UNCHANGED <<hist, state, nextIndex, initialized, serVars, compVars,
                   bounds, torn>>

\* Room in serializationQueue is waited for with Impl::mutex held.
PushSerialization ==
    /\ main.pc = "push" /\ Len(squeue) < QMax
    /\ squeue' = Append(squeue, LastTable.name)
    /\ main' = At("create")
    /\ UNCHANGED <<callVars, diskVars, tables, nextIndex, initialized, ser,
                   compVars, bounds, torn>>

CompactTable ==
    /\ main.pc = "idle" /\ requests < MaxRequests
    /\ requests' = requests + 1
    /\ IF scheduled
       THEN fullRequested' = TRUE /\ UNCHANGED <<cqueue, scheduled>>
       ELSE ScheduleFullCompaction(tables, fullRequested)
    /\ UNCHANGED <<callVars, diskVars, tables, nextIndex, initialized, main,
                   serVars, comp, stops, torn>>

\* scan() has too many tables to merge: it waits for a compaction.
ScanBlocks ==
    /\ main.pc \in {"idle", "awake"} /\ Len(tables) > MaxWayMerge
    /\ IF scheduled THEN UNCHANGED <<cqueue, scheduled>>
                    ELSE ScheduleCompaction(tables)
    /\ main' = At("blocked")
    /\ UNCHANGED <<callVars, diskVars, tables, nextIndex, initialized, serVars,
                   comp, fullRequested, bounds, torn>>

\* What scan() returns otherwise is Merged(tables, TRUE).
ScanOpens ==
    /\ main.pc = "awake" /\ Len(tables) <= MaxWayMerge
    /\ main' = At("idle")
    /\ UNCHANGED <<callVars, diskVars, tables, nextIndex, initialized, serVars,
                   compVars, bounds, torn>>

\* shutdown(): the queues are cancelled, and the workers joined.
Shutdown ==
    /\ main.pc = "idle" /\ stops < MaxStops
    /\ stops' = stops + 1
    /\ main' = At("join")
    /\ UNCHANGED <<callVars, diskVars, tables, nextIndex, initialized, serVars,
                   compVars, requests, torn>>

-----------------------------------------------------------------------------
(* The serialization thread: serializeTable().                             *)

\* A cancelled queue still gives up its items.
SerializePop ==
    /\ ser.pc = "idle" /\ squeue # <<>>
    /\ ser' = [pc |-> "index", name |-> Head(squeue), out |-> 0]
    /\ squeue' = Tail(squeue)
    /\ UNCHANGED <<callVars, diskVars, tables, nextIndex, initialized, main,
                   compVars, bounds, torn>>

SerializeIndex ==
    /\ ser.pc = "index" /\ MutexFree
    /\ ser' = [ser EXCEPT !.pc = "swap", !.out = nextIndex]
    /\ nextIndex' = IndexAfter
    /\ WriteConfig(tables, IndexAfter)
    /\ UNCHANGED <<callVars, files, tables, initialized, main, squeue,
                   compVars, bounds, torn>>

Position(name) == CHOOSE p \in DOMAIN tables : tables[p].name = name

DiskTable(name, cells) == [name |-> name, disk |-> TRUE, cells |-> cells]

WithFile(name, cells) ==
    [i \in DOMAIN files \cup {name} |->
        IF i = name THEN [disk |-> TRUE, cells |-> cells] ELSE files[i]]

\* The output file is written, and then, with the mutex, the disk table takes
\* the place of the log, which is no longer written.
SerializeSwap ==
    /\ ser.pc = "swap" /\ MutexFree
    /\ LET p == Position(ser.name)
           T == [tables EXCEPT ![p] = DiskTable(ser.out, @.cells)]
       IN  /\ files' = WithFile(ser.out, tables[p].cells)
           /\ tables' = T /\ WriteConfig(T, nextIndex)
    /\ ser' = [ser EXCEPT !.pc = "remove"]
    /\ UNCHANGED <<callVars, nextIndex, initialized, main, squeue, compVars,
                   bounds, torn>>

SerializeRemove ==
    /\ ser.pc = "remove"
    /\ files' = Restrict(files, DOMAIN files \ {ser.name})
    /\ ser' = Idle
    /\ UNCHANGED <<callVars, state, tables, nextIndex, initialized, main,
                   squeue, compVars, bounds, torn>>

-----------------------------------------------------------------------------
(* The compaction thread: compactTables().                                 *)

\* The job is popped; with the mutex, the output gets its index.
CompactIndex ==
    /\ comp.pc = "idle" /\ cqueue # <<>> /\ MutexFree
    /\ comp' = [pc |-> "replace", job |-> Head(cqueue), out |-> nextIndex]
    /\ cqueue' = Tail(cqueue)
    /\ nextIndex' = IndexAfter
    /\ WriteConfig(tables, IndexAfter)
    /\ UNCHANGED <<callVars, files, tables, initialized, main, serVars,
                   scheduled, fullRequested, bounds, torn>>

\* The tables of the job, in the order of the list.
JobTables(job) ==
    [p \in DOMAIN job.names |-> tables[Position(job.names[p])]]

\* The merge is written; then, with the mutex, [first, last-1) is erased and
\* last-1 replaced.
CompactReplace ==
    /\ comp.pc = "replace" /\ MutexFree
    /\ LET first == Position(comp.job.names[1])
           C == Merged(JobTables(comp.job), comp.job.filterErasures)
           T == SubSeq(tables, 1, first - 1)
                \o <<DiskTable(comp.out, C)>>
                \o SubSeq(tables, first + Len(comp.job.names), Len(tables))
       IN  /\ files' = WithFile(comp.out, C)
           /\ tables' = T /\ WriteConfig(T, nextIndex)
    /\ comp' = [comp EXCEPT !.pc = "finish"]
    /\ UNCHANGED <<callVars, nextIndex, initialized, main, serVars, cqueue,
                   scheduled, fullRequested, bounds, torn>>

\* Mutant: compactionFinished is not notified.
NotifiedNever == main

\* compactionFinished.notify_all().
Notified == IF main.pc = "blocked" THEN At("awake") ELSE main

\* The old files are removed.  Scans that wait are woken; a request that came
\* meanwhile is served, or the next compaction scheduled if there are still
\* too many tables.
CompactFinish ==
    /\ comp.pc = "finish" /\ MutexFree
    /\ files' = Restrict(files, DOMAIN files \ Range(comp.job.names))
    /\ IF fullRequested
       THEN ScheduleFullCompaction(tables, FALSE)
       ELSE /\ IF Len(tables) > CompactAt
               THEN ScheduleCompaction(tables)
               ELSE scheduled' = FALSE /\ UNCHANGED cqueue
            /\ UNCHANGED fullRequested
    /\ main' = Notified
    /\ comp' = Idle
    /\ UNCHANGED <<callVars, state, tables, nextIndex, initialized, serVars,
                   bounds, torn>>

-----------------------------------------------------------------------------
(* The end of the process.                                                 *)

Visible(n) == {i \in Newest(hist, 1..n) : ~hist[i].erase}

\* What a process started now would read.
Recovered ==
    Merged([p \in DOMAIN state.names |->
               [cells |-> IF state.names[p] \in DOMAIN files
                          THEN Newest(hist, files[state.names[p]].cells)
                          ELSE {}]],
           TRUE)

Complete == Recovered = Visible(synced)

\* Files that will not be read again: the state does not name them, and their
\* index is not given out any more.
Garbage(F) == {i \in DOMAIN F : i \notin Range(state.names) /\ i < state.next}

\* Memory is gone.  Of the mutations not yet synced, the log file has the
\* first ones, as far as the n-th.  Garbage stays in the directory for ever;
\* the model forgets it.
Stop(n) ==
    /\ hist' = SubSeq(hist, 1, n) /\ applied' = n /\ synced' = n
    /\ LET F == IF n = synced THEN files
                ELSE [files EXCEPT ![LastTable.name].cells =
                                      @ \cup (synced + 1)..n]
       IN  files' = Restrict(F, DOMAIN F \ Garbage(F))
    /\ tables' = <<>> /\ nextIndex' = 0 /\ initialized' = FALSE
    /\ main' = [pc |-> "down", todo |-> <<>>]
    /\ squeue' = <<>> /\ ser' = Idle /\ cqueue' = <<>> /\ comp' = Idle
    /\ scheduled' = FALSE /\ fullRequested' = FALSE
    /\ torn' = (torn \/ (~initialized /\ ~Complete))
    /\ UNCHANGED <<state, requests>>

Crash ==
    /\ main.pc # "down" /\ stops < MaxStops
    /\ \E n \in synced..applied : Stop(n)
    /\ stops' = stops + 1

\* The workers have emptied their queues.
Joined ==
    /\ main.pc = "join"
    /\ ser.pc = "idle" /\ squeue = <<>>
    /\ comp.pc = "idle" /\ cqueue = <<>>
    /\ \E n \in synced..Len(hist) : Stop(n)
    /\ UNCHANGED stops

Caller ==
    \/ Start \/ LoadTable \/ LoadPush \/ LoadFails \/ CreateLog \/ Publish
    \/ (\E m \in Mutation : Write(m)) \/ Sync \/ FlushMemory
    \/ PushSerialization \/ CompactTable \/ ScanBlocks \/ ScanOpens
    \/ Shutdown \/ Joined
Serializer ==
    \/ SerializePop \/ SerializeIndex \/ SerializeSwap
    \/ SerializeRemove
Compactor ==
    \/ CompactIndex \/ CompactReplace \/ CompactFinish

Next == Caller \/ Serializer \/ Compactor \/ Crash

Spec == Init /\ [][Next]_vars

\* The threads run, and a call that has begun goes on; nobody owes a call.
Fairness ==
    /\ WF_vars(Serializer)
    /\ WF_vars(Compactor)
    /\ WF_vars(main.pc \notin {"idle", "down"} /\ Caller)
FairSpec == Spec /\ Fairness

-----------------------------------------------------------------------------
(* Properties.                                                             *)

TableSet == [name : Nat, disk : BOOLEAN, cells : SUBSET (1..MaxWrites)]
JobSet == [names : Seq(Nat), filterErasures : BOOLEAN]

\* Every variable has the type the code gives it; the tables have names of
\* their own, below nextIndex; the caller is ahead of its buffer and of the
\* file by no less than nothing.
TypeOK ==
    /\ synced <= applied /\ applied <= Len(hist)
    /\ \A i \in DOMAIN files : files[i] \in [disk : BOOLEAN,
                                             cells : SUBSET DOMAIN hist]
    /\ tables \in Seq(TableSet)
    /\ \A p, q \in DOMAIN tables : tables[p].name = tables[q].name => p = q
    /\ \A p \in DOMAIN tables : tables[p].name < nextIndex
    /\ squeue \in Seq(Nat) /\ Len(squeue) <= QMax
    /\ cqueue \in Seq(JobSet) /\ Len(cqueue) <= 1
    /\ initialized \in BOOLEAN /\ scheduled \in BOOLEAN
    /\ fullRequested \in BOOLEAN /\ torn \in BOOLEAN
    /\ requests \in 0..MaxRequests /\ stops \in 0..MaxStops

\* A scan sees, of every key, the newest mutation past the buffer, and not if
\* it is an erasure: whatever has been serialized or merged meanwhile, and
\* whichever erasures have been dropped.
ReadsSeeNewest ==
    initialized /\ ~torn => Merged(tables, TRUE) = Visible(applied)

\* A process that stops now finds everything that was synced, in the same
\* order, when it is started again.  Not so if it stopped while the tables were
\* loaded, or could not load one: a state written then names only the tables
\* loaded so far, and `torn' notes it.  A state file that is there and cannot
\* be read is not in the model.
SyncedSurvives ==
    (initialized \/ main.pc = "down") /\ ~torn => Complete

\* The state file never names a file that is gone or not yet there, and its
\* numDiskTables tells the disk tables from the logs: serializations happen
\* in the order of the list.
StateNamesItsFiles ==
    \A p \in DOMAIN state.names :
        /\ state.names[p] \in DOMAIN files
        /\ files[state.names[p]].disk = (p <= state.nDisk)

\* What compactTables() relies on and asserts: its tables are still there, next
\* to each other and on disk, with a table after the last one, and nothing
\* comes before those it drops erasures from.
JobIsValid(job) ==
    \E first \in DOMAIN tables :
        LET n == Len(job.names) IN
        /\ n > 1 /\ first + n <= Len(tables)
        /\ \A k \in 1..n : /\ tables[first + k - 1].name = job.names[k]
                           /\ tables[first + k - 1].disk
        /\ job.filterErasures => first = 1
CompactionsAreValid ==
    /\ \A p \in DOMAIN cqueue : JobIsValid(cqueue[p])
    /\ comp.pc = "replace" => JobIsValid(comp.job)

Busy == ser.pc # "idle" \/ squeue # <<>> \/ comp.pc # "idle" \/ cqueue # <<>>

\* Loading, a blocked scan, the shutdown and the work in the background come
\* to an end, unless the caller waits for room in serializationQueue.
WorkEnds ==
    (main.pc \notin {"idle", "down"} \/ Busy)
        ~> (main.pc \in {"idle", "down"} /\ ~Busy) \/ main.pc = "push"

\* "block if we have more than 2 serializations outstanding": the call that is
\* blocked there goes on when a serialization is finished.
FlushReturns == main.pc = "push" ~> main.pc # "push"
=============================================================================
