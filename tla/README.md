# KDI: a TLA+ development of the tablet server

KDI is a BigTable-like store. A *table* is cut into *tablets*, each a range of
rows; a tablet is an ordered chain of *fragments* (immutable disk tables, then
mutable log tables); one tablet server process writes all mutations to shared
logs, serializes the logs to disk fragments, compacts disk fragments, splits
tablets that grow too large and keeps each tablet's configuration (rows and
files) in the META table. All paths below are relative to `src/src/cc/`.

Clients read it through a network layer that fetches ahead and retries. An
older table kept in one directory by one process (`LocalTable`) has its own
logs, serializations and compactions.

The development models the concurrent core of the server, its scans over the
network and the local table, checks them with TLC, and proves the invariants and
the refinements of those checks with TLAPS.

## Inventory

| Component | State | Operations | Interacts with |
|---|---|---|---|
| `kdi/tablet/Tablet` | `fragments`, `minRow`/`maxRow`, `configChanged`, `mutationsPending`, `splitPending`, `deadFiles`, `clonedLogs`, `duplicatedLogs`, scanners | `set`, `erase`, `sync`, `scan`, `splitTablet`, `addFragment`, `replaceFragments`, `removeFragments`, `saveConfig` | called by the logger's, the compactor's and the work queue's threads and by API threads |
| `kdi/tablet/FileTracker` | reference count per file | `track`, `addReference`, `release` (deletes the file) | tablets, logger, compactor |
| `kdi/tablet/SharedLogger` | commit buffer, `commitQueue`, `serializeQueue`, open log, group of in-memory tables | `set`, `erase`, `sync`, `shutdown`, `commitLoop`, `serializeLoop` | two threads; `Tablet::addFragment`, `Tablet::replaceFragments` |
| `kdi/tablet/SharedCompactor` | `dagMutex`, enabled/cancelled flags | `compact`, `compactLoop`, `wakeup`, `disable`/`enableCompactions`, `shutdown` | one thread; `FragDag`, `Tablet::replaceFragments` and `removeFragments` |
| `kdi/tablet/FragDag` | active fragments of each tablet, statistics | `addFragment`, `replaceFragments`, `removeFragments`, `chooseCompactionSet` | under `dagMutex` |
| `kdi/tablet/SuperTablet` | list of tablets, mutation interlock | row lookup, `sync`, `requestSplit`, `performSplit`, scans | API threads, work queue |
| `kdi/tablet/WorkQueue` | queue of jobs | `post`, `workLoop`, `shutdown` | one thread in the server |
| `warp/syncqueue.h` | queue, `nWaiting`, `nTasksPending`, `cancel`, four conditions | `push`, `pop`, `taskComplete`, `waitForEmpty`, `waitForCompletion`, `cancelWaits`, `enableWaits` | every thread above |
| `kdi/tablet/MetaConfigManager` | the META table | `setTabletConfig`, `loadTabletConfigs` with its repair of a crash in a split | `saveConfig`, server start |
| `Scanner`, `SuperScanner` | tablet, predicate, last cell, open merge | `get`, `reopen` | client thread; reset by splits and replacements |
| `TabletGc` | candidate and active sets | `findTabletGarbage`, `run` | the server's maintenance thread; reads META beside the server |
| `kdi/net/net_table.cc` | buffers, last key, flags, pending call | `get`, destructor, four callbacks; `set`, `erase`, `sync` with retries | client thread and Ice's threads; the server |
| `kdi/net` server, `warp/lru_cache.h` | scanner objects in an LRU cache, table objects | `scan`, `getBulk`, `close`, `purgeAndMark` | one thread per call, maintenance thread |
| `kdi/local/local_table.cc`, `logged_memory_table.cc`, `synchronized_table.cc`, `cell_merge.h` | list of tables, `nextIndex`, state file, files, two queues, compaction flags, write buffer | `set`, `erase`, `sync`, `flushMemory`, `compactTable`, `scan`, `init`, `shutdown`, `serializeTable`, `compactTables` | caller, serialization thread, compaction thread |
| fragments, loaders, `LogReader`/`LogWriter` | caches, file formats | `load`, `serializeLog`, `purge` | server start, compaction |
| `kdi/meta`, disk table format, cells, predicates, `flux`, `oort`, `ex`, rest of `warp`, tools and bindings | - | data structures, formats, input and output | - |

What is hard: the server has a commit, a serialize, a compact and a work thread
and any number of API threads. Locks are dropped in the middle of operations
(around the META write in `saveConfig`, around `updateScanners`, between a
tablet's replacement and its clone's). Files are deleted by reference counts
that four threads change. A split changes the list of tablets while logs,
groups, compactions and queued jobs refer to them. A crash leaves META between
two saves of one split. A scan lives through splits, replacements and writes,
and over the network through calls that fail after the server has run them. The
local table changes a state file, a list and files one after the other in three
threads and may stop in between. What makes each part correct is said with its
properties below: files live exactly as long as somebody refers to them, META
and the state file name what is there, a scan returns each cell once and in
order, what was synced survives, and every call returns. `PROJECT.json` lists the hazards line by line.

## Modules

| Module | What it is |
|---|---|
| `FileTracker` | the tracker's operations as operators on the map of counts |
| `Tablet` | the tablets of one table in one server: chains, files, META, work queue, and the steps of the commit, serialize, compact, work and API threads on them |
| `SharedLogger` | from `Tablet::set` through commit buffer and queues to log, tables and disk; `sync` and `shutdown` |
| `SyncQueue` | the blocking queue with its condition variables |
| `BoundedQueue` | what the queue promises: a bounded FIFO; `SyncQueue` implements it |
| `TabletGc` | `Tablet` with the garbage collector beside it |
| `OrderedScan` | what a scan promises its caller; `TableScan` and `NetScan` implement it |
| `TableScan` | a scan of a table in the server: `SuperScanner` over `Scanner`, beside splits, replacements and writes |
| `NetScan` | a scan over the network: the client's read-ahead scanner, the server's scanner objects and their cache |
| `LocalTable` | the local table with its files, workers, crashes and restarts |
| `SyncQueueProofs`, `TabletProofs`, `SharedLoggerProofs`, `TableScanProofs`, `NetScanProofs`, `LocalTableProofs` | theorems about the module each is named after |
| `TabletFilesProofs` | more theorems about `Tablet`, and those about `TabletGc`, on top of `TabletProofs`: file counts, the writes in the files, META and the collector |
| `Selection` | the elements of a sequence that are in a set, as a recursive function, for `SharedLogger` and `NetScan` |
| `SequenceLemmas` | induction over naturals and sequences, `FlattenSeq`, `ToSet`, for the proofs |
| `MCTablet`, `MCTabletGc`, `MCSharedLogger`, `MCSyncQueue`, `MCTableScan`, `MCNetScan`, `MCLocalTable` | instances for TLC |

`Tablet` and `SharedLogger` look at the logger from two sides. `SharedLogger`
has the buffers, the queues, `publicMutex` and shutdown, and treats a group of
tables as a set of writes. `Tablet` has what groups do to tablets, and treats
the pipeline in front of them as a choice of the next write to commit.
`SharedLogger` uses the queues as `SyncQueue` is proved to behave: a push waits
for room, a pop for an item, a cancelled wait fails; `LocalTable` uses its two
queues in the same way. `TabletGc` extends `Tablet`: a step is one of the
server's or one of the collector's, and the files and META rows are shared.
`TableScan` has of the tablets only what a scan sees of them (rows, fragments,
files); a replacement in it is the section of `replaceFragmentsInternal()` that
`Tablet` has in one step, cut where scanners are reset. `NetScan` takes the
table as fixed, since `TableScan` is about its changes.

### Tablet: state and actions

Rows are numbers and a tablet is named by its last row, as in META; it owns the
rows `(minRow[t], t]`. A fragment and its file share a name. The content of a
fragment is a set of pairs (row, log): cells are told apart only by the row and
the log they went to. An action is a section that runs under `Tablet::mutex`:

* `PostConfigChange`, `StartSave`, `Sync`, `WriteConfig`, `SaveAgain`,
  `FinishSave`: `saveConfig()` with the unlock around `setTabletConfig()`, run
  by the work thread, by `sync()` and by a split. Two threads may be between the
  unlock and the lock for one tablet. `race` is history and notes it: `"raced"`
  from a snapshot taken while another thread saves the same tablet, `"mending"`
  from the next one taken by a thread that is alone, `"none"` again once that
  snapshot is in META;
* `Commit`, `PushGroup`: `applyMutations()` with `addFragment()` for the first
  write of a tablet to a log, and the hand-over of a full group. A write is
  routed when it is committed; in the code it is routed when it is buffered,
  which is the same because a split first syncs its tablet with mutations
  stopped;
* `SerializeStart` ... `SerializeEnd`: `TableGroup::serialize()` and
  `replaceFragments()` for a log. The recursion that forwards to clones is the
  call stack `serStack`;
* `CompactStart` ... `CompactEnd`: one range of `compact()`. Which run the
  weights choose is left open. `dagMutex` is held from `CompactOutput` to
  `CompactEnd` (`DagFree`), and the range is the one read when the compaction
  began. `CompactNothing` is the case without output cells;
* `StartSplit`, `SplitTablet`, `SplitImpossible`: `performSplit()`. The lull is
  `Lull`. The split row is any row inside the tablet.

The size limits (full group, split threshold) are Boolean choices. An error
under `callOrDie()` sets `died`.

### SharedLogger and SyncQueue

In `SharedLogger` each step is a section under `publicMutex`, `Tablet::mutex`
or a queue's mutex; `publicMutex` appears as a variable because a thread keeps
it while its push waits. In `SyncQueue` one action is a call's run from its
start or its wakeup to its return or its next wait. `notify_one` wakes any one
sleeper; wakeups without cause and timeouts may happen at any time.

### TabletGc

`GcList` is `buildCandidateSet()`: the files that were there when the server
started (the maintenance thread passes its start as `beforeTime`). `GcRead`
reads the next META row as it is at that moment, `GcRemove` removes one file.
`missed` is history: tablets whose row was not there when the scan came by, and
their clones.

### OrderedScan, TableScan and NetScan

In `OrderedScan` a scan owes the cells that were in its rows when it began
(`due`, less those erased since). It returns cells in increasing order, each
once, and passes over none that it owes (`Deliver`); it may end only when it
has returned them all, or fail with an error. `seen` is the sequence returned,
so that a cell returned twice is a step of its own. `LossySpec` adds `Lose`:
from then on nothing is promised.

`TableScan` follows one client in `SuperScanner::get()`. `Get`, `OpenScanner`,
`OpenNext` and `NothingLeft` are the SuperScanner's part. `InnerOpen`,
`InnerReopen`, `InnerOutOfTablet`, `Validate`, `NotInTablet`, `Merge`, `Read`
and `ReadEnd` are `Scanner::get()`, cut where `Tablet::mutex` is free. The
work thread splits (`SplitTablet`) and then resets the SuperScanner
(`UpdateSuperScanners`), which waits until the client is outside `get()`. The
serialize thread swaps fragments, resets Scanners and gives up the old files. A
merge that is open must return the cells it began with and may return those
written since. `lost` is set in the two places where the code loses its place:
`InnerOutOfTablet`, and `Merge` when `Rescans` holds. The refinement mapping
turns an open scan that is lost into `"lost"`; everything else must implement
`OrderedScan` step by step.

`NetScan` has the client's flags and queues as they are; a block or buffer is
the set of its cells, which are written and read in scan order, and `left` is
what each `ScannerI` has not read yet. The server numbers its scanners upwards
for ever; the model reuses a number that is neither in the cache nor known to
the client or to a call (`FreeIds`), which nobody can tell apart, so that
`MaxScanners` bounds the scanners there are at a time only. A call is a record that moves from `"sent"` through
`"run"` to `"done"`; it is numbered by the failures before it, so that a call
the client has given up on (`CallLost`) can still be run by the server after
the client's next one. How much `getBulk()` returns is a matter of bytes and
left open. The LRU cache is a sequence of items with their reference counts, in
order of use, with `purgeAndMark()`'s mark among them. Cells of a row are
versions of one column, so that history predicates and resumption meet;
`Loses` notes the versions that a resumed scan with a history predicate passes
over.

### LocalTable

Mutations are numbered, and a table's cells are a set of those numbers. `hist`,
`applied` and `synced` are how far the caller, the buffer and the log file are.
A section under `Impl::mutex` is one action, except where the caller keeps the
mutex while it waits or creates files (`PushSerialization`, `CreateLog`,
`Publish`; the workers then wait for `MutexFree`). Which window
`scheduleCompaction()` takes depends on sizes and is left open. `Crash` may
come at any time, and keeps any prefix of what the log was given beyond the
last sync; `Joined` is the orderly end. `torn` notes that tables went missing
while they were loaded.

## Runs

| Run | Bounds | Shows |
|---|---|---|
| `split` | 3 rows, 1 log, 2 loaded and 2 new files, no API `sync`, fair | `TypeOK`, `KnownTablets`, `TabletsPartitionRows`, `RefsCountHolders`, `WritesReadable`, `MetaIsRepairable`, `RepairKeepsSaved`, `Settles` |
| `logs` | 2 rows, 2 logs, 1 loaded and 2 new files | `LogsAreSuffix`, `NoUnknownSequence` |
| `gc` | 2 rows, 1 log, 1 loaded and 2 new files, one API thread in `sync()`, one run of the collector | `RefsCountHolders`, `CollectorKeepsSavedFiles`, `SavedFilesKept`, `SavedIsCurrent` |
| `queue` | 3 threads, 2 items, limit 2, all operations, fair | the queue's invariants, `CompletionIsQuiescent`, `CancelReturns`, and `Delivery`: the refinement of `BoundedQueue`, order included |
| `logger` | 2 clients with 2 writes each, 1 tablet, queues of 1, fair | `LogKeepsOrder`, `TablesMatchLog`, `LoggerSyncIsDurable`, `ShutdownLogsAll`, `CallsReturn` |
| `scan` | 3 rows, 3 cells of which two share a row, 2 files, 2 writes or erasures, any rows scanned, fair | `OpenFilesExist`, `GetsReturn`, and `ImplementsOrderedScan`: the refinement of `OrderedScan` |
| `net` | 3 cells of which two share a column, 2 buffers, 1 failed call, 1 cached scanner, 1 other client, 2 purges, history 0 or 2, fair | `BufferForFetch`, `RunsAreCached`, `NoScannerLeft`, `ScanFinishes`, `ImplementsOrderedScan` |
| `local` | 2 keys: one set and erased in the two old files, one set twice by the caller; buffer of 2, queue of 1, 1 request, 1 stop, fair | `TypeOK`, `ReadsSeeNewest`, `SyncedSurvives`, `StateNamesItsFiles`, `CompactionsAreValid`, `WorkEnds` |

Three rows let a tablet and its clone both split, which is what makes links
between cloned logs chains and not pairs. Two loaded files are the shortest run
a compaction takes; two new files are one for a log and one for a compaction,
or two of either. Two logs are what it takes to have one open while the other
is serialized. In `gc` one run of the collector meets every order of saves and
removals that matters to it, and a second adds nothing that is not there
already, since the collector keeps nothing between runs; its cfg has a VIEW that
leaves out which writes a `sync()` covers, which decides no step and is not in
an invariant of that run. The logger's queues of one item are full with one
item, so every wait for room happens. In `queue`, three threads are two that
wait for the same notification and one that gives it; with a limit of two, a
second push or pop can miss the thread the first has woken. Two items in a
queue of two show the order of delivery. The run's VIEW (`AnyItemInHand`) leaves
out which item a thread is at work on, but not that it is: no step and no
property depends on the item. In `scan` two cells in one row make a
scan resume inside a row, three rows let it cross a boundary that has moved, and
the second file allows one replacement, which is what it takes to reset a
Scanner. In `net` a cache of one scanner and the mark is full with the client's
own, so that it is evicted or purged between any two fetches; one failure leaves
one old call beside the new one. In `local` the limits are those of the code
scaled down with their relations kept (`LocalTableAssumption`), so that a
serialization and a compaction run at once and a compaction may begin with the
first table or not. The erased key is never set again, since a newer cell would hide
a cell that a wrongly dropped erasure brings back; the other key is set twice, so
that the order of two cells of one key shows.

Deadlock is checked in the run of `SyncQueue` only; the threads of the others
stop when there are no more file names, writes or cells. Symmetry is used for
the two logs of `logs`, which has no liveness.

Four runs expect a violation. Each states what the repository says of itself and
shows a behaviour of the code against it:

* `sync_early` (`SyncedIsRecoverable`): `saveConfig()` returns when
  `configChanged` is clear, but the work thread clears it before META is
  written, so `sync()` returns with a write that a crash would lose;
* `gc_split` (`GarbageIsUnused`): a tablet is split, its upper half compacted
  and saved before the lower half has a META row; a collector that scans META
  then finds no row that names the old file and removes it, though the lower
  half reads it. `CollectorKeepsSavedFiles` says what holds instead;
* `scan_truncated` (`ScanComplete`): a split and a replacement of fragments,
  both before the SuperScanner is reset, make a Scanner below the split point
  end, and the scan goes on behind the tablet's old upper bound;
* `local_full` (`FlushReturns`): the caller waits for room in
  `serializationQueue` with the mutex that the serialization thread needs.

### Known disagreements without a run

These were found with the same modules and need a configuration, a property or
both that the runs above do not have:

* saves of one tablet that overlap: two threads in `saveConfig()`, the work
  thread's and one in `sync()`, can write their snapshots in the wrong order.
  META then keeps the older one while the files it names are released
  (`Tablet.cc:460-469`), until something else changes in the tablet. So META
  may name files that are gone, a crash may lose data, and the tablet does not
  settle. `SavedIsCurrent`, `SavedFilesKept`, `RepairKeepsSaved` and `Settles`
  except the tablets that `race` names for just this reason; without the
  exception TLC violates the first two in the constants of `gc`. With it
  they say that this is the only way to get there, and that a save which runs
  alone mends it. `MetaFilesExist`, which is `SavedFilesKept` without
  a collector, is proved (`MetaFilesKept`) and not checked in a run of its own;
* `RepairKeepsSaved` is violated without its premise that every tablet has a
  META row: a split posts the saves of its halves, and a compaction may change
  the upper half's files first. If only the upper half is saved at a crash,
  `loadTabletConfigs()` gives it the lower rows with files that do not have them
  (`notes/meta_config.txt:105` says the writer will `sync()` first);
* `Tablet::sync()` clears `mutationsPending` before the logger has synced
  (`Tablet.cc:241`), so another thread's `sync()` returns at once. What
  `LoggerSyncIsDurable` says is about the `sync()` that does wait;
* a normal `SharedLogger::shutdown()` cancels waits while the commit thread may
  still have groups for a full `serializeQueue`; the push fails and
  `callOrDie()` ends the process (`SharedLogger.cc:466`). `ShutdownLogsAll`
  says that nothing accepted is lost from the log all the same;
* a local table that is stopped while it loads, or cannot open one of its files,
  writes a state that names only some of its tables (`local_table.cc:725`).
  `SyncedSurvives` excludes it with `torn`. A state file that exists and cannot
  be read is caught by the same handler and starts an empty table over; the
  model's state file is always readable;
* a Scanner that is reset just after the loop that passes the last cell has
  ended returns cells a second time (`SuperScanner.cc:70`), a tablet that is
  split between `getRows()` and `getMergedScan()` gives the caller an error
  (`Scanner.cc:73`), and a network scan with a history predicate of more than
  one loses versions when it is resumed (`net_table.cc:501`). The refinements
  allow these three and nothing else.

## Fairness

`split` assumes weak fairness of the server's steps taken together, those of the
work, serialize and compact threads and `PushGroup`: as long as one of them can
go on, one of them does. A thread that is inside `saveConfig()` for a `sync()`
goes on too (`Fairness`); in this run there is none. They are loops of threads of their own, and nothing but
their guards stops them; with file names and logs bounded no thread can keep the
others waiting for ever, so fairness of each is not needed. Clients and new
writes are under no obligation. In
`logger` a call that has begun, and the commit, serialize and shutdown
steps, are fair; that a call begins is not. Several clients compete for
`publicMutex`, but in the run each call waits for it at most a bounded number
of times, because writes are bounded: starvation by endless writers, which
`waitForCompletion()` allows, is not excluded by the code and not claimed.
`queue` assumes only that a notified thread gets the mutex in the end.
In `scan` a `get()` that has begun goes on, and so do the threads that reset
scanners; nobody owes a split, a replacement or another `get()`. In `net` the
caller goes on reading (the property is about a caller that does), time passes,
and callbacks and the server's threads run; calls fail at most `MaxFaults`
times, because a server that fails for ever, with a success now and then to
reset `nFailures`, does keep a scan retrying for ever. In `local` the two
workers run and a call that has begun goes on. Each of these threads waits only
for a lock or a queue that the properties are about.

## Proofs

Every theorem is for all values of the constants, under the assumptions of the
modules: positive numbers of rows and limits, logs and disk files distinct,
`None` none of the values. Those that say more about the code:

* `NoneAssumption` of `Tablet`: `None` is neither a job nor a configuration, as
  a null pointer is no object;
* all theorems about `Tablet` and `TabletGc` are for any set `Syncers` of
  threads in `sync()`; those about META except the tablets whose saves have
  overlapped (`race`), since there the code does not do what they say;
* `LocalTableAssumption`: `Slack = QMax + 2`, `CompactAt > Slack` and
  `MaxWayMerge >= CompactAt`, the relations between the constants of
  `local_table.cc`. A compaction window needs them to have two tables;
* `TableScanAssumption`: cells are numbered in the order of their rows, as keys
  are ordered by row first; `NetScanAssumption` says the same of its cells, and
  that the numbers of buffers, failures and scanners kept are positive.

### SyncQueueProofs

* `QueueInvariant`: `IInv`, the conjunction of `TypeOK`, `CountersAgree`,
  `NoLostItem`, `NoLostRoom`, `NoMissedEnd` and `CancelWakesAll`, is inductive.
  None of the wakeup facts is inductive alone: that a push may notify one thread
  only rests on the count of those already awake, and that the last waiter wakes
  `cancelWaits(true)` on the exact `nWaiting`. The argument goes by passes: a
  pass starts from a state where its thread is neither counted nor asleep, and
  ends by `Return` or `Wait`; lemmas say what each end does to the sets of
  awake and sleeping threads, one lemma per operation adds what it moved;
* `ItemNotLost`, `RoomNotLost`, `EndNotMissed`, `Counters` and
  `CompletionQuiescent` follow;
* `DeliveryHolds`: `Spec => Abstract!Spec`, step by step.

### TabletProofs

* `Invariant`: `BaseTypes`, `TabletsPartitionRows` and `KnownTablets` together
  are inductive. Types need the partition (the lookup of a row's tablet must
  find one), the partition needs `KnownTablets` (the tablet that a split job
  names must be one of the table's, or the split would make rows appear twice),
  and both need types. The core is `SplitKeepsPartition`: the split row is the
  last row of no tablet yet, since it lies inside another one. `Splice`, the
  replacement in a chain, keeps chains sequences of fragments (`SpliceType`);
* `TypeCorrect`, `Partition` and `Known` follow;
* `LogInvariant`: `LogInv` says that no thread has died and why none will. It has
  two sides.

  For a log, `CallsBalance` is an equation for every log and tablet: what is going
  to call `replaceFragments()` on the tablet (the logger's list of tablets, the
  call that begins, the link of the tablet it was cloned from) counts as much as
  what explains the call (the log in the chain, a remembered duplicate). So a call
  finds the log or a remembered notice, and is then paid for. `OneLink` (a tablet
  is cloned from one other) makes the link a count of at most one,
  `ChainsInOrder` makes a log occur once in a chain, since a chain has its logs in
  the order in which the logger serializes them. `SerializeEnd` needs that no
  chain has the log any more: `NoChainHasLog` takes the tablet with the highest
  rows that has it; nothing is listed or called, so a link leads to it, from a
  tablet of higher rows (`LinksGoDown`) that has the log too.

  For a run, `RunInChains`: until the merge is over every tablet with rows in the
  range has the run in its chain, next to one another, because other threads only
  append logs and replace logs (`MatchStays`), and a split gives both halves the
  chain; from then on `dagMutex` keeps splits away. The chosen run consists of
  disk fragments as `FragDag` has no others (`DagOfDisk`);
* `NeverUnknown` and `LogsLast` follow.

### TabletFilesProofs

* `RefInvariant`: `RefSide` says who counts on a file. A tablet does while the
  file is in its chain, swapped but not yet marked, or in its dead list
  (`Uses`); the logger and the compactor do while they make or keep it (`Kept`).
  `Counted` is the equation: the count of a file of this server is the number of
  these, and it is on disk exactly when that is not zero. The equation alone
  is not inductive. A step gives or takes one reference only if a tablet counts on
  a file in one way at a time (`UsedOnce`) and has it once in its chain
  (`ChainsOnce`), if a replacement is not there yet where it is to be put
  (`OutputsNew`), and if dead lists have none of the logs still to be serialized
  (`DeadApart`). It rests on `LogInv` for where logs and runs are.
  `CountsExact` follows by counting the holders in two ways (`TaggedCount`);
* `DataInvariant`: a replacement has the writes of what it replaces (`SwapKeeps`,
  `MergeKeeps`), for the rows of the tablets that are still to be told, and so
  every write stays in the chain of the tablet that has its row (`Stored`).
  `NoticesLeft` is for the log that a split has put into both halves: a second
  notice of it must not have been spent. `WritesKept` adds that used files exist,
  which is `Counted`;
* `BoundInvariant`: META's lower bound of a tablet is at most one split behind
  (`BehindOne`), because the save of a split is queued before any other split of
  the tablet or of its lower half (`BehindSaved`, `SplitsOnce`), and the queue is
  a FIFO with one thread. A split waits for the API threads in `saveConfig()`
  (`SplitAlone`). From it `Repairable`: an old bound in META is the bound of the
  tablet below;
* `MetaInvariant`: what META names, and what a thread in `saveConfig()` is about
  to write, is in use or was loaded with the table (`SavedUsed`, `SavingUsed`),
  since a dead file is released only after a save that does not name it; and a
  tablet with nothing left to note is as META has it or is being saved
  (`SavedNow`). All of it rests on one thread being in `saveConfig()` for a
  tablet at a time: `Solo` says that it is, for each tablet that `race` does not
  name as raced, and that is where the hypothesis on `race` comes from. A tablet
  that is `"mending"` has a good snapshot on its way and nothing yet known of
  its row. Steps outside `saveConfig()` are summed up in two relations,
  `FilesStay` and `ChangesNoted`, which is all that the argument needs of them.
  `MetaFilesKept` and `LatestSaved` follow;
* `RepairsKeep`: once every tablet is in META, the tablet below in META is the
  true one (`SavedBelow`); a row whose tablet is dropped by the repair lies in the
  range that the row above gets, whose files still have its data;
* `GcInvariant`, for `TabletGc`: a configuration in META or about to be written
  has all loaded files its tablet still has (`SavedLoaded`), and one about to be
  written has none that META has not (`SavingLoaded`); so the loaded files that a
  tablet, its row or a save of it name only get fewer (`NamedShrink`), and are in
  the row when the collector reads it. From then on they are in the active set,
  and out of the garbage at the end (`GcKeeps`). Reference counts keep the rest.
  `CollectorKeeps`, `CollectorKeepsMeta` and `CollectorCounts` follow; nothing is
  said of a tablet that the scan has `missed`, which is what run `gc_split` shows.

### SharedLoggerProofs

* `LoggerInvariant`: besides `TypeOK` and `LogKeepsOrder`, the invariant has who
  holds `publicMutex` and what that says of the buffer (`MutexGuardsBuffer`),
  when the commit thread may end (`CommitEnds`), what the tables lack of the log
  while a buffer is applied tablet by tablet (`TablesFollowLog`), where every
  accepted write is (`Accounted`) and how far a `sync()` has seen its writes
  (`GoalsReached`). A `sync()` returns when no buffer is pending; that this means
  "logged" rests on the exact count of pending buffers, and that nothing is
  added behind a flush on the mutex;
* `OrderKeptInLog` is inductive only with the mutex part: two threads that
  flushed the buffer at once would push it twice. `OfTabProperties` says that
  the writes to a tablet in a concatenation are the concatenation of the
  writes;
* `LoggerTypes`, `LogAndTables`, `SyncMakesDurable` and `ShutdownKeepsAll`
  follow.

### TableScanProofs

* `ScanInvariant`: `FilesHeld` says who keeps the files of the open merge alive:
  the chain of the Scanner's tablet or, between a swap and the reset of the
  Scanners, the replacement. `ScannerRows` relates the Scanner's rows to the
  rows that remain and the last cell returned, through splits that move the
  tablet's bounds under it. `DueIsAhead`, `DueIsInMerge` and `ReadsAhead` are
  about a scan that is not lost: what is due lies past the last cell, will come
  from the merge, and is what the next read finds unless `get()` skips it;
* `MergesReadExistingFiles` and `ScanIsOrdered`, the refinement of
  `OrderedScan`, follow: a read is `Deliver`, a write or erasure its
  counterpart, and a step in which the scan loses its place is `Lose`.

### NetScanProofs

* `NetScanInvariant`: the invariant has three layers. `CallsMatch` and
  `CacheCounts` are about calls: those given up are on scanners that the client
  never uses again and no two on the same, so that each item of the cache is
  held at most once, and the cache exceeds its limit only while all its items
  are in use. `BuffersAccounted` counts the buffers: a fetch begins only when
  one is empty, and nothing takes it before the reply. `InOrder`, `GotAll`,
  `KeyIsLast` and `StreamAhead` follow the cells: what was returned, the active
  buffer, the queue, the block on its way and what the current scanner has not
  read are in this order and leave out nothing that is due; when a scan is
  opened again, `lastKey` is the key of the last cell fetched;
* one lemma for each operation of the LRU cache (`GetFacts`, `ReleaseFacts`,
  `DropFacts`, `FlushedFacts`) says what it does to a cache with given holders.
  The server's actions come down to five kinds of step (a call opens a scanner,
  pins one, fails, reads, or nothing the client sees), the client's to those that
  leave calls alone, begin one or lose one; each part of the invariant is argued
  once for each kind;
* `FetchHasBuffer` and `RunsStayCached` follow, and `NoScannerIsLeft`, which
  needs `NothingElse`: without failures the cache has only the client's scanner;
* `NetScanIsOrdered`, the refinement of `OrderedScan`: `Scan` is `Begin`,
  `GetCell` is `Deliver`, `NextEnd` is `End` or `Fail`, the resumption that
  passes over versions is `Lose`, and all else is a stuttering step.

### LocalTableProofs

* `LocalTableInvariant`: the invariant follows the list of tables. The logs of
  the list are the one being serialized, those queued and the one being written,
  in this order, at its end (`LogsQueued`); so a serialization makes the first
  log a disk table and `numDiskTables` tells them apart. Tables in the list, in
  the state file and still to be loaded have files of their own (`EntriesHaveFiles`,
  `StateFile`), files that the workers remove are used by none of them
  (`WorkersFiles`), a table has the newest of its file and of what was not
  synced (`TablesFollowFiles`), and the merge of the files is what was synced
  (`FilesAreComplete`);
* `MergeFlushed` is why moving the buffer into the last table keeps the merge,
  and `MergeCompacted` why replacing a window of tables by the newest of their
  cells does, with erasures dropped when nothing is below the window. Both argue
  cell by cell: a cell is in the merge when no later table has its key
  (`MergedIsTop`);
* a crash keeps a prefix of what the log was given (`CrashKept`), an orderly
  stop the list (`StopKept`), and loading rebuilds the list from the state file;
  the two orders in which the code writes the state file and removes files are
  what these need;
* `LocalTableTypes`, `ScansSeeNewest`, `RestartsSeeSynced`, `StateFileIsSound`
  and `CompactionsStayValid` follow.

### Not proved

The provers cannot instantiate theorems that take an operator, so the library's
induction theorems are of no use; `SequenceLemmas` has induction over naturals
and over sequences stated for a set, from the well-foundedness of `<`, and that
is what `Selected`, `OfTab` and `FlattenSeq` are reasoned about with. Liveness (`Settles`,
`CancelReturns`, `CallsReturn`, `GetsReturn`, `ScanFinishes`, `WorkEnds`) is out
of the prover's reach and is only model-checked. Every invariant that a passing
run checks is the subject of a theorem.

## Not modelled

The weights of `FragDag` and compactions over several tablets at once; the
choice of a split row by size; the counters of the mutation interlock;
`FileTracker::untrack()`, which only `~Tablet()` calls: no tablet is destroyed
while the server runs; a local table's state file that cannot be read; the encoding of META cells and the bootstrap of the root table;
log recovery at start, which depends on the bytes of a log; `WorkQueue::shutdown`
and compactor shutdown; the writing side of the network client (a buffer and a
loop around one call) and the server's table objects; the lock file of a local
table and the cache of synchronized tables. Data formats, predicates, filters,
tools, bindings, the vendored compression library and the general-purpose parts
of `warp`, `flux`, `oort` and `ex` are left out for good: they are sequential
code with unit tests or input and output only, and they are most of the
repository's lines.

## Plan

1. `SuperTablet` with the mutation interlock as its own module.
2. Recovery: the META repair as an action on the state of `Tablet` after a
   crash, with compactions of several ranges.
3. A composition of META's tablets with a user table's for the lock order of
   `dagMutex` and `serializeQueue`.
