------------------------------- MODULE Tablet -------------------------------
(***************************************************************************)
(* The tablets of one table inside one server: their fragment chains, the  *)
(* files those fragments live in, and the tablet configurations saved in   *)
(* the META table (kdi/tablet/Tablet.cc, with the callers in SharedLogger, *)
(* SharedCompactor, FragDag and SuperTablet that drive it).                *)
(*                                                                         *)
(* Threads: the commit thread appends log fragments; the serialize thread  *)
(* replaces a log by a disk fragment, in every tablet that has the log;    *)
(* the compact thread replaces runs of disk fragments; the work thread     *)
(* saves configurations and splits tablets; API threads call sync().       *)
(* An action is a section of code that runs under Tablet::mutex.           *)
(*                                                                         *)
(* A tablet is named by its last row, as its META row is, and covers the   *)
(* rows (minRow[t], t].  A fragment and the file it lives in have one      *)
(* name.  A write is a pair <<row, log>>: all writes to a row that go to   *)
(* one log count as one.                                                   *)
(***************************************************************************)
EXTENDS Naturals, FiniteSets, SequencesExt, FileTracker

CONSTANTS
    NRows,          \* rows are 1..NRows; the table starts as one tablet
    Log,            \* shared log files
    Disk,           \* disk fragments
    InitChain,      \* fragments of the tablet when the server loads it
    Syncers,        \* API threads that call sync()
    Work,           \* the thread of WorkQueue(1)
    SerializeMax,   \* serializeQueue(2)
    None

Row == 1..NRows
Frag == Log \cup Disk
Saver == Syncers \cup {Work}

ASSUME TabletAssumption ==
    /\ NRows \in Nat \ {0}
    /\ InitChain \in Seq(Disk)
    /\ Log \cap Disk = {}
    /\ Work \notin Syncers
    /\ None \notin Row \cup Frag
    /\ SerializeMax \in Nat \ {0}

VARIABLES
    files,          \* FileTracker::files
    disk,           \* files that exist
    made,           \* files ever created
    content,        \* the writes stored in each fragment
    live,           \* SuperTablet::tablets
    minRow,         \* Tablet::minRow (exclusive)
    chain,          \* Tablet::fragments
    configChanged, deadFiles, clonedLogs, duplicatedLogs, splitPending,
    dag,            \* FragDag::activeFragments
    meta,           \* the saved configuration of each tablet
    jobs, job,      \* WorkQueue::jobs and the job being run
    save,           \* what each thread inside saveConfig() is doing
    race,           \* history: tablets whose saves have overlapped
    open, group, full, serq,    \* SharedLogger: log, its tablets, queue
    serLog, serFrag, serTodo, serStack,     \* TableGroup::serialize()
    compPc, compRun, compRows, compOut, compTodo, compTab,  \* compact()
    acked,          \* writes covered by a sync() that has returned
    died            \* a thread under callOrDie() raised an error

trackerVars == <<files, disk, made, content>>
tabletVars == <<live, minRow, chain, configChanged, deadFiles, clonedLogs,
                duplicatedLogs, splitPending>>
loggerVars == <<open, group, full, serq>>
serVars == <<serLog, serFrag, serTodo, serStack>>
compVars == <<compPc, compRun, compRows, compOut, compTodo, compTab>>
workVars == <<jobs, job>>
vars == <<trackerVars, tabletVars, dag, meta, workVars, save, race,
          loggerVars, serVars, compVars, acked, died>>

Rows(t) == (minRow[t] + 1)..t

\* Mutant: the saved lower bound is one row too low.
ConfigRowOff(t) == [minRow |-> IF minRow[t] = 0 THEN 0 ELSE minRow[t] - 1,
                    uris |-> chain[t]]

\* What saveConfig() stores: the lower bound and the fragments, in order.
Config(t) == [minRow |-> minRow[t], uris |-> chain[t]]

\* SuperTablet::getTablet(): the tablet that owns a row.
Owner(r) == CHOOSE t \in live : r \in Rows(t)

\* performSplit() holds a MutationLull: no set(), erase() or sync() runs.
Lull == job # None /\ job.kind = "split"

\* compactor->dagMutex is held by the compact thread while it replaces.
DagFree == compPc \notin {"replace", "mark", "ask"}

Writes(F) == UNION {content[f] : f \in F}
OnRows(W, R) == {w \in W : w[1] \in R}

\* std::search(): where the sequence s begins in t, and the first such place.
Matches(s, t) ==
    {i \in 1..Len(t) : i + Len(s) - 1 <= Len(t)
                       /\ SubSeq(t, i, i + Len(s) - 1) = s}
FirstMatch(s, t) ==
    CHOOSE i \in Matches(s, t) : \A j \in Matches(s, t) : i <= j

\* The sequence t with its first part s replaced by r.
Splice(r, s, t) ==
    LET i == FirstMatch(s, t) IN
    SubSeq(t, 1, i - 1) \o r \o SubSeq(t, i + Len(s), Len(t))

Idle == [pc |-> "idle"]

SaveJob(t) == [kind |-> "save", tab |-> t, synced |-> FALSE]
SplitJob(t) == [kind |-> "split", tab |-> t, synced |-> FALSE]

Init ==
    /\ files = [f \in Frag |-> 0]
    /\ disk = ToSet(InitChain)
    /\ made = ToSet(InitChain)
    /\ content = [f \in Frag |-> IF f \in ToSet(InitChain)
                                 THEN Row \X {f} ELSE {}]
    /\ live = {NRows}
    /\ minRow = [t \in Row |-> 0]
    /\ chain = [t \in Row |-> IF t = NRows THEN InitChain ELSE <<>>]
    /\ configChanged = [t \in Row |-> FALSE]
    /\ deadFiles = [t \in Row |-> {}]
    /\ clonedLogs = [t \in Row |-> [l \in Log |-> None]]
    /\ duplicatedLogs = [t \in Row |-> {}]
    /\ splitPending = [t \in Row |-> FALSE]
    /\ dag = [t \in Row |-> IF t = NRows THEN ToSet(InitChain) ELSE {}]
    /\ meta = [t \in Row |-> IF t = NRows
                             THEN [minRow |-> 0, uris |-> InitChain]
                             ELSE None]
    /\ jobs = <<>> /\ job = None
    /\ save = [s \in Saver |-> Idle]
    /\ race = [t \in Row |-> "none"]
    /\ open = None /\ group = [l \in Log |-> <<>>]
    /\ full = FALSE /\ serq = <<>>
    /\ serLog = None /\ serFrag = None /\ serTodo = <<>> /\ serStack = <<>>
    /\ compPc = "idle" /\ compRun = <<>> /\ compRows = {}
    /\ compOut = None /\ compTodo = {} /\ compTab = None
    /\ acked = {}
    /\ died = FALSE

-----------------------------------------------------------------------------
(* Saving a tablet's configuration.                                        *)

\* Mutant: the job is posted but the configuration is not marked.
PostConfigChangeUnmarked(ts) ==
    /\ UNCHANGED configChanged
    /\ jobs' = jobs \o [i \in 1..Len(ts) |-> SaveJob(ts[i])]

\* Mutant: the configuration is marked but no job is posted.
PostConfigChangeNoJob(ts) ==
    /\ configChanged' = [t \in Row |-> configChanged[t] \/ t \in ToSet(ts)]
    /\ UNCHANGED jobs

\* postConfigChange() for the tablets of the sequence ts, in order.
PostConfigChange(ts) ==
    /\ configChanged' = [t \in Row |-> configChanged[t] \/ t \in ToSet(ts)]
    /\ jobs' = jobs \o [i \in 1..Len(ts) |-> SaveJob(ts[i])]

\* A thread other than s is in saveConfig() for tablet t.
Overlaps(s, t) == \E u \in Saver \ {s} : save[u].pc # "idle" /\ save[u].tab = t

\* The history of t's saves when s takes a snapshot: once two saves have
\* overlapped, META is taken to be right again after one that ran alone.
RaceAt(s, t) == IF Overlaps(s, t) THEN "raced"
                ELSE IF race[t] = "none" THEN "none" ELSE "mending"

\* The head of saveConfig()'s loop: take the snapshot and unlock.
Snapshot(s, t, covers) ==
    /\ configChanged' = [configChanged EXCEPT ![t] = FALSE]
    /\ save' = [save EXCEPT ![s] = [pc |-> "saving", tab |-> t,
                                    cfg |-> Config(t), covers |-> covers]]
    /\ race' = [race EXCEPT ![t] = RaceAt(s, t)]

\* The work thread pops a doSaveConfig() job and runs it up to the unlock.
StartSave ==
    /\ job = None /\ jobs # <<>> /\ Head(jobs).kind = "save"
    /\ jobs' = Tail(jobs)
    /\ LET t == Head(jobs).tab IN
       IF configChanged[t]
       THEN job' = Head(jobs) /\ Snapshot(Work, t, {})
       ELSE UNCHANGED <<job, configChanged, save, race>>
    /\ UNCHANGED <<trackerVars, live, minRow, chain, deadFiles, clonedLogs,
                   duplicatedLogs, splitPending, dag, meta, loggerVars,
                   serVars, compVars, acked, died>>

\* An API thread in Tablet::sync() for tablet t, after logger->sync(): all
\* writes accepted so far are in the logs, and saveConfig() begins.  If the
\* configuration is not marked as changed sync() returns at once.
Sync(s, t) ==
    /\ ~Lull
    /\ s \in Syncers /\ t \in live
    /\ save[s].pc = "idle"
    /\ LET covers == OnRows(Writes(Log), Rows(t)) IN
       IF configChanged[t]
       THEN Snapshot(s, t, covers) /\ UNCHANGED acked
       ELSE acked' = acked \cup covers /\ UNCHANGED <<configChanged, save,
                                                      race>>
    /\ UNCHANGED <<trackerVars, live, minRow, chain, deadFiles, clonedLogs,
                   duplicatedLogs, splitPending, dag, meta, workVars,
                   loggerVars, serVars, compVars, died>>

\* configMgr->setTabletConfig() returns: the META row is durable.
WriteConfig(s) ==
    /\ save[s].pc = "saving"
    /\ meta' = [meta EXCEPT ![save[s].tab] = save[s].cfg]
    /\ save' = [save EXCEPT ![s].pc = "saved"]
    /\ race' = [race EXCEPT ![save[s].tab] = IF @ = "mending" THEN "none" ELSE @]
    /\ UNCHANGED <<trackerVars, tabletVars, dag, workVars, loggerVars,
                   serVars, compVars, acked, died>>

\* Mutant: saveConfig() writes the configuration once.
MustSaveAgainNever(t) == FALSE

\* The test that ends saveConfig()'s loop.
MustSaveAgain(t) == configChanged[t]

\* Mutant: the dead files are released and kept in the list.
DeadAfterReleaseKept(t) == deadFiles

\* deadFiles.clear()
DeadAfterRelease(t) == [deadFiles EXCEPT ![t] = {}]

\* Back under the lock with a configuration that changed meanwhile: loop.
SaveAgain(s) ==
    /\ save[s].pc = "saved"
    /\ MustSaveAgain(save[s].tab)
    /\ Snapshot(s, save[s].tab, save[s].covers)
    /\ UNCHANGED <<trackerVars, live, minRow, chain, deadFiles, clonedLogs,
                   duplicatedLogs, splitPending, dag, meta, workVars,
                   loggerVars, serVars, compVars, acked, died>>

\* Back under the lock, nothing new to save: release the dead files.  A job
\* of the work thread is over, unless it is a split that was only syncing.
FinishSave(s) ==
    LET t == save[s].tab IN
    /\ save[s].pc = "saved"
    /\ ~MustSaveAgain(t)
    /\ files' = Release(files, deadFiles[t])
    /\ disk' = disk \ Deleted(files, deadFiles[t])
    /\ deadFiles' = DeadAfterRelease(t)
    /\ acked' = acked \cup save[s].covers
    /\ save' = [save EXCEPT ![s] = Idle]
    /\ job' = IF s # Work THEN job
              ELSE IF Lull THEN [job EXCEPT !.synced = TRUE] ELSE None
    /\ UNCHANGED <<made, content, live, minRow, chain, configChanged,
                   clonedLogs, duplicatedLogs, splitPending, dag, meta, jobs,
                   race, loggerVars, serVars, compVars, died>>

-----------------------------------------------------------------------------
(* The commit thread.                                                      *)

\* Mutant: a second notice of a log is dropped without a trace.
NoteDuplicateForgotten(t, l) == duplicatedLogs

\* addFragment() of a log that a clone already has: remember that the
\* serializer will call twice.
NoteDuplicate(t, l) == [duplicatedLogs EXCEPT ![t] = @ \cup {l}]

\* TableGroup::applyMutations() for one buffered write to row r: a new log
\* is started if none is open, the write is logged, and the row's tablet is
\* told of the log the first time it is used for it (Tablet::addFragment).
\* `big' is whether the group has reached its size limit.  During a split no
\* write is accepted, and those to the tablet being split have been committed
\* by the logger->sync() of its sync(); others may still be in the buffer.
Commit(r, l, big) ==
    LET t == Owner(r)
        first == t \notin ToSet(group[l])
        add == first /\ l \notin ToSet(chain[t])
        fresh == IF open = None THEN Track(files, l) ELSE files
    IN
    /\ ~full /\ (Lull => t # job.tab)
    /\ IF open = None THEN l \in Log \ made ELSE l = open
    /\ <<r, l>> \notin content[l]
    /\ open' = l
    /\ full' = big
    /\ made' = made \cup {l}
    /\ disk' = disk \cup {l}
    /\ content' = [content EXCEPT ![l] = @ \cup {<<r, l>>}]
    /\ group' = IF first THEN [group EXCEPT ![l] = Append(@, t)] ELSE group
    /\ duplicatedLogs' = IF first /\ ~add
                         THEN NoteDuplicate(t, l) ELSE duplicatedLogs
    /\ IF add
       THEN /\ chain' = [chain EXCEPT ![t] = Append(@, l)]
            /\ files' = AddReference(fresh, {l})
            /\ PostConfigChange(<<t>>)
       ELSE files' = fresh /\ UNCHANGED <<chain, configChanged, jobs>>
    /\ UNCHANGED <<live, minRow, deadFiles, clonedLogs, splitPending, dag,
                   meta, job, save, race, serq, serVars, compVars, acked,
                   died>>

\* Mutant: the new group goes to the front of the queue.
PushGroupFront ==
    /\ full /\ Len(serq) < SerializeMax
    /\ serq' = <<open>> \o serq
    /\ open' = None /\ full' = FALSE
    /\ UNCHANGED <<trackerVars, tabletVars, dag, meta, workVars, save, race,
                   group, serVars, compVars, acked, died>>

\* Mutant: the group is still taken to be full once it is handed over.
PushGroupStillFull ==
    /\ full /\ Len(serq) < SerializeMax
    /\ serq' = Append(serq, open)
    /\ open' = None /\ UNCHANGED full
    /\ UNCHANGED <<trackerVars, tabletVars, dag, meta, workVars, save, race,
                   group, serVars, compVars, acked, died>>

\* commitLoop() hands a full group to the serialize thread.
PushGroup ==
    /\ full /\ Len(serq) < SerializeMax
    /\ serq' = Append(serq, open)
    /\ open' = None /\ full' = FALSE
    /\ UNCHANGED <<trackerVars, tabletVars, dag, meta, workVars, save, race,
                   group, serVars, compVars, acked, died>>

-----------------------------------------------------------------------------
(* The serialize thread: TableGroup::serialize() and the log case of       *)
(* Tablet::replaceFragments(), which forwards to clones by recursion.      *)
(* serStack is its call stack, innermost call first.                       *)

SerCall(t) == [tab |-> t, pc |-> "swap"]
SerTop == Head(serStack)
SerGoto(pc) == serStack' = <<[SerTop EXCEPT !.pc = pc]>> \o Tail(serStack)

\* An output file gets a name that was never used: which one makes no
\* difference, so there is one choice at a time.
NextFile(d) == d \in Disk \ made /\ d = CHOOSE e \in Disk \ made : TRUE

\* Write the log's cells to a new, tracked, disk fragment.
SerializeStart(d) ==
    /\ serLog = None /\ serq # <<>>
    /\ NextFile(d)
    /\ serLog' = Head(serq) /\ serq' = Tail(serq)
    /\ serFrag' = d
    /\ serTodo' = group[Head(serq)]
    /\ made' = made \cup {d} /\ disk' = disk \cup {d}
    /\ files' = Track(files, d)
    /\ content' = [content EXCEPT ![d] = content[Head(serq)]]
    /\ UNCHANGED <<tabletVars, dag, meta, workVars, save, race, open, group,
                   full, serStack, compVars, acked, died>>

\* Notify the next tablet of the group.
SerializeNext ==
    /\ serLog # None /\ serStack = <<>> /\ serTodo # <<>>
    /\ serStack' = <<SerCall(Head(serTodo))>>
    /\ serTodo' = Tail(serTodo)
    /\ UNCHANGED <<trackerVars, tabletVars, dag, meta, workVars, save, race,
                   loggerVars, serLog, serFrag, compVars, acked, died>>

\* The log is swapped for the disk fragment; or it is a duplicate notice for
\* a log a clone update already replaced; or nobody knows the log.
ReplaceLog ==
    /\ serStack # <<>> /\ SerTop.pc = "swap"
    /\ LET t == SerTop.tab IN
       \/ /\ serLog \in ToSet(chain[t])
          /\ chain' = [chain EXCEPT ![t] =
                          Splice(<<serFrag>>, <<serLog>>, @)]
          /\ files' = AddReference(files, {serFrag})
          /\ SerGoto("mark")
          /\ UNCHANGED <<duplicatedLogs, died>>
       \/ /\ serLog \notin ToSet(chain[t])
          /\ died' = (died \/ serLog \notin duplicatedLogs[t])
          /\ duplicatedLogs' = [duplicatedLogs EXCEPT ![t] = @ \ {serLog}]
          /\ serStack' = Tail(serStack)
          /\ UNCHANGED <<chain, files>>
    /\ UNCHANGED <<disk, made, content, live, minRow, configChanged, deadFiles,
                   clonedLogs, splitPending, dag, meta, workVars, save, race,
                   loggerVars, serLog, serFrag, serTodo, compVars, acked>>

\* Scanners are off the old log: its file is dead once META is rewritten.
MarkLogDead ==
    /\ serStack # <<>> /\ SerTop.pc = "mark"
    /\ deadFiles' = [deadFiles EXCEPT ![SerTop.tab] = @ \cup {serLog}]
    /\ PostConfigChange(<<SerTop.tab>>)
    /\ SerGoto("forward")
    /\ UNCHANGED <<trackerVars, live, minRow, chain, clonedLogs,
                   duplicatedLogs, splitPending, dag, meta, job, save, race,
                   loggerVars, serLog, serFrag, serTodo, compVars, acked,
                   died>>

\* Forward the replacement to the tablet that cloned this log, if any.
ForwardToClone ==
    /\ serStack # <<>> /\ SerTop.pc = "forward"
    /\ LET t == SerTop.tab
           u == clonedLogs[t][serLog]
           rest == <<[SerTop EXCEPT !.pc = "dag"]>> \o Tail(serStack)
       IN /\ serStack' = IF u = None THEN rest ELSE <<SerCall(u)>> \o rest
          /\ clonedLogs' = [clonedLogs EXCEPT ![t][serLog] = None]
    /\ UNCHANGED <<trackerVars, live, minRow, chain, configChanged, deadFiles,
                   duplicatedLogs, splitPending, dag, meta, workVars, save,
                   race, loggerVars, serLog, serFrag, serTodo, compVars, acked,
                   died>>

\* Make the new fragment available for compaction.
AddToDag ==
    /\ serStack # <<>> /\ SerTop.pc = "dag"
    /\ DagFree
    /\ dag' = [dag EXCEPT ![SerTop.tab] = @ \cup {serFrag}]
    /\ SerGoto("ask")
    /\ UNCHANGED <<trackerVars, tabletVars, meta, workVars, save, race,
                   loggerVars, serLog, serFrag, serTodo, compVars, acked,
                   died>>

\* The end of replaceFragments(): ask for a split if the tablet has reached
\* the split threshold (`big') and has not asked already.
RequestSplit(t, big) ==
    /\ splitPending' = [splitPending EXCEPT ![t] = @ \/ big]
    /\ jobs' = IF big /\ ~splitPending[t]
               THEN Append(jobs, SplitJob(t))
               ELSE jobs

SerializeAskSplit(big) ==
    /\ serStack # <<>> /\ SerTop.pc = "ask"
    /\ RequestSplit(SerTop.tab, big)
    /\ serStack' = Tail(serStack)
    /\ UNCHANGED <<trackerVars, live, minRow, chain, configChanged, deadFiles,
                   clonedLogs, duplicatedLogs, dag, meta, job, save, race,
                   loggerVars, serLog, serFrag, serTodo, compVars, acked,
                   died>>

\* The AutoTracker's reference to the new file and the logger's reference to
\* the log.
LoggerFiles == {serFrag, serLog}

\* All tablets are notified: the logger drops its references.
SerializeEnd ==
    /\ serLog # None /\ serStack = <<>> /\ serTodo = <<>>
    /\ files' = Release(files, LoggerFiles)
    /\ disk' = disk \ Deleted(files, LoggerFiles)
    /\ serLog' = None /\ serFrag' = None
    /\ UNCHANGED <<made, content, tabletVars, dag, meta, workVars, save, race,
                   loggerVars, serTodo, serStack, compVars, acked, died>>

-----------------------------------------------------------------------------
(* The compact thread, for a compaction of one tablet's range.             *)

\* FragDag::chooseCompactionSet(): some run of tablet t, for weights that are
\* not modelled.  getChild() asks only that a fragment is active in some tablet.
Compactable(t, run) ==
    /\ Len(run) > 1
    /\ ToSet(run) \subseteq UNION {dag[u] : u \in live}
    /\ ToSet(run) \cap dag[t] # {}

\* compact() begins, with the rows that tablet t has right now.
CompactStart(t, i, j) ==
    /\ compPc = "idle"
    /\ t \in live
    /\ LET run == SubSeq(chain[t], i, j) IN
       /\ Compactable(t, run)
       /\ compRun' = run
    /\ compRows' = Rows(t)
    /\ compPc' = "merge"
    /\ UNCHANGED <<trackerVars, tabletVars, dag, meta, workVars, save, race,
                   loggerVars, serVars, compOut, compTodo, compTab, acked,
                   died>>

\* Mutant: tablets outside the range that was merged are updated too.
CompactTargetsAnyRange(run, R) == {u \in live : ToSet(run) \subseteq dag[u]}

\* FragDag::getActiveTabletIntersection(), and the range test that follows.
CompactTargets(run, R) ==
    {u \in live : ToSet(run) \subseteq dag[u] /\ Rows(u) \subseteq R}

\* finalizeOutput(): the merged cells of the range are in a new, tracked,
\* file d, and the compact thread takes dagMutex to install it.
CompactOutput(d) ==
    LET merged == OnRows(Writes(ToSet(compRun)), compRows) IN
    /\ compPc = "merge"
    /\ merged # {}
    /\ NextFile(d)
    /\ made' = made \cup {d} /\ disk' = disk \cup {d}
    /\ files' = Track(files, d)
    /\ content' = [content EXCEPT ![d] = merged]
    /\ compOut' = d
    /\ compTodo' = CompactTargets(compRun, compRows)
    /\ compPc' = "replace"
    /\ UNCHANGED <<tabletVars, dag, meta, workVars, save, race, loggerVars,
                   serVars, compRun, compRows, compTab, acked, died>>

\* The range had no output cells: its fragments are removed instead.
CompactNothing ==
    /\ compPc = "merge"
    /\ OnRows(Writes(ToSet(compRun)), compRows) = {}
    /\ compTodo' = CompactTargets(compRun, compRows)
    /\ compPc' = "replace"
    /\ UNCHANGED <<trackerVars, tabletVars, dag, meta, workVars, save, race,
                   loggerVars, serVars, compRun, compRows, compOut, compTab,
                   acked, died>>

\* FragDag::replaceInternal() and the swap in replaceFragmentsInternal().
ReplaceRun(t) ==
    LET new == IF compOut = None THEN <<>> ELSE <<compOut>> IN
    /\ compPc = "replace" /\ t \in compTodo
    /\ dag' = [dag EXCEPT ![t] = (@ \ ToSet(compRun)) \cup ToSet(new)]
    /\ compTodo' = compTodo \ {t}
    /\ IF Matches(compRun, chain[t]) # {}
       THEN /\ chain' = [chain EXCEPT ![t] = Splice(new, compRun, @)]
            /\ files' = AddReference(files, ToSet(new))
            /\ compPc' = "mark" /\ compTab' = t
            /\ UNCHANGED died
       ELSE died' = TRUE /\ UNCHANGED <<chain, files, compPc, compTab>>
    /\ UNCHANGED <<disk, made, content, live, minRow, configChanged, deadFiles,
                   clonedLogs, duplicatedLogs, splitPending, meta, workVars,
                   save, race, loggerVars, serVars, compRun, compRows, compOut,
                   acked>>

\* The rest of replaceFragmentsInternal(), after updateScanners().  A removal
\* ends here; a replacement goes on to the split test.
MarkRunDead ==
    /\ compPc = "mark"
    /\ deadFiles' = [deadFiles EXCEPT ![compTab] = @ \cup ToSet(compRun)]
    /\ PostConfigChange(<<compTab>>)
    /\ IF compOut = None
       THEN compPc' = "replace" /\ compTab' = None
       ELSE compPc' = "ask" /\ UNCHANGED compTab
    /\ UNCHANGED <<trackerVars, live, minRow, chain, clonedLogs,
                   duplicatedLogs, splitPending, dag, meta, job, save, race,
                   loggerVars, serVars, compRun, compRows, compOut, compTodo,
                   acked, died>>

CompactAskSplit(big) ==
    /\ compPc = "ask"
    /\ RequestSplit(compTab, big)
    /\ compPc' = "replace" /\ compTab' = None
    /\ UNCHANGED <<trackerVars, live, minRow, chain, configChanged, deadFiles,
                   clonedLogs, duplicatedLogs, dag, meta, job, save, race,
                   loggerVars, serVars, compRun, compRows, compOut, compTodo,
                   acked, died>>

\* dagMutex is dropped, and with it the AutoTracker's reference.
CompactEnd ==
    /\ compPc = "replace" /\ compTodo = {}
    /\ files' = IF compOut = None THEN files ELSE Release(files, {compOut})
    /\ disk' = IF compOut = None THEN disk
               ELSE disk \ Deleted(files, {compOut})
    /\ compPc' = "idle" /\ compRun' = <<>> /\ compRows' = {}
    /\ compOut' = None
    /\ UNCHANGED <<made, content, tabletVars, dag, meta, workVars, save, race,
                   loggerVars, serVars, compTodo, compTab, acked, died>>

-----------------------------------------------------------------------------
(* The work thread splits a tablet: SuperTablet::performSplit() and        *)
(* Tablet::splitTablet().                                                  *)

\* The lull begins once no API thread is inside set(), erase() or sync();
\* splitTablet() then syncs the tablet.
StartSplit ==
    /\ job = None /\ jobs # <<>> /\ Head(jobs).kind = "split"
    /\ \A s \in Syncers : save[s].pc = "idle"
    /\ jobs' = Tail(jobs)
    /\ LET t == Head(jobs).tab IN
       IF configChanged[t]
       THEN job' = Head(jobs) /\ Snapshot(Work, t, {})
       ELSE job' = [Head(jobs) EXCEPT !.synced = TRUE]
            /\ UNCHANGED <<configChanged, save, race>>
    /\ UNCHANGED <<trackerVars, live, minRow, chain, deadFiles, clonedLogs,
                   duplicatedLogs, splitPending, dag, meta, loggerVars,
                   serVars, compVars, acked, died>>

\* Mutant: the tablet that keeps the upper rows keeps its lower bound.
SplitRowsOverlap(t, r) == [minRow EXCEPT ![r] = minRow[t]]

\* Mutant: the clone begins at the first row of the table.
SplitRowsFromStart(t, r) == [minRow EXCEPT ![r] = 0, ![t] = r]

SplitRows(t, r) == [minRow EXCEPT ![r] = minRow[t], ![t] = r]

\* Mutant: the clone is not put in the SuperTablet's list.
WithCloneForgotten(r) == live

\* performSplit() lists the clone before the tablet it was split from.
WithClone(r) == live \cup {r}

\* Mutant: the clone shares the files without a reference of its own.
CloneReferencesNone(t) == files

\* The clone's constructor adds a reference to each of its files.
CloneReferences(t) == AddReference(files, ToSet(chain[t]))

\* The tablet keeps the rows above r and a clone gets the rest, with the
\* same fragments and a reference to each file.  The logs the clone shares
\* are remembered, so that their replacement is forwarded to it.
SplitTablet(r) ==
    LET t == job.tab
        logs == ToSet(chain[t]) \cap Log
    IN
    /\ Lull /\ job.synced
    /\ DagFree
    /\ minRow[t] < r /\ r < t
    /\ live' = WithClone(r)
    /\ minRow' = SplitRows(t, r)
    /\ chain' = [chain EXCEPT ![r] = chain[t]]
    /\ files' = CloneReferences(t)
    /\ dag' = [dag EXCEPT ![r] = ToSet(chain[t]) \ Log]
    /\ clonedLogs' = [clonedLogs EXCEPT
                        ![r] = clonedLogs[t],
                        ![t] = [l \in Log |-> IF l \in logs THEN r ELSE @[l]]]
    /\ splitPending' = [splitPending EXCEPT ![t] = FALSE]
    /\ PostConfigChange(<<t, r>>)
    /\ job' = None
    /\ UNCHANGED <<disk, made, content, deadFiles, duplicatedLogs, meta, save,
                   race, loggerVars, serVars, compVars, acked, died>>

\* chooseSplitRow() found no row that leaves both halves non-empty.
SplitImpossible ==
    /\ Lull /\ job.synced
    /\ DagFree
    /\ job' = None
    /\ UNCHANGED <<trackerVars, tabletVars, dag, meta, jobs, save, race,
                   loggerVars, serVars, compVars, acked, died>>

-----------------------------------------------------------------------------
CommitThread == (\E r \in Row, l \in Log, big \in BOOLEAN : Commit(r, l, big))
                \/ PushGroup
SerializeThread ==
    \/ \E d \in Disk : SerializeStart(d)
    \/ SerializeNext \/ ReplaceLog \/ MarkLogDead \/ ForwardToClone
    \/ AddToDag \/ \E big \in BOOLEAN : SerializeAskSplit(big)
    \/ SerializeEnd
CompactThread ==
    \/ \E t \in live : \E i, j \in 1..Len(chain[t]) : CompactStart(t, i, j)
    \/ \E d \in Disk : CompactOutput(d)
    \/ CompactNothing
    \/ \E t \in Row : ReplaceRun(t)
    \/ MarkRunDead \/ \E big \in BOOLEAN : CompactAskSplit(big)
    \/ CompactEnd
SaveStep(s) == WriteConfig(s) \/ SaveAgain(s) \/ FinishSave(s)
WorkThread == StartSave \/ StartSplit \/ SaveStep(Work) \/ SplitImpossible
              \/ \E r \in Row : SplitTablet(r)
ApiThread(s) == (\E t \in live : Sync(s, t)) \/ SaveStep(s)

Next == CommitThread \/ SerializeThread \/ CompactThread \/ WorkThread
        \/ \E s \in Syncers : ApiThread(s)

Spec == Init /\ [][Next]_vars

\* The server does not stop while one of its threads can go on, and neither
\* does a thread that is inside saveConfig(); clients owe nothing.
Fairness ==
    /\ WF_vars(WorkThread \/ SerializeThread \/ CompactThread \/ PushGroup)
    /\ \A s \in Syncers : WF_vars(SaveStep(s))
FairSpec == Spec /\ Fairness

-----------------------------------------------------------------------------
(* Properties.                                                             *)

Write == Row \X Frag
ConfigSet == [minRow : 0..NRows, uris : Seq(Frag)]
JobSet(T) == [kind : {"save", "split"}, tab : T, synced : BOOLEAN]
SaveSet == [pc : {"saving", "saved"}, tab : Row, cfg : ConfigSet,
            covers : SUBSET Write]
\* None is no job, and no configuration.
ASSUME NoneAssumption == None \notin JobSet(Row) \cup ConfigSet

FrameSet(T) == [tab : T, pc : {"swap", "mark", "forward", "dag", "ask"}]

\* Every variable has the type the code gives it, and a thread that is inside
\* serialize(), finalizeOutput() or commitLoop()'s push has what it works on.
TypeOK ==
    /\ files \in [Frag -> Nat]
    /\ disk \subseteq Frag /\ made \subseteq Frag
    /\ content \in [Frag -> SUBSET Write]
    /\ live \subseteq Row
    /\ minRow \in [Row -> 0..NRows]
    /\ chain \in [Row -> Seq(Frag)]
    /\ configChanged \in [Row -> BOOLEAN]
    /\ deadFiles \in [Row -> SUBSET Frag]
    /\ clonedLogs \in [Row -> [Log -> Row \cup {None}]]
    /\ duplicatedLogs \in [Row -> SUBSET Log]
    /\ splitPending \in [Row -> BOOLEAN]
    /\ dag \in [Row -> SUBSET Frag]
    /\ meta \in [Row -> ConfigSet \cup {None}]
    /\ jobs \in Seq(JobSet(Row)) /\ job \in JobSet(Row) \cup {None}
    /\ save \in [Saver -> SaveSet \cup {Idle}]
    /\ race \in [Row -> {"none", "raced", "mending"}]
    /\ open \in Log \cup {None} /\ group \in [Log -> Seq(Row)]
    /\ full \in BOOLEAN /\ serq \in Seq(Log)
    /\ full => open # None
    /\ serLog \in Log \cup {None} /\ serFrag \in Disk \cup {None}
    /\ serTodo \in Seq(Row) /\ serStack \in Seq(FrameSet(Row))
    /\ serLog = None => serStack = <<>>
    /\ serLog = None <=> serFrag = None
    /\ compPc \in {"idle", "merge", "replace", "mark", "ask"}
    /\ compRun \in Seq(Frag) /\ compRows \subseteq Row
    /\ compOut \in Disk \cup {None} /\ compTodo \subseteq Row
    /\ compTab \in Row \cup {None}
    /\ compPc \in {"mark", "ask"} => compTab # None
    /\ acked \subseteq Write
    /\ died \in BOOLEAN

\* At all times, also around a split, exactly one tablet owns each row, and no
\* tablet is left without rows.
TabletsPartitionRows ==
    /\ \A t \in live : minRow[t] < t
    /\ \A r \in Row : \E t \in live : \A u \in live : r \in Rows(u) <=> u = t

\* Every tablet that a queued job, a group of the logger, a running
\* replacement or a link from a cloned log leads to is one of the table's
\* tablets, however splits fall between the posting and the use.
KnownTablets ==
    /\ jobs \in Seq(JobSet(live)) /\ job \in JobSet(live) \cup {None}
    /\ group \in [Log -> Seq(live)]
    /\ serTodo \in Seq(live) /\ serStack \in Seq(FrameSet(live))
    /\ clonedLogs \in [Row -> [Log -> live \cup {None}]]
    /\ compTodo \subseteq live /\ compTab \in live \cup {None}

\* A call on tablet t that has swapped fragments and not yet marked them dead.
LogSwapped(t) ==
    \E i \in 1..Len(serStack) : serStack[i] = [tab |-> t, pc |-> "mark"]
RunSwapped(t) == compPc = "mark" /\ compTab = t

\* Those who hold a counted reference to file f.
Holders(f) ==
    {<<"chain", t>> : t \in {u \in live : f \in ToSet(chain[u])}}
    \cup {<<"swapped", t>> : t \in {u \in live :
                \/ LogSwapped(u) /\ f = serLog
                \/ RunSwapped(u) /\ f \in ToSet(compRun)}}
    \cup {<<"dead", t>> : t \in {u \in live : f \in deadFiles[u]}}
    \cup {<<"logger", l>> : l \in {open, serLog, serFrag} \cap {f}}
    \cup {<<"queue", l>> : l \in ToSet(serq) \cap {f}}
    \cup {<<"compactor", d>> : d \in {compOut} \cap {f}}

\* A file this server created is counted once for every chain, dead list and
\* thread that refers to it, and exists exactly as long as there is one: split
\* clones, forwarded log replacements and compactions neither leak a file nor
\* delete one that a tablet still reads.
RefsCountHolders ==
    \A f \in made \ ToSet(InitChain) :
        /\ files[f] = Cardinality(Holders(f))
        /\ f \in disk <=> files[f] > 0

\* The logs of a chain come after its disk fragments, whatever order logs are
\* serialized, cloned and compacted around: the searches of addFragment() and
\* splitTablet() stop at the first immutable fragment and rely on it.
LogsAreSuffix ==
    \A t \in live : \A i, j \in 1..Len(chain[t]) :
        i < j /\ chain[t][i] \in Log => chain[t][j] \in Log

\* replaceFragments() always finds the sequence it is told to replace; the
\* error it raises otherwise would bring the server down.
NoUnknownSequence == ~died

\* Every committed write is in a file of the tablet that owns its row,
\* through splits, log replacements and compactions.
WritesReadable ==
    \A w \in Writes(Log) : w \in Writes(ToSet(chain[Owner(w[1])]) \cap disk)

SavedFiles(t) == IF meta[t] = None THEN {} ELSE ToSet(meta[t].uris)

\* saveConfig() releases a dead file only when no META row names it, so that a
\* crash at any moment finds every file that META names: this holds of a
\* tablet whose saves, by the work thread and by any number of threads in
\* sync(), have not overlapped since one of them last ran alone.
SavedFilesExist(T) ==
    \A t \in T : race[t] = "none" => SavedFiles(t) \subseteq disk
MetaFilesExist == SavedFilesExist(Row)

\* saveConfig() loops until META has the latest configuration: one that is
\* not marked as changed, and that nobody is saving, is the one in META, unless
\* two saves of the tablet have overlapped and none has run alone since.
SavedIsCurrent ==
    \A t \in live :
        \/ race[t] # "none"
        \/ configChanged[t] \/ LogSwapped(t) \/ RunSwapped(t)
        \/ \E s \in Saver : save[s].pc # "idle" /\ save[s].tab = t
        \/ meta[t] = Config(t)

\* A write covered by a sync() that has returned is in a file that META gives
\* for its row, so that it survives a crash.
SyncedIsRecoverable ==
    \A w \in acked : \E t \in Row :
        /\ meta[t] # None
        /\ w[1] \in (meta[t].minRow + 1)..t
        /\ w \in Writes(SavedFiles(t) \cap disk)

-----------------------------------------------------------------------------
(* What loadTabletConfigs() would make of META if the server crashed now.  *)

SavedTablets == {t \in Row : meta[t] # None}

\* The upper bound of the META row before t's: where t should begin.
PrevRow(t) == Max({0} \cup {u \in SavedTablets : u < t})

\* A row that overlaps its predecessor deletes it; one that leaves a gap is
\* expanded down to it.
Repaired(t) ==
    /\ t \in SavedTablets
    /\ \A u \in SavedTablets : PrevRow(u) = t => meta[u].minRow >= t
RepairedMinRow(t) ==
    IF meta[t].minRow < PrevRow(t) THEN meta[t].minRow ELSE PrevRow(t)

\* "uncorrectable overlap in META table" is never raised: an overlap always
\* is the old row of a tablet with the new row of its lower half.
MetaIsRepairable ==
    \A t \in SavedTablets :
        meta[t].minRow < PrevRow(t) =>
            meta[t].minRow = meta[PrevRow(t)].minRow

\* Once every tablet has a META row of its own, a crash loses none of the data
\* the table had when the server loaded it: every row is in a repaired tablet,
\* and that tablet's files have the row's data, unless its META row was left
\* behind by saves of the tablet that overlapped.
RepairKeepsSaved ==
    live \subseteq SavedTablets =>
        \A r \in Row, f \in ToSet(InitChain) : \E t \in Row :
            /\ Repaired(t)
            /\ r \in (RepairedMinRow(t) + 1)..t
            /\ race[t] = "none" => <<r, f>> \in Writes(SavedFiles(t) \cap disk)

\* In the end META has every tablet's configuration and only files in use
\* are left: nothing posted to the work queue is forgotten.  A tablet whose
\* saves have overlapped may be left with a META row that is out of date for
\* as long as nothing else changes in it.
Settles ==
    <>[](\A t \in live :
            race[t] = "none" => meta[t] = Config(t) /\ deadFiles[t] = {})
=============================================================================
