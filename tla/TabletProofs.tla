---------------------------- MODULE TabletProofs ----------------------------
(***************************************************************************)
(* Proofs about Tablet, for any number of rows, logs, files and threads:   *)
(* types, the partition of the rows, that every reference to a tablet held *)
(* anywhere in the server leads to one of the table's tablets, that the    *)
(* serialize and the compact thread always find what they are told to      *)
(* replace, and that a chain's logs come last.                             *)
(***************************************************************************)
EXTENDS Tablet, SequenceLemmas

\* The parts of TypeOK that do not follow from KnownTablets.
BaseTypes ==
    /\ files \in [Frag -> Nat]
    /\ disk \subseteq Frag /\ made \subseteq Frag
    /\ content \in [Frag -> SUBSET Write]
    /\ live \subseteq Row
    /\ minRow \in [Row -> 0..NRows]
    /\ chain \in [Row -> Seq(Frag)]
    /\ configChanged \in [Row -> BOOLEAN]
    /\ deadFiles \in [Row -> SUBSET Frag]
    /\ duplicatedLogs \in [Row -> SUBSET Log]
    /\ splitPending \in [Row -> BOOLEAN]
    /\ dag \in [Row -> SUBSET Frag]
    /\ meta \in [Row -> ConfigSet \cup {None}]
    /\ save \in [Saver -> SaveSet \cup {Idle}]
    /\ open \in Log \cup {None}
    /\ full \in BOOLEAN /\ serq \in Seq(Log)
    /\ full => open # None
    /\ serLog \in Log \cup {None} /\ serFrag \in Disk \cup {None}
    /\ serLog = None => serStack = <<>>
    /\ serLog = None <=> serFrag = None
    /\ compPc \in {"idle", "merge", "replace", "mark", "ask"}
    /\ compRun \in Seq(Frag) /\ compRows \subseteq Row
    /\ compOut \in Disk \cup {None}
    /\ compPc \in {"mark", "ask"} => compTab # None
    /\ acked \subseteq Write
    /\ died \in BOOLEAN

\* The history of the saves, which no step of the server depends on.
RaceTypes == race \in [Row -> {"none", "raced", "mending"}]

\* The inductive invariant.
IInv == BaseTypes /\ TabletsPartitionRows /\ KnownTablets

-----------------------------------------------------------------------------
(* Sequences and reference counts.                                         *)

\* Splicing a sequence of S into a sequence of S, in place of a part that is
\* there, gives a sequence of S.
LEMMA SpliceType ==
    ASSUME NEW S, NEW r \in Seq(S), NEW s \in Seq(S), NEW t \in Seq(S),
           Matches(s, t) # {}
    PROVE  Splice(r, s, t) \in Seq(S)
<1> DEFINE i == FirstMatch(s, t)
<1>1. Matches(s, t) \in SUBSET Nat
  BY DEF Matches
<1>2. \E n \in Matches(s, t) : \A m \in Matches(s, t) : n <= m
  BY <1>1, LeastNat
<1>3. i \in Matches(s, t)
  BY <1>2 DEF FirstMatch
<1>4. i \in 1..Len(t) /\ i + Len(s) - 1 <= Len(t)
  BY <1>3 DEF Matches
<1> HIDE DEF i
<1>5. SubSeq(t, 1, i - 1) \in Seq(S)
  BY <1>4
<1>6. SubSeq(t, i + Len(s), Len(t)) \in Seq(S)
  BY <1>4
<1> QED
  BY <1>5, <1>6 DEF Splice, i

\* An element of a sequence is where a sequence of that element alone begins.
LEMMA MatchOfMember ==
    ASSUME NEW S, NEW t \in Seq(S), NEW e \in ToSet(t)
    PROVE  Matches(<<e>>, t) # {}
<1>1. PICK i \in 1..Len(t) : t[i] = e
  BY DEF ToSet
<1>2. i + Len(<<e>>) - 1 = i
  BY <1>1
<1>3. SubSeq(t, i, i) = <<e>>
  <2> DEFINE p == SubSeq(t, i, i)
             q == <<e>>
  <2>1. p \in Seq(S) /\ Len(p) = 1
    BY <1>1, SubSeqProperties
  <2>2. p[1] = e
    BY <1>1, SubSeqProperties
  <2>3. q \in Seq(S) /\ Len(q) = 1 /\ q[1] = e
    BY <1>1
  <2> HIDE DEF p, q
  <2>4. \A k \in 1..Len(p) : p[k] = q[k]
    BY <2>1, <2>2, <2>3
  <2>5. p = q
    BY <2>1, <2>3, <2>4, SeqEqual
  <2> QED
    BY <2>5 DEF p, q
<1> QED
  BY <1>1, <1>2, <1>3 DEF Matches

\* The elements of a sequence of S are in S.
LEMMA ToSetType ==
    ASSUME NEW S, NEW t \in Seq(S)
    PROVE  ToSet(t) \subseteq S
BY DEF ToSet

\* The elements of the one-element sequence.
LEMMA ToSetOne == ASSUME NEW e PROVE ToSet(<<e>>) = {e}
BY DEF ToSet

\* The FileTracker's operations keep a map from files to counts.
LEMMA TrackerTypes ==
    ASSUME files \in [Frag -> Nat]
    PROVE  /\ \A f \in Frag : Track(files, f) \in [Frag -> Nat]
           /\ \A F : AddReference(files, F) \in [Frag -> Nat]
           /\ \A F : Release(files, F) \in [Frag -> Nat]
BY DEF Track, AddReference, Release

\* A sequence of elements of S is one of elements of a larger set.
LEMMA SeqGrows ==
    ASSUME NEW S, NEW T, S \subseteq T
    PROVE  Seq(S) \subseteq Seq(T)
OBVIOUS

\* Posting configuration changes of tablets of T keeps the queue's jobs on
\* tablets of T.
LEMMA PostType ==
    ASSUME NEW T, NEW ts \in Seq(T), jobs \in Seq(JobSet(T)),
           configChanged \in [Row -> BOOLEAN], PostConfigChange(ts)
    PROVE  /\ jobs' \in Seq(JobSet(T))
           /\ configChanged' \in [Row -> BOOLEAN]
<1> DEFINE posted == [i \in 1..Len(ts) |-> SaveJob(ts[i])]
<1>1. \A i \in 1..Len(ts) : SaveJob(ts[i]) \in JobSet(T)
  BY DEF SaveJob, JobSet
<1>2. Len(ts) \in Nat
  OBVIOUS
<1>3. posted \in Seq(JobSet(T))
  BY <1>1, <1>2
<1> HIDE DEF posted
<1>4. jobs \o posted \in Seq(JobSet(T))
  BY <1>3
<1> QED
  BY <1>4 DEF PostConfigChange, posted

\* Asking for a split of a tablet of T does too.
LEMMA AskType ==
    ASSUME NEW T, NEW t \in T, jobs \in Seq(JobSet(T)), NEW big \in BOOLEAN,
           splitPending \in [Row -> BOOLEAN], T \subseteq Row,
           RequestSplit(t, big)
    PROVE  /\ jobs' \in Seq(JobSet(T))
           /\ splitPending' \in [Row -> BOOLEAN]
<1>1. SplitJob(t) \in JobSet(T)
  BY DEF SplitJob, JobSet
<1>2. Append(jobs, SplitJob(t)) \in Seq(JobSet(T))
  BY <1>1
<1> QED
  BY <1>2 DEF RequestSplit

-----------------------------------------------------------------------------
(* Tablets and rows.                                                       *)

\* What KnownTablets says of tablets it says of rows, so types follow.
LEMMA InvTypes ==
    ASSUME BaseTypes, RaceTypes, KnownTablets
    PROVE  TypeOK
<1>1. JobSet(live) \subseteq JobSet(Row) /\ FrameSet(live) \subseteq FrameSet(Row)
  BY DEF JobSet, FrameSet, BaseTypes
<1>2. /\ Seq(JobSet(live)) \subseteq Seq(JobSet(Row))
      /\ Seq(FrameSet(live)) \subseteq Seq(FrameSet(Row))
      /\ Seq(live) \subseteq Seq(Row)
  BY <1>1, SeqGrows DEF BaseTypes
<1>3. /\ jobs \in Seq(JobSet(Row)) /\ job \in JobSet(Row) \cup {None}
      /\ serTodo \in Seq(Row) /\ serStack \in Seq(FrameSet(Row))
  BY <1>1, <1>2 DEF KnownTablets
<1>4. /\ group \in [Log -> Seq(Row)]
      /\ clonedLogs \in [Row -> [Log -> Row \cup {None}]]
      /\ compTodo \subseteq Row /\ compTab \in Row \cup {None}
  BY <1>2 DEF KnownTablets, BaseTypes
<1> QED
  BY <1>3, <1>4 DEF TypeOK, BaseTypes, RaceTypes

\* A step that moves no tablet boundary keeps the partition.
LEMMA SameRows ==
    ASSUME TabletsPartitionRows, UNCHANGED <<live, minRow>>
    PROVE  TabletsPartitionRows'
BY DEF TabletsPartitionRows, Rows

\* The tablet a row is looked up in is one of the table's.
LEMMA OwnerLives ==
    ASSUME TabletsPartitionRows, NEW r \in Row
    PROVE  Owner(r) \in live
<1>1. \E t \in live : r \in Rows(t)
  BY DEF TabletsPartitionRows
<1> QED
  BY <1>1 DEF Owner

\* A tablet that begins inside another one's rows is not there yet.
LEMMA NewBoundary ==
    ASSUME TabletsPartitionRows, BaseTypes, NEW t \in live, NEW r \in Row,
           minRow[t] < r, r < t
    PROVE  r \notin live
<1>0. t \in Nat /\ r \in Nat /\ minRow[t] \in Nat /\ minRow[r] \in Nat
  BY TabletAssumption DEF BaseTypes, Row
<1>1. r \in Rows(t)
  BY <1>0 DEF Rows
<1>2. ASSUME r \in live PROVE FALSE
  <2>1. r \in Rows(r)
    BY <1>0, <1>2 DEF TabletsPartitionRows, Rows
  <2>2. PICK v \in live : \A u \in live : r \in Rows(u) <=> u = v
    BY DEF TabletsPartitionRows
  <2> QED
    BY <1>0, <1>1, <1>2, <2>1, <2>2
<1> QED
  BY <1>2

\* A split at r gives r the rows up to it and leaves t the rest.
LEMMA SplitKeepsPartition ==
    ASSUME TabletsPartitionRows, BaseTypes, NEW t \in live, NEW r \in Row,
           minRow[t] < r, r < t,
           live' = live \cup {r}, minRow' = SplitRows(t, r)
    PROVE  TabletsPartitionRows'
<1>1. r \notin live
  BY NewBoundary
<1>2. /\ t \in Row /\ minRow'[t] = r /\ minRow'[r] = minRow[t]
      /\ \A u \in live \ {t} : minRow'[u] = minRow[u] /\ u \in Row
      /\ minRow \in [Row -> 0..NRows]
  BY <1>1 DEF SplitRows, BaseTypes
<1>3. \A u \in live' : minRow'[u] < u
  BY <1>2 DEF TabletsPartitionRows
<1>4. ASSUME NEW q \in Row
      PROVE  \E v \in live' : \A u \in live' : q \in Rows(u)' <=> u = v
  <2>1. PICK v \in live : \A u \in live : q \in Rows(u) <=> u = v
    BY DEF TabletsPartitionRows
  <2>2. \A u \in live \ {t} : Rows(u)' = Rows(u)
    BY <1>2 DEF Rows
  <2>3. /\ q \in Rows(r)' <=> q \in Rows(t) /\ q <= r
        /\ q \in Rows(t)' <=> q \in Rows(t) /\ r < q
    BY <1>2 DEF Rows, Row
  <2>4. CASE v # t
    <3>1. \A u \in live' : q \in Rows(u)' <=> u = v
      BY <1>1, <2>1, <2>2, <2>3, <2>4
    <3> QED
      BY <3>1
  <2>5. CASE v = t /\ q <= r
    <3>1. \A u \in live' : q \in Rows(u)' <=> u = r
      BY <1>1, <1>2, <2>1, <2>2, <2>3, <2>5 DEF Row
    <3> QED
      BY <3>1
  <2>6. CASE v = t /\ r < q
    <3>1. \A u \in live' : q \in Rows(u)' <=> u = t
      BY <1>1, <1>2, <2>1, <2>2, <2>3, <2>6 DEF Row
    <3> QED
      BY <3>1
  <2>7. q <= r \/ r < q
    BY DEF Row
  <2> QED
    BY <2>4, <2>5, <2>6, <2>7
<1> QED
  BY <1>3, <1>4 DEF TabletsPartitionRows

-----------------------------------------------------------------------------
(* Every action keeps the inductive invariant.                             *)

\* The job at the head of the queue is for one of the table's tablets.
LEMMA JobFacts ==
    ASSUME BaseTypes, KnownTablets, jobs # <<>>
    PROVE  /\ Head(jobs) \in JobSet(live) /\ Tail(jobs) \in Seq(JobSet(live))
           /\ Head(jobs).tab \in live /\ Head(jobs).tab \in Row
<1>1. jobs \in Seq(JobSet(live))
  BY DEF KnownTablets
<1>2. Head(jobs) \in JobSet(live) /\ Tail(jobs) \in Seq(JobSet(live))
  BY <1>1, HeadTailProperties
<1>3. live \subseteq Row
  BY DEF BaseTypes
<1> QED
  BY <1>2, <1>3 DEF JobSet

\* A snapshot taken in saveConfig() is a configuration.
LEMMA SnapshotType ==
    ASSUME BaseTypes, NEW s \in Saver, NEW t \in Row,
           NEW covers \in SUBSET Write, Snapshot(s, t, covers)
    PROVE  /\ configChanged' \in [Row -> BOOLEAN]
           /\ save' \in [Saver -> SaveSet \cup {Idle}]
<1>1. Config(t) \in ConfigSet
  BY DEF BaseTypes, Config, ConfigSet
<1>2. [pc |-> "saving", tab |-> t, cfg |-> Config(t), covers |-> covers]
        \in SaveSet
  BY <1>1 DEF SaveSet
<1> QED
  BY <1>2 DEF BaseTypes, Snapshot

\* saveConfig(): snapshots, writes and the release of dead files.
LEMMA StartSaveKeeps == ASSUME IInv, StartSave PROVE IInv'
<1> DEFINE t == Head(jobs).tab
<1>1. /\ Head(jobs) \in JobSet(live) /\ Tail(jobs) \in Seq(JobSet(live))
      /\ t \in live /\ t \in Row
  BY JobFacts DEF IInv, StartSave
<1>2. /\ configChanged' \in [Row -> BOOLEAN]
      /\ save' \in [Saver -> SaveSet \cup {Idle}]
  <2>1. CASE configChanged[t]
    <3>1. Snapshot(Work, t, {}) /\ Work \in Saver
      BY <2>1 DEF StartSave, Saver
    <3> QED
      BY <1>1, <3>1, SnapshotType DEF IInv
  <2>2. CASE ~configChanged[t]
    BY <2>2 DEF IInv, BaseTypes, StartSave
  <2> QED
    BY <2>1, <2>2
<1> HIDE DEF t
<1>3. BaseTypes'
  BY <1>2 DEF IInv, BaseTypes, StartSave, trackerVars, loggerVars, serVars,
     compVars
<1>4. KnownTablets'
  BY <1>1 DEF IInv, KnownTablets, StartSave, loggerVars, serVars, compVars
<1>5. TabletsPartitionRows'
  BY SameRows DEF IInv, StartSave
<1> QED
  BY <1>3, <1>4, <1>5 DEF IInv

\* An API thread enters saveConfig() through sync(), or returns at once.
LEMMA SyncKeeps ==
    ASSUME IInv, NEW s \in Syncers, NEW t \in live, Sync(s, t)
    PROVE  IInv'
<1>1. t \in Row /\ s \in Saver
  BY DEF IInv, BaseTypes, Saver
<1> DEFINE covers == OnRows(Writes(Log), Rows(t))
<1>2. covers \in SUBSET Write
  BY DEF IInv, BaseTypes, OnRows, Writes, Frag
<1>3. /\ configChanged' \in [Row -> BOOLEAN] /\ acked' \subseteq Write
      /\ save' \in [Saver -> SaveSet \cup {Idle}]
  <2>1. CASE configChanged[t]
    <3>1. Snapshot(s, t, covers) /\ acked' = acked
      BY <2>1 DEF Sync
    <3> QED
      BY <1>1, <1>2, <3>1, SnapshotType DEF IInv, BaseTypes
  <2>2. CASE ~configChanged[t]
    <3>1. acked' = acked \cup covers /\ UNCHANGED <<configChanged, save>>
      BY <2>2 DEF Sync
    <3> QED
      BY <1>2, <3>1 DEF IInv, BaseTypes
  <2> QED
    BY <2>1, <2>2
<1>4. BaseTypes'
  BY <1>3 DEF IInv, BaseTypes, Sync, trackerVars, loggerVars, serVars,
     compVars
<1>5. KnownTablets'
  BY DEF IInv, KnownTablets, Sync, workVars, loggerVars, serVars, compVars
<1>6. TabletsPartitionRows'
  BY SameRows DEF IInv, Sync
<1> QED
  BY <1>4, <1>5, <1>6 DEF IInv

\* A thread that is not idle in saveConfig() has a tablet and a snapshot.
LEMMA SaveFacts ==
    ASSUME BaseTypes, NEW s \in Saver, save[s].pc # "idle"
    PROVE  save[s] \in SaveSet
BY DEF BaseTypes, Idle

\* setTabletConfig() stores the snapshot in META.
LEMMA WriteConfigKeeps ==
    ASSUME IInv, NEW s \in Saver, WriteConfig(s)
    PROVE  IInv'
<1>1. save[s] \in SaveSet
  BY SaveFacts DEF IInv, WriteConfig
<1>2. save[s].tab \in Row /\ save[s].cfg \in ConfigSet
  BY <1>1 DEF SaveSet
<1>3. [save[s] EXCEPT !.pc = "saved"] \in SaveSet
  BY <1>1 DEF SaveSet
<1>4. save' \in [Saver -> SaveSet \cup {Idle}]
  BY <1>3 DEF IInv, BaseTypes, WriteConfig
<1>5. BaseTypes'
  BY <1>2, <1>4 DEF IInv, BaseTypes, WriteConfig, trackerVars, tabletVars,
     loggerVars, serVars, compVars
<1>6. KnownTablets'
  BY DEF IInv, KnownTablets, WriteConfig, tabletVars, workVars, loggerVars,
     serVars, compVars
<1>7. TabletsPartitionRows'
  BY SameRows DEF IInv, WriteConfig, tabletVars
<1> QED
  BY <1>5, <1>6, <1>7 DEF IInv

\* saveConfig() loops with a new snapshot.
LEMMA SaveAgainKeeps ==
    ASSUME IInv, NEW s \in Saver, SaveAgain(s)
    PROVE  IInv'
<1>1. save[s] \in SaveSet
  BY SaveFacts DEF IInv, SaveAgain
<1>2. save[s].tab \in Row /\ save[s].covers \in SUBSET Write
  BY <1>1 DEF SaveSet
<1>3. Config(save[s].tab) \in ConfigSet
  BY <1>2 DEF IInv, BaseTypes, Config, ConfigSet
<1>4. BaseTypes'
  BY <1>2, <1>3 DEF IInv, BaseTypes, SaveAgain, Snapshot, SaveSet,
     trackerVars, loggerVars, serVars, compVars
<1>5. KnownTablets'
  BY DEF IInv, KnownTablets, SaveAgain, workVars, loggerVars, serVars, compVars
<1>6. TabletsPartitionRows'
  BY SameRows DEF IInv, SaveAgain
<1> QED
  BY <1>4, <1>5, <1>6 DEF IInv

\* saveConfig() releases the dead files and returns.
LEMMA FinishSaveKeeps ==
    ASSUME IInv, NEW s \in Saver, FinishSave(s)
    PROVE  IInv'
<1>1. save[s] \in SaveSet
  BY SaveFacts DEF IInv, FinishSave
<1>2. save[s].tab \in Row /\ save[s].covers \in SUBSET Write
  BY <1>1 DEF SaveSet
<1>3. files' \in [Frag -> Nat]
  BY TrackerTypes DEF IInv, BaseTypes, FinishSave
<1>4. deadFiles' \in [Row -> SUBSET Frag] /\ disk' \subseteq Frag
  BY <1>2 DEF IInv, BaseTypes, FinishSave, DeadAfterRelease
<1>5. BaseTypes'
  BY <1>2, <1>3, <1>4 DEF IInv, BaseTypes, FinishSave, loggerVars, serVars,
     compVars
<1>6. job' \in JobSet(live) \cup {None}
  BY DEF IInv, KnownTablets, FinishSave, Lull, JobSet
<1>7. KnownTablets'
  BY <1>6 DEF IInv, KnownTablets, FinishSave, loggerVars, serVars, compVars
<1>8. TabletsPartitionRows'
  BY SameRows DEF IInv, FinishSave
<1> QED
  BY <1>5, <1>7, <1>8 DEF IInv

\* The commit thread.
LEMMA CommitKeeps ==
    ASSUME IInv, NEW r \in Row, NEW l \in Log, NEW big \in BOOLEAN,
           Commit(r, l, big)
    PROVE  IInv'
<1> DEFINE t == Owner(r)
           first == t \notin ToSet(group[l])
           add == first /\ l \notin ToSet(chain[t])
           fresh == IF open = None THEN Track(files, l) ELSE files
<1>1. t \in live /\ t \in Row /\ l \in Frag /\ l # None
  BY OwnerLives, TabletAssumption DEF IInv, BaseTypes, Frag
<1>2. fresh \in [Frag -> Nat]
  BY <1>1, TrackerTypes DEF IInv, BaseTypes
<1>3. AddReference(fresh, {l}) \in [Frag -> Nat]
  BY <1>2 DEF AddReference
<1>4. files' \in [Frag -> Nat]
  BY <1>2, <1>3 DEF Commit
<1>5. chain' \in [Row -> Seq(Frag)]
  <2>1. chain \in [Row -> Seq(Frag)] /\ Append(chain[t], l) \in Seq(Frag)
    BY <1>1 DEF IInv, BaseTypes
  <2>2. chain' = [chain EXCEPT ![t] = Append(@, l)] \/ chain' = chain
    BY DEF Commit
  <2> QED
    BY <2>1, <2>2
<1>6. group' \in [Log -> Seq(live)]
  BY <1>1 DEF IInv, KnownTablets, Commit
<1>7. jobs' \in Seq(JobSet(live)) /\ configChanged' \in [Row -> BOOLEAN]
  <2>1. CASE add
    <3>1. PostConfigChange(<<t>>) /\ <<t>> \in Seq(live)
      BY <1>1, <2>1 DEF Commit
    <3> QED
      BY <3>1, PostType DEF IInv, BaseTypes, KnownTablets
  <2>2. CASE ~add
    BY <2>2 DEF IInv, BaseTypes, KnownTablets, Commit
  <2> QED
    BY <2>1, <2>2
<1>8. <<r, l>> \in Write
  BY <1>1 DEF Write
<1>9. content' \in [Frag -> SUBSET Write]
  BY <1>1, <1>8 DEF IInv, BaseTypes, Commit
<1>10. duplicatedLogs' \in [Row -> SUBSET Log]
  BY <1>1 DEF IInv, BaseTypes, Commit, NoteDuplicate
<1>11. /\ open' \in Log \cup {None} /\ full' \in BOOLEAN
       /\ open' # None
       /\ made' \subseteq Frag /\ disk' \subseteq Frag
  BY <1>1 DEF IInv, BaseTypes, Commit
<1>12. /\ UNCHANGED <<live, minRow, deadFiles, clonedLogs, splitPending, dag,
                   meta, job, save, serq, serVars, compVars, acked, died>>
  BY DEF Commit
<1> HIDE DEF t, first, add, fresh
<1>13. BaseTypes'
  BY <1>4, <1>5, <1>7, <1>9, <1>10, <1>11, <1>12
  DEF IInv, BaseTypes, serVars, compVars
<1>14. KnownTablets'
  BY <1>6, <1>7, <1>12 DEF IInv, KnownTablets, serVars, compVars
<1>15. TabletsPartitionRows'
  BY <1>12, SameRows DEF IInv
<1> QED
  BY <1>13, <1>14, <1>15 DEF IInv

\* commitLoop() queues the open log's group, so it has one.
LEMMA PushGroupKeeps == ASSUME IInv, PushGroup PROVE IInv'
<1>1. serq' \in Seq(Log)
  BY DEF IInv, BaseTypes, PushGroup
<1>2. BaseTypes'
  BY <1>1 DEF IInv, BaseTypes, PushGroup, trackerVars, tabletVars, serVars,
     compVars
<1>3. KnownTablets'
  BY DEF IInv, KnownTablets, PushGroup, tabletVars, workVars, serVars, compVars
<1>4. TabletsPartitionRows'
  BY SameRows DEF IInv, PushGroup, tabletVars
<1> QED
  BY <1>2, <1>3, <1>4 DEF IInv

\* The serialize thread.
LEMMA SerializeStartKeeps ==
    ASSUME IInv, NEW d \in Disk, SerializeStart(d)
    PROVE  IInv'
<1>1. d \in Frag /\ d # None
  BY TabletAssumption DEF Frag
<1>2. Head(serq) \in Log /\ Tail(serq) \in Seq(Log) /\ Head(serq) # None
  BY TabletAssumption, HeadTailProperties DEF IInv, BaseTypes, SerializeStart,
     Frag
<1>3. files' \in [Frag -> Nat]
  BY <1>1, TrackerTypes DEF IInv, BaseTypes, SerializeStart
<1>4. content' \in [Frag -> SUBSET Write]
  BY <1>1, <1>2 DEF IInv, BaseTypes, SerializeStart, Frag
<1>5. BaseTypes'
  BY <1>1, <1>2, <1>3, <1>4 DEF IInv, BaseTypes, SerializeStart, tabletVars,
     compVars
<1>6. group[Head(serq)] \in Seq(live)
  BY <1>2 DEF IInv, KnownTablets
<1>7. KnownTablets'
  BY <1>6 DEF IInv, KnownTablets, SerializeStart, tabletVars, workVars,
     compVars
<1>8. TabletsPartitionRows'
  BY SameRows DEF IInv, SerializeStart, tabletVars
<1> QED
  BY <1>5, <1>7, <1>8 DEF IInv

\* The next tablet of the group is notified.
LEMMA SerializeNextKeeps == ASSUME IInv, SerializeNext PROVE IInv'
<1>1. Head(serTodo) \in live /\ Tail(serTodo) \in Seq(live)
  BY HeadTailProperties DEF IInv, KnownTablets, SerializeNext
<1>2. <<SerCall(Head(serTodo))>> \in Seq(FrameSet(live))
  BY <1>1 DEF SerCall, FrameSet
<1>3. BaseTypes'
  BY DEF IInv, BaseTypes, SerializeNext, trackerVars, tabletVars, loggerVars,
     compVars
<1>4. KnownTablets'
  BY <1>1, <1>2 DEF IInv, KnownTablets, SerializeNext, tabletVars, workVars,
     loggerVars, compVars
<1>5. TabletsPartitionRows'
  BY SameRows DEF IInv, SerializeNext, tabletVars
<1> QED
  BY <1>3, <1>4, <1>5 DEF IInv

\* The innermost call of replaceFragments() is on one of the tablets, and a
\* log is being replaced.
LEMMA FrameFacts ==
    ASSUME IInv, serStack # <<>>
    PROVE  /\ SerTop \in FrameSet(live) /\ SerTop.tab \in live
           /\ SerTop.tab \in Row
           /\ Tail(serStack) \in Seq(FrameSet(live))
           /\ serLog \in Log /\ serLog # None
           /\ serFrag \in Disk
<1>1. SerTop \in FrameSet(live) /\ Tail(serStack) \in Seq(FrameSet(live))
  BY HeadTailProperties DEF IInv, KnownTablets, SerTop
<1>2. serLog # None /\ serFrag # None
  BY DEF IInv, BaseTypes
<1> QED
  BY <1>1, <1>2 DEF IInv, BaseTypes, FrameSet

\* Moving on inside that call keeps the stack well formed.
LEMMA GotoType ==
    ASSUME IInv, serStack # <<>>,
           NEW pc \in {"swap", "mark", "forward", "dag", "ask"}, SerGoto(pc)
    PROVE  serStack' \in Seq(FrameSet(live))
<1>1. [SerTop EXCEPT !.pc = pc] \in FrameSet(live)
  BY FrameFacts DEF FrameSet
<1>2. <<[SerTop EXCEPT !.pc = pc]>> \in Seq(FrameSet(live))
  BY <1>1
<1> QED
  BY <1>2, FrameFacts DEF SerGoto

\* The log is swapped for the disk fragment, or the notice is a duplicate.
LEMMA ReplaceLogKeeps == ASSUME IInv, ReplaceLog PROVE IInv'
<1> DEFINE t == SerTop.tab
<1>1. serStack # <<>>
  BY DEF ReplaceLog
<1>2. /\ t \in live /\ t \in Row /\ serLog \in Log /\ serFrag \in Disk
      /\ serLog \in Frag /\ serFrag \in Frag /\ serLog # None
      /\ Tail(serStack) \in Seq(FrameSet(live))
  BY <1>1, FrameFacts DEF Frag
<1>3. /\ chain' \in [Row -> Seq(Frag)] /\ files' \in [Frag -> Nat]
      /\ serStack' \in Seq(FrameSet(live)) /\ died' \in BOOLEAN
      /\ duplicatedLogs' \in [Row -> SUBSET Log]
  <2>1. CASE serLog \in ToSet(chain[t])
    <3>1. chain[t] \in Seq(Frag) /\ <<serFrag>> \in Seq(Frag)
          /\ <<serLog>> \in Seq(Frag)
      BY <1>2 DEF IInv, BaseTypes
    <3>2. Matches(<<serLog>>, chain[t]) # {}
      BY <2>1, <3>1, MatchOfMember
    <3>3. Splice(<<serFrag>>, <<serLog>>, chain[t]) \in Seq(Frag)
      BY <3>1, <3>2, SpliceType
    <3>4. /\ chain' = [chain EXCEPT ![t] = Splice(<<serFrag>>, <<serLog>>, @)]
          /\ files' = AddReference(files, {serFrag})
          /\ SerGoto("mark")
          /\ UNCHANGED <<duplicatedLogs, died>>
      BY <2>1 DEF ReplaceLog
    <3>5. serStack' \in Seq(FrameSet(live))
      BY <1>1, <3>4, GotoType
    <3>6. files' \in [Frag -> Nat]
      BY <3>4, TrackerTypes DEF IInv, BaseTypes
    <3> QED
      BY <1>2, <3>3, <3>4, <3>5, <3>6 DEF IInv, BaseTypes
  <2>2. CASE serLog \notin ToSet(chain[t])
    <3>1. /\ died' = (died \/ serLog \notin duplicatedLogs[t])
          /\ duplicatedLogs' = [duplicatedLogs EXCEPT ![t] = @ \ {serLog}]
          /\ serStack' = Tail(serStack)
          /\ UNCHANGED <<chain, files>>
      BY <2>2 DEF ReplaceLog
    <3>2. /\ chain \in [Row -> Seq(Frag)] /\ files \in [Frag -> Nat]
          /\ died \in BOOLEAN /\ duplicatedLogs \in [Row -> SUBSET Log]
      BY DEF IInv, BaseTypes
    <3>3. duplicatedLogs' \in [Row -> SUBSET Log] /\ died' \in BOOLEAN
      BY <3>1, <3>2
    <3> QED
      BY <1>2, <3>1, <3>2, <3>3
  <2> QED
    BY <2>1, <2>2
<1>4. UNCHANGED <<disk, made, content, live, minRow, configChanged,
                  deadFiles, clonedLogs, splitPending, dag, meta, workVars,
                  save, loggerVars, serLog, serFrag, serTodo, compVars, acked>>
  BY DEF ReplaceLog
<1> HIDE DEF t
<1>5. BaseTypes'
  BY <1>2, <1>3, <1>4 DEF IInv, BaseTypes, loggerVars, compVars
<1>6. KnownTablets'
  BY <1>3, <1>4 DEF IInv, KnownTablets, workVars, loggerVars, compVars
<1>7. TabletsPartitionRows'
  BY <1>4, SameRows DEF IInv
<1> QED
  BY <1>5, <1>6, <1>7 DEF IInv

\* The log's file is put on the dead list and a save is posted.
LEMMA MarkLogDeadKeeps == ASSUME IInv, MarkLogDead PROVE IInv'
<1>1. serStack # <<>>
  BY DEF MarkLogDead
<1>2. /\ SerTop.tab \in live /\ SerTop.tab \in Row /\ serLog \in Frag
      /\ serLog # None /\ <<SerTop.tab>> \in Seq(live)
  BY <1>1, FrameFacts DEF Frag
<1>3. jobs' \in Seq(JobSet(live)) /\ configChanged' \in [Row -> BOOLEAN]
  BY <1>2, PostType DEF IInv, BaseTypes, KnownTablets, MarkLogDead
<1>4. serStack' \in Seq(FrameSet(live))
  BY <1>1, GotoType DEF MarkLogDead
<1>5. deadFiles' \in [Row -> SUBSET Frag]
  BY <1>2 DEF IInv, BaseTypes, MarkLogDead
<1>6. BaseTypes'
  BY <1>2, <1>3, <1>5 DEF IInv, BaseTypes, MarkLogDead, trackerVars,
     loggerVars, compVars
<1>7. KnownTablets'
  BY <1>3, <1>4 DEF IInv, KnownTablets, MarkLogDead, loggerVars, compVars
<1>8. TabletsPartitionRows'
  BY SameRows DEF IInv, MarkLogDead
<1> QED
  BY <1>6, <1>7, <1>8 DEF IInv

\* The replacement is forwarded along clonedLogs, to one of the tablets.
LEMMA ForwardToCloneKeeps == ASSUME IInv, ForwardToClone PROVE IInv'
<1> DEFINE t == SerTop.tab
           u == clonedLogs[t][serLog]
           top == [SerTop EXCEPT !.pc = "dag"]
           rest == <<top>> \o Tail(serStack)
<1>1. serStack # <<>>
  BY DEF ForwardToClone
<1>2. /\ t \in live /\ t \in Row /\ serLog \in Log /\ serLog # None
      /\ SerTop \in FrameSet(live) /\ Tail(serStack) \in Seq(FrameSet(live))
  BY <1>1, FrameFacts
<1>3. u \in live \cup {None}
  BY <1>2 DEF IInv, KnownTablets
<1>4. top \in FrameSet(live)
  BY <1>2 DEF FrameSet
<1>5. rest \in Seq(FrameSet(live))
  BY <1>2, <1>4
<1>6. u # None => SerCall(u) \in FrameSet(live)
  BY <1>3 DEF SerCall, FrameSet
<1>7. serStack' = IF u = None THEN rest ELSE <<SerCall(u)>> \o rest
  BY DEF ForwardToClone
<1> HIDE DEF rest, u
<1>8. serStack' \in Seq(FrameSet(live))
  BY <1>5, <1>6, <1>7
<1>9. clonedLogs' \in [Row -> [Log -> live \cup {None}]]
  BY <1>2 DEF IInv, KnownTablets, ForwardToClone
<1>10. BaseTypes'
  BY <1>2 DEF IInv, BaseTypes, ForwardToClone, trackerVars, loggerVars,
     compVars
<1>11. KnownTablets'
  BY <1>8, <1>9 DEF IInv, KnownTablets, ForwardToClone, workVars, loggerVars,
     compVars
<1>12. TabletsPartitionRows'
  BY SameRows DEF IInv, ForwardToClone
<1> QED
  BY <1>10, <1>11, <1>12 DEF IInv

\* The new fragment enters the FragDag.
LEMMA AddToDagKeeps == ASSUME IInv, AddToDag PROVE IInv'
<1>1. serStack # <<>>
  BY DEF AddToDag
<1>2. /\ SerTop.tab \in Row /\ serFrag \in Frag /\ serLog # None
  BY <1>1, FrameFacts DEF Frag
<1>3. serStack' \in Seq(FrameSet(live))
  BY <1>1, GotoType DEF AddToDag
<1>4. BaseTypes'
  BY <1>2 DEF IInv, BaseTypes, AddToDag, trackerVars, tabletVars, loggerVars,
     compVars
<1>5. KnownTablets'
  BY <1>3 DEF IInv, KnownTablets, AddToDag, tabletVars, workVars, loggerVars,
     compVars
<1>6. TabletsPartitionRows'
  BY SameRows DEF IInv, AddToDag, tabletVars
<1> QED
  BY <1>4, <1>5, <1>6 DEF IInv

\* replaceFragments() on a log posts a split of its own tablet.
LEMMA SerializeAskSplitKeeps ==
    ASSUME IInv, NEW big \in BOOLEAN, SerializeAskSplit(big)
    PROVE  IInv'
<1>1. serStack # <<>>
  BY DEF SerializeAskSplit
<1>2. /\ SerTop.tab \in live /\ serLog # None
      /\ Tail(serStack) \in Seq(FrameSet(live))
  BY <1>1, FrameFacts
<1>3. jobs' \in Seq(JobSet(live)) /\ splitPending' \in [Row -> BOOLEAN]
  <2>1. /\ RequestSplit(SerTop.tab, big) /\ live \subseteq Row
        /\ jobs \in Seq(JobSet(live)) /\ splitPending \in [Row -> BOOLEAN]
    BY DEF IInv, BaseTypes, KnownTablets, SerializeAskSplit
  <2> QED
    BY <1>2, <2>1, AskType
<1>4. BaseTypes'
  BY <1>2, <1>3 DEF IInv, BaseTypes, SerializeAskSplit, trackerVars,
     loggerVars, compVars
<1>5. KnownTablets'
  BY <1>2, <1>3 DEF IInv, KnownTablets, SerializeAskSplit, loggerVars, compVars
<1>6. TabletsPartitionRows'
  BY SameRows DEF IInv, SerializeAskSplit
<1> QED
  BY <1>4, <1>5, <1>6 DEF IInv

\* serialize() drops its references.
LEMMA SerializeEndKeeps == ASSUME IInv, SerializeEnd PROVE IInv'
<1>1. files' \in [Frag -> Nat]
  BY TrackerTypes DEF IInv, BaseTypes, SerializeEnd
<1>2. BaseTypes'
  BY <1>1 DEF IInv, BaseTypes, SerializeEnd, tabletVars, loggerVars, compVars
<1>3. KnownTablets'
  BY DEF IInv, KnownTablets, SerializeEnd, tabletVars, workVars, loggerVars,
     compVars
<1>4. TabletsPartitionRows'
  BY SameRows DEF IInv, SerializeEnd, tabletVars
<1> QED
  BY <1>2, <1>3, <1>4 DEF IInv

\* The compact thread.
LEMMA CompactStartKeeps ==
    ASSUME IInv, NEW t \in live, NEW i \in 1..Len(chain[t]),
           NEW j \in 1..Len(chain[t]), CompactStart(t, i, j)
    PROVE  IInv'
<1>1. t \in Row /\ chain[t] \in Seq(Frag)
  BY DEF IInv, BaseTypes
<1>2. SubSeq(chain[t], i, j) \in Seq(Frag)
  BY <1>1
<1>3. Rows(t) \subseteq Row
  <2>1. minRow[t] \in 0..NRows /\ t \in 1..NRows /\ NRows \in Nat
    BY <1>1, TabletAssumption DEF IInv, BaseTypes, Row
  <2> QED
    BY <2>1 DEF Rows, Row
<1>4. /\ compRun' \in Seq(Frag) /\ compRows' \subseteq Row /\ compPc' = "merge"
      /\ UNCHANGED <<trackerVars, tabletVars, dag, meta, workVars, save,
                     loggerVars, serVars, compOut, compTodo, compTab, acked,
                     died>>
  BY <1>2, <1>3 DEF CompactStart
<1>5. BaseTypes'
  BY <1>4 DEF IInv, BaseTypes, trackerVars, tabletVars, loggerVars, serVars
<1>6. KnownTablets'
  BY <1>4 DEF IInv, KnownTablets, tabletVars, workVars, loggerVars, serVars
<1>7. TabletsPartitionRows'
  BY <1>4, SameRows DEF IInv, tabletVars
<1> QED
  BY <1>5, <1>6, <1>7 DEF IInv

\* A merged range is written and its tablets are chosen.
LEMMA CompactOutputKeeps ==
    ASSUME IInv, NEW d \in Disk, CompactOutput(d)
    PROVE  IInv'
<1>1. d \in Frag /\ ToSet(compRun) \subseteq Frag
  BY ToSetType DEF IInv, BaseTypes, Frag
<1>2. OnRows(Writes(ToSet(compRun)), compRows) \in SUBSET Write
  BY <1>1 DEF IInv, BaseTypes, OnRows, Writes
<1>3. content' \in [Frag -> SUBSET Write]
  BY <1>1, <1>2 DEF IInv, BaseTypes, CompactOutput
<1>4. files' \in [Frag -> Nat]
  BY <1>1, TrackerTypes DEF IInv, BaseTypes, CompactOutput
<1>5. compTodo' \subseteq live
  BY DEF CompactOutput, CompactTargets
<1>6. BaseTypes'
  BY <1>1, <1>3, <1>4 DEF IInv, BaseTypes, CompactOutput, tabletVars,
     loggerVars, serVars
<1>7. KnownTablets'
  BY <1>5 DEF IInv, KnownTablets, CompactOutput, tabletVars, workVars,
     loggerVars, serVars
<1>8. TabletsPartitionRows'
  BY SameRows DEF IInv, CompactOutput, tabletVars
<1> QED
  BY <1>6, <1>7, <1>8 DEF IInv

\* A merge without output chooses its tablets all the same.
LEMMA CompactNothingKeeps == ASSUME IInv, CompactNothing PROVE IInv'
<1>1. compTodo' \subseteq live
  BY DEF CompactNothing, CompactTargets
<1>2. BaseTypes'
  BY DEF IInv, BaseTypes, CompactNothing, trackerVars, tabletVars, loggerVars,
     serVars
<1>3. KnownTablets'
  BY <1>1 DEF IInv, KnownTablets, CompactNothing, tabletVars, workVars,
     loggerVars, serVars
<1>4. TabletsPartitionRows'
  BY SameRows DEF IInv, CompactNothing, tabletVars
<1> QED
  BY <1>2, <1>3, <1>4 DEF IInv

\* The run is swapped for the merged fragment in one tablet, or is unknown.
LEMMA ReplaceRunKeeps ==
    ASSUME IInv, NEW t \in Row, ReplaceRun(t)
    PROVE  IInv'
<1> DEFINE new == IF compOut = None THEN <<>> ELSE <<compOut>>
<1>1. t \in live /\ t # None
  BY TabletAssumption DEF IInv, KnownTablets, ReplaceRun
<1>2. /\ new \in Seq(Frag) /\ compRun \in Seq(Frag) /\ chain[t] \in Seq(Frag)
      /\ chain \in [Row -> Seq(Frag)]
  <2>1. compOut # None => compOut \in Frag
    BY DEF IInv, BaseTypes, Frag
  <2>2. new \in Seq(Frag)
    BY <2>1
  <2> QED
    BY <2>2 DEF IInv, BaseTypes
<1>3. ToSet(new) \subseteq Frag
  BY <1>2, ToSetType
<1> HIDE DEF new
<1>4. /\ chain' \in [Row -> Seq(Frag)] /\ files' \in [Frag -> Nat]
      /\ compPc' \in {"replace", "mark"} /\ compTab' \in live \cup {None}
      /\ died' \in BOOLEAN
      /\ compPc' = "mark" => compTab' # None
  <2>1. CASE Matches(compRun, chain[t]) # {}
    <3>1. Splice(new, compRun, chain[t]) \in Seq(Frag)
      BY <1>2, <2>1, SpliceType
    <3>2. /\ chain' = [chain EXCEPT ![t] = Splice(new, compRun, @)]
          /\ files' = AddReference(files, ToSet(new))
          /\ compPc' = "mark" /\ compTab' = t
          /\ UNCHANGED died
      BY <2>1 DEF ReplaceRun, new
    <3>3. files' \in [Frag -> Nat]
      BY <3>2, TrackerTypes DEF IInv, BaseTypes
    <3> QED
      BY <1>1, <1>2, <3>1, <3>2, <3>3 DEF IInv, BaseTypes
  <2>2. CASE Matches(compRun, chain[t]) = {}
    <3>1. died' = TRUE /\ UNCHANGED <<chain, files, compPc, compTab>>
          /\ compPc = "replace"
      BY <2>2 DEF ReplaceRun
    <3> QED
      BY <3>1 DEF IInv, BaseTypes, KnownTablets
  <2> QED
    BY <2>1, <2>2
<1>5. dag' \in [Row -> SUBSET Frag] /\ compTodo' \subseteq live
  BY <1>3 DEF IInv, BaseTypes, KnownTablets, ReplaceRun, new
<1>6. UNCHANGED <<disk, made, content, live, minRow, configChanged,
                  deadFiles, clonedLogs, duplicatedLogs, splitPending, meta,
                  workVars, save, loggerVars, serVars, compRun, compRows,
                  compOut, acked>>
  BY DEF ReplaceRun
<1>7. BaseTypes'
  BY <1>4, <1>5, <1>6 DEF IInv, BaseTypes, loggerVars, serVars
<1>8. KnownTablets'
  BY <1>4, <1>5, <1>6 DEF IInv, KnownTablets, workVars, loggerVars, serVars
<1>9. TabletsPartitionRows'
  BY <1>6, SameRows DEF IInv
<1> QED
  BY <1>7, <1>8, <1>9 DEF IInv

\* The run's files are put on the dead list and a save is posted.
LEMMA MarkRunDeadKeeps == ASSUME IInv, MarkRunDead PROVE IInv'
<1>1. /\ compTab \in live /\ compTab \in Row /\ compTab # None
      /\ <<compTab>> \in Seq(live)
  BY DEF IInv, BaseTypes, KnownTablets, MarkRunDead
<1>2. jobs' \in Seq(JobSet(live)) /\ configChanged' \in [Row -> BOOLEAN]
  BY <1>1, PostType DEF IInv, BaseTypes, KnownTablets, MarkRunDead
<1>3. ToSet(compRun) \subseteq Frag
  BY ToSetType DEF IInv, BaseTypes
<1>4. deadFiles' \in [Row -> SUBSET Frag]
  BY <1>1, <1>3 DEF IInv, BaseTypes, MarkRunDead
<1>5. BaseTypes'
  BY <1>1, <1>2, <1>4 DEF IInv, BaseTypes, MarkRunDead, trackerVars,
     loggerVars, serVars
<1>6. KnownTablets'
  BY <1>2 DEF IInv, KnownTablets, MarkRunDead, loggerVars, serVars
<1>7. TabletsPartitionRows'
  BY SameRows DEF IInv, MarkRunDead
<1> QED
  BY <1>5, <1>6, <1>7 DEF IInv

\* replaceFragments() on a run posts a split of its own tablet.
LEMMA CompactAskSplitKeeps ==
    ASSUME IInv, NEW big \in BOOLEAN, CompactAskSplit(big)
    PROVE  IInv'
<1>1. compTab \in live
  BY DEF IInv, BaseTypes, KnownTablets, CompactAskSplit
<1>2. /\ RequestSplit(compTab, big) /\ live \subseteq Row
      /\ jobs \in Seq(JobSet(live)) /\ splitPending \in [Row -> BOOLEAN]
  BY DEF IInv, BaseTypes, KnownTablets, CompactAskSplit
<1>3. jobs' \in Seq(JobSet(live)) /\ splitPending' \in [Row -> BOOLEAN]
  BY <1>1, <1>2, AskType
<1>4. BaseTypes'
  BY <1>3 DEF IInv, BaseTypes, CompactAskSplit, trackerVars, loggerVars,
     serVars
<1>5. KnownTablets'
  BY <1>3 DEF IInv, KnownTablets, CompactAskSplit, loggerVars, serVars
<1>6. TabletsPartitionRows'
  BY SameRows DEF IInv, CompactAskSplit
<1> QED
  BY <1>4, <1>5, <1>6 DEF IInv

\* finalizeOutput() drops its reference.
LEMMA CompactEndKeeps == ASSUME IInv, CompactEnd PROVE IInv'
<1>1. files' \in [Frag -> Nat]
  BY TrackerTypes DEF IInv, BaseTypes, CompactEnd
<1>2. BaseTypes'
  <2>1. disk' \subseteq Frag /\ compRun' \in Seq(Frag) /\ compRows' \subseteq Row
    BY DEF IInv, BaseTypes, CompactEnd
  <2>2. compPc' = "idle" /\ compOut' = None
    BY DEF CompactEnd
  <2>3. UNCHANGED <<made, content, tabletVars, dag, meta, save, loggerVars,
                    serVars, acked, died>>
    BY DEF CompactEnd
  <2> QED
    BY <1>1, <2>1, <2>2, <2>3 DEF IInv, BaseTypes, tabletVars, loggerVars,
       serVars
<1>3. KnownTablets'
  BY DEF IInv, KnownTablets, CompactEnd, tabletVars, workVars, loggerVars,
     serVars
<1>4. TabletsPartitionRows'
  BY SameRows DEF IInv, CompactEnd, tabletVars
<1> QED
  BY <1>2, <1>3, <1>4 DEF IInv

\* The work thread's split.
LEMMA StartSplitKeeps == ASSUME IInv, StartSplit PROVE IInv'
<1> DEFINE t == Head(jobs).tab
<1>1. /\ Head(jobs) \in JobSet(live) /\ Tail(jobs) \in Seq(JobSet(live))
      /\ t \in live /\ t \in Row
  BY JobFacts DEF IInv, StartSplit
<1>2. /\ configChanged' \in [Row -> BOOLEAN]
      /\ save' \in [Saver -> SaveSet \cup {Idle}]
  <2>1. CASE configChanged[t]
    <3>1. Snapshot(Work, t, {}) /\ Work \in Saver
      BY <2>1 DEF StartSplit, Saver
    <3> QED
      BY <1>1, <3>1, SnapshotType DEF IInv
  <2>2. CASE ~configChanged[t]
    BY <2>2 DEF IInv, BaseTypes, StartSplit
  <2> QED
    BY <2>1, <2>2
<1>3. [Head(jobs) EXCEPT !.synced = TRUE] \in JobSet(live)
  BY <1>1 DEF JobSet
<1>4. job' \in JobSet(live) \cup {None}
  BY <1>1, <1>3 DEF StartSplit
<1> HIDE DEF t
<1>5. BaseTypes'
  BY <1>2 DEF IInv, BaseTypes, StartSplit, trackerVars, loggerVars, serVars,
     compVars
<1>6. KnownTablets'
  BY <1>1, <1>4 DEF IInv, KnownTablets, StartSplit, loggerVars, serVars,
     compVars
<1>7. TabletsPartitionRows'
  BY SameRows DEF IInv, StartSplit
<1> QED
  BY <1>5, <1>6, <1>7 DEF IInv

\* splitTablet() adds the clone; whatever named a tablet still names one.
LEMMA SplitTabletKeeps ==
    ASSUME IInv, NEW r \in Row, SplitTablet(r)
    PROVE  IInv'
<1> DEFINE t == job.tab
<1>1. t \in live /\ t \in Row
  BY DEF IInv, BaseTypes, KnownTablets, SplitTablet, Lull, JobSet
<1>2. /\ minRow[t] < r /\ r < t /\ live' = live \cup {r}
      /\ minRow' = SplitRows(t, r) /\ job' = None
      /\ PostConfigChange(<<t, r>>)
      /\ UNCHANGED <<disk, made, content, deadFiles, duplicatedLogs, meta,
                     save, loggerVars, serVars, compVars, acked, died>>
  BY DEF SplitTablet, WithClone
<1>3. TabletsPartitionRows'
  BY <1>1, <1>2, SplitKeepsPartition DEF IInv
<1>4. live \subseteq live' /\ live' \subseteq Row
  BY <1>2 DEF IInv, BaseTypes
<1>5. JobSet(live) \subseteq JobSet(live') /\ FrameSet(live) \subseteq FrameSet(live')
  BY <1>4 DEF JobSet, FrameSet
<1>6. /\ Seq(JobSet(live)) \subseteq Seq(JobSet(live'))
      /\ Seq(FrameSet(live)) \subseteq Seq(FrameSet(live'))
      /\ Seq(live) \subseteq Seq(live')
  BY <1>4, <1>5, SeqGrows
<1>7. jobs' \in Seq(JobSet(live')) /\ configChanged' \in [Row -> BOOLEAN]
  <2>1. <<t, r>> \in Seq(live') /\ jobs \in Seq(JobSet(live'))
    <3>1. t \in live' /\ r \in live'
      BY <1>1, <1>2, <1>4
    <3>2. <<t, r>> \in Seq(live')
      BY <3>1
    <3> QED
      BY <1>6, <3>2 DEF IInv, KnownTablets
  <2> QED
    BY <1>2, <2>1, PostType DEF IInv, BaseTypes
<1>8. /\ serTodo' \in Seq(live') /\ serStack' \in Seq(FrameSet(live'))
      /\ job' \in JobSet(live') \cup {None}
      /\ compTodo' \subseteq live' /\ compTab' \in live' \cup {None}
  BY <1>2, <1>4, <1>6 DEF IInv, KnownTablets, serVars, compVars
<1>9. group' \in [Log -> Seq(live')]
  BY <1>2, <1>6 DEF IInv, KnownTablets, loggerVars
<1>10. clonedLogs' \in [Row -> [Log -> live' \cup {None}]]
  <2> DEFINE logs == ToSet(chain[t]) \cap Log
             mine == [l \in Log |-> IF l \in logs THEN r ELSE clonedLogs[t][l]]
  <2>1. /\ clonedLogs \in [Row -> [Log -> live' \cup {None}]]
        /\ r \in live'
    BY <1>2, <1>4 DEF IInv, KnownTablets
  <2>2. mine \in [Log -> live' \cup {None}]
    BY <1>1, <2>1
  <2>3. clonedLogs' = [clonedLogs EXCEPT ![r] = clonedLogs[t], ![t] = mine]
    BY <1>1, <1>2, <2>1 DEF SplitTablet, Row
  <2> HIDE DEF mine
  <2> QED
    BY <1>1, <2>1, <2>2, <2>3
<1>11. KnownTablets'
  BY <1>7, <1>8, <1>9, <1>10 DEF KnownTablets
<1>12. ToSet(chain[t]) \subseteq Frag /\ chain[t] \in Seq(Frag)
  BY <1>1, ToSetType DEF IInv, BaseTypes
<1>13. /\ chain' \in [Row -> Seq(Frag)] /\ dag' \in [Row -> SUBSET Frag]
       /\ splitPending' \in [Row -> BOOLEAN]
  BY <1>1, <1>12 DEF IInv, BaseTypes, SplitTablet
<1>14. files' \in [Frag -> Nat]
  BY TrackerTypes DEF IInv, BaseTypes, SplitTablet, CloneReferences
<1>15. minRow' \in [Row -> 0..NRows]
  <2>1. r \in 0..NRows /\ minRow[t] \in 0..NRows
    BY <1>1, TabletAssumption DEF IInv, BaseTypes, Row
  <2> QED
    BY <1>1, <1>2, <2>1 DEF IInv, BaseTypes, SplitRows
<1> HIDE DEF t
<1>16. BaseTypes'
  BY <1>2, <1>4, <1>7, <1>13, <1>14, <1>15 DEF IInv, BaseTypes, loggerVars,
     serVars, compVars
<1> QED
  BY <1>3, <1>11, <1>16 DEF IInv

\* splitTablet() gives up.
LEMMA SplitImpossibleKeeps == ASSUME IInv, SplitImpossible PROVE IInv'
<1>1. BaseTypes'
  BY DEF IInv, BaseTypes, SplitImpossible, trackerVars, tabletVars,
     loggerVars, serVars, compVars
<1>2. KnownTablets'
  BY DEF IInv, KnownTablets, SplitImpossible, tabletVars, loggerVars, serVars,
     compVars
<1>3. TabletsPartitionRows'
  BY SameRows DEF IInv, SplitImpossible, tabletVars
<1> QED
  BY <1>1, <1>2, <1>3 DEF IInv

-----------------------------------------------------------------------------
(* The theorems.                                                           *)

\* The server starts with one tablet that owns every row.
LEMMA InitInv == ASSUME Init PROVE IInv
<1>1. ToSet(InitChain) \subseteq Frag /\ InitChain \in Seq(Frag) /\ NRows \in Row
  BY TabletAssumption, ToSetType, SeqGrows DEF Frag, Row
<1>2. [minRow |-> 0, uris |-> InitChain] \in ConfigSet
  BY <1>1, TabletAssumption DEF ConfigSet
<1>3. content \in [Frag -> SUBSET Write]
  BY <1>1 DEF Init, Write
<1>4. /\ chain \in [Row -> Seq(Frag)] /\ dag \in [Row -> SUBSET Frag]
      /\ meta \in [Row -> ConfigSet \cup {None}]
  BY <1>1, <1>2 DEF Init
<1>5. BaseTypes
  <2>1. /\ files \in [Frag -> Nat]
        /\ disk \subseteq Frag /\ made \subseteq Frag
        /\ live \subseteq Row /\ minRow \in [Row -> 0..NRows]
    BY <1>1, TabletAssumption DEF Init
  <2>2. /\ configChanged \in [Row -> BOOLEAN] /\ splitPending \in [Row -> BOOLEAN]
        /\ deadFiles \in [Row -> SUBSET Frag]
        /\ duplicatedLogs \in [Row -> SUBSET Log]
        /\ save \in [Saver -> SaveSet \cup {Idle}]
    BY DEF Init
  <2>3. /\ open \in Log \cup {None} /\ full = FALSE /\ serq \in Seq(Log)
        /\ serLog = None /\ serFrag = None /\ serStack = <<>>
    BY DEF Init
  <2>4. /\ compPc = "idle" /\ compRun \in Seq(Frag) /\ compRows = {}
        /\ compOut = None /\ acked = {} /\ died = FALSE
    BY DEF Init
  <2> QED
    BY <1>3, <1>4, <2>1, <2>2, <2>3, <2>4 DEF BaseTypes
<1>6. KnownTablets
  BY DEF Init, KnownTablets
<1>7. TabletsPartitionRows
  BY <1>1, TabletAssumption DEF Init, TabletsPartitionRows, Rows, Row
<1> QED
  BY <1>5, <1>6, <1>7 DEF IInv

\* Every step of every thread, and a stuttering step, keeps the invariant.
LEMMA NextInv == ASSUME IInv, [Next]_vars PROVE IInv'
<1>1. CASE CommitThread
  BY <1>1, CommitKeeps, PushGroupKeeps DEF CommitThread
<1>2. CASE SerializeThread
  BY <1>2, SerializeStartKeeps, SerializeNextKeeps, ReplaceLogKeeps,
     MarkLogDeadKeeps, ForwardToCloneKeeps, AddToDagKeeps,
     SerializeAskSplitKeeps, SerializeEndKeeps DEF SerializeThread
<1>3. CASE CompactThread
  BY <1>3, CompactStartKeeps, CompactOutputKeeps, CompactNothingKeeps,
     ReplaceRunKeeps, MarkRunDeadKeeps, CompactAskSplitKeeps, CompactEndKeeps
  DEF CompactThread
<1>4. ASSUME NEW s \in Saver, SaveStep(s) PROVE IInv'
  BY <1>4, WriteConfigKeeps, SaveAgainKeeps, FinishSaveKeeps DEF SaveStep
<1>5. CASE WorkThread
  BY <1>4, <1>5, StartSaveKeeps, StartSplitKeeps, SplitImpossibleKeeps,
     SplitTabletKeeps DEF WorkThread, Saver
<1>6. CASE \E s \in Syncers : ApiThread(s)
  BY <1>4, <1>6, SyncKeeps DEF ApiThread, Saver
<1>7. CASE UNCHANGED vars
  <2>1. BaseTypes'
    BY <1>7 DEF IInv, BaseTypes, vars, trackerVars, tabletVars, workVars,
       loggerVars, serVars, compVars
  <2>2. KnownTablets'
    BY <1>7 DEF IInv, KnownTablets, vars, trackerVars, tabletVars, workVars,
       loggerVars, serVars, compVars
  <2>3. TabletsPartitionRows'
    BY <1>7, SameRows DEF IInv, vars, tabletVars
  <2> QED
    BY <2>1, <2>2, <2>3 DEF IInv
<1> QED
  BY <1>1, <1>2, <1>3, <1>5, <1>6, <1>7 DEF Next

\* Only the steps of saveConfig() change the history of the saves.
LEMMA RaceKept ==
    ASSUME \/ CommitThread \/ SerializeThread \/ CompactThread
           \/ SplitImpossible \/ \E r \in Row : SplitTablet(r)
           \/ \E s \in Saver : FinishSave(s)
           \/ UNCHANGED vars
    PROVE  UNCHANGED race
<1>1. CASE CommitThread
  BY <1>1 DEF CommitThread, Commit, PushGroup
<1>2. CASE SerializeThread
  BY <1>2 DEF SerializeThread, SerializeStart, SerializeNext, ReplaceLog, MarkLogDead,
              ForwardToClone, AddToDag, SerializeAskSplit, SerializeEnd
<1>3. CASE CompactThread
  BY <1>3 DEF CompactThread, CompactStart, CompactOutput, CompactNothing, ReplaceRun,
              MarkRunDead, CompactAskSplit, CompactEnd
<1>4. CASE SplitImpossible \/ \E r \in Row : SplitTablet(r)
  BY <1>4 DEF SplitImpossible, SplitTablet
<1>5. CASE \E s \in Saver : FinishSave(s)
  BY <1>5 DEF FinishSave
<1>6. CASE UNCHANGED vars
  BY <1>6 DEF vars
<1> QED BY <1>1, <1>2, <1>3, <1>4, <1>5, <1>6

\* Every step keeps the history typed.
LEMMA RaceTypesStep == ASSUME RaceTypes, [Next]_vars PROVE RaceTypes'
<1>1. ASSUME UNCHANGED race PROVE RaceTypes'
  BY <1>1 DEF RaceTypes
<1>2. ASSUME NEW s, NEW t, NEW covers, Snapshot(s, t, covers) PROVE RaceTypes'
  BY <1>2 DEF Snapshot, RaceAt, RaceTypes
<1>3. ASSUME NEW s, SaveStep(s) PROVE RaceTypes'
  <2>1. CASE WriteConfig(s)
    BY <2>1 DEF WriteConfig, RaceTypes
  <2>2. CASE SaveAgain(s)
    BY <2>2, <1>2 DEF SaveAgain
  <2>3. CASE FinishSave(s)
    BY <1>1, <2>3 DEF FinishSave
  <2> QED BY <1>3, <2>1, <2>2, <2>3 DEF SaveStep
<1>4. CASE StartSave \/ StartSplit
  BY <1>1, <1>2, <1>4 DEF StartSave, StartSplit
<1>5. ASSUME NEW s \in Syncers, ApiThread(s) PROVE RaceTypes'
  BY <1>1, <1>2, <1>3, <1>5 DEF ApiThread, Sync
<1> QED BY <1>1, <1>3, <1>4, <1>5, RaceKept DEF Next, WorkThread

\* The inductive invariant holds in every reachable state.
THEOREM Invariant == Spec => []IInv
<1>1. Init => IInv
  BY InitInv
<1>2. IInv /\ [Next]_vars => IInv'
  BY NextInv
<1> QED
  BY <1>1, <1>2, PTL DEF Spec

\* Whatever the threads do, every variable of the server has its type; the
\* work in hand of the commit, serialize and compact threads included.
THEOREM TypeCorrect == Spec => []TypeOK
<1>1. IInv /\ RaceTypes => TypeOK
  BY InvTypes DEF IInv
<1>2. Spec => []RaceTypes
  <2>1. Init => RaceTypes
    BY DEF Init, RaceTypes
  <2>2. RaceTypes /\ [Next]_vars => RaceTypes'
    BY RaceTypesStep
  <2> QED BY <2>1, <2>2, PTL DEF Spec
<1> QED
  BY <1>1, <1>2, Invariant, PTL

\* Splits of any tablets at any rows, at any moment, leave exactly one tablet
\* for each row: no write is ever routed to two tablets or to none.
THEOREM Partition == Spec => []TabletsPartitionRows
<1>1. IInv => TabletsPartitionRows
  BY DEF IInv
<1> QED
  BY <1>1, Invariant, PTL

\* Jobs, log groups, running replacements and the links left by clones never
\* lead to a tablet that the table does not have.
THEOREM Known == Spec => []KnownTablets
<1>1. IInv => KnownTablets
  BY DEF IInv
<1> QED
  BY <1>1, Invariant, PTL

-----------------------------------------------------------------------------
(* The logs and the runs of fragments in the chains.                       *)

\* Logs that are not serialized yet, and the one that is being serialized.
Waiting == ToSet(serq) \cup {open}
Undone == Waiting \cup {serLog}

\* A log is in one place of the logger, and notifies a tablet once.
LogsApart ==
    /\ serLog # None => serLog \notin Waiting
    /\ open # None => open \notin ToSet(serq)
    /\ \A a, b \in 1..Len(serq) : serq[a] = serq[b] => a = b
    /\ Undone \subseteq made \cup {None}
    /\ \A l \in Log : l \notin made => group[l] = <<>>
    /\ \A l \in Log : \A a, b \in 1..Len(group[l]) :
           group[l][a] = group[l][b] => a = b
    /\ \A a, b \in 1..Len(serTodo) : serTodo[a] = serTodo[b] => a = b

\* Only the innermost call of replaceFragments() is not yet forwarded.
StackForwarded == \A i \in 2..Len(serStack) : serStack[i].pc = "dag"

\* The logger serializes k before l.
Before(k, l) ==
    /\ k # l
    /\ \/ k = serLog
       \/ l = open
       \/ \E a, b \in 1..Len(serq) : a < b /\ serq[a] = k /\ serq[b] = l

\* Logs come last in a chain, in the order in which they are serialized.
ChainsInOrder ==
    \A t \in Row : \A i, j \in 1..Len(chain[t]) :
        i < j /\ chain[t][i] \in Log =>
            chain[t][j] \in Log /\ Before(chain[t][i], chain[t][j])

\* A chain has no log that has been serialized.
ChainLogsUndone == \A t \in Row : \A l \in Log : l \in ToSet(chain[t]) => l \in Undone

\* What is going to call replaceFragments() on t for the log l: the group of
\* the log, the call that begins, the link of a tablet that t was cloned from.
Listed(l, t) ==
    IF l = serLog THEN t \in ToSet(serTodo) ELSE l \in Waiting /\ t \in ToSet(group[l])
Called(l, t) == l = serLog /\ serStack # <<>> /\ SerTop = SerCall(t)
Passing(l, u) == /\ l = serLog /\ serStack # <<>>
                 /\ SerTop.tab = u /\ SerTop.pc \in {"mark", "forward"}
Leads(l, u, t) == /\ clonedLogs[u][l] = t
                  /\ l \in ToSet(chain[u]) \/ Passing(l, u)
Linked(l, t) == \E u \in Row : Leads(l, u, t)

\* A tablet gets one call for a log in its chain, and one for each notice it
\* remembers as a duplicate.
CallsBalance ==
    \A l \in Log, t \in Row :
        (IF Listed(l, t) THEN 1 ELSE 0) + (IF Called(l, t) THEN 1 ELSE 0)
                + (IF Linked(l, t) THEN 1 ELSE 0)
        = (IF l \in ToSet(chain[t]) THEN 1 ELSE 0)
                + (IF l \in duplicatedLogs[t] THEN 1 ELSE 0)

\* No two links for a log lead to the same tablet.
OneLink ==
    \A l \in Log : \A u, v, t \in Row : Leads(l, u, t) /\ Leads(l, v, t) => u = v

\* A link leads to a tablet of lower rows; until its log is serialized the
\* log is in the chain.
LinksGoDown ==
    \A u \in Row, l \in Log : clonedLogs[u][l] # None =>
        /\ u \in live /\ clonedLogs[u][l] <= minRow[u] /\ l \in made
        /\ l \in Waiting => l \in ToSet(chain[u])

\* FragDag has disk fragments only.
DagOfDisk == dag \in [Row -> SUBSET Disk]

\* The run of a compaction is in the chain of every tablet in its range.
RunInChains ==
    /\ compRun \in Seq(Disk)
    /\ compPc # "idle" => Len(compRun) > 1
    /\ compPc = "merge" =>
           \A u \in live : \/ Rows(u) \cap compRows = {}
                           \/ Matches(compRun, chain[u]) # {}
    /\ compPc = "merge" =>
           \A u \in live : Rows(u) \cap compRows = {} \/ Rows(u) \subseteq compRows
    /\ compPc \in {"replace", "mark", "ask"} =>
           \A u \in compTodo : Matches(compRun, chain[u]) # {}
    /\ compPc \in {"idle", "merge"} => compTodo = {}

\* The inductive invariant.
LogSide == /\ LogsApart /\ StackForwarded /\ ChainsInOrder /\ ChainLogsUndone
           /\ CallsBalance /\ OneLink /\ LinksGoDown
RunSide == DagOfDisk /\ RunInChains
LogInv == IInv /\ LogSide /\ RunSide /\ ~died

-----------------------------------------------------------------------------
(* Matches and splices.                                                    *)

\* Where a sequence matches, element by element.
LEMMA MatchFacts ==
    ASSUME NEW S, NEW s \in Seq(S), NEW t \in Seq(S), NEW i \in Nat
    PROVE  i \in Matches(s, t) <=>
               /\ i \in 1..Len(t) /\ i + Len(s) - 1 <= Len(t)
               /\ \A k \in 1..Len(s) : t[i + k - 1] = s[k]
<1> SUFFICES ASSUME i \in 1..Len(t), i + Len(s) - 1 <= Len(t)
             PROVE  SubSeq(t, i, i + Len(s) - 1) = s
                        <=> \A k \in 1..Len(s) : t[i + k - 1] = s[k]
  BY DEF Matches
<1> DEFINE p == SubSeq(t, i, i + Len(s) - 1)
<1>1. p \in Seq(S) /\ Len(p) = Len(s) /\ \A k \in 1..Len(s) : p[k] = t[i + k - 1]
  <2>1. i \in Int /\ i + Len(s) - 1 \in Int /\ Len(s) \in Nat
        /\ \A k \in i..(i + Len(s) - 1) : t[k] \in S
    OBVIOUS
  <2>2. /\ p \in Seq(S)
        /\ Len(p) = IF i <= i + Len(s) - 1 THEN i + Len(s) - 1 - i + 1 ELSE 0
        /\ \A k \in 1..(i + Len(s) - 1 - i + 1) : p[k] = t[i + k - 1]
    BY <2>1, SubSeqProperties
  <2> HIDE DEF p
  <2>3. i + Len(s) - 1 - i + 1 = Len(s)
    BY <2>1
  <2>4. Len(p) = Len(s)
    BY <2>1, <2>2, <2>3
  <2> QED BY <2>2, <2>3, <2>4
<1> HIDE DEF p
<1>2. p = s => \A k \in 1..Len(s) : t[i + k - 1] = s[k]
  BY <1>1
<1>3. ASSUME \A k \in 1..Len(s) : t[i + k - 1] = s[k] PROVE p = s
  <2>1. \A k \in 1..Len(p) : p[k] = s[k]
    BY <1>1, <1>3
  <2> QED BY <1>1, <2>1, SeqEqual
<1> QED BY <1>2, <1>3 DEF p

\* The sequence c is t with r in place of s at i.
SplicedAt(r, s, t, i, c) ==
    /\ i \in 1..Len(t) /\ i + Len(s) - 1 <= Len(t)
    /\ \A k \in 1..Len(s) : t[i + k - 1] = s[k]
    /\ Len(c) = Len(t) - Len(s) + Len(r)
    /\ \A p \in 1..(i - 1) : c[p] = t[p]
    /\ \A k \in 1..Len(r) : c[i - 1 + k] = r[k]
    /\ \A p \in (i + Len(r))..(Len(t) - Len(s) + Len(r)) :
           c[p] = t[p - Len(r) + Len(s)]

\* The parts of a splice: what is before the match, the new sequence, and what
\* is behind the match.
LEMMA SpliceFacts ==
    ASSUME NEW S, NEW r \in Seq(S), NEW s \in Seq(S), NEW t \in Seq(S),
           Matches(s, t) # {}
    PROVE  /\ Splice(r, s, t) \in Seq(S)
           /\ \E i \in Nat : SplicedAt(r, s, t, i, Splice(r, s, t))
<1> DEFINE i == FirstMatch(s, t)
           A == SubSeq(t, 1, i - 1)
           B == SubSeq(t, i + Len(s), Len(t))
<1>1. i \in Matches(s, t) /\ i \in Nat
  <2>1. Matches(s, t) \in SUBSET Nat
    BY DEF Matches
  <2>2. \E n \in Matches(s, t) : \A m \in Matches(s, t) : n <= m
    BY <2>1, LeastNat
  <2> QED BY <2>1, <2>2 DEF FirstMatch
<1>2. Splice(r, s, t) = A \o r \o B
  BY DEF Splice
<1> HIDE DEF i
<1>3. /\ i \in 1..Len(t) /\ i + Len(s) - 1 <= Len(t)
      /\ \A k \in 1..Len(s) : t[i + k - 1] = s[k]
  BY <1>1, MatchFacts
<1>4. Len(s) \in Nat /\ Len(r) \in Nat /\ Len(t) \in Nat
  OBVIOUS
<1>5. A \in Seq(S) /\ Len(A) = i - 1 /\ \A p \in 1..(i - 1) : A[p] = t[p]
  BY <1>3
<1>6. B \in Seq(S) /\ Len(B) = Len(t) - Len(s) - i + 1
      /\ \A k \in 1..Len(B) : B[k] = t[i + Len(s) - 1 + k]
  <2>1. i + Len(s) \in Int /\ Len(t) \in Int
        /\ \A k \in (i + Len(s))..Len(t) : t[k] \in S
    BY <1>3, <1>4
  <2>2. /\ B \in Seq(S)
        /\ Len(B) = IF i + Len(s) <= Len(t) THEN Len(t) - (i + Len(s)) + 1 ELSE 0
        /\ \A k \in 1..(Len(t) - (i + Len(s)) + 1) : B[k] = t[i + Len(s) + k - 1]
    BY <2>1, SubSeqProperties
  <2> HIDE DEF B
  <2>3. Len(B) = Len(t) - Len(s) - i + 1 /\ Len(B) = Len(t) - (i + Len(s)) + 1
    <3>1. Len(B) = IF i + Len(s) <= Len(t) THEN Len(t) - (i + Len(s)) + 1 ELSE 0
      BY <2>2
    <3>2. i \in 1..Len(t) /\ i + Len(s) - 1 <= Len(t)
      BY <1>3
    <3> QED BY <1>4, <3>1, <3>2
  <2>4. \A k \in 1..Len(B) : i + Len(s) + k - 1 = i + Len(s) - 1 + k
    BY <1>3, <1>4
  <2>5. \A k \in 1..Len(B) : B[k] = t[i + Len(s) + k - 1]
    BY <2>2, <2>3
  <2> QED BY <2>2, <2>3, <2>4, <2>5
<1> HIDE DEF A, B
<1>7. /\ A \o r \in Seq(S) /\ Len(A \o r) = i - 1 + Len(r)
      /\ \A p \in 1..(i - 1) : (A \o r)[p] = t[p]
      /\ \A k \in 1..Len(r) : (A \o r)[i - 1 + k] = r[k]
  <2>1. A \o r \in Seq(S) /\ Len(A \o r) = i - 1 + Len(r)
    BY <1>5
  <2>2. \A p \in 1..(i - 1) : (A \o r)[p] = t[p]
    BY <1>4, <1>5
  <2>3. ASSUME NEW k \in 1..Len(r) PROVE (A \o r)[i - 1 + k] = r[k]
    <3>1. i - 1 + k \in (Len(A) + 1)..(Len(A) + Len(r)) /\ i - 1 + k - Len(A) = k
      BY <1>3, <1>4, <1>5
    <3> QED BY <1>5, <3>1
  <2> QED BY <2>1, <2>2, <2>3
<1> DEFINE C == A \o r
<1> HIDE DEF C
<1>8. C \in Seq(S) /\ Len(C) = i - 1 + Len(r)
  BY <1>7 DEF C
<1>9. /\ C \o B \in Seq(S) /\ Len(C \o B) = Len(t) - Len(s) + Len(r)
      /\ \A p \in 1..(i - 1 + Len(r)) : (C \o B)[p] = C[p]
  <2>1. C \o B \in Seq(S) /\ Len(C \o B) = Len(C) + Len(B)
    <3>1. C \in Seq(S) /\ B \in Seq(S)
      BY <1>6, <1>8
    <3> QED BY <3>1
  <2>2. Len(C) + Len(B) = Len(t) - Len(s) + Len(r)
    BY <1>3, <1>4, <1>6, <1>8
  <2>3. \A p \in 1..Len(C) : (C \o B)[p] = C[p]
    BY <1>6, <1>8
  <2> QED BY <2>1, <2>2, <2>3, <1>8
<1>10. ASSUME NEW p \in (i + Len(r))..(Len(t) - Len(s) + Len(r))
       PROVE  (C \o B)[p] = t[p - Len(r) + Len(s)]
  <2> DEFINE k == p - Len(C)
  <2>1. /\ k \in 1..Len(B) /\ p \in (Len(C) + 1)..(Len(C) + Len(B))
        /\ i + Len(s) - 1 + k = p - Len(r) + Len(s)
    BY <1>3, <1>4, <1>6, <1>8
  <2>2. (C \o B)[p] = B[k]
    <3>1. C \in Seq(S) /\ B \in Seq(S)
      BY <1>6, <1>8
    <3>2. p \in (Len(C) + 1)..(Len(C) + Len(B))
      BY <2>1
    <3> HIDE DEF k
    <3>3. (C \o B)[p] = B[p - Len(C)]
      BY <3>1, <3>2
    <3> QED BY <3>3 DEF k
  <2> HIDE DEF k
  <2> QED BY <1>6, <2>1, <2>2
<1>11. \A k \in 1..Len(r) : i - 1 + k \in 1..(i - 1 + Len(r))
  BY <1>3, <1>4
<1>12. \A p \in 1..(i - 1) : p \in 1..(i - 1 + Len(r))
  BY <1>3, <1>4
<1>13. \A k \in 1..Len(r) : (C \o B)[i - 1 + k] = r[k]
  BY <1>7, <1>9, <1>11 DEF C
<1>14. \A p \in 1..(i - 1) : (C \o B)[p] = t[p]
  BY <1>7, <1>9, <1>12 DEF C
<1>15. Splice(r, s, t) = C \o B
  BY <1>2 DEF C
<1> HIDE DEF C
<1>16. SplicedAt(r, s, t, i, C \o B)
  <2> DEFINE D == C \o B
  <2>1. \A p \in (i + Len(r))..(Len(t) - Len(s) + Len(r)) : D[p] = t[p - Len(r) + Len(s)]
    BY <1>10
  <2>2. /\ Len(D) = Len(t) - Len(s) + Len(r)
        /\ \A p \in 1..(i - 1) : D[p] = t[p]
        /\ \A k \in 1..Len(r) : D[i - 1 + k] = r[k]
    BY <1>9, <1>13, <1>14
  <2> HIDE DEF D
  <2>3. SplicedAt(r, s, t, i, D)
    BY <1>3, <2>1, <2>2 DEF SplicedAt
  <2> QED BY <2>3 DEF D
<1> QED BY <1>1, <1>9, <1>15, <1>16

\* What is in a sequence, by position.
LEMMA InToSet ==
    ASSUME NEW S, NEW t \in Seq(S), NEW e
    PROVE  e \in ToSet(t) <=> \E p \in 1..Len(t) : t[p] = e
BY DEF ToSet

\* The sequence c is t with d in place of e at i.
ReplacedAt(d, e, t, i, c) ==
    /\ t[i] = e /\ c[i] = d /\ Len(c) = Len(t)
    /\ \A p \in 1..Len(t) : p # i => c[p] = t[p]

\* Replacing one element by another.
LEMMA SpliceOne ==
    ASSUME NEW S, NEW d \in S, NEW e \in S, NEW t \in Seq(S), e \in ToSet(t)
    PROVE  /\ Splice(<<d>>, <<e>>, t) \in Seq(S)
           /\ \E i \in 1..Len(t) : ReplacedAt(d, e, t, i, Splice(<<d>>, <<e>>, t))
<1>1. Matches(<<e>>, t) # {}
  BY MatchOfMember
<1> DEFINE x == <<d>>
           y == <<e>>
<1>2. x \in Seq(S) /\ y \in Seq(S) /\ Len(x) = 1 /\ Len(y) = 1 /\ x[1] = d /\ y[1] = e
  OBVIOUS
<1>3. Len(t) \in Nat
  OBVIOUS
<1> HIDE DEF x, y
<1>4. Matches(y, t) # {}
  BY <1>1 DEF y
<1> DEFINE c == Splice(x, y, t)
<1>5. c \in Seq(S) /\ \E i \in Nat : SplicedAt(x, y, t, i, c)
  <2>1. x \in Seq(S) /\ y \in Seq(S)
    BY <1>2
  <2> QED BY <2>1, <1>4, SpliceFacts
<1> HIDE DEF c
<1>9. PICK i \in Nat : SplicedAt(x, y, t, i, c)
  BY <1>5
<1>10. /\ i \in 1..Len(t)
       /\ \A k \in 1..Len(y) : t[i + k - 1] = y[k]
       /\ Len(c) = Len(t) - Len(y) + Len(x)
       /\ \A p \in 1..(i - 1) : c[p] = t[p]
       /\ \A k \in 1..Len(x) : c[i - 1 + k] = x[k]
       /\ \A p \in (i + Len(x))..(Len(t) - Len(y) + Len(x)) :
              c[p] = t[p - Len(x) + Len(y)]
  BY <1>9 DEF SplicedAt
<1>6. c \in Seq(S) /\ Len(c) = Len(t)
  <2>1. Len(c) = Len(t) - Len(y) + Len(x)
    BY <1>10
  <2> QED BY <1>2, <1>3, <1>5, <2>1
<1>7. t[i] = e /\ c[i] = d
  <2>1. 1 \in 1..Len(y) /\ 1 \in 1..Len(x) /\ i + 1 - 1 = i /\ i - 1 + 1 = i
    BY <1>2, <1>10
  <2>2. t[i + 1 - 1] = y[1] /\ c[i - 1 + 1] = x[1]
    BY <1>10, <2>1
  <2> QED BY <1>2, <2>1, <2>2
<1>8. ASSUME NEW p \in 1..Len(t), p # i PROVE c[p] = t[p]
  <2>1. CASE p \in 1..(i - 1)
    BY <1>10, <2>1
  <2>2. CASE p \notin 1..(i - 1)
    <3>1. p \in (i + Len(x))..(Len(t) - Len(y) + Len(x)) /\ p - Len(x) + Len(y) = p
      BY <1>2, <1>3, <1>8, <1>10, <2>2
    <3> QED BY <1>10, <3>1
  <2> QED BY <2>1, <2>2
<1>11. ReplacedAt(d, e, t, i, c)
  BY <1>6, <1>7, <1>8 DEF ReplacedAt
<1>12. c = Splice(<<d>>, <<e>>, t)
  BY DEF c, x, y
<1> QED BY <1>6, <1>10, <1>11, <1>12

\* A run of disk fragments stays where it is when something is appended, and
\* when something that is not in it is replaced.
LEMMA MatchStays ==
    ASSUME NEW S, NEW run \in Seq(S), NEW t \in Seq(S), NEW c \in Seq(S),
           Len(t) <= Len(c), Matches(run, t) # {},
           \A p \in 1..Len(t) : c[p] = t[p] \/ t[p] \notin ToSet(run)
    PROVE  Matches(run, c) # {}
<1>1. PICK i \in Matches(run, t) : i \in Nat
  BY DEF Matches
<1>2. /\ i \in 1..Len(t) /\ i + Len(run) - 1 <= Len(t)
      /\ \A k \in 1..Len(run) : t[i + k - 1] = run[k]
  BY <1>1, MatchFacts
<1>3. Len(run) \in Nat /\ Len(t) \in Nat /\ Len(c) \in Nat
  OBVIOUS
<1>4. \A k \in 1..Len(run) : run[k] \in ToSet(run)
  BY InToSet
<1>5. \A k \in 1..Len(run) : i + k - 1 \in 1..Len(t)
  BY <1>2, <1>3
<1>6. \A k \in 1..Len(run) : c[i + k - 1] = run[k]
  BY <1>2, <1>4, <1>5
<1>7. i \in 1..Len(c) /\ i + Len(run) - 1 <= Len(c)
  BY <1>2, <1>3
<1>8. i \in Matches(run, c)
  BY <1>1, <1>6, <1>7, MatchFacts
<1> QED BY <1>8

-----------------------------------------------------------------------------
(* The steps that leave the logs' side alone.                              *)

\* The types that the proofs below use.
LEMMA LogTypes ==
    ASSUME IInv
    PROVE  /\ chain \in [Row -> Seq(Frag)] /\ live \subseteq Row
           /\ minRow \in [Row -> 0..NRows]
           /\ clonedLogs \in [Row -> [Log -> live \cup {None}]]
           /\ duplicatedLogs \in [Row -> SUBSET Log]
           /\ group \in [Log -> Seq(live)] /\ serTodo \in Seq(live)
           /\ serStack \in Seq(FrameSet(live)) /\ serq \in Seq(Log)
           /\ open \in Log \cup {None} /\ serLog \in Log \cup {None}
           /\ made \subseteq Frag /\ Log \subseteq Frag
           /\ None \notin Log /\ None \notin Row /\ Log \cap Disk = {}
BY TabletAssumption DEF IInv, BaseTypes, KnownTablets, Frag

LEMMA LogSideQuiet ==
    ASSUME LogSide, made \subseteq made',
           UNCHANGED <<live, minRow, chain, clonedLogs, duplicatedLogs,
                       open, group, serq, serLog, serTodo, serStack>>
    PROVE  LogSide'
<1>1. LogsApart' /\ StackForwarded'
  BY DEF LogSide, LogsApart, StackForwarded, Waiting, Undone
<1>2. ChainsInOrder' /\ ChainLogsUndone'
  BY DEF LogSide, ChainsInOrder, ChainLogsUndone, Before, Waiting, Undone
<1>3. CallsBalance' /\ OneLink'
  BY DEF LogSide, CallsBalance, OneLink, Listed, Called, Linked, Leads, Passing,
         Waiting, SerTop
<1>4. LinksGoDown'
  BY DEF LogSide, LinksGoDown, Waiting
<1> QED BY <1>1, <1>2, <1>3, <1>4 DEF LogSide

LEMMA RunSideQuiet ==
    ASSUME RunSide, UNCHANGED <<live, minRow, chain, dag, compPc, compRun,
                                compRows, compTodo>>
    PROVE  RunSide'
BY DEF RunSide, DagOfDisk, RunInChains, Rows

\* The counts of calls follow from what they count.
LEMMA BalanceFrom ==
    ASSUME CallsBalance,
           \A k \in Log, x \in Row :
               /\ Listed(k, x)' <=> Listed(k, x)
               /\ Called(k, x)' <=> Called(k, x)
               /\ Linked(k, x)' <=> Linked(k, x)
               /\ k \in ToSet(chain'[x]) <=> k \in ToSet(chain[x])
               /\ k \in duplicatedLogs'[x] <=> k \in duplicatedLogs[x]
    PROVE  CallsBalance'
BY DEF CallsBalance

\* Linked and OneLink are about Leads.
LEMMA LinksFrom ==
    ASSUME OneLink,
           \A k \in Log, u, x \in Row : Leads(k, u, x)' <=> Leads(k, u, x)
    PROVE  /\ OneLink'
           /\ \A k \in Log, x \in Row : Linked(k, x)' <=> Linked(k, x)
BY DEF OneLink, Linked

\* The order in a chain, for its elements in place of their positions.
LEMMA OrderFrom ==
    ASSUME \A x \in Row : \A i, j \in 1..Len(chain'[x]) : \A k \in Log : \A m :
               i < j /\ chain'[x][i] = k /\ chain'[x][j] = m =>
                   m \in Log /\ Before(k, m)'
    PROVE  ChainsInOrder'
<1> SUFFICES ASSUME NEW x \in Row, NEW i \in 1..Len(chain'[x]),
                    NEW j \in 1..Len(chain'[x]), i < j, chain'[x][i] \in Log
             PROVE  (chain[x][j] \in Log /\ Before(chain[x][i], chain[x][j]))'
  BY DEF ChainsInOrder
<1>1. PICK k \in Log : k = chain'[x][i]
  OBVIOUS
<1>2. PICK m : m = chain'[x][j]
  OBVIOUS
<1>3. m \in Log /\ Before(k, m)'
  BY <1>1, <1>2
<1> QED BY <1>1, <1>2, <1>3 DEF Before

-----------------------------------------------------------------------------
(* The commit thread.                                                      *)

LEMMA CommitLogs ==
    ASSUME IInv, LogSide, NEW r \in Row, NEW l \in Log, NEW big \in BOOLEAN,
           Commit(r, l, big)
    PROVE  LogSide'
<1> DEFINE t == Owner(r)
           first == t \notin ToSet(group[l])
           add == first /\ l \notin ToSet(chain[t])
<1>1. t \in live /\ t \in Row
  BY OwnerLives DEF IInv, BaseTypes
<1>2. /\ IF open = None THEN l \notin made ELSE l = open
      /\ open' = l /\ made' = made \cup {l}
      /\ group' = IF first THEN [group EXCEPT ![l] = Append(@, t)] ELSE group
      /\ duplicatedLogs' = IF first /\ ~add
                THEN [duplicatedLogs EXCEPT ![t] = @ \cup {l}] ELSE duplicatedLogs
      /\ chain' = IF add THEN [chain EXCEPT ![t] = Append(@, l)] ELSE chain
      /\ UNCHANGED <<live, minRow, clonedLogs, serq, serLog, serTodo, serStack>>
  BY DEF Commit, NoteDuplicate, serVars
<1> HIDE DEF t
<1>3. /\ chain \in [Row -> Seq(Frag)] /\ group \in [Log -> Seq(live)]
      /\ duplicatedLogs \in [Row -> SUBSET Log] /\ serq \in Seq(Log)
      /\ clonedLogs \in [Row -> [Log -> live \cup {None}]]
      /\ open \in Log \cup {None} /\ serLog \in Log \cup {None}
      /\ None \notin Log /\ None \notin Row /\ l \in Frag
  BY LogTypes
<1>4. /\ serLog # None => serLog \notin Waiting
      /\ open # None => open \notin ToSet(serq)
      /\ Undone \subseteq made \cup {None}
      /\ \A k \in Log : k \notin made => group[k] = <<>>
  BY DEF LogSide, LogsApart
<1>5. /\ l # None /\ l # serLog /\ l \notin ToSet(serq)
      /\ \A k \in Log : k \in Waiting' <=> k \in Waiting \/ k = l
      /\ \A k \in Log : k \in Undone' <=> k \in Undone \/ k = l
      /\ l \in Waiting => open = l
  BY <1>2, <1>3, <1>4 DEF Waiting, Undone
<1>6. \A k \in Log : k \notin made => group[k] = <<>> /\ ToSet(group[k]) = {}
  BY <1>4 DEF ToSet
<1>7. /\ Append(group[l], t) \in Seq(live)
      /\ ToSet(Append(group[l], t)) = ToSet(group[l]) \cup {t}
  BY <1>1, <1>3, ToSetProperties
<1>8. \A k \in Log, x \in Row : x \in ToSet(group'[k])
          <=> x \in ToSet(group[k]) \/ (first /\ k = l /\ x = t)
  BY <1>2, <1>3, <1>7
<1>9. \A k \in Log, x \in Row : k \in ToSet(chain'[x])
          <=> k \in ToSet(chain[x]) \/ (add /\ k = l /\ x = t)
  <2>1. ToSet(Append(chain[t], l)) = ToSet(chain[t]) \cup {l}
    BY <1>1, <1>3, ToSetProperties
  <2> QED BY <1>1, <1>2, <1>3, <2>1
<1>10. \A k \in Log, x \in Row : k \in duplicatedLogs'[x]
           <=> k \in duplicatedLogs[x] \/ (first /\ ~add /\ k = l /\ x = t)
  BY <1>1, <1>2, <1>3
<1>11. clonedLogs[t][l] # None => ~add
  BY <1>1, <1>2, <1>3, <1>4 DEF LogSide, LinksGoDown, Waiting
<1>12. first => ~Listed(l, t)
  BY <1>5 DEF Listed
<1>13. ~first => Listed(l, t)
  BY <1>2, <1>3, <1>5, <1>6 DEF Listed, Waiting
<1>14. ASSUME NEW k \in Log, NEW x \in Row
       PROVE  Listed(k, x)' <=> Listed(k, x) \/ (first /\ k = l /\ x = t)
  <2>1. CASE k = serLog
    BY <1>2, <1>5, <2>1 DEF Listed
  <2>2. CASE k # serLog /\ k # l
    BY <1>2, <1>5, <1>8, <2>2 DEF Listed
  <2>3. CASE k = l
    <3>1. Listed(l, x)' <=> x \in ToSet(group[l]) \/ (first /\ x = t)
      BY <1>2, <1>5, <1>8 DEF Listed
    <3>2. Listed(l, x) <=> x \in ToSet(group[l])
      BY <1>2, <1>5, <1>6 DEF Listed, Waiting
    <3> QED BY <2>3, <3>1, <3>2
  <2> QED BY <2>1, <2>2, <2>3
<1>15. \A k \in Log, x \in Row : Called(k, x)' <=> Called(k, x)
  BY <1>2 DEF Called, SerTop
<1>16. \A k \in Log, u, x \in Row : Leads(k, u, x)' <=> Leads(k, u, x)
  <2>1. \A k \in Log, u \in Row : Passing(k, u)' <=> Passing(k, u)
    BY <1>2 DEF Passing, SerTop
  <2> QED BY <1>2, <1>3, <1>9, <1>11, <2>1 DEF Leads
<1>17. OneLink' /\ \A k \in Log, x \in Row : Linked(k, x)' <=> Linked(k, x)
  BY <1>16, LinksFrom DEF LogSide
<1>18. CallsBalance'
  <2> SUFFICES ASSUME NEW k \in Log, NEW x \in Row
               PROVE  (IF Listed(k, x)' THEN 1 ELSE 0) + (IF Called(k, x)' THEN 1 ELSE 0)
                              + (IF Linked(k, x)' THEN 1 ELSE 0)
                      = (IF k \in ToSet(chain'[x]) THEN 1 ELSE 0)
                              + (IF k \in duplicatedLogs'[x] THEN 1 ELSE 0)
    BY DEF CallsBalance
  <2>1. (IF Listed(k, x) THEN 1 ELSE 0) + (IF Called(k, x) THEN 1 ELSE 0)
                + (IF Linked(k, x) THEN 1 ELSE 0)
        = (IF k \in ToSet(chain[x]) THEN 1 ELSE 0)
                + (IF k \in duplicatedLogs[x] THEN 1 ELSE 0)
    BY DEF LogSide, CallsBalance
  <2>2. ~Called(l, t)
    BY <1>5 DEF Called
  <2> HIDE DEF first
  <2>3. add <=> first /\ l \notin ToSet(chain[t])
    BY DEF first
  <2> HIDE DEF add
  <2>4. /\ Listed(k, x)' <=> Listed(k, x) \/ (first /\ k = l /\ x = t)
        /\ Called(k, x)' <=> Called(k, x)
        /\ Linked(k, x)' <=> Linked(k, x)
        /\ k \in ToSet(chain'[x])
               <=> k \in ToSet(chain[x]) \/ (add /\ k = l /\ x = t)
        /\ k \in duplicatedLogs'[x]
               <=> k \in duplicatedLogs[x] \/ (first /\ ~add /\ k = l /\ x = t)
    BY <1>9, <1>10, <1>14, <1>15, <1>17
  <2>5. CASE k = l /\ x = t
    <3>1. first => ~Listed(k, x)
      BY <1>12, <2>5
    <3>2. add <=> first /\ k \notin ToSet(chain[x])
      BY <2>3, <2>5
    <3>3. ~Called(k, x)
      BY <2>2, <2>5
    <3> QED BY <2>1, <2>4, <2>5, <3>1, <3>2, <3>3
  <2>6. CASE ~(k = l /\ x = t)
    <3>1. /\ Listed(k, x)' <=> Listed(k, x)
          /\ k \in ToSet(chain'[x]) <=> k \in ToSet(chain[x])
          /\ k \in duplicatedLogs'[x] <=> k \in duplicatedLogs[x]
      BY <2>4, <2>6
    <3> QED BY <2>1, <2>4, <3>1
  <2> QED BY <2>5, <2>6
<1>19. LogsApart'
  <2>1. /\ serLog' # None => serLog' \notin Waiting'
        /\ open' # None => open' \notin ToSet(serq')
        /\ \A a, b \in 1..Len(serq') : serq'[a] = serq'[b] => a = b
        /\ \A a, b \in 1..Len(serTodo') : serTodo'[a] = serTodo'[b] => a = b
    BY <1>2, <1>3, <1>4, <1>5 DEF LogSide, LogsApart
  <2>2. Undone' \subseteq made' \cup {None}
    BY <1>2, <1>4 DEF Undone, Waiting
  <2>3. \A k \in Log : k \notin made' => group'[k] = <<>>
    BY <1>2, <1>3, <1>4
  <2>4. ASSUME NEW k \in Log, NEW a \in 1..Len(group'[k]), NEW b \in 1..Len(group'[k]),
               group'[k][a] = group'[k][b]
        PROVE  a = b
    <3>1. \A i, j \in 1..Len(group[k]) : group[k][i] = group[k][j] => i = j
      BY DEF LogSide, LogsApart
    <3>2. CASE group'[k] = group[k]
      BY <2>4, <3>1, <3>2
    <3>3. CASE k = l /\ first /\ group'[l] = Append(group[l], t)
      <4>1. /\ Len(group'[l]) = Len(group[l]) + 1 /\ Len(group[l]) \in Nat
            /\ \A i \in 1..Len(group[l]) : group'[l][i] = group[l][i]
            /\ group'[l][Len(group[l]) + 1] = t
        BY <1>1, <1>3, <3>3
      <4>2. \A i \in 1..Len(group[l]) : group[l][i] # t
        BY <1>3, <3>3 DEF ToSet
      <4> QED BY <2>4, <3>1, <3>3, <4>1, <4>2
    <3> QED BY <1>2, <1>3, <3>2, <3>3
  <2> QED BY <2>1, <2>2, <2>3, <2>4 DEF LogsApart
<1>20. StackForwarded'
  BY <1>2 DEF LogSide, StackForwarded
<1>21. ChainLogsUndone'
  BY <1>5, <1>9 DEF LogSide, ChainLogsUndone
<1>22. LinksGoDown'
  <2> SUFFICES ASSUME NEW u \in Row, NEW k \in Log, clonedLogs[u][k] # None
               PROVE  /\ u \in live /\ clonedLogs[u][k] <= minRow[u] /\ k \in made'
                      /\ k \in Waiting' => k \in ToSet(chain'[u])
    BY <1>2 DEF LinksGoDown
  <2>1. /\ u \in live /\ clonedLogs[u][k] <= minRow[u] /\ k \in made
        /\ k \in Waiting => k \in ToSet(chain[u])
    BY DEF LogSide, LinksGoDown
  <2>2. k = l => open = l
    BY <1>2, <2>1
  <2> QED BY <1>2, <1>5, <1>9, <2>1, <2>2 DEF Waiting
<1>23. \A k, m \in Log : Before(k, m) /\ m # None => Before(k, m)'
  BY <1>2, <1>3 DEF Before
<1>24. \A k \in Log : k # l => Before(k, l)' <=> TRUE
  BY <1>2 DEF Before
<1>25. ChainsInOrder'
  <2> SUFFICES ASSUME NEW x \in Row, NEW i \in 1..Len(chain'[x]),
                      NEW j \in 1..Len(chain'[x]), NEW k \in Log, NEW m, i < j,
                      chain'[x][i] = k, chain'[x][j] = m
               PROVE  m \in Log /\ Before(k, m)'
    BY OrderFrom
  <2>1. \A p, q \in 1..Len(chain[x]) : p < q /\ chain[x][p] \in Log =>
            chain[x][q] \in Log /\ Before(chain[x][p], chain[x][q])
    BY DEF LogSide, ChainsInOrder
  <2>2. CASE chain'[x] = chain[x]
    BY <1>3, <1>23, <2>1, <2>2
  <2>3. CASE x = t /\ add /\ chain'[t] = Append(chain[t], l)
    <3>1. /\ Len(chain'[t]) = Len(chain[t]) + 1 /\ Len(chain[t]) \in Nat
          /\ \A p \in 1..Len(chain[t]) : chain'[t][p] = chain[t][p]
          /\ chain'[t][Len(chain[t]) + 1] = l
      BY <1>1, <1>3, <2>3
    <3>2. i \in 1..Len(chain[t]) /\ chain'[t][i] = chain[t][i]
      BY <2>3, <3>1
    <3>3. CASE j \in 1..Len(chain[t])
      <4>1. chain'[t][j] = chain[t][j]
        BY <3>1, <3>3
      <4> QED BY <1>3, <1>23, <2>1, <2>3, <3>2, <3>3, <4>1
    <3>4. CASE j = Len(chain[t]) + 1
      <4>1. chain[t][i] # l
        BY <1>1, <1>3, <2>3, <3>2 DEF ToSet
      <4> QED BY <1>24, <2>3, <3>1, <3>2, <3>4, <4>1
    <3> QED BY <2>3, <3>1, <3>3, <3>4
  <2> QED BY <1>1, <1>2, <1>3, <2>2, <2>3
<1> QED BY <1>17, <1>18, <1>19, <1>20, <1>21, <1>22, <1>25 DEF LogSide

LEMMA PushGroupLogs == ASSUME IInv, LogSide, PushGroup PROVE LogSide'
<1>1. /\ open # None /\ serq' = Append(serq, open) /\ open' = None
      /\ UNCHANGED <<made, live, minRow, chain, clonedLogs, duplicatedLogs, group,
                     serLog, serTodo, serStack>>
  BY DEF PushGroup, IInv, BaseTypes, trackerVars, tabletVars, serVars
<1>2. /\ serq \in Seq(Log) /\ open \in Log /\ None \notin Log
      /\ serLog \in Log \cup {None} /\ chain \in [Row -> Seq(Frag)]
  BY <1>1, LogTypes
<1>3. /\ ToSet(serq') = ToSet(serq) \cup {open} /\ Len(serq') = Len(serq) + 1
      /\ Len(serq) \in Nat /\ serq'[Len(serq) + 1] = open
      /\ \A a \in 1..Len(serq) : serq'[a] = serq[a]
  BY <1>1, <1>2, ToSetProperties
<1>4. /\ \A k \in Log : k \in Waiting' <=> k \in Waiting
      /\ \A k \in Log : k \in Undone' <=> k \in Undone
  BY <1>1, <1>2, <1>3 DEF Waiting, Undone
<1>5. /\ serLog # None => serLog \notin Waiting
      /\ open \notin ToSet(serq)
      /\ \A a, b \in 1..Len(serq) : serq[a] = serq[b] => a = b
      /\ Undone \subseteq made \cup {None}
  BY <1>1 DEF LogSide, LogsApart
<1>6. LogsApart'
  <2>1. ASSUME NEW a \in 1..Len(serq'), NEW b \in 1..Len(serq'), serq'[a] = serq'[b]
        PROVE  a = b
    <3>1. \A i \in 1..Len(serq) : serq[i] # open
      BY <1>5 DEF ToSet
    <3> QED BY <1>3, <1>5, <2>1, <3>1
  <2>2. Undone' \subseteq made' \cup {None}
    BY <1>1, <1>2, <1>3, <1>5 DEF Undone, Waiting
  <2>3. serLog' # None => serLog' \notin Waiting'
    BY <1>1, <1>2, <1>4, <1>5
  <2> QED BY <1>1, <2>1, <2>2, <2>3 DEF LogSide, LogsApart
<1>7. StackForwarded'
  BY <1>1 DEF LogSide, StackForwarded
<1>8. ChainLogsUndone'
  BY <1>1, <1>4 DEF LogSide, ChainLogsUndone
<1>9. LinksGoDown'
  BY <1>1, <1>4 DEF LogSide, LinksGoDown
<1>10. \A k \in Log, x \in Row : Listed(k, x)' <=> Listed(k, x)
  BY <1>1, <1>4 DEF Listed
<1>11. \A k \in Log, x \in Row : Called(k, x)' <=> Called(k, x)
  BY <1>1 DEF Called, SerTop
<1>12. \A k \in Log, u, x \in Row : Leads(k, u, x)' <=> Leads(k, u, x)
  BY <1>1 DEF Leads, Passing, SerTop
<1>13. OneLink' /\ \A k \in Log, x \in Row : Linked(k, x)' <=> Linked(k, x)
  BY <1>12, LinksFrom DEF LogSide
<1>14. CallsBalance'
  BY <1>1, <1>10, <1>11, <1>13, BalanceFrom DEF LogSide
<1>15. ASSUME NEW k \in Undone, NEW m \in Log, k \in Log, Before(k, m)
       PROVE  Before(k, m)'
  <2>1. k # m
    BY <1>15 DEF Before
  <2>2. CASE k = serLog
    BY <1>1, <2>1, <2>2 DEF Before
  <2>3. CASE m = open /\ k # serLog
    <3>1. k \in ToSet(serq)
      BY <1>15, <2>1, <2>3 DEF Undone, Waiting
    <3>2. PICK a \in 1..Len(serq) : serq[a] = k
      BY <1>2, <3>1, InToSet
    <3>3. a < Len(serq) + 1 /\ serq'[a] = k /\ serq'[Len(serq) + 1] = m
          /\ a \in 1..Len(serq') /\ Len(serq) + 1 \in 1..Len(serq')
      BY <1>3, <2>3, <3>2
    <3> QED BY <2>1, <3>3 DEF Before
  <2>4. CASE \E a, b \in 1..Len(serq) : a < b /\ serq[a] = k /\ serq[b] = m
    <3>1. PICK a, b \in 1..Len(serq) : a < b /\ serq[a] = k /\ serq[b] = m
      BY <2>4
    <3>2. a \in 1..Len(serq') /\ b \in 1..Len(serq') /\ serq'[a] = k /\ serq'[b] = m
      BY <1>3, <3>1
    <3> QED BY <2>1, <3>1, <3>2 DEF Before
  <2> QED BY <1>15, <2>2, <2>3, <2>4 DEF Before
<1>16. ChainsInOrder'
  <2> SUFFICES ASSUME NEW x \in Row, NEW i \in 1..Len(chain[x]),
                      NEW j \in 1..Len(chain[x]), NEW k \in Log, NEW m, i < j,
                      chain[x][i] = k, chain[x][j] = m
               PROVE  m \in Log /\ Before(k, m)'
    BY <1>1, OrderFrom
  <2>1. m \in Log /\ Before(k, m)
    BY DEF LogSide, ChainsInOrder
  <2>2. k \in Undone
    BY <1>2, InToSet DEF LogSide, ChainLogsUndone
  <2> QED BY <1>15, <2>1, <2>2
<1> QED BY <1>6, <1>7, <1>8, <1>9, <1>13, <1>14, <1>16 DEF LogSide

-----------------------------------------------------------------------------
(* The serialize thread.                                                   *)

\* The call stack of replaceFragments(): the top changes its pc ...
LEMMA GotoFacts ==
    ASSUME IInv, StackForwarded, serStack # <<>>,
           NEW pc \in {"swap", "mark", "forward", "dag", "ask"}, SerGoto(pc)
    PROVE  /\ StackForwarded' /\ serStack' # <<>>
           /\ SerTop'.tab = SerTop.tab /\ SerTop'.pc = pc
<1> DEFINE x == [SerTop EXCEPT !.pc = pc]
<1>1. x \in FrameSet(live) /\ x.tab = SerTop.tab /\ x.pc = pc
  BY FrameFacts DEF FrameSet
<1>2. serStack \in Seq(FrameSet(live)) /\ Tail(serStack) \in Seq(FrameSet(live))
  BY FrameFacts DEF IInv, KnownTablets
<1>3. serStack' = <<x>> \o Tail(serStack)
  BY DEF SerGoto
<1> HIDE DEF x
<1>4. /\ Len(serStack') = Len(serStack) /\ serStack'[1] = x /\ serStack' # <<>>
      /\ \A i \in 2..Len(serStack) : serStack'[i] = serStack[i]
  <2>1. Len(<<x>>) = 1 /\ <<x>> \in Seq(FrameSet(live)) /\ <<x>>[1] = x
    BY <1>1
  <2>2. Len(Tail(serStack)) = Len(serStack) - 1 /\ Len(serStack) \in Nat \ {0}
    BY <1>2
  <2>3. /\ Len(serStack') = 1 + (Len(serStack) - 1)
        /\ serStack' \in Seq(FrameSet(live))
    BY <1>2, <1>3, <2>1, <2>2
  <2>4. serStack'[1] = x
    BY <1>2, <1>3, <2>1
  <2>5. ASSUME NEW i \in 2..Len(serStack) PROVE serStack'[i] = serStack[i]
    <3>1. /\ i - 1 \in 1..Len(Tail(serStack)) /\ i - 1 + 1 = i
          /\ i \in 2..(1 + Len(Tail(serStack)))
      BY <2>2
    <3>2. serStack'[i] = Tail(serStack)[i - 1]
      BY <1>2, <1>3, <2>1, <3>1
    <3>3. Tail(serStack)[i - 1] = serStack[i - 1 + 1]
      BY <1>2, <2>2, <3>1
    <3> QED BY <3>1, <3>2, <3>3
  <2> QED BY <2>2, <2>3, <2>4, <2>5
<1>5. SerTop' = x
  BY <1>4 DEF SerTop
<1> QED BY <1>1, <1>4, <1>5 DEF StackForwarded

\* ... or returns to a call that has been forwarded.
LEMMA PopFacts ==
    ASSUME IInv, StackForwarded, serStack # <<>>, serStack' = Tail(serStack)
    PROVE  StackForwarded' /\ (serStack' # <<>> => SerTop'.pc = "dag")
<1>1. serStack \in Seq(FrameSet(live))
  BY DEF IInv, KnownTablets
<1>2. /\ Len(serStack') = Len(serStack) - 1 /\ Len(serStack) \in Nat
      /\ \A i \in 1..Len(serStack') : serStack'[i] = serStack[i + 1]
      /\ serStack' \in Seq(FrameSet(live))
  BY <1>1
<1>3. \A i \in 1..Len(serStack') : serStack'[i].pc = "dag"
  BY <1>2 DEF StackForwarded
<1>4. serStack' # <<>> => 1 \in 1..Len(serStack') /\ SerTop' = serStack'[1]
  BY <1>2 DEF SerTop
<1> QED BY <1>3, <1>4 DEF StackForwarded

\* The logs' side does not depend on more of the stack than what it calls and
\* passes on.
LEMMA StackOnly ==
    ASSUME IInv, LogSide, StackForwarded',
           UNCHANGED <<made, live, minRow, chain, clonedLogs, duplicatedLogs,
                       open, group, serq, serLog, serTodo>>,
           \A k \in Log, x \in Row : /\ Called(k, x)' <=> Called(k, x)
                                     /\ Passing(k, x)' <=> Passing(k, x)
    PROVE  LogSide'
<1>1. LogsApart'
  BY DEF LogSide, LogsApart, Waiting, Undone
<1>2. ChainsInOrder' /\ ChainLogsUndone'
  BY DEF LogSide, ChainsInOrder, ChainLogsUndone, Before, Waiting, Undone
<1>3. LinksGoDown'
  BY DEF LogSide, LinksGoDown, Waiting
<1>4. \A k \in Log, x \in Row : Listed(k, x)' <=> Listed(k, x)
  BY DEF Listed, Waiting
<1>5. \A k \in Log, u, x \in Row : Leads(k, u, x)' <=> Leads(k, u, x)
  BY DEF Leads
<1>6. OneLink' /\ \A k \in Log, x \in Row : Linked(k, x)' <=> Linked(k, x)
  BY <1>5, LinksFrom DEF LogSide
<1>7. CallsBalance'
  BY <1>4, <1>6, BalanceFrom DEF LogSide
<1> QED BY <1>1, <1>2, <1>3, <1>6, <1>7 DEF LogSide

LEMMA MarkLogDeadLogs == ASSUME IInv, LogSide, MarkLogDead PROVE LogSide'
<1>1. /\ serStack # <<>> /\ SerTop.pc = "mark" /\ SerGoto("forward")
      /\ UNCHANGED <<made, live, minRow, chain, clonedLogs, duplicatedLogs,
                     open, group, serq, serLog, serTodo>>
  BY DEF MarkLogDead, trackerVars, loggerVars
<1>2. /\ StackForwarded' /\ serStack' # <<>>
      /\ SerTop'.tab = SerTop.tab /\ SerTop'.pc = "forward"
  BY <1>1, GotoFacts DEF LogSide
<1>3. \A k \in Log, x \in Row : /\ Called(k, x)' <=> Called(k, x)
                                /\ Passing(k, x)' <=> Passing(k, x)
  BY <1>1, <1>2 DEF Called, Passing, SerCall
<1> QED BY <1>1, <1>2, <1>3, StackOnly

LEMMA AddToDagLogs == ASSUME IInv, LogSide, AddToDag PROVE LogSide'
<1>1. /\ serStack # <<>> /\ SerTop.pc = "dag" /\ SerGoto("ask")
      /\ UNCHANGED <<made, live, minRow, chain, clonedLogs, duplicatedLogs,
                     open, group, serq, serLog, serTodo>>
  BY DEF AddToDag, trackerVars, loggerVars, tabletVars
<1>2. StackForwarded' /\ serStack' # <<>> /\ SerTop'.pc = "ask"
  BY <1>1, GotoFacts DEF LogSide
<1>3. \A k \in Log, x \in Row : /\ Called(k, x)' <=> Called(k, x)
                                /\ Passing(k, x)' <=> Passing(k, x)
  BY <1>1, <1>2 DEF Called, Passing, SerCall
<1> QED BY <1>1, <1>2, <1>3, StackOnly

LEMMA SerializeAskSplitLogs ==
    ASSUME IInv, LogSide, NEW big, SerializeAskSplit(big)
    PROVE  LogSide'
<1>1. /\ serStack # <<>> /\ SerTop.pc = "ask" /\ serStack' = Tail(serStack)
      /\ UNCHANGED <<made, live, minRow, chain, clonedLogs, duplicatedLogs,
                     open, group, serq, serLog, serTodo>>
  BY DEF SerializeAskSplit, trackerVars, loggerVars
<1>2. StackForwarded' /\ (serStack' # <<>> => SerTop'.pc = "dag")
  BY <1>1, PopFacts DEF LogSide
<1>3. \A k \in Log, x \in Row : /\ Called(k, x)' <=> Called(k, x)
                                /\ Passing(k, x)' <=> Passing(k, x)
  BY <1>1, <1>2 DEF Called, Passing, SerCall
<1> QED BY <1>1, <1>2, <1>3, StackOnly

LEMMA SerializeStartLogs ==
    ASSUME IInv, LogSide, NEW d \in Disk, SerializeStart(d)
    PROVE  LogSide'
<1> DEFINE l == Head(serq)
<1>1. /\ serLog = None /\ serq # <<>> /\ serLog' = l /\ serq' = Tail(serq)
      /\ serTodo' = group[l] /\ made' = made \cup {d} /\ serStack' = serStack
      /\ UNCHANGED <<live, minRow, chain, clonedLogs, duplicatedLogs, open, group>>
  BY DEF SerializeStart, tabletVars
<1>2. /\ serq \in Seq(Log) /\ open \in Log \cup {None} /\ None \notin Log
      /\ chain \in [Row -> Seq(Frag)] /\ group \in [Log -> Seq(live)]
  BY LogTypes
<1>3. serStack = <<>>
  BY <1>1 DEF IInv, BaseTypes
<1>4. /\ l \in Log /\ l = serq[1] /\ Len(serq) \in Nat /\ 1 \in 1..Len(serq)
      /\ Len(serq') = Len(serq) - 1 /\ serq' \in Seq(Log)
      /\ \A a \in 1..Len(serq') : serq'[a] = serq[a + 1]
      /\ ToSet(serq) = {l} \cup ToSet(serq')
  BY <1>1, <1>2, ToSetProperties
<1> HIDE DEF l
<1>5. /\ \A a, b \in 1..Len(serq) : serq[a] = serq[b] => a = b
      /\ open # None => open \notin ToSet(serq)
      /\ Undone \subseteq made \cup {None}
  BY DEF LogSide, LogsApart
<1>6. l \notin ToSet(serq') /\ l # open
  <2>1. ASSUME NEW a \in 1..Len(serq') PROVE serq'[a] # l
    <3>1. a + 1 \in 1..Len(serq) /\ a + 1 # 1
      BY <1>4
    <3> QED BY <1>4, <1>5, <3>1
  <2>2. l \notin ToSet(serq')
    BY <1>4, <2>1, InToSet
  <2>3. l \in ToSet(serq) /\ l # None
    BY <1>2, <1>4
  <2> QED BY <1>5, <2>2, <2>3
<1>7. /\ \A k \in Log : k \in Waiting' <=> k \in Waiting /\ k # l
      /\ \A k \in Log : k \in Undone' <=> k \in Undone
      /\ l \in Waiting
  BY <1>1, <1>2, <1>4, <1>6 DEF Waiting, Undone
<1>8. LogsApart'
  <2>1. \A a, b \in 1..Len(serq') : serq'[a] = serq'[b] => a = b
    <3> SUFFICES ASSUME NEW a \in 1..Len(serq'), NEW b \in 1..Len(serq'),
                        serq'[a] = serq'[b]
                 PROVE  a = b
      OBVIOUS
    <3>1. a + 1 \in 1..Len(serq) /\ b + 1 \in 1..Len(serq)
      BY <1>4
    <3>2. a + 1 = b + 1
      BY <1>4, <1>5, <3>1
    <3> QED BY <3>2
  <2>2. \A a, b \in 1..Len(serTodo') : serTodo'[a] = serTodo'[b] => a = b
    BY <1>1, <1>4 DEF LogSide, LogsApart
  <2>3. Undone' \subseteq made' \cup {None}
    BY <1>1, <1>4, <1>5 DEF Undone, Waiting
  <2>4. serLog' \notin Waiting' /\ (open' # None => open' \notin ToSet(serq'))
    BY <1>1, <1>4, <1>5, <1>7
  <2>5. /\ \A k \in Log : k \notin made' => group'[k] = <<>>
        /\ \A k \in Log : \A a, b \in 1..Len(group'[k]) :
               group'[k][a] = group'[k][b] => a = b
    BY <1>1 DEF LogSide, LogsApart
  <2> QED BY <2>1, <2>2, <2>3, <2>4, <2>5 DEF LogsApart
<1>9. StackForwarded'
  BY <1>1 DEF LogSide, StackForwarded
<1>10. ChainLogsUndone'
  BY <1>1, <1>7 DEF LogSide, ChainLogsUndone
<1>11. LinksGoDown'
  BY <1>1, <1>7 DEF LogSide, LinksGoDown
<1>12. \A k \in Log, x \in Row : Listed(k, x)' <=> Listed(k, x)
  BY <1>1, <1>2, <1>7 DEF Listed
<1>13. \A k \in Log, x \in Row : /\ Called(k, x)' <=> Called(k, x)
                                 /\ Passing(k, x)' <=> Passing(k, x)
  BY <1>1, <1>3 DEF Called, Passing
<1>14. \A k \in Log, u, x \in Row : Leads(k, u, x)' <=> Leads(k, u, x)
  BY <1>1, <1>13 DEF Leads
<1>15. OneLink' /\ \A k \in Log, x \in Row : Linked(k, x)' <=> Linked(k, x)
  BY <1>14, LinksFrom DEF LogSide
<1>16. CallsBalance'
  BY <1>1, <1>12, <1>13, <1>15, BalanceFrom DEF LogSide
<1>17. ASSUME NEW k \in Log, NEW m \in Log, Before(k, m)
       PROVE  Before(k, m)'
  <2>1. k # m
    BY <1>17 DEF Before
  <2>2. CASE m = open
    BY <1>1, <2>1, <2>2 DEF Before
  <2>3. CASE \E a, b \in 1..Len(serq) : a < b /\ serq[a] = k /\ serq[b] = m
    <3>1. PICK a, b \in 1..Len(serq) : a < b /\ serq[a] = k /\ serq[b] = m
      BY <2>3
    <3>2. CASE a = 1
      BY <1>1, <1>4, <2>1, <3>1, <3>2 DEF Before
    <3>3. CASE a # 1
      <4>1. /\ a - 1 \in 1..Len(serq') /\ b - 1 \in 1..Len(serq') /\ a - 1 < b - 1
            /\ a - 1 + 1 = a /\ b - 1 + 1 = b
        BY <1>4, <3>1, <3>3
      <4>2. serq'[a - 1] = k /\ serq'[b - 1] = m
        BY <1>4, <3>1, <4>1
      <4> QED BY <2>1, <4>1, <4>2 DEF Before
    <3> QED BY <3>2, <3>3
  <2> QED BY <1>1, <1>2, <1>17, <2>2, <2>3 DEF Before
<1>18. ChainsInOrder'
  <2> SUFFICES ASSUME NEW x \in Row, NEW i \in 1..Len(chain[x]),
                      NEW j \in 1..Len(chain[x]), NEW k \in Log, NEW m, i < j,
                      chain[x][i] = k, chain[x][j] = m
               PROVE  m \in Log /\ Before(k, m)'
    BY <1>1, OrderFrom
  <2>1. m \in Log /\ Before(k, m)
    BY DEF LogSide, ChainsInOrder
  <2> QED BY <1>17, <2>1
<1> QED BY <1>8, <1>9, <1>10, <1>11, <1>15, <1>16, <1>18 DEF LogSide

LEMMA SerializeNextLogs == ASSUME IInv, LogSide, SerializeNext PROVE LogSide'
<1> DEFINE u == Head(serTodo)
<1>1. /\ serLog # None /\ serStack = <<>> /\ serTodo # <<>>
      /\ serStack' = <<SerCall(u)>> /\ serTodo' = Tail(serTodo)
      /\ UNCHANGED <<made, live, minRow, chain, clonedLogs, duplicatedLogs,
                     open, group, serq, serLog>>
  BY DEF SerializeNext, trackerVars, loggerVars, tabletVars
<1>2. /\ serTodo \in Seq(live) /\ live \subseteq Row
  BY LogTypes
<1>3. /\ u = serTodo[1] /\ u \in Row /\ Len(serTodo) \in Nat /\ 1 \in 1..Len(serTodo)
      /\ Len(serTodo') = Len(serTodo) - 1 /\ serTodo' \in Seq(live)
      /\ \A a \in 1..Len(serTodo') : serTodo'[a] = serTodo[a + 1]
      /\ ToSet(serTodo) = {u} \cup ToSet(serTodo')
  BY <1>1, <1>2, ToSetProperties
<1> HIDE DEF u
<1>4. \A a, b \in 1..Len(serTodo) : serTodo[a] = serTodo[b] => a = b
  BY DEF LogSide, LogsApart
<1>5. u \notin ToSet(serTodo')
  <2>1. ASSUME NEW a \in 1..Len(serTodo') PROVE serTodo'[a] # u
    <3>1. a + 1 \in 1..Len(serTodo) /\ a + 1 # 1
      BY <1>3
    <3> QED BY <1>3, <1>4, <3>1
  <2> QED BY <1>3, <2>1, InToSet
<1>6. LogsApart'
  <2>1. \A a, b \in 1..Len(serTodo') : serTodo'[a] = serTodo'[b] => a = b
    <3> SUFFICES ASSUME NEW a \in 1..Len(serTodo'), NEW b \in 1..Len(serTodo'),
                        serTodo'[a] = serTodo'[b]
                 PROVE  a = b
      OBVIOUS
    <3>1. a + 1 \in 1..Len(serTodo) /\ b + 1 \in 1..Len(serTodo)
      BY <1>3
    <3>2. a + 1 = b + 1
      BY <1>3, <1>4, <3>1
    <3> QED BY <3>2
  <2> QED BY <1>1, <2>1 DEF LogSide, LogsApart, Waiting, Undone
<1>7. SerTop' = SerCall(u) /\ serStack' # <<>> /\ Len(serStack') = 1
  BY <1>1 DEF SerTop
<1>8. StackForwarded'
  BY <1>7 DEF StackForwarded
<1>9. ChainsInOrder' /\ ChainLogsUndone'
  BY <1>1 DEF LogSide, ChainsInOrder, ChainLogsUndone, Before, Waiting, Undone
<1>10. LinksGoDown'
  BY <1>1 DEF LogSide, LinksGoDown, Waiting
<1>11. \A k \in Log, x \in Row :
           Listed(k, x)' <=> Listed(k, x) /\ ~(k = serLog /\ x = u)
  BY <1>1, <1>3, <1>5 DEF Listed, Waiting
<1>12. \A k \in Log, x \in Row :
           Called(k, x)' <=> k = serLog /\ x = u
  BY <1>1, <1>7 DEF Called, SerCall
<1>13. \A k \in Log, x \in Row : ~Called(k, x) /\ ~Passing(k, x) /\ ~Passing(k, x)'
  BY <1>1, <1>7 DEF Called, Passing, SerCall
<1>14. \A k \in Log, v, x \in Row : Leads(k, v, x)' <=> Leads(k, v, x)
  BY <1>1, <1>13 DEF Leads
<1>15. OneLink' /\ \A k \in Log, x \in Row : Linked(k, x)' <=> Linked(k, x)
  BY <1>14, LinksFrom DEF LogSide
<1>16. CallsBalance'
  <2> SUFFICES ASSUME NEW k \in Log, NEW x \in Row
               PROVE  (IF Listed(k, x)' THEN 1 ELSE 0) + (IF Called(k, x)' THEN 1 ELSE 0)
                              + (IF Linked(k, x)' THEN 1 ELSE 0)
                      = (IF k \in ToSet(chain[x]) THEN 1 ELSE 0)
                              + (IF k \in duplicatedLogs[x] THEN 1 ELSE 0)
    BY <1>1 DEF CallsBalance
  <2>1. (IF Listed(k, x) THEN 1 ELSE 0) + (IF Called(k, x) THEN 1 ELSE 0)
                + (IF Linked(k, x) THEN 1 ELSE 0)
        = (IF k \in ToSet(chain[x]) THEN 1 ELSE 0)
                + (IF k \in duplicatedLogs[x] THEN 1 ELSE 0)
    BY DEF LogSide, CallsBalance
  <2>2. k = serLog /\ x = u => Listed(k, x)
    BY <1>3 DEF Listed
  <2>3. /\ Listed(k, x)' <=> Listed(k, x) /\ ~(k = serLog /\ x = u)
        /\ Called(k, x)' <=> k = serLog /\ x = u
        /\ ~Called(k, x)
        /\ Linked(k, x)' <=> Linked(k, x)
    BY <1>11, <1>12, <1>13, <1>15
  <2> QED BY <2>1, <2>2, <2>3
<1> QED BY <1>6, <1>8, <1>9, <1>10, <1>15, <1>16 DEF LogSide

\* While a call has not found its sequence yet it is the one call for its
\* tablet and log, and no link is being passed on.
LEMMA SwapFacts ==
    ASSUME IInv, serStack # <<>>, SerTop.pc = "swap"
    PROVE  \A k \in Log, x \in Row :
               /\ Called(k, x) <=> k = serLog /\ x = SerTop.tab
               /\ ~Passing(k, x)
<1>1. SerTop = [tab |-> SerTop.tab, pc |-> SerTop.pc]
  BY FrameFacts DEF FrameSet
<1> QED BY <1>1 DEF Called, Passing, SerCall

\* Once its pc has another value it is none any more.
LEMMA NoCall ==
    ASSUME IInv, serStack # <<>> => SerTop.pc # "swap"
    PROVE  \A k \in Log, x \in Row : ~Called(k, x)
BY DEF Called, SerCall

LEMMA ReplaceLogLogs ==
    ASSUME IInv, LogSide, ReplaceLog
    PROVE  LogSide' /\ died' = died
<1> DEFINE t == SerTop.tab
<1>1. /\ serStack # <<>> /\ SerTop.pc = "swap"
      /\ UNCHANGED <<made, live, minRow, clonedLogs, open, group, serq, serLog, serTodo>>
  BY DEF ReplaceLog, loggerVars
<1>2. /\ t \in Row /\ serLog \in Log /\ serFrag \in Disk /\ serLog # None
  BY <1>1, FrameFacts
<1>3. /\ chain \in [Row -> Seq(Frag)] /\ duplicatedLogs \in [Row -> SUBSET Log]
      /\ None \notin Log /\ Log \cap Disk = {} /\ Log \subseteq Frag
      /\ serFrag \in Frag
  BY <1>2, LogTypes DEF Frag
<1>4. \A k \in Log, x \in Row : (Called(k, x) <=> k = serLog /\ x = t) /\ ~Passing(k, x)
  BY <1>1, SwapFacts
<1>5. /\ serLog \notin Waiting
      /\ \A k \in Log, x \in Row :
            (IF Listed(k, x) THEN 1 ELSE 0) + (IF Called(k, x) THEN 1 ELSE 0)
                + (IF Linked(k, x) THEN 1 ELSE 0)
            = (IF k \in ToSet(chain[x]) THEN 1 ELSE 0)
                + (IF k \in duplicatedLogs[x] THEN 1 ELSE 0)
  BY <1>2 DEF LogSide, LogsApart, CallsBalance
<1>6. /\ LogsApart'
      /\ \A k \in Log : k \in Waiting' <=> k \in Waiting
      /\ \A k \in Log : k \in Undone' <=> k \in Undone
      /\ \A k, m \in Log : Before(k, m)' <=> Before(k, m)
      /\ \A k \in Log, x \in Row : Listed(k, x)' <=> Listed(k, x)
  BY <1>1 DEF LogSide, LogsApart, Waiting, Undone, Before, Listed
<1>7. CASE serLog \in ToSet(chain[t])
  <2>1. /\ chain' = [chain EXCEPT ![t] = Splice(<<serFrag>>, <<serLog>>, @)]
        /\ SerGoto("mark") /\ UNCHANGED <<duplicatedLogs, died>>
    BY <1>7 DEF ReplaceLog
  <2>2. /\ StackForwarded' /\ serStack' # <<>> /\ SerTop'.tab = t /\ SerTop'.pc = "mark"
    BY <1>1, <2>1, GotoFacts DEF LogSide
  <2> HIDE DEF t
  <2>3. chain[t] \in Seq(Frag) /\ serLog \in Frag
    BY <1>2, <1>3
  <2>4. /\ Splice(<<serFrag>>, <<serLog>>, chain[t]) \in Seq(Frag)
        /\ \E i \in 1..Len(chain[t]) : ReplacedAt(serFrag, serLog, chain[t], i,
                      Splice(<<serFrag>>, <<serLog>>, chain[t]))
    <3>1. serFrag \in Frag /\ serLog \in Frag /\ chain[t] \in Seq(Frag)
          /\ serLog \in ToSet(chain[t])
      BY <1>3, <1>7, <2>3
    <3> QED BY <3>1, SpliceOne
  <2>4a. chain'[t] = Splice(<<serFrag>>, <<serLog>>, chain[t])
         /\ \A x \in Row : x # t => chain'[x] = chain[x]
    BY <1>2, <1>3, <2>1
  <2>4b. PICK i \in 1..Len(chain[t]) :
             ReplacedAt(serFrag, serLog, chain[t], i, chain'[t])
    BY <2>4, <2>4a
  <2>5. /\ chain'[t] \in Seq(Frag) /\ Len(chain'[t]) = Len(chain[t])
        /\ chain'[t][i] = serFrag
        /\ \A p \in 1..Len(chain[t]) : p # i => chain'[t][p] = chain[t][p]
        /\ \A x \in Row : x # t => chain'[x] = chain[x]
        /\ chain[t][i] = serLog
    BY <2>4, <2>4a, <2>4b DEF ReplacedAt
  <2>6. \A p, q \in 1..Len(chain[t]) : p < q /\ chain[t][p] \in Log =>
            chain[t][q] \in Log /\ Before(chain[t][p], chain[t][q])
    BY <1>2 DEF LogSide, ChainsInOrder
  <2>7. \A p \in 1..Len(chain[t]) : p < i => chain[t][p] \notin Log
    <3> SUFFICES ASSUME NEW p \in 1..Len(chain[t]), p < i, chain[t][p] \in Log
                 PROVE  FALSE
      OBVIOUS
    <3>1. Before(chain[t][p], serLog)
      BY <2>5, <2>6
    <3>2. serLog \in ToSet(serq) \cup {open}
      BY <3>1, LogTypes, InToSet DEF Before
    <3> QED BY <1>5, <3>2 DEF Waiting
  <2>8. \A p \in 1..Len(chain[t]) : p # i => chain[t][p] # serLog
    <3> SUFFICES ASSUME NEW p \in 1..Len(chain[t]), p # i, chain[t][p] = serLog
                 PROVE  FALSE
      OBVIOUS
    <3>1. i < p
      BY <1>2, <2>3, <2>7
    <3>2. Before(serLog, serLog)
      BY <1>2, <2>5, <2>6, <3>1
    <3> QED BY <3>2 DEF Before
  <2>9. \A k \in Log, x \in Row :
            k \in ToSet(chain'[x]) <=> k \in ToSet(chain[x]) /\ ~(k = serLog /\ x = t)
    <3> SUFFICES ASSUME NEW k \in Log
                 PROVE  k \in ToSet(chain'[t]) <=> k \in ToSet(chain[t]) /\ k # serLog
      BY <2>5
    <3>1. k # serFrag
      BY <1>2, <1>3
    <3>2. k \in ToSet(chain'[t]) <=> \E p \in 1..Len(chain[t]) : chain'[t][p] = k
      BY <2>5, InToSet
    <3>3. k \in ToSet(chain[t]) <=> \E p \in 1..Len(chain[t]) : chain[t][p] = k
      BY <2>3, InToSet
    <3> QED BY <2>5, <2>8, <3>1, <3>2, <3>3
  <2>10. ChainLogsUndone'
    BY <1>6, <2>9 DEF LogSide, ChainLogsUndone
  <2>11. LinksGoDown'
    BY <1>1, <1>5, <1>6, <2>9 DEF LogSide, LinksGoDown
  <2>12. \A k \in Log, x \in Row :
             ~Called(k, x)' /\ (Passing(k, x)' <=> k = serLog /\ x = t)
    BY <1>1, <2>2 DEF Called, Passing, SerCall
  <2>13. \A k \in Log, u, x \in Row : Leads(k, u, x)' <=> Leads(k, u, x)
    BY <1>1, <1>4, <1>7, <2>9, <2>12 DEF Leads
  <2>14. OneLink' /\ \A k \in Log, x \in Row : Linked(k, x)' <=> Linked(k, x)
    BY <2>13, LinksFrom DEF LogSide
  <2>15. CallsBalance'
    <3> SUFFICES ASSUME NEW k \in Log, NEW x \in Row
                 PROVE  (IF Listed(k, x)' THEN 1 ELSE 0)
                              + (IF Called(k, x)' THEN 1 ELSE 0)
                              + (IF Linked(k, x)' THEN 1 ELSE 0)
                        = (IF k \in ToSet(chain'[x]) THEN 1 ELSE 0)
                              + (IF k \in duplicatedLogs'[x] THEN 1 ELSE 0)
      BY DEF CallsBalance
    <3>1. /\ Listed(k, x)' <=> Listed(k, x)
          /\ Called(k, x) <=> k = serLog /\ x = t
          /\ ~Called(k, x)'
          /\ Linked(k, x)' <=> Linked(k, x)
          /\ k \in ToSet(chain'[x]) <=> k \in ToSet(chain[x]) /\ ~(k = serLog /\ x = t)
          /\ k = serLog /\ x = t => k \in ToSet(chain[x])
      BY <1>4, <1>6, <1>7, <2>9, <2>12, <2>14
    <3>2. (IF Listed(k, x) THEN 1 ELSE 0) + (IF Called(k, x) THEN 1 ELSE 0)
                + (IF Linked(k, x) THEN 1 ELSE 0)
            = (IF k \in ToSet(chain[x]) THEN 1 ELSE 0)
                + (IF k \in duplicatedLogs[x] THEN 1 ELSE 0)
      BY <1>5
    <3> QED BY <2>1, <3>1, <3>2
  <2>16. ChainsInOrder'
    <3> SUFFICES ASSUME NEW x \in Row, NEW a \in 1..Len(chain'[x]),
                        NEW b \in 1..Len(chain'[x]), NEW k \in Log, NEW m, a < b,
                        chain'[x][a] = k, chain'[x][b] = m
                 PROVE  m \in Log /\ Before(k, m)'
      BY OrderFrom
    <3>1. CASE x # t
      <4>1. m \in Log /\ Before(k, m)
        BY <2>5, <3>1 DEF LogSide, ChainsInOrder
      <4> QED BY <1>6, <4>1
    <3>2. CASE x = t
      <4>1. a # i /\ chain[t][a] = k
        BY <1>2, <1>3, <2>5, <3>2
      <4>2. b # i
        BY <2>5, <2>7, <3>2, <4>1
      <4>3. chain[t][b] = m
        BY <2>5, <3>2, <4>2
      <4>4. m \in Log /\ Before(k, m)
        BY <2>5, <2>6, <3>2, <4>1, <4>3
      <4> QED BY <1>6, <4>4
    <3> QED BY <3>1, <3>2
  <2> QED BY <1>6, <2>1, <2>2, <2>10, <2>11, <2>14, <2>15, <2>16 DEF LogSide
<1>8. CASE serLog \notin ToSet(chain[t])
  <2>1. /\ died' = (died \/ serLog \notin duplicatedLogs[t])
        /\ duplicatedLogs' = [duplicatedLogs EXCEPT ![t] = @ \ {serLog}]
        /\ serStack' = Tail(serStack) /\ chain' = chain
    BY <1>8 DEF ReplaceLog
  <2>2. StackForwarded' /\ (serStack' # <<>> => SerTop'.pc = "dag")
    BY <1>1, <2>1, PopFacts DEF LogSide
  <2>3. \A k \in Log, x \in Row : ~Called(k, x)' /\ ~Passing(k, x)'
    BY <2>2 DEF Called, Passing, SerCall
  <2> HIDE DEF t
  <2>4. \A k \in Log, x \in Row :
            k \in duplicatedLogs'[x] <=> k \in duplicatedLogs[x] /\ ~(k = serLog /\ x = t)
    BY <1>2, <1>3, <2>1
  <2>5. \A k \in Log, u, x \in Row : Leads(k, u, x)' <=> Leads(k, u, x)
    BY <1>1, <1>4, <2>1, <2>3 DEF Leads
  <2>6. OneLink' /\ \A k \in Log, x \in Row : Linked(k, x)' <=> Linked(k, x)
    BY <2>5, LinksFrom DEF LogSide
  <2>7. serLog \in duplicatedLogs[t]
    <3>1. Called(serLog, t)
      BY <1>2, <1>4
    <3>2. (IF Listed(serLog, t) THEN 1 ELSE 0) + (IF Called(serLog, t) THEN 1 ELSE 0)
                + (IF Linked(serLog, t) THEN 1 ELSE 0)
          = (IF serLog \in ToSet(chain[t]) THEN 1 ELSE 0)
                + (IF serLog \in duplicatedLogs[t] THEN 1 ELSE 0)
      BY <1>2, <1>5
    <3> QED BY <1>8, <3>1, <3>2
  <2>8. died' = died
    BY <2>1, <2>7 DEF IInv, BaseTypes
  <2>9. CallsBalance'
    <3> SUFFICES ASSUME NEW k \in Log, NEW x \in Row
                 PROVE  (IF Listed(k, x)' THEN 1 ELSE 0)
                              + (IF Called(k, x)' THEN 1 ELSE 0)
                              + (IF Linked(k, x)' THEN 1 ELSE 0)
                        = (IF k \in ToSet(chain[x]) THEN 1 ELSE 0)
                              + (IF k \in duplicatedLogs'[x] THEN 1 ELSE 0)
      BY <2>1 DEF CallsBalance
    <3>1. /\ Listed(k, x)' <=> Listed(k, x)
          /\ Called(k, x) <=> k = serLog /\ x = t
          /\ ~Called(k, x)'
          /\ Linked(k, x)' <=> Linked(k, x)
          /\ k \in duplicatedLogs'[x]
                <=> k \in duplicatedLogs[x] /\ ~(k = serLog /\ x = t)
          /\ k = serLog /\ x = t => k \in duplicatedLogs[x]
      BY <1>4, <1>6, <2>3, <2>4, <2>6, <2>7
    <3>2. (IF Listed(k, x) THEN 1 ELSE 0) + (IF Called(k, x) THEN 1 ELSE 0)
                + (IF Linked(k, x) THEN 1 ELSE 0)
            = (IF k \in ToSet(chain[x]) THEN 1 ELSE 0)
                + (IF k \in duplicatedLogs[x] THEN 1 ELSE 0)
      BY <1>5
    <3> QED BY <3>1, <3>2
  <2>10. ChainLogsUndone' /\ LinksGoDown'
    BY <1>1, <1>6, <2>1 DEF LogSide, ChainLogsUndone, LinksGoDown
  <2>11. ChainsInOrder'
    <3> SUFFICES ASSUME NEW x \in Row, NEW a \in 1..Len(chain[x]),
                        NEW b \in 1..Len(chain[x]), NEW k \in Log, NEW m, a < b,
                        chain[x][a] = k, chain[x][b] = m
                 PROVE  m \in Log /\ Before(k, m)'
      BY <2>1, OrderFrom
    <3>1. m \in Log /\ Before(k, m)
      BY DEF LogSide, ChainsInOrder
    <3> QED BY <1>6, <3>1
  <2> QED BY <1>6, <2>2, <2>6, <2>8, <2>9, <2>10, <2>11 DEF LogSide
<1> QED BY <1>7, <1>8

LEMMA ForwardToCloneLogs == ASSUME IInv, LogSide, ForwardToClone PROVE LogSide'
<1> DEFINE t == SerTop.tab
           u == clonedLogs[t][serLog]
           x == [SerTop EXCEPT !.pc = "dag"]
           rest == <<x>> \o Tail(serStack)
<1>1. /\ serStack # <<>> /\ SerTop.pc = "forward"
      /\ serStack' = IF u = None THEN rest ELSE <<SerCall(u)>> \o rest
      /\ clonedLogs' = [clonedLogs EXCEPT ![t][serLog] = None]
      /\ UNCHANGED <<made, live, minRow, chain, duplicatedLogs, open, group,
                     serq, serLog, serTodo>>
  BY DEF ForwardToClone, trackerVars, loggerVars
<1>2. /\ t \in Row /\ serLog \in Log /\ serLog # None
      /\ Tail(serStack) \in Seq(FrameSet(live)) /\ SerTop \in FrameSet(live)
  BY <1>1, FrameFacts
<1>3. /\ clonedLogs \in [Row -> [Log -> live \cup {None}]] /\ live \subseteq Row
      /\ None \notin Row /\ serStack \in Seq(FrameSet(live))
  BY LogTypes
<1>4. /\ clonedLogs'[t][serLog] = None
      /\ \A v \in Row, k \in Log : ~(v = t /\ k = serLog) =>
             clonedLogs'[v][k] = clonedLogs[v][k]
  BY <1>1, <1>2, <1>3
<1>5. u = None \/ (u \in live /\ u \in Row)
  BY <1>2, <1>3
<1>6. StackForwarded
  BY DEF LogSide
<1>7. /\ StackForwarded' /\ serStack' # <<>>
      /\ \A k \in Log, y \in Row :
            /\ Called(k, y)' <=> u # None /\ k = serLog /\ y = u
            /\ ~Passing(k, y)'
  <2>1. CASE u = None
    <3>1. SerGoto("dag")
      BY <1>1, <2>1 DEF SerGoto
    <3>2. StackForwarded' /\ serStack' # <<>> /\ SerTop'.pc = "dag"
      BY <1>1, <1>6, <3>1, GotoFacts
    <3> HIDE DEF u
    <3> QED BY <2>1, <3>2 DEF Called, Passing, SerCall
  <2>2. CASE u # None
    <3>1. x \in FrameSet(live) /\ x.pc = "dag"
      BY <1>2 DEF FrameSet
    <3> HIDE DEF x
    <3>2. /\ rest \in Seq(FrameSet(live)) /\ Len(rest) = Len(serStack)
          /\ Len(serStack) \in Nat
          /\ \A i \in 1..Len(rest) : rest[i].pc = "dag"
      <4>1. <<x>> \in Seq(FrameSet(live)) /\ Len(<<x>>) = 1 /\ <<x>>[1] = x
        BY <3>1
      <4>2. /\ Len(Tail(serStack)) = Len(serStack) - 1 /\ Len(serStack) \in Nat \ {0}
            /\ \A i \in 1..(Len(serStack) - 1) : Tail(serStack)[i] = serStack[i + 1]
        BY <1>1, <1>3
      <4>3. rest \in Seq(FrameSet(live)) /\ Len(rest) = Len(serStack)
        BY <1>2, <4>1, <4>2
      <4>4. rest[1] = x
        BY <1>2, <4>1
      <4>5. ASSUME NEW i \in 2..Len(serStack) PROVE rest[i] = serStack[i]
        <5>1. /\ i - 1 \in 1..Len(Tail(serStack)) /\ i - 1 + 1 = i
              /\ i \in 2..(1 + Len(Tail(serStack)))
          BY <4>2
        <5>2. rest[i] = Tail(serStack)[i - 1]
          BY <1>2, <4>1, <5>1
        <5>3. Tail(serStack)[i - 1] = serStack[i - 1 + 1]
          BY <4>2, <5>1
        <5> QED BY <5>1, <5>2, <5>3
      <4>6. \A i \in 1..Len(rest) : i = 1 \/ i \in 2..Len(serStack)
        BY <4>2, <4>3
      <4> QED BY <1>6, <3>1, <4>2, <4>3, <4>4, <4>5, <4>6 DEF StackForwarded
    <3> HIDE DEF rest
    <3>3. serStack' = <<SerCall(u)>> \o rest
      BY <1>1, <2>2
    <3> DEFINE c == SerCall(u)
    <3>4. c \in FrameSet(live) /\ c.tab = u /\ c.pc = "swap" /\ c = SerCall(u)
      BY <1>5, <2>2 DEF SerCall, FrameSet
    <3> HIDE DEF c
    <3>5. <<c>> \in Seq(FrameSet(live)) /\ Len(<<c>>) = 1 /\ <<c>>[1] = c
      BY <3>4
    <3>6. /\ serStack' = <<c>> \o rest /\ serStack' \in Seq(FrameSet(live))
          /\ Len(serStack') = Len(rest) + 1 /\ serStack'[1] = c
      BY <3>2, <3>3, <3>4, <3>5
    <3>7. ASSUME NEW i \in 2..Len(serStack') PROVE serStack'[i].pc = "dag"
      <4>1. i - 1 \in 1..Len(rest) /\ i \in 2..(1 + Len(rest))
        BY <3>2, <3>6
      <4>2. serStack'[i] = rest[i - 1]
        BY <3>2, <3>5, <3>6, <4>1
      <4> QED BY <3>2, <4>1, <4>2
    <3>8. SerTop' = c /\ serStack' # <<>>
      BY <3>2, <3>6 DEF SerTop
    <3>9. StackForwarded'
      BY <3>7 DEF StackForwarded
    <3>10. ASSUME NEW y \in Row PROVE SerCall(y) = c <=> y = u
      BY <3>4 DEF SerCall
    <3> HIDE DEF u
    <3> QED BY <1>1, <2>2, <3>4, <3>8, <3>9, <3>10 DEF Called, Passing
  <2> QED BY <2>1, <2>2
<1> HIDE DEF x, rest, t
<1>8. u = clonedLogs[t][serLog]
  OBVIOUS
<1> HIDE DEF u
<1>9. \A k \in Log, y \in Row : ~Called(k, y) /\ (Passing(k, y) <=> k = serLog /\ y = t)
  BY <1>1, <1>2 DEF Called, Passing, SerCall, t
<1>10. \A k \in Log, v, y \in Row :
           Leads(k, v, y)' <=> Leads(k, v, y) /\ ~(k = serLog /\ v = t)
  <2> SUFFICES ASSUME NEW k \in Log, NEW v \in Row, NEW y \in Row
               PROVE  Leads(k, v, y)' <=> Leads(k, v, y) /\ ~(k = serLog /\ v = t)
    OBVIOUS
  <2>1. CASE k = serLog /\ v = t
    <3>1. clonedLogs'[v][k] # y
      BY <1>3, <1>4, <2>1
    <3> QED BY <2>1, <3>1 DEF Leads
  <2>2. CASE ~(k = serLog /\ v = t)
    <3>1. clonedLogs'[v][k] = clonedLogs[v][k]
      BY <1>4, <2>2
    <3>2. ~Passing(k, v) /\ ~Passing(k, v)'
      BY <1>7, <1>9, <2>2
    <3> QED BY <1>1, <2>2, <3>1, <3>2 DEF Leads
  <2> QED BY <2>1, <2>2
<1>11. u # None => Leads(serLog, t, u) /\ \A y \in Row : Leads(serLog, t, y) => y = u
  BY <1>2, <1>8, <1>9 DEF Leads
<1>12. u = None => \A y \in Row : ~Leads(serLog, t, y)
  BY <1>3, <1>8 DEF Leads
<1>13. OneLink'
  BY <1>10 DEF LogSide, OneLink
<1>14. \A k \in Log, y \in Row :
           Linked(k, y)' <=> Linked(k, y) /\ ~(u # None /\ k = serLog /\ y = u)
  <2> SUFFICES ASSUME NEW k \in Log, NEW y \in Row
               PROVE  Linked(k, y)'
                          <=> Linked(k, y) /\ ~(u # None /\ k = serLog /\ y = u)
    OBVIOUS
  <2>1. CASE u # None /\ k = serLog /\ y = u
    <3>1. \A v \in Row : Leads(k, v, y) => v = t
      BY <1>2, <1>11, <2>1 DEF LogSide, OneLink
    <3>2. \A v \in Row : ~Leads(k, v, y)'
      BY <1>10, <2>1, <3>1
    <3> QED BY <2>1, <3>2 DEF Linked
  <2>2. CASE ~(u # None /\ k = serLog /\ y = u)
    <3>1. k = serLog => ~Leads(k, t, y)
      BY <1>11, <1>12, <2>2
    <3>2. \A v \in Row : Leads(k, v, y)' <=> Leads(k, v, y)
      BY <1>10, <3>1
    <3> QED BY <2>2, <3>2 DEF Linked
  <2> QED BY <2>1, <2>2
<1>15. \A k \in Log, y \in Row : Listed(k, y)' <=> Listed(k, y)
  BY <1>1 DEF Listed, Waiting
<1>16. CallsBalance'
  <2> SUFFICES ASSUME NEW k \in Log, NEW y \in Row
               PROVE  (IF Listed(k, y)' THEN 1 ELSE 0) + (IF Called(k, y)' THEN 1 ELSE 0)
                              + (IF Linked(k, y)' THEN 1 ELSE 0)
                      = (IF k \in ToSet(chain[y]) THEN 1 ELSE 0)
                              + (IF k \in duplicatedLogs[y] THEN 1 ELSE 0)
    BY <1>1 DEF CallsBalance
  <2>1. (IF Listed(k, y) THEN 1 ELSE 0) + (IF Called(k, y) THEN 1 ELSE 0)
                + (IF Linked(k, y) THEN 1 ELSE 0)
        = (IF k \in ToSet(chain[y]) THEN 1 ELSE 0)
                + (IF k \in duplicatedLogs[y] THEN 1 ELSE 0)
    BY DEF LogSide, CallsBalance
  <2>2. u # None /\ k = serLog /\ y = u => Linked(k, y)
    BY <1>2, <1>11 DEF Linked
  <2>3. /\ Listed(k, y)' <=> Listed(k, y)
        /\ ~Called(k, y)
        /\ Called(k, y)' <=> (u # None /\ k = serLog /\ y = u)
        /\ Linked(k, y)' <=> Linked(k, y) /\ ~(u # None /\ k = serLog /\ y = u)
    BY <1>7, <1>9, <1>14, <1>15
  <2> QED BY <2>1, <2>2, <2>3
<1>17. LogsApart' /\ ChainLogsUndone'
  BY <1>1 DEF LogSide, LogsApart, ChainLogsUndone, Waiting, Undone
<1>18. ChainsInOrder'
  BY <1>1 DEF LogSide, ChainsInOrder, Before
<1>19. LinksGoDown'
  <2> SUFFICES ASSUME NEW v \in Row, NEW k \in Log, clonedLogs'[v][k] # None
               PROVE  /\ v \in live /\ clonedLogs[v][k] <= minRow[v] /\ k \in made
                      /\ k \in Waiting => k \in ToSet(chain[v])
                      /\ clonedLogs'[v][k] = clonedLogs[v][k]
    BY <1>1 DEF LinksGoDown, Waiting
  <2>1. clonedLogs'[v][k] = clonedLogs[v][k]
    BY <1>4
  <2> QED BY <2>1 DEF LogSide, LinksGoDown
<1> QED BY <1>7, <1>13, <1>16, <1>17, <1>18, <1>19 DEF LogSide

\* When every tablet has been told, no chain has the log: of the tablets that
\* had it the one with the highest rows would be called through a link of a
\* tablet above it, which has the log too.
LEMMA NoChainHasLog ==
    ASSUME IInv, LogSide, serLog # None, serStack = <<>>, serTodo = <<>>
    PROVE  \A x \in Row : serLog \notin ToSet(chain[x])
<1> DEFINE D == {n \in Nat : \E x \in Row : n = NRows - x /\ serLog \in ToSet(chain[x])}
<1>1. serLog \in Log /\ NRows \in Nat
  BY TabletAssumption DEF IInv, BaseTypes
<1>2. \A k \in Log, x \in Row : ~Called(k, x) /\ ~Passing(k, x)
  BY DEF Called, Passing
<1>3. \A x \in Row : ~Listed(serLog, x)
  BY DEF Listed, ToSet
<1>4. ASSUME D # {} PROVE FALSE
  <2>1. D \in SUBSET Nat
    OBVIOUS
  <2> HIDE DEF D
  <2>2. PICK n \in D : \A m \in D : n <= m
    BY <1>4, <2>1, LeastNat
  <2>3. PICK x \in Row : n = NRows - x /\ serLog \in ToSet(chain[x])
    BY <2>2 DEF D
  <2>4. (IF Listed(serLog, x) THEN 1 ELSE 0) + (IF Called(serLog, x) THEN 1 ELSE 0)
                + (IF Linked(serLog, x) THEN 1 ELSE 0)
        = (IF serLog \in ToSet(chain[x]) THEN 1 ELSE 0)
                + (IF serLog \in duplicatedLogs[x] THEN 1 ELSE 0)
    BY <1>1 DEF LogSide, CallsBalance
  <2>5. Linked(serLog, x)
    BY <1>1, <1>2, <1>3, <2>3, <2>4
  <2>6. PICK u \in Row : clonedLogs[u][serLog] = x /\ serLog \in ToSet(chain[u])
    BY <1>1, <1>2, <2>5 DEF Linked, Leads
  <2>7. u \in live /\ x <= minRow[u]
    <3>1. clonedLogs[u][serLog] # None
      BY <2>6, LogTypes
    <3> QED BY <1>1, <2>6, <3>1 DEF LogSide, LinksGoDown
  <2>8. minRow[u] < u /\ minRow[u] \in Nat
    BY <2>7 DEF IInv, BaseTypes, TabletsPartitionRows
  <2>9. NRows - u \in Nat /\ NRows - u < n
    BY <1>1, <2>3, <2>7, <2>8 DEF Row
  <2>10. NRows - u \in D
    BY <2>6, <2>9 DEF D
  <2>11. n \in Nat
    BY <2>1
  <2> QED BY <2>2, <2>9, <2>10, <2>11
<1>5. ASSUME NEW x \in Row, serLog \in ToSet(chain[x]) PROVE NRows - x \in D
  <2>1. NRows - x \in Nat
    BY <1>1 DEF Row
  <2> QED BY <1>5, <2>1
<1> QED BY <1>4, <1>5

LEMMA SerializeEndLogs == ASSUME IInv, LogSide, SerializeEnd PROVE LogSide'
<1>1. /\ serLog # None /\ serStack = <<>> /\ serTodo = <<>>
      /\ serLog' = None /\ serStack' = <<>> /\ serTodo' = <<>>
      /\ UNCHANGED <<made, live, minRow, chain, clonedLogs, duplicatedLogs, open,
                     group, serq>>
  BY DEF SerializeEnd, tabletVars, loggerVars
<1>2. /\ serLog \in Log /\ None \notin Log
  BY <1>1, LogTypes
<1>3. \A x \in Row : serLog \notin ToSet(chain[x])
  BY <1>1, NoChainHasLog
<1>4. /\ \A k \in Log : k \in Waiting' <=> k \in Waiting
      /\ \A k \in Log : k \in Undone' <=> k \in Undone /\ k # serLog
      /\ serLog \notin Waiting
  BY <1>1, <1>2 DEF LogSide, LogsApart, Waiting, Undone
<1>5. LogsApart'
  BY <1>1 DEF LogSide, LogsApart, Waiting, Undone
<1>6. StackForwarded'
  BY <1>1 DEF StackForwarded
<1>7. ChainLogsUndone'
  BY <1>1, <1>3, <1>4 DEF LogSide, ChainLogsUndone
<1>8. LinksGoDown'
  BY <1>1, <1>4 DEF LogSide, LinksGoDown
<1>9. \A k \in Log, x \in Row : /\ ~Called(k, x) /\ ~Called(k, x)'
                                /\ ~Passing(k, x) /\ ~Passing(k, x)'
  BY <1>1 DEF Called, Passing
<1>10. \A k \in Log, x \in Row : Listed(k, x)' <=> Listed(k, x)
  <2>1. ToSet(serTodo) = {}
    BY <1>1 DEF ToSet
  <2> QED BY <1>1, <1>2, <1>4, <2>1 DEF Listed
<1>11. \A k \in Log, u, x \in Row : Leads(k, u, x)' <=> Leads(k, u, x)
  BY <1>1, <1>9 DEF Leads
<1>12. OneLink' /\ \A k \in Log, x \in Row : Linked(k, x)' <=> Linked(k, x)
  BY <1>11, LinksFrom DEF LogSide
<1>13. CallsBalance'
  BY <1>1, <1>9, <1>10, <1>12, BalanceFrom DEF LogSide
<1>14. ChainsInOrder'
  <2> SUFFICES ASSUME NEW x \in Row, NEW i \in 1..Len(chain[x]),
                      NEW j \in 1..Len(chain[x]), NEW k \in Log, NEW m, i < j,
                      chain[x][i] = k, chain[x][j] = m
               PROVE  m \in Log /\ Before(k, m)'
    BY <1>1, OrderFrom
  <2>1. m \in Log /\ Before(k, m)
    BY DEF LogSide, ChainsInOrder
  <2>2. k # serLog
    BY <1>3 DEF ToSet
  <2> QED BY <1>1, <2>1, <2>2 DEF Before
<1> QED BY <1>5, <1>6, <1>7, <1>8, <1>12, <1>13, <1>14 DEF LogSide

-----------------------------------------------------------------------------
(* The compact thread and the split, on the logs' side.                    *)

\* What is behind the first log of c is what is behind the first log of ch,
\* where a run of n was replaced by one of m.
LogsMoved(ch, c, n, m) ==
    /\ \A a \in 1..Len(c) : c[a] \in Log => \A b \in a..Len(c) :
           b - m + n \in 1..Len(ch) /\ c[b] = ch[b - m + n]
    /\ \A p \in 1..Len(ch) : ch[p] \in Log =>
           p - n + m \in 1..Len(c) /\ c[p - n + m] = ch[p]

\* No disk fragment is behind a log.
LogsBehind(ch) == \A p, q \in 1..Len(ch) : p < q /\ ch[p] \in Log => ch[q] \in Log

\* Splicing a run of disk fragments into a chain: what is behind its first log
\* is moved as a whole, and no log is lost.
LEMMA SpliceKeepsLogs ==
    ASSUME NEW new \in Seq(Disk), NEW run \in Seq(Disk), NEW ch \in Seq(Frag),
           NEW c \in Seq(Frag), NEW i \in Nat, Len(run) > 1, Log \cap Disk = {},
           LogsBehind(ch), SplicedAt(new, run, ch, i, c)
    PROVE  LogsMoved(ch, c, Len(run), Len(new))
<1> DEFINE n == Len(run)  m == Len(new)  T == Len(ch)
<1>1. /\ i \in 1..T /\ i + n - 1 <= T
      /\ \A k \in 1..n : ch[i + k - 1] = run[k]
      /\ Len(c) = T - n + m
      /\ \A p \in 1..(i - 1) : c[p] = ch[p]
      /\ \A k \in 1..m : c[i - 1 + k] = new[k]
      /\ \A p \in (i + m)..(T - n + m) : c[p] = ch[p - m + n]
  BY DEF SplicedAt
<1>2. n \in Nat /\ m \in Nat /\ T \in Nat /\ n > 1 /\ Len(c) \in Nat
  OBVIOUS
<1>3. /\ \A k \in 1..n : run[k] \notin Log
      /\ \A k \in 1..m : new[k] \notin Log
  OBVIOUS
<1> HIDE DEF n, m, T
<1>4. ch[i] \notin Log
  <2>1. 1 \in 1..n /\ i + 1 - 1 = i
    BY <1>1, <1>2
  <2>2. ch[i + 1 - 1] = run[1]
    BY <1>1, <2>1
  <2> QED BY <1>3, <2>1, <2>2
<1>5. \A p \in 1..T : p < i => ch[p] \notin Log
  BY <1>1, <1>4 DEF T, LogsBehind
<1>6. \A p \in i..(i + n - 1) : ch[p] \notin Log
  <2> SUFFICES ASSUME NEW p \in i..(i + n - 1) PROVE ch[p] \notin Log
    OBVIOUS
  <2>1. p - i + 1 \in 1..n /\ i + (p - i + 1) - 1 = p
    BY <1>1, <1>2
  <2>2. ch[i + (p - i + 1) - 1] = run[p - i + 1]
    BY <1>1, <2>1
  <2> QED BY <1>3, <2>1, <2>2
<1>7. \A p \in i..(i + m - 1) : c[p] \notin Log
  <2> SUFFICES ASSUME NEW p \in i..(i + m - 1) PROVE c[p] \notin Log
    OBVIOUS
  <2>1. p - i + 1 \in 1..m /\ i - 1 + (p - i + 1) = p
    BY <1>1, <1>2
  <2>2. c[i - 1 + (p - i + 1)] = new[p - i + 1]
    BY <1>1, <2>1
  <2> QED BY <1>3, <2>1, <2>2
<1>8. ASSUME NEW a \in 1..Len(c), c[a] \in Log, NEW b \in a..Len(c)
      PROVE  b - m + n \in 1..T /\ c[b] = ch[b - m + n]
  <2>1. ~(a < i)
    <3> SUFFICES ASSUME a < i PROVE FALSE
      OBVIOUS
    <3>1. a \in 1..(i - 1) /\ a \in 1..T
      BY <1>1, <1>2
    <3> QED BY <1>1, <1>5, <1>8, <3>1
  <2>2. a \notin i..(i + m - 1)
    BY <1>7, <1>8
  <2>3. b \in (i + m)..(T - n + m)
    BY <1>1, <1>2, <2>1, <2>2
  <2>4. b - m + n \in 1..T
    BY <1>1, <1>2, <2>3
  <2> QED BY <1>1, <2>3, <2>4
<1>9. ASSUME NEW p \in 1..T, ch[p] \in Log
      PROVE  p - n + m \in 1..Len(c) /\ c[p - n + m] = ch[p]
  <2>1. ~(p < i)
    BY <1>5, <1>9
  <2>2. p \notin i..(i + n - 1)
    BY <1>6, <1>9
  <2>3. PICK q \in Int : q = p - n + m
    BY <1>2
  <2>4. q \in (i + m)..(T - n + m) /\ q - m + n = p
    BY <1>1, <1>2, <2>1, <2>2, <2>3
  <2>5. q \in 1..Len(c)
    BY <1>1, <1>2, <2>4
  <2>6. c[q] = ch[q - m + n]
    BY <1>1, <2>4
  <2> QED BY <2>3, <2>4, <2>5, <2>6
<1>10. LogsMoved(ch, c, n, m)
  BY <1>8, <1>9 DEF LogsMoved, T
<1> QED BY <1>10 DEF n, m

\* The run that is replaced is there.
LEMMA ReplaceRunFacts ==
    ASSUME IInv, RunSide, NEW t \in Row, ReplaceRun(t)
    PROVE  /\ t \in compTodo /\ died' = died /\ compPc = "replace" /\ compPc' = "mark"
           /\ \E new \in Seq(Disk), i \in Nat :
                  /\ ToSet(new) \subseteq {compOut} \ {None}
                  /\ SplicedAt(new, compRun, chain[t], i, chain'[t])
                  /\ dag' = [dag EXCEPT ![t] = (@ \ ToSet(compRun)) \cup ToSet(new)]
           /\ chain'[t] \in Seq(Frag)
           /\ \A x \in Row : x # t => chain'[x] = chain[x]
<1> DEFINE new == IF compOut = None THEN <<>> ELSE <<compOut>>
<1>1. /\ t \in compTodo /\ compPc = "replace" /\ Matches(compRun, chain[t]) # {}
      /\ compRun \in Seq(Disk)
  BY DEF ReplaceRun, RunSide, RunInChains
<1>2. /\ chain' = [chain EXCEPT ![t] = Splice(new, compRun, @)]
      /\ dag' = [dag EXCEPT ![t] = (@ \ ToSet(compRun)) \cup ToSet(new)]
      /\ died' = died /\ compPc' = "mark"
  BY <1>1 DEF ReplaceRun
<1>3. new \in Seq(Disk) /\ ToSet(new) \subseteq {compOut} \ {None}
  <2>1. compOut \in Disk \cup {None}
    BY DEF IInv, BaseTypes
  <2>2. CASE compOut = None
    BY <2>2 DEF ToSet
  <2>3. CASE compOut # None
    BY <2>1, <2>3, ToSetOne
  <2> QED BY <2>2, <2>3
<1> HIDE DEF new
<1>4. /\ new \in Seq(Frag) /\ compRun \in Seq(Frag) /\ chain[t] \in Seq(Frag)
      /\ chain \in [Row -> Seq(Frag)]
  BY <1>1, <1>3, SeqGrows DEF IInv, BaseTypes, Frag
<1>5. /\ Splice(new, compRun, chain[t]) \in Seq(Frag)
      /\ \E i \in Nat : SplicedAt(new, compRun, chain[t], i,
                                  Splice(new, compRun, chain[t]))
  BY <1>1, <1>4, SpliceFacts
<1>6. /\ chain'[t] = Splice(new, compRun, chain[t])
      /\ \A x \in Row : x # t => chain'[x] = chain[x]
  BY <1>2, <1>4
<1> QED BY <1>1, <1>2, <1>3, <1>5, <1>6

LEMMA ReplaceRunLogs ==
    ASSUME IInv, LogSide, RunSide, NEW t \in Row, ReplaceRun(t)
    PROVE  LogSide' /\ died' = died
<1>1. /\ died' = died /\ chain'[t] \in Seq(Frag) /\ compPc = "replace"
      /\ \A x \in Row : x # t => chain'[x] = chain[x]
  BY ReplaceRunFacts
<1>2. PICK new \in Seq(Disk), i \in Nat :
          SplicedAt(new, compRun, chain[t], i, chain'[t])
  BY ReplaceRunFacts
<1>3. UNCHANGED <<made, live, minRow, clonedLogs, duplicatedLogs, open, group, serq,
                  serLog, serTodo, serStack>>
  BY DEF ReplaceRun, loggerVars, serVars
<1>4. /\ compRun \in Seq(Disk) /\ Len(compRun) > 1 /\ chain[t] \in Seq(Frag)
      /\ Log \cap Disk = {}
  BY <1>1, LogTypes DEF RunSide, RunInChains
<1>5. \A p, q \in 1..Len(chain[t]) : p < q /\ chain[t][p] \in Log =>
          chain[t][q] \in Log /\ Before(chain[t][p], chain[t][q])
  BY DEF LogSide, ChainsInOrder
<1> DEFINE n == Len(compRun)  m == Len(new)
<1>6. /\ \A a \in 1..Len(chain'[t]) : chain'[t][a] \in Log =>
             \A b \in a..Len(chain'[t]) :
                  b - m + n \in 1..Len(chain[t]) /\ chain'[t][b] = chain[t][b - m + n]
      /\ \A p \in 1..Len(chain[t]) : chain[t][p] \in Log =>
             p - n + m \in 1..Len(chain'[t]) /\ chain'[t][p - n + m] = chain[t][p]
  <2>1. LogsBehind(chain[t])
    BY <1>5 DEF LogsBehind
  <2>2. LogsMoved(chain[t], chain'[t], n, m)
    BY <1>1, <1>2, <1>4, <2>1, SpliceKeepsLogs
  <2> HIDE DEF n, m
  <2> QED BY <2>2 DEF LogsMoved
<1>7. n \in Nat /\ m \in Nat
  BY <1>4
<1> HIDE DEF n, m
<1>8. \A k \in Log, x \in Row : k \in ToSet(chain'[x]) <=> k \in ToSet(chain[x])
  <2> SUFFICES ASSUME NEW k \in Log
               PROVE  k \in ToSet(chain'[t]) <=> k \in ToSet(chain[t])
    BY <1>1
  <2>1. ASSUME k \in ToSet(chain'[t]) PROVE k \in ToSet(chain[t])
    <3>1. PICK a \in 1..Len(chain'[t]) : chain'[t][a] = k
      BY <1>1, <2>1, InToSet
    <3>2. a \in a..Len(chain'[t])
      OBVIOUS
    <3>3. a - m + n \in 1..Len(chain[t]) /\ chain[t][a - m + n] = k
      BY <1>6, <3>1, <3>2
    <3> QED BY <1>4, <3>3, InToSet
  <2>2. ASSUME k \in ToSet(chain[t]) PROVE k \in ToSet(chain'[t])
    <3>1. PICK p \in 1..Len(chain[t]) : chain[t][p] = k
      BY <1>4, <2>2, InToSet
    <3>2. p - n + m \in 1..Len(chain'[t]) /\ chain'[t][p - n + m] = k
      BY <1>6, <3>1
    <3> QED BY <1>1, <3>2, InToSet
  <2> QED BY <2>1, <2>2
<1>9. LogsApart' /\ StackForwarded'
  BY <1>3 DEF LogSide, LogsApart, StackForwarded, Waiting, Undone
<1>10. ChainLogsUndone'
  BY <1>3, <1>8 DEF LogSide, ChainLogsUndone, Undone, Waiting
<1>11. LinksGoDown'
  BY <1>3, <1>8 DEF LogSide, LinksGoDown, Waiting
<1>12. \A k \in Log, x \in Row : /\ Listed(k, x)' <=> Listed(k, x)
                                 /\ Called(k, x)' <=> Called(k, x)
                                 /\ Passing(k, x)' <=> Passing(k, x)
  BY <1>3 DEF Listed, Called, Passing, Waiting, SerTop
<1>13. \A k \in Log, u, x \in Row : Leads(k, u, x)' <=> Leads(k, u, x)
  BY <1>3, <1>8, <1>12 DEF Leads
<1>14. OneLink' /\ \A k \in Log, x \in Row : Linked(k, x)' <=> Linked(k, x)
  BY <1>13, LinksFrom DEF LogSide
<1>15. CallsBalance'
  BY <1>3, <1>8, <1>12, <1>14, BalanceFrom DEF LogSide
<1>16. ChainsInOrder'
  <2> SUFFICES ASSUME NEW x \in Row, NEW a \in 1..Len(chain'[x]),
                      NEW b \in 1..Len(chain'[x]), NEW k \in Log, NEW l, a < b,
                      chain'[x][a] = k, chain'[x][b] = l
               PROVE  l \in Log /\ Before(k, l)'
    BY OrderFrom
  <2>1. l \in Log /\ Before(k, l)
    <3>1. CASE x # t
      BY <1>1, <3>1 DEF LogSide, ChainsInOrder
    <3>2. CASE x = t
      <4>1. a \in a..Len(chain'[t]) /\ b \in a..Len(chain'[t]) /\ a \in 1..Len(chain'[t])
        BY <3>2
      <4>2. /\ a - m + n \in 1..Len(chain[t]) /\ k = chain[t][a - m + n]
            /\ b - m + n \in 1..Len(chain[t]) /\ l = chain[t][b - m + n]
        BY <1>6, <3>2, <4>1
      <4>3. a - m + n < b - m + n
        BY <1>7
      <4> QED BY <1>5, <4>2, <4>3
    <3> QED BY <3>1, <3>2
  <2> QED BY <1>3, <2>1 DEF Before
<1> QED BY <1>1, <1>9, <1>10, <1>11, <1>14, <1>15, <1>16 DEF LogSide

\* What a split does to the tablets t, which keeps the upper rows, and r.
LEMMA SplitFacts ==
    ASSUME IInv, NEW r \in Row, NEW t, t = job.tab, SplitTablet(r)
    PROVE  /\ t \in live /\ t \in Row /\ r \notin live /\ live' = live \cup {r}
           /\ minRow[t] < r /\ r < t
           /\ minRow'[t] = r /\ minRow'[r] = minRow[t]
           /\ \A x \in Row : x \notin {r, t} => minRow'[x] = minRow[x]
           /\ \A x \in Row : chain'[x] = chain[IF x = r THEN t ELSE x]
           /\ \A l \in Log : clonedLogs'[r][l] = clonedLogs[t][l]
           /\ \A l \in Log : clonedLogs'[t][l] =
                  IF l \in ToSet(chain[t]) THEN r ELSE clonedLogs[t][l]
           /\ \A x \in Row : x \notin {r, t} => clonedLogs'[x] = clonedLogs[x]
           /\ dag' = [dag EXCEPT ![r] = ToSet(chain[t]) \ Log]
           /\ UNCHANGED <<made, duplicatedLogs, open, group, serq, serLog, serTodo,
                          serStack, compPc, compRun, compRows, compTodo, compOut, died>>
           /\ DagFree
<1>1. t \in live /\ t \in Row
  BY DEF IInv, BaseTypes, KnownTablets, SplitTablet, Lull, JobSet
<1>2. /\ minRow[t] < r /\ r < t /\ live' = live \cup {r}
      /\ minRow' = SplitRows(t, r)
      /\ chain' = [chain EXCEPT ![r] = chain[t]]
      /\ clonedLogs' = [clonedLogs EXCEPT
             ![r] = clonedLogs[t],
             ![t] = [l \in Log |-> IF l \in ToSet(chain[t]) \cap Log THEN r ELSE @[l]]]
      /\ dag' = [dag EXCEPT ![r] = ToSet(chain[t]) \ Log]
      /\ DagFree
  BY DEF SplitTablet, WithClone
<1>3. UNCHANGED <<made, duplicatedLogs, open, group, serq, serLog, serTodo,
                  serStack, compPc, compRun, compRows, compTodo, compOut, died>>
  BY DEF SplitTablet, loggerVars, serVars, compVars
<1>4. r \notin live /\ r # t
  BY <1>1, <1>2, NewBoundary DEF IInv
<1>5. /\ chain \in [Row -> Seq(Frag)] /\ minRow \in [Row -> 0..NRows]
      /\ clonedLogs \in [Row -> [Log -> live \cup {None}]]
  BY LogTypes
<1>6. /\ minRow'[t] = r /\ minRow'[r] = minRow[t]
      /\ \A x \in Row : x \notin {r, t} => minRow'[x] = minRow[x]
  BY <1>1, <1>2, <1>4, <1>5 DEF SplitRows
<1>7. \A x \in Row : chain'[x] = chain[IF x = r THEN t ELSE x]
  BY <1>1, <1>2, <1>5
<1>8. /\ clonedLogs'[r] = clonedLogs[t]
      /\ clonedLogs'[t] = [l \in Log |-> IF l \in ToSet(chain[t]) \cap Log THEN r
                                         ELSE clonedLogs[t][l]]
      /\ \A x \in Row : x \notin {r, t} => clonedLogs'[x] = clonedLogs[x]
  BY <1>1, <1>2, <1>4, <1>5
<1>9. /\ \A l \in Log : clonedLogs'[r][l] = clonedLogs[t][l]
      /\ \A l \in Log : clonedLogs'[t][l] =
             IF l \in ToSet(chain[t]) THEN r ELSE clonedLogs[t][l]
  BY <1>8
<1>10. \A x \in Row : x \notin {r, t} => clonedLogs'[x] = clonedLogs[x]
  BY <1>8
<1>11. t \in live /\ t \in Row /\ r \notin live /\ live' = live \cup {r}
       /\ minRow[t] < r /\ r < t /\ DagFree
       /\ dag' = [dag EXCEPT ![r] = ToSet(chain[t]) \ Log]
  BY <1>1, <1>2, <1>4
<1> HIDE DEF DagFree
<1> QED BY <1>3, <1>6, <1>7, <1>9, <1>10, <1>11

LEMMA SplitTabletLogs ==
    ASSUME IInv, LogSide, NEW r \in Row, SplitTablet(r)
    PROVE  LogSide'
<1>1. PICK t : t = job.tab
  OBVIOUS
<1>2. /\ t \in live /\ t \in Row /\ r \notin live /\ r # t /\ live' = live \cup {r}
      /\ minRow[t] < r
      /\ minRow'[t] = r /\ minRow'[r] = minRow[t]
      /\ \A x \in Row : x \notin {r, t} => minRow'[x] = minRow[x]
      /\ \A x \in Row : chain'[x] = chain[IF x = r THEN t ELSE x]
      /\ UNCHANGED <<made, duplicatedLogs, open, group, serq, serLog, serTodo,
                     serStack>>
  BY <1>1, SplitFacts
<1>3. /\ \A l \in Log : clonedLogs'[r][l] = clonedLogs[t][l]
      /\ \A l \in Log : clonedLogs'[t][l] =
             IF l \in ToSet(chain[t]) THEN r ELSE clonedLogs[t][l]
      /\ \A x \in Row : x \notin {r, t} => clonedLogs'[x] = clonedLogs[x]
  BY <1>1, SplitFacts
<1>4. /\ chain \in [Row -> Seq(Frag)] /\ live \subseteq Row
      /\ minRow \in [Row -> 0..NRows]
      /\ clonedLogs \in [Row -> [Log -> live \cup {None}]]
      /\ group \in [Log -> Seq(live)] /\ serTodo \in Seq(live)
      /\ serStack \in Seq(FrameSet(live))
      /\ None \notin Row /\ None \notin Log /\ serLog \in Log \cup {None}
  BY LogTypes
<1>5. LogsApart' /\ StackForwarded'
  BY <1>2 DEF LogSide, LogsApart, StackForwarded, Waiting, Undone
<1>6. ChainLogsUndone'
  BY <1>2 DEF LogSide, ChainLogsUndone, Undone, Waiting
<1>7. ChainsInOrder'
  <2> SUFFICES ASSUME NEW x \in Row, NEW i \in 1..Len(chain'[x]),
                      NEW j \in 1..Len(chain'[x]), NEW k \in Log, NEW m, i < j,
                      chain'[x][i] = k, chain'[x][j] = m
               PROVE  m \in Log /\ Before(k, m)'
    BY OrderFrom
  <2>1. PICK y \in Row : chain'[x] = chain[y]
    BY <1>2
  <2>2. m \in Log /\ Before(k, m)
    BY <2>1 DEF LogSide, ChainsInOrder
  <2> QED BY <1>2, <2>2 DEF Before
<1>8. \A k \in Log, x \in Row : /\ Listed(k, x)' <=> Listed(k, x)
                                /\ Called(k, x)' <=> Called(k, x)
                                /\ Passing(k, x)' <=> Passing(k, x)
  BY <1>2 DEF Listed, Called, Passing, Waiting, SerTop
<1>9. \A k \in Log : ~Listed(k, r) /\ ~Called(k, r) /\ ~Passing(k, r)
  <2>1. \A k \in Log : r \notin ToSet(group[k])
    BY <1>2, <1>4, ToSetType
  <2>2. r \notin ToSet(serTodo)
    BY <1>2, <1>4, ToSetType
  <2>3. serStack # <<>> => SerTop.tab # r
    BY <1>2, FrameFacts
  <2> QED BY <2>1, <2>2, <2>3 DEF Listed, Called, Passing, SerCall
\* No link led to r or came from it.
<1>10. \A k \in Log, x \in Row : clonedLogs[x][k] # r
  BY <1>2, <1>4
<1>11. \A k \in Log : clonedLogs[r][k] = None
  BY <1>2, <1>4 DEF LogSide, LinksGoDown
<1>12. \A k \in Log, x \in Row : k \in ToSet(chain'[x])
           <=> k \in ToSet(chain[IF x = r THEN t ELSE x])
  BY <1>2
<1>13. \A k \in Log, u \in Row : Leads(k, u, r)' <=> u = t /\ k \in ToSet(chain[t])
  <2> SUFFICES ASSUME NEW k \in Log, NEW u \in Row
               PROVE  Leads(k, u, r)' <=> u = t /\ k \in ToSet(chain[t])
    OBVIOUS
  <2>1. CASE u = t
    BY <1>2, <1>3, <1>10, <1>12, <2>1 DEF Leads
  <2>2. CASE u # t
    <3>1. clonedLogs'[u][k] # r
      BY <1>2, <1>3, <1>10, <2>2
    <3> QED BY <2>2, <3>1 DEF Leads
  <2> QED BY <2>1, <2>2
<1>14. ASSUME NEW k \in Log, NEW u \in Row, NEW x \in Row, x # r
       PROVE  Leads(k, u, x)' <=> IF k \in ToSet(chain[t])
                                  THEN u # t /\ Leads(k, IF u = r THEN t ELSE u, x)
                                  ELSE u # r /\ Leads(k, u, x)
  <2>1. CASE u \notin {r, t}
    <3>1. Leads(k, u, x)' <=> Leads(k, u, x)
      BY <1>3, <1>8, <1>12, <2>1 DEF Leads
    <3> QED BY <2>1, <3>1
  <2>2. CASE u = t /\ k \in ToSet(chain[t])
    BY <1>3, <1>14, <2>2 DEF Leads
  <2>3. CASE u = t /\ k \notin ToSet(chain[t])
    <3>1. Leads(k, u, x)' <=> Leads(k, u, x)
      BY <1>2, <1>3, <1>8, <1>12, <2>3 DEF Leads
    <3> QED BY <1>2, <2>3, <3>1
  <2>4. CASE u = r /\ k \in ToSet(chain[t])
    <3>1. Leads(k, r, x)' <=> Leads(k, t, x)
      BY <1>3, <1>12, <2>4 DEF Leads
    <3> QED BY <1>2, <2>4, <3>1
  <2>5. CASE u = r /\ k \notin ToSet(chain[t])
    <3>1. ~Leads(k, r, x)'
      BY <1>8, <1>9, <1>12, <2>5 DEF Leads
    <3> QED BY <2>5, <3>1
  <2> QED BY <2>1, <2>2, <2>3, <2>4, <2>5
<1>15. OneLink'
  <2> SUFFICES ASSUME NEW k \in Log, NEW u \in Row, NEW v \in Row, NEW x \in Row,
                      Leads(k, u, x)', Leads(k, v, x)'
               PROVE  u = v
    BY DEF OneLink
  <2>1. CASE x = r
    BY <1>13, <2>1
  <2>2. CASE x # r
    <3>1. \A p, q \in Row : Leads(k, p, x) /\ Leads(k, q, x) => p = q
      BY DEF LogSide, OneLink
    <3>2. CASE k \in ToSet(chain[t])
      <4>1. u # t /\ v # t
        BY <1>14, <2>2, <3>2
      <4>2. (IF u = r THEN t ELSE u) \in Row /\ (IF v = r THEN t ELSE v) \in Row
        BY <1>2
      <4>3. (IF u = r THEN t ELSE u) = (IF v = r THEN t ELSE v)
        BY <1>14, <2>2, <3>1, <3>2, <4>2
      <4> QED BY <4>1, <4>3
    <3>3. CASE k \notin ToSet(chain[t])
      BY <1>14, <2>2, <3>1, <3>3
    <3> QED BY <3>2, <3>3
  <2> QED BY <2>1, <2>2
<1>16. ASSUME NEW k \in Log, NEW x \in Row, x # r
       PROVE  Linked(k, x)' <=> Linked(k, x)
  <2>1. ~Leads(k, r, x)
    BY <1>4, <1>11 DEF Leads
  <2>2. CASE k \in ToSet(chain[t])
    <3>1. ASSUME Linked(k, x)' PROVE Linked(k, x)
      <4>1. PICK u \in Row : Leads(k, u, x)'
        BY <3>1 DEF Linked
      <4>2. PICK v \in Row : v = IF u = r THEN t ELSE u
        BY <1>2
      <4>3. Leads(k, v, x)
        BY <1>14, <1>16, <2>2, <4>1, <4>2
      <4> QED BY <4>3 DEF Linked
    <3>2. ASSUME Linked(k, x) PROVE Linked(k, x)'
      <4>1. PICK u \in Row : Leads(k, u, x)
        BY <3>2 DEF Linked
      <4>2. CASE u = t
        <5>1. Leads(k, r, x)'
          BY <1>2, <1>14, <1>16, <2>2, <4>1, <4>2
        <5> QED BY <5>1 DEF Linked
      <4>3. CASE u # t
        <5>1. Leads(k, u, x)'
          BY <1>14, <1>16, <2>1, <2>2, <4>1, <4>3
        <5> QED BY <5>1 DEF Linked
      <4> QED BY <4>2, <4>3
    <3> QED BY <3>1, <3>2
  <2>3. CASE k \notin ToSet(chain[t])
    <3>1. \A u \in Row : Leads(k, u, x)' <=> Leads(k, u, x)
      BY <1>14, <1>16, <2>1, <2>3
    <3> QED BY <3>1 DEF Linked
  <2> QED BY <2>2, <2>3
<1>17. \A k \in Log : Linked(k, r)' <=> k \in ToSet(chain[t])
  BY <1>2, <1>13 DEF Linked
<1>18. CallsBalance'
  <2> SUFFICES ASSUME NEW k \in Log, NEW x \in Row
               PROVE  (IF Listed(k, x)' THEN 1 ELSE 0) + (IF Called(k, x)' THEN 1 ELSE 0)
                              + (IF Linked(k, x)' THEN 1 ELSE 0)
                      = (IF k \in ToSet(chain'[x]) THEN 1 ELSE 0)
                              + (IF k \in duplicatedLogs'[x] THEN 1 ELSE 0)
    BY DEF CallsBalance
  <2>1. (IF Listed(k, x) THEN 1 ELSE 0) + (IF Called(k, x) THEN 1 ELSE 0)
                + (IF Linked(k, x) THEN 1 ELSE 0)
        = (IF k \in ToSet(chain[x]) THEN 1 ELSE 0)
                + (IF k \in duplicatedLogs[x] THEN 1 ELSE 0)
    BY DEF LogSide, CallsBalance
  <2>2. CASE x # r
    <3>1. /\ Listed(k, x)' <=> Listed(k, x)
          /\ Called(k, x)' <=> Called(k, x)
          /\ Linked(k, x)' <=> Linked(k, x)
          /\ k \in ToSet(chain'[x]) <=> k \in ToSet(chain[x])
          /\ k \in duplicatedLogs'[x] <=> k \in duplicatedLogs[x]
      BY <1>2, <1>8, <1>12, <1>16, <2>2
    <3> QED BY <2>1, <3>1
  <2>3. CASE x = r
    <3>1. ~Linked(k, r)
      BY <1>10 DEF Linked, Leads
    <3>2. k \notin duplicatedLogs[r]
      BY <1>9, <2>1, <2>3, <3>1
    <3>3. /\ ~Listed(k, x)' /\ ~Called(k, x)'
          /\ Linked(k, x)' <=> k \in ToSet(chain[t])
          /\ k \in ToSet(chain'[x]) <=> k \in ToSet(chain[t])
          /\ k \notin duplicatedLogs'[x]
      BY <1>2, <1>8, <1>9, <1>12, <1>17, <2>3, <3>2
    <3> QED BY <3>3
  <2> QED BY <2>2, <2>3
<1>19. LinksGoDown'
  <2> SUFFICES ASSUME NEW u \in Row, NEW k \in Log, clonedLogs'[u][k] # None
               PROVE  /\ u \in live' /\ clonedLogs'[u][k] <= minRow'[u] /\ k \in made
                      /\ k \in Waiting => k \in ToSet(chain'[u])
    BY <1>2 DEF LinksGoDown, Waiting
  <2>1. clonedLogs[t][k] # None =>
            /\ clonedLogs[t][k] <= minRow[t] /\ k \in made
            /\ k \in Waiting => k \in ToSet(chain[t])
    BY <1>2 DEF LogSide, LinksGoDown
  <2>2. CASE u \notin {r, t}
    BY <1>2, <1>3, <2>2 DEF LogSide, LinksGoDown
  <2>3. CASE u = r
    BY <1>2, <1>3, <2>1, <2>3
  <2>4. CASE u = t /\ k \in ToSet(chain[t])
    <3>1. k \in made
      BY <1>2, <1>4, <2>4 DEF LogSide, LogsApart, ChainLogsUndone
    <3>2. clonedLogs'[u][k] = r /\ minRow'[u] = r /\ r \in Nat
      BY <1>2, <1>3, <2>4 DEF Row
    <3>3. k \in ToSet(chain'[u]) /\ u \in live'
      BY <1>2, <2>4
    <3> QED BY <3>1, <3>2, <3>3
  <2>5. CASE u = t /\ k \notin ToSet(chain[t])
    <3>1. clonedLogs[t][k] # None /\ clonedLogs'[u][k] = clonedLogs[t][k]
      BY <1>3, <2>5
    <3>2. clonedLogs[t][k] \in Row
      BY <1>2, <1>4, <3>1
    <3>3. clonedLogs[t][k] \in Nat /\ r \in Nat
      BY <3>2 DEF Row
    <3>4. minRow[t] \in Nat
      BY <1>2, <1>4
    <3>5. minRow'[u] = r /\ minRow[t] < r /\ clonedLogs[t][k] <= minRow[t]
      BY <1>2, <2>1, <2>5, <3>1
    <3>6. clonedLogs'[u][k] <= minRow'[u]
      BY <3>1, <3>3, <3>4, <3>5
    <3>7. u \in live' /\ chain'[u] = chain[t]
      BY <1>2, <2>5
    <3> QED BY <2>1, <3>1, <3>6, <3>7
  <2> QED BY <2>2, <2>3, <2>4, <2>5
<1> QED BY <1>5, <1>6, <1>7, <1>15, <1>18, <1>19 DEF LogSide

-----------------------------------------------------------------------------
(* The run that the compact thread replaces.                               *)

\* A change of chains that leaves the run in them.
LEMMA ChainsChange ==
    ASSUME RunSide, UNCHANGED <<live, minRow, dag, compPc, compRun, compRows, compTodo>>,
           compTodo \subseteq Row, live \subseteq Row,
           \A x \in Row : Matches(compRun, chain[x]) # {}
                              => Matches(compRun, chain'[x]) # {}
    PROVE  RunSide'
<1>1. DagOfDisk'
  BY DEF RunSide, DagOfDisk
<1>2. \A x \in Row : Rows(x)' = Rows(x)
  BY DEF Rows
<1>3. RunInChains'
  BY <1>2 DEF RunSide, RunInChains
<1> QED BY <1>1, <1>3 DEF RunSide

\* The types of the compact thread's variables.
LEMMA RunTypes ==
    ASSUME IInv, RunSide
    PROVE  /\ compRun \in Seq(Disk) /\ compRun \in Seq(Frag)
           /\ \A k \in Log : k \notin ToSet(compRun)
           /\ compTodo \subseteq Row /\ live \subseteq Row
           /\ \A u \in live : Rows(u) # {}
<1>1. compRun \in Seq(Disk) /\ compRun \in Seq(Frag)
  BY DEF RunSide, RunInChains, IInv, BaseTypes
<1>2. \A k \in Log : k \notin ToSet(compRun)
  BY <1>1, ToSetType, LogTypes
<1>3. compTodo \subseteq Row /\ live \subseteq Row
  BY DEF IInv, BaseTypes, KnownTablets
<1>4. ASSUME NEW u \in live PROVE u \in Rows(u)
  <2>1. u \in Nat /\ u \in Row
    BY <1>3 DEF Row
  <2>2. minRow[u] \in Nat
    BY <2>1 DEF IInv, BaseTypes
  <2>3. minRow[u] < u
    BY DEF IInv, TabletsPartitionRows
  <2> QED BY <2>1, <2>2, <2>3 DEF Rows
<1> QED BY <1>1, <1>2, <1>3, <1>4

LEMMA CommitRun ==
    ASSUME IInv, RunSide, NEW r \in Row, NEW l \in Log, NEW big \in BOOLEAN,
           Commit(r, l, big)
    PROVE  RunSide'
<1> DEFINE t == Owner(r)
<1>1. t \in Row /\ l \in Frag
  BY OwnerLives DEF IInv, BaseTypes, Frag
<1>2. /\ chain' = chain \/ chain' = [chain EXCEPT ![t] = Append(@, l)]
      /\ UNCHANGED <<live, minRow, dag, compPc, compRun, compRows, compTodo>>
  BY DEF Commit, compVars
<1> HIDE DEF t
<1>3. chain \in [Row -> Seq(Frag)]
  BY LogTypes
<1>4. ASSUME NEW x \in Row, Matches(compRun, chain[x]) # {}
      PROVE  Matches(compRun, chain'[x]) # {}
  <2>1. CASE chain'[x] = chain[x]
    BY <1>4, <2>1
  <2>2. CASE chain'[x] = Append(chain[x], l)
    <3>1. /\ chain[x] \in Seq(Frag) /\ chain'[x] \in Seq(Frag)
          /\ Len(chain[x]) <= Len(chain'[x])
          /\ \A p \in 1..Len(chain[x]) : chain'[x][p] = chain[x][p]
      BY <1>1, <1>3, <2>2
    <3>2. /\ chain[x] \in Seq(Frag) /\ chain'[x] \in Seq(Frag)
          /\ compRun \in Seq(Frag)
      BY <3>1, RunTypes
    <3> QED BY <1>4, <3>1, <3>2, MatchStays
  <2> QED BY <1>1, <1>2, <1>3, <2>1, <2>2
<1> QED BY <1>2, <1>4, ChainsChange, RunTypes

LEMMA ReplaceLogRun == ASSUME IInv, RunSide, ReplaceLog PROVE RunSide'
<1> DEFINE t == SerTop.tab
<1>1. /\ serStack # <<>>
      /\ UNCHANGED <<live, minRow, dag, compPc, compRun, compRows, compTodo>>
  BY DEF ReplaceLog, compVars
<1>2. t \in Row /\ serLog \in Frag /\ serLog \in Log /\ serFrag \in Frag
  BY <1>1, FrameFacts DEF Frag
<1>3. chain \in [Row -> Seq(Frag)]
  BY LogTypes
<1>4. \/ chain' = chain
      \/ /\ serLog \in ToSet(chain[t])
         /\ chain' = [chain EXCEPT ![t] = Splice(<<serFrag>>, <<serLog>>, @)]
  BY DEF ReplaceLog
<1> HIDE DEF t
<1>5. ASSUME NEW x \in Row, Matches(compRun, chain[x]) # {}
      PROVE  Matches(compRun, chain'[x]) # {}
  <2>1. CASE chain'[x] = chain[x]
    BY <1>5, <2>1
  <2>2. CASE serLog \in ToSet(chain[x])
             /\ chain'[x] = Splice(<<serFrag>>, <<serLog>>, chain[x])
    <3>1. chain[x] \in Seq(Frag) /\ serLog \in ToSet(chain[x])
      BY <1>3, <2>2
    <3>2. /\ Splice(<<serFrag>>, <<serLog>>, chain[x]) \in Seq(Frag)
          /\ \E i \in 1..Len(chain[x]) : ReplacedAt(serFrag, serLog, chain[x], i,
                      Splice(<<serFrag>>, <<serLog>>, chain[x]))
      BY <1>2, <3>1, SpliceOne
    <3>3. PICK i \in 1..Len(chain[x]) :
              ReplacedAt(serFrag, serLog, chain[x], i, chain'[x])
      BY <2>2, <3>2
    <3>4. /\ chain[x] \in Seq(Frag) /\ chain'[x] \in Seq(Frag)
          /\ compRun \in Seq(Frag)
      BY <2>2, <3>1, <3>2, RunTypes
    <3>5. serLog \notin ToSet(compRun)
      BY <1>2, RunTypes
    <3>6. /\ Len(chain[x]) <= Len(chain'[x])
          /\ \A p \in 1..Len(chain[x]) :
                 chain'[x][p] = chain[x][p] \/ chain[x][p] \notin ToSet(compRun)
      BY <3>1, <3>3, <3>5 DEF ReplacedAt
    <3> QED BY <1>5, <3>4, <3>6, MatchStays
  <2> QED BY <1>2, <1>3, <1>4, <2>1, <2>2
<1> QED BY <1>1, <1>5, ChainsChange, RunTypes

LEMMA AddToDagRun == ASSUME IInv, RunSide, AddToDag PROVE RunSide'
<1>1. /\ serStack # <<>> /\ dag' = [dag EXCEPT ![SerTop.tab] = @ \cup {serFrag}]
      /\ UNCHANGED <<live, minRow, chain, compPc, compRun, compRows, compTodo>>
  BY DEF AddToDag, tabletVars, compVars
<1>2. serFrag \in Disk
  BY <1>1, FrameFacts
<1>3. DagOfDisk'
  BY <1>1, <1>2 DEF RunSide, DagOfDisk
<1>4. RunInChains'
  BY <1>1 DEF RunSide, RunInChains, Rows
<1> QED BY <1>3, <1>4 DEF RunSide

\* Of the tablets only the one that the run was taken from has rows in the range.
LEMMA CompactStartRun ==
    ASSUME IInv, RunSide, NEW t \in live, NEW i \in 1..Len(chain[t]),
           NEW j \in 1..Len(chain[t]), CompactStart(t, i, j)
    PROVE  RunSide'
<1> DEFINE run == SubSeq(chain[t], i, j)
<1>1. /\ compPc = "idle" /\ compRun' = run /\ compRows' = Rows(t) /\ compPc' = "merge"
      /\ Len(run) > 1 /\ ToSet(run) \subseteq UNION {dag[u] : u \in live}
      /\ UNCHANGED <<live, minRow, chain, dag, compTodo>>
  BY DEF CompactStart, Compactable, tabletVars
<1>2. t \in Row /\ live \subseteq Row /\ chain[t] \in Seq(Frag)
  BY LogTypes
<1>3. /\ run \in Seq(Frag) /\ Len(run) = IF i <= j THEN j - i + 1 ELSE 0
      /\ \A k \in 1..(j - i + 1) : run[k] = chain[t][i + k - 1]
  <2>1. i \in Int /\ j \in Int /\ \A k \in i..j : chain[t][k] \in Frag
    BY <1>2
  <2> QED BY <2>1, SubSeqProperties
<1> HIDE DEF run
<1>4. i <= j /\ Len(run) = j - i + 1
  BY <1>1, <1>3
<1>5. i \in Matches(run, chain[t])
  <2>1. /\ i \in 1..Len(chain[t]) /\ i + Len(run) - 1 <= Len(chain[t]) /\ i \in Nat
        /\ \A k \in 1..Len(run) : chain[t][i + k - 1] = run[k]
    BY <1>2, <1>3, <1>4
  <2> QED BY <1>2, <1>3, <2>1, MatchFacts
<1>6. run \in Seq(Disk)
  <2>1. ToSet(run) \subseteq Disk
    BY <1>1, <1>2 DEF RunSide, DagOfDisk
  <2>2. \A k \in 1..Len(run) : run[k] \in Disk
    BY <1>3, <2>1, InToSet
  <2> QED BY <1>3, <2>2
<1>7. ASSUME NEW u \in live, u # t PROVE Rows(u) \cap Rows(t) = {}
  <2> SUFFICES ASSUME NEW q, q \in Rows(u), q \in Rows(t) PROVE FALSE
    OBVIOUS
  <2>1. q \in Row
    <3>1. t \in Nat /\ minRow[t] \in Nat /\ NRows \in Nat /\ t <= NRows
      BY <1>2, TabletAssumption DEF IInv, BaseTypes, Row
    <3> QED BY <3>1 DEF Rows, Row
  <2>2. PICK v \in live : \A w \in live : q \in Rows(w) <=> w = v
    BY <2>1 DEF IInv, TabletsPartitionRows
  <2> QED BY <1>7, <2>2
<1>8. \A u \in live : Rows(u)' = Rows(u)
  BY <1>1 DEF Rows
<1>9. RunInChains'
  <2>1. \A u \in live : \/ Rows(u) \cap Rows(t) = {}
                        \/ Matches(run, chain[u]) # {}
    BY <1>5, <1>7
  <2>2. \A u \in live : Rows(u) \cap Rows(t) = {} \/ Rows(u) \subseteq Rows(t)
    BY <1>7
  <2>3. compTodo = {}
    BY <1>1 DEF RunSide, RunInChains
  <2> QED BY <1>1, <1>6, <1>8, <2>1, <2>2, <2>3 DEF RunInChains
<1>10. DagOfDisk'
  BY <1>1 DEF RunSide, DagOfDisk
<1> QED BY <1>9, <1>10 DEF RunSide

\* The merge is over, and the tablets in its range are to be updated.
LEMMA MergedRun ==
    ASSUME IInv, RunSide, compPc = "merge", compPc' = "replace",
           compTodo' = CompactTargets(compRun, compRows),
           UNCHANGED <<live, minRow, chain, dag, compRun, compRows>>
    PROVE  RunSide'
<1>1. \A u \in live : Rows(u) # {}
  BY RunTypes
<1>2. \A u \in live : Rows(u) \subseteq compRows => Rows(u) \cap compRows # {}
  BY <1>1
<1>3. \A u \in compTodo' : Matches(compRun, chain[u]) # {}
  BY <1>2 DEF RunSide, RunInChains, CompactTargets
<1>4. RunInChains'
  BY <1>3 DEF RunSide, RunInChains
<1>5. DagOfDisk'
  BY DEF RunSide, DagOfDisk
<1> QED BY <1>4, <1>5 DEF RunSide

LEMMA CompactOutputRun ==
    ASSUME IInv, RunSide, NEW d \in Disk, CompactOutput(d)
    PROVE  RunSide'
BY MergedRun DEF CompactOutput, tabletVars

LEMMA CompactNothingRun == ASSUME IInv, RunSide, CompactNothing PROVE RunSide'
BY MergedRun DEF CompactNothing, tabletVars

LEMMA ReplaceRunRun ==
    ASSUME IInv, RunSide, NEW t \in Row, ReplaceRun(t)
    PROVE  RunSide'
<1>1. /\ compPc' = "mark" /\ compPc = "replace"
      /\ \A x \in Row : x # t => chain'[x] = chain[x]
      /\ \E new \in Seq(Disk) :
             dag' = [dag EXCEPT ![t] = (@ \ ToSet(compRun)) \cup ToSet(new)]
  BY ReplaceRunFacts
<1>2. /\ compTodo' = compTodo \ {t}
      /\ UNCHANGED <<live, minRow, compRun, compRows>>
  BY DEF ReplaceRun
<1>3. DagOfDisk'
  <2>1. PICK new \in Seq(Disk) :
            dag' = [dag EXCEPT ![t] = (@ \ ToSet(compRun)) \cup ToSet(new)]
    BY <1>1
  <2>2. ToSet(new) \subseteq Disk
    BY ToSetType
  <2> QED BY <2>1, <2>2 DEF RunSide, DagOfDisk
<1>4. \A u \in compTodo' : Matches(compRun, chain'[u]) # {}
  BY <1>1, <1>2, RunTypes DEF RunSide, RunInChains
<1>5. RunInChains'
  BY <1>1, <1>2, <1>4 DEF RunSide, RunInChains
<1> QED BY <1>3, <1>5 DEF RunSide

\* The rest of a replacement.
LEMMA ReplacedRun ==
    ASSUME IInv, RunSide, compPc \in {"mark", "ask"}, compPc' \in {"replace", "ask"},
           UNCHANGED <<live, minRow, chain, dag, compRun, compRows, compTodo>>
    PROVE  RunSide'
BY DEF RunSide, RunInChains, DagOfDisk

LEMMA CompactEndRun == ASSUME IInv, RunSide, CompactEnd PROVE RunSide'
<1>1. /\ compPc' = "idle" /\ compRun' = <<>> /\ compTodo' = {}
      /\ dag' = dag
  BY DEF CompactEnd
<1>2. compRun' \in Seq(Disk)
  BY <1>1
<1> QED BY <1>1, <1>2 DEF RunSide, RunInChains, DagOfDisk

\* The rows of both halves are rows of the tablet that was split.
LEMMA SplitTabletRun ==
    ASSUME IInv, RunSide, NEW r \in Row, SplitTablet(r)
    PROVE  RunSide'
<1>1. PICK t : t = job.tab
  OBVIOUS
<1>2. /\ t \in live /\ t \in Row /\ r \notin live /\ r # t /\ live' = live \cup {r}
      /\ minRow[t] < r /\ r < t
      /\ minRow'[t] = r /\ minRow'[r] = minRow[t]
      /\ \A x \in Row : x \notin {r, t} => minRow'[x] = minRow[x]
      /\ \A x \in Row : chain'[x] = chain[IF x = r THEN t ELSE x]
      /\ dag' = [dag EXCEPT ![r] = ToSet(chain[t]) \ Log]
      /\ UNCHANGED <<compPc, compRun, compRows, compTodo>>
  BY <1>1, SplitFacts
<1>3. compPc \in {"idle", "merge"}
  <2>1. DagFree
    BY <1>1, SplitFacts
  <2> QED BY <2>1 DEF DagFree, IInv, BaseTypes
<1>4. live \subseteq Row /\ minRow \in [Row -> 0..NRows] /\ chain[t] \in Seq(Frag)
  BY <1>2, LogTypes
<1>5. DagOfDisk'
  <2>1. ToSet(chain[t]) \ Log \subseteq Disk
    BY <1>4, ToSetType DEF Frag
  <2> QED BY <1>2, <2>1 DEF RunSide, DagOfDisk
<1>6. ASSUME NEW u \in live'
      PROVE  \E v \in live : Rows(u)' \subseteq Rows(v) /\ chain'[u] = chain[v]
  <2>1. CASE u \notin {r, t}
    <3>1. u \in live /\ Rows(u)' = Rows(u) /\ chain'[u] = chain[u]
      BY <1>2, <1>4, <2>1 DEF Rows
    <3> QED BY <3>1
  <2>2. t \in Nat /\ r \in Nat /\ minRow[t] \in Nat
    BY <1>2, <1>4 DEF Row
  <2>3. CASE u = r
    <3>1. Rows(r)' = (minRow[t] + 1)..r
      BY <1>2 DEF Rows
    <3>2. Rows(r)' \subseteq Rows(t)
      BY <1>2, <2>2, <3>1 DEF Rows
    <3> QED BY <1>2, <2>3, <3>2
  <2>4. CASE u = t
    <3>1. Rows(t)' = (r + 1)..t
      BY <1>2 DEF Rows
    <3>2. Rows(t)' \subseteq Rows(t)
      BY <1>2, <2>2, <3>1 DEF Rows
    <3> QED BY <1>2, <2>4, <3>2
  <2> QED BY <2>1, <2>3, <2>4
<1>7. RunInChains'
  <2>1. /\ compRun' \in Seq(Disk)
        /\ compPc' # "idle" => Len(compRun') > 1
        /\ compTodo' = {}
    BY <1>2, <1>3 DEF RunSide, RunInChains
  <2>2. ASSUME compPc = "merge", NEW u \in live'
        PROVE  /\ \/ Rows(u)' \cap compRows = {}
                  \/ Matches(compRun, chain'[u]) # {}
               /\ Rows(u)' \cap compRows = {} \/ Rows(u)' \subseteq compRows
    <3>1. PICK v \in live : Rows(u)' \subseteq Rows(v) /\ chain'[u] = chain[v]
      BY <1>6
    <3>2. /\ \/ Rows(v) \cap compRows = {}
             \/ Matches(compRun, chain[v]) # {}
          /\ Rows(v) \cap compRows = {} \/ Rows(v) \subseteq compRows
      BY <2>2 DEF RunSide, RunInChains
    <3> QED BY <3>1, <3>2
  <2> QED BY <1>2, <1>3, <2>1, <2>2 DEF RunInChains
<1> QED BY <1>5, <1>7 DEF RunSide

-----------------------------------------------------------------------------
(* The theorems.                                                           *)

\* The server starts without logs, and its chain is FragDag's.
LEMMA InitLogs == ASSUME Init PROVE LogInv
<1>1. IInv
  BY InitInv
<1>2. /\ chain = [t \in Row |-> IF t = NRows THEN InitChain ELSE <<>>]
      /\ open = None /\ serq = <<>> /\ serLog = None /\ serTodo = <<>>
      /\ serStack = <<>> /\ group = [l \in Log |-> <<>>]
      /\ clonedLogs = [t \in Row |-> [l \in Log |-> None]]
      /\ duplicatedLogs = [t \in Row |-> {}]
      /\ compPc = "idle" /\ compRun = <<>> /\ compTodo = {} /\ died = FALSE
      /\ dag = [t \in Row |-> IF t = NRows THEN ToSet(InitChain) ELSE {}]
  BY DEF Init
<1>3. /\ InitChain \in Seq(Disk) /\ Log \cap Disk = {} /\ None \notin Log
      /\ None \notin Row
  BY TabletAssumption, LogTypes, <1>1
<1>4. \A x \in Row : chain[x] \in Seq(Disk)
  BY <1>2, <1>3
<1>5. \A x \in Row : ToSet(chain[x]) \cap Log = {}
  BY <1>3, <1>4, ToSetType
<1>6. \A x \in Row : \A i \in 1..Len(chain[x]) : chain[x][i] \notin Log
  BY <1>3, <1>4
<1>7. ToSet(serq) = {} /\ ToSet(serTodo) = {} /\ \A l \in Log : ToSet(group[l]) = {}
  BY <1>2 DEF ToSet
<1>8. LogsApart
  <2>1. Undone \subseteq {None}
    BY <1>2, <1>7 DEF Undone, Waiting
  <2> QED BY <1>2, <2>1 DEF LogsApart
<1>9. StackForwarded
  BY <1>2 DEF StackForwarded
<1>10. ChainsInOrder /\ ChainLogsUndone
  BY <1>5, <1>6 DEF ChainsInOrder, ChainLogsUndone
<1>11. \A l \in Log, x \in Row : ~Listed(l, x) /\ ~Called(l, x) /\ ~Linked(l, x)
  BY <1>2, <1>3, <1>7 DEF Listed, Called, Linked, Leads
<1>12. CallsBalance
  <2>1. \A l \in Log, x \in Row : l \notin ToSet(chain[x]) /\ l \notin duplicatedLogs[x]
    BY <1>2, <1>5
  <2> QED BY <1>11, <2>1 DEF CallsBalance
<1>13. OneLink /\ LinksGoDown
  BY <1>2, <1>3 DEF OneLink, LinksGoDown, Leads
<1>14. DagOfDisk
  <2>1. ToSet(InitChain) \subseteq Disk
    BY <1>3, ToSetType
  <2> QED BY <1>2, <2>1 DEF DagOfDisk
<1>15. RunInChains
  BY <1>2 DEF RunInChains
<1> QED BY <1>1, <1>2, <1>8, <1>9, <1>10, <1>12, <1>13, <1>14, <1>15
        DEF LogInv, LogSide, RunSide

\* What the steps of saveConfig() and of the work thread leave alone.
LEMMA SavesQuiet ==
    ASSUME \/ StartSave \/ StartSplit \/ SplitImpossible
           \/ \E s \in Saver : SaveStep(s)
           \/ \E s \in Syncers, t \in live : Sync(s, t)
    PROVE  UNCHANGED <<live, minRow, chain, clonedLogs, duplicatedLogs, open, group,
                       serq, serLog, serTodo, serStack, dag, compPc, compRun,
                       compRows, compTodo, made, died>>
<1>1. CASE StartSave
  BY <1>1 DEF StartSave, trackerVars, loggerVars, serVars, compVars
<1>2. CASE StartSplit
  BY <1>2 DEF StartSplit, trackerVars, loggerVars, serVars, compVars
<1>3. CASE SplitImpossible
  BY <1>3 DEF SplitImpossible, trackerVars, tabletVars, loggerVars, serVars, compVars
<1>4. ASSUME NEW s \in Saver, WriteConfig(s)
      PROVE  UNCHANGED <<live, minRow, chain, clonedLogs, duplicatedLogs, open, group,
                         serq, serLog, serTodo, serStack, dag, compPc, compRun,
                         compRows, compTodo, made, died>>
  BY <1>4 DEF WriteConfig, trackerVars, tabletVars, loggerVars, serVars, compVars
<1>5. ASSUME NEW s \in Saver, SaveAgain(s)
      PROVE  UNCHANGED <<live, minRow, chain, clonedLogs, duplicatedLogs, open, group,
                         serq, serLog, serTodo, serStack, dag, compPc, compRun,
                         compRows, compTodo, made, died>>
  BY <1>5 DEF SaveAgain, trackerVars, loggerVars, serVars, compVars
<1>6. ASSUME NEW s \in Saver, FinishSave(s)
      PROVE  UNCHANGED <<live, minRow, chain, clonedLogs, duplicatedLogs, open, group,
                         serq, serLog, serTodo, serStack, dag, compPc, compRun,
                         compRows, compTodo, made, died>>
  BY <1>6 DEF FinishSave, loggerVars, serVars, compVars
<1>7. ASSUME NEW s \in Syncers, NEW t \in live, Sync(s, t)
      PROVE  UNCHANGED <<live, minRow, chain, clonedLogs, duplicatedLogs, open, group,
                         serq, serLog, serTodo, serStack, dag, compPc, compRun,
                         compRows, compTodo, made, died>>
  BY <1>7 DEF Sync, trackerVars, loggerVars, serVars, compVars
<1> QED BY <1>1, <1>2, <1>3, <1>4, <1>5, <1>6, <1>7 DEF SaveStep

LEMMA CommitThreadLogs ==
    ASSUME LogInv, CommitThread PROVE LogSide' /\ RunSide' /\ died' = died
<1>1. ASSUME NEW r \in Row, NEW l \in Log, NEW big \in BOOLEAN, Commit(r, l, big)
      PROVE  LogSide' /\ RunSide' /\ died' = died
  BY <1>1, CommitLogs, CommitRun DEF LogInv, Commit
<1>2. CASE PushGroup
  <2>1. died' = died
    BY <1>2 DEF PushGroup
  <2>2. RunSide'
    BY <1>2, RunSideQuiet DEF LogInv, PushGroup, tabletVars, compVars
  <2> QED BY <1>2, <2>1, <2>2, PushGroupLogs DEF LogInv
<1> QED BY <1>1, <1>2 DEF CommitThread

LEMMA SerializeThreadLogs ==
    ASSUME LogInv, SerializeThread PROVE LogSide' /\ RunSide' /\ died' = died
<1> USE DEF LogInv
<1>1. ASSUME NEW d \in Disk, SerializeStart(d)
      PROVE  LogSide' /\ RunSide' /\ died' = died
  <2>1. RunSide' /\ died' = died
    BY <1>1, RunSideQuiet DEF SerializeStart, tabletVars, compVars
  <2> QED BY <1>1, <2>1, SerializeStartLogs
<1>2. CASE SerializeNext
  <2>1. RunSide' /\ died' = died
    BY <1>2, RunSideQuiet DEF SerializeNext, tabletVars, compVars
  <2> QED BY <1>2, <2>1, SerializeNextLogs
<1>3. CASE ReplaceLog
  BY <1>3, ReplaceLogLogs, ReplaceLogRun
<1>4. CASE MarkLogDead
  <2>1. RunSide' /\ died' = died
    BY <1>4, RunSideQuiet DEF MarkLogDead, compVars
  <2> QED BY <1>4, <2>1, MarkLogDeadLogs
<1>5. CASE ForwardToClone
  <2>1. RunSide' /\ died' = died
    BY <1>5, RunSideQuiet DEF ForwardToClone, compVars
  <2> QED BY <1>5, <2>1, ForwardToCloneLogs
<1>6. CASE AddToDag
  <2>1. died' = died
    BY <1>6 DEF AddToDag
  <2> QED BY <1>6, <2>1, AddToDagLogs, AddToDagRun
<1>7. ASSUME NEW big \in BOOLEAN, SerializeAskSplit(big)
      PROVE  LogSide' /\ RunSide' /\ died' = died
  <2>1. RunSide' /\ died' = died
    BY <1>7, RunSideQuiet DEF SerializeAskSplit, compVars
  <2> QED BY <1>7, <2>1, SerializeAskSplitLogs
<1>8. CASE SerializeEnd
  <2>1. RunSide' /\ died' = died
    BY <1>8, RunSideQuiet DEF SerializeEnd, tabletVars, compVars
  <2> QED BY <1>8, <2>1, SerializeEndLogs
<1> QED BY <1>1, <1>2, <1>3, <1>4, <1>5, <1>6, <1>7, <1>8 DEF SerializeThread

LEMMA CompactThreadLogs ==
    ASSUME LogInv, CompactThread PROVE LogSide' /\ RunSide' /\ died' = died
<1> USE DEF LogInv
<1>1. ASSUME NEW t \in live, NEW i \in 1..Len(chain[t]), NEW j \in 1..Len(chain[t]),
             CompactStart(t, i, j)
      PROVE  LogSide' /\ RunSide' /\ died' = died
  <2>1. LogSide' /\ died' = died
    BY <1>1, LogSideQuiet DEF CompactStart, trackerVars, tabletVars, loggerVars, serVars
  <2> QED BY <1>1, <2>1, CompactStartRun
<1>2. ASSUME NEW d \in Disk, CompactOutput(d)
      PROVE  LogSide' /\ RunSide' /\ died' = died
  <2>1. LogSide' /\ died' = died
    BY <1>2, LogSideQuiet DEF CompactOutput, tabletVars, loggerVars, serVars
  <2> QED BY <1>2, <2>1, CompactOutputRun
<1>3. CASE CompactNothing
  <2>1. LogSide' /\ died' = died
    BY <1>3, LogSideQuiet DEF CompactNothing, trackerVars, tabletVars, loggerVars, serVars
  <2> QED BY <1>3, <2>1, CompactNothingRun
<1>4. ASSUME NEW t \in Row, ReplaceRun(t)
      PROVE  LogSide' /\ RunSide' /\ died' = died
  BY <1>4, ReplaceRunLogs, ReplaceRunRun
<1>5. CASE MarkRunDead
  <2>1. LogSide' /\ died' = died
    BY <1>5, LogSideQuiet DEF MarkRunDead, trackerVars, loggerVars, serVars
  <2>2. /\ compPc \in {"mark", "ask"} /\ compPc' \in {"replace", "ask"}
        /\ UNCHANGED <<live, minRow, chain, dag, compRun, compRows, compTodo>>
    BY <1>5 DEF MarkRunDead
  <2> QED BY <2>1, <2>2, ReplacedRun
<1>6. ASSUME NEW big \in BOOLEAN, CompactAskSplit(big)
      PROVE  LogSide' /\ RunSide' /\ died' = died
  <2>1. LogSide' /\ died' = died
    BY <1>6, LogSideQuiet DEF CompactAskSplit, trackerVars, loggerVars, serVars
  <2>2. /\ compPc \in {"mark", "ask"} /\ compPc' \in {"replace", "ask"}
        /\ UNCHANGED <<live, minRow, chain, dag, compRun, compRows, compTodo>>
    BY <1>6 DEF CompactAskSplit
  <2> QED BY <2>1, <2>2, ReplacedRun
<1>7. CASE CompactEnd
  <2>1. LogSide' /\ died' = died
    BY <1>7, LogSideQuiet DEF CompactEnd, tabletVars, loggerVars, serVars
  <2> QED BY <1>7, <2>1, CompactEndRun
<1> QED BY <1>1, <1>2, <1>3, <1>4, <1>5, <1>6, <1>7 DEF CompactThread

\* Every step of every thread, and a stuttering step, keeps the invariant.
LEMMA NextLogs == ASSUME LogInv, [Next]_vars PROVE LogInv'
<1>1. IInv'
  BY NextInv DEF LogInv
<1>2. LogSide' /\ RunSide' /\ died' = died
  <2>1. CASE CommitThread
    BY <2>1, CommitThreadLogs
  <2>2. CASE SerializeThread
    BY <2>2, SerializeThreadLogs
  <2>3. CASE CompactThread
    BY <2>3, CompactThreadLogs
  <2>4. CASE \/ StartSave \/ StartSplit \/ SplitImpossible
             \/ \E s \in Saver : SaveStep(s)
             \/ \E s \in Syncers, t \in live : Sync(s, t)
    <3>1. UNCHANGED <<live, minRow, chain, clonedLogs, duplicatedLogs, open, group,
                      serq, serLog, serTodo, serStack, dag, compPc, compRun,
                      compRows, compTodo, made, died>>
      BY <2>4, SavesQuiet
    <3>2. LogSide'
      BY <3>1, LogSideQuiet DEF LogInv
    <3>3. RunSide'
      BY <3>1, RunSideQuiet DEF LogInv
    <3> QED BY <3>1, <3>2, <3>3
  <2>5. ASSUME NEW r \in Row, SplitTablet(r)
        PROVE  LogSide' /\ RunSide' /\ died' = died
    <3>1. died' = died
      BY <2>5 DEF SplitTablet
    <3> QED BY <2>5, <3>1, SplitTabletLogs, SplitTabletRun DEF LogInv
  <2>6. CASE UNCHANGED vars
    <3>1. UNCHANGED <<live, minRow, chain, clonedLogs, duplicatedLogs, open, group,
                      serq, serLog, serTodo, serStack, dag, compPc, compRun,
                      compRows, compTodo, made, died>>
      BY <2>6 DEF vars, trackerVars, tabletVars, loggerVars, serVars, compVars
    <3>2. LogSide'
      BY <3>1, LogSideQuiet DEF LogInv
    <3>3. RunSide'
      BY <3>1, RunSideQuiet DEF LogInv
    <3> QED BY <3>1, <3>2, <3>3
  <2>7. ASSUME WorkThread PROVE LogSide' /\ RunSide' /\ died' = died
    BY <2>4, <2>5, <2>7 DEF WorkThread, Saver
  <2>8. ASSUME NEW s \in Syncers, ApiThread(s) PROVE LogSide' /\ RunSide' /\ died' = died
    BY <2>4, <2>8 DEF ApiThread, Saver
  <2> QED BY <2>1, <2>2, <2>3, <2>6, <2>7, <2>8 DEF Next
<1> QED BY <1>1, <1>2 DEF LogInv

\* The inductive invariant of logs, calls, links and runs holds in every
\* reachable state.
THEOREM LogInvariant == Spec => []LogInv
<1>1. Init => LogInv
  BY InitLogs
<1>2. LogInv /\ [Next]_vars => LogInv'
  BY NextLogs
<1> QED BY <1>1, <1>2, PTL DEF Spec

\* However log replacements, their forwarding to clones, splits and
\* compactions interleave, replaceFragments() finds the sequence it is given
\* or a notice that explains why it is gone: the serialize and the compact
\* thread never raise "unknown sequence".
THEOREM NeverUnknown == Spec => []NoUnknownSequence
<1>1. LogInv => NoUnknownSequence
  BY DEF LogInv, NoUnknownSequence
<1> QED BY <1>1, LogInvariant, PTL

\* In the chain of every tablet the logs come after the disk fragments.
THEOREM LogsLast == Spec => []LogsAreSuffix
<1>1. LogInv => LogsAreSuffix
  BY DEF LogInv, LogSide, ChainsInOrder, LogsAreSuffix, IInv, BaseTypes
<1> QED BY <1>1, LogInvariant, PTL
=============================================================================
