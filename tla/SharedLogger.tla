---------------------------- MODULE SharedLogger ----------------------------
(***************************************************************************)
(* The path of a mutation from Tablet::set() to a log file and a disk      *)
(* fragment (kdi/tablet/SharedLogger.cc, with set(), erase() and the first *)
(* half of sync() of Tablet.cc): API threads fill the commit buffer, the   *)
(* commit thread logs it and applies it to the tables of the open group,   *)
(* the serialize thread writes full groups to disk, and shutdown() stops   *)
(* the threads.                                                            *)
(*                                                                         *)
(* publicMutex is held over several steps only by a thread whose push to   *)
(* commitQueue waits, and by shutdown().  The queues are those of module   *)
(* SyncQueue: a push waits for room, a pop for an item.  What the tablets  *)
(* do with the groups is in module Tablet.                                 *)
(***************************************************************************)
EXTENDS Naturals, FiniteSets, SequencesExt, Selection

CONSTANTS
    Client,         \* API threads
    Tab,            \* tablets
    None,
    MaxWrites,      \* bound: writes of one client
    BufferMax,      \* writes that fill a CommitBuffer (COMMIT_BUFFER_SZ)
    GroupMax,       \* writes that fill a TableGroup (SERIALIZE_THRESHOLD_SZ)
    CommitMax,      \* commitQueue(4)
    SerializeMax    \* serializeQueue(2)

ASSUME SharedLoggerAssumption ==
    /\ MaxWrites \in Nat
    /\ BufferMax \in Nat \ {0} /\ GroupMax \in Nat \ {0}
    /\ CommitMax \in Nat \ {0} /\ SerializeMax \in Nat \ {0}
    /\ None \notin Client /\ "shutdown" \notin Client \cup {None}

VARIABLES
    mutationsPending,       \* Tablet::mutationsPending
    publicMutex,            \* who holds it over several steps
    buffer,                 \* commitBuffer; None after shutdown
    commitQ, nTasksPending, commitCancel,       \* commitQueue
    serializeQ, serializeCancel,                \* serializeQueue
    pc, tab, goal,          \* what each client does, to what, up to where
    commitPc, commitBuf, commitTodo,            \* commitLoop()
    logged,                 \* the writes in log files, by tablet
    group,                  \* writes in the tables of tableGroup
    serializing, onDisk,    \* writes being written to and in disk fragments
    serializePc, shutdownPc,
    accepted,               \* all writes, in the order they were buffered
    died                    \* a thread under callOrDie() raised an error

clientVars == <<pc, tab, goal>>
commitVars == <<commitPc, commitBuf, commitTodo>>
queueVars == <<commitQ, nTasksPending, commitCancel, serializeQ, serializeCancel>>
dataVars == <<logged, group, serializing, onDisk>>
vars == <<mutationsPending, publicMutex, buffer, queueVars, clientVars,
          commitVars, dataVars, serializePc, shutdownPc, accepted, died>>

Write == [by : Client, tab : Tab, n : 1..MaxWrites]
ASSUME NoneAssumption == None \notin Seq(Write)

WritesBy(c) == {w \in ToSet(accepted) : w.by = c}

\* The writes of s to tablet t, in order.
OfTab(s, t) == Selected(s, {w \in Write : w.tab = t})

Logged == UNION {ToSet(logged[t]) : t \in Tab}

Init ==
    /\ mutationsPending = [t \in Tab |-> FALSE]
    /\ publicMutex = None /\ buffer = <<>>
    /\ commitQ = <<>> /\ nTasksPending = 0 /\ commitCancel = FALSE
    /\ serializeQ = <<>> /\ serializeCancel = FALSE
    /\ pc = [c \in Client |-> "idle"]
    /\ tab = [c \in Client |-> None]
    /\ goal = [c \in Client |-> 0]
    /\ commitPc = "pop" /\ commitBuf = <<>> /\ commitTodo = {}
    /\ logged = [t \in Tab |-> <<>>]
    /\ group = {} /\ serializing = {} /\ onDisk = {}
    /\ serializePc = "pop" /\ shutdownPc = "running"
    /\ accepted = <<>>
    /\ died = FALSE

-----------------------------------------------------------------------------
(* API threads.                                                            *)

Go(c, label) == pc' = [pc EXCEPT ![c] = label]

\* Mutant: the buffer is pushed and kept.
PushBufferKept ==
    /\ Len(commitQ) < CommitMax
    /\ commitQ' = Append(commitQ, buffer)
    /\ nTasksPending' = nTasksPending + 1
    /\ UNCHANGED buffer

\* flush(): the push to commitQueue, once it has room, and a new buffer.
PushBuffer ==
    /\ Len(commitQ) < CommitMax
    /\ commitQ' = Append(commitQ, buffer)
    /\ nTasksPending' = nTasksPending + 1
    /\ buffer' = <<>>

\* Tablet::set() or erase(): the mutation goes into the commit buffer.  If
\* that makes it full the thread flushes it, still holding publicMutex.
Set(c, t) ==
    LET w == [by |-> c, tab |-> t, n |-> Cardinality(WritesBy(c)) + 1]
        full == Len(buffer) + 1 >= BufferMax
    IN
    /\ pc[c] = "idle" /\ publicMutex = None /\ buffer # None
    /\ Cardinality(WritesBy(c)) < MaxWrites
    /\ buffer' = Append(buffer, w)
    /\ accepted' = Append(accepted, w)
    /\ tab' = [tab EXCEPT ![c] = t]
    /\ Go(c, IF full THEN "setFlush" ELSE "setMark")
    /\ publicMutex' = IF full THEN c ELSE None
    /\ UNCHANGED <<mutationsPending, queueVars, goal, commitVars, dataVars,
                   serializePc, shutdownPc, died>>

SetFlush(c) ==
    /\ pc[c] = "setFlush"
    /\ PushBuffer
    /\ publicMutex' = None
    /\ Go(c, "setMark")
    /\ UNCHANGED <<mutationsPending, commitCancel, serializeQ,
                   serializeCancel, tab, goal, commitVars, dataVars,
                   serializePc, shutdownPc, accepted, died>>

\* logger->set() has returned.
SetMark(c) ==
    /\ pc[c] = "setMark"
    /\ mutationsPending' = [mutationsPending EXCEPT ![tab[c]] = TRUE]
    /\ Go(c, "idle")
    /\ UNCHANGED <<publicMutex, buffer, queueVars, tab, goal, commitVars,
                   dataVars, serializePc, shutdownPc, accepted, died>>

\* Tablet::sync() is called.
Sync(c, t) ==
    /\ pc[c] = "idle"
    /\ tab' = [tab EXCEPT ![c] = t]
    /\ Go(c, "syncLoop")
    /\ UNCHANGED <<mutationsPending, publicMutex, buffer, queueVars, goal,
                   commitVars, dataVars, serializePc, shutdownPc, accepted,
                   died>>

\* One test of its loop: clear the flag and call logger->sync(), or return
\* (through saveConfig(), see module Tablet).
SyncLoop(c) ==
    /\ pc[c] = "syncLoop"
    /\ Go(c, IF mutationsPending[tab[c]] THEN "loggerSync" ELSE "idle")
    /\ mutationsPending' = [mutationsPending EXCEPT ![tab[c]] = FALSE]
    /\ goal' = [goal EXCEPT ![c] = 0]
    /\ UNCHANGED <<publicMutex, buffer, queueVars, tab, commitVars, dataVars,
                   serializePc, shutdownPc, accepted, died>>

\* SharedLogger::sync(), with publicMutex: raise an error after shutdown(),
\* skip the flush of an empty buffer.
LoggerSync(c) ==
    /\ pc[c] = "loggerSync" /\ publicMutex = None
    /\ goal' = [goal EXCEPT ![c] = IF buffer = None THEN 0 ELSE Len(accepted)]
    /\ Go(c, IF buffer = None THEN "idle"
             ELSE IF buffer = <<>> THEN "syncWait" ELSE "syncFlush")
    /\ publicMutex' = IF buffer \in {None, <<>>} THEN None ELSE c
    /\ UNCHANGED <<mutationsPending, buffer, queueVars, tab, commitVars,
                   dataVars, serializePc, shutdownPc, accepted, died>>

SyncFlush(c) ==
    /\ pc[c] = "syncFlush"
    /\ PushBuffer
    /\ publicMutex' = None
    /\ Go(c, "syncWait")
    /\ UNCHANGED <<mutationsPending, commitCancel, serializeQ,
                   serializeCancel, tab, goal, commitVars, dataVars,
                   serializePc, shutdownPc, accepted, died>>

\* waitForCompletion() returns true.
CommitDone == nTasksPending = 0

\* commitQueue.waitForCompletion(); an error if the wait was cancelled.
SyncWait(c) ==
    /\ pc[c] = "syncWait"
    /\ CommitDone \/ commitCancel
    /\ Go(c, IF CommitDone THEN "syncLoop" ELSE "idle")
    /\ goal' = [goal EXCEPT ![c] = IF CommitDone THEN @ ELSE 0]
    /\ UNCHANGED <<mutationsPending, publicMutex, buffer, queueVars, tab,
                   commitVars, dataVars, serializePc, shutdownPc, accepted,
                   died>>

-----------------------------------------------------------------------------
(* commitLoop()                                                            *)

\* Get the next buffer.
CommitPop ==
    /\ commitPc = "pop" /\ commitQ # <<>>
    /\ commitBuf' = Head(commitQ) /\ commitQ' = Tail(commitQ)
    /\ commitTodo' = {w.tab : w \in ToSet(Head(commitQ))}
    /\ commitPc' = "log"
    /\ UNCHANGED <<mutationsPending, publicMutex, buffer, nTasksPending,
                   commitCancel, serializeQ, serializeCancel, clientVars,
                   dataVars, serializePc, shutdownPc, accepted, died>>

\* Mutant: pop() gives up as soon as waits are cancelled.
CommitExitEarly ==
    /\ commitPc = "pop" /\ commitCancel
    /\ commitPc' = "done"
    /\ UNCHANGED <<mutationsPending, publicMutex, buffer, queueVars,
                   clientVars, commitBuf, commitTodo, dataVars, serializePc,
                   shutdownPc, accepted, died>>

\* pop() fails when the queue is empty and waits are cancelled.
CommitExit ==
    /\ commitPc = "pop" /\ commitQ = <<>> /\ commitCancel
    /\ commitPc' = "done"
    /\ UNCHANGED <<mutationsPending, publicMutex, buffer, queueVars,
                   clientVars, commitBuf, commitTodo, dataVars, serializePc,
                   shutdownPc, accepted, died>>

\* CommitBuffer::writeLog(): cells are grouped by tablet, in order, and the
\* log is synced.
WriteLog ==
    /\ commitPc = "log"
    /\ logged' = [t \in Tab |-> logged[t] \o OfTab(commitBuf, t)]
    /\ commitPc' = "apply"
    /\ UNCHANGED <<mutationsPending, publicMutex, buffer, queueVars,
                   clientVars, commitBuf, commitTodo, group, serializing,
                   onDisk, serializePc, shutdownPc, accepted, died>>

\* replayToTables(): applyMutations() for the cells of tablet t.
Apply(t) ==
    /\ commitPc = "apply" /\ t \in commitTodo
    /\ group' = group \cup ToSet(OfTab(commitBuf, t))
    /\ commitTodo' = commitTodo \ {t}
    /\ UNCHANGED <<mutationsPending, publicMutex, buffer, queueVars,
                   clientVars, commitPc, commitBuf, logged, serializing,
                   onDisk, serializePc, shutdownPc, accepted, died>>

GroupFull == Cardinality(group) >= GroupMax

\* Mutant: a push that fails is not noticed.
PushGroupUnchecked ==
    /\ commitPc = "apply" /\ commitTodo = {} /\ GroupFull
    /\ Len(serializeQ) < SerializeMax \/ serializeCancel
    /\ serializeQ' = IF Len(serializeQ) < SerializeMax
                     THEN Append(serializeQ, group) ELSE serializeQ
    /\ group' = {}
    /\ UNCHANGED <<mutationsPending, publicMutex, buffer, commitQ,
                   nTasksPending, commitCancel, serializeCancel, clientVars,
                   commitVars, logged, serializing, onDisk, serializePc,
                   shutdownPc, accepted, died>>

\* A full group goes to the serialize thread, and the log with it.  The push
\* raises an error if the queue is full and waits are cancelled.
PushGroup ==
    /\ commitPc = "apply" /\ commitTodo = {} /\ GroupFull
    /\ \/ /\ Len(serializeQ) < SerializeMax
          /\ serializeQ' = Append(serializeQ, group)
          /\ group' = {}
          /\ UNCHANGED died
       \/ /\ Len(serializeQ) >= SerializeMax /\ serializeCancel
          /\ died' = TRUE
          /\ UNCHANGED <<serializeQ, group>>
    /\ UNCHANGED <<mutationsPending, publicMutex, buffer, commitQ,
                   nTasksPending, commitCancel, serializeCancel, clientVars,
                   commitVars, logged, serializing, onDisk, serializePc,
                   shutdownPc, accepted>>

\* Mutant: a buffer is not acknowledged.
TaskCompleteForgotten ==
    /\ commitPc = "apply" /\ commitTodo = {} /\ ~GroupFull
    /\ commitBuf' = <<>>
    /\ commitPc' = "pop"
    /\ UNCHANGED <<mutationsPending, publicMutex, buffer, queueVars,
                   clientVars, commitTodo, dataVars, serializePc, shutdownPc,
                   accepted, died>>

\* Mutant: a buffer is acknowledged when it is logged, and then applied.
TaskCompleteEarly ==
    /\ commitPc = "apply"
    /\ \/ /\ nTasksPending > Len(commitQ)
          /\ nTasksPending' = nTasksPending - 1
          /\ UNCHANGED <<commitBuf, commitPc>>
       \/ /\ nTasksPending = Len(commitQ) /\ commitTodo = {} /\ ~GroupFull
          /\ commitBuf' = <<>> /\ commitPc' = "pop"
          /\ UNCHANGED nTasksPending
    /\ UNCHANGED <<mutationsPending, publicMutex, buffer, commitQ,
                   commitCancel, serializeQ, serializeCancel, clientVars,
                   commitTodo, dataVars, serializePc, shutdownPc, accepted,
                   died>>

\* commitQueue.taskComplete()
TaskComplete ==
    /\ commitPc = "apply" /\ commitTodo = {} /\ ~GroupFull
    /\ nTasksPending' = nTasksPending - 1
    /\ commitBuf' = <<>>
    /\ commitPc' = "pop"
    /\ UNCHANGED <<mutationsPending, publicMutex, buffer, commitQ,
                   commitCancel, serializeQ, serializeCancel, clientVars,
                   commitTodo, dataVars, serializePc, shutdownPc, accepted,
                   died>>

-----------------------------------------------------------------------------
(* serializeLoop()                                                         *)

SerializePop ==
    /\ serializePc = "pop" /\ serializeQ # <<>>
    /\ serializing' = Head(serializeQ) /\ serializeQ' = Tail(serializeQ)
    /\ serializePc' = "serialize"
    /\ UNCHANGED <<mutationsPending, publicMutex, buffer, commitQ,
                   nTasksPending, commitCancel, serializeCancel, clientVars,
                   commitVars, logged, group, onDisk, shutdownPc, accepted,
                   died>>

\* TableGroup::serialize() has replaced the log in every tablet.
Serialize ==
    /\ serializePc = "serialize"
    /\ onDisk' = onDisk \cup serializing
    /\ serializing' = {}
    /\ serializePc' = "pop"
    /\ UNCHANGED <<mutationsPending, publicMutex, buffer, queueVars,
                   clientVars, commitVars, logged, group, shutdownPc,
                   accepted, died>>

SerializeExit ==
    /\ serializePc = "pop" /\ serializeQ = <<>> /\ serializeCancel
    /\ serializePc' = "done"
    /\ UNCHANGED <<mutationsPending, publicMutex, buffer, queueVars,
                   clientVars, commitVars, dataVars, shutdownPc, accepted,
                   died>>

-----------------------------------------------------------------------------
(* shutdown(), by one thread that is not a client.                         *)

Shutdown ==
    /\ shutdownPc = "running" /\ publicMutex = None
    /\ publicMutex' = "shutdown"
    /\ shutdownPc' = IF buffer = <<>> THEN "cancel" ELSE "flush"
    /\ UNCHANGED <<mutationsPending, buffer, queueVars, clientVars,
                   commitVars, dataVars, serializePc, accepted, died>>

ShutdownFlush ==
    /\ shutdownPc = "flush"
    /\ PushBuffer
    /\ shutdownPc' = "cancel"
    /\ UNCHANGED <<mutationsPending, publicMutex, commitCancel, serializeQ,
                   serializeCancel, clientVars, commitVars, dataVars,
                   serializePc, accepted, died>>

\* cancelWaits() on the two queues, one after the other.
ShutdownCancel ==
    /\ shutdownPc = "cancel"
    /\ IF ~commitCancel
       THEN commitCancel' = TRUE /\ UNCHANGED <<serializeCancel, shutdownPc>>
       ELSE serializeCancel' = TRUE /\ shutdownPc' = "join"
            /\ UNCHANGED commitCancel
    /\ UNCHANGED <<mutationsPending, publicMutex, buffer, commitQ,
                   nTasksPending, serializeQ, clientVars, commitVars,
                   dataVars, serializePc, accepted, died>>

ShutdownJoin ==
    /\ shutdownPc = "join" /\ commitPc = "done" /\ serializePc = "done"
    /\ buffer' = None /\ publicMutex' = None
    /\ group' = {}
    /\ shutdownPc' = "done"
    /\ UNCHANGED <<mutationsPending, queueVars, clientVars, commitVars, logged,
                   serializing, onDisk, serializePc, accepted, died>>

-----------------------------------------------------------------------------
ClientStep(c) == SetFlush(c) \/ SetMark(c) \/ SyncLoop(c) \/ LoggerSync(c)
                 \/ SyncFlush(c) \/ SyncWait(c)
CommitStep == CommitPop \/ CommitExit \/ WriteLog \/ (\E t \in Tab : Apply(t))
              \/ PushGroup \/ TaskComplete
SerializeStep == SerializePop \/ Serialize \/ SerializeExit
ShutdownStep == ShutdownFlush \/ ShutdownCancel \/ ShutdownJoin

\* Nothing runs in a process that callOrDie() has ended.
Next == ~died /\ \/ \E c \in Client, t \in Tab : Set(c, t) \/ Sync(c, t)
                 \/ \E c \in Client : ClientStep(c)
                 \/ CommitStep \/ SerializeStep
                 \/ Shutdown \/ ShutdownStep

Spec == Init /\ [][Next]_vars

\* A call or a thread that can go on does so; nobody has to call anything.
Fairness == /\ \A c \in Client : WF_vars(~died /\ ClientStep(c))
            /\ WF_vars(~died /\ CommitStep)
            /\ WF_vars(~died /\ SerializeStep)
            /\ WF_vars(~died /\ ShutdownStep)
FairSpec == Spec /\ Fairness

-----------------------------------------------------------------------------
(* Properties.                                                             *)

\* Every variable has its type.
TypeOK ==
    /\ mutationsPending \in [Tab -> BOOLEAN]
    /\ publicMutex \in Client \cup {None, "shutdown"}
    /\ buffer \in Seq(Write) \cup {None}
    /\ commitQ \in Seq(Seq(Write)) /\ Len(commitQ) <= CommitMax
    /\ nTasksPending \in Nat
    /\ commitCancel \in BOOLEAN /\ serializeCancel \in BOOLEAN
    /\ serializeQ \in Seq(SUBSET Write) /\ Len(serializeQ) <= SerializeMax
    /\ pc \in [Client -> {"idle", "setFlush", "setMark", "loggerSync",
                          "syncFlush", "syncWait", "syncLoop"}]
    /\ tab \in [Client -> Tab \cup {None}]
    /\ goal \in [Client -> Nat]
    /\ commitPc \in {"pop", "log", "apply", "done"}
    /\ commitBuf \in Seq(Write) /\ commitTodo \subseteq Tab
    /\ logged \in [Tab -> Seq(Write)]
    /\ group \subseteq Write /\ serializing \subseteq Write
    /\ onDisk \subseteq Write
    /\ serializePc \in {"pop", "serialize", "done"}
    /\ shutdownPc \in {"running", "flush", "cancel", "join", "done"}
    /\ accepted \in Seq(Write)
    /\ died \in BOOLEAN

\* What a tablet's log entries will be once all that is buffered is logged.
Pipeline(t) ==
    logged[t] \o (IF commitPc = "log" THEN OfTab(commitBuf, t) ELSE <<>>)
              \o OfTab(FlattenSeq(commitQ), t)
              \o (IF buffer = None THEN <<>> ELSE OfTab(buffer, t))

\* Until the process ends no write to a tablet is lost, repeated or overtaken
\* on its way from set() to the log, whoever fills and flushes the buffer.
LogKeepsOrder == \A t \in Tab : Pipeline(t) = OfTab(accepted, t)

\* Writes in the tables of the open group, of the groups that wait or are
\* being written, and in disk fragments.
InTables == group \cup (UNION ToSet(serializeQ)) \cup serializing \cup onDisk

\* Every logged write is in memory or on disk, and no table has a write that
\* is not in the log.
TablesMatchLog ==
    /\ InTables \subseteq Logged
    /\ commitPc = "pop" => Logged = InTables

\* When logger->sync() has returned, everything buffered before it was called
\* is in the log, where it survives a crash, and in the tables, where scans
\* find it and compactions carry it on; shutdown() ends with the open group
\* dropped, and leaves its writes to the log.
LoggerSyncIsDurable ==
    \A c \in Client : pc[c] = "syncLoop" =>
        LET synced == ToSet(SubSeq(accepted, 1, goal[c])) IN
        /\ synced \subseteq Logged
        /\ shutdownPc # "done" => synced \subseteq InTables

\* shutdown() returns when all writes ever accepted are in the log.
ShutdownLogsAll == shutdownPc = "done" => ToSet(accepted) \subseteq Logged

\* Every set() and sync() returns, and so does shutdown(), unless the process
\* dies: no thread waits for ever on a queue or on publicMutex.
CallsReturn ==
    /\ \A c \in Client : pc[c] # "idle" ~> pc[c] = "idle" \/ died
    /\ shutdownPc # "running" ~> shutdownPc = "done" \/ died
=============================================================================
