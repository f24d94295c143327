------------------------- MODULE SharedLoggerProofs -------------------------
(***************************************************************************)
(* Proofs about SharedLogger, for any number of clients, tablets and       *)
(* writes and any limit of a buffer, a group or a queue.                   *)
(***************************************************************************)
EXTENDS SharedLogger, SequenceLemmas

-----------------------------------------------------------------------------
(* The inductive invariant.                                                *)

\* Until shutdown() is done there is a buffer.  A thread that flushes it holds
\* publicMutex, and so does shutdown(), which leaves the buffer empty.
MutexGuardsBuffer ==
    /\ shutdownPc # "done" => buffer \in Seq(Write)
    /\ shutdownPc = "done" => buffer = None /\ publicMutex = None
    /\ shutdownPc \in {"flush", "cancel", "join"} => publicMutex = "shutdown"
    /\ shutdownPc \in {"cancel", "join"} => buffer = <<>>
    /\ \A c \in Client : pc[c] \in {"setFlush", "syncFlush"} => publicMutex = c

\* The commit thread ends only once no buffer can come any more, and a buffer
\* counts as pending until it has been applied.
CommitEnds ==
    /\ nTasksPending = Len(commitQ) + (IF commitPc \in {"log", "apply"} THEN 1 ELSE 0)
    /\ commitCancel => shutdownPc \in {"cancel", "join", "done"}
    /\ commitPc = "done" => commitQ = <<>> /\ commitCancel
    /\ shutdownPc = "done" => commitPc = "done"

\* The tables have what the log has, but for what the commit thread is about
\* to apply, until shutdown() drops the open group.
TablesFollowLog ==
    /\ serializePc # "serialize" => serializing = {}
    /\ commitPc \in {"pop", "log"} => Logged = InTables
    /\ commitPc = "log" => commitTodo = {w.tab : w \in ToSet(commitBuf)}
    /\ commitPc = "apply" =>
           Logged = InTables \cup {w \in ToSet(commitBuf) : w.tab \in commitTodo}
    /\ commitPc = "done" =>
           InTables \subseteq Logged /\ (shutdownPc # "done" => Logged = InTables)

\* Writes in buffers on their way to the log.
InCommit == (IF commitPc = "log" THEN ToSet(commitBuf) ELSE {})
            \cup UNION {ToSet(b) : b \in ToSet(commitQ)}
InBuffer == IF shutdownPc = "done" THEN {} ELSE ToSet(buffer)

\* Every accepted write is in the log or on its way to it.
Accounted == ToSet(accepted) \subseteq Logged \cup InCommit \cup InBuffer

\* What a sync waits for has left the buffer when it waits, and is in the log
\* and in the tables when it has waited; goal is 0 outside of a sync.
GoalReached(c) ==
    /\ goal[c] <= Len(accepted)
    /\ pc[c] \in {"idle", "setFlush", "setMark", "loggerSync"} => goal[c] = 0
    /\ pc[c] = "syncWait" =>
           ToSet(SubSeq(accepted, 1, goal[c])) \subseteq Logged \cup InCommit
    /\ pc[c] = "syncLoop" =>
           /\ ToSet(SubSeq(accepted, 1, goal[c])) \subseteq Logged
           /\ shutdownPc # "done" =>
                  ToSet(SubSeq(accepted, 1, goal[c])) \subseteq InTables
GoalsReached == \A c \in Client : GoalReached(c)

IInv == /\ TypeOK /\ MutexGuardsBuffer /\ CommitEnds /\ TablesFollowLog
        /\ Accounted /\ GoalsReached /\ LogKeepsOrder

-----------------------------------------------------------------------------
(* The writes of a sequence to one tablet.                                 *)

\* The writes to t of a sequence with one more write.
LEMMA OfTabStep ==
    ASSUME NEW t, NEW s \in Seq(Write)
    PROVE  /\ OfTab(<<>>, t) = <<>>
           /\ OfTab(s, t) \in Seq(Write)
           /\ \A w \in Write :
                  OfTab(Append(s, w), t)
                      = IF w.tab = t THEN Append(OfTab(s, t), w) ELSE OfTab(s, t)
<1>1. \A w \in Write : w \in {x \in Write : x.tab = t} <=> w.tab = t
  OBVIOUS
<1> QED BY <1>1, SelectedStep DEF OfTab

\* The writes to t of two sequences one after the other, and as a set.
LEMMA OfTabProperties ==
    ASSUME NEW t, NEW s \in Seq(Write), NEW u \in Seq(Write)
    PROVE  /\ OfTab(s \o u, t) = OfTab(s, t) \o OfTab(u, t)
           /\ ToSet(OfTab(s, t)) = {w \in ToSet(s) : w.tab = t}
<1> DEFINE S == {x \in Write : x.tab = t}
<1>1. ToSet(s) \cap S = {w \in ToSet(s) : w.tab = t}
  BY ElementOfSeq DEF ToSet
<1>2. /\ OfTab(s \o u, t) = Selected(s \o u, S)
      /\ OfTab(s, t) = Selected(s, S) /\ OfTab(u, t) = Selected(u, S)
  BY DEF OfTab
<1> HIDE DEF S
<1>3. /\ Selected(s \o u, S) = Selected(s, S) \o Selected(u, S)
      /\ ToSet(Selected(s, S)) = ToSet(s) \cap S
  BY SelectedProperties
<1> QED BY <1>1, <1>2, <1>3, Zenon

-----------------------------------------------------------------------------
(* Types.                                                                  *)

\* A client that may still write has written a number of times below
\* MaxWrites, and its next write has the next number.
LEMMA WriteTyped ==
    ASSUME accepted \in Seq(Write), NEW c \in Client, NEW t \in Tab,
           Cardinality(WritesBy(c)) < MaxWrites
    PROVE  [by |-> c, tab |-> t, n |-> Cardinality(WritesBy(c)) + 1] \in Write
<1>1. IsFiniteSet(ToSet(accepted))
  BY ToSetFinite
<1>2. IsFiniteSet(WritesBy(c))
  <2>1. WritesBy(c) \in SUBSET ToSet(accepted)
    BY DEF WritesBy
  <2> QED BY <1>1, <2>1, FS_Subset
<1>3. Cardinality(WritesBy(c)) \in Nat
  BY <1>2, FS_CardinalityType
<1> QED BY <1>3, SharedLoggerAssumption DEF Write

\* Every step keeps the types.
LEMMA TypeStep ==
    ASSUME TypeOK, MutexGuardsBuffer, CommitEnds, [Next]_vars
    PROVE  TypeOK'
<1> USE SharedLoggerAssumption
<1>1. ASSUME NEW c \in Client, NEW t \in Tab, Set(c, t) PROVE TypeOK'
  <2> DEFINE w == [by |-> c, tab |-> t, n |-> Cardinality(WritesBy(c)) + 1]
  <2>1. w \in Write
    BY <1>1, WriteTyped DEF Set, TypeOK
  <2>2. buffer \in Seq(Write)
    BY <1>1 DEF Set, TypeOK
  <2>3. Append(buffer, w) \in Seq(Write) /\ Append(accepted, w) \in Seq(Write)
    BY <2>1, <2>2 DEF TypeOK
  <2>4. buffer' = Append(buffer, w) /\ accepted' = Append(accepted, w)
    BY <1>1 DEF Set
  <2> HIDE DEF w
  <2> QED BY <1>1, <2>3, <2>4 DEF Set, TypeOK, Go, queueVars, commitVars, dataVars
<1>2. ASSUME NEW c \in Client, SetFlush(c) PROVE TypeOK'
  <2>1. buffer \in Seq(Write)
    BY <1>2, SharedLoggerAssumption DEF SetFlush, MutexGuardsBuffer, TypeOK
  <2>2. commitQ' \in Seq(Seq(Write)) /\ Len(commitQ') <= CommitMax
    BY <1>2, <2>1 DEF SetFlush, PushBuffer, TypeOK
  <2>3. buffer' \in Seq(Write) /\ nTasksPending' \in Nat
    BY <1>2 DEF SetFlush, PushBuffer, TypeOK
  <2> QED BY <1>2, <2>2, <2>3 DEF SetFlush, TypeOK, Go, clientVars, commitVars,
                  dataVars
<1>3. ASSUME NEW c \in Client, SetMark(c) PROVE TypeOK'
  <2>1. mutationsPending' \in [Tab -> BOOLEAN]
    BY <1>3 DEF SetMark, TypeOK
  <2>2. pc' \in [Client -> {"idle", "setFlush", "setMark", "loggerSync",
                           "syncFlush", "syncWait", "syncLoop"}]
    BY <1>3 DEF SetMark, Go, TypeOK
  <2> QED BY <1>3, <2>1, <2>2 DEF SetMark, TypeOK, queueVars, commitVars,
                  dataVars
<1>4. ASSUME NEW c \in Client, NEW t \in Tab, Sync(c, t) PROVE TypeOK'
  BY <1>4 DEF Sync, TypeOK, Go, PushBuffer, vars, queueVars,
          clientVars, commitVars, dataVars
<1>5. ASSUME NEW c \in Client, SyncLoop(c) PROVE TypeOK'
  <2>1. mutationsPending' \in [Tab -> BOOLEAN] /\ goal' \in [Client -> Nat]
    BY <1>5 DEF SyncLoop, TypeOK
  <2>2. pc' \in [Client -> {"idle", "setFlush", "setMark", "loggerSync",
                           "syncFlush", "syncWait", "syncLoop"}]
    BY <1>5 DEF SyncLoop, Go, TypeOK
  <2> QED BY <1>5, <2>1, <2>2 DEF SyncLoop, TypeOK, queueVars, commitVars,
                  dataVars
<1>6. ASSUME NEW c \in Client, LoggerSync(c) PROVE TypeOK'
  BY <1>6 DEF LoggerSync, TypeOK, Go, PushBuffer, vars, queueVars,
          clientVars, commitVars, dataVars
<1>7. ASSUME NEW c \in Client, SyncFlush(c) PROVE TypeOK'
  <2>1. buffer \in Seq(Write)
    BY <1>7, SharedLoggerAssumption DEF SyncFlush, MutexGuardsBuffer, TypeOK
  <2>2. commitQ' \in Seq(Seq(Write)) /\ Len(commitQ') <= CommitMax
    BY <1>7, <2>1 DEF SyncFlush, PushBuffer, TypeOK
  <2>3. buffer' \in Seq(Write) /\ nTasksPending' \in Nat
    BY <1>7 DEF SyncFlush, PushBuffer, TypeOK
  <2> QED BY <1>7, <2>2, <2>3 DEF SyncFlush, TypeOK, Go, clientVars, commitVars,
                  dataVars
<1>8. ASSUME NEW c \in Client, SyncWait(c) PROVE TypeOK'
  BY <1>8 DEF SyncWait, TypeOK, Go, PushBuffer, vars, queueVars,
          clientVars, commitVars, dataVars
<1>9. ASSUME CommitPop PROVE TypeOK'
  <2>1. commitBuf' \in Seq(Write) /\ commitQ' \in Seq(Seq(Write))
        /\ Len(commitQ') <= CommitMax
    BY <1>9 DEF CommitPop, TypeOK
  <2>2. ToSet(commitBuf') \subseteq Write
    BY <2>1, ToSetProperties
  <2>3. commitTodo' \subseteq Tab
    BY <1>9, <2>2 DEF CommitPop, Write
  <2> QED BY <1>9, <2>1, <2>3 DEF CommitPop, TypeOK, clientVars, dataVars
<1>10. ASSUME CommitExit PROVE TypeOK'
  BY <1>10 DEF CommitExit, TypeOK, Go, PushBuffer, vars, queueVars,
          clientVars, commitVars, dataVars
<1>11. ASSUME WriteLog PROVE TypeOK'
  <2>1. \A t \in Tab : OfTab(commitBuf, t) \in Seq(Write)
    BY OfTabStep DEF TypeOK
  <2>2. \A t \in Tab : logged[t] \o OfTab(commitBuf, t) \in Seq(Write)
    BY <2>1 DEF TypeOK
  <2>3. logged' \in [Tab -> Seq(Write)]
    BY <1>11, <2>2 DEF WriteLog
  <2> QED BY <1>11, <2>3 DEF WriteLog, TypeOK, queueVars, clientVars
<1>12. ASSUME NEW t \in Tab, Apply(t) PROVE TypeOK'
  <2>1. OfTab(commitBuf, t) \in Seq(Write)
    BY OfTabStep DEF TypeOK
  <2>2. ToSet(OfTab(commitBuf, t)) \subseteq Write
    BY <2>1, ToSetProperties
  <2> QED BY <1>12, <2>2 DEF Apply, TypeOK, queueVars, clientVars
<1>13. ASSUME PushGroup PROVE TypeOK'
  <2>1. serializeQ' \in Seq(SUBSET Write) /\ Len(serializeQ') <= SerializeMax
        /\ group' \subseteq Write /\ died' \in BOOLEAN
    <3>1. CASE Len(serializeQ) < SerializeMax /\ serializeQ' = Append(serializeQ, group)
               /\ group' = {} /\ UNCHANGED died
      <4>1. group \in SUBSET Write
        BY DEF TypeOK
      <4>2. Append(serializeQ, group) \in Seq(SUBSET Write)
            /\ Len(Append(serializeQ, group)) = Len(serializeQ) + 1
            /\ Len(serializeQ) \in Nat
        BY <4>1 DEF TypeOK
      <4>3. Len(serializeQ) + 1 <= SerializeMax
        BY <3>1, <4>2
      <4> QED BY <3>1, <4>2, <4>3 DEF TypeOK
    <3>2. CASE died' = TRUE /\ UNCHANGED <<serializeQ, group>>
      BY <3>2 DEF TypeOK
    <3> QED BY <1>13, <3>1, <3>2 DEF PushGroup
  <2> QED BY <1>13, <2>1 DEF PushGroup, TypeOK, clientVars, commitVars
<1>14. ASSUME TaskComplete PROVE TypeOK'
  <2>1. nTasksPending \in Nat \ {0}
    BY <1>14 DEF TaskComplete, CommitEnds, TypeOK
  <2> QED BY <1>14, <2>1 DEF TaskComplete, TypeOK, clientVars, dataVars
<1>15. ASSUME SerializePop PROVE TypeOK'
  BY <1>15 DEF SerializePop, TypeOK, Go, PushBuffer, vars, queueVars,
          clientVars, commitVars, dataVars
<1>16. ASSUME Serialize PROVE TypeOK'
  BY <1>16 DEF Serialize, TypeOK, Go, PushBuffer, vars, queueVars,
          clientVars, commitVars, dataVars
<1>17. ASSUME SerializeExit PROVE TypeOK'
  BY <1>17 DEF SerializeExit, TypeOK, Go, PushBuffer, vars, queueVars,
          clientVars, commitVars, dataVars
<1>18. ASSUME Shutdown PROVE TypeOK'
  BY <1>18 DEF Shutdown, TypeOK, Go, PushBuffer, vars, queueVars,
          clientVars, commitVars, dataVars
<1>19. ASSUME ShutdownFlush PROVE TypeOK'
  <2>1. buffer \in Seq(Write)
    BY <1>19, SharedLoggerAssumption DEF ShutdownFlush, MutexGuardsBuffer, TypeOK
  <2>2. commitQ' \in Seq(Seq(Write)) /\ Len(commitQ') <= CommitMax
    BY <1>19, <2>1 DEF ShutdownFlush, PushBuffer, TypeOK
  <2>3. buffer' \in Seq(Write) /\ nTasksPending' \in Nat
    BY <1>19 DEF ShutdownFlush, PushBuffer, TypeOK
  <2> QED BY <1>19, <2>2, <2>3 DEF ShutdownFlush, TypeOK, Go, clientVars, commitVars,
                  dataVars
<1>20. ASSUME ShutdownCancel PROVE TypeOK'
  BY <1>20 DEF ShutdownCancel, TypeOK, Go, PushBuffer, vars, queueVars,
          clientVars, commitVars, dataVars
<1>21. ASSUME ShutdownJoin PROVE TypeOK'
  BY <1>21 DEF ShutdownJoin, TypeOK, Go, PushBuffer, vars, queueVars,
          clientVars, commitVars, dataVars
<1>22. ASSUME UNCHANGED vars PROVE TypeOK'
  BY <1>22 DEF TypeOK, Go, PushBuffer, vars, queueVars,
          clientVars, commitVars, dataVars
<1> QED BY <1>1, <1>2, <1>3, <1>4, <1>5, <1>6, <1>7, <1>8, <1>9, <1>10,
           <1>11, <1>12, <1>13, <1>14, <1>15, <1>16, <1>17, <1>18, <1>19,
           <1>20, <1>21, <1>22
       DEF Next, ClientStep, CommitStep, SerializeStep, ShutdownStep

-----------------------------------------------------------------------------
(* Control: who holds publicMutex, and when the commit thread ends.        *)

\* Nobody flushes while publicMutex is free, and shutdown() has not begun or
\* is over.
LEMMA MutexFree ==
    ASSUME TypeOK, MutexGuardsBuffer, publicMutex = None
    PROVE  /\ shutdownPc \in {"running", "done"}
           /\ \A c \in Client : pc[c] \notin {"setFlush", "syncFlush"}
BY SharedLoggerAssumption DEF TypeOK, MutexGuardsBuffer

\* A client that flushes is the only one, before shutdown() has begun.
LEMMA MutexOfClient ==
    ASSUME TypeOK, MutexGuardsBuffer, NEW c \in Client,
           pc[c] \in {"setFlush", "syncFlush"}
    PROVE  /\ shutdownPc = "running" /\ buffer \in Seq(Write)
           /\ publicMutex = c
           /\ \A d \in Client \ {c} : pc[d] \notin {"setFlush", "syncFlush"}
BY SharedLoggerAssumption DEF TypeOK, MutexGuardsBuffer

\* While shutdown() holds publicMutex no client flushes.
LEMMA MutexOfShutdown ==
    ASSUME TypeOK, MutexGuardsBuffer, shutdownPc \in {"flush", "cancel", "join"}
    PROVE  /\ publicMutex = "shutdown" /\ buffer \in Seq(Write)
           /\ \A c \in Client : pc[c] \notin {"setFlush", "syncFlush"}
BY SharedLoggerAssumption DEF TypeOK, MutexGuardsBuffer

\* A step that leaves publicMutex, the buffer and shutdown() alone, and after
\* which no client flushes that did not before, keeps MutexGuardsBuffer.
LEMMA MutexKept ==
    ASSUME TypeOK, MutexGuardsBuffer, UNCHANGED <<publicMutex, buffer, shutdownPc>>,
           \A c \in Client : pc'[c] \in {"setFlush", "syncFlush"} => pc'[c] = pc[c]
    PROVE  MutexGuardsBuffer'
BY DEF TypeOK, MutexGuardsBuffer

\* Every step keeps MutexGuardsBuffer.
LEMMA MutexStep ==
    ASSUME TypeOK, MutexGuardsBuffer, CommitEnds, [Next]_vars
    PROVE  MutexGuardsBuffer'
<1>1. ASSUME NEW c \in Client, NEW t \in Tab, Set(c, t) PROVE MutexGuardsBuffer'
  <2> DEFINE w == [by |-> c, tab |-> t, n |-> Cardinality(WritesBy(c)) + 1]
  <2>1. shutdownPc = "running" /\ buffer \in Seq(Write)
        /\ \A d \in Client : pc[d] \notin {"setFlush", "syncFlush"}
    BY <1>1, MutexFree DEF Set, MutexGuardsBuffer
  <2>2. w \in Write
    BY <1>1, WriteTyped DEF Set, TypeOK
  <2>3. buffer' \in Seq(Write) /\ shutdownPc' = "running"
    BY <1>1, <2>1, <2>2 DEF Set
  <2>4. \A d \in Client : d # c => pc'[d] = pc[d]
    BY <1>1 DEF Set, Go, TypeOK
  <2>5. pc'[c] = "setFlush" => publicMutex' = c
    BY <1>1 DEF Set, Go, TypeOK
  <2>6. pc'[c] \in {"setFlush", "setMark"}
    BY <1>1 DEF Set, Go, TypeOK
  <2> QED BY <2>1, <2>3, <2>4, <2>5, <2>6 DEF MutexGuardsBuffer
<1>2. ASSUME NEW c \in Client, SetFlush(c) PROVE MutexGuardsBuffer'
  <2>1. shutdownPc = "running" /\ buffer \in Seq(Write)
        /\ \A d \in Client \ {c} : pc[d] \notin {"setFlush", "syncFlush"}
    BY <1>2, MutexOfClient DEF SetFlush
  <2>2. \A d \in Client : pc'[d] \notin {"setFlush", "syncFlush"}
    BY <1>2, <2>1 DEF SetFlush, Go, TypeOK
  <2> QED BY <1>2, <2>1, <2>2 DEF SetFlush, PushBuffer, MutexGuardsBuffer
<1>3. ASSUME NEW c \in Client, SetMark(c) PROVE MutexGuardsBuffer'
  BY <1>3, MutexKept DEF SetMark, Go, TypeOK
<1>4. ASSUME NEW c \in Client, NEW t \in Tab, Sync(c, t) PROVE MutexGuardsBuffer'
  BY <1>4, MutexKept DEF Sync, Go, TypeOK
<1>5. ASSUME NEW c \in Client, SyncLoop(c) PROVE MutexGuardsBuffer'
  BY <1>5, MutexKept DEF SyncLoop, Go, TypeOK
<1>6. ASSUME NEW c \in Client, LoggerSync(c) PROVE MutexGuardsBuffer'
  <2>1. shutdownPc \in {"running", "done"}
        /\ \A d \in Client : pc[d] \notin {"setFlush", "syncFlush"}
    BY <1>6, MutexFree DEF LoggerSync
  <2>2. \A d \in Client : d # c => pc'[d] = pc[d]
    BY <1>6 DEF LoggerSync, Go, TypeOK
  <2>3. /\ pc'[c] \in {"setFlush", "syncFlush"} => publicMutex' = c
        /\ buffer = None => publicMutex' = None
    BY <1>6 DEF LoggerSync, Go, TypeOK
  <2> QED BY <1>6, <2>1, <2>2, <2>3 DEF LoggerSync, MutexGuardsBuffer
<1>7. ASSUME NEW c \in Client, SyncFlush(c) PROVE MutexGuardsBuffer'
  <2>1. shutdownPc = "running" /\ buffer \in Seq(Write)
        /\ \A d \in Client \ {c} : pc[d] \notin {"setFlush", "syncFlush"}
    BY <1>7, MutexOfClient DEF SyncFlush
  <2>2. \A d \in Client : pc'[d] \notin {"setFlush", "syncFlush"}
    BY <1>7, <2>1 DEF SyncFlush, Go, TypeOK
  <2> QED BY <1>7, <2>1, <2>2 DEF SyncFlush, PushBuffer, MutexGuardsBuffer
<1>8. ASSUME NEW c \in Client, SyncWait(c) PROVE MutexGuardsBuffer'
  BY <1>8, MutexKept DEF SyncWait, Go, TypeOK
<1>9. ASSUME CommitPop PROVE MutexGuardsBuffer'
  BY <1>9, MutexKept DEF CommitPop, clientVars
<1>10. ASSUME CommitExit PROVE MutexGuardsBuffer'
  BY <1>10, MutexKept DEF CommitExit, clientVars
<1>11. ASSUME WriteLog PROVE MutexGuardsBuffer'
  BY <1>11, MutexKept DEF WriteLog, clientVars
<1>12. ASSUME NEW t \in Tab, Apply(t) PROVE MutexGuardsBuffer'
  BY <1>12, MutexKept DEF Apply, clientVars
<1>13. ASSUME PushGroup PROVE MutexGuardsBuffer'
  BY <1>13, MutexKept DEF PushGroup, clientVars
<1>14. ASSUME TaskComplete PROVE MutexGuardsBuffer'
  BY <1>14, MutexKept DEF TaskComplete, clientVars
<1>15. ASSUME SerializePop PROVE MutexGuardsBuffer'
  BY <1>15, MutexKept DEF SerializePop, clientVars
<1>16. ASSUME Serialize PROVE MutexGuardsBuffer'
  BY <1>16, MutexKept DEF Serialize, clientVars
<1>17. ASSUME SerializeExit PROVE MutexGuardsBuffer'
  BY <1>17, MutexKept DEF SerializeExit, clientVars
<1>18. ASSUME Shutdown PROVE MutexGuardsBuffer'
  <2>1. \A c \in Client : pc[c] \notin {"setFlush", "syncFlush"}
    BY <1>18, MutexFree DEF Shutdown
  <2> QED BY <1>18, <2>1 DEF Shutdown, MutexGuardsBuffer, clientVars
<1>19. ASSUME ShutdownFlush PROVE MutexGuardsBuffer'
  <2>1. publicMutex = "shutdown" /\ buffer \in Seq(Write)
        /\ \A c \in Client : pc[c] \notin {"setFlush", "syncFlush"}
    BY <1>19, MutexOfShutdown DEF ShutdownFlush
  <2> QED BY <1>19, <2>1 DEF ShutdownFlush, PushBuffer, MutexGuardsBuffer, clientVars
<1>20. ASSUME ShutdownCancel PROVE MutexGuardsBuffer'
  <2>1. publicMutex = "shutdown" /\ buffer \in Seq(Write)
        /\ \A c \in Client : pc[c] \notin {"setFlush", "syncFlush"}
    BY <1>20, MutexOfShutdown DEF ShutdownCancel
  <2> QED BY <1>20, <2>1 DEF ShutdownCancel, PushBuffer, MutexGuardsBuffer, clientVars
<1>21. ASSUME ShutdownJoin PROVE MutexGuardsBuffer'
  <2>1. publicMutex = "shutdown" /\ buffer \in Seq(Write)
        /\ \A c \in Client : pc[c] \notin {"setFlush", "syncFlush"}
    BY <1>21, MutexOfShutdown DEF ShutdownJoin
  <2> QED BY <1>21, <2>1 DEF ShutdownJoin, PushBuffer, MutexGuardsBuffer, clientVars
<1>22. ASSUME UNCHANGED vars PROVE MutexGuardsBuffer'
  BY <1>22, MutexKept DEF vars, clientVars
<1> QED BY <1>1, <1>2, <1>3, <1>4, <1>5, <1>6, <1>7, <1>8, <1>9, <1>10,
           <1>11, <1>12, <1>13, <1>14, <1>15, <1>16, <1>17, <1>18, <1>19,
           <1>20, <1>21, <1>22
       DEF Next, ClientStep, CommitStep, SerializeStep, ShutdownStep

\* Every step keeps CommitEnds.
LEMMA CommitEndsStep ==
    ASSUME TypeOK, MutexGuardsBuffer, CommitEnds, [Next]_vars
    PROVE  CommitEnds'
<1>0. ASSUME UNCHANGED <<commitQ, nTasksPending, commitPc, commitCancel, shutdownPc>>
      PROVE  CommitEnds'
  BY <1>0 DEF CommitEnds
<1>1. ASSUME NEW c \in Client, NEW t \in Tab, Set(c, t) PROVE CommitEnds'
  BY <1>1, <1>0 DEF Set, queueVars, commitVars
<1>2. ASSUME NEW c \in Client, SetFlush(c) PROVE CommitEnds'
  <2>1. shutdownPc \in {"running", "flush"} /\ buffer \in Seq(Write)
    BY <1>2, MutexOfClient DEF SetFlush
  <2>2. Len(commitQ') = Len(commitQ) + 1
    BY <1>2, <2>1 DEF SetFlush, PushBuffer, TypeOK
  <2>3. ~commitCancel /\ commitPc # "done"
    BY <2>1 DEF CommitEnds
  <2> QED BY <1>2, <2>1, <2>2, <2>3 DEF SetFlush, PushBuffer, CommitEnds, TypeOK, commitVars
<1>3. ASSUME NEW c \in Client, SetMark(c) PROVE CommitEnds'
  BY <1>3, <1>0 DEF SetMark, queueVars, commitVars
<1>4. ASSUME NEW c \in Client, NEW t \in Tab, Sync(c, t) PROVE CommitEnds'
  BY <1>4, <1>0 DEF Sync, queueVars, commitVars
<1>5. ASSUME NEW c \in Client, SyncLoop(c) PROVE CommitEnds'
  BY <1>5, <1>0 DEF SyncLoop, queueVars, commitVars
<1>6. ASSUME NEW c \in Client, LoggerSync(c) PROVE CommitEnds'
  BY <1>6, <1>0 DEF LoggerSync, queueVars, commitVars
<1>7. ASSUME NEW c \in Client, SyncFlush(c) PROVE CommitEnds'
  <2>1. shutdownPc \in {"running", "flush"} /\ buffer \in Seq(Write)
    BY <1>7, MutexOfClient DEF SyncFlush
  <2>2. Len(commitQ') = Len(commitQ) + 1
    BY <1>7, <2>1 DEF SyncFlush, PushBuffer, TypeOK
  <2>3. ~commitCancel /\ commitPc # "done"
    BY <2>1 DEF CommitEnds
  <2> QED BY <1>7, <2>1, <2>2, <2>3 DEF SyncFlush, PushBuffer, CommitEnds, TypeOK, commitVars
<1>8. ASSUME NEW c \in Client, SyncWait(c) PROVE CommitEnds'
  BY <1>8, <1>0 DEF SyncWait, queueVars, commitVars
<1>9. ASSUME CommitPop PROVE CommitEnds'
  <2>1. Len(commitQ') = Len(commitQ) - 1 /\ Len(commitQ) \in Nat
    BY <1>9 DEF CommitPop, TypeOK
  <2> QED BY <1>9, <2>1 DEF CommitPop, CommitEnds, TypeOK
<1>10. ASSUME CommitExit PROVE CommitEnds'
  BY <1>10 DEF CommitExit, CommitEnds, queueVars
<1>11. ASSUME WriteLog PROVE CommitEnds'
  BY <1>11 DEF WriteLog, CommitEnds, queueVars
<1>12. ASSUME NEW t \in Tab, Apply(t) PROVE CommitEnds'
  BY <1>12, <1>0 DEF Apply, queueVars, commitVars
<1>13. ASSUME PushGroup PROVE CommitEnds'
  BY <1>13, <1>0 DEF PushGroup, queueVars, commitVars
<1>14. ASSUME TaskComplete PROVE CommitEnds'
  <2>1. Len(commitQ) \in Nat
    BY DEF TypeOK
  <2> QED BY <1>14, <2>1 DEF TaskComplete, CommitEnds, TypeOK
<1>15. ASSUME SerializePop PROVE CommitEnds'
  BY <1>15, <1>0 DEF SerializePop, queueVars, commitVars
<1>16. ASSUME Serialize PROVE CommitEnds'
  BY <1>16, <1>0 DEF Serialize, queueVars, commitVars
<1>17. ASSUME SerializeExit PROVE CommitEnds'
  BY <1>17, <1>0 DEF SerializeExit, queueVars, commitVars
<1>18. ASSUME Shutdown PROVE CommitEnds'
  BY <1>18, MutexFree DEF Shutdown, CommitEnds, queueVars, commitVars
<1>19. ASSUME ShutdownFlush PROVE CommitEnds'
  <2>1. shutdownPc \in {"running", "flush"} /\ buffer \in Seq(Write)
    BY <1>19, MutexOfShutdown DEF ShutdownFlush
  <2>2. Len(commitQ') = Len(commitQ) + 1
    BY <1>19, <2>1 DEF ShutdownFlush, PushBuffer, TypeOK
  <2>3. ~commitCancel /\ commitPc # "done"
    BY <2>1 DEF CommitEnds
  <2> QED BY <1>19, <2>1, <2>2, <2>3 DEF ShutdownFlush, PushBuffer, CommitEnds, TypeOK, commitVars
<1>20. ASSUME ShutdownCancel PROVE CommitEnds'
  BY <1>20 DEF ShutdownCancel, CommitEnds, commitVars
<1>21. ASSUME ShutdownJoin PROVE CommitEnds'
  BY <1>21 DEF ShutdownJoin, CommitEnds, queueVars, commitVars
<1>22. ASSUME UNCHANGED vars PROVE CommitEnds'
  BY <1>22, <1>0 DEF vars, queueVars, commitVars
<1> QED BY <1>1, <1>2, <1>3, <1>4, <1>5, <1>6, <1>7, <1>8, <1>9, <1>10,
           <1>11, <1>12, <1>13, <1>14, <1>15, <1>16, <1>17, <1>18, <1>19,
           <1>20, <1>21, <1>22
       DEF Next, ClientStep, CommitStep, SerializeStep, ShutdownStep

-----------------------------------------------------------------------------
(* The log and the tables.                                                 *)

\* writeLog() adds the writes of the buffer, and nothing else, to the log.
LEMMA WriteLogFacts ==
    ASSUME TypeOK, WriteLog
    PROVE  Logged' = Logged \cup ToSet(commitBuf)
<1>1. commitBuf \in Seq(Write) /\ ToSet(commitBuf) \subseteq Write
  BY ToSetProperties DEF TypeOK
<1>2. ASSUME NEW t \in Tab
      PROVE  ToSet(logged'[t]) = ToSet(logged[t])
                                 \cup {w \in ToSet(commitBuf) : w.tab = t}
  <2>1. OfTab(commitBuf, t) \in Seq(Write) /\ logged[t] \in Seq(Write)
    BY <1>1, OfTabStep DEF TypeOK
  <2>2. logged'[t] = logged[t] \o OfTab(commitBuf, t)
    BY DEF WriteLog
  <2>3. ToSet(logged[t] \o OfTab(commitBuf, t))
            = ToSet(logged[t]) \cup ToSet(OfTab(commitBuf, t))
    BY <2>1, ToSetProperties
  <2>4. ToSet(OfTab(commitBuf, t)) = {w \in ToSet(commitBuf) : w.tab = t}
    BY <1>1, OfTabProperties
  <2> QED BY <2>2, <2>3, <2>4
<1>3. \A w \in ToSet(commitBuf) : w.tab \in Tab
  BY <1>1 DEF Write
<1>4. \A w : w \in Logged <=> \E t \in Tab : w \in ToSet(logged[t])
  BY DEF Logged
<1>5. \A w : w \in Logged' <=> \E t \in Tab : w \in ToSet(logged'[t])
  BY DEF Logged
<1>6. ASSUME NEW w PROVE w \in Logged' <=> w \in Logged \cup ToSet(commitBuf)
  BY <1>2, <1>3, <1>4, <1>5
<1> QED BY <1>6

\* A step that does not write the log, or touch what is in the tables.
LEMMA TablesKept ==
    ASSUME TablesFollowLog, UNCHANGED <<commitVars, dataVars, serializeQ, serializePc>>,
           shutdownPc' # "done" => shutdownPc # "done"
    PROVE  TablesFollowLog'
BY DEF TablesFollowLog, InTables, Logged, commitVars, dataVars

\* Every step keeps TablesFollowLog: what the commit thread has logged it
\* applies before it acknowledges the buffer, and a group keeps its writes
\* while it is handed on.
LEMMA TablesStep ==
    ASSUME TypeOK, CommitEnds, TablesFollowLog, [Next]_vars
    PROVE  TablesFollowLog'
<1>1. ASSUME NEW c \in Client, NEW t \in Tab, Set(c, t) PROVE TablesFollowLog'
  BY <1>1, TablesKept DEF Set, queueVars
<1>2. ASSUME NEW c \in Client, SetFlush(c) PROVE TablesFollowLog'
  BY <1>2, TablesKept DEF SetFlush, queueVars
<1>3. ASSUME NEW c \in Client, SetMark(c) PROVE TablesFollowLog'
  BY <1>3, TablesKept DEF SetMark, queueVars
<1>4. ASSUME NEW c \in Client, NEW t \in Tab, Sync(c, t) PROVE TablesFollowLog'
  BY <1>4, TablesKept DEF Sync, queueVars
<1>5. ASSUME NEW c \in Client, SyncLoop(c) PROVE TablesFollowLog'
  BY <1>5, TablesKept DEF SyncLoop, queueVars
<1>6. ASSUME NEW c \in Client, LoggerSync(c) PROVE TablesFollowLog'
  BY <1>6, TablesKept DEF LoggerSync, queueVars
<1>7. ASSUME NEW c \in Client, SyncFlush(c) PROVE TablesFollowLog'
  BY <1>7, TablesKept DEF SyncFlush, queueVars
<1>8. ASSUME NEW c \in Client, SyncWait(c) PROVE TablesFollowLog'
  BY <1>8, TablesKept DEF SyncWait, queueVars
<1>9. ASSUME CommitPop PROVE TablesFollowLog'
  BY <1>9 DEF CommitPop, TablesFollowLog, InTables, Logged, dataVars
<1>10. ASSUME CommitExit PROVE TablesFollowLog'
  BY <1>10 DEF CommitExit, TablesFollowLog, InTables, Logged, dataVars, queueVars
<1>11. ASSUME WriteLog PROVE TablesFollowLog'
  <2>1. Logged' = Logged \cup ToSet(commitBuf)
    BY <1>11, WriteLogFacts
  <2>2. InTables' = InTables
    BY <1>11 DEF WriteLog, InTables, queueVars
  <2>3. \A w \in ToSet(commitBuf) : w.tab \in commitTodo
    BY <1>11 DEF WriteLog, TablesFollowLog
  <2>4. Logged = InTables
    BY <1>11 DEF WriteLog, TablesFollowLog
  <2>5. commitPc' = "apply"
        /\ UNCHANGED <<commitBuf, commitTodo, serializing, serializePc>>
    BY <1>11 DEF WriteLog
  <2> QED BY <2>1, <2>2, <2>3, <2>4, <2>5 DEF TablesFollowLog
<1>12. ASSUME NEW t \in Tab, Apply(t) PROVE TablesFollowLog'
  <2>1. ToSet(OfTab(commitBuf, t)) = {w \in ToSet(commitBuf) : w.tab = t}
    BY OfTabProperties DEF TypeOK
  <2>2. InTables' = InTables \cup {w \in ToSet(commitBuf) : w.tab = t}
    BY <1>12, <2>1 DEF Apply, InTables, queueVars
  <2>3. Logged = InTables \cup {w \in ToSet(commitBuf) : w.tab \in commitTodo}
    BY <1>12 DEF Apply, TablesFollowLog
  <2>4. commitPc' = "apply" /\ commitBuf' = commitBuf /\ t \in commitTodo
        /\ commitTodo' = commitTodo \ {t} /\ Logged' = Logged
        /\ UNCHANGED <<serializing, serializePc>>
    BY <1>12 DEF Apply, Logged
  <2>5. Logged = InTables' \cup {w \in ToSet(commitBuf) : w.tab \in commitTodo'}
    BY <2>2, <2>3, <2>4
  <2> QED BY <2>4, <2>5 DEF TablesFollowLog
<1>13. ASSUME PushGroup PROVE TablesFollowLog'
  <2>1. InTables' = InTables
    <3>1. CASE serializeQ' = Append(serializeQ, group) /\ group' = {}
      <4>1. ToSet(Append(serializeQ, group)) = ToSet(serializeQ) \cup {group}
        BY ToSetProperties DEF TypeOK
      <4>2. UNION (ToSet(serializeQ) \cup {group}) = (UNION ToSet(serializeQ)) \cup group
        OBVIOUS
      <4>3. UNION ToSet(serializeQ') = (UNION ToSet(serializeQ)) \cup group
        BY <3>1, <4>1, <4>2
      <4> QED BY <1>13, <3>1, <4>3 DEF PushGroup, InTables
    <3>2. CASE UNCHANGED <<serializeQ, group>>
      BY <1>13, <3>2 DEF PushGroup, InTables
    <3> QED BY <1>13, <3>1, <3>2 DEF PushGroup
  <2> QED BY <1>13, <2>1 DEF PushGroup, TablesFollowLog, Logged, commitVars
<1>14. ASSUME TaskComplete PROVE TablesFollowLog'
  <2>1. InTables' = InTables /\ Logged' = Logged /\ commitPc' = "pop"
        /\ UNCHANGED <<serializing, serializePc>>
    BY <1>14 DEF TaskComplete, InTables, Logged, dataVars
  <2>2. Logged = InTables
    BY <1>14 DEF TaskComplete, TablesFollowLog
  <2> QED BY <2>1, <2>2 DEF TablesFollowLog
<1>15. ASSUME SerializePop PROVE TablesFollowLog'
  <2>1. ToSet(serializeQ) = {Head(serializeQ)} \cup ToSet(Tail(serializeQ))
    BY <1>15, ToSetProperties DEF SerializePop, TypeOK
  <2>2. ToSet(serializeQ) = {serializing'} \cup ToSet(serializeQ')
        /\ UNCHANGED <<group, onDisk>>
    BY <1>15, <2>1 DEF SerializePop
  <2>6. UNION ToSet(serializeQ) = serializing' \cup UNION ToSet(serializeQ')
    <3> DEFINE A == ToSet(serializeQ)  B == ToSet(serializeQ')  g == serializing'
    <3>1. A = {g} \cup B
      BY <2>2
    <3> HIDE DEF A, B, g
    <3>2. UNION A = g \cup UNION B
      BY <3>1
    <3> QED BY <3>2 DEF A, B, g
  <2>3. InTables \subseteq InTables' \cup serializing
    BY <2>2, <2>6, Zenon DEF InTables
  <2>4. InTables' \subseteq InTables
    BY <2>2, <2>6, Zenon DEF InTables
  <2>5. serializing = {}
    BY <1>15 DEF SerializePop, TablesFollowLog
  <2> QED BY <1>15, <2>3, <2>4, <2>5 DEF SerializePop, TablesFollowLog, Logged, commitVars
<1>16. ASSUME Serialize PROVE TablesFollowLog'
  <2>1. InTables' = InTables
    BY <1>16 DEF Serialize, InTables, queueVars
  <2> QED BY <1>16, <2>1 DEF Serialize, TablesFollowLog, Logged, commitVars
<1>17. ASSUME SerializeExit PROVE TablesFollowLog'
  <2>1. InTables' = InTables /\ Logged' = Logged
    BY <1>17 DEF SerializeExit, InTables, Logged, queueVars, dataVars
  <2> QED BY <1>17, <2>1 DEF SerializeExit, TablesFollowLog, commitVars, dataVars
<1>18. ASSUME Shutdown PROVE TablesFollowLog'
  BY <1>18, TablesKept DEF Shutdown, queueVars
<1>19. ASSUME ShutdownFlush PROVE TablesFollowLog'
  BY <1>19, TablesKept DEF ShutdownFlush, queueVars
<1>20. ASSUME ShutdownCancel PROVE TablesFollowLog'
  BY <1>20, TablesKept DEF ShutdownCancel, queueVars
<1>21. ASSUME ShutdownJoin PROVE TablesFollowLog'
  <2>1. InTables' \subseteq InTables
    BY <1>21 DEF ShutdownJoin, InTables, queueVars
  <2> QED BY <1>21, <2>1 DEF ShutdownJoin, TablesFollowLog, Logged, commitVars
<1>22. ASSUME UNCHANGED vars PROVE TablesFollowLog'
  BY <1>22, TablesKept DEF vars, queueVars
<1> QED BY <1>1, <1>2, <1>3, <1>4, <1>5, <1>6, <1>7, <1>8, <1>9, <1>10,
           <1>11, <1>12, <1>13, <1>14, <1>15, <1>16, <1>17, <1>18, <1>19,
           <1>20, <1>21, <1>22
       DEF Next, ClientStep, CommitStep, SerializeStep, ShutdownStep

-----------------------------------------------------------------------------
(* The way of a write from the buffer to the log, as sets.                 *)

\* The writes in the buffers of a queue.
QueueSet(q) == UNION {ToSet(b) : b \in ToSet(q)}

\* They change with the queue as its buffers do.
LEMMA QueueSetProperties ==
    ASSUME NEW q \in Seq(Seq(Write)), NEW b \in Seq(Write)
    PROVE  /\ QueueSet(Append(q, b)) = QueueSet(q) \cup ToSet(b)
           /\ q # <<>> => QueueSet(q) = ToSet(Head(q)) \cup QueueSet(Tail(q))
           /\ q = <<>> => QueueSet(q) = {}
<1>1. ToSet(Append(q, b)) = ToSet(q) \cup {b}
  BY ToSetProperties
<1>2. q # <<>> => ToSet(q) = {Head(q)} \cup ToSet(Tail(q))
  BY ToSetProperties
<1>3. q = <<>> => ToSet(q) = {}
  BY DEF ToSet
<1>4. \A A, x : UNION {ToSet(y) : y \in A \cup {x}}
                    = (UNION {ToSet(y) : y \in A}) \cup ToSet(x)
  OBVIOUS
<1>5. QueueSet(Append(q, b)) = QueueSet(q) \cup ToSet(b)
  BY <1>1, <1>4, Zenon DEF QueueSet
<1>6. ASSUME q # <<>> PROVE QueueSet(q) = ToSet(Head(q)) \cup QueueSet(Tail(q))
  <2> DEFINE A == ToSet(Tail(q))  x == Head(q)
  <2>1. ToSet(q) = A \cup {x}
    BY <1>2, <1>6
  <2> HIDE DEF A, x
  <2>2. QueueSet(q) = (UNION {ToSet(y) : y \in A}) \cup ToSet(x)
    BY <2>1, <1>4, Zenon DEF QueueSet
  <2> QED BY <2>2 DEF QueueSet, A, x
<1>7. ASSUME q = <<>> PROVE QueueSet(q) = {}
  BY <1>3, <1>7 DEF QueueSet
<1> QED BY <1>5, <1>6, <1>7

\* A push moves the writes of the buffer to the queue.
LEMMA PushFacts ==
    ASSUME TypeOK, PushBuffer, buffer \in Seq(Write),
           UNCHANGED <<commitPc, commitBuf>>
    PROVE  InCommit' = InCommit \cup ToSet(buffer)
<1>1. QueueSet(commitQ') = QueueSet(commitQ) \cup ToSet(buffer)
  BY QueueSetProperties DEF TypeOK, PushBuffer
<1> QED BY <1>1 DEF InCommit, QueueSet

\* A step that leaves the queue and the commit thread alone.
LEMMA FlowKept ==
    ASSUME UNCHANGED <<commitQ, commitVars, logged>>
    PROVE  Logged' = Logged /\ InCommit' = InCommit
BY DEF Logged, InCommit, commitVars

\* No step takes a write out of the log, or off its way there.
LEMMA FlowStep ==
    ASSUME TypeOK, MutexGuardsBuffer, CommitEnds, [Next]_vars
    PROVE  /\ Logged \subseteq Logged'
           /\ Logged \cup InCommit \subseteq Logged' \cup InCommit'
<1> DEFINE Flow == /\ Logged \subseteq Logged'
                   /\ Logged \cup InCommit \subseteq Logged' \cup InCommit'
<1> HIDE DEF Flow
<1> SUFFICES Flow
  BY DEF Flow
<1>1. ASSUME NEW c \in Client, NEW t \in Tab, Set(c, t) PROVE Flow
  BY <1>1, FlowKept DEF Set, Flow, queueVars, commitVars, dataVars
<1>2. ASSUME NEW c \in Client, SetFlush(c) PROVE Flow
  <2>1. buffer \in Seq(Write)
    BY <1>2, MutexOfClient DEF SetFlush
  <2>2. InCommit' = InCommit \cup ToSet(buffer)
    BY <1>2, <2>1, PushFacts DEF SetFlush, commitVars
  <2>3. Logged' = Logged
    BY <1>2 DEF SetFlush, Logged, dataVars
  <2> QED BY <2>2, <2>3 DEF Flow
<1>3. ASSUME NEW c \in Client, SetMark(c) PROVE Flow
  BY <1>3, FlowKept DEF SetMark, Flow, queueVars, commitVars, dataVars
<1>4. ASSUME NEW c \in Client, NEW t \in Tab, Sync(c, t) PROVE Flow
  BY <1>4, FlowKept DEF Sync, Flow, queueVars, commitVars, dataVars
<1>5. ASSUME NEW c \in Client, SyncLoop(c) PROVE Flow
  BY <1>5, FlowKept DEF SyncLoop, Flow, queueVars, commitVars, dataVars
<1>6. ASSUME NEW c \in Client, LoggerSync(c) PROVE Flow
  BY <1>6, FlowKept DEF LoggerSync, Flow, queueVars, commitVars, dataVars
<1>7. ASSUME NEW c \in Client, SyncFlush(c) PROVE Flow
  <2>1. buffer \in Seq(Write)
    BY <1>7, MutexOfClient DEF SyncFlush
  <2>2. InCommit' = InCommit \cup ToSet(buffer)
    BY <1>7, <2>1, PushFacts DEF SyncFlush, commitVars
  <2>3. Logged' = Logged
    BY <1>7 DEF SyncFlush, Logged, dataVars
  <2> QED BY <2>2, <2>3 DEF Flow
<1>8. ASSUME NEW c \in Client, SyncWait(c) PROVE Flow
  BY <1>8, FlowKept DEF SyncWait, Flow, queueVars, commitVars, dataVars
<1>9. ASSUME CommitPop PROVE Flow
  <2>1. QueueSet(commitQ) = ToSet(commitBuf') \cup QueueSet(commitQ')
    BY <1>9, QueueSetProperties, EmptySeq DEF CommitPop, TypeOK
  <2>2. InCommit' = InCommit
    BY <1>9, <2>1 DEF CommitPop, InCommit, QueueSet
  <2>3. Logged' = Logged
    BY <1>9 DEF CommitPop, Logged, dataVars
  <2> QED BY <2>2, <2>3 DEF Flow
<1>10. ASSUME CommitExit PROVE Flow
  <2>1. Logged' = Logged /\ InCommit' = InCommit
    BY <1>10 DEF CommitExit, Logged, InCommit, queueVars, dataVars
  <2> QED BY <2>1 DEF Flow
<1>11. ASSUME WriteLog PROVE Flow
  <2>1. Logged' = Logged \cup ToSet(commitBuf)
    BY <1>11, WriteLogFacts
  <2>2. InCommit \subseteq InCommit' \cup ToSet(commitBuf)
    BY <1>11 DEF WriteLog, InCommit, queueVars
  <2> QED BY <2>1, <2>2 DEF Flow
<1>12. ASSUME NEW t \in Tab, Apply(t) PROVE Flow
  <2>1. Logged' = Logged /\ InCommit' = InCommit
    BY <1>12 DEF Apply, Logged, InCommit, queueVars
  <2> QED BY <2>1 DEF Flow
<1>13. ASSUME PushGroup PROVE Flow
  BY <1>13, FlowKept DEF PushGroup, Flow, queueVars, commitVars, dataVars
<1>14. ASSUME TaskComplete PROVE Flow
  <2>1. Logged' = Logged /\ InCommit' = InCommit
    BY <1>14 DEF TaskComplete, Logged, InCommit, dataVars
  <2> QED BY <2>1 DEF Flow
<1>15. ASSUME SerializePop PROVE Flow
  BY <1>15, FlowKept DEF SerializePop, Flow, queueVars, commitVars, dataVars
<1>16. ASSUME Serialize PROVE Flow
  BY <1>16, FlowKept DEF Serialize, Flow, queueVars, commitVars, dataVars
<1>17. ASSUME SerializeExit PROVE Flow
  BY <1>17, FlowKept DEF SerializeExit, Flow, queueVars, commitVars, dataVars
<1>18. ASSUME Shutdown PROVE Flow
  BY <1>18, FlowKept DEF Shutdown, Flow, queueVars, commitVars, dataVars
<1>19. ASSUME ShutdownFlush PROVE Flow
  <2>1. buffer \in Seq(Write)
    BY <1>19, MutexOfShutdown DEF ShutdownFlush
  <2>2. InCommit' = InCommit \cup ToSet(buffer)
    BY <1>19, <2>1, PushFacts DEF ShutdownFlush, commitVars
  <2>3. Logged' = Logged
    BY <1>19 DEF ShutdownFlush, Logged, dataVars
  <2> QED BY <2>2, <2>3 DEF Flow
<1>20. ASSUME ShutdownCancel PROVE Flow
  BY <1>20, FlowKept DEF ShutdownCancel, Flow, queueVars, commitVars, dataVars
<1>21. ASSUME ShutdownJoin PROVE Flow
  BY <1>21, FlowKept DEF ShutdownJoin, Flow, queueVars, commitVars, dataVars
<1>22. ASSUME UNCHANGED vars PROVE Flow
  BY <1>22, FlowKept DEF vars, Flow, queueVars, commitVars, dataVars
<1> QED BY <1>1, <1>2, <1>3, <1>4, <1>5, <1>6, <1>7, <1>8, <1>9, <1>10,
           <1>11, <1>12, <1>13, <1>14, <1>15, <1>16, <1>17, <1>18, <1>19,
           <1>20, <1>21, <1>22
       DEF Next, ClientStep, CommitStep, SerializeStep, ShutdownStep

\* A step that leaves the buffer and the accepted writes alone keeps Accounted.
LEMMA AccountedKept ==
    ASSUME TypeOK, MutexGuardsBuffer, CommitEnds, Accounted, [Next]_vars,
           accepted' = accepted, InBuffer' = InBuffer
    PROVE  Accounted'
<1>1. Logged \cup InCommit \subseteq Logged' \cup InCommit'
  BY FlowStep
<1> QED BY <1>1, Zenon DEF Accounted

\* Every step keeps Accounted: no write is dropped between set() and the log.
LEMMA AccountedStep ==
    ASSUME TypeOK, MutexGuardsBuffer, CommitEnds, Accounted, [Next]_vars
    PROVE  Accounted'
<1>1. ASSUME NEW c \in Client, NEW t \in Tab, Set(c, t) PROVE Accounted'
  <2> DEFINE w == [by |-> c, tab |-> t, n |-> Cardinality(WritesBy(c)) + 1]
  <2>1. shutdownPc = "running" /\ buffer \in Seq(Write)
    BY <1>1, MutexFree DEF Set, MutexGuardsBuffer
  <2>2. w \in Write
    BY <1>1, WriteTyped DEF Set, TypeOK
  <2>3. buffer' = Append(buffer, w) /\ accepted' = Append(accepted, w)
        /\ shutdownPc' = "running"
    BY <1>1, <2>1 DEF Set
  <2> HIDE DEF w
  <2>4. ToSet(buffer') = ToSet(buffer) \cup {w}
        /\ ToSet(accepted') = ToSet(accepted) \cup {w}
    BY <2>1, <2>2, <2>3, ToSetProperties DEF TypeOK
  <2>5. Logged' = Logged /\ InCommit' = InCommit
    BY <1>1, FlowKept DEF Set, queueVars, dataVars
  <2>6. InBuffer = ToSet(buffer) /\ InBuffer' = ToSet(buffer')
    BY <2>1, <2>3 DEF InBuffer
  <2> QED BY <2>4, <2>5, <2>6, Zenon DEF Accounted
<1>2. ASSUME NEW c \in Client, SetFlush(c) PROVE Accounted'
  <2>1. buffer \in Seq(Write) /\ shutdownPc # "done"
    BY <1>2, MutexOfClient DEF SetFlush
  <2>2. InCommit' = InCommit \cup ToSet(buffer)
    BY <1>2, <2>1, PushFacts DEF SetFlush, commitVars
  <2>3. Logged' = Logged /\ accepted' = accepted /\ InBuffer = ToSet(buffer)
    BY <1>2, <2>1 DEF SetFlush, Logged, InBuffer, dataVars
  <2> QED BY <2>2, <2>3, Zenon DEF Accounted
<1>3. ASSUME NEW c \in Client, SetMark(c) PROVE Accounted'
  BY <1>3, AccountedKept DEF SetMark, InBuffer
<1>4. ASSUME NEW c \in Client, NEW t \in Tab, Sync(c, t) PROVE Accounted'
  BY <1>4, AccountedKept DEF Sync, InBuffer
<1>5. ASSUME NEW c \in Client, SyncLoop(c) PROVE Accounted'
  BY <1>5, AccountedKept DEF SyncLoop, InBuffer
<1>6. ASSUME NEW c \in Client, LoggerSync(c) PROVE Accounted'
  BY <1>6, AccountedKept DEF LoggerSync, InBuffer
<1>7. ASSUME NEW c \in Client, SyncFlush(c) PROVE Accounted'
  <2>1. buffer \in Seq(Write) /\ shutdownPc # "done"
    BY <1>7, MutexOfClient DEF SyncFlush
  <2>2. InCommit' = InCommit \cup ToSet(buffer)
    BY <1>7, <2>1, PushFacts DEF SyncFlush, commitVars
  <2>3. Logged' = Logged /\ accepted' = accepted /\ InBuffer = ToSet(buffer)
    BY <1>7, <2>1 DEF SyncFlush, Logged, InBuffer, dataVars
  <2> QED BY <2>2, <2>3, Zenon DEF Accounted
<1>8. ASSUME NEW c \in Client, SyncWait(c) PROVE Accounted'
  BY <1>8, AccountedKept DEF SyncWait, InBuffer
<1>9. ASSUME CommitPop PROVE Accounted'
  BY <1>9, AccountedKept DEF CommitPop, InBuffer
<1>10. ASSUME CommitExit PROVE Accounted'
  BY <1>10, AccountedKept DEF CommitExit, InBuffer
<1>11. ASSUME WriteLog PROVE Accounted'
  BY <1>11, AccountedKept DEF WriteLog, InBuffer
<1>12. ASSUME NEW t \in Tab, Apply(t) PROVE Accounted'
  BY <1>12, AccountedKept DEF Apply, InBuffer
<1>13. ASSUME PushGroup PROVE Accounted'
  BY <1>13, AccountedKept DEF PushGroup, InBuffer
<1>14. ASSUME TaskComplete PROVE Accounted'
  BY <1>14, AccountedKept DEF TaskComplete, InBuffer
<1>15. ASSUME SerializePop PROVE Accounted'
  BY <1>15, AccountedKept DEF SerializePop, InBuffer
<1>16. ASSUME Serialize PROVE Accounted'
  BY <1>16, AccountedKept DEF Serialize, InBuffer
<1>17. ASSUME SerializeExit PROVE Accounted'
  BY <1>17, AccountedKept DEF SerializeExit, InBuffer
<1>18. ASSUME Shutdown PROVE Accounted'
  BY <1>18, AccountedKept DEF Shutdown, InBuffer
<1>19. ASSUME ShutdownFlush PROVE Accounted'
  <2>1. buffer \in Seq(Write) /\ shutdownPc # "done"
    BY <1>19, MutexOfShutdown DEF ShutdownFlush
  <2>2. InCommit' = InCommit \cup ToSet(buffer)
    BY <1>19, <2>1, PushFacts DEF ShutdownFlush, commitVars
  <2>3. Logged' = Logged /\ accepted' = accepted /\ InBuffer = ToSet(buffer)
    BY <1>19, <2>1 DEF ShutdownFlush, Logged, InBuffer, dataVars
  <2> QED BY <2>2, <2>3, Zenon DEF Accounted
<1>20. ASSUME ShutdownCancel PROVE Accounted'
  BY <1>20, AccountedKept DEF ShutdownCancel, InBuffer
<1>21. ASSUME ShutdownJoin PROVE Accounted'
  <2>1. buffer = <<>> /\ ToSet(<<>>) = {}
    BY <1>21 DEF ShutdownJoin, MutexGuardsBuffer, ToSet
  <2> QED BY <1>21, <2>1, AccountedKept DEF ShutdownJoin, InBuffer
<1>22. ASSUME UNCHANGED vars PROVE Accounted'
  BY <1>22, AccountedKept DEF vars, InBuffer
<1> QED BY <1>1, <1>2, <1>3, <1>4, <1>5, <1>6, <1>7, <1>8, <1>9, <1>10,
           <1>11, <1>12, <1>13, <1>14, <1>15, <1>16, <1>17, <1>18, <1>19,
           <1>20, <1>21, <1>22
       DEF Next, ClientStep, CommitStep, SerializeStep, ShutdownStep

-----------------------------------------------------------------------------
(* What a sync waits for.                                                  *)

\* shutdown() is not undone, and only ShutdownJoin ends it.
LEMMA ShutdownStays ==
    ASSUME [Next]_vars
    PROVE  /\ shutdownPc' # "done" => shutdownPc # "done" /\ ~ShutdownJoin
           /\ shutdownPc = "done" => ~ShutdownJoin
<1>1. ASSUME UNCHANGED shutdownPc PROVE shutdownPc' # "done" => shutdownPc # "done"
  BY <1>1
<1>2. ASSUME NEW c \in Client, NEW t \in Tab, Set(c, t) \/ Sync(c, t)
      PROVE  UNCHANGED shutdownPc
  BY <1>2 DEF Set, Sync
<1>3. ASSUME NEW c \in Client, ClientStep(c) PROVE UNCHANGED shutdownPc
  BY <1>3 DEF ClientStep, SetFlush, SetMark, SyncLoop, LoggerSync, SyncFlush, SyncWait
<1>4. ASSUME CommitStep \/ SerializeStep PROVE UNCHANGED shutdownPc
  BY <1>4 DEF CommitStep, CommitPop, CommitExit, WriteLog, Apply, PushGroup,
              TaskComplete, SerializeStep, SerializePop, Serialize, SerializeExit
<1>5. ASSUME Shutdown \/ ShutdownFlush \/ ShutdownCancel PROVE shutdownPc # "done"
  BY <1>5 DEF Shutdown, ShutdownFlush, ShutdownCancel
<1>6. ASSUME ShutdownJoin PROVE shutdownPc = "join" /\ shutdownPc' = "done"
  BY <1>6 DEF ShutdownJoin
<1>7. UNCHANGED vars => UNCHANGED shutdownPc
  BY DEF vars
<1> QED BY <1>1, <1>2, <1>3, <1>4, <1>5, <1>6, <1>7 DEF Next, ShutdownStep

\* The tables never lose a write, until shutdown() drops the open group.
LEMMA TablesGrow ==
    ASSUME TypeOK, TablesFollowLog, [Next]_vars
    PROVE  ShutdownJoin \/ InTables \subseteq InTables'
<1>1. ASSUME UNCHANGED <<group, serializeQ, serializing, onDisk>>
      PROVE  InTables \subseteq InTables'
  BY <1>1 DEF InTables
<1>2. ASSUME NEW c \in Client, NEW t \in Tab, Set(c, t) \/ Sync(c, t)
      PROVE  InTables \subseteq InTables'
  BY <1>1, <1>2 DEF Set, Sync, queueVars, dataVars
<1>3. ASSUME NEW c \in Client, ClientStep(c) PROVE InTables \subseteq InTables'
  BY <1>1, <1>3 DEF ClientStep, SetFlush, SetMark, SyncLoop, LoggerSync, SyncFlush,
                    SyncWait, queueVars, dataVars
<1>4. ASSUME CommitPop \/ CommitExit \/ WriteLog \/ TaskComplete
      PROVE  InTables \subseteq InTables'
  BY <1>1, <1>4 DEF CommitPop, CommitExit, WriteLog, TaskComplete, queueVars, dataVars
<1>5. ASSUME NEW t \in Tab, Apply(t) PROVE InTables \subseteq InTables'
  BY <1>5 DEF Apply, InTables, queueVars
<1>6. ASSUME PushGroup PROVE InTables \subseteq InTables'
  <2>1. CASE serializeQ' = Append(serializeQ, group) /\ group' = {}
    <3>1. ToSet(Append(serializeQ, group)) = ToSet(serializeQ) \cup {group}
      BY ToSetProperties DEF TypeOK
    <3>2. UNION (ToSet(serializeQ) \cup {group}) = (UNION ToSet(serializeQ)) \cup group
      OBVIOUS
    <3>3. UNION ToSet(serializeQ') = (UNION ToSet(serializeQ)) \cup group
      BY <2>1, <3>1, <3>2
    <3> QED BY <1>6, <2>1, <3>3 DEF PushGroup, InTables
  <2>2. CASE UNCHANGED <<serializeQ, group>>
    BY <1>1, <1>6, <2>2 DEF PushGroup
  <2> QED BY <1>6, <2>1, <2>2 DEF PushGroup
<1>7. ASSUME SerializePop PROVE InTables \subseteq InTables'
  <2>1. ToSet(serializeQ) = {Head(serializeQ)} \cup ToSet(Tail(serializeQ))
    BY <1>7, ToSetProperties DEF SerializePop, TypeOK
  <2>2. ToSet(serializeQ) = {serializing'} \cup ToSet(serializeQ')
        /\ UNCHANGED <<group, onDisk>>
    BY <1>7, <2>1 DEF SerializePop
  <2>3. UNION ToSet(serializeQ) \subseteq serializing' \cup UNION ToSet(serializeQ')
    <3> DEFINE A == ToSet(serializeQ)  B == ToSet(serializeQ')  g == serializing'
    <3>1. A = {g} \cup B
      BY <2>2
    <3> HIDE DEF A, B, g
    <3>2. UNION A \subseteq g \cup UNION B
      BY <3>1
    <3> QED BY <3>2 DEF A, B, g
  <2>4. serializing = {}
    BY <1>7 DEF SerializePop, TablesFollowLog
  <2> QED BY <2>2, <2>3, <2>4, Zenon DEF InTables
<1>8. ASSUME Serialize \/ SerializeExit PROVE InTables \subseteq InTables'
  BY <1>8 DEF Serialize, SerializeExit, InTables, queueVars, dataVars
<1>9. ASSUME Shutdown \/ ShutdownFlush \/ ShutdownCancel
      PROVE  InTables \subseteq InTables'
  BY <1>1, <1>9 DEF Shutdown, ShutdownFlush, ShutdownCancel, queueVars, dataVars
<1>10. ASSUME UNCHANGED vars PROVE InTables \subseteq InTables'
  BY <1>1, <1>10 DEF vars, queueVars, dataVars
<1> QED BY <1>2, <1>3, <1>4, <1>5, <1>6, <1>7, <1>8, <1>9, <1>10
       DEF Next, CommitStep, SerializeStep, ShutdownStep

\* A step in which client c does nothing keeps its goal.
LEMMA GoalKept ==
    ASSUME TypeOK, MutexGuardsBuffer, CommitEnds, TablesFollowLog, [Next]_vars,
           NEW c \in Client, GoalReached(c), pc'[c] = pc[c], goal'[c] = goal[c],
           accepted' = accepted \/ \E w \in Write : accepted' = Append(accepted, w)
    PROVE  GoalReached(c)'
<1>1. goal[c] \in 0..Len(accepted)
  BY DEF TypeOK, GoalReached
<1>2. SubSeq(accepted', 1, goal[c]) = SubSeq(accepted, 1, goal[c])
  <2>1. accepted \in Seq(Write)
    BY DEF TypeOK
  <2>2. \A w \in Write : SubSeq(Append(accepted, w), 1, goal[c]) = SubSeq(accepted, 1, goal[c])
    BY <1>1, <2>1, SubSeqOfAppend
  <2>3. CASE accepted' = accepted
    BY <2>3
  <2>4. CASE \E w \in Write : accepted' = Append(accepted, w)
    <3>1. PICK w \in Write : accepted' = Append(accepted, w)
      BY <2>4
    <3>2. SubSeq(Append(accepted, w), 1, goal[c]) = SubSeq(accepted, 1, goal[c])
      BY <2>2
    <3> QED BY <3>1, <3>2, Zenon
  <2> QED BY <2>3, <2>4
<1>3. goal[c] <= Len(accepted')
  BY <1>1 DEF TypeOK
<1>4. Logged \subseteq Logged' /\ Logged \cup InCommit \subseteq Logged' \cup InCommit'
  BY FlowStep
<1>5. shutdownPc' # "done" => shutdownPc # "done" /\ InTables \subseteq InTables'
  BY TablesGrow, ShutdownStays
<1> QED BY <1>2, <1>3, <1>4, <1>5 DEF GoalReached

\* All that is accepted, and so any part of it, is in the log or on its way if
\* the buffer is empty.
LEMMA AllButBuffer ==
    ASSUME TypeOK, Accounted, InBuffer = {}, NEW n \in 0..Len(accepted)
    PROVE  ToSet(SubSeq(accepted, 1, n)) \subseteq Logged \cup InCommit
<1>1. ToSet(SubSeq(accepted, 1, n)) \subseteq ToSet(accepted)
  BY SubSeqSubset DEF TypeOK
<1> QED BY <1>1 DEF Accounted

\* When no task is pending, nothing is on its way to the log but the buffer.
LEMMA NothingInCommit ==
    ASSUME TypeOK, CommitEnds, nTasksPending = 0
    PROVE  InCommit = {}
<1>1. Len(commitQ) \in Nat
  BY DEF TypeOK
<1>2. Len(commitQ) = 0 /\ commitPc \notin {"log", "apply"}
  BY <1>1 DEF CommitEnds
<1>3. commitQ = <<>>
  BY <1>2, EmptySeq DEF TypeOK
<1>4. ToSet(commitQ) = {}
  BY <1>3 DEF ToSet
<1> QED BY <1>2, <1>4 DEF InCommit

\* When no task is pending, the tables have all that the log has.
LEMMA NothingUnapplied ==
    ASSUME TypeOK, CommitEnds, TablesFollowLog, nTasksPending = 0
    PROVE  shutdownPc # "done" => Logged = InTables
<1>1. Len(commitQ) \in Nat
  BY DEF TypeOK
<1>2. commitPc \in {"pop", "done"}
  BY <1>1 DEF CommitEnds, TypeOK
<1> QED BY <1>2 DEF TablesFollowLog

\* Every step keeps GoalsReached: a sync that finds the buffer empty, or has
\* flushed it, waits until the queue has nothing left of what it waits for.
LEMMA GoalsStep ==
    ASSUME TypeOK, MutexGuardsBuffer, CommitEnds, TablesFollowLog,
           Accounted, Accounted', GoalsReached, [Next]_vars
    PROVE  GoalsReached'
<1> USE DEF GoalsReached
<1>0. ASSUME NEW c \in Client, \A d \in Client \ {c} : pc'[d] = pc[d] /\ goal'[d] = goal[d],
             accepted' = accepted \/ \E w \in Write : accepted' = Append(accepted, w),
             GoalReached(c)'
      PROVE  GoalsReached'
  BY <1>0, GoalKept
<1>00. ASSUME UNCHANGED <<pc, goal, accepted>> PROVE GoalsReached'
  BY <1>00, GoalKept
<1>1. ASSUME NEW c \in Client, NEW t \in Tab, Set(c, t) PROVE GoalsReached'
  <2>1. \A d \in Client \ {c} : pc'[d] = pc[d] /\ goal'[d] = goal[d]
    BY <1>1 DEF Set, Go, TypeOK
  <2>2. [by |-> c, tab |-> t, n |-> Cardinality(WritesBy(c)) + 1] \in Write
    BY <1>1, WriteTyped DEF Set, TypeOK
  <2>3. \E w \in Write : accepted' = Append(accepted, w)
    BY <1>1, <2>2 DEF Set
  <2>4. pc'[c] \in {"setFlush", "setMark"} /\ goal'[c] = 0
    BY <1>1 DEF Set, Go, TypeOK, GoalReached
  <2>5. Len(accepted') \in Nat
    BY <2>3 DEF TypeOK
  <2>6. GoalReached(c)'
    BY <2>4, <2>5 DEF GoalReached
  <2> QED BY <2>1, <2>3, <2>6, <1>0
<1>2. ASSUME NEW c \in Client, SetFlush(c) PROVE GoalsReached'
  <2>1. \A d \in Client \ {c} : pc'[d] = pc[d] /\ goal'[d] = goal[d]
    BY <1>2 DEF SetFlush, Go, TypeOK
  <2>2. pc'[c] = "setMark" /\ goal'[c] = 0 /\ accepted' = accepted
    BY <1>2 DEF SetFlush, Go, TypeOK, GoalReached
  <2>3. GoalReached(c)'
    BY <2>2 DEF GoalReached, TypeOK
  <2> QED BY <2>1, <2>2, <2>3, <1>0
<1>3. ASSUME NEW c \in Client, SetMark(c) PROVE GoalsReached'
  <2>1. \A d \in Client \ {c} : pc'[d] = pc[d] /\ goal'[d] = goal[d]
    BY <1>3 DEF SetMark, Go, TypeOK
  <2>2. pc'[c] = "idle" /\ goal'[c] = 0 /\ accepted' = accepted
    BY <1>3 DEF SetMark, Go, TypeOK, GoalReached
  <2>3. GoalReached(c)'
    BY <2>2 DEF GoalReached, TypeOK
  <2> QED BY <2>1, <2>2, <2>3, <1>0
<1>4. ASSUME NEW c \in Client, NEW t \in Tab, Sync(c, t) PROVE GoalsReached'
  <2>1. \A d \in Client \ {c} : pc'[d] = pc[d] /\ goal'[d] = goal[d]
    BY <1>4 DEF Sync, Go, TypeOK
  <2>2. pc'[c] = "syncLoop" /\ goal'[c] = 0 /\ accepted' = accepted
    BY <1>4 DEF Sync, Go, TypeOK, GoalReached
  <2>3. ToSet(SubSeq(accepted', 1, 0)) = {}
    BY DEF ToSet
  <2>4. GoalReached(c)'
    BY <2>2, <2>3 DEF GoalReached, TypeOK
  <2> QED BY <2>1, <2>2, <2>4, <1>0
<1>5. ASSUME NEW c \in Client, SyncLoop(c) PROVE GoalsReached'
  <2>1. \A d \in Client \ {c} : pc'[d] = pc[d] /\ goal'[d] = goal[d]
    BY <1>5 DEF SyncLoop, Go, TypeOK
  <2>2. pc'[c] \in {"loggerSync", "idle"} /\ goal'[c] = 0 /\ accepted' = accepted
    BY <1>5 DEF SyncLoop, Go, TypeOK
  <2>3. GoalReached(c)'
    BY <2>2 DEF GoalReached, TypeOK
  <2> QED BY <2>1, <2>2, <2>3, <1>0
<1>6. ASSUME NEW c \in Client, LoggerSync(c) PROVE GoalsReached'
  <2>1. \A d \in Client \ {c} : pc'[d] = pc[d] /\ goal'[d] = goal[d]
    BY <1>6 DEF LoggerSync, Go, TypeOK
  <2>2. accepted' = accepted /\ Len(accepted) \in Nat
    BY <1>6 DEF LoggerSync, TypeOK
  <2>3. GoalReached(c)'
    <3>1. CASE buffer = None
      <4>1. pc'[c] = "idle" /\ goal'[c] = 0
        BY <1>6, <3>1 DEF LoggerSync, Go, TypeOK
      <4> QED BY <4>1, <2>2 DEF GoalReached
    <3>2. CASE buffer # None /\ buffer = <<>>
      <4>1. pc'[c] = "syncWait" /\ goal'[c] = Len(accepted)
        BY <1>6, <3>2 DEF LoggerSync, Go, TypeOK
      <4>2. InBuffer = {}
        BY <3>2 DEF InBuffer, ToSet
      <4>3. ToSet(SubSeq(accepted, 1, Len(accepted))) \subseteq Logged \cup InCommit
        BY <4>2, <2>2, AllButBuffer
      <4>4. Logged' = Logged /\ InCommit' = InCommit
        BY <1>6, FlowKept DEF LoggerSync, queueVars, dataVars
      <4> QED BY <4>1, <4>3, <4>4, <2>2 DEF GoalReached
    <3>3. CASE buffer # None /\ buffer # <<>>
      <4>1. pc'[c] = "syncFlush" /\ goal'[c] = Len(accepted)
        BY <1>6, <3>3 DEF LoggerSync, Go, TypeOK
      <4> QED BY <4>1, <2>2 DEF GoalReached
    <3> QED BY <3>1, <3>2, <3>3
  <2> QED BY <2>1, <2>2, <2>3, <1>0
<1>7. ASSUME NEW c \in Client, SyncFlush(c) PROVE GoalsReached'
  <2>1. \A d \in Client \ {c} : pc'[d] = pc[d] /\ goal'[d] = goal[d]
    BY <1>7 DEF SyncFlush, Go, TypeOK
  <2>2. pc'[c] = "syncWait" /\ goal'[c] = goal[c] /\ accepted' = accepted
    BY <1>7 DEF SyncFlush, Go, TypeOK
  <2>3. goal[c] \in 0..Len(accepted)
    BY DEF TypeOK, GoalReached
  <2>4. InBuffer' = {}
    BY <1>7 DEF SyncFlush, PushBuffer, InBuffer, ToSet
  <2>5. ToSet(SubSeq(accepted', 1, goal'[c])) \subseteq Logged' \cup InCommit'
    <3>1. ToSet(accepted') \subseteq Logged' \cup InCommit'
      BY <2>4, Zenon DEF Accounted
    <3>2. ToSet(SubSeq(accepted, 1, goal[c])) \subseteq ToSet(accepted)
      BY <2>3, SubSeqSubset DEF TypeOK
    <3> QED BY <2>2, <3>1, <3>2
  <2>6. GoalReached(c)'
    BY <2>2, <2>3, <2>5 DEF GoalReached
  <2> QED BY <2>1, <2>2, <2>6, <1>0
<1>8. ASSUME NEW c \in Client, SyncWait(c) PROVE GoalsReached'
  <2>1. \A d \in Client \ {c} : pc'[d] = pc[d] /\ goal'[d] = goal[d]
    BY <1>8 DEF SyncWait, Go, TypeOK
  <2>2. accepted' = accepted /\ Logged' = Logged
    BY <1>8 DEF SyncWait, Logged, dataVars
  <2>3. GoalReached(c)'
    <3>1. CASE CommitDone
      <4>1. pc'[c] = "syncLoop" /\ goal'[c] = goal[c] /\ pc[c] = "syncWait"
        BY <1>8, <3>1 DEF SyncWait, Go, TypeOK
      <4>2. InCommit = {}
        BY <3>1, NothingInCommit DEF CommitDone
      <4>3. shutdownPc # "done" => Logged = InTables
        BY <3>1, NothingUnapplied DEF CommitDone
      <4>4. UNCHANGED shutdownPc /\ InTables' = InTables
        BY <1>8 DEF SyncWait, InTables, dataVars, queueVars
      <4> QED BY <4>1, <4>2, <4>3, <4>4, <2>2 DEF GoalReached
    <3>2. CASE ~CommitDone
      <4>1. pc'[c] = "idle" /\ goal'[c] = 0
        BY <1>8, <3>2 DEF SyncWait, Go, TypeOK
      <4> QED BY <4>1, <2>2 DEF GoalReached, TypeOK
    <3> QED BY <3>1, <3>2
  <2> QED BY <2>1, <2>2, <2>3, <1>0
<1>9. ASSUME CommitPop PROVE GoalsReached'
  BY <1>9, <1>00 DEF CommitPop, clientVars
<1>10. ASSUME CommitExit PROVE GoalsReached'
  BY <1>10, <1>00 DEF CommitExit, clientVars
<1>11. ASSUME WriteLog PROVE GoalsReached'
  BY <1>11, <1>00 DEF WriteLog, clientVars
<1>12. ASSUME NEW t \in Tab, Apply(t) PROVE GoalsReached'
  BY <1>12, <1>00 DEF Apply, clientVars
<1>13. ASSUME PushGroup PROVE GoalsReached'
  BY <1>13, <1>00 DEF PushGroup, clientVars
<1>14. ASSUME TaskComplete PROVE GoalsReached'
  BY <1>14, <1>00 DEF TaskComplete, clientVars
<1>15. ASSUME SerializePop PROVE GoalsReached'
  BY <1>15, <1>00 DEF SerializePop, clientVars
<1>16. ASSUME Serialize PROVE GoalsReached'
  BY <1>16, <1>00 DEF Serialize, clientVars
<1>17. ASSUME SerializeExit PROVE GoalsReached'
  BY <1>17, <1>00 DEF SerializeExit, clientVars
<1>18. ASSUME Shutdown PROVE GoalsReached'
  BY <1>18, <1>00 DEF Shutdown, clientVars
<1>19. ASSUME ShutdownFlush PROVE GoalsReached'
  BY <1>19, <1>00 DEF ShutdownFlush, clientVars
<1>20. ASSUME ShutdownCancel PROVE GoalsReached'
  BY <1>20, <1>00 DEF ShutdownCancel, clientVars
<1>21. ASSUME ShutdownJoin PROVE GoalsReached'
  BY <1>21, <1>00 DEF ShutdownJoin, clientVars
<1>22. ASSUME UNCHANGED vars PROVE GoalsReached'
  BY <1>22, <1>00 DEF vars, clientVars
<1> QED BY <1>1, <1>2, <1>3, <1>4, <1>5, <1>6, <1>7, <1>8, <1>9, <1>10,
           <1>11, <1>12, <1>13, <1>14, <1>15, <1>16, <1>17, <1>18, <1>19,
           <1>20, <1>21, <1>22
       DEF Next, ClientStep, CommitStep, SerializeStep, ShutdownStep

-----------------------------------------------------------------------------
(* The order of the writes.                                                *)

\* The parts of Pipeline(t) behind the log.
LogPart(t) == IF commitPc = "log" THEN OfTab(commitBuf, t) ELSE <<>>
QueuePart(t) == OfTab(FlattenSeq(commitQ), t)
BufferPart(t) == IF buffer = None THEN <<>> ELSE OfTab(buffer, t)

\* They are sequences of writes.
LEMMA PartTypes ==
    ASSUME TypeOK, NEW t \in Tab
    PROVE  /\ Pipeline(t) = ((logged[t] \o LogPart(t)) \o QueuePart(t)) \o BufferPart(t)
           /\ logged[t] \in Seq(Write) /\ LogPart(t) \in Seq(Write)
           /\ QueuePart(t) \in Seq(Write) /\ BufferPart(t) \in Seq(Write)
<1>1. Pipeline(t) = ((logged[t] \o LogPart(t)) \o QueuePart(t)) \o BufferPart(t)
  BY Zenon DEF Pipeline, LogPart, QueuePart, BufferPart
<1>2. LogPart(t) \in Seq(Write)
  <2>1. OfTab(commitBuf, t) \in Seq(Write) /\ <<>> \in Seq(Write)
    BY OfTabStep DEF TypeOK
  <2> QED BY <2>1, Zenon DEF LogPart
<1>3. QueuePart(t) \in Seq(Write)
  <2>1. FlattenSeq(commitQ) \in Seq(Write)
    BY FlattenSeqProperties DEF TypeOK
  <2> QED BY <2>1, OfTabStep DEF QueuePart
<1>4. BufferPart(t) \in Seq(Write)
  <2>1. CASE buffer \in Seq(Write)
    <3>1. OfTab(buffer, t) \in Seq(Write) /\ <<>> \in Seq(Write)
      BY <2>1, OfTabStep
    <3> QED BY <3>1, Zenon DEF BufferPart
  <2>2. CASE buffer = None
    <3>1. <<>> \in Seq(Write)
      OBVIOUS
    <3> QED BY <3>1, <2>2, Zenon DEF BufferPart
  <2> QED BY <2>1, <2>2 DEF TypeOK
<1> QED BY <1>1, <1>2, <1>3, <1>4 DEF TypeOK

\* Concatenation, as the steps below use it.
LEMMA WriteConcat == \A x, y, z \in Seq(Write) : (x \o y) \o z = x \o (y \o z)
BY ConcatAssoc

\* The same for the parts of the way to the log.
LEMMA ConcatParts ==
    ASSUME NEW x \in Seq(Write), NEW a \in Seq(Write), NEW q \in Seq(Write),
           NEW b \in Seq(Write)
    PROVE  /\ ((x \o a) \o <<>>) = x \o a
           /\ x \o <<>> = x
           /\ x \o (a \o q) = (x \o a) \o q
           /\ x \o (q \o b) = (x \o q) \o b
           /\ \A w \in Write : x \o Append(b, w) = Append(x \o b, w)
<1>1. x \o a \in Seq(Write)
  OBVIOUS
<1>2. ((x \o a) \o <<>>) = x \o a /\ x \o <<>> = x
  BY <1>1, ConcatEmptySeq
<1>3. x \o (a \o q) = (x \o a) \o q /\ x \o (q \o b) = (x \o q) \o b
  BY WriteConcat, ZenonT(30)
<1>4. \A w \in Write : x \o Append(b, w) = Append(x \o b, w)
  OBVIOUS
<1> QED BY <1>2, <1>3, <1>4

\* A step that leaves a tablet's parts alone.
LEMMA OrderKept ==
    ASSUME TypeOK, TypeOK', LogKeepsOrder, accepted' = accepted,
           \A t \in Tab : /\ logged'[t] = logged[t] /\ LogPart(t)' = LogPart(t)
                          /\ QueuePart(t)' = QueuePart(t)
                          /\ BufferPart(t)' = BufferPart(t)
    PROVE  LogKeepsOrder'
<1> SUFFICES ASSUME NEW t \in Tab PROVE Pipeline(t)' = OfTab(accepted', t)
  BY DEF LogKeepsOrder
<1>1. Pipeline(t) = ((logged[t] \o LogPart(t)) \o QueuePart(t)) \o BufferPart(t)
  BY PartTypes
<1>2. Pipeline(t)' = ((logged'[t] \o LogPart(t)') \o QueuePart(t)') \o BufferPart(t)'
  BY Zenon DEF Pipeline, LogPart, QueuePart, BufferPart
<1>3. Pipeline(t)' = Pipeline(t)
  BY <1>1, <1>2, Zenon
<1> QED BY <1>3 DEF LogKeepsOrder

\* A push moves the writes of the buffer to the end of the queue.
LEMMA OrderPushed ==
    ASSUME TypeOK, LogKeepsOrder, buffer \in Seq(Write), PushBuffer,
           UNCHANGED <<accepted, commitPc, commitBuf, logged>>
    PROVE  LogKeepsOrder'
<1> SUFFICES ASSUME NEW t \in Tab PROVE Pipeline(t)' = OfTab(accepted', t)
  BY DEF LogKeepsOrder
<1> DEFINE x == logged[t] \o LogPart(t)
<1>1. /\ Pipeline(t) = (x \o QueuePart(t)) \o BufferPart(t)
      /\ x \in Seq(Write)
      /\ QueuePart(t) \in Seq(Write) /\ BufferPart(t) \in Seq(Write)
  BY PartTypes
<1>2. Pipeline(t)' = ((logged'[t] \o LogPart(t)') \o QueuePart(t)') \o BufferPart(t)'
  BY Zenon DEF Pipeline, LogPart, QueuePart, BufferPart
<1>3. logged'[t] \o LogPart(t)' = x
  BY Zenon DEF LogPart
<1>4. BufferPart(t)' = <<>>
  <2>1. <<>> \in Seq(Write)
    OBVIOUS
  <2>2. OfTab(<<>>, t) = <<>>
    BY <2>1, OfTabStep, Zenon
  <2> QED BY <2>2, Zenon DEF PushBuffer, BufferPart
<1>5. BufferPart(t) = OfTab(buffer, t)
  BY NoneAssumption DEF BufferPart
<1>6. QueuePart(t)' = QueuePart(t) \o BufferPart(t)
  <2>1. FlattenSeq(commitQ) \in Seq(Write)
        /\ FlattenSeq(Append(commitQ, buffer)) = FlattenSeq(commitQ) \o buffer
    BY FlattenSeqProperties DEF TypeOK
  <2>2. OfTab(FlattenSeq(commitQ) \o buffer, t)
            = OfTab(FlattenSeq(commitQ), t) \o OfTab(buffer, t)
    BY <2>1, OfTabProperties
  <2>3. commitQ' = Append(commitQ, buffer)
    BY DEF PushBuffer
  <2> QED BY <2>1, <2>2, <2>3, <1>5, Zenon DEF QueuePart
<1> HIDE DEF x
<1>7. x \o (QueuePart(t) \o BufferPart(t)) = (x \o QueuePart(t)) \o BufferPart(t)
      /\ (x \o (QueuePart(t) \o BufferPart(t))) \o <<>>
             = x \o (QueuePart(t) \o BufferPart(t))
  <2>1. QueuePart(t) \o BufferPart(t) \in Seq(Write)
    BY <1>1
  <2> QED BY <1>1, <2>1, ConcatParts, SMTT(30), ZenonT(30)
<1>8. Pipeline(t)' = Pipeline(t)
  BY <1>1, <1>2, <1>3, <1>4, <1>6, <1>7, Zenon
<1> QED BY <1>8 DEF LogKeepsOrder

\* Every step keeps LogKeepsOrder.
LEMMA OrderStep ==
    ASSUME TypeOK, MutexGuardsBuffer, CommitEnds, LogKeepsOrder, [Next]_vars
    PROVE  LogKeepsOrder'
<1>0. TypeOK'
  BY TypeStep
<1>1. ASSUME NEW c \in Client, NEW t \in Tab, Set(c, t) PROVE LogKeepsOrder'
  <2> DEFINE w == [by |-> c, tab |-> t, n |-> Cardinality(WritesBy(c)) + 1]
  <2>1. buffer \in Seq(Write) /\ accepted \in Seq(Write)
    BY <1>1, MutexFree DEF Set, MutexGuardsBuffer, TypeOK
  <2>2. w \in Write
    BY <1>1, WriteTyped DEF Set, TypeOK
  <2>3. buffer' = Append(buffer, w) /\ accepted' = Append(accepted, w)
    BY <1>1 DEF Set
  <2>4. UNCHANGED <<logged, commitPc, commitBuf, commitQ>>
    BY <1>1 DEF Set, queueVars, commitVars, dataVars
  <2> HIDE DEF w
  <2> SUFFICES ASSUME NEW u \in Tab PROVE Pipeline(u)' = OfTab(accepted', u)
    BY DEF LogKeepsOrder
  <2> DEFINE x == (logged[u] \o LogPart(u)) \o QueuePart(u)
  <2>5. /\ Pipeline(u) = x \o BufferPart(u)
        /\ x \in Seq(Write) /\ BufferPart(u) \in Seq(Write)
    BY PartTypes
  <2>6. Pipeline(u)' = x \o BufferPart(u)'
    BY <2>4, Zenon DEF Pipeline, LogPart, QueuePart, BufferPart
  <2>7. BufferPart(u) = OfTab(buffer, u)
    BY <2>1, NoneAssumption DEF BufferPart
  <2>8. BufferPart(u)' = OfTab(buffer', u)
    <3>1. buffer' \in Seq(Write)
      BY <2>1, <2>2, <2>3
    <3> QED BY <3>1, NoneAssumption DEF BufferPart
  <2> HIDE DEF x
  <2>9. /\ OfTab(Append(buffer, w), u)
               = IF w.tab = u THEN Append(OfTab(buffer, u), w) ELSE OfTab(buffer, u)
        /\ OfTab(Append(accepted, w), u)
               = IF w.tab = u THEN Append(OfTab(accepted, u), w)
                 ELSE OfTab(accepted, u)
    BY <2>1, <2>2, OfTabStep
  <2>10. x \o Append(BufferPart(u), w) = Append(x \o BufferPart(u), w)
    BY <2>2, <2>5, ConcatParts
  <2>11. Pipeline(u) = OfTab(accepted, u)
    BY DEF LogKeepsOrder
  <2> QED BY <2>3, <2>5, <2>6, <2>7, <2>8, <2>9, <2>10, <2>11, Zenon
<1>2. ASSUME NEW c \in Client, SetFlush(c) PROVE LogKeepsOrder'
  <2>1. buffer \in Seq(Write)
    BY <1>2, MutexOfClient DEF SetFlush
  <2> QED BY <1>2, <2>1, OrderPushed DEF SetFlush, commitVars, dataVars
<1>3. ASSUME NEW c \in Client, SetMark(c) PROVE LogKeepsOrder'
  BY <1>3, <1>0, OrderKept
  DEF SetMark, LogPart, QueuePart, BufferPart, queueVars, commitVars, dataVars
<1>4. ASSUME NEW c \in Client, NEW t \in Tab, Sync(c, t) PROVE LogKeepsOrder'
  BY <1>4, <1>0, OrderKept
  DEF Sync, LogPart, QueuePart, BufferPart, queueVars, commitVars, dataVars
<1>5. ASSUME NEW c \in Client, SyncLoop(c) PROVE LogKeepsOrder'
  BY <1>5, <1>0, OrderKept
  DEF SyncLoop, LogPart, QueuePart, BufferPart, queueVars, commitVars, dataVars
<1>6. ASSUME NEW c \in Client, LoggerSync(c) PROVE LogKeepsOrder'
  BY <1>6, <1>0, OrderKept
  DEF LoggerSync, LogPart, QueuePart, BufferPart, queueVars, commitVars, dataVars
<1>7. ASSUME NEW c \in Client, SyncFlush(c) PROVE LogKeepsOrder'
  <2>1. buffer \in Seq(Write)
    BY <1>7, MutexOfClient DEF SyncFlush
  <2> QED BY <1>7, <2>1, OrderPushed DEF SyncFlush, commitVars, dataVars
<1>8. ASSUME NEW c \in Client, SyncWait(c) PROVE LogKeepsOrder'
  BY <1>8, <1>0, OrderKept
  DEF SyncWait, LogPart, QueuePart, BufferPart, queueVars, commitVars, dataVars
<1>9. ASSUME CommitPop PROVE LogKeepsOrder'
  <2> SUFFICES ASSUME NEW t \in Tab PROVE Pipeline(t)' = OfTab(accepted', t)
    BY DEF LogKeepsOrder
  <2>1. commitQ # <<>> /\ commitQ \in Seq(Seq(Write)) /\ Head(commitQ) \in Seq(Write)
        /\ Tail(commitQ) \in Seq(Seq(Write))
    BY <1>9 DEF CommitPop, TypeOK
  <2>2. commitBuf' = Head(commitQ) /\ commitQ' = Tail(commitQ)
        /\ commitPc = "pop" /\ commitPc' = "log"
        /\ UNCHANGED <<accepted, logged, buffer>>
    BY <1>9 DEF CommitPop, dataVars
  <2>3. FlattenSeq(commitQ) = Head(commitQ) \o FlattenSeq(Tail(commitQ))
        /\ FlattenSeq(Tail(commitQ)) \in Seq(Write)
    BY <2>1, FlattenSeqProperties
  <2>4. QueuePart(t) = OfTab(Head(commitQ), t) \o OfTab(FlattenSeq(Tail(commitQ)), t)
    BY <2>1, <2>3, OfTabProperties DEF QueuePart
  <2>5. QueuePart(t) = LogPart(t)' \o QueuePart(t)'
    BY <2>2, <2>4, Zenon DEF LogPart, QueuePart
  <2>6. LogPart(t) = <<>>
    BY <2>2 DEF LogPart
  <2>7. /\ Pipeline(t) = ((logged[t] \o LogPart(t)) \o QueuePart(t)) \o BufferPart(t)
        /\ logged[t] \in Seq(Write) /\ BufferPart(t) \in Seq(Write)
    BY PartTypes
  <2>8. LogPart(t)' \in Seq(Write) /\ QueuePart(t)' \in Seq(Write)
    <3>1. OfTab(Head(commitQ), t) \in Seq(Write)
          /\ OfTab(FlattenSeq(Tail(commitQ)), t) \in Seq(Write)
      BY <2>1, <2>3, OfTabStep
    <3> QED BY <3>1, <2>2, Zenon DEF LogPart, QueuePart
  <2>9. Pipeline(t)' = ((logged[t] \o LogPart(t)') \o QueuePart(t)') \o BufferPart(t)
    BY <2>2, Zenon DEF Pipeline, LogPart, QueuePart, BufferPart
  <2>10. logged[t] \o <<>> = logged[t]
         /\ logged[t] \o (LogPart(t)' \o QueuePart(t)')
                = (logged[t] \o LogPart(t)') \o QueuePart(t)'
    <3> DEFINE a == LogPart(t)'  q == QueuePart(t)'
    <3>1. a \in Seq(Write) /\ q \in Seq(Write)
      BY <2>8
    <3> HIDE DEF a, q
    <3>2. logged[t] \o <<>> = logged[t] /\ logged[t] \o (a \o q) = (logged[t] \o a) \o q
      <4>1. logged[t] \o <<>> = logged[t]
        BY <2>7, ConcatEmptySeq
      <4> QED BY <4>1, WriteConcat, <3>1, <2>7, Zenon
    <3> QED BY <3>2, Zenon DEF a, q
  <2>11. Pipeline(t)' = Pipeline(t)
    BY <2>5, <2>6, <2>7, <2>9, <2>10, Zenon
  <2> QED BY <2>2, <2>11 DEF LogKeepsOrder
<1>10. ASSUME CommitExit PROVE LogKeepsOrder'
  BY <1>10, <1>0, OrderKept
  DEF CommitExit, LogPart, QueuePart, BufferPart, queueVars, commitVars, dataVars
<1>11. ASSUME WriteLog PROVE LogKeepsOrder'
  <2> SUFFICES ASSUME NEW t \in Tab PROVE Pipeline(t)' = OfTab(accepted', t)
    BY DEF LogKeepsOrder
  <2>1. /\ Pipeline(t) = ((logged[t] \o LogPart(t)) \o QueuePart(t)) \o BufferPart(t)
        /\ logged[t] \in Seq(Write) /\ LogPart(t) \in Seq(Write)
    BY PartTypes
  <2>2. logged'[t] = logged[t] \o LogPart(t) /\ LogPart(t)' = <<>>
        /\ UNCHANGED <<accepted, commitQ, buffer>>
    BY <1>11 DEF WriteLog, LogPart, queueVars
  <2>3. Pipeline(t)' = ((logged'[t] \o LogPart(t)') \o QueuePart(t)) \o BufferPart(t)
    BY <2>2, Zenon DEF Pipeline, LogPart, QueuePart, BufferPart
  <2>4. (logged[t] \o LogPart(t)) \o <<>> = logged[t] \o LogPart(t)
    BY <2>1, ConcatParts
  <2>5. Pipeline(t)' = Pipeline(t)
    BY <2>1, <2>2, <2>3, <2>4, Zenon
  <2> QED BY <2>2, <2>5 DEF LogKeepsOrder
<1>12. ASSUME NEW t \in Tab, Apply(t) PROVE LogKeepsOrder'
  BY <1>12, <1>0, OrderKept
  DEF Apply, LogPart, QueuePart, BufferPart, queueVars, commitVars, dataVars
<1>13. ASSUME PushGroup PROVE LogKeepsOrder'
  BY <1>13, <1>0, OrderKept
  DEF PushGroup, LogPart, QueuePart, BufferPart, queueVars, commitVars, dataVars
<1>14. ASSUME TaskComplete PROVE LogKeepsOrder'
  BY <1>14, <1>0, OrderKept
  DEF TaskComplete, LogPart, QueuePart, BufferPart, queueVars, commitVars, dataVars
<1>15. ASSUME SerializePop PROVE LogKeepsOrder'
  BY <1>15, <1>0, OrderKept
  DEF SerializePop, LogPart, QueuePart, BufferPart, queueVars, commitVars, dataVars
<1>16. ASSUME Serialize PROVE LogKeepsOrder'
  BY <1>16, <1>0, OrderKept
  DEF Serialize, LogPart, QueuePart, BufferPart, queueVars, commitVars, dataVars
<1>17. ASSUME SerializeExit PROVE LogKeepsOrder'
  BY <1>17, <1>0, OrderKept
  DEF SerializeExit, LogPart, QueuePart, BufferPart, queueVars, commitVars, dataVars
<1>18. ASSUME Shutdown PROVE LogKeepsOrder'
  BY <1>18, <1>0, OrderKept
  DEF Shutdown, LogPart, QueuePart, BufferPart, queueVars, commitVars, dataVars
<1>19. ASSUME ShutdownFlush PROVE LogKeepsOrder'
  <2>1. buffer \in Seq(Write)
    BY <1>19, MutexOfShutdown DEF ShutdownFlush
  <2> QED BY <1>19, <2>1, OrderPushed DEF ShutdownFlush, commitVars, dataVars
<1>20. ASSUME ShutdownCancel PROVE LogKeepsOrder'
  BY <1>20, <1>0, OrderKept
  DEF ShutdownCancel, LogPart, QueuePart, BufferPart, queueVars, commitVars, dataVars
<1>21. ASSUME ShutdownJoin PROVE LogKeepsOrder'
  <2>1. buffer = <<>> /\ buffer' = None
    BY <1>21 DEF ShutdownJoin, MutexGuardsBuffer
  <2>2. <<>> \in Seq(Write)
    OBVIOUS
  <2>3. ASSUME NEW t \in Tab PROVE BufferPart(t)' = BufferPart(t)
    <3>1. OfTab(<<>>, t) = <<>>
      BY <2>2, OfTabStep, Zenon
    <3> QED BY <3>1, <2>1, Zenon DEF BufferPart
  <2> QED BY <1>21, <1>0, <2>3, OrderKept
      DEF ShutdownJoin, LogPart, QueuePart, queueVars, commitVars
<1>22. ASSUME UNCHANGED vars PROVE LogKeepsOrder'
  BY <1>22, <1>0, OrderKept
  DEF vars, LogPart, QueuePart, BufferPart, queueVars, commitVars, dataVars
<1> QED BY <1>1, <1>2, <1>3, <1>4, <1>5, <1>6, <1>7, <1>8, <1>9, <1>10,
           <1>11, <1>12, <1>13, <1>14, <1>15, <1>16, <1>17, <1>18, <1>19,
           <1>20, <1>21, <1>22
       DEF Next, ClientStep, CommitStep, SerializeStep, ShutdownStep

-----------------------------------------------------------------------------
(* The theorems.                                                           *)

\* IInv holds at first, and every step keeps it.
LEMMA InitInvariant == Init => IInv
<1> SUFFICES ASSUME Init PROVE IInv
  OBVIOUS
<1> USE DEF Init
<1>1. TypeOK
  <2>1. <<>> \in Seq(Write) /\ <<>> \in Seq(Seq(Write)) /\ <<>> \in Seq(SUBSET Write)
        /\ Len(<<>>) = 0
    OBVIOUS
  <2>2. 0 <= CommitMax /\ 0 <= SerializeMax
    BY SharedLoggerAssumption
  <2>3. /\ mutationsPending \in [Tab -> BOOLEAN] /\ goal \in [Client -> Nat]
        /\ tab \in [Client -> Tab \cup {None}]
        /\ pc \in [Client -> {"idle", "setFlush", "setMark", "loggerSync",
                             "syncFlush", "syncWait", "syncLoop"}]
    OBVIOUS
  <2>4. logged \in [Tab -> Seq(Write)]
    BY <2>1
  <2> QED BY <2>1, <2>2, <2>3, <2>4 DEF TypeOK
<1>2. MutexGuardsBuffer /\ CommitEnds
  BY DEF MutexGuardsBuffer, CommitEnds
<1>3. ToSet(<<>>) = {} /\ Logged = {} /\ InTables = {}
  BY DEF ToSet, Logged, InTables
<1>4. TablesFollowLog /\ Accounted
  BY <1>3 DEF TablesFollowLog, Accounted
<1>5. GoalsReached
  BY DEF GoalsReached, GoalReached
<1>6. LogKeepsOrder
  <2> SUFFICES ASSUME NEW t \in Tab PROVE Pipeline(t) = OfTab(accepted, t)
    BY DEF LogKeepsOrder
  <2>1. <<>> \in Seq(Write) /\ <<>> \in Seq(Seq(Write))
    OBVIOUS
  <2>2. OfTab(<<>>, t) = <<>> /\ FlattenSeq(<<>>) = <<>>
    BY <2>1, OfTabStep, FlattenSeqProperties, Zenon
  <2>3. logged[t] = <<>> /\ LogPart(t) = <<>> /\ QueuePart(t) = <<>>
        /\ BufferPart(t) = <<>>
    BY <2>2, Zenon DEF LogPart, QueuePart, BufferPart
  <2>4. Pipeline(t) = ((logged[t] \o LogPart(t)) \o QueuePart(t)) \o BufferPart(t)
    BY <1>1, PartTypes
  <2>5. ((<<>> \o <<>>) \o <<>>) \o <<>> = <<>>
    OBVIOUS
  <2> QED BY <2>2, <2>3, <2>4, <2>5, Zenon
<1> QED BY <1>1, <1>2, <1>4, <1>5, <1>6 DEF IInv

\* The invariant of the logger: types, the mutex, the pending count, the tables
\* as the log has them, and every accepted write on its way to the log in order.
THEOREM LoggerInvariant == Spec => []IInv
<1>1. Init => IInv
  BY InitInvariant
<1>2. IInv /\ [Next]_vars => IInv'
  <2> SUFFICES ASSUME IInv, [Next]_vars PROVE IInv'
    OBVIOUS
  <2> USE DEF IInv
  <2>1. TypeOK'
    BY TypeStep
  <2>2. MutexGuardsBuffer' /\ CommitEnds'
    BY MutexStep, CommitEndsStep
  <2>3. TablesFollowLog'
    BY TablesStep
  <2>4. Accounted'
    BY AccountedStep
  <2>5. GoalsReached'
    BY <2>4, GoalsStep
  <2>6. LogKeepsOrder'
    BY OrderStep
  <2> QED BY <2>1, <2>2, <2>3, <2>4, <2>5, <2>6
<1> QED BY <1>1, <1>2, PTL DEF Spec

\* Every variable of the logger keeps its type, and the queues their limits.
THEOREM LoggerTypes == Spec => []TypeOK
<1>1. IInv => TypeOK
  BY DEF IInv
<1> QED BY <1>1, LoggerInvariant, PTL

\* No write is lost, repeated or overtaken between set() and the log.
THEOREM OrderKeptInLog == Spec => []LogKeepsOrder
<1>1. IInv => LogKeepsOrder
  BY DEF IInv
<1> QED BY <1>1, LoggerInvariant, PTL

\* The tables never have a write the log has not, and once a buffer has been
\* acknowledged they have all that the log has.
THEOREM LogAndTables == Spec => []TablesMatchLog
<1>1. IInv => TablesMatchLog
  <2> SUFFICES ASSUME IInv PROVE TablesMatchLog
    OBVIOUS
  <2>1. commitPc \in {"pop", "log", "apply", "done"}
    BY DEF IInv, TypeOK
  <2>2. InTables \subseteq Logged /\ (commitPc = "pop" => Logged = InTables)
    BY <2>1 DEF IInv, TablesFollowLog
  <2> QED BY <2>2 DEF TablesMatchLog, InTables
<1> QED BY <1>1, LoggerInvariant, PTL

\* What was accepted before logger->sync() was called is in the log and in the
\* tables when it has returned.
THEOREM SyncMakesDurable == Spec => []LoggerSyncIsDurable
<1>1. IInv => LoggerSyncIsDurable
  BY DEF IInv, GoalsReached, GoalReached, LoggerSyncIsDurable
<1> QED BY <1>1, LoggerInvariant, PTL

\* Every accepted write is in the log when shutdown() has returned.
THEOREM ShutdownKeepsAll == Spec => []ShutdownLogsAll
<1>1. IInv => ShutdownLogsAll
  <2> SUFFICES ASSUME IInv, shutdownPc = "done" PROVE ToSet(accepted) \subseteq Logged
    BY DEF ShutdownLogsAll
  <2>1. commitPc = "done" /\ commitQ = <<>>
    BY DEF IInv, CommitEnds
  <2>2. ToSet(commitQ) = {}
    BY <2>1 DEF ToSet
  <2>3. InCommit = {} /\ InBuffer = {}
    BY <2>1, <2>2 DEF InCommit, InBuffer
  <2> QED BY <2>3 DEF IInv, Accounted
<1> QED BY <1>1, LoggerInvariant, PTL
=============================================================================
