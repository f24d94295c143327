------------------------- MODULE TabletFilesProofs --------------------------
(***************************************************************************)
(* Proofs about the files of Tablet, for any number of rows, logs, files   *)
(* and threads: that each is counted once for all who use it, that every   *)
(* write is in a file of the tablet that has its row, that META's rows can *)
(* be repaired, that a crash finds the files they name, and that the       *)
(* collector of TabletGc takes none away from a tablet it has seen.        *)
(*                                                                         *)
(* Where a theorem assumes that Syncers is empty, nobody but the work      *)
(* thread saves configurations.                                            *)
(***************************************************************************)
EXTENDS TabletProofs, TabletGc, FiniteSetTheorems

-----------------------------------------------------------------------------
(* The files of the chains, and who counts on them.                        *)

InitFiles == ToSet(InitChain)

\* A call on t has swapped the file f and not yet marked it dead.
Swapped(t, f) == \/ LogSwapped(t) /\ f = serLog
                 \/ RunSwapped(t) /\ f \in ToSet(compRun)

\* Tablet t counts on f: f is in its chain, swapped, or in its dead list.
Uses(t, f) == f \in ToSet(chain[t]) \/ Swapped(t, f) \/ f \in deadFiles[t]
Users(f) == {t \in live : Uses(t, f)}

\* The files that the logger and the compactor count on.
Kept == Undone \cup {serFrag, compOut}

\* The files loaded with the table are never counted, and never created.
LoadedKept ==
    /\ InitFiles \subseteq made
    /\ \A f \in InitFiles : files[f] = 0
    /\ serFrag \notin InitFiles /\ compOut \notin InitFiles

\* Only files that were created are in use.
UsedMade ==
    /\ \A t \in Row : ToSet(chain[t]) \cup deadFiles[t] \subseteq made
    /\ ToSet(compRun) \subseteq made
    /\ {serFrag, compOut} \subseteq made \cup {None}

\* A chain has a file of this server once.
ChainsOnce ==
    \A t \in Row : \A i, j \in 1..Len(chain[t]) :
        chain[t][i] = chain[t][j] /\ chain[t][i] \notin InitFiles => i = j

\* A tablet counts on a file of this server in one way.
UsedOnce ==
    \A t \in live, f \in made \ InitFiles :
        /\ f \in ToSet(chain[t]) => ~Swapped(t, f) /\ f \notin deadFiles[t]
        /\ Swapped(t, f) => f \notin deadFiles[t]

\* A replacement is not used where it is still to be put.
OutputsNew ==
    /\ serFrag # None =>
           \A t \in live : serLog \in ToSet(chain[t]) => ~Uses(t, serFrag)
    /\ compOut # None =>
           /\ compPc \in {"replace", "mark", "ask"}
           /\ compOut # serFrag /\ compOut \notin ToSet(compRun)
           /\ \A t \in compTodo : ~Uses(t, compOut)

\* Nothing is dead in a tablet that does not exist, and no dead file is a log
\* that is still to be serialized.
DeadApart ==
    /\ \A t \in Row : t \notin live => deadFiles[t] = {}
    /\ \A t \in Row : deadFiles[t] \cap Waiting = {}

\* The count of a file is the number of tablets and threads that count on it.
Count(f) == Cardinality(Users(f)) + (IF f \in Kept THEN 1 ELSE 0)
Counted ==
    \A f \in made \ InitFiles : files[f] = Count(f) /\ (f \in disk <=> files[f] > 0)

RefSide == /\ LoadedKept /\ UsedMade /\ ChainsOnce /\ UsedOnce
           /\ OutputsNew /\ DeadApart /\ Counted

\* A sequence has each element that is not in X once.
OnceIn(t, X) == \A i, j \in 1..Len(t) : t[i] = t[j] /\ t[i] \notin X => i = j

\* What is not in X is in c if it is in r, or in t outside s.
InSplice(r, s, t, c, X) ==
    \A e : e \notin X =>
        (e \in ToSet(c) <=> e \in ToSet(r) \/ (e \in ToSet(t) /\ e \notin ToSet(s)))

\* What a splice puts in and what it leaves are in the result.
LEMMA SplicedKeeps ==
    ASSUME NEW S, NEW r \in Seq(S), NEW s \in Seq(S), NEW t \in Seq(S),
           NEW c \in Seq(S), NEW i \in Nat, SplicedAt(r, s, t, i, c)
    PROVE  ToSet(r) \cup (ToSet(t) \ ToSet(s)) \subseteq ToSet(c)
<1> DEFINE n == Len(s)  m == Len(r)  N == Len(t)
<1>1. /\ i \in 1..N /\ i + n - 1 <= N
      /\ \A k \in 1..n : t[i + k - 1] = s[k]
      /\ Len(c) = N - n + m
      /\ \A p \in 1..(i - 1) : c[p] = t[p]
      /\ \A k \in 1..m : c[i - 1 + k] = r[k]
      /\ \A p \in (i + m)..(N - n + m) : c[p] = t[p - m + n]
  BY DEF SplicedAt
<1>2. n \in Nat /\ m \in Nat /\ N \in Nat
  OBVIOUS
<1>3. /\ \A k \in 1..n : s[k] \in ToSet(s)
      /\ \A k \in 1..m : r[k] \in ToSet(r)
      /\ \A p \in 1..N : t[p] \in ToSet(t)
      /\ \A p \in 1..Len(c) : c[p] \in ToSet(c)
  BY InToSet
<1>4. /\ \A e \in ToSet(s) : \E k \in 1..n : s[k] = e
      /\ \A e \in ToSet(r) : \E k \in 1..m : r[k] = e
      /\ \A e \in ToSet(t) : \E p \in 1..N : t[p] = e
      /\ \A e \in ToSet(c) : \E p \in 1..Len(c) : c[p] = e
  BY InToSet
<1> HIDE DEF n, m, N
<1>5. ASSUME NEW e, e \in ToSet(r) PROVE e \in ToSet(c)
  <2>1. PICK k \in 1..m : r[k] = e
    BY <1>4, <1>5
  <2>2. i - 1 + k \in 1..Len(c)
    BY <1>1, <1>2, <2>1
  <2>3. c[i - 1 + k] = r[k]
    BY <1>1
  <2>4. PICK b : b = i - 1 + k
    OBVIOUS
  <2> QED BY <1>3, <2>1, <2>2, <2>3, <2>4
<1>6. ASSUME NEW e, e \in ToSet(t), e \notin ToSet(s) PROVE e \in ToSet(c)
  <2>1. PICK a \in 1..N : t[a] = e
    BY <1>4, <1>6
  <2>2. ASSUME i <= a, a <= i + n - 1 PROVE FALSE
    <3>1. a - i + 1 \in 1..n /\ i + (a - i + 1) - 1 = a
      BY <1>1, <1>2, <2>2
    <3>2. t[i + (a - i + 1) - 1] = s[a - i + 1]
      BY <1>1, <3>1
    <3> QED BY <1>3, <1>6, <2>1, <3>1, <3>2
  <2>3. CASE a < i
    <3>1. a \in 1..(i - 1) /\ a \in 1..Len(c)
      BY <1>1, <1>2, <2>3
    <3> QED BY <1>1, <1>3, <2>1, <3>1
  <2>4. CASE a > i + n - 1
    <3>1. PICK b : b = a - n + m
      OBVIOUS
    <3>2. b \in (i + m)..(N - n + m) /\ b \in 1..Len(c) /\ b - m + n = a
      BY <1>1, <1>2, <2>4, <3>1
    <3>3. c[b] = t[b - m + n]
      BY <1>1, <3>2
    <3>4. c[b] = e
      BY <2>1, <3>2, <3>3
    <3> QED BY <1>3, <3>2, <3>4
  <2> QED BY <1>1, <1>2, <2>1, <2>2, <2>3, <2>4
<1> QED BY <1>5, <1>6

\* What is in a sequence whose part s is replaced by r, which has at most one
\* element.
LEMMA SplicedSet ==
    ASSUME NEW S, NEW X, NEW r \in Seq(S), NEW s \in Seq(S), NEW t \in Seq(S),
           NEW c \in Seq(S), NEW i \in Nat, SplicedAt(r, s, t, i, c), Len(r) <= 1,
           OnceIn(t, X), ToSet(r) \cap ToSet(t) = {}
    PROVE  /\ OnceIn(c, X)
           /\ InSplice(r, s, t, c, X)
           /\ ToSet(c) \subseteq ToSet(t) \cup ToSet(r)
           /\ ToSet(s) \subseteq ToSet(t)
<1> DEFINE n == Len(s)  m == Len(r)  N == Len(t)
<1>1. /\ i \in 1..N /\ i + n - 1 <= N
      /\ \A k \in 1..n : t[i + k - 1] = s[k]
      /\ Len(c) = N - n + m
      /\ \A p \in 1..(i - 1) : c[p] = t[p]
      /\ \A k \in 1..m : c[i - 1 + k] = r[k]
      /\ \A p \in (i + m)..(N - n + m) : c[p] = t[p - m + n]
  BY DEF SplicedAt
<1>2. n \in Nat /\ m \in Nat /\ N \in Nat /\ m <= 1
  OBVIOUS
<1>3. /\ \A k \in 1..n : s[k] \in ToSet(s)
      /\ \A k \in 1..m : r[k] \in ToSet(r)
      /\ \A p \in 1..N : t[p] \in ToSet(t)
      /\ \A p \in 1..Len(c) : c[p] \in ToSet(c)
  BY InToSet
<1>4. /\ \A e \in ToSet(s) : \E k \in 1..n : s[k] = e
      /\ \A e \in ToSet(r) : \E k \in 1..m : r[k] = e
      /\ \A e \in ToSet(t) : \E p \in 1..N : t[p] = e
      /\ \A e \in ToSet(c) : \E p \in 1..Len(c) : c[p] = e
  BY InToSet
<1>10. \A p, q \in 1..N : t[p] = t[q] /\ t[p] \notin X => p = q
  BY DEF OnceIn
<1>13. ToSet(r) \cup (ToSet(t) \ ToSet(s)) \subseteq ToSet(c)
  BY SplicedKeeps
<1> HIDE DEF n, m, N
\* Where an element of c comes from.
<1>5. ASSUME NEW p \in 1..Len(c)
      PROVE  \/ p = i /\ m = 1 /\ c[p] = r[1]
             \/ p < i /\ p \in 1..N /\ c[p] = t[p]
             \/ /\ p >= i + m /\ p - m + n \in 1..N /\ p - m + n > i + n - 1
                /\ c[p] = t[p - m + n]
  <2>1. CASE p < i
    BY <1>1, <1>2, <2>1
  <2>2. CASE p >= i + m
    <3>1. p \in (i + m)..(N - n + m)
      BY <1>1, <1>2, <2>2
    <3>2. p - m + n \in 1..N /\ p - m + n > i + n - 1
      BY <1>1, <1>2, <2>2
    <3> QED BY <1>1, <2>2, <3>1, <3>2
  <2>3. CASE i <= p /\ p < i + m
    <3>1. p = i /\ m = 1
      BY <1>1, <1>2, <2>3
    <3>2. 1 \in 1..m /\ i - 1 + 1 = i
      BY <1>1, <3>1
    <3>3. c[i - 1 + 1] = r[1]
      BY <1>1, <3>2
    <3> QED BY <3>1, <3>2, <3>3
  <2> QED BY <1>1, <1>2, <2>1, <2>2, <2>3
<1>6. m = 1 => r[1] \in ToSet(r)
  BY <1>3
<1>7. ToSet(c) \subseteq ToSet(t) \cup ToSet(r)
  <2> SUFFICES ASSUME NEW p \in 1..Len(c) PROVE c[p] \in ToSet(t) \cup ToSet(r)
    BY <1>4
  <2> QED BY <1>3, <1>5, <1>6
<1>8. OnceIn(c, X)
  <2> SUFFICES ASSUME NEW p \in 1..Len(c), NEW q \in 1..Len(c), c[p] = c[q],
                      c[p] \notin X
               PROVE  p = q
    BY DEF OnceIn
  <2>1. CASE c[p] \in ToSet(r)
    <3>1. p = i /\ q = i
      BY <1>3, <1>5, <2>1
    <3> QED BY <3>1
  <2>2. CASE c[p] \notin ToSet(r)
    <3>1. /\ \/ p < i /\ p \in 1..N /\ c[p] = t[p]
             \/ /\ p >= i + m /\ p - m + n \in 1..N /\ c[p] = t[p - m + n]
                /\ p - m + n > i + n - 1
          /\ \/ q < i /\ q \in 1..N /\ c[q] = t[q]
             \/ /\ q >= i + m /\ q - m + n \in 1..N /\ c[q] = t[q - m + n]
                /\ q - m + n > i + n - 1
      BY <1>5, <1>6, <2>2
    <3> DEFINE a == IF p < i THEN p ELSE p - m + n
               b == IF q < i THEN q ELSE q - m + n
    <3>9. a \in 1..N /\ t[a] = c[p]
      <4>1. CASE p < i
        BY <3>1, <4>1, <1>1, <1>2
      <4>2. CASE ~(p < i)
        BY <3>1, <4>2, <1>1, <1>2
      <4> QED BY <4>1, <4>2
    <3>10. b \in 1..N /\ t[b] = c[q]
      <4>1. CASE q < i
        BY <3>1, <4>1, <1>1, <1>2
      <4>2. CASE ~(q < i)
        BY <3>1, <4>2, <1>1, <1>2
      <4> QED BY <4>1, <4>2
    <3>2. a \in 1..N /\ b \in 1..N /\ t[a] = c[p] /\ t[b] = c[q]
      BY <3>9, <3>10
    <3>3. a = b
      BY <1>10, <3>2
    <3>4. (p < i => a = p /\ p < i) /\ (~(p < i) => a = p - m + n /\ a > i + n - 1)
      BY <3>1
    <3>5. (q < i => b = q /\ q < i) /\ (~(q < i) => b = q - m + n /\ b > i + n - 1)
      BY <3>1
    <3> HIDE DEF a, b
    <3>6. a \in Nat /\ b \in Nat /\ p \in Nat /\ q \in Nat
      BY <3>2
    <3> QED BY <1>1, <1>2, <3>3, <3>4, <3>5, <3>6
  <2> QED BY <2>1, <2>2
<1>9. ASSUME NEW e, e \notin X
      PROVE  e \in ToSet(c) <=>
                 e \in ToSet(r) \/ (e \in ToSet(t) /\ e \notin ToSet(s))
  <2>1. ASSUME e \in ToSet(c), e \notin ToSet(r)
        PROVE  e \in ToSet(t) /\ e \notin ToSet(s)
    <3>1. PICK p \in 1..Len(c) : c[p] = e
      BY <1>4, <2>1
    <3>2. \E a \in 1..N : t[a] = e /\ (a < i \/ a > i + n - 1)
      BY <1>5, <1>6, <2>1, <3>1
    <3>3. PICK a \in 1..N : t[a] = e /\ (a < i \/ a > i + n - 1)
      BY <3>2
    <3>4. ASSUME e \in ToSet(s) PROVE FALSE
      <4>1. PICK k \in 1..n : s[k] = e
        BY <1>4, <3>4
      <4>2. i + k - 1 \in 1..N /\ t[i + k - 1] = e
        BY <1>1, <1>2, <4>1
      <4>3. a = i + k - 1
        BY <1>9, <1>10, <3>3, <4>2
      <4> QED BY <1>1, <1>2, <3>3, <4>3
    <3> QED BY <1>3, <3>3, <3>4
  <2>2. ASSUME e \in ToSet(r) \/ (e \in ToSet(t) /\ e \notin ToSet(s))
        PROVE  e \in ToSet(c)
    BY <1>13, <2>2
  <2> QED BY <2>1, <2>2
<1>11. ToSet(s) \subseteq ToSet(t)
  <2> SUFFICES ASSUME NEW k \in 1..n PROVE s[k] \in ToSet(t)
    BY <1>4
  <2>1. i + k - 1 \in 1..N
    BY <1>1, <1>2
  <2> QED BY <1>1, <1>3, <2>1
<1>12. InSplice(r, s, t, c, X)
  BY <1>9 DEF InSplice
<1> QED BY <1>7, <1>8, <1>11, <1>12

-----------------------------------------------------------------------------
(* Types and counts.                                                       *)

\* The types that the proofs below use.
LEMMA RefTypes ==
    ASSUME IInv
    PROVE  /\ files \in [Frag -> Nat] /\ disk \subseteq Frag /\ made \subseteq Frag
           /\ live \subseteq Row /\ chain \in [Row -> Seq(Frag)]
           /\ deadFiles \in [Row -> SUBSET Frag]
           /\ serStack \in Seq(FrameSet(live)) /\ serq \in Seq(Log)
           /\ open \in Log \cup {None}
           /\ serLog \in Log \cup {None} /\ serFrag \in Disk \cup {None}
           /\ serLog = None <=> serFrag = None
           /\ compRun \in Seq(Frag) /\ compOut \in Disk \cup {None}
           /\ compTodo \subseteq live /\ compTab \in live \cup {None}
           /\ None \notin Frag /\ None \notin Row
           /\ Log \cap Disk = {} /\ Frag = Log \cup Disk
           /\ InitFiles \subseteq Disk
<1>1. InitFiles \subseteq Disk
  BY TabletAssumption, ToSetType DEF InitFiles
<1>2. /\ None \notin Frag /\ None \notin Row /\ Log \cap Disk = {}
      /\ Frag = Log \cup Disk
  BY TabletAssumption DEF Frag
<1> QED BY <1>1, <1>2 DEF IInv, BaseTypes, KnownTablets

\* Sets of tablets are finite.
LEMMA TabletsFinite ==
    ASSUME NEW S \in SUBSET Row
    PROVE  IsFiniteSet(S) /\ Cardinality(S) \in Nat
<1>1. IsFiniteSet(Row)
  BY TabletAssumption, FS_Interval DEF Row
<1>2. IsFiniteSet(S)
  BY <1>1, FS_Subset
<1> QED BY <1>2, FS_CardinalityType

\* Only the innermost call of replaceFragments() can have swapped its log.
LEMMA TopMark ==
    ASSUME NEW T, NEW s \in Seq(FrameSet(T)), \A i \in 2..Len(s) : s[i].pc = "dag",
           NEW t
    PROVE  (\E i \in 1..Len(s) : s[i] = [tab |-> t, pc |-> "mark"])
               <=> s # <<>> /\ Head(s).tab = t /\ Head(s).pc = "mark"
<1>1. ASSUME NEW i \in 1..Len(s), s[i] = [tab |-> t, pc |-> "mark"]
      PROVE  s # <<>> /\ Head(s).tab = t /\ Head(s).pc = "mark"
  <2>1. s[i].pc = "mark" /\ s[i].tab = t
    BY <1>1
  <2>2. i \notin 2..Len(s)
    BY <2>1
  <2>3. i = 1 /\ s # <<>>
    BY <2>2
  <2> QED BY <2>1, <2>3
<1>2. ASSUME s # <<>>, Head(s).tab = t, Head(s).pc = "mark"
      PROVE  \E i \in 1..Len(s) : s[i] = [tab |-> t, pc |-> "mark"]
  <2>1. 1 \in 1..Len(s) /\ s[1] = Head(s) /\ Head(s) \in FrameSet(T)
    BY <1>2
  <2>2. Head(s) = [tab |-> t, pc |-> "mark"]
    BY <1>2, <2>1 DEF FrameSet
  <2> QED BY <2>1, <2>2
<1> QED BY <1>1, <1>2

\* Only the tablet of the innermost call can have swapped the log.
LEMMA SwappedTop ==
    ASSUME IInv, StackForwarded, IInv', StackForwarded'
    PROVE  \A t : /\ LogSwapped(t) <=> serStack # <<>> /\ SerTop.tab = t
                                       /\ SerTop.pc = "mark"
                  /\ LogSwapped(t)' <=> serStack' # <<>> /\ SerTop'.tab = t
                                        /\ SerTop'.pc = "mark"
<1> TAKE t
<1>1. serStack \in Seq(FrameSet(live)) /\ serStack' \in Seq(FrameSet(live'))
  BY DEF IInv, KnownTablets
<1>2. LogSwapped(t) <=> serStack # <<>> /\ Head(serStack).tab = t
                        /\ Head(serStack).pc = "mark"
  BY <1>1, TopMark DEF StackForwarded, LogSwapped
<1>3. LogSwapped(t)' <=> serStack' # <<>> /\ Head(serStack').tab = t
                         /\ Head(serStack').pc = "mark"
  BY <1>1, TopMark DEF StackForwarded, LogSwapped
<1> QED BY <1>2, <1>3 DEF SerTop

\* What follows when every tablet counts on the same files as before.
LEMMA UsesSame ==
    ASSUME RefSide,
           UNCHANGED <<files, disk, made, live, chain, serLog, serFrag, compOut>>,
           Undone' \cup {None} = Undone \cup {None}, None \notin Frag, made \subseteq Frag,
           \A t \in live, f \in made \ InitFiles : Uses(t, f)' <=> Uses(t, f),
           compOut = None \/ /\ compPc' \in {"replace", "mark", "ask"}
                             /\ compTodo' \subseteq compTodo
                             /\ compOut \notin ToSet(compRun'),
           compTodo \subseteq live
    PROVE  LoadedKept' /\ ChainsOnce' /\ OutputsNew' /\ Counted'
<1>1. LoadedKept' /\ ChainsOnce'
  BY DEF RefSide, LoadedKept, ChainsOnce
<1>2. {serFrag, compOut} \subseteq (made \ InitFiles) \cup {None}
  BY DEF RefSide, LoadedKept, UsedMade
<1>3. OutputsNew'
  <2>1. serFrag # None => \A t \in live : serLog \in ToSet(chain[t]) => ~Uses(t, serFrag)'
    BY <1>2 DEF RefSide, OutputsNew
  <2>2. compOut # None => \A t \in compTodo : ~Uses(t, compOut)'
    BY <1>2 DEF RefSide, OutputsNew
  <2>3. compOut # None => compOut # serFrag
    BY DEF RefSide, OutputsNew
  <2>4. serFrag' # None =>
            \A t \in live' : serLog' \in ToSet(chain'[t]) => ~Uses(t, serFrag)'
    BY <2>1
  <2>5. compOut' # None => \A t \in compTodo' : ~Uses(t, compOut)'
    BY <2>2
  <2> QED BY <2>3, <2>4, <2>5 DEF OutputsNew
<1>4. \A f \in made \ InitFiles : Users(f)' = Users(f)
  BY DEF Users
<1>5. \A f \in made \ InitFiles : f \in Kept' <=> f \in Kept
  <2>1. \A f \in made : f # None
    OBVIOUS
  <2> QED BY <2>1 DEF Kept
<1>6. Counted'
  BY <1>4, <1>5 DEF RefSide, Counted, Count
<1> QED BY <1>1, <1>3, <1>6

\* The steps that change no file, chain or list.
LEMMA RefsQuiet ==
    ASSUME IInv, RefSide,
           UNCHANGED <<files, disk, made, live, chain, deadFiles, serLog, serFrag,
                       compRun, compOut>>,
           Undone' \cup {None} = Undone \cup {None},
           Waiting' \cup {None} = Waiting \cup {None},
           compOut = None \/ /\ compPc' \in {"replace", "mark", "ask"}
                             /\ compTodo' \subseteq compTodo,
           \A t \in Row : /\ LogSwapped(t)' <=> LogSwapped(t)
                          /\ RunSwapped(t)' <=> RunSwapped(t)
    PROVE  RefSide'
<1>1. live \subseteq Row /\ None \notin Frag /\ made \subseteq Frag
      /\ compTodo \subseteq live /\ deadFiles \in [Row -> SUBSET Frag]
  BY RefTypes
<1>2. \A t \in live : \A f : /\ Swapped(t, f)' <=> Swapped(t, f)
                             /\ Uses(t, f)' <=> Uses(t, f)
  BY <1>1 DEF Swapped, Uses
<1>3. compOut # None => compOut \notin ToSet(compRun)
  BY DEF RefSide, OutputsNew
<1>4. LoadedKept' /\ ChainsOnce' /\ OutputsNew' /\ Counted'
  BY <1>1, <1>2, <1>3, UsesSame
<1>5. UsedMade'
  BY DEF RefSide, UsedMade
<1>6. UsedOnce'
  BY <1>2 DEF RefSide, UsedOnce
<1>7. DeadApart'
  <2>1. \A t \in Row : deadFiles[t] \cap Waiting' = {}
    <3> SUFFICES ASSUME NEW t \in Row, NEW f \in deadFiles[t], f \in Waiting'
                 PROVE  FALSE
      OBVIOUS
    <3>1. f # None
      BY <1>1
    <3> QED BY <3>1 DEF RefSide, DeadApart
  <2> QED BY <2>1 DEF RefSide, DeadApart
<1> QED BY <1>4, <1>5, <1>6, <1>7 DEF RefSide

-----------------------------------------------------------------------------
(* The steps that neither use files nor let go of them.                    *)

\* saveConfig() up to its end counts nothing.
LEMMA SavesRefs ==
    ASSUME IInv, RefSide,
           \/ StartSave \/ StartSplit \/ SplitImpossible
           \/ \E s \in Saver : WriteConfig(s) \/ SaveAgain(s)
           \/ \E s \in Syncers, t \in live : Sync(s, t)
           \/ UNCHANGED vars
    PROVE  RefSide'
<1> DEFINE Same == UNCHANGED <<files, disk, made, live, chain, deadFiles, serLog,
                               serFrag, serStack, open, serq, compPc, compTab,
                               compRun, compTodo, compOut>>
<1>1. ASSUME StartSave PROVE Same
  BY <1>1 DEF StartSave, trackerVars, loggerVars, serVars, compVars
<1>2. ASSUME StartSplit PROVE Same
  BY <1>2 DEF StartSplit, trackerVars, loggerVars, serVars, compVars
<1>3. ASSUME SplitImpossible PROVE Same
  BY <1>3 DEF SplitImpossible, trackerVars, tabletVars, loggerVars, serVars, compVars
<1>4. ASSUME NEW s \in Saver, WriteConfig(s) PROVE Same
  BY <1>4 DEF WriteConfig, trackerVars, tabletVars, loggerVars, serVars, compVars
<1>5. ASSUME NEW s \in Saver, SaveAgain(s) PROVE Same
  BY <1>5 DEF SaveAgain, trackerVars, loggerVars, serVars, compVars
<1>6. ASSUME NEW s \in Syncers, NEW t \in live, Sync(s, t) PROVE Same
  BY <1>6 DEF Sync, trackerVars, loggerVars, serVars, compVars
<1>7. ASSUME UNCHANGED vars PROVE Same
  BY <1>7 DEF vars, trackerVars, tabletVars, loggerVars, serVars, compVars
<1>8. Same
  <2>1. CASE StartSave
    BY <1>1, <2>1
  <2>2. CASE StartSplit
    BY <1>2, <2>2
  <2>3. CASE SplitImpossible
    BY <1>3, <2>3
  <2>4. CASE UNCHANGED vars
    BY <1>7, <2>4
  <2> QED BY <1>4, <1>5, <1>6, <2>1, <2>2, <2>3, <2>4
<1>9. Undone' = Undone /\ Waiting' = Waiting
  BY <1>8 DEF Undone, Waiting
<1>10. \A t \in Row : /\ LogSwapped(t)' <=> LogSwapped(t)
                      /\ RunSwapped(t)' <=> RunSwapped(t)
  BY <1>8 DEF LogSwapped, RunSwapped
<1>11. compOut = None \/ (compPc' \in {"replace", "mark", "ask"} /\ compTodo' \subseteq compTodo)
  BY <1>8 DEF RefSide, OutputsNew
<1> QED BY <1>8, <1>9, <1>10, <1>11, RefsQuiet

\* A full group changes hands.
LEMMA PushGroupRefs == ASSUME IInv, RefSide, PushGroup PROVE RefSide'
<1>1. /\ full /\ serq' = Append(serq, open) /\ open' = None
      /\ UNCHANGED <<files, disk, made, live, chain, deadFiles, serLog, serFrag,
                     serStack, compPc, compTab, compRun, compTodo, compOut>>
  BY DEF PushGroup, trackerVars, tabletVars, serVars, compVars
<1>2. open \in Log /\ serq \in Seq(Log)
  BY <1>1 DEF IInv, BaseTypes
<1>3. ToSet(serq') = ToSet(serq) \cup {open}
  BY <1>1, <1>2, ToSetProperties
<1>4. Waiting' \cup {None} = Waiting \cup {None} /\ Undone' \cup {None} = Undone \cup {None}
  BY <1>1, <1>3 DEF Waiting, Undone
<1>5. \A t \in Row : /\ LogSwapped(t)' <=> LogSwapped(t)
                     /\ RunSwapped(t)' <=> RunSwapped(t)
  BY <1>1 DEF LogSwapped, RunSwapped
<1>6. compOut = None \/ (compPc' \in {"replace", "mark", "ask"} /\ compTodo' \subseteq compTodo)
  BY <1>1 DEF RefSide, OutputsNew
<1> QED BY <1>1, <1>4, <1>5, <1>6, RefsQuiet

\* The steps of the serialize thread between the swap and the last notice.
LEMMA CallsRefs ==
    ASSUME IInv, StackForwarded, IInv', StackForwarded', RefSide,
           \/ SerializeNext \/ ForwardToClone \/ AddToDag
           \/ \E big \in BOOLEAN : SerializeAskSplit(big)
    PROVE  RefSide'
<1> DEFINE Same == UNCHANGED <<files, disk, made, live, chain, deadFiles, serLog,
                               serFrag, open, serq, compPc, compTab, compRun,
                               compTodo, compOut>>
           NoMark == /\ serStack # <<>> => SerTop.pc # "mark"
                     /\ serStack' # <<>> => SerTop'.pc # "mark"
<1>1. ASSUME SerializeNext PROVE Same /\ NoMark
  <2>1. Same /\ serStack = <<>> /\ serStack' = <<SerCall(Head(serTodo))>>
    BY <1>1 DEF SerializeNext, trackerVars, tabletVars, loggerVars, compVars
  <2>2. NoMark
    BY <2>1 DEF SerTop, SerCall
  <2> QED BY <2>1, <2>2
<1>2. ASSUME ForwardToClone PROVE Same /\ NoMark
  <2>1. Same /\ serStack # <<>> /\ SerTop.pc = "forward"
    BY <1>2 DEF ForwardToClone, trackerVars, loggerVars, compVars
  <2>2. SerTop'.pc # "mark"
    <3> DEFINE u == clonedLogs[SerTop.tab][serLog]
               x == [SerTop EXCEPT !.pc = "dag"]
               y == Tail(serStack)
    <3>1. serStack' = IF u = None THEN <<x>> \o y ELSE <<SerCall(u)>> \o (<<x>> \o y)
      BY <1>2 DEF ForwardToClone
    <3>2. SerTop \in FrameSet(live) /\ y \in Seq(FrameSet(live))
      BY <2>1, FrameFacts
    <3>3. x \in FrameSet(live) /\ x.pc = "dag"
      BY <3>2 DEF FrameSet
    <3> HIDE DEF x, y
    <3>4. (<<x>> \o y) \in Seq(FrameSet(live)) /\ Head(<<x>> \o y) = x
      BY <3>2, <3>3
    <3>5. CASE u = None
      BY <3>1, <3>3, <3>4, <3>5 DEF SerTop
    <3>6. CASE u # None
      <4> DEFINE z == SerCall(u)  w == <<x>> \o y
      <4>1. z.pc = "swap" /\ serStack' = <<z>> \o w
        BY <3>1, <3>6 DEF SerCall
      <4>2. w \in Seq(FrameSet(live))
        BY <3>4
      <4> HIDE DEF z, w
      <4>3. Head(<<z>> \o w) = z
        <5>1. \A v : v \in Seq(FrameSet(live)) => v \in Seq(FrameSet(live) \cup {z})
          BY SeqGrows
        <5>2. w \in Seq(FrameSet(live) \cup {z})
          BY <4>2, <5>1
        <5> QED BY <5>2
      <4> QED BY <4>1, <4>3 DEF SerTop
    <3> QED BY <3>5, <3>6
  <2> QED BY <2>1, <2>2
<1>3. ASSUME AddToDag PROVE Same /\ NoMark
  <2>1. Same /\ serStack # <<>> /\ SerTop.pc = "dag" /\ SerGoto("ask")
    BY <1>3 DEF AddToDag, trackerVars, tabletVars, loggerVars, compVars
  <2> QED BY <2>1, GotoFacts
<1>4. ASSUME NEW big \in BOOLEAN, SerializeAskSplit(big) PROVE Same /\ NoMark
  <2>1. Same /\ serStack # <<>> /\ SerTop.pc = "ask" /\ serStack' = Tail(serStack)
    BY <1>4 DEF SerializeAskSplit, trackerVars, loggerVars, compVars
  <2> QED BY <2>1, PopFacts
<1>5. Same /\ NoMark
  BY <1>1, <1>2, <1>3, <1>4
<1>6. Undone' = Undone /\ Waiting' = Waiting
  BY <1>5 DEF Undone, Waiting
<1>7. \A t \in Row : /\ LogSwapped(t)' <=> LogSwapped(t)
                     /\ RunSwapped(t)' <=> RunSwapped(t)
  BY <1>5, SwappedTop DEF RunSwapped
<1>8. compOut = None \/ (compPc' \in {"replace", "mark", "ask"} /\ compTodo' \subseteq compTodo)
  BY <1>5 DEF RefSide, OutputsNew
<1> QED BY <1>5, <1>6, <1>7, <1>8, RefsQuiet

\* The steps of the compact thread that do not change what a tablet uses.
LEMMA CompactorRefs ==
    ASSUME IInv, RefSide,
           CompactNothing \/ \E big \in BOOLEAN : CompactAskSplit(big)
    PROVE  RefSide'
<1> DEFINE Same == UNCHANGED <<files, disk, made, live, chain, deadFiles, serLog,
                               serFrag, serStack, open, serq, compRun, compOut>>
           Apart == compPc # "mark" /\ compPc' # "mark"
           Out == compOut = None \/ /\ compPc' \in {"replace", "mark", "ask"}
                                    /\ compTodo' \subseteq compTodo
<1>1. ASSUME CompactNothing PROVE Same /\ Apart /\ Out
  <2>1. Same /\ compPc = "merge" /\ compPc' = "replace"
    BY <1>1 DEF CompactNothing, trackerVars, tabletVars, loggerVars, serVars
  <2>2. compOut = None
    BY <2>1 DEF RefSide, OutputsNew
  <2> QED BY <2>1, <2>2
<1>2. ASSUME NEW big \in BOOLEAN, CompactAskSplit(big) PROVE Same /\ Apart /\ Out
  BY <1>2 DEF CompactAskSplit, trackerVars, loggerVars, serVars
<1>3. Same /\ Apart /\ Out
  BY <1>1, <1>2
<1>4. Undone' = Undone /\ Waiting' = Waiting
  BY <1>3 DEF Undone, Waiting
<1>5. \A t \in Row : /\ LogSwapped(t)' <=> LogSwapped(t)
                     /\ RunSwapped(t)' <=> RunSwapped(t)
  BY <1>3 DEF LogSwapped, RunSwapped
<1> QED BY <1>3, <1>4, <1>5, RefsQuiet

-----------------------------------------------------------------------------
(* How the counts follow the tracker's operations.                         *)

\* Users and counts are what they should be.
LEMMA CountTypes ==
    ASSUME IInv, IInv'
    PROVE  \A f : /\ Users(f) \in SUBSET Row /\ Users(f)' \in SUBSET Row
                  /\ Cardinality(Users(f)) \in Nat /\ Cardinality(Users(f)') \in Nat
                  /\ Count(f) \in Nat /\ Count(f)' \in Nat
<1> TAKE f
<1>1. Users(f) \in SUBSET Row /\ Users(f)' \in SUBSET Row
  BY DEF Users, IInv, BaseTypes
<1>2. Cardinality(Users(f)) \in Nat /\ Cardinality(Users(f)') \in Nat
  BY <1>1, TabletsFinite
<1>3. Count(f) \in Nat
  BY <1>2 DEF Count
<1>4. Count(f)' \in Nat
  BY <1>2 DEF Count
<1> QED BY <1>1, <1>2, <1>3, <1>4

\* One user more, or one less.
LEMMA UserAdded ==
    ASSUME IInv, IInv', NEW f, NEW t, t \notin Users(f), Users(f)' = Users(f) \cup {t}
    PROVE  Cardinality(Users(f)') = Cardinality(Users(f)) + 1
<1>1. IsFiniteSet(Users(f))
  BY CountTypes, TabletsFinite
<1> QED BY <1>1, FS_AddElement

LEMMA UserRemoved ==
    ASSUME IInv, IInv', NEW f, NEW t, t \in Users(f), Users(f)' = Users(f) \ {t}
    PROVE  Cardinality(Users(f)) = Cardinality(Users(f)') + 1
<1>1. IsFiniteSet(Users(f))
  BY CountTypes, TabletsFinite
<1>2. Cardinality(Users(f)') = Cardinality(Users(f)) - 1
  BY <1>1, FS_RemoveElement
<1> QED BY <1>2, CountTypes

\* The files F are released, each by one that counted on it.
LEMMA ReleaseCounts ==
    ASSUME IInv, IInv', RefSide, NEW F, made' = made,
           files' = Release(files, F), disk' = disk \ Deleted(files, F),
           \A f \in made \ InitFiles : Count(f) = Count(f)' + (IF f \in F THEN 1 ELSE 0)
    PROVE  Counted' /\ \A f \in InitFiles : files'[f] = 0
<1>1. files \in [Frag -> Nat] /\ made \subseteq Frag /\ InitFiles \subseteq made
  BY RefTypes DEF RefSide, LoadedKept
<1>2. \A f \in Frag : files'[f] = IF f \in F /\ files[f] > 0 THEN files[f] - 1 ELSE files[f]
  BY <1>1 DEF Release
<1>3. ASSUME NEW f \in made \ InitFiles
      PROVE  files'[f] = Count(f)' /\ (f \in disk' <=> files'[f] > 0)
  <2>1. /\ files[f] = Count(f) /\ (f \in disk <=> files[f] > 0) /\ files[f] \in Nat
        /\ Count(f)' \in Nat /\ f \in Frag
    BY <1>1, CountTypes DEF RefSide, Counted
  <2>2. CASE f \in F
    <3>1. files[f] > 0 /\ files'[f] = files[f] - 1
      BY <1>2, <2>1, <2>2
    <3>2. f \in disk' <=> files[f] # 1
      BY <2>1, <2>2, <3>1 DEF Deleted
    <3> QED BY <2>1, <2>2, <3>1, <3>2
  <2>3. CASE f \notin F
    BY <1>2, <2>1, <2>3 DEF Deleted
  <2> QED BY <2>2, <2>3
<1>4. ASSUME NEW f \in InitFiles PROVE files'[f] = 0
  <2>1. files[f] = 0 /\ f \in Frag
    BY <1>1 DEF RefSide, LoadedKept
  <2> QED BY <1>2, <2>1 DEF Deleted
<1> QED BY <1>3, <1>4 DEF Counted

\* The files F are counted once more, by one more that counts on each.
LEMMA AddCounts ==
    ASSUME IInv, IInv', RefSide, NEW F, made' = made,
           files' = AddReference(files, F), disk' = disk,
           \A f \in made \ InitFiles :
               /\ Count(f)' = Count(f) + (IF f \in F THEN 1 ELSE 0)
               /\ f \in F => Count(f) > 0
    PROVE  Counted' /\ \A f \in InitFiles : files'[f] = 0
<1>1. files \in [Frag -> Nat] /\ made \subseteq Frag /\ InitFiles \subseteq made
  BY RefTypes DEF RefSide, LoadedKept
<1>2. \A f \in Frag : files'[f] = IF f \in F /\ files[f] > 0 THEN files[f] + 1 ELSE files[f]
  BY <1>1 DEF AddReference
<1>3. ASSUME NEW f \in made \ InitFiles
      PROVE  files'[f] = Count(f)' /\ (f \in disk' <=> files'[f] > 0)
  <2>1. /\ files[f] = Count(f) /\ (f \in disk <=> files[f] > 0) /\ files[f] \in Nat
        /\ f \in Frag
    BY <1>1 DEF RefSide, Counted
  <2> QED BY <1>2, <2>1
<1>4. ASSUME NEW f \in InitFiles PROVE files'[f] = 0
  <2>1. files[f] = 0 /\ f \in Frag
    BY <1>1 DEF RefSide, LoadedKept
  <2> QED BY <1>2, <2>1
<1> QED BY <1>3, <1>4 DEF Counted

\* A new file is tracked, and one thread counts on it.
LEMMA TrackCounts ==
    ASSUME IInv, IInv', RefSide, NEW d \in Frag, d \notin made, made' = made \cup {d},
           files' = Track(files, d), disk' = disk \cup {d}, Count(d)' = 1,
           \A f \in made \ InitFiles : Count(f)' = Count(f)
    PROVE  Counted' /\ \A f \in InitFiles : files'[f] = 0
<1>1. files \in [Frag -> Nat] /\ made \subseteq Frag /\ InitFiles \subseteq made
  BY RefTypes DEF RefSide, LoadedKept
<1>2. files'[d] = 1 /\ \A f \in Frag : f # d => files'[f] = files[f]
  BY <1>1 DEF Track
<1>3. ASSUME NEW f \in made \ InitFiles
      PROVE  files'[f] = Count(f)' /\ (f \in disk' <=> files'[f] > 0)
  <2>1. /\ files[f] = Count(f) /\ (f \in disk <=> files[f] > 0)
        /\ f \in Frag /\ f # d
    BY <1>1 DEF RefSide, Counted
  <2> QED BY <1>2, <2>1
<1>4. ASSUME NEW f \in InitFiles PROVE files'[f] = 0
  <2>1. files[f] = 0 /\ f \in Frag /\ f # d
    BY <1>1 DEF RefSide, LoadedKept
  <2> QED BY <1>2, <2>1
<1>5. files'[d] = Count(d)' /\ (d \in disk' <=> files'[d] > 0)
  BY <1>2
<1> QED BY <1>3, <1>4, <1>5 DEF Counted

-----------------------------------------------------------------------------
(* The steps that mark files dead and that begin or end a compaction.      *)

\* The log moves from the swap to the dead list of the tablet.
LEMMA MarkLogDeadRefs ==
    ASSUME IInv, LogSide, RunSide, IInv', StackForwarded', RefSide, MarkLogDead
    PROVE  RefSide'
<1> DEFINE t == SerTop.tab
<1>1. /\ serStack # <<>> /\ SerTop.pc = "mark" /\ SerGoto("forward")
      /\ deadFiles' = [deadFiles EXCEPT ![t] = @ \cup {serLog}]
      /\ UNCHANGED <<files, disk, made, live, chain, serLog, serFrag, open, serq,
                     compPc, compTab, compRun, compTodo, compOut>>
  BY DEF MarkLogDead, trackerVars, loggerVars, compVars
<1>2. t \in live /\ t \in Row /\ serLog \in Log /\ serLog # None
  BY <1>1, FrameFacts
<1>3. /\ deadFiles \in [Row -> SUBSET Frag] /\ live \subseteq Row /\ made \subseteq Frag
      /\ compTodo \subseteq live /\ None \notin Frag /\ InitFiles \subseteq Disk
      /\ Log \cap Disk = {}
  BY RefTypes
<1>4. /\ serStack' # <<>> /\ SerTop'.tab = t /\ SerTop'.pc = "forward"
  BY <1>1, GotoFacts DEF LogSide
<1>5. StackForwarded
  BY DEF LogSide
<1>6. \A x \in Row : (LogSwapped(x) <=> x = t) /\ ~LogSwapped(x)'
  BY <1>1, <1>4, <1>5, SwappedTop
<1>7. \A x \in Row : RunSwapped(x)' <=> RunSwapped(x)
  BY <1>1 DEF RunSwapped
<1>8. serLog \notin ToSet(compRun) /\ serLog \in made \ InitFiles /\ serLog \notin Waiting
  BY <1>2, <1>3, RunTypes DEF LogSide, LogsApart, Undone
<1> HIDE DEF t
<1>9. /\ \A x \in Row : x # t => deadFiles'[x] = deadFiles[x]
      /\ deadFiles'[t] = deadFiles[t] \cup {serLog}
  BY <1>1, <1>2, <1>3
<1>10. \A x \in Row : \A f : /\ Swapped(x, f)' <=> Swapped(x, f) /\ ~(x = t /\ f = serLog)
                             /\ Uses(x, f)' <=> Uses(x, f)
  <2> SUFFICES ASSUME NEW x \in Row, NEW f
               PROVE  /\ Swapped(x, f)' <=> Swapped(x, f) /\ ~(x = t /\ f = serLog)
                      /\ Uses(x, f)' <=> Uses(x, f)
    OBVIOUS
  <2>1. Swapped(x, f)' <=> Swapped(x, f) /\ ~(x = t /\ f = serLog)
    BY <1>1, <1>6, <1>7, <1>8 DEF Swapped
  <2>2. Swapped(t, serLog)
    BY <1>2, <1>6 DEF Swapped
  <2>3. f \in deadFiles'[x] <=> f \in deadFiles[x] \/ (x = t /\ f = serLog)
    BY <1>9
  <2> QED BY <1>1, <2>1, <2>2, <2>3 DEF Uses
<1>11. Undone' = Undone /\ Waiting' = Waiting
  BY <1>1 DEF Undone, Waiting
<1>12. LoadedKept' /\ ChainsOnce' /\ OutputsNew' /\ Counted'
  <2>1. compOut = None \/ /\ compPc' \in {"replace", "mark", "ask"}
                          /\ compTodo' \subseteq compTodo
                          /\ compOut \notin ToSet(compRun')
    BY <1>1 DEF RefSide, OutputsNew
  <2> QED BY <1>1, <1>3, <1>10, <1>11, <2>1, UsesSame
<1>13. UsedMade'
  BY <1>1, <1>8, <1>9 DEF RefSide, UsedMade
<1>14. UsedOnce'
  <2> SUFFICES ASSUME NEW x \in live, NEW f \in made \ InitFiles
               PROVE  /\ f \in ToSet(chain[x]) => ~Swapped(x, f)' /\ f \notin deadFiles'[x]
                      /\ Swapped(x, f)' => f \notin deadFiles'[x]
    BY <1>1 DEF UsedOnce
  <2>1. /\ f \in ToSet(chain[x]) => ~Swapped(x, f) /\ f \notin deadFiles[x]
        /\ Swapped(x, f) => f \notin deadFiles[x]
    BY DEF RefSide, UsedOnce
  <2>2. CASE x = t /\ f = serLog
    <3>1. Swapped(x, f)
      BY <1>2, <1>6, <2>2 DEF Swapped
    <3> QED BY <1>3, <1>10, <2>1, <2>2, <3>1
  <2>3. CASE ~(x = t /\ f = serLog)
    BY <1>3, <1>9, <1>10, <2>1, <2>3
  <2> QED BY <2>2, <2>3
<1>15. DeadApart'
  BY <1>1, <1>2, <1>8, <1>9, <1>11 DEF RefSide, DeadApart
<1> QED BY <1>12, <1>13, <1>14, <1>15 DEF RefSide

\* So do the files of a run.
LEMMA MarkRunDeadRefs ==
    ASSUME IInv, LogSide, RunSide, RefSide, MarkRunDead
    PROVE  RefSide'
<1> DEFINE t == compTab  R == ToSet(compRun)
<1>1. /\ compPc = "mark" /\ compPc' \in {"replace", "ask"}
      /\ deadFiles' = [deadFiles EXCEPT ![t] = @ \cup R]
      /\ UNCHANGED <<files, disk, made, live, chain, serLog, serFrag, open, serq,
                     serStack, compRun, compTodo, compOut>>
  BY DEF MarkRunDead, trackerVars, loggerVars, serVars
<1>2. t \in live /\ t \in Row /\ t # None
  BY <1>1, RefTypes DEF IInv, BaseTypes
<1>3. /\ deadFiles \in [Row -> SUBSET Frag] /\ live \subseteq Row /\ made \subseteq Frag
      /\ compTodo \subseteq live /\ None \notin Frag /\ open \in Log \cup {None}
      /\ R \subseteq Frag /\ serq \in Seq(Log)
  BY RefTypes, ToSetType
<1>4. \A x \in Row : LogSwapped(x)' <=> LogSwapped(x)
  BY <1>1 DEF LogSwapped
<1>5. \A x \in Row : (RunSwapped(x) <=> x = t) /\ ~RunSwapped(x)'
  BY <1>1, <1>2 DEF RunSwapped
<1>6. R \cap Waiting = {}
  <2>1. ToSet(serq) \subseteq Log
    BY <1>3, ToSetType
  <2>2. R \cap Log = {}
    BY RunTypes
  <2> QED BY <1>3, <2>1, <2>2 DEF Waiting
<1> HIDE DEF t
<1>7. /\ \A x \in Row : x # t => deadFiles'[x] = deadFiles[x]
      /\ deadFiles'[t] = deadFiles[t] \cup R
  BY <1>1, <1>2, <1>3
<1>8. \A x \in Row : \A f : /\ Swapped(x, f)' <=> LogSwapped(x) /\ f = serLog
                            /\ Swapped(x, f) <=> Swapped(x, f)' \/ (x = t /\ f \in R)
                            /\ Uses(x, f)' <=> Uses(x, f)
  <2> SUFFICES ASSUME NEW x \in Row, NEW f
               PROVE  /\ Swapped(x, f)' <=> LogSwapped(x) /\ f = serLog
                      /\ Swapped(x, f) <=> Swapped(x, f)' \/ (x = t /\ f \in R)
                      /\ Uses(x, f)' <=> Uses(x, f)
    OBVIOUS
  <2>1. /\ Swapped(x, f)' <=> LogSwapped(x) /\ f = serLog
        /\ Swapped(x, f) <=> Swapped(x, f)' \/ (x = t /\ f \in R)
    BY <1>1, <1>4, <1>5 DEF Swapped
  <2>2. f \in deadFiles'[x] <=> f \in deadFiles[x] \/ (x = t /\ f \in R)
    BY <1>7
  <2> QED BY <1>1, <2>1, <2>2 DEF Uses
<1>9. Undone' = Undone /\ Waiting' = Waiting
  BY <1>1 DEF Undone, Waiting
<1>10. LoadedKept' /\ ChainsOnce' /\ OutputsNew' /\ Counted'
  <2>1. compOut = None \/ /\ compPc' \in {"replace", "mark", "ask"}
                          /\ compTodo' \subseteq compTodo
                          /\ compOut \notin ToSet(compRun')
    BY <1>1 DEF RefSide, OutputsNew
  <2> QED BY <1>1, <1>3, <1>8, <1>9, <2>1, UsesSame
<1>11. UsedMade'
  BY <1>1, <1>7 DEF RefSide, UsedMade
<1>12. UsedOnce'
  <2> SUFFICES ASSUME NEW x \in live, NEW f \in made \ InitFiles
               PROVE  /\ f \in ToSet(chain[x]) => ~Swapped(x, f)' /\ f \notin deadFiles'[x]
                      /\ Swapped(x, f)' => f \notin deadFiles'[x]
    BY <1>1 DEF UsedOnce
  <2>1. /\ f \in ToSet(chain[x]) => ~Swapped(x, f) /\ f \notin deadFiles[x]
        /\ Swapped(x, f) => f \notin deadFiles[x]
    BY DEF RefSide, UsedOnce
  <2>2. f \in R => f # serLog
    BY RunTypes, RefTypes
  <2>3. CASE x = t /\ f \in R
    <3>1. Swapped(x, f)
      BY <1>3, <1>8, <2>3
    <3>2. ~Swapped(x, f)'
      BY <1>3, <1>8, <2>2, <2>3
    <3> QED BY <2>1, <3>1, <3>2
  <2>4. CASE ~(x = t /\ f \in R)
    BY <1>3, <1>7, <1>8, <2>1, <2>4
  <2> QED BY <2>3, <2>4
<1>13. DeadApart'
  BY <1>1, <1>2, <1>6, <1>7, <1>9 DEF RefSide, DeadApart
<1> QED BY <1>10, <1>11, <1>12, <1>13 DEF RefSide

\* The compactor counts on no file while it chooses.
LEMMA CompactStartRefs ==
    ASSUME IInv, IInv', RefSide, NEW t \in live, NEW i \in 1..Len(chain[t]),
           NEW j \in 1..Len(chain[t]), CompactStart(t, i, j)
    PROVE  RefSide'
<1>1. /\ compPc = "idle" /\ compPc' = "merge"
      /\ compRun' = SubSeq(chain[t], i, j)
      /\ UNCHANGED <<files, disk, made, live, chain, deadFiles, serLog, serFrag, open,
                     serq, serStack, compTodo, compOut, compTab>>
  BY DEF CompactStart, trackerVars, tabletVars, loggerVars, serVars
<1>2. compOut = None
  BY <1>1 DEF RefSide, OutputsNew
<1>3. /\ live \subseteq Row /\ made \subseteq Frag /\ compTodo \subseteq live
      /\ None \notin Frag /\ chain[t] \in Seq(Frag)
  BY RefTypes
<1>4. \A x \in Row : \A f : /\ Swapped(x, f)' <=> Swapped(x, f)
                            /\ Uses(x, f)' <=> Uses(x, f)
  <2>1. \A x \in Row : (LogSwapped(x)' <=> LogSwapped(x)) /\ ~RunSwapped(x) /\ ~RunSwapped(x)'
    BY <1>1 DEF LogSwapped, RunSwapped
  <2> QED BY <1>1, <2>1 DEF Swapped, Uses
<1>5. Undone' = Undone /\ Waiting' = Waiting
  BY <1>1 DEF Undone, Waiting
<1>6. LoadedKept' /\ ChainsOnce' /\ OutputsNew' /\ Counted'
  BY <1>1, <1>2, <1>3, <1>4, <1>5, UsesSame
<1>7. UsedMade'
  <2>1. ToSet(compRun') \subseteq ToSet(chain[t])
    <3> DEFINE s == SubSeq(chain[t], i, j)
    <3>1. /\ i \in Int /\ j \in Int
          /\ \A k \in i..j : k \in 1..Len(chain[t]) /\ chain[t][k] \in Frag
      BY <1>3
    <3>2. /\ s \in Seq(Frag) /\ Len(s) = IF i <= j THEN j - i + 1 ELSE 0
          /\ \A k \in 1..(j - i + 1) : s[k] = chain[t][i + k - 1]
      BY <3>1, SubSeqProperties
    <3> HIDE DEF s
    <3>3. ASSUME NEW f \in ToSet(s) PROVE f \in ToSet(chain[t])
      <4>1. PICK k \in 1..Len(s) : s[k] = f
        BY <3>2, <3>3, InToSet
      <4>2. k \in 1..(j - i + 1) /\ i + k - 1 \in i..j
        BY <3>1, <3>2, <4>1
      <4>3. PICK m \in i..j : m = i + k - 1
        BY <4>2
      <4>4. m \in 1..Len(chain[t]) /\ chain[t][m] = f
        BY <3>1, <3>2, <4>1, <4>2, <4>3
      <4> QED BY <1>3, <4>4, InToSet
    <3> QED BY <1>1, <3>3 DEF s
  <2>2. ToSet(chain[t]) \subseteq made
    BY <1>3 DEF RefSide, UsedMade
  <2> QED BY <1>1, <2>1, <2>2 DEF RefSide, UsedMade
<1>8. UsedOnce'
  BY <1>1, <1>3, <1>4 DEF RefSide, UsedOnce
<1>9. DeadApart'
  BY <1>1, <1>5 DEF RefSide, DeadApart
<1> QED BY <1>6, <1>7, <1>8, <1>9 DEF RefSide

\* The compactor lets go of its output.
LEMMA CompactEndRefs ==
    ASSUME IInv, IInv', RefSide, CompactEnd
    PROVE  RefSide'
<1>1. /\ compPc = "replace" /\ compTodo = {}
      /\ compPc' = "idle" /\ compRun' = <<>> /\ compOut' = None
      /\ files' = IF compOut = None THEN files ELSE Release(files, {compOut})
      /\ disk' = IF compOut = None THEN disk ELSE disk \ Deleted(files, {compOut})
      /\ UNCHANGED <<made, live, chain, deadFiles, serLog, serFrag, open, serq,
                     serStack, compTodo, compTab>>
  BY DEF CompactEnd, tabletVars, loggerVars, serVars
<1>2. /\ files \in [Frag -> Nat] /\ made \subseteq Frag /\ disk \subseteq Frag
      /\ live \subseteq Row /\ None \notin Frag /\ compOut \in Disk \cup {None}
      /\ Log \cap Disk = {} /\ serq \in Seq(Log) /\ open \in Log \cup {None}
      /\ serLog \in Log \cup {None}
  BY RefTypes
<1>3. \A x \in Row : \A f : /\ Swapped(x, f)' <=> Swapped(x, f)
                            /\ Uses(x, f)' <=> Uses(x, f)
  <2>1. \A x \in Row : (LogSwapped(x)' <=> LogSwapped(x)) /\ ~RunSwapped(x) /\ ~RunSwapped(x)'
    BY <1>1 DEF LogSwapped, RunSwapped
  <2> QED BY <1>1, <2>1 DEF Swapped, Uses
<1>4. Undone' = Undone /\ Waiting' = Waiting
  BY <1>1 DEF Undone, Waiting
<1>5. \A f : Users(f)' = Users(f)
  BY <1>1, <1>2, <1>3 DEF Users
<1>6. compOut # None => /\ compOut # serFrag /\ compOut \notin Undone
                        /\ compOut \in Kept
  <2>1. ToSet(serq) \subseteq Log
    BY <1>2, ToSetType
  <2> QED BY <1>2, <2>1 DEF RefSide, OutputsNew, Undone, Waiting, Kept
<1>7. Counted' /\ \A f \in InitFiles : files'[f] = 0
  <2>1. CASE compOut = None
    <3>1. Kept' = Kept
      BY <1>1, <1>4, <2>1 DEF Kept
    <3>2. \A f : Count(f)' = Count(f)
      BY <1>5, <3>1 DEF Count
    <3> QED BY <1>1, <2>1, <3>2 DEF RefSide, Counted, LoadedKept
  <2>2. CASE compOut # None
    <3>1. ASSUME NEW f \in made \ InitFiles
          PROVE  Count(f) = Count(f)' + (IF f \in {compOut} THEN 1 ELSE 0)
      <4>1. f \in Kept' <=> f \in Kept /\ f # compOut
        BY <1>1, <1>2, <1>4, <1>6, <2>2 DEF Kept
      <4>2. Cardinality(Users(f)) \in Nat
        BY CountTypes
      <4> QED BY <1>5, <1>6, <2>2, <4>1, <4>2 DEF Count
    <3> QED BY <1>1, <2>2, <3>1, ReleaseCounts
  <2> QED BY <2>1, <2>2
<1>8. LoadedKept'
  <2>1. None \notin InitFiles
    BY <1>2 DEF RefSide, LoadedKept
  <2> QED BY <1>1, <1>7, <2>1 DEF RefSide, LoadedKept
<1>9. ChainsOnce'
  BY <1>1 DEF RefSide, ChainsOnce
<1>10. UsedMade'
  BY <1>1 DEF RefSide, UsedMade, ToSet
<1>11. UsedOnce'
  BY <1>1, <1>2, <1>3 DEF RefSide, UsedOnce
<1>12. OutputsNew'
  BY <1>1, <1>2, <1>3 DEF RefSide, OutputsNew
<1>13. DeadApart'
  BY <1>1, <1>4 DEF RefSide, DeadApart
<1> QED BY <1>7, <1>8, <1>9, <1>10, <1>11, <1>12, <1>13 DEF RefSide

\* A file nobody created is used by nobody.
LEMMA NewUnused ==
    ASSUME IInv, LogSide, RefSide, NEW d, d \notin made, d # None
    PROVE  /\ \A x \in Row : d \notin ToSet(chain[x]) /\ d \notin deadFiles[x]
           /\ d \notin ToSet(compRun) /\ d # serLog /\ d # serFrag /\ d # compOut
           /\ d \notin Kept
           /\ Users(d) = {}
<1>1. Undone \subseteq made \cup {None}
  BY DEF LogSide, LogsApart
<1>2. /\ \A x \in Row : d \notin ToSet(chain[x]) /\ d \notin deadFiles[x]
      /\ d \notin ToSet(compRun) /\ d # serLog /\ d # serFrag /\ d # compOut
  BY <1>1 DEF RefSide, UsedMade, Undone
<1>3. d \notin Kept
  BY <1>1, <1>2 DEF Kept
<1>4. live \subseteq Row
  BY RefTypes
<1>5. Users(d) = {}
  BY <1>2, <1>4 DEF Users, Uses, Swapped
<1> QED BY <1>2, <1>3, <1>5

\* The compactor's output is tracked, and put nowhere yet.
LEMMA CompactOutputRefs ==
    ASSUME IInv, LogSide, IInv', RefSide, NEW d \in Disk, CompactOutput(d)
    PROVE  RefSide'
<1>1. /\ compPc = "merge" /\ compPc' = "replace" /\ d \notin made
      /\ made' = made \cup {d} /\ disk' = disk \cup {d}
      /\ files' = Track(files, d) /\ compOut' = d
      /\ UNCHANGED <<live, chain, deadFiles, serLog, serFrag, open, serq, serStack,
                     compRun, compTab>>
  BY DEF CompactOutput, NextFile, tabletVars, loggerVars, serVars
<1>2. /\ made \subseteq Frag /\ d \in Frag /\ d # None /\ live \subseteq Row
      /\ compTodo' \subseteq live /\ None \notin Frag
  BY <1>1, RefTypes DEF IInv, KnownTablets
<1>3. /\ \A x \in Row : d \notin ToSet(chain[x]) /\ d \notin deadFiles[x]
      /\ d \notin ToSet(compRun) /\ d # serLog /\ d # serFrag /\ d \notin Kept
      /\ Users(d) = {}
  BY <1>1, <1>2, NewUnused
<1>4. compOut = None
  BY <1>1 DEF RefSide, OutputsNew
<1>5. \A x \in Row : \A f : /\ Swapped(x, f)' <=> Swapped(x, f)
                            /\ Uses(x, f)' <=> Uses(x, f)
  <2>1. \A x \in Row : (LogSwapped(x)' <=> LogSwapped(x)) /\ ~RunSwapped(x) /\ ~RunSwapped(x)'
    BY <1>1 DEF LogSwapped, RunSwapped
  <2> QED BY <1>1, <2>1 DEF Swapped, Uses
<1>6. Undone' = Undone /\ Waiting' = Waiting
  BY <1>1 DEF Undone, Waiting
<1>7. \A f : Users(f)' = Users(f)
  BY <1>1, <1>2, <1>5 DEF Users
<1>8. \A f \in made \cup {d} : f \in Kept' <=> f \in Kept \/ f = d
  BY <1>1, <1>2, <1>4, <1>6 DEF Kept
<1>9. Count(d)' = 1 /\ \A f \in made \ InitFiles : Count(f)' = Count(f)
  <2>1. Cardinality({}) = 0
    BY FS_EmptySet
  <2>2. Count(d)' = 1
    BY <1>3, <1>7, <1>8, <2>1 DEF Count
  <2> QED BY <1>1, <1>7, <1>8, <2>2 DEF Count
<1>10. Counted' /\ \A f \in InitFiles : files'[f] = 0
  BY <1>1, <1>2, <1>9, TrackCounts
<1>11. d \notin InitFiles
  BY <1>1 DEF RefSide, LoadedKept
<1>12. LoadedKept'
  BY <1>1, <1>10, <1>11 DEF RefSide, LoadedKept
<1>13. ChainsOnce'
  BY <1>1 DEF RefSide, ChainsOnce
<1>14. UsedMade'
  BY <1>1 DEF RefSide, UsedMade
<1>15. \A x \in live : ~Uses(x, d) /\ ~Swapped(x, d)
  BY <1>3 DEF Users, Uses
<1>16. UsedOnce'
  <2> SUFFICES ASSUME NEW x \in live, NEW f \in (made \cup {d}) \ InitFiles
               PROVE  /\ f \in ToSet(chain[x]) => ~Swapped(x, f) /\ f \notin deadFiles[x]
                      /\ Swapped(x, f) => f \notin deadFiles[x]
    BY <1>1, <1>2, <1>5 DEF UsedOnce
  <2>1. CASE f = d
    BY <1>2, <1>3, <1>15, <2>1
  <2>2. CASE f # d
    BY <2>2 DEF RefSide, UsedOnce
  <2> QED BY <2>1, <2>2
<1>17. OutputsNew'
  <2>1. serFrag # None => \A x \in live : serLog \in ToSet(chain[x]) => ~Uses(x, serFrag)'
    BY <1>1, <1>2, <1>5 DEF RefSide, OutputsNew
  <2>2. \A x \in compTodo' : ~Uses(x, d)'
    BY <1>2, <1>5, <1>15
  <2>3. /\ serFrag' # None => \A x \in live' : serLog' \in ToSet(chain'[x])
                                               => ~Uses(x, serFrag)'
        /\ \A x \in compTodo' : ~Uses(x, compOut)'
    BY <1>1, <2>1, <2>2
  <2>4. compPc' = "replace" /\ compOut' # serFrag' /\ compOut' \notin ToSet(compRun')
    BY <1>1, <1>3
  <2> QED BY <2>3, <2>4 DEF OutputsNew
<1>18. DeadApart'
  BY <1>1, <1>6 DEF RefSide, DeadApart
<1> QED BY <1>10, <1>12, <1>13, <1>14, <1>16, <1>17, <1>18 DEF RefSide

-----------------------------------------------------------------------------
(* The serialize thread takes a log and ends with it.                      *)

\* The logger counts on the new file.
LEMMA SerializeStartRefs ==
    ASSUME IInv, LogSide, IInv', RefSide, NEW d \in Disk, SerializeStart(d)
    PROVE  RefSide'
<1>1. /\ serLog = None /\ serq # <<>> /\ d \notin made
      /\ serLog' = Head(serq) /\ serq' = Tail(serq) /\ serFrag' = d
      /\ made' = made \cup {d} /\ disk' = disk \cup {d}
      /\ files' = Track(files, d)
      /\ UNCHANGED <<live, chain, deadFiles, open, serStack, compPc, compRun, compTab,
                     compTodo, compOut>>
  BY DEF SerializeStart, NextFile, tabletVars, compVars
<1>2. /\ made \subseteq Frag /\ d \in Frag /\ d # None /\ live \subseteq Row
      /\ compTodo \subseteq live /\ None \notin Frag /\ serFrag = None
      /\ serq \in Seq(Log) /\ Log \cap Disk = {}
  BY <1>1, RefTypes
<1>3. /\ \A x \in Row : d \notin ToSet(chain[x]) /\ d \notin deadFiles[x]
      /\ d \notin ToSet(compRun) /\ d # compOut /\ d \notin Kept
      /\ Users(d) = {}
  BY <1>1, <1>2, NewUnused
<1>4. Head(serq) \in Log /\ ToSet(serq) = {Head(serq)} \cup ToSet(Tail(serq))
  BY <1>1, <1>2, ToSetProperties
<1>5. /\ Waiting' \subseteq Waiting
      /\ Undone' \cup {None} = Undone \cup {None}
  BY <1>1, <1>4 DEF Waiting, Undone
<1>6. serStack = <<>>
  BY <1>1 DEF IInv, BaseTypes
<1>7. \A x \in Row : \A f : /\ Swapped(x, f)' <=> Swapped(x, f)
                            /\ Uses(x, f)' <=> Uses(x, f)
  <2>1. \A x \in Row : /\ RunSwapped(x)' <=> RunSwapped(x)
                       /\ ~LogSwapped(x) /\ ~LogSwapped(x)'
    BY <1>1, <1>6 DEF LogSwapped, RunSwapped
  <2> QED BY <1>1, <2>1 DEF Swapped, Uses
<1>8. \A f : Users(f)' = Users(f)
  BY <1>1, <1>2, <1>7 DEF Users
<1>9. \A f \in made \cup {d} : f \in Kept' <=> f \in Kept \/ f = d
  BY <1>1, <1>2, <1>5 DEF Kept
<1>10. Count(d)' = 1 /\ \A f \in made \ InitFiles : Count(f)' = Count(f)
  <2>1. Cardinality({}) = 0
    BY FS_EmptySet
  <2>2. Count(d)' = 1
    BY <1>3, <1>8, <1>9, <2>1 DEF Count
  <2> QED BY <1>1, <1>8, <1>9, <2>2 DEF Count
<1>11. Counted' /\ \A f \in InitFiles : files'[f] = 0
  BY <1>1, <1>2, <1>10, TrackCounts
<1>12. d \notin InitFiles
  BY <1>1 DEF RefSide, LoadedKept
<1>13. LoadedKept' /\ ChainsOnce' /\ UsedMade'
  BY <1>1, <1>11, <1>12 DEF RefSide, LoadedKept, ChainsOnce, UsedMade
<1>14. \A x \in live : ~Uses(x, d) /\ ~Swapped(x, d)
  BY <1>3 DEF Users, Uses
<1>15. UsedOnce'
  <2> SUFFICES ASSUME NEW x \in live, NEW f \in (made \cup {d}) \ InitFiles
               PROVE  /\ f \in ToSet(chain[x]) => ~Swapped(x, f) /\ f \notin deadFiles[x]
                      /\ Swapped(x, f) => f \notin deadFiles[x]
    BY <1>1, <1>2, <1>7 DEF UsedOnce
  <2>1. CASE f = d
    BY <1>2, <1>3, <1>14, <2>1
  <2>2. CASE f # d
    BY <2>2 DEF RefSide, UsedOnce
  <2> QED BY <2>1, <2>2
<1>16. OutputsNew'
  <2>1. /\ \A x \in live : ~Uses(x, d)'
        /\ compOut # None => \A x \in compTodo : ~Uses(x, compOut)'
    BY <1>1, <1>2, <1>7, <1>14 DEF RefSide, OutputsNew
  <2>2. compOut # None => compPc \in {"replace", "mark", "ask"}
                          /\ compOut \notin ToSet(compRun)
    BY DEF RefSide, OutputsNew
  <2>3. /\ \A x \in live' : ~Uses(x, serFrag)'
        /\ compOut' # None => /\ \A x \in compTodo' : ~Uses(x, compOut)'
                              /\ compPc' \in {"replace", "mark", "ask"}
                              /\ compOut' \notin ToSet(compRun')
                              /\ compOut' # serFrag'
    BY <1>1, <1>3, <2>1, <2>2
  <2> QED BY <2>3 DEF OutputsNew
<1>17. DeadApart'
  BY <1>1, <1>5 DEF RefSide, DeadApart
<1> QED BY <1>11, <1>13, <1>15, <1>16, <1>17 DEF RefSide

\* The logger lets go of the log and of the file.
LEMMA SerializeEndRefs ==
    ASSUME IInv, LogSide, IInv', RefSide, SerializeEnd
    PROVE  RefSide'
<1>1. /\ serLog # None /\ serStack = <<>>
      /\ files' = Release(files, {serFrag, serLog})
      /\ disk' = disk \ Deleted(files, {serFrag, serLog})
      /\ serLog' = None /\ serFrag' = None
      /\ UNCHANGED <<made, live, chain, deadFiles, open, serq, serStack, compPc,
                     compRun, compTab, compTodo, compOut>>
  BY DEF SerializeEnd, LoggerFiles, tabletVars, loggerVars, compVars
<1>2. /\ made \subseteq Frag /\ live \subseteq Row /\ compTodo \subseteq live
      /\ None \notin Frag /\ serq \in Seq(Log) /\ Log \cap Disk = {}
      /\ serLog \in Log /\ serFrag \in Disk /\ open \in Log \cup {None}
      /\ compOut \in Disk \cup {None} /\ InitFiles \subseteq Disk
      /\ serLog # None /\ serFrag # None
  BY <1>1, RefTypes
<1>3. /\ serLog \notin Waiting /\ serLog \in Undone /\ serLog # compOut
      /\ serFrag \notin Undone /\ serFrag # compOut
  <2>1. ToSet(serq) \subseteq Log
    BY <1>2, ToSetType
  <2>2. serFrag # compOut
    BY <1>2 DEF RefSide, OutputsNew
  <2> QED BY <1>1, <1>2, <2>1, <2>2 DEF LogSide, LogsApart, Undone, Waiting
<1>4. \A x \in Row : \A f : /\ Swapped(x, f)' <=> Swapped(x, f)
                            /\ Uses(x, f)' <=> Uses(x, f)
  <2>1. \A x \in Row : /\ RunSwapped(x)' <=> RunSwapped(x)
                       /\ ~LogSwapped(x) /\ ~LogSwapped(x)'
    BY <1>1 DEF LogSwapped, RunSwapped
  <2> QED BY <1>1, <2>1 DEF Swapped, Uses
<1>5. \A f : Users(f)' = Users(f)
  BY <1>1, <1>2, <1>4 DEF Users
<1>6. Waiting' = Waiting /\ Undone' = Waiting \cup {None}
  BY <1>1 DEF Waiting, Undone
<1>7. ASSUME NEW f \in made \ InitFiles
      PROVE  Count(f) = Count(f)' + (IF f \in {serFrag, serLog} THEN 1 ELSE 0)
  <2>1. f \in Kept' <=> f \in Kept /\ f \notin {serFrag, serLog}
    BY <1>1, <1>2, <1>3, <1>6 DEF Kept, Undone
  <2>2. f \in {serFrag, serLog} => f \in Kept
    BY <1>3 DEF Kept
  <2>3. Cardinality(Users(f)) \in Nat
    BY CountTypes
  <2> QED BY <1>5, <2>1, <2>2, <2>3 DEF Count
<1>8. Counted' /\ \A f \in InitFiles : files'[f] = 0
  BY <1>1, <1>7, ReleaseCounts
<1>9. LoadedKept' /\ ChainsOnce' /\ UsedMade'
  <2>1. None \notin InitFiles
    BY <1>2 DEF RefSide, LoadedKept
  <2> QED BY <1>1, <1>8, <2>1 DEF RefSide, LoadedKept, ChainsOnce, UsedMade
<1>10. UsedOnce'
  BY <1>1, <1>2, <1>4 DEF RefSide, UsedOnce
<1>11. OutputsNew'
  <2>1. compOut # None => \A x \in compTodo : ~Uses(x, compOut)'
    BY <1>1, <1>2, <1>4 DEF RefSide, OutputsNew
  <2>2. compOut # None => compPc \in {"replace", "mark", "ask"}
                          /\ compOut \notin ToSet(compRun)
    BY DEF RefSide, OutputsNew
  <2>3. compOut' # None => /\ \A x \in compTodo' : ~Uses(x, compOut)'
                           /\ compPc' \in {"replace", "mark", "ask"}
                           /\ compOut' \notin ToSet(compRun')
                           /\ compOut' # serFrag'
    BY <1>1, <2>1, <2>2
  <2> QED BY <1>1, <2>3 DEF OutputsNew
<1>12. DeadApart'
  BY <1>1, <1>6 DEF RefSide, DeadApart
<1> QED BY <1>8, <1>9, <1>10, <1>11, <1>12 DEF RefSide

-----------------------------------------------------------------------------
(* saveConfig() lets go of the dead files.                                 *)

\* The tablet lets go of its dead files.
LEMMA FinishSaveRefs ==
    ASSUME IInv, LogSide, IInv', RefSide, NEW s \in Saver, FinishSave(s)
    PROVE  RefSide'
<1> DEFINE t == save[s].tab  D == deadFiles[t]
<1>1. /\ save[s].pc = "saved"
      /\ files' = Release(files, D) /\ disk' = disk \ Deleted(files, D)
      /\ deadFiles' = [deadFiles EXCEPT ![t] = {}]
      /\ UNCHANGED <<made, live, chain, serLog, serFrag, serStack, open, serq, compPc,
                     compRun, compTab, compTodo, compOut>>
  BY DEF FinishSave, DeadAfterRelease, loggerVars, serVars, compVars
<1>2. t \in Row
  BY <1>1, SaveFacts DEF IInv, SaveSet
<1>3. /\ deadFiles \in [Row -> SUBSET Frag] /\ live \subseteq Row /\ made \subseteq Frag
      /\ compTodo \subseteq live /\ None \notin Frag
  BY RefTypes
<1> HIDE DEF t
<1>4. deadFiles'[t] = {} /\ \A x \in Row : x # t => deadFiles'[x] = deadFiles[x]
  BY <1>1, <1>2, <1>3
<1>5. Undone' = Undone /\ Waiting' = Waiting /\ Kept' = Kept
  BY <1>1 DEF Undone, Waiting, Kept
<1>6. \A x \in Row : \A f : Swapped(x, f)' <=> Swapped(x, f)
  <2>1. \A x \in Row : (RunSwapped(x)' <=> RunSwapped(x)) /\ (LogSwapped(x)' <=> LogSwapped(x))
    BY <1>1 DEF LogSwapped, RunSwapped
  <2> QED BY <1>1, <2>1 DEF Swapped
<1>7. \A x \in live, f \in made \ InitFiles :
          Uses(x, f)' <=> Uses(x, f) /\ ~(x = t /\ f \in D)
  <2> SUFFICES ASSUME NEW x \in live, NEW f \in made \ InitFiles
               PROVE  Uses(x, f)' <=> Uses(x, f) /\ ~(x = t /\ f \in D)
    OBVIOUS
  <2>1. /\ f \in ToSet(chain[x]) => f \notin deadFiles[x]
        /\ Swapped(x, f) => f \notin deadFiles[x]
    BY DEF RefSide, UsedOnce
  <2>2. Uses(x, f)' <=> f \in ToSet(chain[x]) \/ Swapped(x, f) \/ f \in deadFiles'[x]
    BY <1>1, <1>3, <1>6 DEF Uses
  <2>3. CASE x = t
    BY <1>4, <2>1, <2>2, <2>3 DEF Uses
  <2>4. CASE x # t
    BY <1>3, <1>4, <2>2, <2>4 DEF Uses
  <2> QED BY <2>3, <2>4
<1>8. ASSUME NEW f \in made \ InitFiles
      PROVE  Count(f) = Count(f)' + (IF f \in D THEN 1 ELSE 0)
  <2>1. CASE f \in D
    <3>1. t \in live
      BY <1>2, <2>1 DEF RefSide, DeadApart
    <3>2. t \in Users(f)
      BY <2>1, <3>1 DEF Users, Uses
    <3>3. Users(f)' = Users(f) \ {t}
      BY <1>1, <1>7, <2>1 DEF Users
    <3>4. Cardinality(Users(f)) = Cardinality(Users(f)') + 1
      BY <3>2, <3>3, UserRemoved
    <3>5. Cardinality(Users(f)') \in Nat
      BY CountTypes
    <3> QED BY <1>5, <2>1, <3>4, <3>5 DEF Count
  <2>2. CASE f \notin D
    <3>1. Users(f)' = Users(f)
      BY <1>1, <1>7, <2>2 DEF Users
    <3>2. Count(f)' = Count(f) /\ Count(f) \in Nat
      BY <1>5, <3>1, CountTypes DEF Count
    <3> QED BY <2>2, <3>2
  <2> QED BY <2>1, <2>2
<1>9. Counted' /\ \A f \in InitFiles : files'[f] = 0
  BY <1>1, <1>8, ReleaseCounts
<1>10. LoadedKept' /\ ChainsOnce'
  BY <1>1, <1>9 DEF RefSide, LoadedKept, ChainsOnce
<1>11. UsedMade'
  BY <1>1, <1>4 DEF RefSide, UsedMade
<1>12. UsedOnce'
  <2>1. \A x \in Row : deadFiles'[x] \subseteq deadFiles[x]
    BY <1>4
  <2> QED BY <1>1, <1>3, <1>6, <2>1 DEF RefSide, UsedOnce
<1>13. OutputsNew'
  <2>1. {serFrag, compOut} \subseteq (made \ InitFiles) \cup {None}
    BY DEF RefSide, LoadedKept, UsedMade
  <2>2. /\ serFrag # None => \A x \in live : serLog \in ToSet(chain[x])
                                                 => ~Uses(x, serFrag)'
        /\ compOut # None => \A x \in compTodo : ~Uses(x, compOut)'
    BY <1>1, <1>3, <1>7, <2>1 DEF RefSide, OutputsNew
  <2>3. compOut # None => compPc \in {"replace", "mark", "ask"} /\ compOut # serFrag
                          /\ compOut \notin ToSet(compRun)
    BY DEF RefSide, OutputsNew
  <2>4. /\ serFrag' # None => \A x \in live' : serLog' \in ToSet(chain'[x])
                                                 => ~Uses(x, serFrag)'
        /\ compOut' # None => /\ \A x \in compTodo' : ~Uses(x, compOut)'
                              /\ compPc' \in {"replace", "mark", "ask"}
                              /\ compOut' \notin ToSet(compRun')
                              /\ compOut' # serFrag'
    BY <1>1, <2>2, <2>3
  <2> QED BY <2>4 DEF OutputsNew
<1>14. DeadApart'
  <2>1. \A x \in Row : deadFiles'[x] \subseteq deadFiles[x]
    BY <1>4
  <2> QED BY <1>1, <1>5, <2>1 DEF RefSide, DeadApart
<1> QED BY <1>9, <1>10, <1>11, <1>12, <1>13, <1>14 DEF RefSide

-----------------------------------------------------------------------------
(* The commit thread.                                                      *)

\* The logger, and maybe the tablet, count on the log.
LEMMA CommitRefs ==
    ASSUME IInv, LogSide, RunSide, IInv', RefSide, NEW r \in Row, NEW l \in Log,
           NEW big \in BOOLEAN, Commit(r, l, big)
    PROVE  RefSide'
<1> DEFINE t == Owner(r)
           add == t \notin ToSet(group[l]) /\ l \notin ToSet(chain[t])
           fresh == IF open = None THEN Track(files, l) ELSE files
<1>1. t \in live /\ t \in Row
  BY OwnerLives DEF IInv, BaseTypes
<1>2. /\ IF open = None THEN l \notin made ELSE l = open
      /\ open' = l /\ made' = made \cup {l} /\ disk' = disk \cup {l}
      /\ chain' = IF add THEN [chain EXCEPT ![t] = Append(@, l)] ELSE chain
      /\ files' = IF add THEN AddReference(fresh, {l}) ELSE fresh
      /\ UNCHANGED <<live, deadFiles, serLog, serFrag, serStack, serq, compPc,
                     compRun, compTab, compTodo, compOut>>
  BY DEF Commit, serVars, compVars
<1> HIDE DEF t, add
<1>3. /\ files \in [Frag -> Nat] /\ made \subseteq Frag /\ live \subseteq Row
      /\ chain \in [Row -> Seq(Frag)] /\ deadFiles \in [Row -> SUBSET Frag]
      /\ compTodo \subseteq live /\ None \notin Frag /\ InitFiles \subseteq Disk
      /\ Log \cap Disk = {} /\ l \in Frag /\ l # None /\ l \notin InitFiles
      /\ serFrag \in Disk \cup {None} /\ compOut \in Disk \cup {None}
  BY RefTypes
<1>4. add => l \notin ToSet(chain[t])
  BY DEF add
\* Nobody but the logger and the chains counts on the open log.
<1>5. /\ l \notin ToSet(compRun) /\ l # serFrag /\ l # compOut
      /\ l # serLog /\ \A x \in Row : l \notin deadFiles[x]
  <2>1. l \notin ToSet(compRun) /\ l # serFrag /\ l # compOut
    BY <1>3, RunTypes
  <2>2. CASE open = None
    BY <1>2, <1>3, <2>1, <2>2, NewUnused
  <2>3. CASE open # None
    <3>1. l \in Waiting
      BY <1>2, <2>3 DEF Waiting
    <3> QED BY <1>3, <2>1, <3>1 DEF LogSide, LogsApart, RefSide, DeadApart
  <2> QED BY <2>1, <2>2, <2>3
<1>6. \A x \in Row : ~Swapped(x, l)
  BY <1>5 DEF Swapped
<1>7. \A x \in Row : \A f : Swapped(x, f)' <=> Swapped(x, f)
  <2>1. \A x \in Row : (RunSwapped(x)' <=> RunSwapped(x)) /\ (LogSwapped(x)' <=> LogSwapped(x))
    BY <1>2 DEF LogSwapped, RunSwapped
  <2> QED BY <1>2, <2>1 DEF Swapped
<1>8. /\ \A x \in Row : x # t => chain'[x] = chain[x]
      /\ ToSet(chain'[t]) = ToSet(chain[t]) \cup (IF add THEN {l} ELSE {})
  <2>1. chain[t] \in Seq(Frag)
    BY <1>1, <1>3
  <2>2. ToSet(Append(chain[t], l)) = ToSet(chain[t]) \cup {l}
    BY <2>1, ToSetProperties
  <2> QED BY <1>1, <1>2, <1>3, <2>2
<1>9. \A x \in Row : \A f : Uses(x, f)' <=> Uses(x, f) \/ (x = t /\ f = l /\ add)
  <2> SUFFICES ASSUME NEW x \in Row, NEW f
               PROVE  Uses(x, f)' <=> Uses(x, f) \/ (x = t /\ f = l /\ add)
    OBVIOUS
  <2>1. f \in ToSet(chain'[x]) <=> f \in ToSet(chain[x]) \/ (x = t /\ f = l /\ add)
    BY <1>8
  <2> QED BY <1>2, <1>7, <2>1 DEF Uses
<1>10. add => ~Uses(t, l)
  BY <1>1, <1>4, <1>5, <1>6 DEF Uses
<1>11. \A f \in made : f \in Kept' <=> f \in Kept \/ f = l
  <2>1. open # None => l \in Kept
    BY <1>2 DEF Kept, Undone, Waiting
  <2> QED BY <1>2, <1>3, <2>1 DEF Kept, Undone, Waiting
<1>12. l \in Kept' /\ (open # None => l \in Kept)
  BY <1>2 DEF Kept, Undone, Waiting
<1>13. \A f \in made : f # l => (f \in Kept' <=> f \in Kept)
  BY <1>11
<1>14. \A f \in made \ InitFiles : f # l => Count(f)' = Count(f)
  <2> SUFFICES ASSUME NEW f \in made \ InitFiles, f # l PROVE Count(f)' = Count(f)
    OBVIOUS
  <2>1. Users(f)' = Users(f)
    BY <1>2, <1>3, <1>9 DEF Users
  <2> QED BY <1>13, <2>1 DEF Count
<1>15. Cardinality(Users(l)') = Cardinality(Users(l)) + (IF add THEN 1 ELSE 0)
  <2>1. CASE add
    <3>1. Users(l)' = Users(l) \cup {t} /\ t \notin Users(l)
      BY <1>1, <1>2, <1>3, <1>9, <1>10, <2>1 DEF Users
    <3>2. Cardinality(Users(l)') = Cardinality(Users(l)) + 1
      BY <3>1, UserAdded
    <3> QED BY <2>1, <3>2
  <2>2. CASE ~add
    <3>1. Users(l)' = Users(l)
      BY <1>2, <1>3, <1>9, <2>2 DEF Users
    <3> QED BY <2>2, <3>1, CountTypes
  <2> QED BY <2>1, <2>2
<1>16. open = None => Cardinality(Users(l)) = 0
  <2>1. open = None => Users(l) = {}
    BY <1>2, <1>3, NewUnused
  <2> QED BY <2>1, FS_EmptySet
<1>17. /\ \A f \in Frag : f # l => fresh[f] = files[f]
       /\ fresh \in [Frag -> Nat]
       /\ fresh[l] = Cardinality(Users(l)) + 1 /\ fresh[l] > 0
  <2>1. Cardinality(Users(l)) \in Nat
    BY CountTypes
  <2>2. CASE open = None
    BY <1>3, <1>16, <2>2 DEF Track
  <2>3. CASE open # None
    <3>1. l \in made
      BY <1>2, <1>3, <2>3 DEF LogSide, LogsApart, Undone, Waiting
    <3>2. files[l] = Count(l) /\ l \in Kept
      BY <1>3, <1>12, <2>3, <3>1 DEF RefSide, Counted
    <3> QED BY <1>3, <2>1, <2>3, <3>2 DEF Count
  <2> QED BY <2>2, <2>3
<1> HIDE DEF fresh
<1>18. /\ \A f \in Frag : f # l => files'[f] = files[f]
       /\ files'[l] = fresh[l] + (IF add THEN 1 ELSE 0)
  <2>1. CASE add
    <3>1. files' = [f \in Frag |-> IF f \in {l} /\ fresh[f] > 0 THEN fresh[f] + 1
                                   ELSE fresh[f]]
      BY <1>2, <1>17, <2>1 DEF AddReference
    <3> QED BY <1>3, <1>17, <2>1, <3>1
  <2>2. CASE ~add
    BY <1>2, <1>3, <1>17, <2>2
  <2> QED BY <2>1, <2>2
<1>19. Counted'
  <2>1. files'[l] = Count(l)' /\ files'[l] > 0 /\ l \in disk'
    <3>1. Cardinality(Users(l)) \in Nat
      BY CountTypes
    <3>2. Count(l)' = Cardinality(Users(l)') + 1
      BY <1>12 DEF Count
    <3> QED BY <1>2, <1>15, <1>17, <1>18, <3>1, <3>2
  <2>2. ASSUME NEW f \in made \ InitFiles, f # l
        PROVE  files'[f] = Count(f)' /\ (f \in disk' <=> files'[f] > 0)
    BY <1>2, <1>3, <1>14, <1>18, <2>2 DEF RefSide, Counted
  <2>3. \A f \in made' \ InitFiles : f = l \/ f \in made \ InitFiles
    BY <1>2
  <2> QED BY <2>1, <2>2, <2>3 DEF Counted
<1>20. LoadedKept'
  BY <1>2, <1>3, <1>18 DEF RefSide, LoadedKept
<1>21. UsedMade'
  <2>1. \A x \in Row : ToSet(chain'[x]) \subseteq ToSet(chain[x]) \cup {l}
    BY <1>8
  <2> QED BY <1>2, <2>1 DEF RefSide, UsedMade
<1>22. ChainsOnce'
  <2> SUFFICES ASSUME NEW x \in Row, NEW i \in 1..Len(chain'[x]),
                      NEW j \in 1..Len(chain'[x]), chain'[x][i] = chain'[x][j],
                      chain'[x][i] \notin InitFiles
               PROVE  i = j
    BY DEF ChainsOnce
  <2>1. CASE x = t /\ add
    <3>1. chain[t] \in Seq(Frag) /\ chain'[t] = Append(chain[t], l)
      BY <1>1, <1>2, <1>3, <2>1
    <3>2. /\ Len(chain'[t]) = Len(chain[t]) + 1 /\ Len(chain[t]) \in Nat
          /\ chain'[t][Len(chain[t]) + 1] = l
          /\ \A k \in 1..Len(chain[t]) : chain'[t][k] = chain[t][k]
      BY <1>3, <3>1
    <3>3. \A k \in 1..Len(chain[t]) : chain[t][k] # l
      BY <1>4, <2>1, <3>1, InToSet
    <3>4. \A a, b \in 1..Len(chain[t]) :
              chain[t][a] = chain[t][b] /\ chain[t][a] \notin InitFiles => a = b
      BY <1>1 DEF RefSide, ChainsOnce
    <3>5. CASE i \in 1..Len(chain[t]) /\ j \in 1..Len(chain[t])
      BY <2>1, <3>2, <3>4, <3>5
    <3>6. CASE i \notin 1..Len(chain[t]) \/ j \notin 1..Len(chain[t])
      <4>1. i \in 1..(Len(chain[t]) + 1) /\ j \in 1..(Len(chain[t]) + 1)
        BY <2>1, <3>2
      <4>2. chain'[t][i] = l /\ chain'[t][j] = l
        BY <2>1, <3>2, <3>6, <4>1
      <4> QED BY <3>2, <3>3, <4>1, <4>2
    <3> QED BY <3>5, <3>6
  <2>2. CASE ~(x = t /\ add)
    <3>1. chain'[x] = chain[x]
      BY <1>1, <1>2, <1>3, <2>2
    <3> QED BY <3>1 DEF RefSide, ChainsOnce
  <2> QED BY <2>1, <2>2
<1>23. UsedOnce'
  <2> SUFFICES ASSUME NEW x \in live, NEW f \in made' \ InitFiles
               PROVE  /\ f \in ToSet(chain'[x]) => ~Swapped(x, f) /\ f \notin deadFiles[x]
                      /\ Swapped(x, f) => f \notin deadFiles[x]
    BY <1>2, <1>3, <1>7 DEF UsedOnce
  <2>1. CASE f = l
    BY <1>3, <1>5, <1>6, <2>1
  <2>2. CASE f # l
    <3>1. f \in ToSet(chain'[x]) => f \in ToSet(chain[x])
      BY <1>3, <1>8, <2>2
    <3> QED BY <1>2, <2>2, <3>1 DEF RefSide, UsedOnce
  <2> QED BY <2>1, <2>2
<1>24. OutputsNew'
  <2>1. \A x \in live : serLog \in ToSet(chain'[x]) => serLog \in ToSet(chain[x])
    BY <1>3, <1>5, <1>8
  <2>2. /\ serFrag # None => \A x \in live : serLog \in ToSet(chain'[x])
                                                 => ~Uses(x, serFrag)'
        /\ compOut # None => \A x \in compTodo : ~Uses(x, compOut)'
    BY <1>2, <1>3, <1>5, <1>9, <2>1 DEF RefSide, OutputsNew
  <2>3. compOut # None => compPc \in {"replace", "mark", "ask"} /\ compOut # serFrag
                          /\ compOut \notin ToSet(compRun)
    BY DEF RefSide, OutputsNew
  <2>4. /\ serFrag' # None => \A x \in live' : serLog' \in ToSet(chain'[x])
                                                 => ~Uses(x, serFrag)'
        /\ compOut' # None => /\ \A x \in compTodo' : ~Uses(x, compOut)'
                              /\ compPc' \in {"replace", "mark", "ask"}
                              /\ compOut' \notin ToSet(compRun')
                              /\ compOut' # serFrag'
    BY <1>2, <2>2, <2>3
  <2> QED BY <2>4 DEF OutputsNew
<1>25. DeadApart'
  <2>1. Waiting' \subseteq Waiting \cup {l}
    BY <1>2 DEF Waiting
  <2> QED BY <1>2, <1>5, <2>1 DEF RefSide, DeadApart
<1> QED BY <1>19, <1>20, <1>21, <1>22, <1>23, <1>24, <1>25 DEF RefSide

-----------------------------------------------------------------------------
(* The serialize thread swaps a log for its disk fragment.                 *)

\* The tablet counts on the new file, and still on the log.
LEMMA ReplaceLogRefs ==
    ASSUME IInv, LogSide, RunSide, IInv', StackForwarded', RefSide, ReplaceLog
    PROVE  RefSide'
<1>0. PICK t : t = SerTop.tab
  OBVIOUS
<1>1. /\ serStack # <<>> /\ SerTop.pc = "swap"
      /\ UNCHANGED <<disk, made, live, deadFiles, serLog, serFrag, open, serq, compPc,
                     compRun, compTab, compTodo, compOut>>
  BY DEF ReplaceLog, loggerVars, compVars
<1>2. /\ t \in live /\ t \in Row /\ serLog \in Log /\ serLog # None /\ serFrag \in Disk
  BY <1>0, <1>1, FrameFacts
<1>3. /\ made \subseteq Frag /\ live \subseteq Row /\ chain \in [Row -> Seq(Frag)]
      /\ deadFiles \in [Row -> SUBSET Frag] /\ compTodo \subseteq live
      /\ None \notin Frag /\ InitFiles \subseteq Disk /\ Log \cap Disk = {}
      /\ Frag = Log \cup Disk /\ compOut \in Disk \cup {None}
  BY RefTypes
<1>4. Undone' = Undone /\ Waiting' = Waiting /\ Kept' = Kept
  BY <1>1 DEF Undone, Waiting, Kept
<1>5. StackForwarded
  BY DEF LogSide
<1>6. \A x \in Row : ~LogSwapped(x) /\ (RunSwapped(x)' <=> RunSwapped(x))
  BY <1>1, <1>5, SwappedTop DEF RunSwapped
<1>7. serLog \notin ToSet(compRun) /\ serLog # serFrag /\ serFrag # None
  BY <1>2, <1>3, RunTypes
<1>8. CASE serLog \notin ToSet(chain[t])
  <2>1. UNCHANGED <<chain, files>> /\ serStack' = Tail(serStack)
    BY <1>0, <1>8 DEF ReplaceLog
  <2>2. serStack' # <<>> => SerTop'.pc = "dag"
    BY <1>1, <1>5, <2>1, PopFacts
  <2>3. \A x \in Row : ~LogSwapped(x)'
    BY <1>5, <2>2, SwappedTop
  <2>4. compOut = None \/ (compPc' \in {"replace", "mark", "ask"} /\ compTodo' \subseteq compTodo)
    BY <1>1 DEF RefSide, OutputsNew
  <2> QED BY <1>1, <1>4, <1>6, <2>1, <2>3, <2>4, RefsQuiet
<1>9. CASE serLog \in ToSet(chain[t])
  <2>1. /\ chain' = [chain EXCEPT ![t] = Splice(<<serFrag>>, <<serLog>>, @)]
        /\ files' = AddReference(files, {serFrag})
        /\ SerGoto("mark")
    BY <1>0, <1>9 DEF ReplaceLog
  <2>2. serStack' # <<>> /\ SerTop'.tab = t /\ SerTop'.pc = "mark"
    BY <1>0, <1>1, <1>5, <2>1, GotoFacts
  <2>3. \A x \in Row : LogSwapped(x)' <=> x = t
    BY <1>5, <2>2, SwappedTop
  <2>4. serFrag \in made \ InitFiles /\ serLog \in made \ InitFiles
    BY <1>2, <1>3, <1>7 DEF RefSide, UsedMade, LoadedKept, LogSide, LogsApart, Undone
  <2>5. ~Uses(t, serFrag)
    BY <1>2, <1>7, <1>9 DEF RefSide, OutputsNew
  <2>6. serFrag \notin ToSet(chain[t]) /\ ~Swapped(t, serFrag) /\ serFrag \notin deadFiles[t]
    BY <2>5 DEF Uses
  <2>7. /\ OnceIn(chain'[t], InitFiles)
        /\ \A f : f \notin InitFiles =>
               (f \in ToSet(chain'[t]) <=>
                   f = serFrag \/ (f \in ToSet(chain[t]) /\ f # serLog))
        /\ ToSet(chain'[t]) \subseteq ToSet(chain[t]) \cup {serFrag}
    <3> DEFINE p == <<serFrag>>  q == <<serLog>>  c == Splice(p, q, chain[t])
    <3>1. /\ p \in Seq(Frag) /\ q \in Seq(Frag) /\ Len(p) = 1
          /\ ToSet(p) = {serFrag} /\ ToSet(q) = {serLog}
      BY <1>2, <1>3, ToSetOne
    <3>2. chain[t] \in Seq(Frag) /\ Matches(q, chain[t]) # {}
      BY <1>2, <1>3, <1>9, MatchOfMember
    <3>3. chain'[t] = c
      BY <1>2, <1>3, <2>1
    <3> HIDE DEF p, q
    <3>4. c \in Seq(Frag) /\ \E i \in Nat : SplicedAt(p, q, chain[t], i, c)
      BY <3>1, <3>2, SpliceFacts
    <3> HIDE DEF c
    <3>5. PICK i \in Nat : SplicedAt(p, q, chain[t], i, c)
      BY <3>4
    <3>6. OnceIn(chain[t], InitFiles)
      BY <1>2 DEF RefSide, ChainsOnce, OnceIn
    <3>7. Len(p) <= 1 /\ ToSet(p) \cap ToSet(chain[t]) = {}
      BY <2>6, <3>1
    <3>8. p \in Seq(Frag) /\ q \in Seq(Frag)
      BY <3>1
    <3>9. chain[t] \in Seq(Frag)
      BY <3>2
    <3>10. c \in Seq(Frag)
      BY <3>4
    <3>11. /\ OnceIn(c, InitFiles)
           /\ InSplice(p, q, chain[t], c, InitFiles)
           /\ ToSet(c) \subseteq ToSet(chain[t]) \cup ToSet(p)
      BY <3>5, <3>6, <3>7, <3>8, <3>9, <3>10, SplicedSet
    <3> QED BY <3>1, <3>3, <3>11 DEF InSplice
  <2>8. \A x \in Row : x # t => chain'[x] = chain[x]
    BY <1>2, <1>3, <2>1
  <2>9. \A x \in Row : \A f : Swapped(x, f)' <=> Swapped(x, f) \/ (x = t /\ f = serLog)
    BY <1>1, <1>6, <2>3 DEF Swapped
  <2>10. \A x \in Row : \A f : x # t => (Uses(x, f)' <=> Uses(x, f))
    BY <1>1, <2>8, <2>9 DEF Uses
  <2>11. \A f : f \notin InitFiles => (Uses(t, f)' <=> Uses(t, f) \/ f = serFrag)
    <3> SUFFICES ASSUME NEW f, f \notin InitFiles
                 PROVE  Uses(t, f)' <=> Uses(t, f) \/ f = serFrag
      OBVIOUS
    <3>1. f \in ToSet(chain'[t]) <=>
              f = serFrag \/ (f \in ToSet(chain[t]) /\ f # serLog)
      BY <2>7
    <3>2. Swapped(t, f)' <=> Swapped(t, f) \/ f = serLog
      BY <1>2, <2>9
    <3> QED BY <1>1, <1>9, <3>1, <3>2 DEF Uses
  <2>12. ASSUME NEW f \in made \ InitFiles
         PROVE  /\ Count(f)' = Count(f) + (IF f \in {serFrag} THEN 1 ELSE 0)
                /\ f \in {serFrag} => Count(f) > 0
    <3>1. CASE f = serFrag
      <4>1. t \notin Users(f) /\ Users(f)' = Users(f) \cup {t}
        BY <1>1, <1>2, <1>3, <2>5, <2>10, <2>11, <3>1 DEF Users
      <4>2. Cardinality(Users(f)') = Cardinality(Users(f)) + 1
        BY <4>1, UserAdded
      <4>3. f \in Kept /\ f \in Kept'
        BY <1>4, <3>1 DEF Kept
      <4>4. Cardinality(Users(f)) \in Nat
        BY CountTypes
      <4> QED BY <3>1, <4>2, <4>3, <4>4 DEF Count
    <3>2. CASE f # serFrag
      <4>1. Users(f)' = Users(f)
        BY <1>1, <1>3, <2>10, <2>11, <3>2 DEF Users
      <4>2. Count(f)' = Count(f) /\ Count(f) \in Nat
        BY <1>4, <4>1, CountTypes DEF Count
      <4> QED BY <3>2, <4>2
    <3> QED BY <3>1, <3>2
  <2>13. Counted' /\ \A f \in InitFiles : files'[f] = 0
    BY <1>1, <2>1, <2>12, AddCounts
  <2>14. LoadedKept'
    BY <1>1, <2>13 DEF RefSide, LoadedKept
  <2>15. UsedMade'
    <3>1. \A x \in Row : ToSet(chain'[x]) \subseteq ToSet(chain[x]) \cup {serFrag}
      BY <2>7, <2>8
    <3> QED BY <1>1, <2>4, <3>1 DEF RefSide, UsedMade
  <2>16. ChainsOnce'
    BY <2>7, <2>8 DEF RefSide, ChainsOnce, OnceIn
  <2>17. UsedOnce'
    <3> SUFFICES ASSUME NEW x \in live, NEW f \in made \ InitFiles
                 PROVE  /\ f \in ToSet(chain'[x]) => ~Swapped(x, f)' /\ f \notin deadFiles[x]
                        /\ Swapped(x, f)' => f \notin deadFiles[x]
      BY <1>1 DEF UsedOnce
    <3>1. /\ f \in ToSet(chain[x]) => ~Swapped(x, f) /\ f \notin deadFiles[x]
          /\ Swapped(x, f) => f \notin deadFiles[x]
      BY DEF RefSide, UsedOnce
    <3>2. CASE x # t
      BY <1>3, <2>8, <2>9, <3>1, <3>2
    <3>3. CASE x = t /\ f = serFrag
      BY <1>2, <1>7, <2>6, <2>9, <3>3
    <3>4. CASE x = t /\ f # serFrag
      BY <1>2, <1>9, <2>7, <2>9, <3>1, <3>4
    <3> QED BY <3>2, <3>3, <3>4
  <2>18. OutputsNew'
    <3>1. \A x \in live : serLog \in ToSet(chain'[x]) => x # t /\ serLog \in ToSet(chain[x])
      BY <1>3, <1>7, <2>4, <2>7, <2>8
    <3>2. compOut # None => compOut # serFrag /\ compOut \in made \ InitFiles
      BY DEF RefSide, OutputsNew, UsedMade, LoadedKept
    <3>3. /\ \A x \in live : serLog \in ToSet(chain'[x]) => ~Uses(x, serFrag)'
          /\ compOut # None => \A x \in compTodo : ~Uses(x, compOut)'
      BY <1>1, <1>3, <1>7, <2>10, <2>11, <3>1, <3>2 DEF RefSide, OutputsNew
    <3>4. compOut # None => compPc \in {"replace", "mark", "ask"}
                            /\ compOut \notin ToSet(compRun)
      BY DEF RefSide, OutputsNew
    <3>5. /\ \A x \in live' : serLog' \in ToSet(chain'[x]) => ~Uses(x, serFrag)'
          /\ compOut' # None => /\ \A x \in compTodo' : ~Uses(x, compOut)'
                                /\ compPc' \in {"replace", "mark", "ask"}
                                /\ compOut' \notin ToSet(compRun')
                                /\ compOut' # serFrag'
      BY <1>1, <3>2, <3>3, <3>4
    <3> QED BY <3>5 DEF OutputsNew
  <2>19. DeadApart'
    BY <1>1, <1>4 DEF RefSide, DeadApart
  <2> QED BY <2>13, <2>14, <2>15, <2>16, <2>17, <2>18, <2>19 DEF RefSide
<1> QED BY <1>8, <1>9

-----------------------------------------------------------------------------
(* The compact thread swaps a run.                                         *)

\* The tablet counts on the output, and still on the run.
LEMMA ReplaceRunRefs ==
    ASSUME IInv, LogSide, RunSide, IInv', RefSide, NEW t \in Row, ReplaceRun(t)
    PROVE  RefSide'
<1> DEFINE new == IF compOut = None THEN <<>> ELSE <<compOut>>
           N == {compOut} \ {None}
           R == ToSet(compRun)
<1>1. /\ compPc = "replace" /\ t \in compTodo /\ Matches(compRun, chain[t]) # {}
  BY DEF ReplaceRun, RunSide, RunInChains
<1>2. /\ compTodo' = compTodo \ {t} /\ compPc' = "mark" /\ compTab' = t
      /\ chain' = [chain EXCEPT ![t] = Splice(new, compRun, @)]
      /\ files' = AddReference(files, ToSet(new))
      /\ UNCHANGED <<disk, made, live, deadFiles, serLog, serFrag, serStack, open, serq,
                     compRun, compOut>>
  BY <1>1 DEF ReplaceRun, loggerVars, serVars
<1>3. /\ made \subseteq Frag /\ live \subseteq Row /\ chain \in [Row -> Seq(Frag)]
      /\ deadFiles \in [Row -> SUBSET Frag] /\ compTodo \subseteq live
      /\ None \notin Frag /\ InitFiles \subseteq Disk /\ Log \cap Disk = {}
      /\ Frag = Log \cup Disk /\ compOut \in Disk \cup {None} /\ t \in live
      /\ serLog \in Log \cup {None} /\ serFrag \in Disk \cup {None} /\ None \notin Row
      /\ serLog = None <=> serFrag = None
  BY <1>1, RefTypes
<1>4. /\ new \in Seq(Frag) /\ Len(new) <= 1 /\ ToSet(new) = N
  <2>1. CASE compOut = None
    BY <2>1 DEF ToSet
  <2>2. CASE compOut # None
    BY <1>3, <2>2, ToSetOne
  <2> QED BY <2>1, <2>2
<1> HIDE DEF new
<1>5. /\ N \subseteq made \ InitFiles /\ N \cap R = {} /\ serFrag \notin N
      /\ \A f \in N : ~Uses(t, f)
  BY <1>1 DEF RefSide, UsedMade, LoadedKept, OutputsNew
<1>6. \A f \in N : f \notin ToSet(chain[t]) /\ ~Swapped(t, f) /\ f \notin deadFiles[t]
  BY <1>5 DEF Uses
<1>7. R \subseteq made /\ serLog \notin R /\ serLog \notin N
  <2>1. serLog = None \/ serLog \in Log
    BY <1>3
  <2> QED BY <1>3, <2>1, RunTypes, ToSetType DEF RefSide, UsedMade
<1>8. /\ OnceIn(chain'[t], InitFiles)
      /\ \A f : f \notin InitFiles =>
             (f \in ToSet(chain'[t]) <=> f \in N \/ (f \in ToSet(chain[t]) /\ f \notin R))
      /\ ToSet(chain'[t]) \subseteq ToSet(chain[t]) \cup N
      /\ R \subseteq ToSet(chain[t])
  <2> DEFINE c == Splice(new, compRun, chain[t])
  <2>1. chain'[t] = c
    BY <1>2, <1>3
  <2>2. new \in Seq(Frag)
    BY <1>4
  <2>3. compRun \in Seq(Frag)
    BY RunTypes
  <2>4. chain[t] \in Seq(Frag)
    BY <1>3
  <2>5. c \in Seq(Frag) /\ \E i \in Nat : SplicedAt(new, compRun, chain[t], i, c)
    BY <1>1, <2>2, <2>3, <2>4, SpliceFacts
  <2> HIDE DEF c
  <2>6. PICK i \in Nat : SplicedAt(new, compRun, chain[t], i, c)
    BY <2>5
  <2>7. OnceIn(chain[t], InitFiles)
    BY DEF RefSide, ChainsOnce, OnceIn
  <2>8. Len(new) <= 1 /\ ToSet(new) \cap ToSet(chain[t]) = {}
    BY <1>4, <1>6
  <2>9. c \in Seq(Frag)
    BY <2>5
  <2>10. /\ OnceIn(c, InitFiles)
         /\ InSplice(new, compRun, chain[t], c, InitFiles)
         /\ ToSet(c) \subseteq ToSet(chain[t]) \cup ToSet(new)
         /\ ToSet(compRun) \subseteq ToSet(chain[t])
    BY <2>2, <2>3, <2>4, <2>6, <2>7, <2>8, <2>9, SplicedSet
  <2> QED BY <1>4, <2>1, <2>10 DEF InSplice
<1>9. \A x \in Row : x # t => chain'[x] = chain[x]
  BY <1>2, <1>3
<1>10. Undone' = Undone /\ Waiting' = Waiting /\ Kept' = Kept
  BY <1>2 DEF Undone, Waiting, Kept
<1>11. \A x \in Row : /\ LogSwapped(x)' <=> LogSwapped(x)
                      /\ ~RunSwapped(x) /\ (RunSwapped(x)' <=> x = t)
  BY <1>1, <1>2 DEF LogSwapped, RunSwapped
<1>12. \A x \in Row : \A f : Swapped(x, f)' <=> Swapped(x, f) \/ (x = t /\ f \in R)
  BY <1>2, <1>11 DEF Swapped
<1> HIDE DEF R, N
<1>13. \A x \in Row : \A f : x # t => (Uses(x, f)' <=> Uses(x, f))
  BY <1>2, <1>9, <1>12 DEF Uses
<1>14. \A f : f \notin InitFiles => (Uses(t, f)' <=> Uses(t, f) \/ f \in N)
  <2> SUFFICES ASSUME NEW f, f \notin InitFiles
               PROVE  Uses(t, f)' <=> Uses(t, f) \/ f \in N
    OBVIOUS
  <2>1. f \in ToSet(chain'[t]) <=> f \in N \/ (f \in ToSet(chain[t]) /\ f \notin R)
    BY <1>8
  <2>2. Swapped(t, f)' <=> Swapped(t, f) \/ f \in R
    BY <1>12
  <2>3. f \in R => f \in ToSet(chain[t])
    BY <1>8
  <2> QED BY <1>2, <2>1, <2>2, <2>3 DEF Uses
<1>15. ASSUME NEW f \in made \ InitFiles
       PROVE  /\ Count(f)' = Count(f) + (IF f \in N THEN 1 ELSE 0)
              /\ f \in N => Count(f) > 0
  <2>1. CASE f \in N
    <3>1. t \notin Users(f) /\ Users(f)' = Users(f) \cup {t}
      BY <1>2, <1>3, <1>5, <1>13, <1>14, <2>1 DEF Users
    <3>2. Cardinality(Users(f)') = Cardinality(Users(f)) + 1
      BY <3>1, UserAdded
    <3>3. f \in Kept /\ f \in Kept'
      BY <1>10, <2>1 DEF Kept, N
    <3>4. Cardinality(Users(f)) \in Nat
      BY CountTypes
    <3> QED BY <2>1, <3>2, <3>3, <3>4 DEF Count
  <2>2. CASE f \notin N
    <3>1. Users(f)' = Users(f)
      BY <1>2, <1>3, <1>13, <1>14, <2>2 DEF Users
    <3>2. Count(f)' = Count(f) /\ Count(f) \in Nat
      BY <1>10, <3>1, CountTypes DEF Count
    <3> QED BY <2>2, <3>2
  <2> QED BY <2>1, <2>2
<1>16. Counted' /\ \A f \in InitFiles : files'[f] = 0
  <2>1. files' = AddReference(files, N) /\ disk' = disk /\ made' = made
    BY <1>2, <1>4
  <2> QED BY <1>15, <2>1, AddCounts
<1>17. LoadedKept'
  BY <1>2, <1>16 DEF RefSide, LoadedKept
<1>18. UsedMade'
  <2>1. \A x \in Row : ToSet(chain'[x]) \subseteq ToSet(chain[x]) \cup N
    BY <1>8, <1>9
  <2> QED BY <1>2, <1>5, <2>1 DEF RefSide, UsedMade
<1>19. ChainsOnce'
  BY <1>8, <1>9 DEF RefSide, ChainsOnce, OnceIn
<1>20. UsedOnce'
  <2> SUFFICES ASSUME NEW x \in live, NEW f \in made \ InitFiles
               PROVE  /\ f \in ToSet(chain'[x]) => ~Swapped(x, f)' /\ f \notin deadFiles[x]
                      /\ Swapped(x, f)' => f \notin deadFiles[x]
    BY <1>2 DEF UsedOnce
  <2>1. /\ f \in ToSet(chain[x]) => ~Swapped(x, f) /\ f \notin deadFiles[x]
        /\ Swapped(x, f) => f \notin deadFiles[x]
    BY DEF RefSide, UsedOnce
  <2>2. CASE x # t
    BY <1>3, <1>9, <1>12, <2>1, <2>2
  <2>3. CASE x = t /\ f \in N
    <3>1. f \notin R
      BY <1>5, <2>3
    <3> QED BY <1>3, <1>6, <1>12, <2>3, <3>1
  <2>4. CASE x = t /\ f \notin N
    <3>1. f \in R => f \in ToSet(chain[t])
      BY <1>8
    <3> QED BY <1>3, <1>8, <1>12, <2>1, <2>4, <3>1
  <2> QED BY <2>2, <2>3, <2>4
<1>21. OutputsNew'
  <2>1. serFrag # None => \A x \in live : serLog \in ToSet(chain'[x])
                                              => serLog \in ToSet(chain[x])
    <3>1. serFrag # None => serLog \notin InitFiles
      BY <1>3
    <3> QED BY <1>3, <1>7, <1>8, <1>9, <3>1
  <2>2. serFrag # None => serFrag \in made \ InitFiles
    BY DEF RefSide, UsedMade, LoadedKept
  <2>3. compOut # None => compOut \in made \ InitFiles
    BY DEF RefSide, UsedMade, LoadedKept
  <2>4. serFrag # None => \A x \in live : serLog \in ToSet(chain'[x]) => ~Uses(x, serFrag)'
    BY <1>2, <1>3, <1>5, <1>13, <1>14, <2>1, <2>2 DEF RefSide, OutputsNew
  <2>5. compOut # None => \A x \in compTodo \ {t} : ~Uses(x, compOut)'
    BY <1>2, <1>3, <1>13, <2>3 DEF RefSide, OutputsNew
  <2>6. compOut # None => compOut # serFrag /\ compOut \notin ToSet(compRun)
    BY DEF RefSide, OutputsNew
  <2>7. /\ serFrag' # None => \A x \in live' : serLog' \in ToSet(chain'[x])
                                                  => ~Uses(x, serFrag)'
        /\ compOut' # None => /\ \A x \in compTodo' : ~Uses(x, compOut)'
                              /\ compPc' \in {"replace", "mark", "ask"}
                              /\ compOut' \notin ToSet(compRun')
                              /\ compOut' # serFrag'
    BY <1>2, <2>4, <2>5, <2>6
  <2> QED BY <2>7 DEF OutputsNew
<1>22. DeadApart'
  BY <1>2, <1>10 DEF RefSide, DeadApart
<1> QED BY <1>16, <1>17, <1>18, <1>19, <1>20, <1>21, <1>22 DEF RefSide

-----------------------------------------------------------------------------
(* A split gives the clone references of its own.                          *)

\* The clone counts on what is in the chain.
LEMMA SplitTabletRefs ==
    ASSUME IInv, LogSide, RunSide, IInv', RefSide, NEW r \in Row, SplitTablet(r)
    PROVE  RefSide'
<1>1. PICK t : t = job.tab
  OBVIOUS
<1>2. /\ t \in live /\ t \in Row /\ r \notin live /\ live' = live \cup {r}
      /\ \A x \in Row : chain'[x] = chain[IF x = r THEN t ELSE x]
      /\ UNCHANGED <<made, open, serq, serLog, serStack, compPc, compRun, compTodo,
                     compOut>>
      /\ DagFree
  BY <1>1, SplitFacts
<1>3. /\ files' = AddReference(files, ToSet(chain[t]))
      /\ UNCHANGED <<disk, deadFiles, serFrag, compTab>>
  BY <1>1 DEF SplitTablet, CloneReferences, serVars, compVars
<1>4. /\ made \subseteq Frag /\ live \subseteq Row /\ compTodo \subseteq live
      /\ None \notin Frag /\ serStack \in Seq(FrameSet(live))
  BY RefTypes
<1>5. /\ chain'[r] = chain[t] /\ \A x \in Row : x # r => chain'[x] = chain[x]
  BY <1>2
<1>6. deadFiles[r] = {}
  BY <1>2 DEF RefSide, DeadApart
<1>7. ~LogSwapped(r)
  <2>1. \A i \in 1..Len(serStack) : serStack[i] \in FrameSet(live)
    BY <1>4
  <2>2. \A i \in 1..Len(serStack) : serStack[i].tab \in live
    BY <2>1 DEF FrameSet
  <2> QED BY <1>2, <2>2 DEF LogSwapped
<1>8. \A x \in Row : /\ LogSwapped(x)' <=> LogSwapped(x)
                     /\ ~RunSwapped(x)' /\ ~RunSwapped(x)
  BY <1>2, <1>3 DEF LogSwapped, RunSwapped, DagFree
<1>9. \A x \in Row : \A f : Swapped(x, f)' <=> Swapped(x, f)
  BY <1>2, <1>8 DEF Swapped
<1>10. \A f : ~Swapped(r, f)
  BY <1>7, <1>8 DEF Swapped
<1>11. /\ \A x \in Row : \A f : x # r => (Uses(x, f)' <=> Uses(x, f))
       /\ \A f : Uses(r, f)' <=> f \in ToSet(chain[t])
  BY <1>3, <1>5, <1>6, <1>9, <1>10 DEF Uses
<1>12. Undone' = Undone /\ Waiting' = Waiting /\ Kept' = Kept
  BY <1>2, <1>3 DEF Undone, Waiting, Kept
<1>13. ASSUME NEW f \in made \ InitFiles
       PROVE  /\ Count(f)' = Count(f) + (IF f \in ToSet(chain[t]) THEN 1 ELSE 0)
              /\ f \in ToSet(chain[t]) => Count(f) > 0
  <2>1. Cardinality(Users(f)) \in Nat /\ Users(f) \subseteq live
    BY CountTypes DEF Users
  <2>2. CASE f \in ToSet(chain[t])
    <3>1. r \notin Users(f) /\ Users(f)' = Users(f) \cup {r}
      BY <1>2, <1>4, <1>11, <2>2 DEF Users
    <3>2. Cardinality(Users(f)') = Cardinality(Users(f)) + 1
      BY <3>1, UserAdded
    <3>3. Cardinality(Users(f)) > 0
      <4>1. t \in Users(f)
        BY <1>2, <2>2 DEF Users, Uses
      <4>2. IsFiniteSet(Users(f))
        BY CountTypes, TabletsFinite
      <4> QED BY <2>1, <4>1, <4>2, FS_EmptySet
    <3> QED BY <1>12, <2>1, <2>2, <3>2, <3>3 DEF Count
  <2>3. CASE f \notin ToSet(chain[t])
    <3>1. Users(f)' = Users(f)
      BY <1>2, <1>4, <1>11, <2>3 DEF Users
    <3>2. Count(f)' = Count(f) /\ Count(f) \in Nat
      BY <1>12, <3>1, CountTypes DEF Count
    <3> QED BY <2>3, <3>2
  <2> QED BY <2>2, <2>3
<1>14. Counted' /\ \A f \in InitFiles : files'[f] = 0
  BY <1>2, <1>3, <1>13, AddCounts
<1>15. LoadedKept' /\ UsedMade'
  BY <1>2, <1>3, <1>5, <1>14 DEF RefSide, LoadedKept, UsedMade
<1>16. ChainsOnce'
  BY <1>2, <1>5 DEF RefSide, ChainsOnce
<1>17. UsedOnce'
  <2> SUFFICES ASSUME NEW x \in live \cup {r}, NEW f \in made \ InitFiles
               PROVE  /\ f \in ToSet(chain'[x]) => ~Swapped(x, f)' /\ f \notin deadFiles[x]
                      /\ Swapped(x, f)' => f \notin deadFiles[x]
    BY <1>2, <1>3 DEF UsedOnce
  <2>1. CASE x = r
    BY <1>6, <1>9, <1>10, <2>1
  <2>2. CASE x # r
    BY <1>4, <1>5, <1>9, <2>2 DEF RefSide, UsedOnce
  <2> QED BY <2>1, <2>2
<1>18. OutputsNew'
  <2>1. serFrag # None => \A x \in live \cup {r} : serLog \in ToSet(chain'[x])
                                                      => ~Uses(x, serFrag)'
    <3> SUFFICES ASSUME serFrag # None, NEW x \in live \cup {r},
                        serLog \in ToSet(chain'[x])
                 PROVE  ~Uses(x, serFrag)'
      OBVIOUS
    <3>1. CASE x = r
      <4>1. ~Uses(t, serFrag)
        BY <1>2, <1>5, <3>1 DEF RefSide, OutputsNew
      <4> QED BY <1>3, <1>11, <3>1, <4>1 DEF Uses
    <3>2. CASE x # r
      <4>1. ~Uses(x, serFrag)
        BY <1>4, <1>5, <3>2 DEF RefSide, OutputsNew
      <4> QED BY <1>3, <1>4, <1>11, <3>2, <4>1
    <3> QED BY <3>1, <3>2
  <2>2. compOut = None
    BY <1>2 DEF RefSide, OutputsNew, DagFree
  <2>3. serFrag' # None => \A x \in live' : serLog' \in ToSet(chain'[x])
                                                => ~Uses(x, serFrag)'
    BY <1>2, <1>3, <2>1
  <2> QED BY <1>2, <2>2, <2>3 DEF OutputsNew
<1>19. DeadApart'
  BY <1>2, <1>3, <1>12 DEF RefSide, DeadApart
<1> QED BY <1>14, <1>15, <1>16, <1>17, <1>18, <1>19 DEF RefSide

-----------------------------------------------------------------------------
(* The counts hold in every reachable state.                               *)

\* The counts hold at the start, and every step keeps them.
LEMMA InitRefs == ASSUME Init PROVE RefSide
<1>1. /\ files = [f \in Frag |-> 0] /\ disk = InitFiles /\ made = InitFiles
      /\ chain = [t \in Row |-> IF t = NRows THEN InitChain ELSE <<>>]
      /\ deadFiles = [t \in Row |-> {}]
      /\ serq = <<>> /\ serFrag = None /\ compOut = None /\ compRun = <<>>
      /\ open = None
  BY DEF Init, InitFiles
<1>2. IInv
  BY InitInv
<1>3. InitFiles \subseteq Disk /\ None \notin Frag /\ Frag = Log \cup Disk
  BY <1>2, RefTypes
<1>4. \A t \in Row : ToSet(chain[t]) \subseteq InitFiles
  BY <1>1 DEF InitFiles, ToSet
<1>5. LoadedKept
  BY <1>1, <1>3 DEF LoadedKept
<1>6. UsedMade
  BY <1>1, <1>4 DEF UsedMade, ToSet
<1>7. ChainsOnce
  <2>1. \A t \in Row : \A i \in 1..Len(chain[t]) : chain[t][i] \in InitFiles
    BY <1>1 DEF InitFiles, ToSet
  <2> QED BY <2>1 DEF ChainsOnce
<1>8. UsedOnce /\ Counted
  BY <1>1 DEF UsedOnce, Counted
<1>9. OutputsNew /\ DeadApart
  BY <1>1 DEF OutputsNew, DeadApart
<1> QED BY <1>5, <1>6, <1>7, <1>8, <1>9 DEF RefSide

LEMMA NextRefs == ASSUME LogInv, RefSide, [Next]_vars PROVE RefSide'
<1> USE DEF LogInv
<1>1. LogInv'
  BY NextLogs
<1>2. StackForwarded /\ StackForwarded'
  BY <1>1 DEF LogSide
<1>3. CASE CommitThread
  BY <1>1, <1>3, CommitRefs, PushGroupRefs DEF CommitThread
<1>4. CASE SerializeThread
  BY <1>1, <1>2, <1>4, SerializeStartRefs, CallsRefs, ReplaceLogRefs, MarkLogDeadRefs,
     SerializeEndRefs DEF SerializeThread
<1>5. CASE CompactThread
  BY <1>1, <1>5, CompactStartRefs, CompactOutputRefs, CompactorRefs, ReplaceRunRefs,
     MarkRunDeadRefs, CompactEndRefs DEF CompactThread
<1>6. ASSUME NEW s \in Saver, SaveStep(s) PROVE RefSide'
  BY <1>1, <1>6, SavesRefs, FinishSaveRefs DEF SaveStep
<1>7. CASE WorkThread
  BY <1>1, <1>6, <1>7, SavesRefs, SplitTabletRefs DEF WorkThread, Saver
<1>8. ASSUME NEW s \in Syncers, ApiThread(s) PROVE RefSide'
  BY <1>6, <1>8, SavesRefs DEF ApiThread, Saver
<1>9. CASE UNCHANGED vars
  BY <1>9, SavesRefs
<1> QED BY <1>3, <1>4, <1>5, <1>7, <1>8, <1>9 DEF Next

\* The inductive invariant with the files.
THEOREM RefInvariant == Spec => [](LogInv /\ RefSide)
<1>1. Init => LogInv /\ RefSide
  BY InitLogs, InitRefs
<1>2. LogInv /\ RefSide /\ [Next]_vars => (LogInv /\ RefSide)'
  BY NextLogs, NextRefs
<1> QED BY <1>1, <1>2, PTL DEF Spec

\* Giving each element of a set a tag leaves their number.
LEMMA TaggedCount ==
    ASSUME NEW S, IsFiniteSet(S), NEW w
    PROVE  /\ IsFiniteSet({<<w[t], t>> : t \in S})
           /\ Cardinality({<<w[t], t>> : t \in S}) = Cardinality(S)
<1> DEFINE T == {<<w[t], t>> : t \in S}
           g == [t \in S |-> <<w[t], t>>]
<1>1. g \in Bijection(S, T)
  <2>1. g \in [S -> T]
    OBVIOUS
  <2>2. \A a, b \in S : g[a] = g[b] => a = b
    OBVIOUS
  <2>3. \A h \in T : \E t \in S : g[t] = h
    OBVIOUS
  <2> HIDE DEF g, T
  <2> QED BY <2>1, <2>2, <2>3 DEF Bijection, Injection, Surjection, IsInjective
<1>2. ExistsBijection(S, T)
  BY <1>1 DEF ExistsBijection
<1> HIDE DEF T
<1> QED BY <1>2, FS_Bijection DEF T

\* The holders of a file are the tablets that use it, each in one way, and at
\* most one thread or queue.
LEMMA HoldersCount ==
    ASSUME LogInv, RefSide, NEW f \in made \ InitFiles
    PROVE  Cardinality(Holders(f)) = Count(f)
<1> DEFINE w == [t \in live |-> IF f \in ToSet(chain[t]) THEN "chain"
                               ELSE IF Swapped(t, f) THEN "swapped" ELSE "dead"]
           D == {<<w[t], t>> : t \in Users(f)}
           E == {<<"logger", l>> : l \in {open, serLog, serFrag} \cap {f}}
                \cup {<<"queue", l>> : l \in ToSet(serq) \cap {f}}
                \cup {<<"compactor", d>> : d \in {compOut} \cap {f}}
<1>1. /\ live \subseteq Row /\ made \subseteq Frag /\ f \in Frag /\ f # None
      /\ serq \in Seq(Log) /\ open \in Log \cup {None} /\ serLog \in Log \cup {None}
      /\ serFrag \in Disk \cup {None} /\ compOut \in Disk \cup {None}
      /\ Log \cap Disk = {} /\ None \notin Log
  BY RefTypes DEF LogInv
<1>2. Holders(f) = D \cup E
  <2> DEFINE A == {<<"chain", t>> : t \in {u \in live : f \in ToSet(chain[u])}}
             B == {<<"swapped", t>> : t \in {u \in live :
                        \/ LogSwapped(u) /\ f = serLog
                        \/ RunSwapped(u) /\ f \in ToSet(compRun)}}
             C == {<<"dead", t>> : t \in {u \in live : f \in deadFiles[u]}}
  <2>1. B = {<<"swapped", t>> : t \in {u \in live : Swapped(u, f)}}
    BY DEF Swapped
  <2>2. \A t \in live : /\ f \in ToSet(chain[t]) => ~Swapped(t, f) /\ f \notin deadFiles[t]
                        /\ Swapped(t, f) => f \notin deadFiles[t]
    BY DEF RefSide, UsedOnce
  <2>3. \A t \in live : t \in Users(f) <=>
            f \in ToSet(chain[t]) \/ Swapped(t, f) \/ f \in deadFiles[t]
    BY DEF Users, Uses
  <2>4. Users(f) \subseteq live
    BY DEF Users
  <2>5. \A t \in live : /\ f \in ToSet(chain[t]) => w[t] = "chain"
                        /\ Swapped(t, f) => w[t] = "swapped"
                        /\ f \in deadFiles[t] => w[t] = "dead"
    BY <2>2
  <2> HIDE DEF w
  <2>6. D = A \cup B \cup C
    BY <2>1, <2>3, <2>4, <2>5
  <2>7. Holders(f) = A \cup B \cup C \cup E
    BY DEF Holders
  <2> HIDE DEF A, B, C, D, E
  <2> QED BY <2>6, <2>7
<1>3. IsFiniteSet(Users(f))
  <2>1. Users(f) \in SUBSET Row
    BY <1>1 DEF Users
  <2> QED BY <2>1, TabletsFinite
<1>4. IsFiniteSet(D) /\ Cardinality(D) = Cardinality(Users(f))
  BY <1>3, TaggedCount
<1>5. CASE f \notin Kept
  <2>1. E = {}
    BY <1>5 DEF Kept, Undone, Waiting
  <2> HIDE DEF D, E
  <2>2. Holders(f) = D
    BY <1>2, <2>1
  <2>3. Cardinality(Users(f)) \in Nat
    BY <1>3, FS_CardinalityType
  <2> QED BY <1>4, <1>5, <2>2, <2>3 DEF Count
<1>6. CASE f \in Kept
  <2>1. ToSet(serq) \subseteq Log
    BY <1>1, ToSetType
  <2>2. /\ serLog # None => serLog \notin ToSet(serq) /\ serLog # open
        /\ open # None => open \notin ToSet(serq)
    BY DEF LogInv, LogSide, LogsApart, Waiting
  <2>3. compOut # None => compOut # serFrag
    BY DEF RefSide, OutputsNew
  <2>4. \E k \in {"logger", "queue", "compactor"} : E = {<<k, f>>}
    <3>1. CASE f \in {open, serLog, serFrag}
      <4>1. f \notin ToSet(serq) /\ f # compOut
        BY <1>1, <2>1, <2>2, <2>3, <3>1
      <4>2. E = {<<"logger", f>>}
        BY <3>1, <4>1
      <4> QED BY <4>2
    <3>2. CASE f \in ToSet(serq)
      <4>1. f \notin {open, serLog, serFrag} /\ f # compOut
        BY <1>1, <2>1, <2>2, <2>3, <3>2
      <4>2. E = {<<"queue", f>>}
        BY <3>2, <4>1
      <4> QED BY <4>2
    <3>3. CASE f = compOut
      <4>1. f \notin {open, serLog, serFrag} /\ f \notin ToSet(serq)
        BY <1>1, <2>1, <2>2, <2>3, <3>3
      <4>2. E = {<<"compactor", f>>}
        BY <3>3, <4>1
      <4> QED BY <4>2
    <3> QED BY <1>6, <3>1, <3>2, <3>3 DEF Kept, Undone, Waiting
  <2>5. PICK k \in {"logger", "queue", "compactor"} : E = {<<k, f>>}
    BY <2>4
  <2>6. \A t \in Users(f) : w[t] \in {"chain", "swapped", "dead"}
    BY DEF Users
  <2> HIDE DEF w
  <2>7. <<k, f>> \notin D
    BY <2>6
  <2> HIDE DEF D, E
  <2>8. Cardinality(D \cup {<<k, f>>}) = Cardinality(D) + 1
    BY <1>4, <2>7, FS_AddElement
  <2> QED BY <1>2, <1>4, <1>6, <2>5, <2>8 DEF Count
<1> QED BY <1>5, <1>6

\* The count that the FileTracker keeps for a file this server created is the
\* number of chains, dead lists and threads that refer to it, and the file is
\* deleted when the last of them lets go: whatever splits, forwarded log
\* replacements, compactions and saves interleave, no file leaks and none is
\* deleted while a tablet can read it.
THEOREM CountsExact == Spec => []RefsCountHolders
<1>1. LogInv /\ RefSide => RefsCountHolders
  BY HoldersCount DEF RefSide, Counted, RefsCountHolders, InitFiles
<1> QED BY <1>1, RefInvariant, PTL

-----------------------------------------------------------------------------
(* The writes in the fragments of the chains.                              *)

Has(t, w) == \E f \in ToSet(chain[t]) : w \in content[f]

\* Where writes are first: in a log, or in a file loaded with the table.
Source == Log \cup InitFiles

\* Every write is in the chain of the tablet that has its row.
Stored ==
    \A t \in live, l \in Source : \A w \in content[l] : w[1] \in Rows(t) => Has(t, w)

\* What is about to replace a log has its writes.
SwapKeeps == serFrag # None => content[serFrag] = content[serLog]

\* What is about to replace a run has its writes in the rows of the tablets
\* that are still to be told.
Installing == compPc \in {"replace", "mark", "ask"}
Merged(f) ==
    \A w \in content[f] : w[1] \in compRows => compOut # None /\ w \in content[compOut]
MergeKeeps ==
    Installing => /\ \A f \in ToSet(compRun) : Merged(f)
                  /\ \A t \in compTodo : Rows(t) \subseteq compRows

\* A second notice of a log that is not serialized yet is about a log that is
\* in the chain.
NoticesLeft ==
    \A t \in Row, l \in Log :
        l \in Waiting /\ l \in duplicatedLogs[t] => l \in ToSet(chain[t])

DataSide == Stored /\ SwapKeeps /\ MergeKeeps /\ NoticesLeft

\* The types that the proofs below use.
LEMMA DataTypes ==
    ASSUME IInv
    PROVE  /\ content \in [Frag -> SUBSET Write] /\ duplicatedLogs \in [Row -> SUBSET Log]
           /\ Log \subseteq Frag /\ Disk \subseteq Frag /\ None \notin Log
           /\ Source \subseteq Frag
           /\ minRow \in [Row -> 0..NRows]
<1>1. InitFiles \subseteq Disk
  BY RefTypes
<1> QED BY <1>1, TabletAssumption DEF IInv, BaseTypes, Frag, Source

\* The steps that neither write nor replace a fragment.
LEMMA DataQuiet ==
    ASSUME IInv, DataSide,
           UNCHANGED <<content, live, minRow, chain>>,
           serFrag' = None \/ UNCHANGED <<serFrag, serLog>>,
           Installing' => /\ Installing /\ UNCHANGED <<compRun, compRows, compOut>>
                          /\ compTodo' \subseteq compTodo,
           Waiting' \subseteq Waiting \cup {None},
           \A t \in Row : duplicatedLogs'[t] \subseteq duplicatedLogs[t]
    PROVE  DataSide'
<1>1. Stored'
  BY DEF DataSide, Stored, Has, Rows
<1>2. SwapKeeps'
  BY DEF DataSide, SwapKeeps
<1>3. MergeKeeps'
  <2> SUFFICES ASSUME Installing' PROVE MergeKeeps'
    BY DEF MergeKeeps
  <2>1. \A f : Merged(f) => Merged(f)'
    BY DEF Merged
  <2>2. \A t : Rows(t)' = Rows(t)
    BY DEF Rows
  <2> QED BY <2>1, <2>2 DEF DataSide, MergeKeeps
<1>4. NoticesLeft'
  BY DataTypes DEF DataSide, NoticesLeft
<1> QED BY <1>1, <1>2, <1>3, <1>4 DEF DataSide

\* The work thread and the API threads leave fragments alone.
LEMMA SavesData ==
    ASSUME IInv, DataSide,
           \/ StartSave \/ StartSplit \/ SplitImpossible
           \/ \E s \in Saver : WriteConfig(s) \/ SaveAgain(s) \/ FinishSave(s)
           \/ \E s \in Syncers, t \in live : Sync(s, t)
           \/ UNCHANGED vars
    PROVE  DataSide'
<1> DEFINE Same == UNCHANGED <<content, live, minRow, chain, duplicatedLogs, serLog,
                               serFrag, open, serq, compPc, compRun, compRows,
                               compTodo, compOut>>
<1>1. ASSUME StartSave PROVE Same
  BY <1>1 DEF StartSave, trackerVars, loggerVars, serVars, compVars
<1>2. ASSUME StartSplit PROVE Same
  BY <1>2 DEF StartSplit, trackerVars, loggerVars, serVars, compVars
<1>3. ASSUME SplitImpossible PROVE Same
  BY <1>3 DEF SplitImpossible, trackerVars, tabletVars, loggerVars, serVars, compVars
<1>4. ASSUME NEW s \in Saver, WriteConfig(s) PROVE Same
  BY <1>4 DEF WriteConfig, trackerVars, tabletVars, loggerVars, serVars, compVars
<1>5. ASSUME NEW s \in Saver, SaveAgain(s) PROVE Same
  BY <1>5 DEF SaveAgain, trackerVars, loggerVars, serVars, compVars
<1>6. ASSUME NEW s \in Saver, FinishSave(s) PROVE Same
  BY <1>6 DEF FinishSave, loggerVars, serVars, compVars
<1>7. ASSUME NEW s \in Syncers, NEW t \in live, Sync(s, t) PROVE Same
  BY <1>7 DEF Sync, trackerVars, loggerVars, serVars, compVars
<1>8. ASSUME UNCHANGED vars PROVE Same
  BY <1>8 DEF vars, trackerVars, tabletVars, loggerVars, serVars, compVars
<1>9. Same
  <2>1. CASE StartSave
    BY <1>1, <2>1
  <2>2. CASE StartSplit
    BY <1>2, <2>2
  <2>3. CASE SplitImpossible
    BY <1>3, <2>3
  <2>4. CASE UNCHANGED vars
    BY <1>8, <2>4
  <2> QED BY <1>4, <1>5, <1>6, <1>7, <2>1, <2>2, <2>3, <2>4
<1>10. Waiting' = Waiting /\ (Installing' => Installing)
  BY <1>9 DEF Waiting, Installing
<1> QED BY <1>9, <1>10, DataQuiet

\* The steps of the logger and of the compactor that replace no fragment.
LEMMA CallsData ==
    ASSUME IInv, DataSide,
           \/ PushGroup \/ SerializeNext \/ MarkLogDead \/ ForwardToClone \/ AddToDag
           \/ (\E big \in BOOLEAN : SerializeAskSplit(big)) \/ SerializeEnd
    PROVE  DataSide'
<1> DEFINE Same == /\ UNCHANGED <<content, live, minRow, chain, duplicatedLogs, compPc,
                                  compRun, compRows, compTodo, compOut>>
                   /\ serFrag' = None \/ UNCHANGED <<serFrag, serLog>>
                   /\ Waiting' \subseteq Waiting \cup {None}
<1>1. ASSUME PushGroup PROVE Same
  <2>1. /\ open \in Log /\ serq \in Seq(Log)
        /\ serq' = Append(serq, open) /\ open' = None
    BY <1>1 DEF PushGroup, IInv, BaseTypes
  <2>2. ToSet(serq') = ToSet(serq) \cup {open}
    BY <2>1, ToSetProperties
  <2> QED BY <1>1, <2>1, <2>2
          DEF PushGroup, Waiting, trackerVars, tabletVars, serVars, compVars
<1>2. ASSUME SerializeNext PROVE Same
  BY <1>2 DEF SerializeNext, Waiting, trackerVars, tabletVars, loggerVars, compVars
<1>3. ASSUME MarkLogDead PROVE Same
  BY <1>3 DEF MarkLogDead, Waiting, trackerVars, loggerVars, compVars
<1>4. ASSUME ForwardToClone PROVE Same
  BY <1>4 DEF ForwardToClone, Waiting, trackerVars, loggerVars, compVars
<1>5. ASSUME AddToDag PROVE Same
  BY <1>5 DEF AddToDag, Waiting, trackerVars, tabletVars, loggerVars, compVars
<1>6. ASSUME NEW big \in BOOLEAN, SerializeAskSplit(big) PROVE Same
  BY <1>6 DEF SerializeAskSplit, Waiting, trackerVars, loggerVars, compVars
<1>7. ASSUME SerializeEnd PROVE Same
  BY <1>7 DEF SerializeEnd, Waiting, tabletVars, loggerVars, compVars
<1>8. Same
  BY <1>1, <1>2, <1>3, <1>4, <1>5, <1>6, <1>7
<1>9. Installing' => Installing
  BY <1>8 DEF Installing
<1> QED BY <1>8, <1>9, DataQuiet

\* So do the steps of the compact thread between files.
LEMMA CompactorData ==
    ASSUME IInv, DataSide,
           \/ \E t \in live : \E i, j \in 1..Len(chain[t]) : CompactStart(t, i, j)
           \/ MarkRunDead \/ (\E big \in BOOLEAN : CompactAskSplit(big)) \/ CompactEnd
    PROVE  DataSide'
<1> DEFINE Same == /\ UNCHANGED <<content, live, minRow, chain, duplicatedLogs, serLog,
                                  serFrag, open, serq>>
                   /\ Installing' => /\ Installing /\ UNCHANGED <<compRun, compRows, compOut>>
                                     /\ compTodo' \subseteq compTodo
<1>1. ASSUME NEW t \in live, NEW i \in 1..Len(chain[t]), NEW j \in 1..Len(chain[t]),
             CompactStart(t, i, j)
      PROVE  Same
  BY <1>1 DEF CompactStart, Installing, trackerVars, tabletVars, loggerVars, serVars
<1>2. ASSUME MarkRunDead PROVE Same
  BY <1>2 DEF MarkRunDead, Installing, trackerVars, loggerVars, serVars
<1>3. ASSUME NEW big \in BOOLEAN, CompactAskSplit(big) PROVE Same
  BY <1>3 DEF CompactAskSplit, Installing, trackerVars, loggerVars, serVars
<1>4. ASSUME CompactEnd PROVE Same
  BY <1>4 DEF CompactEnd, Installing, tabletVars, loggerVars, serVars
<1>5. Same
  BY <1>1, <1>2, <1>3, <1>4
<1>6. Waiting' = Waiting
  BY <1>5 DEF Waiting
<1> QED BY <1>5, <1>6, DataQuiet

\* A new file is in no chain, so writing it disturbs nothing.
LEMMA NewContent ==
    ASSUME IInv, LogSide, RefSide, DataSide, NEW d \in Disk, d \notin made, NEW X,
           content' = [content EXCEPT ![d] = X], UNCHANGED <<live, minRow, chain>>
    PROVE  /\ Stored' /\ content'[d] = X
           /\ \A f \in Frag : f # d => content'[f] = content[f]
           /\ d \notin ToSet(compRun) /\ d # compOut /\ d # serFrag
<1>1. /\ content \in [Frag -> SUBSET Write] /\ live \subseteq Row
      /\ chain \in [Row -> Seq(Frag)] /\ d \in Frag /\ d # None
      /\ Source \subseteq Frag /\ d \notin Source
  BY DataTypes, RefTypes DEF RefSide, LoadedKept, Source
<1>2. content'[d] = X /\ \A f \in Frag : f # d => content'[f] = content[f]
  BY <1>1
<1>3. /\ \A x \in Row : d \notin ToSet(chain[x])
      /\ d \notin ToSet(compRun) /\ d # compOut /\ d # serFrag
  BY <1>1, NewUnused
<1>4. \A t \in live : \A w : Has(t, w) => Has(t, w)'
  <2>1. \A t \in live : \A f \in ToSet(chain[t]) : f \in Frag /\ f # d
    BY <1>1, <1>3, ToSetType
  <2> QED BY <1>2, <2>1 DEF Has
<1>5. Stored'
  BY <1>1, <1>2, <1>4 DEF DataSide, Stored, Rows
<1> QED BY <1>2, <1>3, <1>5

\* The new file has what is in the log.
LEMMA SerializeStartData ==
    ASSUME IInv, LogSide, RunSide, RefSide, DataSide, NEW d \in Disk, SerializeStart(d)
    PROVE  DataSide'
<1>1. PICK l : l = Head(serq)
  OBVIOUS
<1>2. /\ serq # <<>> /\ d \notin made /\ serLog' = l /\ serFrag' = d /\ serq' = Tail(serq)
      /\ content' = [content EXCEPT ![d] = content[l]]
      /\ UNCHANGED <<live, minRow, chain, duplicatedLogs, open, compPc, compRun,
                     compRows, compTodo, compOut>>
  BY <1>1 DEF SerializeStart, NextFile, tabletVars, loggerVars, compVars
<1>3. /\ serq \in Seq(Log) /\ compRun \in Seq(Frag) /\ compOut \in Disk \cup {None}
      /\ Log \subseteq Frag /\ Disk \subseteq Frag /\ None \notin Frag
      /\ Log \cap Disk = {}
  BY RefTypes
<1>4. l \in Log /\ Tail(serq) \in Seq(Log) /\ ToSet(Tail(serq)) \subseteq ToSet(serq)
  <2>1. l \in Log /\ Tail(serq) \in Seq(Log)
    BY <1>1, <1>2, <1>3
  <2>2. ASSUME NEW k \in ToSet(Tail(serq)) PROVE k \in ToSet(serq)
    <3>1. PICK i \in 1..Len(Tail(serq)) : Tail(serq)[i] = k
      BY <2>1, InToSet
    <3>2. i + 1 \in 1..Len(serq) /\ serq[i + 1] = k
      BY <1>2, <1>3, <3>1
    <3>3. PICK j \in 1..Len(serq) : serq[j] = k
      BY <3>2
    <3> QED BY <1>3, <3>3, InToSet
  <2> QED BY <2>1, <2>2
<1>5. /\ Stored' /\ content'[d] = content[l]
      /\ \A f \in Frag : f # d => content'[f] = content[f]
      /\ d \notin ToSet(compRun) /\ d # compOut
  BY <1>2, NewContent
<1>6. SwapKeeps'
  BY <1>2, <1>3, <1>4, <1>5 DEF SwapKeeps
<1>7. MergeKeeps'
  <2>1. \A f \in ToSet(compRun) : f \in Frag /\ f # d
    BY <1>3, <1>5, ToSetType
  <2>2. compOut # None => content'[compOut] = content[compOut]
    BY <1>3, <1>5
  <2>3. \A f \in ToSet(compRun) : Merged(f) => Merged(f)'
    BY <1>2, <1>5, <2>1, <2>2 DEF Merged
  <2> QED BY <1>2, <2>3 DEF DataSide, MergeKeeps, Installing, Rows
<1>8. NoticesLeft'
  BY <1>2, <1>4 DEF DataSide, NoticesLeft, Waiting
<1> QED BY <1>5, <1>6, <1>7, <1>8 DEF DataSide

\* What is in no merged output is not in the rows that were merged.
LEMMA MergedAll ==
    ASSUME NEW f \in ToSet(compRun), NEW w \in content[f], w[1] \in compRows
    PROVE  w \in OnRows(Writes(ToSet(compRun)), compRows)
BY DEF OnRows, Writes

\* The output has what is in the run, for the rows it is to be put in.
LEMMA CompactOutputData ==
    ASSUME IInv, LogSide, RunSide, RefSide, DataSide, NEW d \in Disk, CompactOutput(d)
    PROVE  DataSide'
<1> DEFINE X == OnRows(Writes(ToSet(compRun)), compRows)
<1>1. /\ d \notin made /\ compOut' = d /\ compTodo' = CompactTargets(compRun, compRows)
      /\ content' = [content EXCEPT ![d] = X]
      /\ UNCHANGED <<live, minRow, chain, duplicatedLogs, open, serq, serLog, serFrag,
                     compRun, compRows>>
  BY DEF CompactOutput, NextFile, tabletVars, loggerVars, serVars
<1>2. /\ compRun \in Seq(Frag) /\ Log \subseteq Frag /\ Disk \subseteq Frag
      /\ None \notin Frag /\ serLog \in Log \cup {None} /\ serFrag \in Disk \cup {None}
      /\ serLog = None <=> serFrag = None
      /\ Log \cap Disk = {}
  BY RefTypes
<1>3. \A f \in ToSet(compRun) : \A w \in content[f] : w[1] \in compRows => w \in X
  BY MergedAll
<1> HIDE DEF X
<1>4. /\ Stored' /\ content'[d] = X
      /\ \A f \in Frag : f # d => content'[f] = content[f]
      /\ d \notin ToSet(compRun) /\ d # serFrag
  BY <1>1, NewContent
<1>5. SwapKeeps'
  <2>1. serFrag # None => content'[serFrag] = content[serFrag]
                          /\ content'[serLog] = content[serLog]
    BY <1>2, <1>4
  <2> QED BY <1>1, <2>1 DEF DataSide, SwapKeeps
<1>6. MergeKeeps'
  <2>1. \A f \in ToSet(compRun) : f \in Frag /\ f # d
    BY <1>2, <1>4, ToSetType
  <2>2. d # None
    BY <1>2
  <2>3. \A f \in ToSet(compRun) : Merged(f)'
    BY <1>1, <1>3, <1>4, <2>1, <2>2 DEF Merged
  <2>4. \A t \in CompactTargets(compRun, compRows) : Rows(t) \subseteq compRows
    BY DEF CompactTargets
  <2> QED BY <1>1, <2>3, <2>4 DEF MergeKeeps, Rows
<1>7. NoticesLeft'
  BY <1>1 DEF DataSide, NoticesLeft, Waiting
<1> QED BY <1>4, <1>5, <1>6, <1>7 DEF DataSide

\* There is no output only if there is nothing in the run.
LEMMA CompactNothingData ==
    ASSUME IInv, DataSide, CompactNothing
    PROVE  DataSide'
<1>1. /\ compTodo' = CompactTargets(compRun, compRows)
      /\ OnRows(Writes(ToSet(compRun)), compRows) = {}
      /\ UNCHANGED <<content, live, minRow, chain, duplicatedLogs, open, serq, serLog,
                     serFrag, compRun, compRows>>
  BY DEF CompactNothing, trackerVars, tabletVars, loggerVars, serVars
<1>2. MergeKeeps'
  <2>1. \A f \in ToSet(compRun) : Merged(f)'
    BY <1>1, MergedAll DEF Merged
  <2>2. \A t \in CompactTargets(compRun, compRows) : Rows(t) \subseteq compRows
    BY DEF CompactTargets
  <2> QED BY <1>1, <2>1, <2>2 DEF MergeKeeps, Rows
<1>3. Stored' /\ SwapKeeps' /\ NoticesLeft'
  BY <1>1 DEF DataSide, Stored, Has, Rows, SwapKeeps, NoticesLeft, Waiting
<1> QED BY <1>2, <1>3 DEF DataSide

\* A chain loses what is replaced, and nothing else.
LEMMA SwapKeepsRest ==
    ASSUME NEW t \in Row, NEW new \in Seq(Frag), NEW old \in Seq(Frag),
           chain \in [Row -> Seq(Frag)], Matches(old, chain[t]) # {},
           chain' = [chain EXCEPT ![t] = Splice(new, old, @)]
    PROVE  /\ \A x \in Row : x # t => chain'[x] = chain[x]
           /\ ToSet(new) \subseteq ToSet(chain'[t])
           /\ \A f \in ToSet(chain[t]) : f \in ToSet(chain'[t]) \/ f \in ToSet(old)
<1> DEFINE c == Splice(new, old, chain[t])
<1>1. chain'[t] = c /\ \A x \in Row : x # t => chain'[x] = chain[x]
  OBVIOUS
<1>2. chain[t] \in Seq(Frag)
  OBVIOUS
<1>3. c \in Seq(Frag) /\ \E i \in Nat : SplicedAt(new, old, chain[t], i, c)
  BY <1>2, SpliceFacts
<1> HIDE DEF c
<1>4. PICK i \in Nat : SplicedAt(new, old, chain[t], i, c)
  BY <1>3
<1>5. c \in Seq(Frag)
  BY <1>3
<1>6. ToSet(new) \cup (ToSet(chain[t]) \ ToSet(old)) \subseteq ToSet(c)
  BY <1>2, <1>4, <1>5, SplicedKeeps
<1> QED BY <1>1, <1>6

\* The chain has the writes of the log in the file put in its place.
LEMMA ReplaceLogData ==
    ASSUME IInv, LogSide, DataSide, ReplaceLog
    PROVE  DataSide'
<1>0. PICK t : t = SerTop.tab
  OBVIOUS
<1>1. /\ serStack # <<>>
      /\ UNCHANGED <<content, live, minRow, serLog, serFrag, open, serq, compPc, compRun,
                     compRows, compTodo, compOut>>
  BY DEF ReplaceLog, loggerVars, compVars
<1>2. /\ t \in Row /\ serLog \in Log /\ serLog # None /\ serFrag \in Disk
  BY <1>0, <1>1, FrameFacts
<1>3. /\ chain \in [Row -> Seq(Frag)] /\ Frag = Log \cup Disk /\ None \notin Frag
      /\ duplicatedLogs \in [Row -> SUBSET Log] /\ live \subseteq Row
  BY RefTypes, DataTypes
<1>4. Waiting' = Waiting /\ (Installing' <=> Installing) /\ serLog \notin Waiting
  BY <1>1, <1>2 DEF Waiting, Installing, LogSide, LogsApart
<1>5. CASE serLog \notin ToSet(chain[t])
  <2>1. /\ UNCHANGED chain
        /\ duplicatedLogs' = [duplicatedLogs EXCEPT ![t] = @ \ {serLog}]
    BY <1>0, <1>5 DEF ReplaceLog
  <2>2. \A x \in Row : duplicatedLogs'[x] \subseteq duplicatedLogs[x]
    BY <1>2, <1>3, <2>1
  <2> QED BY <1>1, <1>4, <2>1, <2>2, DataQuiet
<1>6. CASE serLog \in ToSet(chain[t])
  <2> DEFINE new == <<serFrag>>  old == <<serLog>>
  <2>1. chain' = [chain EXCEPT ![t] = Splice(new, old, @)] /\ UNCHANGED duplicatedLogs
    BY <1>0, <1>6 DEF ReplaceLog
  <2>2. /\ new \in Seq(Frag) /\ old \in Seq(Frag)
        /\ ToSet(new) = {serFrag} /\ ToSet(old) = {serLog}
    BY <1>2, <1>3, ToSetOne
  <2>3. Matches(old, chain[t]) # {}
    BY <1>2, <1>3, <1>6, MatchOfMember
  <2> HIDE DEF new, old
  <2>4. /\ \A x \in Row : x # t => chain'[x] = chain[x]
        /\ serFrag \in ToSet(chain'[t])
        /\ \A f \in ToSet(chain[t]) : f \in ToSet(chain'[t]) \/ f = serLog
    BY <1>2, <1>3, <2>1, <2>2, <2>3, SwapKeepsRest
  <2>5. content[serFrag] = content[serLog]
    BY <1>2, <1>3 DEF DataSide, SwapKeeps
  <2>6. \A x \in Row : \A w : Has(x, w) => Has(x, w)'
    BY <1>1, <2>4, <2>5 DEF Has
  <2>7. Stored'
    BY <1>1, <1>3, <2>6 DEF DataSide, Stored, Rows
  <2>8. SwapKeeps'
    BY <1>1 DEF DataSide, SwapKeeps
  <2>9. MergeKeeps'
    BY <1>1, <1>4 DEF DataSide, MergeKeeps, Merged, Rows
  <2>10. NoticesLeft'
    BY <1>4, <2>1, <2>4 DEF DataSide, NoticesLeft
  <2> QED BY <2>7, <2>8, <2>9, <2>10 DEF DataSide
<1> QED BY <1>5, <1>6

\* The chain has the writes of the run in the output, if they are its own.
LEMMA ReplaceRunData ==
    ASSUME IInv, RunSide, DataSide, NEW t \in Row, ReplaceRun(t)
    PROVE  DataSide'
<1> DEFINE new == IF compOut = None THEN <<>> ELSE <<compOut>>
<1>1. /\ compPc = "replace" /\ t \in compTodo /\ Matches(compRun, chain[t]) # {}
  BY DEF ReplaceRun, RunSide, RunInChains
<1>2. /\ compTodo' = compTodo \ {t} /\ compPc' = "mark"
      /\ chain' = [chain EXCEPT ![t] = Splice(new, compRun, @)]
      /\ UNCHANGED <<content, live, minRow, duplicatedLogs, serLog, serFrag, open, serq,
                     compRun, compRows, compOut>>
  BY <1>1 DEF ReplaceRun, loggerVars, serVars
<1>3. /\ chain \in [Row -> Seq(Frag)] /\ Disk \subseteq Frag /\ live \subseteq Row
      /\ compOut \in Disk \cup {None} /\ None \notin Log
  BY RefTypes
<1>4. new \in Seq(Frag) /\ (compOut # None => compOut \in ToSet(new))
  <2>1. CASE compOut = None
    BY <2>1
  <2>2. CASE compOut # None
    BY <1>3, <2>2, ToSetOne
  <2> QED BY <2>1, <2>2
<1> HIDE DEF new
<1>5. compRun \in Seq(Frag) /\ \A k \in Log : k \notin ToSet(compRun)
  BY RunTypes
<1>6. /\ \A x \in Row : x # t => chain'[x] = chain[x]
      /\ compOut # None => compOut \in ToSet(chain'[t])
      /\ \A f \in ToSet(chain[t]) : f \in ToSet(chain'[t]) \/ f \in ToSet(compRun)
  BY <1>1, <1>2, <1>3, <1>4, <1>5, SwapKeepsRest
<1>7. Installing /\ Installing' /\ Waiting' = Waiting
  BY <1>1, <1>2 DEF Installing, Waiting
<1>8. \A f \in ToSet(compRun) : Merged(f)
  BY <1>7 DEF DataSide, MergeKeeps
<1>9. Rows(t) \subseteq compRows
  BY <1>1, <1>7 DEF DataSide, MergeKeeps
<1>10. ASSUME NEW x \in Row, NEW w, w[1] \in Rows(x), Has(x, w)
       PROVE  Has(x, w)'
  <2>1. CASE x # t
    BY <1>2, <1>6, <1>10, <2>1 DEF Has
  <2>2. CASE x = t
    <3>1. PICK f \in ToSet(chain[t]) : w \in content[f]
      BY <1>10, <2>2 DEF Has
    <3>2. CASE f \in ToSet(chain'[t])
      BY <1>2, <2>2, <3>1, <3>2 DEF Has
    <3>3. CASE f \in ToSet(compRun)
      <4>1. compOut # None /\ w \in content[compOut]
        BY <1>8, <1>9, <1>10, <2>2, <3>1, <3>3 DEF Merged
      <4> QED BY <1>2, <1>6, <2>2, <4>1 DEF Has
    <3> QED BY <1>6, <3>2, <3>3
  <2> QED BY <2>1, <2>2
<1>11. Stored'
  BY <1>2, <1>3, <1>10 DEF DataSide, Stored, Rows
<1>12. SwapKeeps'
  BY <1>2 DEF DataSide, SwapKeeps
<1>13. MergeKeeps'
  BY <1>2, <1>7 DEF DataSide, MergeKeeps, Merged, Rows
<1>14. NoticesLeft'
  BY <1>2, <1>5, <1>6, <1>7 DEF DataSide, NoticesLeft
<1> QED BY <1>11, <1>12, <1>13, <1>14 DEF DataSide

\* No notice of a log is remembered where no call for the log can come from.
LEMMA NoNotice ==
    ASSUME IInv, LogSide, NEW l \in Log, NEW x \in Row, x \notin live \/ l \notin made
    PROVE  l \notin duplicatedLogs[x]
<1>1. /\ group \in [Log -> Seq(live)] /\ serTodo \in Seq(live) /\ None \notin Log
      /\ clonedLogs \in [Row -> [Log -> live \cup {None}]] /\ None \notin Row
      /\ duplicatedLogs \in [Row -> SUBSET Log]
  BY LogTypes
<1>2. Undone \subseteq made \cup {None} /\ (l \notin made => group[l] = <<>>)
  BY DEF LogSide, LogsApart
<1>3. l \notin made => l # serLog /\ l \notin Waiting
  BY <1>1, <1>2 DEF Undone
<1>4. ~Listed(l, x)
  <2>1. ASSUME x \notin live PROVE x \notin ToSet(serTodo) /\ x \notin ToSet(group[l])
    <3>1. ToSet(serTodo) \subseteq live /\ ToSet(group[l]) \subseteq live
      BY <1>1, ToSetType
    <3> QED BY <2>1, <3>1
  <2> QED BY <1>3, <2>1 DEF Listed
<1>5. ~Called(l, x)
  <2>1. ASSUME Called(l, x), x \notin live PROVE FALSE
    <3>1. SerTop.tab \in live /\ SerTop.tab = x
      BY <2>1, FrameFacts DEF Called, SerCall
    <3> QED BY <2>1, <3>1
  <2> QED BY <1>3, <2>1 DEF Called
<1>6. ~Linked(l, x)
  <2> SUFFICES ASSUME NEW u \in Row, Leads(l, u, x) PROVE FALSE
    BY DEF Linked
  <2>1. x \in live
    BY <1>1 DEF Leads
  <2>2. l \notin made
    BY <2>1
  <2>3. l \in ToSet(chain[u])
    BY <1>3, <2>2 DEF Leads, Passing
  <2>4. l \in Undone
    BY <2>3 DEF LogSide, ChainLogsUndone
  <2> QED BY <1>1, <1>2, <2>2, <2>4
<1>7. (IF l \in ToSet(chain[x]) THEN 1 ELSE 0)
          + (IF l \in duplicatedLogs[x] THEN 1 ELSE 0) = 0
  BY <1>4, <1>5, <1>6 DEF LogSide, CallsBalance
<1> QED BY <1>7

\* A tablet in the group of a log has the log, until it is serialized.
LEMMA NotifiedHas ==
    ASSUME IInv, LogSide, NoticesLeft, NEW l \in Log, NEW t \in Row,
           l \in Waiting, l # serLog, t \in ToSet(group[l])
    PROVE  l \in ToSet(chain[t])
<1>1. Listed(l, t)
  BY DEF Listed
<1>2. (IF Called(l, t) THEN 1 ELSE 0) \in Nat /\ (IF Linked(l, t) THEN 1 ELSE 0) \in Nat
  OBVIOUS
<1>3. l \in ToSet(chain[t]) \/ l \in duplicatedLogs[t]
  BY <1>1, <1>2 DEF LogSide, CallsBalance
<1> QED BY <1>3 DEF NoticesLeft

\* The tablet that owns a row is the only one that has it.
LEMMA OwnerOnly ==
    ASSUME TabletsPartitionRows, NEW r \in Row
    PROVE  \A t \in live : r \in Rows(t) <=> t = Owner(r)
<1>1. PICK v \in live : \A u \in live : r \in Rows(u) <=> u = v
  BY DEF TabletsPartitionRows
<1>2. Owner(r) = v
  BY <1>1 DEF Owner
<1> QED BY <1>1, <1>2

\* The write goes to a log that is in the chain.
LEMMA CommitData ==
    ASSUME IInv, LogSide, RunSide, RefSide, DataSide, NEW r \in Row, NEW l \in Log,
           NEW big \in BOOLEAN, Commit(r, l, big)
    PROVE  DataSide'
<1>1. PICK t : t = Owner(r)
  OBVIOUS
<1> DEFINE first == t \notin ToSet(group[l])
           add == first /\ l \notin ToSet(chain[t])
<1>2. /\ IF open = None THEN l \notin made ELSE l = open
      /\ open' = l
      /\ content' = [content EXCEPT ![l] = @ \cup {<<r, l>>}]
      /\ duplicatedLogs' = IF first /\ ~add
             THEN [duplicatedLogs EXCEPT ![t] = @ \cup {l}] ELSE duplicatedLogs
      /\ chain' = IF add THEN [chain EXCEPT ![t] = Append(@, l)] ELSE chain
      /\ UNCHANGED <<live, minRow, serLog, serFrag, serq, compPc, compRun, compRows,
                     compTodo, compOut>>
  BY <1>1 DEF Commit, NoteDuplicate, serVars, compVars
<1>3. /\ content \in [Frag -> SUBSET Write] /\ chain \in [Row -> Seq(Frag)]
      /\ duplicatedLogs \in [Row -> SUBSET Log] /\ live \subseteq Row
      /\ Frag = Log \cup Disk /\ Log \cap Disk = {} /\ None \notin Frag
      /\ serFrag \in Disk \cup {None} /\ compOut \in Disk \cup {None}
      /\ serLog \in Log \cup {None} /\ (serLog = None <=> serFrag = None)
      /\ group \in [Log -> Seq(live)] /\ compRun \in Seq(Frag)
  BY RefTypes, DataTypes, LogTypes
<1>4. t \in live /\ t \in Row /\ \A x \in live : r \in Rows(x) <=> x = t
  BY <1>1, <1>3, OwnerLives, OwnerOnly DEF IInv
\* The open log is not being serialized.
<1>5. l # serLog /\ (open # None => l \in Waiting) /\ (l \in made => open # None)
  <2>1. open # None => l \in Waiting
    BY <1>2 DEF Waiting
  <2> QED BY <1>2, <1>3, <2>1 DEF LogSide, LogsApart, Undone
<1>6. l \in ToSet(chain[t]) \/ add
  <2> SUFFICES ASSUME ~first PROVE l \in ToSet(chain[t])
    OBVIOUS
  <2>1. group[l] # <<>>
    BY DEF ToSet
  <2>2. l \in Waiting
    BY <1>5, <2>1 DEF LogSide, LogsApart
  <2> QED BY <1>4, <1>5, <2>2, NotifiedHas DEF DataSide
<1>7. /\ \A x \in Row : \A f \in ToSet(chain[x]) : f \in ToSet(chain'[x])
      /\ l \in ToSet(chain'[t])
  <2>1. chain[t] \in Seq(Frag) /\ l \in Frag
    BY <1>3, <1>4
  <2>2. ToSet(Append(chain[t], l)) = ToSet(chain[t]) \cup {l}
    BY <2>1, ToSetProperties
  <2> QED BY <1>2, <1>3, <1>4, <1>6, <2>2
<1>8. /\ \A x \in Row : \A k \in duplicatedLogs'[x] :
             k \in duplicatedLogs[x] \/ (k = l /\ x = t)
      /\ UNCHANGED <<live, minRow, serLog, serFrag, serq, compPc, compRun, compRows,
                     compTodo, compOut>>
  BY <1>2, <1>3, <1>4
<1> HIDE DEF first, add
<1>9. /\ \A f \in Frag : f # l => content'[f] = content[f]
      /\ content'[l] = content[l] \cup {<<r, l>>}
  BY <1>2, <1>3
<1>10. \A x \in live : \A w : Has(x, w) => Has(x, w)'
  <2> SUFFICES ASSUME NEW x \in live, NEW w, NEW f \in ToSet(chain[x]), w \in content[f]
               PROVE  Has(x, w)'
    BY DEF Has
  <2>1. f \in Frag
    BY <1>3, ToSetType
  <2>2. w \in content'[f] /\ f \in ToSet(chain'[x])
    BY <1>3, <1>7, <1>9, <2>1
  <2> QED BY <2>2 DEF Has
<1>11. Stored'
  <2> SUFFICES ASSUME NEW x \in live, NEW k \in Source, NEW w \in content'[k],
                      w[1] \in Rows(x)
               PROVE  Has(x, w)'
    BY <1>2 DEF Stored, Rows
  <2>1. CASE w \in content[k]
    BY <1>10, <2>1 DEF DataSide, Stored
  <2>2. CASE w \notin content[k]
    <3>1. k = l /\ w = <<r, l>>
      BY <1>9, <2>2, DataTypes
    <3>2. x = t
      BY <1>4, <3>1
    <3> QED BY <1>7, <3>1, <3>2 DEF Has
  <2> QED BY <2>1, <2>2
<1>12. SwapKeeps'
  <2>1. serFrag # None => content'[serFrag] = content[serFrag]
                          /\ content'[serLog] = content[serLog]
    BY <1>3, <1>5, <1>9
  <2> QED BY <1>8, <2>1 DEF DataSide, SwapKeeps
<1>13. MergeKeeps'
  <2>1. \A f \in ToSet(compRun) : f \in Frag /\ f # l
    BY <1>3, RunTypes, ToSetType
  <2>2. compOut # None => content'[compOut] = content[compOut]
    BY <1>3, <1>9
  <2>3. \A f \in ToSet(compRun) : Merged(f) => Merged(f)'
    BY <1>8, <1>9, <2>1, <2>2 DEF Merged
  <2> QED BY <1>8, <2>3 DEF DataSide, MergeKeeps, Installing, Rows
<1>14. NoticesLeft'
  <2> SUFFICES ASSUME NEW x \in Row, NEW k \in Log, k \in Waiting', k \in duplicatedLogs'[x]
               PROVE  k \in ToSet(chain'[x])
    BY DEF NoticesLeft
  <2>1. CASE k = l /\ x = t
    BY <1>7, <2>1
  <2>2. CASE ~(k = l /\ x = t)
    <3>1. k \in duplicatedLogs[x]
      BY <1>8, <2>2
    <3>2. k \in Waiting \/ (k = l /\ open = None)
      BY <1>2, <1>5, <1>8 DEF Waiting
    <3>3. ~(k = l /\ open = None)
      BY <1>2, <3>1, NoNotice
    <3>4. k \in ToSet(chain[x])
      BY <3>1, <3>2, <3>3 DEF DataSide, NoticesLeft
    <3> QED BY <1>7, <3>4
  <2> QED BY <2>1, <2>2
<1> QED BY <1>11, <1>12, <1>13, <1>14 DEF DataSide

\* The clone has the chain, and thus the writes to its rows.
LEMMA SplitTabletData ==
    ASSUME IInv, LogSide, DataSide, NEW r \in Row, SplitTablet(r)
    PROVE  DataSide'
<1>1. PICK t : t = job.tab
  OBVIOUS
<1>2. /\ t \in live /\ t \in Row /\ r \notin live /\ live' = live \cup {r}
      /\ minRow[t] < r /\ r < t /\ minRow'[t] = r /\ minRow'[r] = minRow[t]
      /\ \A x \in Row : x \notin {r, t} => minRow'[x] = minRow[x]
      /\ \A x \in Row : chain'[x] = chain[IF x = r THEN t ELSE x]
      /\ UNCHANGED <<duplicatedLogs, open, serq, serLog, compPc>>
      /\ DagFree
  BY <1>1, SplitFacts
<1>3. UNCHANGED <<content, serFrag>>
  BY DEF SplitTablet, serVars
<1>4. live \subseteq Row /\ minRow \in [Row -> 0..NRows] /\ Row \subseteq Nat
  BY DataTypes, RefTypes DEF Row
<1>5. Rows(t)' \subseteq Rows(t) /\ Rows(r)' \subseteq Rows(t)
  <2>1. minRow[t] \in Nat /\ r \in Nat /\ t \in Nat
    BY <1>2, <1>4
  <2> QED BY <1>2, <2>1 DEF Rows
<1>6. \A x \in live : x # t => Rows(x)' = Rows(x)
  BY <1>2, <1>4 DEF Rows
<1>7. ASSUME NEW x \in live', NEW w, w[1] \in Rows(x)',
             \A y \in live : w[1] \in Rows(y) => Has(y, w)
      PROVE  Has(x, w)'
  <2>1. PICK y \in live : y = IF x = r THEN t ELSE x
    BY <1>2
  <2>2. w[1] \in Rows(y) /\ chain'[x] = chain[y]
    BY <1>2, <1>4, <1>5, <1>6, <1>7, <2>1
  <2>3. Has(y, w)
    BY <1>7, <2>2
  <2> QED BY <1>3, <2>2, <2>3 DEF Has
<1>8. Stored'
  <2> SUFFICES ASSUME NEW x \in live', NEW l \in Source, NEW w \in content[l],
                      w[1] \in Rows(x)'
               PROVE  Has(x, w)'
    BY <1>3 DEF Stored
  <2> QED BY <1>7 DEF DataSide, Stored
<1>9. SwapKeeps'
  BY <1>2, <1>3 DEF DataSide, SwapKeeps
<1>10. MergeKeeps'
  BY <1>2 DEF MergeKeeps, Installing, DagFree
<1>11. NoticesLeft'
  <2> SUFFICES ASSUME NEW x \in Row, NEW l \in Log, l \in Waiting, l \in duplicatedLogs[x]
               PROVE  l \in ToSet(chain'[x])
    BY <1>2 DEF NoticesLeft, Waiting
  <2>1. x # r
    BY <1>2, NoNotice
  <2>2. l \in ToSet(chain[x])
    BY DEF DataSide, NoticesLeft
  <2> QED BY <1>2, <2>1, <2>2
<1> QED BY <1>8, <1>9, <1>10, <1>11 DEF DataSide

\* The writes are there at the start, and every step keeps them.
LEMMA InitData == ASSUME Init PROVE DataSide
<1>1. /\ content = [f \in Frag |-> IF f \in ToSet(InitChain) THEN Row \X {f} ELSE {}]
      /\ serFrag = None /\ compPc = "idle"
      /\ duplicatedLogs = [t \in Row |-> {}]
  BY DEF Init
<1>2. /\ \A l \in Log : l \in Frag /\ l \notin InitFiles
      /\ InitFiles \subseteq Frag
  BY InitInv, RefTypes
<1>3. ASSUME NEW t \in live, NEW l \in Source, NEW w \in content[l]
      PROVE  Has(t, w)
  <2>1. l \in InitFiles /\ t = NRows
    BY <1>1, <1>2, <1>3 DEF Source, Init, InitFiles
  <2>2. NRows \in Row
    BY TabletAssumption DEF Row
  <2>3. chain[t] = InitChain
    BY <2>1, <2>2 DEF Init
  <2> QED BY <2>1, <2>3 DEF Has, InitFiles
<1>4. Stored
  BY <1>3 DEF Stored
<1> QED BY <1>1, <1>4 DEF DataSide, SwapKeeps, MergeKeeps, Installing, NoticesLeft

LEMMA NextData == ASSUME LogInv, RefSide, DataSide, [Next]_vars PROVE DataSide'
<1> USE DEF LogInv
<1>1. CASE CommitThread
  BY <1>1, CommitData, CallsData DEF CommitThread
<1>2. CASE SerializeThread
  BY <1>2, SerializeStartData, CallsData, ReplaceLogData DEF SerializeThread
<1>3. CASE CompactThread
  BY <1>3, CompactorData, CompactOutputData, CompactNothingData, ReplaceRunData
  DEF CompactThread
<1>4. ASSUME NEW s \in Saver, SaveStep(s) PROVE DataSide'
  BY <1>4, SavesData DEF SaveStep
<1>5. CASE WorkThread
  BY <1>4, <1>5, SavesData, SplitTabletData DEF WorkThread, Saver
<1>6. ASSUME NEW s \in Syncers, ApiThread(s) PROVE DataSide'
  BY <1>4, <1>6, SavesData DEF ApiThread, Saver
<1>7. CASE UNCHANGED vars
  BY <1>7, SavesData
<1> QED BY <1>1, <1>2, <1>3, <1>5, <1>6, <1>7 DEF Next

\* The server itself deletes none of the files loaded with the table.
LEMMA LoadedFilesStay ==
    ASSUME RefSide, [Next]_vars, NEW f \in InitFiles, f \in disk
    PROVE  f \in disk'
<1>1. \A F : f \notin Deleted(files, F)
  BY DEF RefSide, LoadedKept, Deleted
<1>2. CASE CommitThread
  BY <1>2 DEF CommitThread, Commit, PushGroup, trackerVars
<1>3. CASE SerializeThread
  BY <1>1, <1>3 DEF SerializeThread, SerializeStart, SerializeNext, ReplaceLog, MarkLogDead,
                    ForwardToClone, AddToDag, SerializeAskSplit, SerializeEnd, trackerVars
<1>4. CASE CompactThread
  BY <1>1, <1>4 DEF CompactThread, CompactStart, CompactOutput, CompactNothing, ReplaceRun,
                    MarkRunDead, CompactAskSplit, CompactEnd, trackerVars
<1>5. ASSUME NEW s, SaveStep(s) PROVE f \in disk'
  BY <1>1, <1>5 DEF SaveStep, WriteConfig, SaveAgain, FinishSave, trackerVars
<1>6. CASE WorkThread
  BY <1>5, <1>6 DEF WorkThread, StartSave, StartSplit, SplitImpossible, SplitTablet,
                    trackerVars
<1>7. ASSUME NEW s \in Syncers, ApiThread(s) PROVE f \in disk'
  BY <1>5, <1>7 DEF ApiThread, Sync, trackerVars
<1>8. CASE UNCHANGED vars
  BY <1>8 DEF vars, trackerVars
<1> QED BY <1>2, <1>3, <1>4, <1>6, <1>7, <1>8 DEF Next

\* The files loaded with the table exist.
LoadedExist == InitFiles \subseteq disk

\* The inductive invariant with the files and the writes.
DataInv == LogInv /\ RefSide /\ DataSide /\ LoadedExist

\* Where every write is holds in every reachable state.
THEOREM DataInvariant == Spec => []DataInv
<1>1. Init => DataInv
  <2>1. Init => LoadedExist
    BY DEF Init, LoadedExist, InitFiles
  <2> QED BY <2>1, InitLogs, InitRefs, InitData DEF DataInv
<1>2. DataInv /\ [Next]_vars => DataInv'
  <2>1. DataInv /\ [Next]_vars => LoadedExist'
    BY LoadedFilesStay DEF DataInv, LoadedExist, InitFiles
  <2> QED BY <2>1, NextLogs, NextRefs, NextData DEF DataInv
<1> QED BY <1>1, <1>2, PTL DEF Spec

\* A file of this server that is in use exists.
LEMMA UsedFilesExist ==
    ASSUME IInv, RefSide, NEW t \in live, NEW f \in made, f \notin InitFiles, Uses(t, f)
    PROVE  f \in disk
<1>1. t \in Users(f) /\ Users(f) \in SUBSET Row
  BY RefTypes DEF Users
<1>2. Cardinality(Users(f)) \in Nat /\ IsFiniteSet(Users(f))
  BY <1>1, TabletsFinite
<1>3. Cardinality(Users(f)) # 0
  BY <1>1, <1>2, FS_EmptySet
<1>4. files[f] > 0
  BY <1>2, <1>3 DEF RefSide, Counted, Count
<1> QED BY <1>4 DEF RefSide, Counted

\* No committed write is lost to the readers of its row, whatever splits, log
\* replacements and compactions are under way, or what sets a file free.
THEOREM WritesKept == Spec => []WritesReadable
<1>1. DataInv => WritesReadable
  <2> SUFFICES ASSUME DataInv, NEW l \in Log, NEW w \in content[l]
               PROVE  w \in Writes(ToSet(chain[Owner(w[1])]) \cap disk)
    BY DEF WritesReadable, Writes
  <2> USE DEF DataInv, LogInv
  <2>1. w[1] \in Row
    BY DataTypes DEF Write
  <2>2. PICK t \in live : t = Owner(w[1])
    BY <2>1, OwnerLives DEF IInv
  <2>3. w[1] \in Rows(t)
    BY <2>1, <2>2, OwnerOnly DEF IInv
  <2>4. PICK f \in ToSet(chain[t]) : w \in content[f]
    BY <2>3 DEF DataSide, Stored, Has, Source
  <2>5. f \in disk
    <3>1. Uses(t, f) /\ f \in made
      BY <2>4, RefTypes DEF Uses, RefSide, UsedMade
    <3> QED BY <3>1, UsedFilesExist DEF LoadedExist
  <2> QED BY <2>2, <2>4, <2>5 DEF Writes
<1> QED BY <1>1, DataInvariant, PTL

-----------------------------------------------------------------------------
(* The bounds of the tablets in META.                                      *)

\* META has a lower bound for t from before the last split of t.
Behind(t) == meta[t] # None /\ meta[t].minRow # minRow[t]

\* There can be one split since then, and the tablet of the lower rows has not
\* been split in turn.
BehindOne ==
    \A t \in live : Behind(t) =>
        /\ minRow[t] \in live /\ ~Behind(minRow[t])
        /\ minRow[minRow[t]] = meta[t].minRow

\* For t is saved, or will be before it or that tablet is split again.
SaveRuns(t) == \E s \in Saver : save[s].pc = "saving" /\ save[s].tab = t
SaveQueued(t) ==
    \E i \in 1..Len(jobs) :
        /\ jobs[i].kind = "save" /\ jobs[i].tab = t
        /\ \A j \in 1..Len(jobs) :
               j < i /\ jobs[j].kind = "split" => jobs[j].tab \notin {t, minRow[t]}
BehindSaved ==
    \A t \in live : Behind(t) => SaveRuns(t) \/ (configChanged[t] /\ SaveQueued(t))

\* A tablet that is being split, and the tablet it was split from, are in
\* META, and nobody saves but the work thread.
SplitAlone ==
    Lull => /\ \A s \in Syncers : save[s].pc = "idle"
            /\ \A t \in live : job.tab \in {t, minRow[t]} => ~Behind(t)

\* A configuration that is being saved has the tablet's lower bound.
SavesBound ==
    \A s \in Saver : save[s].pc # "idle" =>
        save[s].tab \in live /\ save[s].cfg.minRow = minRow[save[s].tab]

\* The work thread saves for its job, and has not synced before.
WorkSaves ==
    /\ save[Work].pc # "idle" => job # None /\ job.tab = save[Work].tab /\ ~job.synced
    /\ \A i \in 1..Len(jobs) : ~jobs[i].synced

\* A tablet has one split job at a time.
IsSplit(j, t) == j.kind = "split" /\ j.tab = t
SplitsOnce ==
    \A t \in Row :
        /\ \A i \in 1..Len(jobs) : IsSplit(jobs[i], t) =>
               splitPending[t] /\ ~(Lull /\ job.tab = t)
        /\ \A i, j \in 1..Len(jobs) : IsSplit(jobs[i], t) /\ IsSplit(jobs[j], t) => i = j
        /\ Lull /\ job.tab = t => splitPending[t]

SavedLive == SavedTablets \subseteq live

BoundSide == /\ BehindOne /\ BehindSaved /\ SplitAlone /\ SavesBound /\ WorkSaves
             /\ SplitsOnce /\ SavedLive

\* The types that the proofs below use.
LEMMA BoundTypes ==
    ASSUME IInv
    PROVE  /\ jobs \in Seq(JobSet(live)) /\ job \in JobSet(live) \cup {None}
           /\ live \subseteq Row /\ None \notin Row
           /\ meta \in [Row -> ConfigSet \cup {None}]
           /\ save \in [Saver -> SaveSet \cup {Idle}]
           /\ splitPending \in [Row -> BOOLEAN] /\ configChanged \in [Row -> BOOLEAN]
           /\ minRow \in [Row -> 0..NRows]
           /\ Saver = Syncers \cup {Work} /\ Work \notin Syncers
           /\ \A i \in 1..Len(jobs) : jobs[i] \in JobSet(live) /\ jobs[i].tab \in live
<1>1. /\ jobs \in Seq(JobSet(live)) /\ job \in JobSet(live) \cup {None}
      /\ live \subseteq Row
      /\ meta \in [Row -> ConfigSet \cup {None}]
      /\ save \in [Saver -> SaveSet \cup {Idle}]
      /\ splitPending \in [Row -> BOOLEAN] /\ configChanged \in [Row -> BOOLEAN]
      /\ minRow \in [Row -> 0..NRows]
  BY DEF IInv, BaseTypes, KnownTablets
<1>2. \A i \in 1..Len(jobs) : jobs[i] \in JobSet(live)
  BY <1>1
<1>3. \A j \in JobSet(live) : j.tab \in live
  BY DEF JobSet
<1> QED BY <1>1, <1>2, <1>3, TabletAssumption DEF Saver

\* The queue has only got save jobs at its end.
Posted ==
    /\ Len(jobs) \in Nat /\ Len(jobs') \in Nat /\ Len(jobs) <= Len(jobs')
    /\ \A i \in 1..Len(jobs) : jobs'[i] = jobs[i]
    /\ \A i \in 1..Len(jobs') :
           i > Len(jobs) => jobs'[i].kind = "save" /\ ~jobs'[i].synced

\* postConfigChange() adds save jobs.
LEMMA PostedFrom ==
    ASSUME IInv, NEW ts \in Seq(Row), jobs' = jobs \o [i \in 1..Len(ts) |-> SaveJob(ts[i])]
    PROVE  /\ Posted /\ Len(jobs') = Len(jobs) + Len(ts)
           /\ \A i \in 1..Len(ts) : jobs'[Len(jobs) + i] = SaveJob(ts[i])
<1> DEFINE p == [i \in 1..Len(ts) |-> SaveJob(ts[i])]
<1>1. jobs \in Seq(JobSet(Row))
  <2>1. jobs \in Seq(JobSet(live)) /\ JobSet(live) \subseteq JobSet(Row)
    BY BoundTypes DEF JobSet
  <2> QED BY <2>1, SeqGrows
<1>2. p \in Seq(JobSet(Row)) /\ Len(p) = Len(ts)
  <2>1. \A i \in 1..Len(ts) : SaveJob(ts[i]) \in JobSet(Row)
    BY DEF SaveJob, JobSet
  <2> QED BY <2>1
<1>3. \A i \in 1..Len(p) : p[i].kind = "save" /\ ~p[i].synced /\ p[i] = SaveJob(ts[i])
  BY DEF SaveJob
<1> HIDE DEF p
<1>4. /\ Len(jobs') = Len(jobs) + Len(p) /\ Len(jobs) \in Nat /\ Len(p) \in Nat
      /\ \A i \in 1..Len(jobs') :
             jobs'[i] = IF i <= Len(jobs) THEN jobs[i] ELSE p[i - Len(jobs)]
  BY <1>1, <1>2, ConcatProperties DEF p
<1>5. \A i \in 1..Len(jobs') : i > Len(jobs) => i - Len(jobs) \in 1..Len(p)
  BY <1>4
<1>6. \A i \in 1..Len(p) : Len(jobs) + i \in 1..Len(jobs') /\ Len(jobs) + i > Len(jobs)
                           /\ (Len(jobs) + i) - Len(jobs) = i
  BY <1>4
<1>7. \A i \in 1..Len(ts) : jobs'[Len(jobs) + i] = SaveJob(ts[i])
  BY <1>2, <1>3, <1>4, <1>6
<1>8. Posted
  BY <1>3, <1>4, <1>5 DEF Posted
<1> QED BY <1>2, <1>4, <1>7, <1>8

\* A save job that comes in time still does when others are posted.
LEMMA QueuedStays ==
    ASSUME Posted, NEW t, SaveQueued(t), minRow'[t] = minRow[t]
    PROVE  SaveQueued(t)'
<1>1. PICK i \in 1..Len(jobs) :
          /\ jobs[i].kind = "save" /\ jobs[i].tab = t
          /\ \A j \in 1..Len(jobs) :
                 j < i /\ jobs[j].kind = "split" => jobs[j].tab \notin {t, minRow[t]}
  BY DEF SaveQueued
<1>2. i \in 1..Len(jobs') /\ jobs'[i] = jobs[i]
  BY DEF Posted
<1>3. ASSUME NEW j \in 1..Len(jobs'), j < i, jobs'[j].kind = "split"
      PROVE  jobs'[j].tab \notin {t, minRow'[t]}
  <2>1. j \in 1..Len(jobs) /\ jobs'[j] = jobs[j]
    BY <1>3 DEF Posted
  <2> QED BY <1>1, <1>3, <2>1
<1> QED BY <1>1, <1>2, <1>3 DEF SaveQueued

\* The steps that at most post configuration changes.
LEMMA PostBounds ==
    ASSUME IInv, BoundSide, Posted,
           UNCHANGED <<live, minRow, meta, job, save, splitPending>>,
           \A t \in live : configChanged[t] => configChanged'[t]
    PROVE  BoundSide'
<1>1. \A t : (Behind(t)' <=> Behind(t)) /\ (SaveRuns(t)' <=> SaveRuns(t))
  BY DEF Behind, SaveRuns
<1>2. BehindOne'
  BY <1>1 DEF BoundSide, BehindOne
<1>3. BehindSaved'
  BY <1>1, QueuedStays DEF BoundSide, BehindSaved
<1>4. SplitAlone'
  BY <1>1 DEF BoundSide, SplitAlone, Lull
<1>5. SavesBound' /\ SavedLive'
  BY DEF BoundSide, SavesBound, SavedLive, SavedTablets
<1>6. WorkSaves'
  BY DEF BoundSide, WorkSaves, Posted
<1>7. SplitsOnce'
  <2>1. \A i \in 1..Len(jobs'), t \in Row :
            IsSplit(jobs'[i], t) => i \in 1..Len(jobs) /\ jobs'[i] = jobs[i]
    BY DEF Posted, IsSplit
  <2> QED BY <2>1 DEF BoundSide, SplitsOnce, Lull
<1> QED BY <1>2, <1>3, <1>4, <1>5, <1>6, <1>7 DEF BoundSide

\* The steps that do not even that.
LEMMA QuietBounds ==
    ASSUME IInv, BoundSide,
           UNCHANGED <<live, minRow, meta, job, jobs, save, splitPending, configChanged>>
    PROVE  BoundSide'
<1>1. Posted
  <2>1. Len(jobs) \in Nat
    BY BoundTypes
  <2> QED BY <2>1 DEF Posted
<1> QED BY <1>1, PostBounds

\* What postConfigChange() does to the queue.
LEMMA PostsOne ==
    ASSUME IInv, NEW t \in live, PostConfigChange(<<t>>)
    PROVE  Posted /\ \A x \in live : configChanged[x] => configChanged'[x]
<1>1. <<t>> \in Seq(Row)
  BY BoundTypes
<1>2. Posted
  BY <1>1, PostedFrom DEF PostConfigChange
<1>3. \A x \in live : configChanged[x] => configChanged'[x]
  BY BoundTypes DEF PostConfigChange
<1> QED BY <1>2, <1>3

\* The steps that ask for a split.
LEMMA AskBounds ==
    ASSUME IInv, BoundSide, NEW t \in live, NEW big \in BOOLEAN, RequestSplit(t, big),
           UNCHANGED <<live, minRow, meta, job, save, configChanged>>
    PROVE  BoundSide'
<1>1. CASE ~(big /\ ~splitPending[t])
  <2>1. UNCHANGED <<jobs, splitPending>>
    BY <1>1, BoundTypes DEF RequestSplit
  <2> QED BY <2>1, QuietBounds
<1>2. CASE big /\ ~splitPending[t]
  <2>1. /\ jobs' = Append(jobs, SplitJob(t))
        /\ splitPending' = [splitPending EXCEPT ![t] = TRUE]
        /\ splitPending \in [Row -> BOOLEAN] /\ live \subseteq Row
    BY <1>2, BoundTypes DEF RequestSplit
  <2>2. /\ Len(jobs) \in Nat /\ Len(jobs') = Len(jobs) + 1
        /\ \A i \in 1..Len(jobs) : jobs'[i] = jobs[i]
        /\ jobs'[Len(jobs) + 1] = SplitJob(t)
    BY <2>1, BoundTypes
  <2>3. \A i \in 1..Len(jobs') : i \in 1..Len(jobs) \/ i = Len(jobs) + 1
    BY <2>2
  <2>4. \A x : (Behind(x)' <=> Behind(x)) /\ (SaveRuns(x)' <=> SaveRuns(x))
    BY DEF Behind, SaveRuns
  <2>5. ASSUME NEW x \in live, SaveQueued(x) PROVE SaveQueued(x)'
    <3>1. PICK i \in 1..Len(jobs) :
              /\ jobs[i].kind = "save" /\ jobs[i].tab = x
              /\ \A j \in 1..Len(jobs) :
                     j < i /\ jobs[j].kind = "split" => jobs[j].tab \notin {x, minRow[x]}
      BY <2>5 DEF SaveQueued
    <3>2. i \in 1..Len(jobs') /\ jobs'[i] = jobs[i]
      BY <2>2
    <3>3. ASSUME NEW j \in 1..Len(jobs'), j < i, jobs'[j].kind = "split"
          PROVE  jobs'[j].tab \notin {x, minRow'[x]}
      <4>1. j \in 1..Len(jobs) /\ jobs'[j] = jobs[j]
        BY <2>2, <3>3
      <4> QED BY <3>1, <3>3, <4>1
    <3> QED BY <3>1, <3>2, <3>3 DEF SaveQueued
  <2>6. BehindOne' /\ BehindSaved'
    BY <2>4, <2>5 DEF BoundSide, BehindOne, BehindSaved
  <2>7. SplitAlone'
    BY <2>4 DEF BoundSide, SplitAlone, Lull
  <2>8. SavesBound' /\ SavedLive'
    BY DEF BoundSide, SavesBound, SavedLive, SavedTablets
  <2>9. WorkSaves'
    <3>1. ~jobs'[Len(jobs) + 1].synced
      BY <2>2 DEF SplitJob
    <3> QED BY <2>2, <2>3, <3>1 DEF BoundSide, WorkSaves
  <2>10. SplitsOnce'
    <3> SUFFICES ASSUME NEW x \in Row
                 PROVE  /\ \A i \in 1..Len(jobs') : IsSplit(jobs'[i], x) =>
                               splitPending'[x] /\ ~(Lull /\ job.tab = x)
                        /\ \A i, j \in 1..Len(jobs') :
                               IsSplit(jobs'[i], x) /\ IsSplit(jobs'[j], x) => i = j
                        /\ Lull /\ job.tab = x => splitPending'[x]
      BY DEF SplitsOnce, Lull
    <3>1. /\ \A i \in 1..Len(jobs) : IsSplit(jobs[i], x) =>
                 splitPending[x] /\ ~(Lull /\ job.tab = x)
          /\ \A i, j \in 1..Len(jobs) :
                 IsSplit(jobs[i], x) /\ IsSplit(jobs[j], x) => i = j
          /\ Lull /\ job.tab = x => splitPending[x]
      BY DEF BoundSide, SplitsOnce
    <3>2. splitPending[x] => splitPending'[x]
      BY <2>1
    <3>3. CASE x = t
      <4>1. \A i \in 1..Len(jobs) : ~IsSplit(jobs[i], x)
        BY <1>2, <3>1, <3>3
      <4>2. splitPending'[x] /\ ~(Lull /\ job.tab = x)
        BY <1>2, <2>1, <3>1, <3>3
      <4>3. \A i \in 1..Len(jobs') : IsSplit(jobs'[i], x) => i = Len(jobs) + 1
        BY <2>2, <2>3, <4>1
      <4> QED BY <4>2, <4>3
    <3>4. CASE x # t
      <4>1. ~IsSplit(jobs'[Len(jobs) + 1], x)
        BY <2>2, <3>4 DEF IsSplit, SplitJob
      <4>2. \A i \in 1..Len(jobs') :
                IsSplit(jobs'[i], x) => i \in 1..Len(jobs) /\ IsSplit(jobs[i], x)
        BY <2>2, <2>3, <4>1
      <4> QED BY <3>1, <3>2, <4>2
    <3> QED BY <3>3, <3>4
  <2> QED BY <2>6, <2>7, <2>8, <2>9, <2>10 DEF BoundSide
<1> QED BY <1>1, <1>2

\* saveConfig() takes a snapshot.
LEMMA SnapshotBounds ==
    ASSUME IInv, BoundSide, NEW s \in Saver, NEW t \in live, NEW covers,
           Snapshot(s, t, covers), save[s].pc # "saving",
           UNCHANGED <<live, minRow, meta, job, jobs, splitPending>>,
           s \in Syncers => ~Lull,
           s = Work => save[s].pc # "idle" /\ save[s].tab = t
    PROVE  BoundSide'
<1> DEFINE sv == [pc |-> "saving", tab |-> t, cfg |-> Config(t), covers |-> covers]
<1>1. /\ configChanged' = [configChanged EXCEPT ![t] = FALSE]
      /\ save' = [save EXCEPT ![s] = sv]
      /\ configChanged \in [Row -> BOOLEAN] /\ live \subseteq Row
      /\ save \in [Saver -> SaveSet \cup {Idle}]
      /\ Saver = Syncers \cup {Work} /\ Work \notin Syncers
  BY BoundTypes DEF Snapshot
<1>2. sv.pc = "saving" /\ sv.tab = t /\ sv.cfg.minRow = minRow[t]
  BY DEF Config
<1> HIDE DEF sv
<1>3. /\ save'[s] = sv /\ \A p \in Saver : p # s => save'[p] = save[p]
      /\ \A x \in live : x # t => configChanged'[x] = configChanged[x]
  BY <1>1
<1>4. \A x : (Behind(x)' <=> Behind(x)) /\ (SaveQueued(x)' <=> SaveQueued(x))
  BY DEF Behind, SaveQueued
<1>5. BehindOne'
  BY <1>4 DEF BoundSide, BehindOne
<1>6. SaveRuns(t)' /\ \A x \in live : SaveRuns(x) => SaveRuns(x)'
  BY <1>2, <1>3 DEF SaveRuns
<1>7. BehindSaved'
  BY <1>3, <1>4, <1>6 DEF BoundSide, BehindSaved
<1>8. SplitAlone'
  BY <1>1, <1>3, <1>4 DEF BoundSide, SplitAlone, Lull
<1>9. SavesBound'
  BY <1>2, <1>3 DEF BoundSide, SavesBound
<1>10. WorkSaves'
  BY <1>1, <1>2, <1>3 DEF BoundSide, WorkSaves
<1>11. SplitsOnce' /\ SavedLive'
  BY DEF BoundSide, SplitsOnce, SavedLive, SavedTablets, Lull
<1> QED BY <1>5, <1>7, <1>8, <1>9, <1>10, <1>11 DEF BoundSide

\* An API thread takes a snapshot in sync().
LEMMA SyncBounds ==
    ASSUME IInv, BoundSide, NEW s \in Syncers, NEW t \in live, Sync(s, t)
    PROVE  BoundSide'
<1>1. /\ ~Lull /\ save[s].pc = "idle" /\ s \in Saver /\ s # Work
      /\ UNCHANGED <<live, minRow, meta, job, jobs, splitPending>>
  BY BoundTypes DEF Sync, workVars
<1>2. CASE configChanged[t]
  <2>1. PICK covers : Snapshot(s, t, covers)
    BY <1>2 DEF Sync
  <2> QED BY <1>1, <2>1, SnapshotBounds
<1>3. CASE ~configChanged[t]
  <2>1. UNCHANGED <<configChanged, save>>
    BY <1>3 DEF Sync
  <2> QED BY <1>1, <2>1, QuietBounds
<1> QED BY <1>2, <1>3

\* saveConfig() loops.
LEMMA SaveAgainBounds ==
    ASSUME IInv, BoundSide, NEW s \in Saver, SaveAgain(s)
    PROVE  BoundSide'
<1>1. /\ save[s].pc = "saved" /\ Snapshot(s, save[s].tab, save[s].covers)
      /\ UNCHANGED <<live, minRow, meta, job, jobs, splitPending>>
  BY DEF SaveAgain, workVars
<1>2. save[s].tab \in live /\ (s \in Syncers => ~Lull)
  BY <1>1 DEF BoundSide, SavesBound, SplitAlone
<1> QED BY <1>1, <1>2, SnapshotBounds

\* META gets the lower bound that the tablet has.
LEMMA WriteConfigBounds ==
    ASSUME IInv, BoundSide, NEW s \in Saver, WriteConfig(s)
    PROVE  BoundSide'
<1>1. PICK t : t = save[s].tab
  OBVIOUS
<1>2. /\ save[s].pc = "saving"
      /\ meta' = [meta EXCEPT ![t] = save[s].cfg]
      /\ save' = [save EXCEPT ![s].pc = "saved"]
      /\ UNCHANGED <<live, minRow, job, jobs, splitPending, configChanged>>
  BY <1>1 DEF WriteConfig, tabletVars, workVars
<1>3. /\ meta \in [Row -> ConfigSet \cup {None}] /\ live \subseteq Row
      /\ save \in [Saver -> SaveSet \cup {Idle}] /\ save[s] \in SaveSet
      /\ Saver = Syncers \cup {Work} /\ Work \notin Syncers
  BY <1>2, BoundTypes, SaveFacts DEF IInv
<1>4. t \in live /\ save[s].cfg.minRow = minRow[t]
  BY <1>1, <1>2 DEF BoundSide, SavesBound
<1>5. /\ meta'[t] = save[s].cfg /\ \A x \in Row : x # t => meta'[x] = meta[x]
  BY <1>2, <1>3, <1>4
<1>6. /\ \A p \in Saver : p # s => save'[p] = save[p]
      /\ save'[s].pc = "saved" /\ save'[s].tab = t /\ save'[s].cfg = save[s].cfg
  BY <1>1, <1>2, <1>3 DEF SaveSet
<1>7. ~Behind(t)' /\ \A x \in live : x # t => (Behind(x)' <=> Behind(x))
  BY <1>2, <1>3, <1>4, <1>5 DEF Behind
<1>8. \A x \in live : x # t => (SaveRuns(x) => SaveRuns(x)')
  BY <1>1, <1>6 DEF SaveRuns
<1>9. \A x \in live : SaveQueued(x)' <=> SaveQueued(x)
  BY <1>2 DEF SaveQueued
<1>10. BehindOne'
  BY <1>2, <1>3, <1>5, <1>7 DEF BoundSide, BehindOne
<1>11. BehindSaved'
  BY <1>2, <1>7, <1>8, <1>9 DEF BoundSide, BehindSaved
<1>12. SplitAlone'
  <2> SUFFICES ASSUME Lull
               PROVE  /\ \A p \in Syncers : save'[p].pc = "idle"
                      /\ \A x \in live : job.tab \in {x, minRow[x]} => ~Behind(x)'
    BY <1>2 DEF SplitAlone, Lull
  <2>1. /\ \A p \in Syncers : save[p].pc = "idle"
        /\ \A x \in live : job.tab \in {x, minRow[x]} => ~Behind(x)
    BY DEF BoundSide, SplitAlone
  <2>2. s \notin Syncers
    BY <1>2, <2>1
  <2> QED BY <1>3, <1>6, <1>7, <2>1, <2>2
<1>13. SavesBound'
  BY <1>2, <1>4, <1>6 DEF BoundSide, SavesBound
<1>14. WorkSaves'
  BY <1>1, <1>2, <1>3, <1>6 DEF BoundSide, WorkSaves
<1>15. SplitsOnce'
  BY <1>2 DEF BoundSide, SplitsOnce, Lull
<1>16. SavedLive'
  <2>1. \A x \in SavedTablets' : x = t \/ x \in SavedTablets
    BY <1>5 DEF SavedTablets
  <2> QED BY <1>2, <1>4, <2>1 DEF BoundSide, SavedLive
<1> QED BY <1>10, <1>11, <1>12, <1>13, <1>14, <1>15, <1>16 DEF BoundSide

\* saveConfig() ends.
LEMMA FinishSaveBounds ==
    ASSUME IInv, BoundSide, NEW s \in Saver, FinishSave(s)
    PROVE  BoundSide'
<1>1. /\ save[s].pc = "saved" /\ save' = [save EXCEPT ![s] = Idle]
      /\ job' = IF s # Work THEN job
                ELSE IF Lull THEN [job EXCEPT !.synced = TRUE] ELSE None
      /\ UNCHANGED <<live, minRow, meta, jobs, splitPending, configChanged>>
  BY DEF FinishSave
<1>2. /\ job \in JobSet(live) \cup {None}
      /\ save \in [Saver -> SaveSet \cup {Idle}]
      /\ Saver = Syncers \cup {Work} /\ Work \notin Syncers
  BY BoundTypes
<1>3. /\ save'[s] = Idle /\ Idle.pc = "idle"
      /\ \A p \in Saver : p # s => save'[p] = save[p]
  BY <1>1, <1>2 DEF Idle
<1>4. Lull' => Lull /\ job'.tab = job.tab
  <2>1. CASE s # Work
    BY <1>1, <2>1 DEF Lull
  <2>2. CASE s = Work /\ ~Lull
    <3>1. job' = None
      BY <1>1, <2>2
    <3> QED BY <3>1 DEF Lull
  <2>3. CASE s = Work /\ Lull
    <3>1. job \in JobSet(live) /\ job' = [job EXCEPT !.synced = TRUE]
      BY <1>1, <1>2, <2>3 DEF Lull
    <3>2. job'.tab = job.tab
      BY <3>1 DEF JobSet
    <3> QED BY <2>3, <3>2
  <2> QED BY <2>1, <2>2, <2>3
<1>5. \A x : /\ Behind(x)' <=> Behind(x)
             /\ SaveQueued(x)' <=> SaveQueued(x)
             /\ SaveRuns(x) => SaveRuns(x)'
  BY <1>1, <1>3 DEF Behind, SaveQueued, SaveRuns
<1>6. BehindOne' /\ BehindSaved' /\ SavedLive'
  BY <1>1, <1>5 DEF BoundSide, BehindOne, BehindSaved, SavedLive, SavedTablets
<1>7. SplitAlone'
  BY <1>1, <1>2, <1>3, <1>4, <1>5 DEF BoundSide, SplitAlone
<1>8. SavesBound'
  BY <1>1, <1>3 DEF BoundSide, SavesBound
<1>9. WorkSaves'
  BY <1>1, <1>2, <1>3 DEF BoundSide, WorkSaves
<1>10. SplitsOnce'
  BY <1>1, <1>4 DEF BoundSide, SplitsOnce
<1> QED BY <1>6, <1>7, <1>8, <1>9, <1>10 DEF BoundSide

\* The work thread pops a job.
LEMMA PoppedJob ==
    ASSUME IInv, jobs # <<>>, jobs' = Tail(jobs)
    PROVE  /\ Head(jobs) = jobs[1] /\ 1 \in 1..Len(jobs) /\ Head(jobs) \in JobSet(live)
           /\ Head(jobs).tab \in live
           /\ \A i \in 1..Len(jobs') : i + 1 \in 1..Len(jobs) /\ jobs'[i] = jobs[i + 1]
           /\ \A i \in 1..Len(jobs) : i # 1 => i - 1 \in 1..Len(jobs')
                                               /\ jobs'[i - 1] = jobs[i]
           /\ Len(jobs) \in Nat
<1>1. jobs \in Seq(JobSet(live))
  BY BoundTypes
<1>2. /\ Len(jobs) \in Nat /\ 1 \in 1..Len(jobs) /\ Len(jobs') = Len(jobs) - 1
      /\ Head(jobs) = jobs[1]
      /\ \A i \in 1..Len(jobs') : jobs'[i] = jobs[i + 1]
  BY <1>1
<1>3. \A i \in 1..Len(jobs) : i # 1 => i - 1 \in 1..Len(jobs') /\ (i - 1) + 1 = i
  BY <1>2
<1>4. \A i \in 1..Len(jobs') : i + 1 \in 1..Len(jobs)
  BY <1>2
<1>5. \A i \in 1..Len(jobs) : i # 1 => jobs'[i - 1] = jobs[i]
  <2> SUFFICES ASSUME NEW i \in 1..Len(jobs), i # 1 PROVE jobs'[i - 1] = jobs[i]
    OBVIOUS
  <2>1. jobs'[i - 1] = jobs[(i - 1) + 1]
    BY <1>2, <1>3
  <2> QED BY <1>3, <2>1
<1> QED BY <1>2, <1>3, <1>4, <1>5, BoundTypes

\* Another save job than the first comes as much in time as before.
LEMMA QueuedPops ==
    ASSUME IInv, jobs # <<>>, jobs' = Tail(jobs), NEW t, SaveQueued(t),
           ~(jobs[1].kind = "save" /\ jobs[1].tab = t), minRow'[t] = minRow[t]
    PROVE  /\ SaveQueued(t)'
           /\ jobs[1].kind = "split" => jobs[1].tab \notin {t, minRow[t]}
<1>1. PICK i \in 1..Len(jobs) :
          /\ jobs[i].kind = "save" /\ jobs[i].tab = t
          /\ \A j \in 1..Len(jobs) :
                 j < i /\ jobs[j].kind = "split" => jobs[j].tab \notin {t, minRow[t]}
  BY DEF SaveQueued
<1>2. i # 1 /\ i - 1 \in 1..Len(jobs') /\ jobs'[i - 1] = jobs[i]
  BY <1>1, PoppedJob
<1>3. ASSUME NEW j \in 1..Len(jobs'), j < i - 1, jobs'[j].kind = "split"
      PROVE  jobs'[j].tab \notin {t, minRow'[t]}
  <2>1. j + 1 \in 1..Len(jobs) /\ jobs'[j] = jobs[j + 1] /\ j + 1 < i
    BY <1>3, PoppedJob
  <2>2. PICK k \in 1..Len(jobs) : k = j + 1
    BY <2>1
  <2> QED BY <1>1, <1>3, <2>1, <2>2
<1>4. SaveQueued(t)'
  <2>1. PICK k \in 1..Len(jobs') : k = i - 1
    BY <1>2
  <2>2. jobs'[k].kind = "save" /\ jobs'[k].tab = t
    BY <1>1, <1>2, <2>1
  <2> QED BY <1>3, <2>1, <2>2 DEF SaveQueued
<1>5. 1 \in 1..Len(jobs) /\ 1 < i
  BY <1>2, PoppedJob
<1> QED BY <1>1, <1>4, <1>5

\* The work thread begins a job: it saves the tablet's configuration first if
\* there is anything new in it.
LEMMA StartBounds ==
    ASSUME IInv, BoundSide, job = None, jobs # <<>>, jobs' = Tail(jobs),
           NEW t, t = Head(jobs).tab,
           UNCHANGED <<live, minRow, meta, splitPending>>,
           \/ configChanged[t] /\ Snapshot(Work, t, {}) /\ job' = Head(jobs)
           \/ ~configChanged[t] /\ UNCHANGED <<configChanged, save>>,
           Lull' => /\ Head(jobs).kind = "split" /\ job'.tab = t
                    /\ \A s \in Syncers : save[s].pc = "idle"
    PROVE  BoundSide'
<1>1. /\ live \subseteq Row /\ configChanged \in [Row -> BOOLEAN]
      /\ save \in [Saver -> SaveSet \cup {Idle}]
      /\ Saver = Syncers \cup {Work} /\ Work \notin Syncers
  BY BoundTypes
<1>2. /\ jobs[1].tab = t /\ t \in live /\ jobs[1] = Head(jobs) /\ 1 \in 1..Len(jobs)
      /\ Lull' => jobs[1].kind = "split"
  BY PoppedJob
<1>3. save[Work].pc = "idle" /\ ~Head(jobs).synced
  BY <1>2 DEF BoundSide, WorkSaves
<1>4. /\ \A s \in Syncers : save'[s] = save[s]
      /\ \/ UNCHANGED save /\ UNCHANGED configChanged
         \/ /\ save'[Work].pc = "saving" /\ save'[Work].tab = t
            /\ save'[Work].cfg.minRow = minRow[t]
            /\ \A x \in live : x # t => configChanged'[x] = configChanged[x]
            /\ job' = Head(jobs)
      /\ configChanged[t] => save'[Work].pc = "saving" /\ save'[Work].tab = t
  BY <1>1, <1>2 DEF Snapshot, Config
<1>5. \A x : Behind(x)' <=> Behind(x)
  BY DEF Behind
<1>6. \A x \in live : SaveRuns(x) => SaveRuns(x)' /\ \E s \in Syncers : save[s].pc # "idle"
  BY <1>1, <1>3, <1>4 DEF SaveRuns
<1>7. SaveRuns(t)' \/ ~configChanged[t]
  BY <1>1, <1>4 DEF SaveRuns
<1>8. ASSUME NEW x \in live, Behind(x)
      PROVE  /\ SaveRuns(x)' \/ (configChanged'[x] /\ SaveQueued(x)')
             /\ Lull' => t \notin {x, minRow[x]}
  <2>1. CASE SaveRuns(x)
    BY <1>6, <1>8, <2>1
  <2>2. CASE ~SaveRuns(x)
    <3>1. configChanged[x] /\ SaveQueued(x)
      BY <1>8, <2>2 DEF BoundSide, BehindSaved
    <3>2. CASE jobs[1].kind = "save" /\ jobs[1].tab = x
      BY <1>2, <1>7, <3>1, <3>2
    <3>3. CASE ~(jobs[1].kind = "save" /\ jobs[1].tab = x)
      <4>1. SaveQueued(x)' /\ (jobs[1].kind = "split" => jobs[1].tab \notin {x, minRow[x]})
        BY <3>1, <3>3, QueuedPops
      <4>2. x = t => SaveRuns(x)'
        BY <1>7, <3>1
      <4>3. x # t => configChanged'[x]
        BY <1>4, <3>1
      <4> QED BY <1>2, <4>1, <4>2, <4>3
    <3> QED BY <3>2, <3>3
  <2> QED BY <2>1, <2>2
<1>9. BehindOne'
  BY <1>5 DEF BoundSide, BehindOne
<1>10. BehindSaved'
  BY <1>5, <1>8 DEF BehindSaved
<1>11. SplitAlone'
  BY <1>4, <1>5, <1>8 DEF SplitAlone
<1>12. SavesBound'
  BY <1>1, <1>2, <1>4 DEF BoundSide, SavesBound
<1>13. WorkSaves'
  <2>1. \A i \in 1..Len(jobs') : ~jobs'[i].synced
    BY PoppedJob DEF BoundSide, WorkSaves
  <2>2. save'[Work].pc # "idle" => /\ job' = Head(jobs) /\ save'[Work].tab = t
    BY <1>3, <1>4
  <2>3. Head(jobs) # None
    <3>1. JobSet(live) \subseteq JobSet(Row)
      BY <1>1 DEF JobSet
    <3> QED BY <3>1, PoppedJob, NoneAssumption
  <2> QED BY <1>2, <1>3, <2>1, <2>2, <2>3 DEF WorkSaves
<1>14. SplitsOnce'
  <2> SUFFICES ASSUME NEW x \in Row
               PROVE  /\ \A i \in 1..Len(jobs') : IsSplit(jobs'[i], x) =>
                             splitPending[x] /\ ~(Lull' /\ job'.tab = x)
                      /\ \A i, j \in 1..Len(jobs') :
                             IsSplit(jobs'[i], x) /\ IsSplit(jobs'[j], x) => i = j
                      /\ Lull' /\ job'.tab = x => splitPending[x]
    BY DEF SplitsOnce
  <2>1. /\ \A i \in 1..Len(jobs) : IsSplit(jobs[i], x) => splitPending[x]
        /\ \A i, j \in 1..Len(jobs) : IsSplit(jobs[i], x) /\ IsSplit(jobs[j], x) => i = j
    BY DEF BoundSide, SplitsOnce
  <2>2. ASSUME NEW i \in 1..Len(jobs'), IsSplit(jobs'[i], x)
        PROVE  splitPending[x] /\ ~(Lull' /\ job'.tab = x)
    <3>1. i + 1 \in 1..Len(jobs) /\ IsSplit(jobs[i + 1], x) /\ i + 1 # 1
      BY <2>2, PoppedJob
    <3>2. ~IsSplit(jobs[1], x)
      BY <1>2, <2>1, <3>1
    <3> QED BY <1>2, <2>1, <3>1, <3>2 DEF IsSplit
  <2>3. ASSUME NEW i \in 1..Len(jobs'), NEW j \in 1..Len(jobs'),
               IsSplit(jobs'[i], x), IsSplit(jobs'[j], x)
        PROVE  i = j
    <3>1. /\ i + 1 \in 1..Len(jobs) /\ IsSplit(jobs[i + 1], x)
          /\ j + 1 \in 1..Len(jobs) /\ IsSplit(jobs[j + 1], x)
      BY <2>3, PoppedJob
    <3>2. i + 1 = j + 1
      BY <2>1, <3>1
    <3> QED BY <3>2
  <2>4. Lull' /\ job'.tab = x => splitPending[x]
    BY <1>2, <2>1 DEF IsSplit
  <2> QED BY <2>2, <2>3, <2>4
<1>15. SavedLive'
  BY DEF BoundSide, SavedLive, SavedTablets
<1> QED BY <1>9, <1>10, <1>11, <1>12, <1>13, <1>14, <1>15 DEF BoundSide

\* The work thread begins a save job.
LEMMA StartSaveBounds == ASSUME IInv, BoundSide, StartSave PROVE BoundSide'
<1>1. PICK t : t = Head(jobs).tab
  OBVIOUS
<1>2. /\ job = None /\ jobs # <<>> /\ Head(jobs).kind = "save" /\ jobs' = Tail(jobs)
      /\ UNCHANGED <<live, minRow, meta, splitPending>>
      /\ \/ configChanged[t] /\ Snapshot(Work, t, {}) /\ job' = Head(jobs)
         \/ ~configChanged[t] /\ UNCHANGED <<job, configChanged, save>>
  BY <1>1 DEF StartSave
<1>3. ~Lull'
  BY <1>2 DEF Lull
<1> QED BY <1>1, <1>2, <1>3, StartBounds

\* The work thread begins a split job.
LEMMA StartSplitBounds == ASSUME IInv, BoundSide, StartSplit PROVE BoundSide'
<1>1. PICK t : t = Head(jobs).tab
  OBVIOUS
<1>2. /\ job = None /\ jobs # <<>> /\ Head(jobs).kind = "split" /\ jobs' = Tail(jobs)
      /\ \A s \in Syncers : save[s].pc = "idle"
      /\ UNCHANGED <<live, minRow, meta, splitPending>>
      /\ \/ configChanged[t] /\ Snapshot(Work, t, {}) /\ job' = Head(jobs)
         \/ /\ ~configChanged[t] /\ UNCHANGED <<configChanged, save>>
            /\ job' = [Head(jobs) EXCEPT !.synced = TRUE]
  BY <1>1 DEF StartSplit
<1>3. job'.tab = t
  BY <1>1, <1>2, PoppedJob DEF JobSet
<1> QED BY <1>1, <1>2, <1>3, StartBounds

\* The work thread gives up a split.
LEMMA SplitImpossibleBounds == ASSUME IInv, BoundSide, SplitImpossible PROVE BoundSide'
<1>1. /\ job.synced /\ job' = None
      /\ UNCHANGED <<live, minRow, meta, jobs, save, splitPending, configChanged>>
  BY DEF SplitImpossible, tabletVars
<1>2. ~Lull'
  BY <1>1 DEF Lull
<1>3. save[Work].pc = "idle"
  BY <1>1 DEF BoundSide, WorkSaves
<1>4. \A x : /\ Behind(x)' <=> Behind(x)
             /\ SaveQueued(x)' <=> SaveQueued(x)
             /\ SaveRuns(x)' <=> SaveRuns(x)
  BY <1>1 DEF Behind, SaveQueued, SaveRuns
<1>5. BehindOne' /\ BehindSaved' /\ SavedLive' /\ SavesBound'
  BY <1>1, <1>4
  DEF BoundSide, BehindOne, BehindSaved, SavedLive, SavedTablets, SavesBound
<1>6. SplitAlone' /\ SplitsOnce'
  BY <1>1, <1>2 DEF BoundSide, SplitAlone, SplitsOnce
<1>7. WorkSaves'
  BY <1>1, <1>3 DEF BoundSide, WorkSaves
<1> QED BY <1>5, <1>6, <1>7 DEF BoundSide

\* A split: the tablet of the upper rows falls behind, and is queued.
LEMMA SplitTabletBounds ==
    ASSUME IInv, BoundSide, NEW r \in Row, SplitTablet(r)
    PROVE  BoundSide'
<1>1. PICK t : t = job.tab
  OBVIOUS
<1>2. /\ t \in live /\ t \in Row /\ r \notin live /\ live' = live \cup {r}
      /\ minRow'[t] = r /\ minRow'[r] = minRow[t] /\ r # t
      /\ \A x \in Row : x \notin {r, t} => minRow'[x] = minRow[x]
  <2>1. t \in Nat
    BY <1>1, SplitFacts DEF Row
  <2> QED BY <1>1, <2>1, SplitFacts
<1>3. /\ Lull /\ job.synced /\ job' = None
      /\ PostConfigChange(<<t, r>>)
      /\ splitPending' = [splitPending EXCEPT ![t] = FALSE]
      /\ UNCHANGED <<meta, save>>
  BY <1>1 DEF SplitTablet
<1>4. /\ live \subseteq Row /\ splitPending \in [Row -> BOOLEAN]
      /\ Saver = Syncers \cup {Work}
      /\ \A i \in 1..Len(jobs) : jobs[i].tab \in live
  BY BoundTypes
<1>5. /\ Posted /\ Len(jobs') = Len(jobs) + 2 /\ jobs'[Len(jobs) + 1] = SaveJob(t)
      /\ configChanged'[t] /\ \A x \in live : configChanged[x] => configChanged'[x]
  <2>1. \A x \in Row : configChanged'[x] = (configChanged[x] \/ x \in ToSet(<<t, r>>))
    BY <1>3 DEF PostConfigChange
  <2>2. t \in ToSet(<<t, r>>)
    <3>1. \E i \in DOMAIN <<t, r>> : <<t, r>>[i] = t
      <4>1. 1 \in DOMAIN <<t, r>> /\ <<t, r>>[1] = t
        OBVIOUS
      <4> QED BY <4>1
    <3> QED BY <3>1 DEF ToSet
  <2>3. PICK ts : ts = <<t, r>>
    OBVIOUS
  <2>4. ts \in Seq(Row) /\ Len(ts) = 2 /\ ts[1] = t
    BY <1>2, <2>3
  <2>5. jobs' = jobs \o [i \in 1..Len(ts) |-> SaveJob(ts[i])]
    BY <1>3, <2>3 DEF PostConfigChange
  <2>6. /\ Posted /\ Len(jobs') = Len(jobs) + 2
        /\ \A i \in 1..Len(ts) : jobs'[Len(jobs) + i] = SaveJob(ts[i])
    BY <2>4, <2>5, PostedFrom
  <2>7. 1 \in 1..Len(ts)
    BY <2>4
  <2>8. jobs'[Len(jobs) + 1] = SaveJob(t)
    BY <2>4, <2>6, <2>7
  <2> QED BY <1>2, <1>4, <2>1, <2>2, <2>6, <2>8
<1>6. ~Lull' /\ \A s \in Saver : save[s].pc = "idle" /\ save'[s].pc = "idle"
  <2>1. save[Work].pc = "idle" /\ \A s \in Syncers : save[s].pc = "idle"
    BY <1>3 DEF BoundSide, WorkSaves, SplitAlone
  <2> QED BY <1>3, <1>4, <2>1 DEF Lull
<1>7. ~Behind(t) /\ \A x \in live : minRow[x] = t => ~Behind(x)
  BY <1>1, <1>2, <1>3 DEF BoundSide, SplitAlone
<1>8. meta'[r] = None /\ ~Behind(r)'
  BY <1>2, <1>3 DEF BoundSide, SavedLive, SavedTablets, Behind
<1>9. \A x \in live : x # t => (Behind(x)' <=> Behind(x)) /\ minRow'[x] = minRow[x]
  BY <1>2, <1>3, <1>4 DEF Behind
<1>10. BehindOne'
  <2> SUFFICES ASSUME NEW x \in live', Behind(x)'
               PROVE  /\ minRow'[x] \in live' /\ ~Behind(minRow[x])'
                      /\ minRow'[minRow'[x]] = meta'[x].minRow
    BY DEF BehindOne
  <2>1. x # r
    BY <1>8
  <2>2. CASE x = t
    <3>1. ~Behind(minRow[t])'
      BY <1>2, <1>8 DEF Behind
    <3>2. meta[t] # None /\ meta[t].minRow = minRow[t]
      BY <1>3, <1>7, <2>2 DEF Behind
    <3> QED BY <1>2, <1>3, <2>2, <3>1, <3>2
  <2>3. CASE x # t
    <3>1. x \in live /\ Behind(x) /\ minRow'[x] = minRow[x]
      BY <1>2, <1>9, <2>1, <2>3
    <3>2. /\ minRow[x] \in live /\ ~Behind(minRow[x])
          /\ minRow[minRow[x]] = meta[x].minRow
      BY <3>1 DEF BoundSide, BehindOne
    <3>3. minRow[x] # t
      BY <1>7, <3>1
    <3>4. PICK m \in live : m = minRow[x]
      BY <3>2
    <3>5. ~Behind(m)' /\ minRow'[m] = minRow[m]
      BY <1>9, <3>2, <3>3, <3>4
    <3>6. minRow'[x] = m /\ ~Behind(minRow[x])'
      BY <3>1, <3>4, <3>5 DEF Behind
    <3> QED BY <1>2, <1>3, <3>1, <3>2, <3>4, <3>5, <3>6
  <2> QED BY <2>2, <2>3
<1>11. \A i \in 1..Len(jobs) : ~IsSplit(jobs[i], t)
  BY <1>1, <1>2, <1>3 DEF BoundSide, SplitsOnce
<1>12. SaveQueued(t)'
  <2>1. PICK k \in 1..Len(jobs') : k = Len(jobs) + 1
    BY <1>5 DEF Posted
  <2>2. jobs'[k].kind = "save" /\ jobs'[k].tab = t
    BY <1>5, <2>1 DEF SaveJob
  <2>3. ASSUME NEW j \in 1..Len(jobs'), j < k, jobs'[j].kind = "split"
        PROVE  jobs'[j].tab \notin {t, minRow'[t]}
    <3>1. j \in 1..Len(jobs) /\ jobs'[j] = jobs[j]
      BY <1>5, <2>1, <2>3 DEF Posted
    <3> QED BY <1>2, <1>4, <1>11, <2>3, <3>1 DEF IsSplit
  <2> QED BY <2>2, <2>3 DEF SaveQueued
<1>13. BehindSaved'
  <2> SUFFICES ASSUME NEW x \in live', Behind(x)'
               PROVE  configChanged'[x] /\ SaveQueued(x)'
    BY DEF BehindSaved
  <2>1. x # r
    BY <1>8
  <2>2. CASE x = t
    BY <1>5, <1>12, <2>2
  <2>3. CASE x # t
    <3>1. x \in live /\ Behind(x) /\ minRow'[x] = minRow[x]
      BY <1>2, <1>9, <2>1, <2>3
    <3>2. ~SaveRuns(x)
      BY <1>6 DEF SaveRuns
    <3>3. configChanged[x] /\ SaveQueued(x)
      BY <3>1, <3>2 DEF BoundSide, BehindSaved
    <3> QED BY <1>5, <3>1, <3>3, QueuedStays
  <2> QED BY <2>2, <2>3
<1>14. SplitAlone' /\ SavesBound'
  BY <1>6 DEF SplitAlone, SavesBound
<1>15. WorkSaves'
  <2>1. save'[Work].pc = "idle"
    BY <1>4, <1>6
  <2> QED BY <1>5, <2>1 DEF BoundSide, WorkSaves, Posted
<1>16. SplitsOnce'
  <2>1. \A i \in 1..Len(jobs'), x \in Row :
            IsSplit(jobs'[i], x) => i \in 1..Len(jobs) /\ jobs'[i] = jobs[i]
    BY <1>5 DEF Posted, IsSplit
  <2>2. \A x \in Row : x # t => splitPending'[x] = splitPending[x]
    BY <1>3, <1>4
  <2> QED BY <1>6, <1>11, <2>1, <2>2 DEF BoundSide, SplitsOnce
<1>17. SavedLive'
  BY <1>2, <1>3 DEF BoundSide, SavedLive, SavedTablets
<1> QED BY <1>10, <1>13, <1>14, <1>15, <1>16, <1>17 DEF BoundSide

\* The commit thread.
LEMMA CommitBounds ==
    ASSUME IInv, BoundSide, NEW r \in Row, NEW l \in Log, NEW big \in BOOLEAN,
           Commit(r, l, big)
    PROVE  BoundSide'
<1>1. PICK t : t = Owner(r)
  OBVIOUS
<1>2. t \in live
  BY <1>1, OwnerLives DEF IInv
<1>3. /\ \/ PostConfigChange(<<t>>)
         \/ UNCHANGED <<configChanged, jobs>>
      /\ UNCHANGED <<live, minRow, meta, job, save, splitPending>>
  BY <1>1 DEF Commit
<1>4. CASE PostConfigChange(<<t>>)
  BY <1>2, <1>3, <1>4, PostsOne, PostBounds
<1>5. CASE UNCHANGED <<configChanged, jobs>>
  BY <1>3, <1>5, QuietBounds
<1> QED BY <1>3, <1>4, <1>5

\* The tablet that the compact thread has replaced fragments of.
LEMMA CompactedTablet ==
    ASSUME IInv, compPc \in {"mark", "ask"}
    PROVE  compTab \in live
BY DEF IInv, BaseTypes, KnownTablets

\* The steps that post a configuration change or ask for a split.
LEMMA MarkLogDeadBounds == ASSUME IInv, BoundSide, MarkLogDead PROVE BoundSide'
<1>1. PICK t : t = SerTop.tab
  OBVIOUS
<1>2. t \in live /\ PostConfigChange(<<t>>)
  BY <1>1, FrameFacts DEF MarkLogDead
<1>3. UNCHANGED <<live, minRow, meta, job, save, splitPending>>
  BY DEF MarkLogDead
<1> QED BY <1>2, <1>3, PostsOne, PostBounds

LEMMA MarkRunDeadBounds == ASSUME IInv, BoundSide, MarkRunDead PROVE BoundSide'
<1>1. compTab \in live /\ PostConfigChange(<<compTab>>)
  BY CompactedTablet DEF MarkRunDead
<1>2. UNCHANGED <<live, minRow, meta, job, save, splitPending>>
  BY DEF MarkRunDead
<1> QED BY <1>1, <1>2, PostsOne, PostBounds

LEMMA SerializeAskSplitBounds ==
    ASSUME IInv, BoundSide, NEW big \in BOOLEAN, SerializeAskSplit(big)
    PROVE  BoundSide'
<1>1. PICK t : t = SerTop.tab
  OBVIOUS
<1>2. t \in live /\ RequestSplit(t, big)
  BY <1>1, FrameFacts DEF SerializeAskSplit
<1>3. UNCHANGED <<live, minRow, meta, job, save, configChanged>>
  BY DEF SerializeAskSplit
<1> QED BY <1>2, <1>3, AskBounds

LEMMA CompactAskSplitBounds ==
    ASSUME IInv, BoundSide, NEW big \in BOOLEAN, CompactAskSplit(big)
    PROVE  BoundSide'
<1>1. compTab \in live /\ RequestSplit(compTab, big)
  BY CompactedTablet DEF CompactAskSplit
<1>2. UNCHANGED <<live, minRow, meta, job, save, configChanged>>
  BY DEF CompactAskSplit
<1> QED BY <1>1, <1>2, AskBounds

\* The bounds hold at the start, and every step keeps them.
LEMMA InitBounds == ASSUME Init PROVE BoundSide
<1>1. /\ Work \in Saver /\ \A s \in Saver : save[s].pc = "idle"
      /\ jobs = <<>> /\ Len(jobs) = 0 /\ ~Lull /\ live = {NRows} /\ NRows \in Row
      /\ \A t \in Row : minRow[t] = 0
      /\ \A t \in Row : meta[t] # None => t = NRows /\ meta[t].minRow = 0
  BY TabletAssumption DEF Init, Idle, Lull, Saver, Row
<1>2. \A t \in live : ~Behind(t)
  BY <1>1 DEF Behind
<1>3. BehindOne /\ BehindSaved
  BY <1>2 DEF BehindOne, BehindSaved
<1>4. SplitAlone /\ SavesBound /\ SavedLive
  BY <1>1 DEF SplitAlone, SavesBound, SavedLive, SavedTablets
<1>5. \A i : i \notin 1..Len(jobs)
  BY <1>1
<1>6. WorkSaves
  BY <1>1, <1>5 DEF WorkSaves
<1>7. SplitsOnce
  BY <1>1, <1>5 DEF SplitsOnce
<1> QED BY <1>3, <1>4, <1>6, <1>7 DEF BoundSide

LEMMA NextBounds == ASSUME IInv, BoundSide, [Next]_vars PROVE BoundSide'
<1> DEFINE Same == UNCHANGED <<live, minRow, meta, job, jobs, save, splitPending,
                               configChanged>>
<1>1. CASE CommitThread
  <2>1. PushGroup => Same
    BY DEF PushGroup, tabletVars, workVars
  <2> QED BY <1>1, <2>1, CommitBounds, QuietBounds DEF CommitThread
<1>2. CASE SerializeThread
  <2>1. \A d \in Disk : SerializeStart(d) => Same
    BY DEF SerializeStart, tabletVars, workVars
  <2>2. SerializeNext => Same
    BY DEF SerializeNext, tabletVars, workVars
  <2>3. ReplaceLog => Same
    BY DEF ReplaceLog, workVars
  <2>4. ForwardToClone => Same
    BY DEF ForwardToClone, workVars
  <2>5. AddToDag => Same
    BY DEF AddToDag, tabletVars, workVars
  <2>6. SerializeEnd => Same
    BY DEF SerializeEnd, tabletVars, workVars
  <2> QED BY <1>2, <2>1, <2>2, <2>3, <2>4, <2>5, <2>6, QuietBounds, MarkLogDeadBounds,
             SerializeAskSplitBounds DEF SerializeThread
<1>3. CASE CompactThread
  <2>1. \A t \in live : \A i, j \in 1..Len(chain[t]) : CompactStart(t, i, j) => Same
    BY DEF CompactStart, tabletVars, workVars
  <2>2. \A d \in Disk : CompactOutput(d) => Same
    BY DEF CompactOutput, tabletVars, workVars
  <2>3. CompactNothing => Same
    BY DEF CompactNothing, tabletVars, workVars
  <2>4. \A t \in Row : ReplaceRun(t) => Same
    BY DEF ReplaceRun, workVars
  <2>5. CompactEnd => Same
    BY DEF CompactEnd, tabletVars, workVars
  <2> QED BY <1>3, <2>1, <2>2, <2>3, <2>4, <2>5, QuietBounds, MarkRunDeadBounds,
             CompactAskSplitBounds DEF CompactThread
<1>4. ASSUME NEW s \in Saver, SaveStep(s) PROVE BoundSide'
  BY <1>4, WriteConfigBounds, SaveAgainBounds, FinishSaveBounds DEF SaveStep
<1>5. CASE WorkThread
  BY <1>4, <1>5, StartSaveBounds, StartSplitBounds, SplitImpossibleBounds,
     SplitTabletBounds DEF WorkThread, Saver
<1>6. ASSUME NEW s \in Syncers, ApiThread(s) PROVE BoundSide'
  BY <1>4, <1>6, SyncBounds DEF ApiThread, Saver
<1>7. CASE UNCHANGED vars
  <2>1. Same
    BY <1>7 DEF vars, tabletVars, workVars
  <2> QED BY <2>1, QuietBounds
<1> QED BY <1>1, <1>2, <1>3, <1>5, <1>6, <1>7 DEF Next

\* How far META is behind the tablets' lower bounds holds in every reachable
\* state.
THEOREM BoundInvariant == Spec => [](IInv /\ BoundSide)
<1>1. Init => IInv /\ BoundSide
  BY InitInv, InitBounds
<1>2. IInv /\ BoundSide /\ [Next]_vars => IInv' /\ BoundSide'
  BY NextInv, NextBounds
<1> QED BY <1>1, <1>2, PTL DEF Spec

\* A bounded set of numbers has a greatest element.
LEMMA GreatestBelow ==
    ASSUME NEW S \in SUBSET Nat, S # {}, NEW b \in Nat, \A m \in S : m <= b
    PROVE  Max(S) \in S /\ \A m \in S : m <= Max(S)
<1> DEFINE B == {n \in Nat : \A m \in S : m <= n}
<1>1. B \in SUBSET Nat /\ B # {}
  OBVIOUS
<1>2. PICK n \in B : \A k \in B : n <= k
  <2> HIDE DEF B
  <2> QED BY <1>1, LeastNat
<1>3. n \in Nat /\ \A m \in S : m <= n
  BY <1>2
<1>4. n \in S
  <2> SUFFICES ASSUME n \notin S PROVE FALSE
    OBVIOUS
  <2>1. \A m \in S : m \in Nat /\ m < n
    BY <1>3
  <2>2. n - 1 \in Nat
    <3>1. PICK m \in S : m \in Nat /\ m < n
      BY <2>1
    <3> QED BY <1>3, <3>1
  <2>3. \A m \in S : m <= n - 1
    BY <1>3, <2>1
  <2>4. n - 1 \in B
    BY <2>2, <2>3
  <2>5. n <= n - 1
    BY <1>2, <2>4
  <2> QED BY <1>3, <2>5
<1>5. \E x \in S : \A y \in S : x >= y
  BY <1>3, <1>4
<1>6. Max(S) \in S /\ \A y \in S : Max(S) >= y
  BY <1>5 DEF Max
<1> QED BY <1>6

\* The META row before t's.
LEMMA PrevRowFacts ==
    ASSUME IInv, NEW t \in Row
    PROVE  /\ PrevRow(t) = 0 \/ (PrevRow(t) \in SavedTablets /\ PrevRow(t) < t)
           /\ \A u \in SavedTablets : u < t => u <= PrevRow(t)
<1> DEFINE S == {0} \cup {u \in SavedTablets : u < t}
<1>1. S \in SUBSET Nat /\ S # {} /\ t \in Nat /\ \A m \in S : m <= t
  BY DEF SavedTablets, Row
<1>2. PrevRow(t) = Max(S)
  BY DEF PrevRow
<1>3. Max(S) \in S /\ \A m \in S : m <= Max(S)
  <2> HIDE DEF S
  <2> QED BY <1>1, GreatestBelow
<1> QED BY <1>2, <1>3

\* The rows of a tablet are below those of a later one.
LEMMA TabletsApart ==
    ASSUME IInv, NEW t \in live, NEW u \in live, u < t
    PROVE  u <= minRow[t]
<1>1. /\ t \in Row /\ u \in Row /\ t \in Nat /\ u \in Nat
      /\ minRow[t] \in Nat /\ minRow[u] \in Nat
  BY TabletAssumption DEF IInv, BaseTypes, Row
<1>2. minRow[u] < u
  BY DEF IInv, TabletsPartitionRows
<1>3. u \in Rows(u)
  BY <1>1, <1>2 DEF Rows
<1>4. u \notin Rows(t)
  BY <1>1, <1>3 DEF IInv, TabletsPartitionRows
<1> QED BY <1>1, <1>4 DEF Rows

\* A crash between a split and the save of either half leaves META with an
\* overlap that loadTabletConfigs() can correct, however far the work queue
\* and the API threads have got.
THEOREM Repairable == Spec => []MetaIsRepairable
<1>1. IInv /\ BoundSide => MetaIsRepairable
  <2> SUFFICES ASSUME IInv, BoundSide, NEW t \in SavedTablets,
                      meta[t].minRow < PrevRow(t)
               PROVE  meta[t].minRow = meta[PrevRow(t)].minRow
    BY DEF MetaIsRepairable
  <2>1. /\ t \in live /\ t \in Row /\ t \in Nat /\ meta[t] # None
        /\ meta[t].minRow \in Nat /\ minRow[t] \in Nat
    <3>1. t \in live /\ t \in Row /\ meta[t] \in ConfigSet /\ meta[t] # None
      BY BoundTypes DEF SavedTablets, BoundSide, SavedLive
    <3>2. minRow[t] \in Nat /\ meta[t].minRow \in Nat /\ t \in Nat
      BY <3>1, BoundTypes, TabletAssumption DEF ConfigSet, Row
    <3> QED BY <3>1, <3>2
  <2>2. PICK p : p = PrevRow(t)
    OBVIOUS
  <2>3. p \in SavedTablets /\ p < t /\ \A u \in SavedTablets : u < t => u <= p
    BY <2>1, <2>2, PrevRowFacts
  <2>4. p \in live /\ p \in Row /\ p \in Nat /\ meta[p] # None
    BY <2>3 DEF SavedTablets, BoundSide, SavedLive, Row
  <2>5. p <= minRow[t]
    BY <2>1, <2>3, <2>4, TabletsApart
  <2>6. Behind(t)
    BY <2>1, <2>2, <2>4, <2>5 DEF Behind
  <2>7. PICK u \in live : u = minRow[t]
    BY <2>1, <2>6 DEF BoundSide, BehindOne
  <2>8. ~Behind(u) /\ minRow[u] = meta[t].minRow
    BY <2>1, <2>6, <2>7 DEF BoundSide, BehindOne
  <2>9. p = u
    <3>1. u \in Nat /\ (p < u => p <= minRow[u])
      BY <2>1, <2>4, <2>7, TabletsApart
    <3> QED BY <2>1, <2>2, <2>4, <2>5, <2>7, <2>8, <3>1
  <2> QED BY <2>2, <2>4, <2>8, <2>9 DEF Behind
<1> QED BY <1>1, BoundInvariant, PTL

-----------------------------------------------------------------------------
(* The files of the configurations in META.                                *)

\* No fragments of t have been swapped, or dropped from a dead list, that the
\* next configuration would not show.
Settled(t) == ~configChanged[t] /\ ~LogSwapped(t) /\ ~RunSwapped(t)

\* The files of the configuration c of t are in use, or were loaded.
Names(t, c) == \A f \in ToSet(c.uris) : f \in InitFiles \/ Uses(t, f)

\* In the rows of the configuration c of t are the data loaded with the table.
LoadedIn(t, c) ==
    \A f \in InitFiles : \A w \in content[f] :
        c.minRow < w[1] /\ w[1] <= t => \E g \in ToSet(c.uris) : w \in content[g]

\* What a configuration c of t is from its snapshot on: it names files in use,
\* and it is the latest one for as long as t is settled.
Follows(t, c) ==
    /\ Names(t, c) /\ LoadedIn(t, c)
    /\ ~configChanged[t] => ToSet(c.uris) \cap deadFiles[t] \subseteq InitFiles
    /\ Settled(t) => c = Config(t)

\* Thread s is in saveConfig() for t; but for a race it is there alone.
Saves(s, t) == save[s].pc # "idle" /\ save[s].tab = t
Solo ==
    \A t \in Row : race[t] # "raced" =>
        \A s, u \in Saver : Saves(s, t) /\ Saves(u, t) => s = u

\* The configurations that are being saved.
SavingUsed ==
    \A s \in Saver, t \in live : Saves(s, t) /\ race[t] # "raced" =>
        /\ Follows(t, save[s].cfg)
        /\ save[s].pc = "saved" => meta[t] = save[s].cfg

\* The configurations in META.
SavedUsed ==
    \A t \in SavedTablets :
        race[t] = "none" => Names(t, meta[t]) /\ LoadedIn(t, meta[t])

SavedNow ==
    \A t \in live : race[t] = "none" /\ Settled(t) =>
        (\E s \in Saver : Saves(s, t)) \/ meta[t] = Config(t)

\* The loaded fragments are as they were.
LoadedContent == \A f \in InitFiles : Row \X {f} \subseteq content[f]

MetaSide == /\ LoadedContent /\ RaceTypes /\ Solo
            /\ SavingUsed /\ SavedUsed /\ SavedNow

\* What the steps outside saveConfig() leave to it: files stay in use with what
\* is in them, and what changes in a tablet is noted.
FilesStay ==
    /\ \A f \in made : content[f] \subseteq content'[f]
    /\ \A f \in InitFiles : content'[f] = content[f]
    /\ \A t \in live : \A f : f \notin InitFiles /\ Uses(t, f) => Uses(t, f)'
ChangesNoted ==
    /\ live \subseteq live' /\ \A t \in live' : t \in live \/ configChanged'[t]
    /\ \A t \in live :
           /\ ~configChanged'[t] => ~configChanged[t] /\ deadFiles'[t] \subseteq deadFiles[t]
           /\ Settled(t)' => Settled(t) /\ Config(t)' = Config(t)

\* A file in use was created by this server or loaded.
LEMMA NamesMade ==
    ASSUME IInv, LogSide, RefSide, NEW t \in live, NEW c, Names(t, c)
    PROVE  ToSet(c.uris) \subseteq made
<1> SUFFICES ASSUME NEW f \in ToSet(c.uris) PROVE f \in made
  OBVIOUS
<1>1. t \in Row /\ InitFiles \subseteq made /\ serStack \in Seq(FrameSet(live))
  BY RefTypes DEF RefSide, LoadedKept
<1>2. LogSwapped(t) => serLog \in made
  <2>1. LogSwapped(t) => serStack # <<>>
    BY DEF LogSwapped
  <2>2. serStack # <<>> => serLog \in Log
    BY FrameFacts
  <2>3. serLog \in Log => serLog \in made
    BY RefTypes, RunTypes DEF LogSide, LogsApart, Undone
  <2> QED BY <2>1, <2>2, <2>3
<1>3. /\ ToSet(chain[t]) \subseteq made /\ deadFiles[t] \subseteq made
      /\ ToSet(compRun) \subseteq made
  BY <1>1 DEF RefSide, UsedMade
<1> QED BY <1>1, <1>2, <1>3 DEF Names, Uses, Swapped

\* A configuration has the loaded data while its files stay.
LEMMA LoadedStays ==
    ASSUME IInv, LogSide, RefSide, FilesStay, NEW t \in live, NEW c, Names(t, c)
    PROVE  /\ Names(t, c)'
           /\ LoadedIn(t, c) => LoadedIn(t, c)'
<1>1. ToSet(c.uris) \subseteq made
  BY NamesMade
<1>2. \A f \in ToSet(c.uris) : f \in InitFiles \/ Uses(t, f)'
  BY DEF Names, FilesStay
<1>3. ASSUME LoadedIn(t, c), NEW f \in InitFiles, NEW w \in content'[f],
             c.minRow < w[1], w[1] <= t
      PROVE  \E g \in ToSet(c.uris) : w \in content'[g]
  <2>1. w \in content[f]
    BY <1>3 DEF FilesStay
  <2>2. PICK g \in ToSet(c.uris) : w \in content[g]
    BY <1>3, <2>1 DEF LoadedIn
  <2> QED BY <1>1, <2>2 DEF FilesStay
<1> QED BY <1>2, <1>3 DEF Names, LoadedIn

\* Saved tablets exist.
LEMMA SavedFacts ==
    ASSUME IInv, BoundSide
    PROVE  /\ \A t \in SavedTablets : t \in live
           /\ \A s \in Saver : save[s].pc # "idle" => save[s].tab \in live
           /\ Work \in Saver /\ live \subseteq Row
BY BoundTypes DEF BoundSide, SavedLive, SavesBound

\* A configuration goes on following its tablet.
LEMMA FollowsStays ==
    ASSUME IInv, LogSide, RefSide, FilesStay, ChangesNoted, NEW t \in live, NEW c,
           Follows(t, c)
    PROVE  Follows(t, c)'
<1>1. Names(t, c)' /\ LoadedIn(t, c)'
  BY LoadedStays DEF Follows
<1>2. /\ ~configChanged'[t] => ~configChanged[t] /\ deadFiles'[t] \subseteq deadFiles[t]
      /\ Settled(t)' => Settled(t) /\ Config(t)' = Config(t)
  BY DEF ChangesNoted
<1>3. /\ ~configChanged'[t] => ToSet(c.uris) \cap deadFiles'[t] \subseteq InitFiles
      /\ Settled(t)' => c = Config(t)'
  BY <1>2 DEF Follows
<1> QED BY <1>1, <1>3 DEF Follows

\* The steps outside saveConfig().
LEMMA SteadyMeta ==
    ASSUME IInv, LogSide, RefSide, BoundSide, MetaSide, UNCHANGED <<meta, save, race>>,
           FilesStay, ChangesNoted
    PROVE  MetaSide'
<1>1. SavedUsed'
  <2> SUFFICES ASSUME NEW t \in SavedTablets, race[t] = "none"
               PROVE  Names(t, meta[t])' /\ LoadedIn(t, meta[t])'
    BY DEF SavedUsed, SavedTablets
  <2>1. PICK c : c = meta[t]
    OBVIOUS
  <2>2. t \in live /\ Names(t, c) /\ LoadedIn(t, c)
    BY <2>1, SavedFacts DEF MetaSide, SavedUsed
  <2>3. Names(t, c)' /\ LoadedIn(t, c)'
    BY <2>2, LoadedStays
  <2> QED BY <2>1, <2>3
<1>2. SavingUsed'
  <2> SUFFICES ASSUME NEW s \in Saver, NEW t \in live', Saves(s, t), race[t] # "raced"
               PROVE  /\ Follows(t, save[s].cfg)'
                      /\ save[s].pc = "saved" => meta[t] = save[s].cfg
    BY DEF SavingUsed, Saves
  <2>1. PICK c : c = save[s].cfg
    OBVIOUS
  <2>2. t \in live
    BY SavedFacts DEF Saves
  <2>3. Follows(t, c) /\ (save[s].pc = "saved" => meta[t] = c)
    BY <2>1, <2>2 DEF MetaSide, SavingUsed
  <2>4. Follows(t, c)'
    BY <2>2, <2>3, FollowsStays
  <2> QED BY <2>1, <2>3, <2>4
<1>3. SavedNow'
  <2> SUFFICES ASSUME NEW t \in live', race[t] = "none", Settled(t)'
               PROVE  (\E s \in Saver : Saves(s, t)) \/ meta[t] = Config(t)'
    BY DEF SavedNow, Saves
  <2>1. t \in live /\ Settled(t) /\ Config(t)' = Config(t)
    BY DEF ChangesNoted, Settled
  <2> QED BY <2>1 DEF MetaSide, SavedNow
<1>4. LoadedContent' /\ RaceTypes' /\ Solo'
  BY DEF MetaSide, LoadedContent, FilesStay, RaceTypes, Solo, Saves
<1> QED BY <1>1, <1>2, <1>3, <1>4 DEF MetaSide

\* The steps that change no fragment.
LEMMA QuietFiles ==
    ASSUME IInv, LogSide, UNCHANGED <<live, minRow, chain, deadFiles, configChanged>>,
           \A f \in made : content[f] \subseteq content'[f],
           \A f \in InitFiles : content'[f] = content[f],
           \/ UNCHANGED <<serStack, serLog>>
           \/ serStack = <<>>
           \/ SerTop.pc # "mark",
           compPc # "mark" \/ UNCHANGED <<compPc, compTab, compRun>>
    PROVE  FilesStay /\ ChangesNoted
<1>1. \A t : LogSwapped(t) => LogSwapped(t)' /\ serLog' = serLog
  <2>1. serStack \in Seq(FrameSet(live)) /\ \A i \in 2..Len(serStack) : serStack[i].pc = "dag"
    BY RefTypes DEF LogSide, StackForwarded
  <2>2. \A t : LogSwapped(t) => serStack # <<>> /\ SerTop.pc = "mark"
    BY <2>1, TopMark DEF LogSwapped, SerTop
  <2> QED BY <2>2 DEF LogSwapped
<1>2. \A t : RunSwapped(t) => RunSwapped(t)' /\ compRun' = compRun
  BY DEF RunSwapped
<1>3. \A t \in live : \A f : Uses(t, f) => Uses(t, f)'
  BY <1>1, <1>2 DEF Uses, Swapped
<1>4. \A t \in live : Settled(t)' => Settled(t) /\ Config(t)' = Config(t)
  BY <1>1, <1>2 DEF Settled, Config
<1> QED BY <1>3, <1>4 DEF FilesStay, ChangesNoted

\* saveConfig() takes a snapshot.
LEMMA SnapshotMeta ==
    ASSUME IInv, LogSide, RefSide, DataSide, BoundSide, MetaSide, NEW p \in Saver,
           NEW t \in live, NEW covers, Snapshot(p, t, covers),
           save[p].pc # "idle" => save[p].tab = t,
           UNCHANGED <<content, live, minRow, chain, deadFiles, meta, serStack, serLog,
                       compPc, compTab, compRun>>
    PROVE  MetaSide'
<1>0. PICK c : c = Config(t)
  OBVIOUS
<1> DEFINE sv == [pc |-> "saving", tab |-> t, cfg |-> c, covers |-> covers]
<1>1. /\ configChanged' = [configChanged EXCEPT ![t] = FALSE]
      /\ save' = [save EXCEPT ![p] = sv]
      /\ race' = [race EXCEPT ![t] = RaceAt(p, t)]
      /\ configChanged \in [Row -> BOOLEAN] /\ live \subseteq Row /\ t \in Row
      /\ save \in [Saver -> SaveSet \cup {Idle}]
      /\ race \in [Row -> {"none", "raced", "mending"}]
  BY <1>0, BoundTypes DEF Snapshot, MetaSide, RaceTypes
<1>2. save'[p] = sv /\ sv.pc = "saving" /\ sv.tab = t /\ sv.cfg = c
  BY <1>1
<1>3. /\ \A x \in Row : x # t => configChanged'[x] = configChanged[x] /\ race'[x] = race[x]
      /\ \A u \in Saver : u # p => save'[u] = save[u]
      /\ race'[t] = RaceAt(p, t)
  BY <1>1
<1> HIDE DEF sv
<1>4. \A x : /\ LogSwapped(x)' <=> LogSwapped(x)
             /\ RunSwapped(x)' <=> RunSwapped(x)
             /\ \A f : Uses(x, f)' <=> Uses(x, f)
             /\ Config(x)' = Config(x)
             /\ \A k : (Names(x, k)' <=> Names(x, k)) /\ (LoadedIn(x, k)' <=> LoadedIn(x, k))
  BY DEF LogSwapped, RunSwapped, Uses, Swapped, Config, Names, LoadedIn
<1>5. c.minRow = minRow[t] /\ c.uris = chain[t] /\ c = Config(t)
  BY <1>0 DEF Config
\* If race[t] is not "raced" afterwards, p is alone in saveConfig() for t.
<1>6. race'[t] # "raced" => \A u \in Saver : u # p => ~Saves(u, t)
  BY <1>3 DEF RaceAt, Overlaps, Saves
<1>7. Names(t, c)
  BY <1>5 DEF Names, Uses
<1>8. LoadedIn(t, c)
  <2> SUFFICES ASSUME NEW f \in InitFiles, NEW w \in content[f], minRow[t] < w[1], w[1] <= t
               PROVE  \E g \in ToSet(chain[t]) : w \in content[g]
    BY <1>5 DEF LoadedIn
  <2>1. f \in Source /\ f \in Frag
    BY DataTypes DEF Source
  <2>2. w \in Write
    BY <2>1, DataTypes
  <2>3. w[1] \in Nat /\ t \in Nat /\ minRow[t] \in Nat
    BY <1>1, <2>2, BoundTypes, TabletAssumption DEF Write, Row
  <2>4. w[1] \in Rows(t)
    BY <2>3 DEF Rows
  <2> QED BY <2>1, <2>4 DEF DataSide, Stored, Has
<1>9. ToSet(c.uris) \cap deadFiles[t] \subseteq InitFiles
  <2> SUFFICES ASSUME NEW f \in ToSet(chain[t]), f \in deadFiles[t], f \notin InitFiles
               PROVE  FALSE
    BY <1>5
  <2>1. f \in made
    BY <1>1 DEF RefSide, UsedMade
  <2> QED BY <2>1 DEF RefSide, UsedOnce
<1>10. Follows(t, c)'
  BY <1>4, <1>5, <1>7, <1>8, <1>9 DEF Follows
<1>11. \A x \in live : x # t =>
           /\ \A k : Follows(x, k)' <=> Follows(x, k)
           /\ \A u \in Saver : Saves(u, x)' <=> Saves(u, x) /\ u # p
           /\ Settled(x)' <=> Settled(x)
  <2> SUFFICES ASSUME NEW x \in live, x # t
               PROVE  /\ \A k : Follows(x, k)' <=> Follows(x, k)
                      /\ \A u \in Saver : Saves(u, x)' <=> Saves(u, x) /\ u # p
                      /\ Settled(x)' <=> Settled(x)
    OBVIOUS
  <2>1. configChanged'[x] = configChanged[x] /\ deadFiles'[x] = deadFiles[x]
    BY <1>1, <1>3
  <2>2. Settled(x)' <=> Settled(x)
    BY <1>4, <2>1 DEF Settled
  <2>3. \A k : Follows(x, k)' <=> Follows(x, k)
    BY <1>4, <2>1, <2>2 DEF Follows
  <2>4. ~Saves(p, x) /\ ~Saves(p, x)'
    BY <1>2 DEF Saves
  <2>5. \A u \in Saver : u # p => (Saves(u, x)' <=> Saves(u, x))
    BY <1>3 DEF Saves
  <2> QED BY <2>2, <2>3, <2>4, <2>5
<1>12. \A u \in Saver : Saves(u, t)' <=> Saves(u, t) \/ u = p
  BY <1>2, <1>3 DEF Saves
<1>13. SavingUsed'
  <2> SUFFICES ASSUME NEW u \in Saver, NEW x \in live, Saves(u, x)', race'[x] # "raced"
               PROVE  /\ Follows(x, save[u].cfg)'
                      /\ save'[u].pc = "saved" => meta[x] = save'[u].cfg
    BY DEF SavingUsed
  <2>1. CASE x = t
    <3>1. u = p
      BY <1>6, <1>12, <2>1
    <3>2. save'[u].cfg = c /\ save'[u].pc = "saving"
      BY <1>2, <3>1
    <3>3. Follows(t, save[u].cfg)'
      BY <1>10, <3>2 DEF Follows, Names, LoadedIn, Uses, Swapped, Settled, LogSwapped,
                         RunSwapped, Config
    <3> QED BY <2>1, <3>2, <3>3
  <2>2. CASE x # t
    <3>1. Saves(u, x) /\ u # p /\ race[x] # "raced"
      BY <1>1, <1>3, <1>11, <2>2
    <3>2. Follows(x, save[u].cfg) /\ (save[u].pc = "saved" => meta[x] = save[u].cfg)
      BY <3>1 DEF MetaSide, SavingUsed
    <3>3. PICK k : k = save[u].cfg
      OBVIOUS
    <3>4. Follows(x, k)' /\ save'[u] = save[u]
      BY <1>3, <1>11, <2>2, <3>1, <3>2, <3>3
    <3> QED BY <3>2, <3>3, <3>4
  <2> QED BY <2>1, <2>2
<1>14. SavedUsed'
  <2> SUFFICES ASSUME NEW x \in Row, meta[x] # None, race'[x] = "none"
               PROVE  Names(x, meta[x])' /\ LoadedIn(x, meta[x])'
    BY DEF SavedUsed, SavedTablets
  <2>1. race[x] = "none"
    BY <1>3 DEF RaceAt
  <2> QED BY <1>4, <2>1 DEF MetaSide, SavedUsed, SavedTablets
<1>15. SavedNow'
  <2> SUFFICES ASSUME NEW x \in live, Settled(x)', race'[x] = "none"
               PROVE  (\E u \in Saver : Saves(u, x)') \/ meta[x] = Config(x)
    BY <1>4 DEF SavedNow
  <2>1. CASE x = t
    BY <1>12, <2>1
  <2>2. CASE x # t
    <3>1. Settled(x) /\ race[x] = "none"
      BY <1>1, <1>3, <1>11, <2>2
    <3>2. (\E u \in Saver : Saves(u, x)) \/ meta[x] = Config(x)
      BY <3>1 DEF MetaSide, SavedNow
    <3>3. ASSUME NEW u \in Saver, Saves(u, x) PROVE Saves(u, x)'
      <4>1. u # p
        BY <1>2, <1>11, <2>2, <3>3 DEF Saves
      <4> QED BY <1>3, <3>3, <4>1 DEF Saves
    <3> QED BY <3>2, <3>3
  <2> QED BY <2>1, <2>2
<1>16. Solo'
  <2> SUFFICES ASSUME NEW x \in Row, race'[x] # "raced", NEW u \in Saver, NEW v \in Saver,
                      Saves(u, x)', Saves(v, x)'
               PROVE  u = v
    BY DEF Solo
  <2>1. CASE x = t
    BY <1>6, <1>12, <2>1
  <2>2. CASE x # t
    <3>1. race[x] # "raced" /\ Saves(u, x) /\ Saves(v, x)
      BY <1>2, <1>3, <2>2 DEF Saves
    <3> QED BY <3>1 DEF MetaSide, Solo
  <2> QED BY <2>1, <2>2
<1>17. LoadedContent' /\ RaceTypes'
  BY <1>1 DEF MetaSide, LoadedContent, RaceTypes, RaceAt
<1> QED BY <1>13, <1>14, <1>15, <1>16, <1>17 DEF MetaSide

\* setTabletConfig() returns.
LEMMA WriteConfigMeta ==
    ASSUME IInv, BoundSide, MetaSide, NEW p \in Saver, WriteConfig(p)
    PROVE  MetaSide'
<1>1. PICK t : t = save[p].tab
  OBVIOUS
<1>2. PICK c : c = save[p].cfg
  OBVIOUS
<1>3. /\ save[p].pc = "saving"
      /\ meta' = [meta EXCEPT ![t] = c] /\ save' = [save EXCEPT ![p].pc = "saved"]
      /\ race' = [race EXCEPT ![t] = IF @ = "mending" THEN "none" ELSE @]
      /\ UNCHANGED <<content, live, minRow, chain, deadFiles, configChanged, serStack,
                     serLog, compPc, compTab, compRun>>
  BY <1>1, <1>2 DEF WriteConfig, trackerVars, tabletVars, serVars, compVars
<1>4. /\ meta \in [Row -> ConfigSet \cup {None}] /\ live \subseteq Row /\ t \in live
      /\ save \in [Saver -> SaveSet \cup {Idle}] /\ save[p] \in SaveSet
      /\ race \in [Row -> {"none", "raced", "mending"}]
  BY <1>1, <1>3, BoundTypes, SaveFacts, SavedFacts DEF IInv, MetaSide, RaceTypes
<1>5. /\ meta'[t] = c /\ \A x \in Row : x # t => meta'[x] = meta[x] /\ race'[x] = race[x]
      /\ save'[p].pc = "saved" /\ save'[p].tab = t /\ save'[p].cfg = c
      /\ \A u \in Saver : u # p => save'[u] = save[u]
      /\ race'[t] # "raced" <=> race[t] # "raced"
  BY <1>1, <1>2, <1>3, <1>4 DEF SaveSet
<1>6. \A x : /\ Settled(x)' <=> Settled(x)
             /\ Config(x)' = Config(x)
             /\ \A u \in Saver : Saves(u, x)' <=> Saves(u, x)
             /\ \A k : /\ Follows(x, k)' <=> Follows(x, k)
                       /\ Names(x, k)' <=> Names(x, k)
                       /\ LoadedIn(x, k)' <=> LoadedIn(x, k)
  BY <1>1, <1>3, <1>5
  DEF Settled, LogSwapped, RunSwapped, Uses, Swapped, Config, Names, LoadedIn, Follows, Saves
<1>7. Saves(p, t) /\ t \in Row
  BY <1>1, <1>3, <1>4 DEF Saves
<1>8. race[t] # "raced" => Follows(t, c)
  BY <1>2, <1>4, <1>7 DEF MetaSide, SavingUsed
<1>9. race[t] # "raced" => \A u \in Saver : Saves(u, t) => u = p
  BY <1>7 DEF MetaSide, Solo
<1>10. SavingUsed'
  <2> SUFFICES ASSUME NEW u \in Saver, NEW x \in live, Saves(u, x), race'[x] # "raced"
               PROVE  /\ Follows(x, save'[u].cfg)
                      /\ save'[u].pc = "saved" => meta'[x] = save'[u].cfg
    <3>1. \A u \in Saver : \A x : Follows(x, save[u].cfg)' <=> Follows(x, save'[u].cfg)
      <4> SUFFICES ASSUME NEW u \in Saver, NEW x
                   PROVE  Follows(x, save[u].cfg)' <=> Follows(x, save'[u].cfg)
        OBVIOUS
      <4>1. PICK k : k = save'[u].cfg
        OBVIOUS
      <4>2. Follows(x, k)' <=> Follows(x, k)
        BY <1>6
      <4> QED BY <1>3, <4>1 DEF Settled, LogSwapped, RunSwapped, Uses, Swapped, Config, Names,
                             LoadedIn, Follows
    <3> QED BY <1>3, <1>6, <3>1 DEF SavingUsed
  <2>1. CASE x = t
    BY <1>5, <1>8, <1>9, <2>1
  <2>2. CASE x # t
    <3>1. u # p /\ race[x] # "raced" /\ x \in Row
      BY <1>1, <1>4, <1>5, <2>2 DEF Saves
    <3> QED BY <1>5, <2>2, <3>1 DEF MetaSide, SavingUsed
  <2> QED BY <2>1, <2>2
<1>11. SavedUsed'
  <2> SUFFICES ASSUME NEW x \in Row, meta'[x] # None, race'[x] = "none"
               PROVE  Names(x, meta'[x]) /\ LoadedIn(x, meta'[x])
    BY <1>3, <1>6 DEF SavedUsed, SavedTablets, Names, LoadedIn, Uses, Swapped, LogSwapped,
                      RunSwapped
  <2>1. CASE x = t
    BY <1>5, <1>8, <2>1 DEF Follows
  <2>2. CASE x # t
    BY <1>5, <2>2 DEF MetaSide, SavedUsed, SavedTablets
  <2> QED BY <2>1, <2>2
<1>12. SavedNow'
  <2> SUFFICES ASSUME NEW x \in live, Settled(x), race'[x] = "none"
               PROVE  (\E u \in Saver : Saves(u, x)) \/ meta'[x] = Config(x)
    BY <1>3, <1>6 DEF SavedNow
  <2>1. CASE x = t
    BY <1>7, <2>1
  <2>2. CASE x # t
    BY <1>4, <1>5, <2>2 DEF MetaSide, SavedNow
  <2> QED BY <2>1, <2>2
<1>13. Solo'
  <2> SUFFICES ASSUME NEW x \in Row, race'[x] # "raced", NEW u \in Saver, NEW v \in Saver,
                      Saves(u, x), Saves(v, x)
               PROVE  u = v
    BY <1>6 DEF Solo
  <2>1. race[x] # "raced"
    BY <1>5
  <2> QED BY <2>1 DEF MetaSide, Solo
<1>14. LoadedContent' /\ RaceTypes'
  BY <1>3, <1>4 DEF MetaSide, LoadedContent, RaceTypes
<1> QED BY <1>10, <1>11, <1>12, <1>13, <1>14 DEF MetaSide

\* saveConfig() ends, and lets go of the dead files.
LEMMA FinishSaveMeta ==
    ASSUME IInv, LogSide, RefSide, BoundSide, MetaSide, NEW p \in Saver, FinishSave(p)
    PROVE  MetaSide'
<1>1. PICK t : t = save[p].tab
  OBVIOUS
<1>2. PICK c : c = save[p].cfg
  OBVIOUS
<1>3. /\ save[p].pc = "saved" /\ ~configChanged[t]
      /\ deadFiles' = [deadFiles EXCEPT ![t] = {}] /\ save' = [save EXCEPT ![p] = Idle]
      /\ UNCHANGED <<content, live, minRow, chain, meta, configChanged, race, serStack,
                     serLog, compPc, compTab, compRun>>
  BY <1>1 DEF FinishSave, MustSaveAgain, DeadAfterRelease, serVars, compVars
<1>4. /\ live \subseteq Row /\ t \in live /\ deadFiles \in [Row -> SUBSET Frag]
      /\ save \in [Saver -> SaveSet \cup {Idle}]
  BY <1>1, <1>3, BoundTypes, RefTypes, SavedFacts
<1>5. /\ \A x \in Row : x # t => deadFiles'[x] = deadFiles[x]
      /\ save'[p].pc = "idle" /\ \A u \in Saver : u # p => save'[u] = save[u]
  BY <1>3, <1>4 DEF Idle
<1>6. \A x : \A u \in Saver : Saves(u, x)' <=> Saves(u, x) /\ u # p
  BY <1>5 DEF Saves
<1>7. Saves(p, t) /\ t \in Row
  BY <1>1, <1>3, <1>4 DEF Saves
<1>8. race[t] # "raced" => Follows(t, c) /\ meta[t] = c
  BY <1>2, <1>3, <1>4, <1>7 DEF MetaSide, SavingUsed
<1>9. race[t] # "raced" => \A u \in Saver : Saves(u, t) => u = p
  BY <1>7 DEF MetaSide, Solo
<1>10. \A x : /\ Settled(x)' <=> Settled(x)
              /\ Config(x)' = Config(x)
              /\ \A f : Swapped(x, f)' <=> Swapped(x, f)
              /\ \A k : LoadedIn(x, k)' <=> LoadedIn(x, k)
  BY <1>3 DEF Settled, LogSwapped, RunSwapped, Swapped, Config, LoadedIn
<1>11. \A x \in Row : x # t => \A k : Names(x, k) => Names(x, k)'
  BY <1>3, <1>5, <1>10 DEF Names, Uses
<1>12. \A x \in Row : x # t => \A k : Follows(x, k) => Follows(x, k)'
  BY <1>3, <1>5, <1>10, <1>11 DEF Follows
<1>13. race[t] # "raced" => Names(t, c)'
  BY <1>3, <1>8, <1>10 DEF Names, Uses, Follows
<1>14. SavingUsed'
  <2> SUFFICES ASSUME NEW u \in Saver, NEW x \in live, Saves(u, x), u # p, race[x] # "raced"
               PROVE  /\ Follows(x, save[u].cfg)'
                      /\ save'[u].pc = "saved" => meta[x] = save'[u].cfg
    BY <1>3, <1>6 DEF SavingUsed
  <2>1. x # t /\ x \in Row
    BY <1>4, <1>9
  <2>2. PICK k : k = save[u].cfg
    OBVIOUS
  <2>3. Follows(x, k) /\ (save[u].pc = "saved" => meta[x] = k)
    BY <2>2 DEF MetaSide, SavingUsed
  <2>4. Follows(x, k)'
    BY <1>12, <2>1, <2>3
  <2> QED BY <1>5, <2>2, <2>3, <2>4
<1>15. SavedUsed'
  <2> SUFFICES ASSUME NEW x \in SavedTablets, race[x] = "none"
               PROVE  Names(x, meta[x])' /\ LoadedIn(x, meta[x])'
    BY <1>3 DEF SavedUsed, SavedTablets
  <2>1. PICK k : k = meta[x]
    OBVIOUS
  <2>2. x \in Row /\ Names(x, k) /\ LoadedIn(x, k)
    BY <2>1 DEF MetaSide, SavedUsed, SavedTablets
  <2>3. Names(x, k)' /\ LoadedIn(x, k)'
    BY <1>8, <1>10, <1>11, <1>13, <2>1, <2>2
  <2> QED BY <1>3, <2>1, <2>3
<1>16. SavedNow'
  <2> SUFFICES ASSUME NEW x \in live, Settled(x), race[x] = "none"
               PROVE  (\E u \in Saver : Saves(u, x) /\ u # p) \/ meta[x] = Config(x)
    BY <1>3, <1>6, <1>10 DEF SavedNow
  <2>1. CASE x = t
    BY <1>8, <2>1 DEF Follows
  <2>2. CASE x # t
    BY <1>1, <2>2 DEF MetaSide, SavedNow, Saves
  <2> QED BY <2>1, <2>2
<1>17. Solo' /\ LoadedContent' /\ RaceTypes'
  BY <1>3, <1>6 DEF MetaSide, Solo, LoadedContent, RaceTypes
<1> QED BY <1>14, <1>15, <1>16, <1>17 DEF MetaSide

\* postConfigChange() for one tablet.
LEMMA PostMarks ==
    ASSUME IInv, NEW t \in Row, PostConfigChange(<<t>>)
    PROVE  configChanged'[t] /\ \A x \in Row : x # t => configChanged'[x] = configChanged[x]
<1>1. \A x \in Row : configChanged'[x] = (configChanged[x] \/ x \in {t})
  BY ToSetOne DEF PostConfigChange
<1>2. \A x \in Row : configChanged[x] \in BOOLEAN
  BY BoundTypes
<1> QED BY <1>1, <1>2

\* The commit thread adds to a log, and may add the log to a chain.
LEMMA CommitFiles ==
    ASSUME IInv, LogSide, RefSide, NEW r \in Row, NEW l \in Log, NEW big \in BOOLEAN,
           Commit(r, l, big)
    PROVE  FilesStay /\ ChangesNoted
<1>1. PICK t : t = Owner(r)
  OBVIOUS
<1>2. t \in live /\ t \in Row /\ live \subseteq Row
  BY <1>1, OwnerLives DEF IInv, BaseTypes
<1>3. /\ content' = [content EXCEPT ![l] = @ \cup {<<r, l>>}]
      /\ \/ chain' = [chain EXCEPT ![t] = Append(@, l)] /\ PostConfigChange(<<t>>)
         \/ UNCHANGED <<chain, configChanged>>
      /\ UNCHANGED <<live, minRow, deadFiles, serStack, serLog, compPc, compTab, compRun>>
  BY <1>1 DEF Commit, serVars, compVars
<1>4. /\ content \in [Frag -> SUBSET Write] /\ chain \in [Row -> Seq(Frag)]
      /\ l \in Frag /\ made \subseteq Frag /\ InitFiles \subseteq Frag /\ l \notin InitFiles
  BY DataTypes, RefTypes
<1>5. /\ \A f \in made : content[f] \subseteq content'[f]
      /\ \A f \in InitFiles : content'[f] = content[f]
  BY <1>3, <1>4
<1>6. CASE UNCHANGED <<chain, configChanged>>
  <2>1. compPc # "mark" \/ UNCHANGED <<compPc, compTab, compRun>>
    BY <1>3
  <2> QED BY <1>3, <1>5, <1>6, <2>1, QuietFiles
<1>7. CASE chain' = [chain EXCEPT ![t] = Append(@, l)] /\ PostConfigChange(<<t>>)
  <2>1. \A x \in Row : x # t => chain'[x] = chain[x] /\ configChanged'[x] = configChanged[x]
    BY <1>2, <1>4, <1>7, PostMarks
  <2>2. configChanged'[t]
    BY <1>2, <1>7, PostMarks
  <2>3. ToSet(chain'[t]) = ToSet(chain[t]) \cup {l}
    <3>1. chain[t] \in Seq(Frag)
      BY <1>2, <1>4
    <3>2. ToSet(Append(chain[t], l)) = ToSet(chain[t]) \cup {l}
      BY <1>4, <3>1, ToSetProperties
    <3> QED BY <1>2, <1>4, <1>7, <3>2
  <2>4. \A x : /\ LogSwapped(x)' <=> LogSwapped(x)
               /\ RunSwapped(x)' <=> RunSwapped(x)
               /\ \A f : Swapped(x, f)' <=> Swapped(x, f)
    BY <1>3 DEF LogSwapped, RunSwapped, Swapped
  <2>5. \A x \in live : \A f : Uses(x, f) => Uses(x, f)'
    BY <1>2, <1>3, <2>1, <2>3, <2>4 DEF Uses
  <2>6. \A x \in live : Settled(x)' => Settled(x) /\ Config(x)' = Config(x)
    BY <1>2, <1>3, <2>1, <2>2, <2>4 DEF Settled, Config
  <2>7. \A x \in live : ~configChanged'[x] => ~configChanged[x]
    BY <1>2, <2>1, <2>2
  <2> QED BY <1>3, <1>5, <2>5, <2>6, <2>7 DEF FilesStay, ChangesNoted
<1> QED BY <1>3, <1>6, <1>7

\* A log is swapped: it stays in use until it is in the dead list.
LEMMA ReplaceLogFiles ==
    ASSUME IInv, LogSide, RefSide, IInv', StackForwarded', ReplaceLog
    PROVE  FilesStay /\ ChangesNoted
<1>0. PICK t : t = SerTop.tab
  OBVIOUS
<1>1. /\ serStack # <<>> /\ SerTop.pc = "swap"
      /\ UNCHANGED <<content, live, minRow, configChanged, deadFiles, serLog, compPc,
                     compTab, compRun>>
  BY DEF ReplaceLog, compVars
<1>2. /\ t \in live /\ t \in Row /\ serLog \in Log /\ serFrag \in Disk
  BY <1>0, <1>1, FrameFacts
<1>3. /\ live \subseteq Row /\ chain \in [Row -> Seq(Frag)] /\ Frag = Log \cup Disk
  BY RefTypes
<1>4. StackForwarded
  BY DEF LogSide
<1>5. CASE serLog \notin ToSet(chain[t])
  <2>1. UNCHANGED chain
    BY <1>0, <1>5 DEF ReplaceLog
  <2>2. SerTop.pc # "mark" /\ (compPc # "mark" \/ UNCHANGED <<compPc, compTab, compRun>>)
    BY <1>1
  <2> QED BY <1>1, <2>1, <2>2, QuietFiles
<1>6. CASE serLog \in ToSet(chain[t])
  <2> DEFINE new == <<serFrag>>  old == <<serLog>>
  <2>1. chain' = [chain EXCEPT ![t] = Splice(new, old, @)] /\ SerGoto("mark")
    BY <1>0, <1>6 DEF ReplaceLog
  <2>2. /\ new \in Seq(Frag) /\ old \in Seq(Frag) /\ ToSet(old) = {serLog}
    BY <1>2, <1>3, ToSetOne
  <2>3. Matches(old, chain[t]) # {}
    BY <1>2, <1>3, <1>6, MatchOfMember
  <2> HIDE DEF new, old
  <2>4. /\ \A x \in Row : x # t => chain'[x] = chain[x]
        /\ \A f \in ToSet(chain[t]) : f \in ToSet(chain'[t]) \/ f = serLog
    <3>1. \A f \in ToSet(chain[t]) : f \in ToSet(chain'[t]) \/ f \in ToSet(old)
      BY <1>2, <1>3, <2>1, <2>2, <2>3, SwapKeepsRest
    <3>2. \A x \in Row : x # t => chain'[x] = chain[x]
      BY <1>2, <1>3, <2>1, <2>2, <2>3, SwapKeepsRest
    <3> QED BY <2>2, <3>1, <3>2
  <2>5. serStack' # <<>> /\ SerTop'.tab = t /\ SerTop'.pc = "mark"
    BY <1>0, <1>1, <1>4, <2>1, GotoFacts
  <2>6. \A x : ~LogSwapped(x) /\ (LogSwapped(x)' <=> x = t)
    BY <1>1, <1>4, <2>5, SwappedTop
  <2>7. \A x : RunSwapped(x)' <=> RunSwapped(x)
    BY <1>1 DEF RunSwapped
  <2>8. \A x \in live : \A f : Uses(x, f) => Uses(x, f)'
    BY <1>1, <1>3, <2>4, <2>6, <2>7 DEF Uses, Swapped
  <2>9. \A x \in live : Settled(x)' => Settled(x) /\ Config(x)' = Config(x)
    BY <1>1, <1>3, <2>4, <2>6, <2>7 DEF Settled, Config
  <2> QED BY <1>1, <2>8, <2>9 DEF FilesStay, ChangesNoted
<1> QED BY <1>5, <1>6

\* The log is in use in the dead list, and the change is noted.
LEMMA MarkLogDeadFiles ==
    ASSUME IInv, LogSide, RefSide, IInv', StackForwarded', MarkLogDead
    PROVE  FilesStay /\ ChangesNoted
<1>0. PICK t : t = SerTop.tab
  OBVIOUS
<1>1. /\ serStack # <<>> /\ SerTop.pc = "mark" /\ SerGoto("forward")
      /\ deadFiles' = [deadFiles EXCEPT ![t] = @ \cup {serLog}]
      /\ PostConfigChange(<<t>>)
      /\ UNCHANGED <<content, live, minRow, chain, serLog, compPc, compTab, compRun>>
  BY <1>0 DEF MarkLogDead, trackerVars, compVars
<1>2. /\ t \in live /\ t \in Row /\ live \subseteq Row
      /\ deadFiles \in [Row -> SUBSET Frag]
  BY <1>0, <1>1, FrameFacts, RefTypes
<1>3. StackForwarded
  BY DEF LogSide
<1>4. \A x : LogSwapped(x) <=> x = t
  BY <1>0, <1>1, <1>3, SwappedTop
<1>5. \A x : RunSwapped(x)' <=> RunSwapped(x)
  BY <1>1 DEF RunSwapped
<1>6. /\ configChanged'[t] /\ \A x \in Row : x # t => configChanged'[x] = configChanged[x]
      /\ deadFiles'[t] = deadFiles[t] \cup {serLog}
      /\ \A x \in Row : x # t => deadFiles'[x] = deadFiles[x]
  BY <1>1, <1>2, PostMarks
<1>7. \A x \in live : \A f : Uses(x, f) => Uses(x, f)'
  BY <1>1, <1>2, <1>4, <1>5, <1>6 DEF Uses, Swapped
<1>8. \A x \in live : Settled(x)' => Settled(x) /\ Config(x)' = Config(x)
  BY <1>1, <1>2, <1>4, <1>5, <1>6 DEF Settled, Config
<1>9. \A x \in live : ~configChanged'[x] => ~configChanged[x] /\ deadFiles'[x] \subseteq deadFiles[x]
  BY <1>2, <1>6
<1> QED BY <1>1, <1>7, <1>8, <1>9 DEF FilesStay, ChangesNoted

\* A run is swapped, with the same care.
LEMMA ReplaceRunFiles ==
    ASSUME IInv, RunSide, NEW t \in Row, ReplaceRun(t)
    PROVE  FilesStay /\ ChangesNoted
<1> DEFINE new == IF compOut = None THEN <<>> ELSE <<compOut>>
<1>1. /\ compPc = "replace" /\ t \in compTodo /\ Matches(compRun, chain[t]) # {}
  BY DEF ReplaceRun, RunSide, RunInChains
<1>2. /\ compPc' = "mark" /\ compTab' = t
      /\ chain' = [chain EXCEPT ![t] = Splice(new, compRun, @)]
      /\ UNCHANGED <<content, live, minRow, configChanged, deadFiles, serLog, serStack,
                     compRun>>
  BY <1>1 DEF ReplaceRun, serVars
<1>3. /\ chain \in [Row -> Seq(Frag)] /\ live \subseteq Row /\ new \in Seq(Frag)
      /\ compRun \in Seq(Frag)
  BY RefTypes
<1> HIDE DEF new
<1>4. /\ \A x \in Row : x # t => chain'[x] = chain[x]
      /\ \A f \in ToSet(chain[t]) : f \in ToSet(chain'[t]) \/ f \in ToSet(compRun)
  BY <1>1, <1>2, <1>3, SwapKeepsRest
<1>5. \A x : /\ LogSwapped(x)' <=> LogSwapped(x)
             /\ ~RunSwapped(x) /\ (RunSwapped(x)' <=> x = t)
  BY <1>1, <1>2 DEF LogSwapped, RunSwapped
<1>6. \A x \in live : \A f : Uses(x, f) => Uses(x, f)'
  BY <1>2, <1>3, <1>4, <1>5 DEF Uses, Swapped
<1>7. \A x \in live : Settled(x)' => Settled(x) /\ Config(x)' = Config(x)
  BY <1>2, <1>3, <1>4, <1>5 DEF Settled, Config
<1> QED BY <1>2, <1>6, <1>7 DEF FilesStay, ChangesNoted

\* So are the files of a run.
LEMMA MarkRunDeadFiles ==
    ASSUME IInv, MarkRunDead
    PROVE  FilesStay /\ ChangesNoted
<1>1. PICK t \in live : t = compTab
  BY CompactedTablet DEF MarkRunDead
<1>2. /\ compPc = "mark" /\ compPc' # "mark"
      /\ deadFiles' = [deadFiles EXCEPT ![t] = @ \cup ToSet(compRun)]
      /\ PostConfigChange(<<t>>)
      /\ UNCHANGED <<content, live, minRow, chain, serLog, serStack, compRun>>
  BY <1>1 DEF MarkRunDead, trackerVars, serVars
<1>3. t \in Row /\ live \subseteq Row /\ deadFiles \in [Row -> SUBSET Frag]
  BY RefTypes
<1>4. \A x : /\ LogSwapped(x)' <=> LogSwapped(x)
             /\ RunSwapped(x) <=> x = t
  BY <1>1, <1>2 DEF LogSwapped, RunSwapped
<1>5. /\ configChanged'[t] /\ \A x \in Row : x # t => configChanged'[x] = configChanged[x]
      /\ deadFiles'[t] = deadFiles[t] \cup ToSet(compRun)
      /\ \A x \in Row : x # t => deadFiles'[x] = deadFiles[x]
  BY <1>2, <1>3, PostMarks
<1>6. \A x \in live : \A f : Uses(x, f) => Uses(x, f)'
  BY <1>2, <1>3, <1>4, <1>5 DEF Uses, Swapped
<1>7. \A x \in live : Settled(x)' => Settled(x) /\ Config(x)' = Config(x)
  BY <1>2, <1>3, <1>4, <1>5 DEF Settled, Config, RunSwapped
<1>8. \A x \in live : ~configChanged'[x] => ~configChanged[x] /\ deadFiles'[x] \subseteq deadFiles[x]
  BY <1>3, <1>5
<1> QED BY <1>2, <1>6, <1>7, <1>8 DEF FilesStay, ChangesNoted

\* A split changes the rows of both tablets, and no fragment.
LEMMA SplitTabletFiles ==
    ASSUME IInv, NEW r \in Row, SplitTablet(r)
    PROVE  FilesStay /\ ChangesNoted
<1>1. PICK t : t = job.tab
  OBVIOUS
<1>2. /\ t \in live /\ t \in Row /\ r \notin live /\ live' = live \cup {r}
      /\ \A x \in Row : x \notin {r, t} => minRow'[x] = minRow[x]
      /\ \A x \in Row : chain'[x] = chain[IF x = r THEN t ELSE x]
      /\ UNCHANGED <<serLog, serStack, compPc, compRun>>
  BY <1>1, SplitFacts
<1>3. /\ PostConfigChange(<<t, r>>) /\ UNCHANGED <<content, deadFiles, compTab>>
  BY <1>1 DEF SplitTablet, compVars
<1>4. configChanged'[t] /\ configChanged'[r]
  <2>1. t \in ToSet(<<t, r>>) /\ r \in ToSet(<<t, r>>)
    <3>1. 1 \in DOMAIN <<t, r>> /\ 2 \in DOMAIN <<t, r>>
      OBVIOUS
    <3>2. <<t, r>>[1] = t /\ <<t, r>>[2] = r
      OBVIOUS
    <3> QED BY <3>1, <3>2 DEF ToSet
  <2> QED BY <1>2, <1>3, <2>1 DEF PostConfigChange
<1>5. \A x \in live : ~configChanged'[x] => x # t /\ ~configChanged[x]
  BY <1>3, <1>4, BoundTypes DEF PostConfigChange
<1>6. \A x : /\ LogSwapped(x)' <=> LogSwapped(x)
             /\ RunSwapped(x)' <=> RunSwapped(x)
             /\ \A f : Swapped(x, f)' <=> Swapped(x, f)
  BY <1>2, <1>3 DEF LogSwapped, RunSwapped, Swapped
<1>7. live \subseteq Row
  BY RefTypes
<1>8. \A x \in live : chain'[x] = chain[x] /\ (x # t => minRow'[x] = minRow[x])
  BY <1>2, <1>7
<1>9. \A x \in live : \A f : Uses(x, f) => Uses(x, f)'
  BY <1>3, <1>6, <1>8 DEF Uses
<1>10. \A x \in live : Settled(x)' => Settled(x) /\ Config(x)' = Config(x)
  BY <1>5, <1>6, <1>8 DEF Settled, Config
<1> QED BY <1>2, <1>3, <1>4, <1>5, <1>9, <1>10 DEF FilesStay, ChangesNoted

\* A new file is written, and replaces nothing yet.
LEMMA NewFiles ==
    ASSUME IInv, NEW d \in Disk, d \notin made, NEW X, RefSide,
           content' = [content EXCEPT ![d] = X]
    PROVE  /\ \A f \in made : content[f] \subseteq content'[f]
           /\ \A f \in InitFiles : content'[f] = content[f]
<1>1. /\ content \in [Frag -> SUBSET Write] /\ made \subseteq Frag /\ InitFiles \subseteq made
  BY DataTypes, RefTypes DEF RefSide, LoadedKept
<1>2. \A f \in made : f # d /\ content'[f] = content[f]
  BY <1>1
<1> QED BY <1>1, <1>2

\* The steps of the serialize thread.
LEMMA SerializeFiles ==
    ASSUME IInv, LogSide, RefSide, IInv', StackForwarded', SerializeThread
    PROVE  FilesStay /\ ChangesNoted
<1> DEFINE Same == UNCHANGED <<live, minRow, chain, deadFiles, configChanged, compPc,
                               compTab, compRun>>
<1>1. ASSUME NEW d \in Disk, SerializeStart(d) PROVE FilesStay /\ ChangesNoted
  <2>1. /\ Same /\ d \notin made /\ content' = [content EXCEPT ![d] = content[Head(serq)]]
        /\ serLog = None
    BY <1>1 DEF SerializeStart, NextFile, tabletVars, compVars
  <2>2. serStack = <<>>
    BY <2>1, FrameFacts
  <2> QED BY <2>1, <2>2, NewFiles, QuietFiles
<1>2. ASSUME SerializeNext PROVE FilesStay /\ ChangesNoted
  <2>1. Same /\ serStack = <<>> /\ UNCHANGED content
    BY <1>2 DEF SerializeNext, trackerVars, tabletVars, compVars
  <2> QED BY <2>1, QuietFiles
<1>3. ASSUME ForwardToClone PROVE FilesStay /\ ChangesNoted
  <2>1. Same /\ SerTop.pc = "forward" /\ UNCHANGED content
    BY <1>3 DEF ForwardToClone, trackerVars, compVars
  <2> QED BY <2>1, QuietFiles
<1>4. ASSUME AddToDag PROVE FilesStay /\ ChangesNoted
  <2>1. Same /\ SerTop.pc = "dag" /\ UNCHANGED content
    BY <1>4 DEF AddToDag, trackerVars, tabletVars, compVars
  <2> QED BY <2>1, QuietFiles
<1>5. ASSUME NEW big \in BOOLEAN, SerializeAskSplit(big) PROVE FilesStay /\ ChangesNoted
  <2>1. Same /\ SerTop.pc = "ask" /\ UNCHANGED content
    BY <1>5 DEF SerializeAskSplit, trackerVars, compVars
  <2> QED BY <2>1, QuietFiles
<1>6. ASSUME SerializeEnd PROVE FilesStay /\ ChangesNoted
  <2>1. Same /\ serStack = <<>> /\ UNCHANGED content
    BY <1>6 DEF SerializeEnd, tabletVars, compVars
  <2> QED BY <2>1, QuietFiles
<1>7. CASE ReplaceLog
  BY <1>7, ReplaceLogFiles
<1>8. CASE MarkLogDead
  BY <1>8, MarkLogDeadFiles
<1> QED BY <1>1, <1>2, <1>3, <1>4, <1>5, <1>6, <1>7, <1>8 DEF SerializeThread

\* The steps of the compact thread.
LEMMA CompactFiles ==
    ASSUME IInv, LogSide, RunSide, RefSide, CompactThread
    PROVE  FilesStay /\ ChangesNoted
<1> DEFINE Same == /\ UNCHANGED <<live, minRow, chain, deadFiles, configChanged, serStack,
                                  serLog>>
                   /\ compPc # "mark"
<1>1. ASSUME NEW t \in live, NEW i \in 1..Len(chain[t]), NEW j \in 1..Len(chain[t]),
             CompactStart(t, i, j)
      PROVE  FilesStay /\ ChangesNoted
  <2>1. Same /\ UNCHANGED content
    BY <1>1 DEF CompactStart, trackerVars, tabletVars, serVars
  <2> QED BY <2>1, QuietFiles
<1>2. ASSUME NEW d \in Disk, CompactOutput(d) PROVE FilesStay /\ ChangesNoted
  <2>1. PICK X : content' = [content EXCEPT ![d] = X]
    BY <1>2 DEF CompactOutput
  <2>2. Same /\ d \notin made
    BY <1>2 DEF CompactOutput, NextFile, tabletVars, serVars
  <2> QED BY <2>1, <2>2, NewFiles, QuietFiles
<1>3. ASSUME CompactNothing PROVE FilesStay /\ ChangesNoted
  <2>1. Same /\ UNCHANGED content
    BY <1>3 DEF CompactNothing, trackerVars, tabletVars, serVars
  <2> QED BY <2>1, QuietFiles
<1>4. ASSUME NEW big \in BOOLEAN, CompactAskSplit(big) PROVE FilesStay /\ ChangesNoted
  <2>1. Same /\ UNCHANGED content
    BY <1>4 DEF CompactAskSplit, trackerVars, serVars
  <2> QED BY <2>1, QuietFiles
<1>5. ASSUME CompactEnd PROVE FilesStay /\ ChangesNoted
  <2>1. Same /\ UNCHANGED content
    BY <1>5 DEF CompactEnd, tabletVars, serVars
  <2> QED BY <2>1, QuietFiles
<1>6. CASE MarkRunDead
  BY <1>6, MarkRunDeadFiles
<1> QED BY <1>1, <1>2, <1>3, <1>4, <1>5, <1>6, ReplaceRunFiles DEF CompactThread

\* saveConfig(), in the work thread or in an API thread.
LEMMA SavesMeta ==
    ASSUME IInv, LogSide, RefSide, DataSide, BoundSide, MetaSide,
           \/ StartSave \/ StartSplit \/ SplitImpossible
           \/ \E s \in Saver : SaveStep(s)
           \/ \E s \in Syncers, t \in live : Sync(s, t)
    PROVE  MetaSide'
<1> DEFINE Same == UNCHANGED <<content, live, minRow, chain, deadFiles, meta, serStack,
                               serLog, compPc, compTab, compRun>>
<1>1. ASSUME Same, UNCHANGED <<configChanged, save, race>> PROVE MetaSide'
  <2>1. FilesStay /\ ChangesNoted
    BY <1>1, QuietFiles
  <2> QED BY <1>1, <2>1, SteadyMeta
<1>2. Work \in Saver /\ (job = None => save[Work].pc = "idle")
  BY SavedFacts DEF BoundSide, WorkSaves
<1>3. CASE StartSave \/ StartSplit
  <2>1. Same /\ job = None /\ jobs # <<>>
    BY <1>3 DEF StartSave, StartSplit, trackerVars, serVars, compVars
  <2>2. PICK t : t = Head(jobs).tab
    OBVIOUS
  <2>3. t \in live
    BY <2>1, <2>2, JobFacts DEF IInv
  <2>4. Snapshot(Work, t, {}) \/ UNCHANGED <<configChanged, save, race>>
    BY <1>3, <2>2 DEF StartSave, StartSplit
  <2> QED BY <1>1, <1>2, <2>1, <2>3, <2>4, SnapshotMeta
<1>4. CASE SplitImpossible
  BY <1>1, <1>4 DEF SplitImpossible, trackerVars, tabletVars, serVars, compVars
<1>5. ASSUME NEW s \in Syncers, NEW t \in live, Sync(s, t) PROVE MetaSide'
  <2>1. Same /\ save[s].pc = "idle" /\ s \in Saver
    BY <1>5 DEF Sync, trackerVars, serVars, compVars, Saver
  <2>2. (\E covers : Snapshot(s, t, covers)) \/ UNCHANGED <<configChanged, save, race>>
    BY <1>5 DEF Sync
  <2> QED BY <1>1, <2>1, <2>2, SnapshotMeta
<1>6. ASSUME NEW s \in Saver, SaveAgain(s) PROVE MetaSide'
  <2>1. PICK t : t = save[s].tab
    OBVIOUS
  <2>2. /\ Same /\ save[s].pc = "saved" /\ Snapshot(s, t, save[s].covers)
    BY <1>6, <2>1 DEF SaveAgain, trackerVars, serVars, compVars
  <2>3. t \in live
    BY <2>1, <2>2, SavedFacts
  <2> QED BY <2>1, <2>2, <2>3, SnapshotMeta
<1>7. ASSUME NEW s \in Saver, WriteConfig(s) PROVE MetaSide'
  BY <1>7, WriteConfigMeta
<1>8. ASSUME NEW s \in Saver, FinishSave(s) PROVE MetaSide'
  BY <1>8, FinishSaveMeta
<1> QED BY <1>3, <1>4, <1>5, <1>6, <1>7, <1>8 DEF SaveStep

\* Where META's files are holds at the start, and every step keeps it.
LEMMA InitMeta == ASSUME Init PROVE MetaSide
<1>1. /\ NRows \in Row /\ Work \in Saver
      /\ save[Work].pc = "idle" /\ live = {NRows}
      /\ minRow[NRows] = 0 /\ chain[NRows] = InitChain
      /\ meta[NRows] = [minRow |-> 0, uris |-> InitChain]
      /\ \A t \in Row : meta[t] # None => t = NRows
      /\ content = [f \in Frag |-> IF f \in ToSet(InitChain) THEN Row \X {f} ELSE {}]
  BY TabletAssumption DEF Init, Idle, Saver, Row
<1>6. RaceTypes /\ \A s \in Saver : \A t : ~Saves(s, t)
  BY DEF Init, Idle, RaceTypes, Saves
<1>2. \A t \in SavedTablets : t = NRows
  BY <1>1 DEF SavedTablets
<1>3. Names(NRows, meta[NRows]) /\ LoadedIn(NRows, meta[NRows])
  <2>1. meta[NRows].uris = InitChain
    BY <1>1
  <2> QED BY <2>1 DEF Names, LoadedIn, InitFiles
<1>4. meta[NRows] = Config(NRows)
  BY <1>1 DEF Config
<1>5. LoadedContent
  <2>1. InitFiles \subseteq Frag
    BY TabletAssumption, ToSetType DEF InitFiles, Frag
  <2> QED BY <1>1, <2>1 DEF LoadedContent, InitFiles
<1> QED BY <1>1, <1>2, <1>3, <1>4, <1>5, <1>6
        DEF MetaSide, SavingUsed, SavedUsed, SavedNow, Solo

LEMMA NextMeta ==
    ASSUME LogInv, RefSide, DataSide, BoundSide, MetaSide, [Next]_vars,
           LogInv'
    PROVE  MetaSide'
<1> USE DEF LogInv
<1>0. StackForwarded'
  BY DEF LogSide
<1>1. CASE CommitThread
  <2>1. UNCHANGED <<meta, save, race>>
    BY <1>1 DEF CommitThread, Commit, PushGroup
  <2>2. ASSUME PushGroup PROVE FilesStay /\ ChangesNoted
    <3>1. UNCHANGED <<content, live, minRow, chain, deadFiles, configChanged, serStack,
                      serLog, compPc, compTab, compRun>>
      BY <2>2 DEF PushGroup, trackerVars, tabletVars, serVars, compVars
    <3> QED BY <3>1, QuietFiles
  <2>3. FilesStay /\ ChangesNoted
    BY <1>1, <2>2, CommitFiles DEF CommitThread
  <2> QED BY <2>1, <2>3, SteadyMeta
<1>2. CASE SerializeThread
  <2>1. UNCHANGED <<meta, save, race>>
    BY <1>2 DEF SerializeThread, SerializeStart, SerializeNext, ReplaceLog, MarkLogDead,
                ForwardToClone, AddToDag, SerializeAskSplit, SerializeEnd
  <2>2. FilesStay /\ ChangesNoted
    BY <1>0, <1>2, SerializeFiles
  <2> QED BY <2>1, <2>2, SteadyMeta
<1>3. CASE CompactThread
  <2>1. UNCHANGED <<meta, save, race>>
    BY <1>3 DEF CompactThread, CompactStart, CompactOutput, CompactNothing, ReplaceRun,
                MarkRunDead, CompactAskSplit, CompactEnd
  <2>2. FilesStay /\ ChangesNoted
    BY <1>3, CompactFiles
  <2> QED BY <2>1, <2>2, SteadyMeta
<1>4. CASE WorkThread
  <2>1. ASSUME NEW r \in Row, SplitTablet(r) PROVE MetaSide'
    <3>1. UNCHANGED <<meta, save, race>>
      BY <2>1 DEF SplitTablet
    <3>2. FilesStay /\ ChangesNoted
      BY <2>1, SplitTabletFiles
    <3> QED BY <3>1, <3>2, SteadyMeta
  <2> QED BY <1>4, <2>1, SavesMeta, SavedFacts DEF WorkThread
<1>6. CASE \E s \in Syncers : ApiThread(s)
  BY <1>6, SavesMeta DEF ApiThread, Saver
<1>5. CASE UNCHANGED vars
  <2>1. UNCHANGED <<content, live, minRow, chain, deadFiles, configChanged, serStack,
                    serLog, compPc, compTab, compRun, meta, save, race>>
    BY <1>5 DEF vars, trackerVars, tabletVars, serVars, compVars
  <2>2. FilesStay /\ ChangesNoted
    BY <2>1, QuietFiles
  <2> QED BY <2>1, <2>2, SteadyMeta
<1> QED BY <1>1, <1>2, <1>3, <1>4, <1>5, <1>6 DEF Next

\* The inductive invariant with META.
MetaInv == DataInv /\ BoundSide /\ MetaSide

\* What META's rows name, and what the saves of configurations will write, is
\* as MetaSide says in every reachable state, for any number of API threads.
THEOREM MetaInvariant == Spec => []MetaInv
<1>1. Init => MetaInv
  <2>1. Init => LoadedExist
    BY DEF Init, LoadedExist, InitFiles
  <2> QED BY <2>1, InitLogs, InitRefs, InitData, InitBounds, InitMeta DEF MetaInv, DataInv
<1>2. MetaInv /\ [Next]_vars => MetaInv'
  <2>1. DataInv /\ [Next]_vars => DataInv'
    BY NextLogs, NextRefs, NextData, LoadedFilesStay DEF DataInv, LoadedExist, InitFiles
  <2>2. DataInv /\ BoundSide /\ [Next]_vars => BoundSide'
    BY NextBounds DEF DataInv, LogInv
  <2>3. DataInv /\ DataInv' /\ BoundSide /\ MetaSide /\ [Next]_vars => MetaSide'
    BY NextMeta DEF DataInv
  <2> QED BY <2>1, <2>2, <2>3 DEF MetaInv
<1> QED BY <1>1, <1>2, PTL DEF Spec

\* A crash at any moment finds every file that META names: a replaced file is
\* set free only when no configuration has it any more, unless threads in
\* saveConfig() have overlapped.
THEOREM MetaFilesKept == Spec => []MetaFilesExist
<1>1. MetaInv => MetaFilesExist
  <2> SUFFICES ASSUME MetaInv, NEW t \in Row, race[t] = "none", NEW f \in SavedFiles(t)
               PROVE  f \in disk
    BY DEF MetaFilesExist, SavedFilesExist
  <2> USE DEF MetaInv, DataInv, LogInv
  <2>1. t \in SavedTablets /\ f \in ToSet(meta[t].uris)
    BY DEF SavedFiles, SavedTablets
  <2>2. t \in live /\ Names(t, meta[t])
    BY <2>1, SavedFacts DEF MetaSide, SavedUsed
  <2>3. f \in made
    BY <2>1, <2>2, NamesMade
  <2>4. f \in InitFiles \/ Uses(t, f)
    BY <2>1, <2>2 DEF Names
  <2> QED BY <2>2, <2>3, <2>4, UsedFilesExist DEF LoadedExist
<1> QED BY <1>1, MetaInvariant, PTL

\* saveConfig() loops until META has the latest configuration, in whichever
\* thread it runs, unless threads in it have overlapped.
THEOREM LatestSaved == Spec => []SavedIsCurrent
<1>1. MetaInv => SavedIsCurrent
  BY DEF MetaInv, MetaSide, SavedNow, Saves, Settled, SavedIsCurrent
<1> QED BY <1>1, MetaInvariant, PTL

-----------------------------------------------------------------------------
(* What loadTabletConfigs() makes of META after a crash.                   *)

\* What META has for t gives the data loaded with the table.
LEMMA SavedHas ==
    ASSUME MetaInv, NEW t \in SavedTablets, NEW r \in Row, NEW f \in InitFiles,
           meta[t].minRow < r, r <= t, race[t] = "none"
    PROVE  <<r, f>> \in Writes(SavedFiles(t) \cap disk)
<1> USE DEF MetaInv, DataInv, LogInv
<1>1. t \in live /\ Names(t, meta[t]) /\ LoadedIn(t, meta[t]) /\ meta[t] # None
  BY SavedFacts DEF MetaSide, SavedUsed, SavedTablets
<1>2. <<r, f>> \in content[f]
  BY DEF MetaSide, LoadedContent
<1>3. PICK g \in ToSet(meta[t].uris) : <<r, f>> \in content[g]
  <2>1. PICK w : w = <<r, f>>
    OBVIOUS
  <2>2. w \in content[f] /\ w[1] = r
    BY <1>2, <2>1
  <2>3. meta[t].minRow < w[1] /\ w[1] <= t
    BY <2>2
  <2>4. \E g \in ToSet(meta[t].uris) : w \in content[g]
    BY <1>1, <2>2, <2>3 DEF LoadedIn
  <2> QED BY <2>1, <2>4
<1>4. g \in made
  BY <1>1, <1>3, NamesMade
<1>5. g \in disk
  <2>1. g \in InitFiles \/ Uses(t, g)
    BY <1>1, <1>3 DEF Names
  <2> QED BY <1>1, <1>4, <2>1, UsedFilesExist DEF LoadedExist
<1> QED BY <1>1, <1>3, <1>5 DEF Writes, SavedFiles

\* A tablet begins where another one ends.
LEMMA LowerTablet ==
    ASSUME IInv, NEW t \in live
    PROVE  /\ minRow[t] \in Nat /\ t \in Nat /\ t \in Row /\ minRow[t] < t
           /\ minRow[t] = 0 \/ minRow[t] \in live
<1>1. t \in Row /\ t \in Nat /\ minRow[t] \in 0..NRows /\ minRow[t] < t
  <2>1. t \in Row /\ minRow[t] \in 0..NRows
    BY BoundTypes
  <2>2. minRow[t] < t
    BY DEF IInv, TabletsPartitionRows
  <2> QED BY <2>1, <2>2 DEF Row
<1>2. minRow[t] \in Nat
  BY <1>1
<1>3. ASSUME minRow[t] # 0 PROVE minRow[t] \in live
  <2>1. PICK r \in Row : r = minRow[t]
    BY <1>1, <1>3, TabletAssumption DEF Row
  <2>2. PICK u \in live : r \in Rows(u)
    BY OwnerLives, OwnerOnly DEF IInv
  <2>3. u \in Nat /\ minRow[u] \in Nat /\ minRow[u] < r /\ r <= u /\ r \in Nat
    BY <2>2, BoundTypes DEF Rows, Row
  <2>4. ~(t < u)
    <3>1. t < u => t <= minRow[u]
      BY TabletsApart
    <3> QED BY <1>1, <1>2, <2>1, <2>3, <3>1
  <2>5. u < t => u <= minRow[t]
    BY TabletsApart
  <2> QED BY <1>1, <2>1, <2>2, <2>3, <2>4, <2>5
<1> QED BY <1>1, <1>2, <1>3

\* When every tablet is in META, the META row before t's is that tablet's.
LEMMA SavedBelow ==
    ASSUME IInv, SavedTablets = live, NEW t \in live
    PROVE  PrevRow(t) = minRow[t]
<1>1. /\ minRow[t] \in Nat /\ t \in Nat /\ t \in Row /\ minRow[t] < t
      /\ minRow[t] = 0 \/ minRow[t] \in live
  BY LowerTablet
<1>2. PICK p : p = PrevRow(t)
  OBVIOUS
<1>3. /\ p = 0 \/ (p \in live /\ p < t)
      /\ \A u \in live : u < t => u <= p
  BY <1>1, <1>2, PrevRowFacts
<1>4. p \in live => p \in Nat /\ p > 0
  BY LowerTablet DEF Row
<1>5. p \in live /\ p < t => p <= minRow[t]
  BY TabletsApart
<1>6. minRow[t] \in live => minRow[t] <= p /\ minRow[t] > 0
  <2>1. minRow[t] \in live => minRow[t] \in Row
    BY LowerTablet
  <2>2. minRow[t] \in Row => minRow[t] > 0
    BY DEF Row
  <2> QED BY <1>1, <1>3, <2>1, <2>2
<1> QED BY <1>1, <1>2, <1>3, <1>4, <1>5, <1>6

\* However out of date the rows of META are, a crash loses none of the data
\* loaded with the table once every tablet has a row there: loadTabletConfigs()
\* keeps a row for every range, and unless saves of its tablet have overlapped
\* that row names files with the data.
THEOREM RepairsKeep == Spec => []RepairKeepsSaved
<1>1. MetaInv => RepairKeepsSaved
  <2> SUFFICES ASSUME MetaInv, live \subseteq SavedTablets, NEW r \in Row,
                      NEW f \in InitFiles
               PROVE  \E t \in Row :
                         /\ Repaired(t) /\ r \in (RepairedMinRow(t) + 1)..t
                         /\ race[t] = "none" =>
                                <<r, f>> \in Writes(SavedFiles(t) \cap disk)
    BY DEF RepairKeepsSaved, InitFiles
  <2> USE DEF MetaInv, DataInv, LogInv
  <2>1. SavedTablets = live
    BY SavedFacts
  <2>2. \A t \in live : /\ PrevRow(t) = minRow[t] /\ minRow[t] \in Nat
                        /\ t \in Nat /\ t \in Row /\ minRow[t] < t
                        /\ meta[t] # None /\ meta[t].minRow \in Nat
    <3> SUFFICES ASSUME NEW t \in live
                 PROVE  /\ PrevRow(t) = minRow[t] /\ minRow[t] \in Nat
                        /\ t \in Nat /\ t \in Row /\ minRow[t] < t
                        /\ meta[t] # None /\ meta[t].minRow \in Nat
      OBVIOUS
    <3>1. PrevRow(t) = minRow[t]
      BY <2>1, SavedBelow
    <3>2. minRow[t] \in Nat /\ t \in Nat /\ t \in Row /\ minRow[t] < t
      BY LowerTablet
    <3>3. meta[t] # None /\ meta[t] \in ConfigSet
      BY <2>1, BoundTypes DEF SavedTablets
    <3> QED BY <3>1, <3>2, <3>3, TabletAssumption DEF ConfigSet
  <2>3. r \in Nat
    BY DEF Row
  <2>4. PICK q \in live : r \in Rows(q)
    BY OwnerLives, OwnerOnly DEF IInv
  <2>5. minRow[q] < r /\ r <= q
    BY <2>2, <2>3, <2>4 DEF Rows
  \* A row that is out of date has the lower bound from before one split.
  <2>6. ASSUME NEW t \in live, meta[t].minRow # minRow[t]
        PROVE  /\ minRow[t] \in live /\ meta[minRow[t]].minRow = minRow[minRow[t]]
               /\ minRow[minRow[t]] = meta[t].minRow /\ meta[t].minRow < minRow[t]
    <3>1. PICK u : u = minRow[t]
      OBVIOUS
    <3>2. Behind(t)
      BY <2>2, <2>6 DEF Behind
    <3>3. u \in live /\ ~Behind(u) /\ minRow[u] = meta[t].minRow
      BY <3>1, <3>2 DEF BoundSide, BehindOne
    <3> QED BY <2>2, <3>1, <3>3 DEF Behind
  <2>7. \A t \in live : RepairedMinRow(t) = meta[t].minRow /\ meta[t].minRow <= minRow[t]
    BY <2>2, <2>6 DEF RepairedMinRow
  <2>8. ASSUME NEW t \in live, Repaired(t), meta[t].minRow < r, r <= t
        PROVE  /\ t \in Row /\ r \in (RepairedMinRow(t) + 1)..t
               /\ race[t] = "none" => <<r, f>> \in Writes(SavedFiles(t) \cap disk)
    <3>1. r \in (RepairedMinRow(t) + 1)..t
      BY <2>2, <2>3, <2>7, <2>8
    <3>2. race[t] = "none" => <<r, f>> \in Writes(SavedFiles(t) \cap disk)
      BY <2>1, <2>8, SavedHas
    <3> QED BY <2>2, <3>1, <3>2
  <2>9. CASE Repaired(q)
    <3>1. meta[q].minRow < r
      BY <2>2, <2>3, <2>5, <2>7
    <3> QED BY <2>2, <2>5, <2>8, <2>9, <3>1
  <2>10. CASE ~Repaired(q)
    <3>1. PICK v \in live : PrevRow(v) = q /\ ~(meta[v].minRow >= q)
      BY <2>1, <2>10 DEF Repaired
    <3>2. minRow[v] = q /\ meta[v].minRow < q /\ q < v
      BY <2>2, <3>1
    <3>3. meta[v].minRow = minRow[q]
      BY <2>2, <2>6, <3>2
    <3>4. Repaired(v)
      <4> SUFFICES ASSUME NEW w \in live, PrevRow(w) = v, ~(meta[w].minRow >= v)
                   PROVE  FALSE
        BY <2>1 DEF Repaired
      <4>1. minRow[w] = v /\ meta[w].minRow # minRow[w]
        BY <2>2
      <4>2. meta[v].minRow = minRow[v]
        BY <2>6, <4>1
      <4> QED BY <2>2, <3>2, <4>2
    <3>5. meta[v].minRow < r /\ r <= v
      BY <2>2, <2>3, <2>5, <3>2, <3>3
    <3> QED BY <2>2, <2>8, <3>4, <3>5
  <2> QED BY <2>9, <2>10
<1> QED BY <1>1, MetaInvariant, PTL

-----------------------------------------------------------------------------
(* The files loaded with the table, in META and out of the tablets.        *)

Loaded(t) == ToSet(chain[t]) \cap InitFiles

\* A tablet gets none of them but from the tablet it is split from, and a
\* configuration saved or being saved has all that its tablet still has.
LoadedShrink ==
    /\ live \subseteq live' /\ \A t \in live : Loaded(t)' \subseteq Loaded(t)
    /\ \A r \in live' \ live : job.tab \in live /\ Loaded(r)' \subseteq Loaded(job.tab)

SavedLoaded ==
    /\ NRows \in SavedTablets
    /\ \A t \in SavedTablets : Loaded(t) \subseteq ToSet(meta[t].uris)
    /\ \A s \in Saver : save[s].pc # "idle" =>
           Loaded(save[s].tab) \subseteq ToSet(save[s].cfg.uris)

\* A spliced sequence has nothing but what the two had.
LEMMA SplicedFrom ==
    ASSUME NEW S, NEW r \in Seq(S), NEW s \in Seq(S), NEW t \in Seq(S),
           NEW c \in Seq(S), NEW i \in Nat, SplicedAt(r, s, t, i, c)
    PROVE  ToSet(c) \subseteq ToSet(t) \cup ToSet(r)
<1> DEFINE n == Len(s)  m == Len(r)  N == Len(t)
<1>1. /\ i \in 1..N /\ i + n - 1 <= N
      /\ Len(c) = N - n + m
      /\ \A p \in 1..(i - 1) : c[p] = t[p]
      /\ \A k \in 1..m : c[i - 1 + k] = r[k]
      /\ \A p \in (i + m)..(N - n + m) : c[p] = t[p - m + n]
  BY DEF SplicedAt
<1>2. n \in Nat /\ m \in Nat /\ N \in Nat
  OBVIOUS
<1> SUFFICES ASSUME NEW e \in ToSet(c) PROVE e \in ToSet(t) \/ e \in ToSet(r)
  OBVIOUS
<1>3. PICK p \in 1..Len(c) : c[p] = e
  BY InToSet
<1> HIDE DEF n, m, N
<1>4. CASE p < i
  <2>1. p \in 1..N /\ t[p] = e
    BY <1>1, <1>2, <1>3, <1>4
  <2> QED BY <2>1, InToSet DEF N
<1>5. CASE i <= p /\ p < i + m
  <2>1. PICK k : k = p - i + 1
    OBVIOUS
  <2>2. k \in 1..m /\ i - 1 + k = p
    BY <1>1, <1>2, <1>3, <1>5, <2>1
  <2>3. r[k] = e
    BY <1>1, <1>3, <2>2
  <2> QED BY <2>2, <2>3, InToSet DEF m
<1>6. CASE i + m <= p
  <2>1. PICK k : k = p - m + n
    OBVIOUS
  <2>2. p \in (i + m)..(N - n + m) /\ k \in 1..N
    BY <1>1, <1>2, <1>3, <1>6, <2>1
  <2>3. t[k] = e
    BY <1>1, <1>3, <2>1, <2>2
  <2> QED BY <2>2, <2>3, InToSet DEF N
<1> QED BY <1>1, <1>2, <1>3, <1>4, <1>5, <1>6

\* The chain of one tablet changes, and takes in no file that was loaded.
LEMMA OneChainShrinks ==
    ASSUME IInv, UNCHANGED live, NEW t \in Row, NEW F, F \cap InitFiles = {},
           \A x \in Row : x # t => chain'[x] = chain[x],
           ToSet(chain'[t]) \subseteq ToSet(chain[t]) \cup F
    PROVE  LoadedShrink
<1>1. live \subseteq Row
  BY RefTypes
<1>2. \A x \in live : Loaded(x)' \subseteq Loaded(x)
  BY <1>1 DEF Loaded, InitFiles
<1> QED BY <1>2 DEF LoadedShrink

\* The steps of the server.
LEMMA NextShrinks ==
    ASSUME LogInv, RefSide, [Next]_vars
    PROVE  LoadedShrink
<1> USE DEF LogInv
<1>1. ASSUME UNCHANGED <<live, chain>> PROVE LoadedShrink
  BY <1>1 DEF LoadedShrink, Loaded
<1>2. /\ chain \in [Row -> Seq(Frag)] /\ live \subseteq Row /\ InitFiles \subseteq Disk
      /\ Log \cap Disk = {} /\ Frag = Log \cup Disk
  BY RefTypes, TabletAssumption
<1>3. ASSUME NEW r \in Row, NEW l \in Log, NEW big \in BOOLEAN, Commit(r, l, big)
      PROVE  LoadedShrink
  <2>1. PICK t : t = Owner(r)
    OBVIOUS
  <2>2. t \in live /\ t \in Row
    BY <1>2, <2>1, OwnerLives DEF IInv
  <2>3. /\ chain' = [chain EXCEPT ![t] = Append(@, l)] \/ UNCHANGED chain
        /\ UNCHANGED live
    BY <1>3, <2>1 DEF Commit
  <2>4. CASE chain' = [chain EXCEPT ![t] = Append(@, l)]
    <3>1. chain[t] \in Seq(Frag) /\ l \in Frag
      BY <1>2, <2>2
    <3>2. ToSet(Append(chain[t], l)) = ToSet(chain[t]) \cup {l}
      BY <3>1, ToSetProperties
    <3>3. /\ chain'[t] = Append(chain[t], l)
          /\ \A x \in Row : x # t => chain'[x] = chain[x]
      BY <1>2, <2>2, <2>4
    <3>4. ToSet(chain'[t]) \subseteq ToSet(chain[t]) \cup {l} /\ {l} \cap InitFiles = {}
      BY <1>2, <3>2, <3>3
    <3> QED BY <2>2, <2>3, <3>3, <3>4, OneChainShrinks
  <2> QED BY <1>1, <2>3, <2>4
<1>4. ASSUME ReplaceLog PROVE LoadedShrink
  <2>1. PICK t : t = SerTop.tab
    OBVIOUS
  <2>2. UNCHANGED live /\ serStack # <<>>
    BY <1>4 DEF ReplaceLog
  <2>3. /\ t \in Row /\ serLog \in Log /\ serFrag \in Disk
    BY <2>1, <2>2, FrameFacts
  <2>4. CASE UNCHANGED chain
    BY <1>1, <2>2, <2>4
  <2>5. CASE /\ serLog \in ToSet(chain[t])
             /\ chain' = [chain EXCEPT ![t] = Splice(<<serFrag>>, <<serLog>>, @)]
    <3> DEFINE new == <<serFrag>>  old == <<serLog>>  c == Splice(new, old, chain[t])
    <3>1. new \in Seq(Frag) /\ old \in Seq(Frag) /\ ToSet(new) = {serFrag}
      BY <1>2, <2>3, ToSetOne
    <3>2. Matches(old, chain[t]) # {}
      BY <1>2, <2>3, <2>5, MatchOfMember
    <3>3. chain'[t] = c /\ \A x \in Row : x # t => chain'[x] = chain[x]
      BY <1>2, <2>3, <2>5
    <3>4. chain[t] \in Seq(Frag)
      BY <1>2, <2>3
    <3> HIDE DEF new, old
    <3>5. c \in Seq(Frag) /\ \E i \in Nat : SplicedAt(new, old, chain[t], i, c)
      BY <3>1, <3>2, <3>4, SpliceFacts
    <3> HIDE DEF c
    <3>6. PICK i \in Nat : SplicedAt(new, old, chain[t], i, c)
      BY <3>5
    <3>7. ToSet(c) \subseteq ToSet(chain[t]) \cup {serFrag}
      <4>1. ToSet(c) \subseteq ToSet(chain[t]) \cup ToSet(new)
        BY <3>1, <3>4, <3>5, <3>6, SplicedFrom
      <4> QED BY <3>1, <4>1
    <3>8. {serFrag} \cap InitFiles = {}
      BY DEF RefSide, LoadedKept
    <3> QED BY <2>2, <2>3, <3>3, <3>7, <3>8, OneChainShrinks
  <2> QED BY <1>4, <2>1, <2>4, <2>5 DEF ReplaceLog
<1>5. ASSUME NEW t \in Row, ReplaceRun(t) PROVE LoadedShrink
  <2>1. /\ chain'[t] \in Seq(Frag) /\ \A x \in Row : x # t => chain'[x] = chain[x]
        /\ \E new \in Seq(Disk), i \in Nat :
              /\ ToSet(new) \subseteq {compOut} \ {None}
              /\ SplicedAt(new, compRun, chain[t], i, chain'[t])
    BY <1>5, ReplaceRunFacts
  <2>2. PICK new \in Seq(Disk), i \in Nat :
              /\ ToSet(new) \subseteq {compOut} \ {None}
              /\ SplicedAt(new, compRun, chain[t], i, chain'[t])
    BY <2>1
  <2>3. new \in Seq(Frag) /\ compRun \in Seq(Frag) /\ chain[t] \in Seq(Frag)
    BY <1>2, SeqGrows, RefTypes
  <2>4. ToSet(chain'[t]) \subseteq ToSet(chain[t]) \cup ToSet(new)
    BY <2>1, <2>2, <2>3, SplicedFrom
  <2>5. {compOut} \cap InitFiles = {} /\ UNCHANGED live
    BY <1>5 DEF RefSide, LoadedKept, ReplaceRun
  <2>6. ToSet(chain'[t]) \subseteq ToSet(chain[t]) \cup {compOut}
    BY <2>2, <2>4
  <2> QED BY <2>1, <2>5, <2>6, OneChainShrinks
<1>6. ASSUME NEW r \in Row, SplitTablet(r) PROVE LoadedShrink
  <2>1. PICK t : t = job.tab
    OBVIOUS
  <2>2. /\ t \in live /\ t \in Row /\ r \notin live /\ live' = live \cup {r}
        /\ \A x \in Row : chain'[x] = chain[IF x = r THEN t ELSE x]
    BY <1>6, <2>1, SplitFacts
  <2>3. \A x \in live : Loaded(x)' = Loaded(x)
    BY <1>2, <2>2 DEF Loaded, InitFiles
  <2>4. Loaded(r)' = Loaded(t)
    BY <2>2 DEF Loaded, InitFiles
  <2> QED BY <2>1, <2>2, <2>3, <2>4 DEF LoadedShrink
<1>7. CASE CommitThread
  <2>1. ASSUME PushGroup PROVE LoadedShrink
    BY <1>1, <2>1 DEF PushGroup, tabletVars
  <2> QED BY <1>3, <1>7, <2>1 DEF CommitThread
<1>8. CASE SerializeThread
  <2>1. ASSUME NEW d, SerializeStart(d) PROVE LoadedShrink
    BY <1>1, <2>1 DEF SerializeStart, tabletVars
  <2>2. ASSUME SerializeNext \/ SerializeEnd \/ AddToDag PROVE LoadedShrink
    BY <1>1, <2>2 DEF SerializeNext, SerializeEnd, AddToDag, tabletVars
  <2>3. ASSUME MarkLogDead \/ ForwardToClone PROVE LoadedShrink
    BY <1>1, <2>3 DEF MarkLogDead, ForwardToClone
  <2>4. ASSUME NEW big, SerializeAskSplit(big) PROVE LoadedShrink
    BY <1>1, <2>4 DEF SerializeAskSplit
  <2> QED BY <1>4, <1>8, <2>1, <2>2, <2>3, <2>4 DEF SerializeThread
<1>9. CASE CompactThread
  <2>1. ASSUME NEW t, NEW i, NEW j, CompactStart(t, i, j) PROVE LoadedShrink
    BY <1>1, <2>1 DEF CompactStart, tabletVars
  <2>2. ASSUME NEW d, CompactOutput(d) PROVE LoadedShrink
    BY <1>1, <2>2 DEF CompactOutput, tabletVars
  <2>3. ASSUME CompactNothing \/ MarkRunDead \/ CompactEnd PROVE LoadedShrink
    BY <1>1, <2>3 DEF CompactNothing, MarkRunDead, CompactEnd, tabletVars
  <2>4. ASSUME NEW big, CompactAskSplit(big) PROVE LoadedShrink
    BY <1>1, <2>4 DEF CompactAskSplit
  <2> QED BY <1>5, <1>9, <2>1, <2>2, <2>3, <2>4 DEF CompactThread
<1>10. ASSUME NEW s, SaveStep(s) PROVE LoadedShrink
  BY <1>1, <1>10 DEF SaveStep, WriteConfig, SaveAgain, FinishSave, tabletVars
<1>11. CASE WorkThread
  <2>1. ASSUME StartSave \/ StartSplit \/ SplitImpossible PROVE LoadedShrink
    BY <1>1, <2>1 DEF StartSave, StartSplit, SplitImpossible, tabletVars
  <2> QED BY <1>6, <1>10, <1>11, <2>1 DEF WorkThread
<1>12. ASSUME NEW s \in Syncers, ApiThread(s) PROVE LoadedShrink
  <2>1. ASSUME NEW t, Sync(s, t) PROVE LoadedShrink
    BY <1>1, <2>1 DEF Sync
  <2> QED BY <1>10, <1>12, <2>1 DEF ApiThread
<1>13. CASE UNCHANGED vars
  BY <1>1, <1>13 DEF vars, tabletVars
<1> QED BY <1>7, <1>8, <1>9, <1>11, <1>12, <1>13 DEF Next

\* The steps outside saveConfig().
LEMMA SteadyLoaded ==
    ASSUME BoundSide, SavedLoaded, LoadedShrink, UNCHANGED <<meta, save>>
    PROVE  SavedLoaded'
<1>1. \A t \in SavedTablets : t \in live
  BY DEF BoundSide, SavedLive
<1>2. \A s \in Saver : save[s].pc # "idle" => save[s].tab \in live
  BY DEF BoundSide, SavesBound
<1>3. \A t \in live : Loaded(t)' \subseteq Loaded(t)
  BY DEF LoadedShrink
<1>4. SavedTablets' = SavedTablets
  BY DEF SavedTablets
<1>5. ASSUME NEW t \in SavedTablets PROVE Loaded(t)' \subseteq ToSet(meta[t].uris)
  BY <1>1, <1>3 DEF SavedLoaded
<1>6. ASSUME NEW s \in Saver, save[s].pc # "idle", NEW t, t = save[s].tab
      PROVE  Loaded(t)' \subseteq ToSet(save[s].cfg.uris)
  BY <1>2, <1>3, <1>6 DEF SavedLoaded
<1>7. ASSUME NEW s \in Saver, save[s].pc # "idle"
      PROVE  Loaded(save[s].tab)' \subseteq ToSet(save[s].cfg.uris)
  <2>1. PICK t : t = save[s].tab
    OBVIOUS
  <2>2. Loaded(t)' \subseteq ToSet(save[s].cfg.uris)
    BY <1>6, <1>7, <2>1
  <2> QED BY <2>1, <2>2 DEF Loaded
<1> QED BY <1>4, <1>5, <1>7 DEF SavedLoaded, Loaded, SavedTablets

\* saveConfig() takes a snapshot.
LEMMA SnapshotLoaded ==
    ASSUME IInv, SavedLoaded, NEW s \in Saver, NEW t, NEW covers, Snapshot(s, t, covers),
           UNCHANGED <<chain, meta>>
    PROVE  SavedLoaded'
<1>1. /\ \A x : Loaded(x)' = Loaded(x)
      /\ SavedTablets' = SavedTablets
  BY DEF Loaded, SavedTablets
<1> DEFINE sv == [pc |-> "saving", tab |-> t, cfg |-> Config(t), covers |-> covers]
<1>2. save'[s] = sv /\ \A x \in Saver : x # s => save'[x] = save[x]
  BY BoundTypes DEF Snapshot
<1>3. sv.tab = t /\ sv.cfg.uris = chain[t]
  BY DEF Config
<1> HIDE DEF sv
<1>4. ASSUME NEW x \in Saver, save'[x].pc # "idle", NEW u, u = save'[x].tab
      PROVE  Loaded(u) \subseteq ToSet(save'[x].cfg.uris)
  <2>1. CASE x = s
    BY <1>2, <1>3, <1>4, <2>1 DEF Loaded
  <2>2. CASE x # s
    BY <1>2, <1>4, <2>2 DEF SavedLoaded
  <2> QED BY <2>1, <2>2
<1>5. ASSUME NEW x \in Saver, save'[x].pc # "idle"
      PROVE  ToSet(chain[save'[x].tab]) \cap InitFiles \subseteq ToSet(save'[x].cfg.uris)
  BY <1>4, <1>5 DEF Loaded
<1> QED BY <1>1, <1>5 DEF SavedLoaded, Loaded, SavedTablets, InitFiles

\* setTabletConfig() returns.
LEMMA WriteConfigLoaded ==
    ASSUME IInv, BoundSide, SavedLoaded, NEW s \in Saver, WriteConfig(s)
    PROVE  SavedLoaded'
<1>1. PICK t : t = save[s].tab
  OBVIOUS
<1>2. PICK c : c = save[s].cfg
  OBVIOUS
<1>3. /\ save[s].pc = "saving" /\ UNCHANGED chain
      /\ meta' = [meta EXCEPT ![t] = c] /\ save' = [save EXCEPT ![s].pc = "saved"]
  BY <1>1, <1>2 DEF WriteConfig, tabletVars
<1>4. /\ save \in [Saver -> SaveSet \cup {Idle}] /\ save[s] \in SaveSet
      /\ meta \in [Row -> ConfigSet \cup {None}] /\ t \in Row /\ c \in ConfigSet
  <2>1. save[s] \in SaveSet
    BY <1>3, SaveFacts DEF IInv
  <2> QED BY <1>1, <1>2, <2>1, BoundTypes DEF SaveSet
<1>5. /\ \A x \in Saver : /\ save'[x].tab = save[x].tab /\ save'[x].cfg = save[x].cfg
                          /\ save'[x].pc # "idle" => save[x].pc # "idle"
      /\ meta'[t] = c /\ \A x \in Row : x # t => meta'[x] = meta[x]
  <2>1. ASSUME NEW x \in Saver
        PROVE  /\ save'[x].tab = save[x].tab /\ save'[x].cfg = save[x].cfg
               /\ save'[x].pc # "idle" => save[x].pc # "idle"
    <3>1. CASE x = s
      BY <1>3, <1>4, <3>1 DEF SaveSet
    <3>2. CASE x # s
      BY <1>3, <1>4, <3>2
    <3> QED BY <3>1, <3>2
  <2> QED BY <1>3, <1>4, <2>1
<1>6. \A x : Loaded(x)' = Loaded(x)
  BY <1>3 DEF Loaded
<1>7. Loaded(t) \subseteq ToSet(c.uris)
  BY <1>1, <1>2, <1>3 DEF SavedLoaded
<1>8. ASSUME NEW x \in Row, meta'[x] # None PROVE Loaded(x) \subseteq ToSet(meta'[x].uris)
  <2>1. CASE x = t
    BY <1>5, <1>7, <2>1
  <2>2. CASE x # t
    BY <1>5, <1>8, <2>2 DEF SavedLoaded, SavedTablets
  <2> QED BY <2>1, <2>2
<1>9. NRows \in SavedTablets'
  <2>1. NRows \in Row /\ meta[NRows] # None
    BY DEF SavedLoaded, SavedTablets
  <2>2. c # None
    BY <1>4, NoneAssumption
  <2> QED BY <1>5, <2>1, <2>2 DEF SavedTablets
<1>10. ASSUME NEW x \in Saver, save'[x].pc # "idle"
       PROVE  Loaded(save[x].tab) \subseteq ToSet(save'[x].cfg.uris)
  BY <1>5, <1>10 DEF SavedLoaded
<1>11. \A x \in SavedTablets' : Loaded(x)' \subseteq ToSet(meta'[x].uris)
  BY <1>6, <1>8 DEF SavedTablets
<1>12. \A x \in Saver : save'[x].pc # "idle" =>
           Loaded(save[x].tab) \subseteq ToSet(save'[x].cfg.uris)
  BY <1>10
<1>13. \A x \in Saver : save'[x].pc # "idle" =>
           ToSet(chain'[save'[x].tab]) \cap InitFiles \subseteq ToSet(save'[x].cfg.uris)
  BY <1>3, <1>5, <1>12 DEF Loaded
<1> QED BY <1>9, <1>11, <1>13 DEF SavedLoaded, Loaded, InitFiles

\* The steps of the server.
LEMMA NextLoaded ==
    ASSUME LogInv, RefSide, BoundSide, SavedLoaded, [Next]_vars
    PROVE  SavedLoaded'
<1> USE DEF LogInv
<1>1. LoadedShrink
  BY NextShrinks
<1>2. ASSUME UNCHANGED <<meta, save>> PROVE SavedLoaded'
  BY <1>1, <1>2, SteadyLoaded
<1>3. CASE CommitThread
  <2>1. UNCHANGED <<meta, save>>
    <3>1. ASSUME NEW r, NEW l, NEW big, Commit(r, l, big) PROVE UNCHANGED <<meta, save>>
      BY <3>1 DEF Commit
    <3>2. ASSUME PushGroup PROVE UNCHANGED <<meta, save>>
      BY <3>2 DEF PushGroup
    <3> QED BY <1>3, <3>1, <3>2 DEF CommitThread
  <2> QED BY <1>2, <2>1
<1>4. CASE SerializeThread
  <2>1. UNCHANGED <<meta, save>>
    BY <1>4 DEF SerializeThread, SerializeStart, SerializeNext, ReplaceLog, MarkLogDead,
                ForwardToClone, AddToDag, SerializeAskSplit, SerializeEnd
  <2> QED BY <1>2, <2>1
<1>5. CASE CompactThread
  <2>1. UNCHANGED <<meta, save>>
    BY <1>5 DEF CompactThread, CompactStart, CompactOutput, CompactNothing, ReplaceRun,
                MarkRunDead, CompactAskSplit, CompactEnd
  <2> QED BY <1>2, <2>1
<1>6. ASSUME NEW s \in Saver, SaveStep(s) PROVE SavedLoaded'
  <2>1. CASE WriteConfig(s)
    BY <2>1, WriteConfigLoaded
  <2>2. CASE SaveAgain(s)
    BY <2>2, SnapshotLoaded DEF SaveAgain
  <2>3. CASE FinishSave(s)
    <3>1. UNCHANGED <<chain, meta>> /\ save' = [save EXCEPT ![s] = Idle]
      BY <2>3 DEF FinishSave
    <3>2. /\ save'[s].pc = "idle" /\ \A x \in Saver : x # s => save'[x] = save[x]
      BY <3>1, BoundTypes DEF Idle
    <3>3. ASSUME NEW x \in Saver, save'[x].pc # "idle"
          PROVE  Loaded(save'[x].tab) \subseteq ToSet(save'[x].cfg.uris)
      BY <3>2, <3>3 DEF SavedLoaded
    <3>4. /\ NRows \in SavedTablets
          /\ \A t \in SavedTablets : Loaded(t) \subseteq ToSet(meta[t].uris)
      BY DEF SavedLoaded
    <3> QED BY <3>1, <3>3, <3>4 DEF SavedLoaded, Loaded, SavedTablets, InitFiles
  <2> QED BY <1>6, <2>1, <2>2, <2>3 DEF SaveStep
<1>7. CASE WorkThread
  <2>1. Work \in Saver
    BY DEF Saver
  <2>2. CASE StartSave
    <3>1. PICK t : t = Head(jobs).tab
      OBVIOUS
    <3>2. /\ UNCHANGED <<chain, meta>>
          /\ Snapshot(Work, t, {}) \/ UNCHANGED save
      BY <2>2, <3>1 DEF StartSave
    <3> QED BY <1>2, <2>1, <3>2, SnapshotLoaded
  <2>3. CASE StartSplit
    <3>1. PICK t : t = Head(jobs).tab
      OBVIOUS
    <3>2. /\ UNCHANGED <<chain, meta>>
          /\ Snapshot(Work, t, {}) \/ UNCHANGED save
      BY <2>3, <3>1 DEF StartSplit
    <3> QED BY <1>2, <2>1, <3>2, SnapshotLoaded
  <2>4. CASE SplitImpossible
    BY <1>2, <2>4 DEF SplitImpossible
  <2>5. ASSUME NEW r \in Row, SplitTablet(r) PROVE SavedLoaded'
    BY <1>2, <2>5 DEF SplitTablet
  <2> QED BY <1>6, <1>7, <2>1, <2>2, <2>3, <2>4, <2>5 DEF WorkThread
<1>8. ASSUME NEW s \in Syncers, ApiThread(s) PROVE SavedLoaded'
  <2>1. s \in Saver
    BY DEF Saver
  <2>2. ASSUME NEW t \in live, Sync(s, t) PROVE SavedLoaded'
    <3>1. PICK W : W = OnRows(Writes(Log), Rows(t))
      OBVIOUS
    <3>2. /\ UNCHANGED <<chain, meta>>
          /\ Snapshot(s, t, W) \/ UNCHANGED save
      BY <2>2, <3>1 DEF Sync
    <3> QED BY <1>2, <2>1, <3>2, SnapshotLoaded
  <2> QED BY <1>6, <1>8, <2>1, <2>2 DEF ApiThread
<1>9. CASE UNCHANGED vars
  BY <1>2, <1>9 DEF vars
<1> QED BY <1>3, <1>4, <1>5, <1>7, <1>8, <1>9 DEF Next

\* META has the loaded files at the start.
LEMMA InitLoaded == ASSUME Init PROVE SavedLoaded
<1>1. /\ \A s \in Saver : save[s].pc = "idle"
      /\ chain[NRows] = InitChain /\ meta[NRows] = [minRow |-> 0, uris |-> InitChain]
      /\ NRows \in Row /\ \A t \in Row : meta[t] # None => t = NRows
  BY TabletAssumption DEF Init, Idle, Row
<1>2. [minRow |-> 0, uris |-> InitChain] # None
  <2>1. [minRow |-> 0, uris |-> InitChain] \in ConfigSet
    BY TabletAssumption, SeqGrows DEF ConfigSet, Frag
  <2> QED BY <2>1, NoneAssumption
<1>3. meta[NRows].uris = InitChain
  BY <1>1
<1> QED BY <1>1, <1>2, <1>3 DEF SavedLoaded, SavedTablets, Loaded

-----------------------------------------------------------------------------
(* The loaded files that a tablet, META and the saves of it name.          *)

NamedLoaded(t) ==
    {f \in InitFiles :
        \/ f \in ToSet(chain[t])
        \/ meta[t] # None /\ race[t] = "none" /\ f \in ToSet(meta[t].uris)
        \/ \E s \in Saver : /\ Saves(s, t) /\ race[t] # "raced"
                            /\ f \in ToSet(save[s].cfg.uris)}

\* A tablet gets none of them but from the tablet it is split from, and what is
\* being saved names none that META does not.
NamedShrink ==
    /\ live \subseteq live' /\ \A t \in live : NamedLoaded(t)' \subseteq NamedLoaded(t)
    /\ \A r \in live' \ live :
           job.tab \in live /\ NamedLoaded(r)' \subseteq NamedLoaded(job.tab)

SavingLoaded ==
    \A s \in Saver, t \in SavedTablets : Saves(s, t) /\ race[t] # "raced" =>
        ToSet(save[s].cfg.uris) \cap InitFiles \subseteq ToSet(meta[t].uris)

\* The steps outside saveConfig().
LEMMA SteadyNamed ==
    ASSUME BoundSide, SavingLoaded, LoadedShrink, UNCHANGED <<meta, save, race>>,
           live' \subseteq Row
    PROVE  NamedShrink /\ SavingLoaded'
<1>1. \A t : \A f : f \in NamedLoaded(t)' =>
          f \in NamedLoaded(t) \/ f \in Loaded(t)'
  BY DEF NamedLoaded, Loaded, Saves, InitFiles
<1>2. \A t : Loaded(t) \subseteq NamedLoaded(t)
  BY DEF NamedLoaded, Loaded
<1>3. \A t \in live : NamedLoaded(t)' \subseteq NamedLoaded(t)
  BY <1>1, <1>2 DEF LoadedShrink
<1>4. ASSUME NEW r \in live' \ live
      PROVE  job.tab \in live /\ NamedLoaded(r)' \subseteq NamedLoaded(job.tab)
  <2>1. NamedLoaded(r)' \subseteq Loaded(r)'
    <3>1. meta[r] = None
      BY DEF BoundSide, SavedLive, SavedTablets
    <3>2. \A s \in Saver : ~Saves(s, r)
      BY DEF BoundSide, SavesBound, Saves
    <3> QED BY <3>1, <3>2 DEF NamedLoaded, Loaded, Saves, InitFiles
  <2>2. PICK u : u = job.tab
    OBVIOUS
  <2>3. u \in live /\ Loaded(r)' \subseteq Loaded(u)
    BY <2>2 DEF LoadedShrink
  <2> QED BY <1>2, <2>1, <2>2, <2>3
<1>5. SavingLoaded'
  BY DEF SavingLoaded, SavedTablets, Saves, InitFiles
<1> QED BY <1>3, <1>4, <1>5 DEF NamedShrink, LoadedShrink

\* saveConfig() takes a snapshot.
LEMMA SnapshotNamed ==
    ASSUME IInv, RaceTypes, SavedLoaded, SavingLoaded, NEW p \in Saver, NEW t \in live,
           NEW covers, Snapshot(p, t, covers), save[p].pc # "idle" => save[p].tab = t,
           UNCHANGED <<live, chain, meta>>
    PROVE  NamedShrink /\ SavingLoaded'
<1>0. PICK c : c = Config(t)
  OBVIOUS
<1> DEFINE sv == [pc |-> "saving", tab |-> t, cfg |-> c, covers |-> covers]
<1>1. /\ save' = [save EXCEPT ![p] = sv]
      /\ race' = [race EXCEPT ![t] = RaceAt(p, t)]
      /\ t \in Row /\ save \in [Saver -> SaveSet \cup {Idle}]
      /\ race \in [Row -> {"none", "raced", "mending"}] /\ live \subseteq Row
  BY <1>0, BoundTypes DEF Snapshot, RaceTypes
<1>2. save'[p] = sv /\ sv.tab = t /\ sv.cfg = c
  BY <1>1
<1>3. /\ \A u \in Saver : u # p => save'[u] = save[u]
      /\ \A x \in Row : x # t => race'[x] = race[x]
      /\ race'[t] = RaceAt(p, t)
  BY <1>1
<1> HIDE DEF sv
<1>4. c.uris = chain[t]
  BY <1>0 DEF Config
<1>5. race'[t] # "raced" => \A u \in Saver : u # p => ~Saves(u, t)
  BY <1>3 DEF RaceAt, Overlaps, Saves
<1>6. \A x \in Row : /\ race'[x] = "none" => race[x] = "none"
                     /\ race'[x] # "raced" =>
                            \A u \in Saver : Saves(u, x)' => (u = p /\ x = t)
                                 \/ (u # p /\ Saves(u, x) /\ race[x] # "raced")
  <2> SUFFICES ASSUME NEW x \in Row
               PROVE  /\ race'[x] = "none" => race[x] = "none"
                      /\ race'[x] # "raced" =>
                            \A u \in Saver : Saves(u, x)' => (u = p /\ x = t)
                                 \/ (u # p /\ Saves(u, x) /\ race[x] # "raced")
    OBVIOUS
  <2>1. CASE x = t
    BY <1>2, <1>3, <1>5, <2>1 DEF RaceAt, Saves
  <2>2. CASE x # t
    BY <1>2, <1>3, <2>2 DEF Saves
  <2> QED BY <2>1, <2>2
<1>7. ASSUME NEW x \in live, NEW f \in NamedLoaded(x)' PROVE f \in NamedLoaded(x)
  <2>1. x \in Row /\ f \in InitFiles
    BY <1>1, <1>7 DEF NamedLoaded, InitFiles
  <2>2. \/ f \in ToSet(chain[x])
        \/ meta[x] # None /\ race'[x] = "none" /\ f \in ToSet(meta[x].uris)
        \/ \E u \in Saver : /\ Saves(u, x)' /\ race'[x] # "raced"
                            /\ f \in ToSet(save'[u].cfg.uris)
    BY <1>7 DEF NamedLoaded
  <2>3. ASSUME NEW u \in Saver, Saves(u, x)', race'[x] # "raced",
               f \in ToSet(save'[u].cfg.uris)
        PROVE  \/ f \in ToSet(chain[x])
               \/ Saves(u, x) /\ race[x] # "raced" /\ f \in ToSet(save[u].cfg.uris)
    <3>1. CASE u = p /\ x = t
      BY <1>2, <1>4, <2>3, <3>1
    <3>2. CASE u # p /\ Saves(u, x) /\ race[x] # "raced"
      BY <1>3, <2>3, <3>2
    <3> QED BY <1>6, <2>1, <2>3, <3>1, <3>2
  <2> QED BY <1>6, <2>1, <2>2, <2>3 DEF NamedLoaded
<1>8. SavingLoaded'
  <2> SUFFICES ASSUME NEW u \in Saver, NEW x \in Row, meta[x] # None, Saves(u, x)',
                      race'[x] # "raced", NEW f \in ToSet(save'[u].cfg.uris), f \in InitFiles
               PROVE  f \in ToSet(meta[x].uris)
    BY DEF SavingLoaded, SavedTablets, InitFiles
  <2>1. CASE u = p /\ x = t
    <3>1. f \in Loaded(x)
      BY <1>2, <1>4, <2>1 DEF Loaded
    <3> QED BY <3>1 DEF SavedLoaded, SavedTablets
  <2>2. CASE u # p /\ Saves(u, x) /\ race[x] # "raced"
    BY <1>3, <2>2 DEF SavingLoaded, SavedTablets
  <2> QED BY <1>6, <2>1, <2>2
<1> QED BY <1>7, <1>8 DEF NamedShrink

\* setTabletConfig() returns.
LEMMA WriteConfigNamed ==
    ASSUME IInv, BoundSide, MetaSide, SavingLoaded, NEW p \in Saver, WriteConfig(p)
    PROVE  NamedShrink /\ SavingLoaded'
<1>1. PICK t : t = save[p].tab
  OBVIOUS
<1>2. PICK c : c = save[p].cfg
  OBVIOUS
<1>3. /\ save[p].pc = "saving" /\ UNCHANGED <<live, chain>>
      /\ meta' = [meta EXCEPT ![t] = c] /\ save' = [save EXCEPT ![p].pc = "saved"]
      /\ race' = [race EXCEPT ![t] = IF @ = "mending" THEN "none" ELSE @]
  BY <1>1, <1>2 DEF WriteConfig, tabletVars
<1>4. /\ meta \in [Row -> ConfigSet \cup {None}] /\ live \subseteq Row /\ t \in Row
      /\ save \in [Saver -> SaveSet \cup {Idle}] /\ save[p] \in SaveSet
      /\ race \in [Row -> {"none", "raced", "mending"}]
  BY <1>1, <1>3, BoundTypes, SaveFacts, SavedFacts DEF IInv, MetaSide, RaceTypes
<1>5. /\ meta'[t] = c /\ \A x \in Row : x # t => meta'[x] = meta[x] /\ race'[x] = race[x]
      /\ save'[p].pc = "saved" /\ save'[p].tab = t /\ save'[p].cfg = c
      /\ \A u \in Saver : u # p => save'[u] = save[u]
      /\ race'[t] # "raced" <=> race[t] # "raced"
      /\ race'[t] = "none" => race[t] # "raced"
  BY <1>1, <1>2, <1>3, <1>4 DEF SaveSet
<1>6. \A u \in Saver : /\ save'[u].cfg = save[u].cfg
                       /\ \A x : Saves(u, x)' <=> Saves(u, x)
  <2> SUFFICES ASSUME NEW u \in Saver
               PROVE  /\ save'[u].cfg = save[u].cfg
                      /\ \A x : Saves(u, x)' <=> Saves(u, x)
    OBVIOUS
  <2>1. CASE u = p
    BY <1>1, <1>2, <1>3, <1>5, <2>1 DEF Saves
  <2>2. CASE u # p
    BY <1>5, <2>2 DEF Saves
  <2> QED BY <2>1, <2>2
<1>7. Saves(p, t)
  BY <1>1, <1>3 DEF Saves
<1>8. ASSUME NEW x \in live, NEW f \in NamedLoaded(x)' PROVE f \in NamedLoaded(x)
  <2>1. x \in Row /\ f \in InitFiles
    BY <1>4, <1>8 DEF NamedLoaded, InitFiles
  <2>2. \/ f \in ToSet(chain[x])
        \/ meta'[x] # None /\ race'[x] = "none" /\ f \in ToSet(meta'[x].uris)
        \/ \E u \in Saver : /\ Saves(u, x)' /\ race'[x] # "raced"
                            /\ f \in ToSet(save'[u].cfg.uris)
    BY <1>3, <1>8 DEF NamedLoaded
  <2>3. CASE f \in ToSet(chain[x])
    BY <2>1, <2>3 DEF NamedLoaded
  <2>4. CASE meta'[x] # None /\ race'[x] = "none" /\ f \in ToSet(meta'[x].uris)
    <3>1. CASE x = t
      BY <1>2, <1>5, <1>7, <2>1, <2>4, <3>1 DEF NamedLoaded
    <3>2. CASE x # t
      BY <1>5, <2>1, <2>4, <3>2 DEF NamedLoaded
    <3> QED BY <3>1, <3>2
  <2>5. ASSUME NEW u \in Saver, Saves(u, x)', race'[x] # "raced",
               f \in ToSet(save'[u].cfg.uris)
        PROVE  f \in NamedLoaded(x)
    <3>1. Saves(u, x) /\ race[x] # "raced" /\ f \in ToSet(save[u].cfg.uris)
      BY <1>5, <1>6, <2>1, <2>5
    <3> QED BY <2>1, <3>1 DEF NamedLoaded
  <2> QED BY <2>2, <2>3, <2>4, <2>5
<1>9. SavingLoaded'
  <2> SUFFICES ASSUME NEW u \in Saver, NEW x \in Row, meta'[x] # None, Saves(u, x)',
                      race'[x] # "raced", NEW f \in ToSet(save'[u].cfg.uris), f \in InitFiles
               PROVE  f \in ToSet(meta'[x].uris)
    BY DEF SavingLoaded, SavedTablets, InitFiles
  <2>1. Saves(u, x) /\ race[x] # "raced" /\ f \in ToSet(save[u].cfg.uris)
    BY <1>5, <1>6
  <2>2. CASE x = t
    <3>1. u = p
      BY <1>7, <2>1, <2>2 DEF MetaSide, Solo
    <3> QED BY <1>2, <1>5, <2>1, <2>2, <3>1
  <2>3. CASE x # t
    BY <1>5, <2>1, <2>3 DEF SavingLoaded, SavedTablets
  <2> QED BY <2>2, <2>3
<1> QED BY <1>3, <1>8, <1>9 DEF NamedShrink

\* saveConfig() returns.
LEMMA FinishSaveNamed ==
    ASSUME IInv, SavingLoaded, NEW p \in Saver, FinishSave(p)
    PROVE  NamedShrink /\ SavingLoaded'
<1>1. UNCHANGED <<live, chain, meta, race>> /\ save' = [save EXCEPT ![p] = Idle]
  BY DEF FinishSave
<1>2. save'[p].pc = "idle" /\ \A u \in Saver : u # p => save'[u] = save[u]
  BY <1>1, BoundTypes DEF Idle
<1>3. \A u \in Saver : \A x : Saves(u, x)' => Saves(u, x) /\ save'[u] = save[u]
  BY <1>2 DEF Saves
<1>4. ASSUME NEW x, NEW f \in NamedLoaded(x)' PROVE f \in NamedLoaded(x)
  <2>1. /\ f \in InitFiles
        /\ \/ f \in ToSet(chain[x])
           \/ meta[x] # None /\ race[x] = "none" /\ f \in ToSet(meta[x].uris)
           \/ \E u \in Saver : /\ Saves(u, x)' /\ race[x] # "raced"
                               /\ f \in ToSet(save'[u].cfg.uris)
    BY <1>1, <1>4 DEF NamedLoaded, InitFiles
  <2> QED BY <1>3, <2>1 DEF NamedLoaded
<1>5. SavingLoaded'
  <2> SUFFICES ASSUME NEW u \in Saver, NEW x \in SavedTablets, Saves(u, x)',
                      race[x] # "raced"
               PROVE  ToSet(save'[u].cfg.uris) \cap InitFiles \subseteq ToSet(meta[x].uris)
    BY <1>1 DEF SavingLoaded, SavedTablets, InitFiles
  <2> QED BY <1>3 DEF SavingLoaded
<1> QED BY <1>1, <1>4, <1>5 DEF NamedShrink

\* The steps of the server.
LEMMA NextNamed ==
    ASSUME LogInv, RefSide, BoundSide, MetaSide, SavedLoaded, SavingLoaded, [Next]_vars,
           LogInv'
    PROVE  NamedShrink /\ SavingLoaded'
<1> USE DEF LogInv
<1>1. LoadedShrink /\ live' \subseteq Row
  BY NextShrinks, RefTypes DEF IInv, BaseTypes
<1>2. ASSUME UNCHANGED <<meta, save, race>> PROVE NamedShrink /\ SavingLoaded'
  BY <1>1, <1>2, SteadyNamed
<1>3. CASE CommitThread
  <2>1. UNCHANGED <<meta, save, race>>
    BY <1>3 DEF CommitThread, Commit, PushGroup
  <2> QED BY <1>2, <2>1
<1>4. CASE SerializeThread
  <2>1. UNCHANGED <<meta, save, race>>
    BY <1>4 DEF SerializeThread, SerializeStart, SerializeNext, ReplaceLog, MarkLogDead,
                ForwardToClone, AddToDag, SerializeAskSplit, SerializeEnd
  <2> QED BY <1>2, <2>1
<1>5. CASE CompactThread
  <2>1. UNCHANGED <<meta, save, race>>
    BY <1>5 DEF CompactThread, CompactStart, CompactOutput, CompactNothing, ReplaceRun,
                MarkRunDead, CompactAskSplit, CompactEnd
  <2> QED BY <1>2, <2>1
<1>6. ASSUME NEW p \in Saver, NEW t \in live, NEW covers, Snapshot(p, t, covers),
             save[p].pc # "idle" => save[p].tab = t, UNCHANGED <<live, chain, meta>>
      PROVE  NamedShrink /\ SavingLoaded'
  BY <1>6, SnapshotNamed DEF MetaSide
<1>7. ASSUME NEW s \in Saver, SaveStep(s) PROVE NamedShrink /\ SavingLoaded'
  <2>1. CASE WriteConfig(s)
    BY <2>1, WriteConfigNamed
  <2>2. CASE SaveAgain(s)
    <3>1. PICK t : t = save[s].tab
      OBVIOUS
    <3>2. /\ save[s].pc = "saved" /\ Snapshot(s, t, save[s].covers)
          /\ UNCHANGED <<live, chain, meta>>
      BY <2>2, <3>1 DEF SaveAgain
    <3>3. t \in live
      BY <3>1, <3>2, SavedFacts
    <3> QED BY <1>6, <3>1, <3>2, <3>3
  <2>3. CASE FinishSave(s)
    BY <2>3, FinishSaveNamed
  <2> QED BY <1>7, <2>1, <2>2, <2>3 DEF SaveStep
<1>8. Work \in Saver /\ (job = None => save[Work].pc = "idle")
  BY SavedFacts DEF BoundSide, WorkSaves
<1>9. CASE WorkThread
  <2>1. CASE StartSave \/ StartSplit
    <3>1. job = None /\ jobs # <<>> /\ UNCHANGED <<live, chain, meta>>
      BY <2>1 DEF StartSave, StartSplit
    <3>2. PICK t : t = Head(jobs).tab
      OBVIOUS
    <3>3. t \in live
      BY <3>1, <3>2, JobFacts DEF IInv
    <3>4. Snapshot(Work, t, {}) \/ UNCHANGED <<meta, save, race>>
      BY <2>1, <3>2 DEF StartSave, StartSplit
    <3> QED BY <1>2, <1>6, <1>8, <3>1, <3>3, <3>4
  <2>2. CASE SplitImpossible
    BY <1>2, <2>2 DEF SplitImpossible
  <2>3. ASSUME NEW r \in Row, SplitTablet(r) PROVE NamedShrink /\ SavingLoaded'
    BY <1>2, <2>3 DEF SplitTablet
  <2> QED BY <1>7, <1>8, <1>9, <2>1, <2>2, <2>3 DEF WorkThread
<1>10. ASSUME NEW s \in Syncers, ApiThread(s) PROVE NamedShrink /\ SavingLoaded'
  <2>1. s \in Saver
    BY DEF Saver
  <2>2. ASSUME NEW t \in live, Sync(s, t) PROVE NamedShrink /\ SavingLoaded'
    <3>1. save[s].pc = "idle" /\ UNCHANGED <<live, chain, meta>>
      BY <2>2 DEF Sync
    <3>2. (\E covers : Snapshot(s, t, covers)) \/ UNCHANGED <<meta, save, race>>
      BY <2>2 DEF Sync
    <3> QED BY <1>2, <1>6, <2>1, <3>1, <3>2
  <2> QED BY <1>7, <1>10, <2>1, <2>2 DEF ApiThread
<1>11. CASE UNCHANGED vars
  BY <1>2, <1>11 DEF vars
<1> QED BY <1>3, <1>4, <1>5, <1>9, <1>10, <1>11 DEF Next

-----------------------------------------------------------------------------
(* The garbage collector.                                                  *)

\* Of the loaded files, a tablet that the scan has not missed keeps those that
\* it has and that META has for it: they are in the active set once its row has
\* been read, and out of the garbage when the scan is over.
GcKeeps ==
    \A t \in live \ missed :
        /\ NamedLoaded(t) \subseteq disk
        /\ gcPc = "scan" /\ t <= gcRow => NamedLoaded(t) \subseteq activeSet
        /\ gcPc = "remove" => NamedLoaded(t) \cap candidateSet = {}

GcTypes == gcRow \in 0..NRows /\ candidateSet \subseteq InitFiles

ServerInv == /\ LogInv /\ RefSide /\ DataSide /\ BoundSide /\ MetaSide
             /\ SavedLoaded /\ SavingLoaded
GcInv == ServerInv /\ GcTypes /\ GcKeeps

\* Every step of the server keeps what is known of it.
LEMMA NextServer == ASSUME ServerInv, [Next]_vars PROVE ServerInv'
<1>1. LogInv'
  BY NextLogs DEF ServerInv
<1>2. RefSide'
  BY NextRefs DEF ServerInv
<1>3. BoundSide'
  BY NextBounds DEF ServerInv, LogInv
<1>4. SavedLoaded'
  BY NextLoaded DEF ServerInv
<1>5. DataSide'
  BY NextData DEF ServerInv
<1>6. MetaSide'
  BY <1>1, NextMeta DEF ServerInv
<1>7. SavingLoaded'
  BY <1>1, NextNamed DEF ServerInv
<1> QED BY <1>1, <1>2, <1>3, <1>4, <1>5, <1>6, <1>7 DEF ServerInv

\* A step of the server beside the collector.
LEMMA ServerStepGc == ASSUME GcInv, ServerStep PROVE GcInv'
<1>1. /\ Next /\ UNCHANGED <<gcPc, gcRow, candidateSet, activeSet>>
      /\ missed' = missed \cup {r \in live' \ live : \/ gcPc = "scan" /\ r <= gcRow
                                                     \/ job.tab \in missed}
  BY DEF ServerStep
<1>2. ServerInv'
  BY <1>1, NextServer DEF GcInv
<1>3. NamedShrink
  BY <1>1, <1>2, NextNamed DEF GcInv, ServerInv
<1>4. \A f \in InitFiles : f \in disk => f \in disk'
  BY <1>1, LoadedFilesStay DEF GcInv, ServerInv
<1>5. GcTypes'
  BY <1>1 DEF GcInv, GcTypes, InitFiles
<1>6. \A t : NamedLoaded(t) \subseteq InitFiles
  BY DEF NamedLoaded
<1>7. ASSUME NEW t \in live' \ missed'
      PROVE  /\ NamedLoaded(t)' \subseteq disk'
             /\ gcPc = "scan" /\ t <= gcRow => NamedLoaded(t)' \subseteq activeSet
             /\ gcPc = "remove" => NamedLoaded(t)' \cap candidateSet = {}
  <2>1. CASE t \in live
    <3>1. t \in live \ missed /\ NamedLoaded(t)' \subseteq NamedLoaded(t)
      BY <1>1, <1>3, <1>7, <2>1 DEF NamedShrink
    <3> QED BY <1>4, <1>6, <3>1 DEF GcInv, GcKeeps
  <2>2. CASE t \notin live
    <3>1. PICK u : u = job.tab
      OBVIOUS
    <3>2. /\ u \in live /\ NamedLoaded(t)' \subseteq NamedLoaded(u)
          /\ u \notin missed /\ ~(gcPc = "scan" /\ t <= gcRow)
      BY <1>1, <1>3, <1>7, <2>2, <3>1 DEF NamedShrink
    <3> QED BY <1>4, <1>6, <3>2 DEF GcInv, GcKeeps
  <2> QED BY <2>1, <2>2
<1>8. GcKeeps'
  BY <1>1, <1>7 DEF GcKeeps
<1> QED BY <1>2, <1>5, <1>8 DEF GcInv

\* The collector lists the candidates.
LEMMA GcListKeeps == ASSUME GcInv, GcList PROVE GcInv'
<1>1. /\ UNCHANGED <<vars, missed>> /\ gcPc' = "scan" /\ gcRow' = 0
      /\ candidateSet' = disk \cap InitFiles
  BY DEF GcList, OldFiles, InitFiles
<1>2. ServerInv'
  BY <1>1, NextServer DEF GcInv
<1>3. GcTypes'
  BY <1>1, TabletAssumption DEF GcTypes, InitFiles
<1>4. UNCHANGED <<live, chain, disk, meta, save, race>>
  BY <1>1 DEF vars, trackerVars, tabletVars
<1>5. \A t \in live : ~(t <= 0)
  <2>1. \A t \in live : t \in Row
    BY BoundTypes DEF GcInv, ServerInv, LogInv
  <2> QED BY <2>1 DEF Row
<1>6. GcKeeps'
  BY <1>1, <1>4, <1>5 DEF GcInv, GcKeeps, NamedLoaded, Saves, InitFiles
<1> QED BY <1>2, <1>3, <1>6 DEF GcInv

\* The collector reads a row of META.
LEMMA GcReadKeeps == ASSUME GcInv, NEW r \in Row, GcRead(r) PROVE GcInv'
<1>1. PICK A : A = activeSet \cup SavedFiles(r)
  OBVIOUS
<1>2. /\ UNCHANGED vars /\ gcPc = "scan" /\ r \in SavedTablets /\ gcRow < r
      /\ missed' = missed \cup {t \in live : gcRow < t /\ t < r}
      /\ \/ /\ \A u \in SavedTablets : u <= r
            /\ candidateSet' = candidateSet \ A /\ gcRow' = 0
            /\ gcPc' = IF candidateSet' = {} THEN "idle" ELSE "remove"
         \/ /\ activeSet' = A /\ gcRow' = r
            /\ UNCHANGED <<candidateSet, gcPc>>
  BY <1>1 DEF GcRead, PassedOver
<1>3. ServerInv'
  BY <1>2, NextServer DEF GcInv
<1>4. r \in 0..NRows /\ 0 \in 0..NRows /\ r \in Nat
  BY TabletAssumption DEF Row
<1>5. GcTypes'
  BY <1>2, <1>4 DEF GcInv, GcTypes, InitFiles
<1>6. UNCHANGED <<live, chain, disk, meta, save, race>>
  BY <1>2 DEF vars, trackerVars, tabletVars
<1>7. NamedLoaded(r) \subseteq A
  <2>1. /\ Loaded(r) \subseteq ToSet(meta[r].uris) /\ meta[r] # None
        /\ \A s \in Saver : Saves(s, r) /\ race[r] # "raced" =>
               ToSet(save[s].cfg.uris) \cap InitFiles \subseteq ToSet(meta[r].uris)
    BY <1>2 DEF GcInv, ServerInv, SavedLoaded, SavingLoaded, SavedTablets
  <2>2. NamedLoaded(r) \subseteq ToSet(meta[r].uris)
    BY <2>1 DEF NamedLoaded, Loaded
  <2> QED BY <1>1, <2>1, <2>2 DEF SavedFiles
<1>8. ASSUME NEW t \in live \ missed', t <= r PROVE NamedLoaded(t) \subseteq A
  <2>1. t \in Row /\ t \in Nat /\ gcRow \in Nat
    <3>1. t \in Row
      BY BoundTypes DEF GcInv, ServerInv, LogInv
    <3>2. gcRow \in Nat
      BY TabletAssumption DEF GcInv, GcTypes
    <3> QED BY <3>1, <3>2 DEF Row
  <2>2. CASE t <= gcRow
    BY <1>1, <1>2, <1>8, <2>2 DEF GcInv, GcKeeps
  <2>3. CASE gcRow < t
    <3>1. t = r
      BY <1>2, <1>4, <1>8, <2>1, <2>3
    <3> QED BY <1>7, <3>1
  <2> QED BY <2>1, <2>2, <2>3
<1>9. \A t \in live : t <= NRows
  <2>1. \A t \in live : t \in Row
    BY BoundTypes DEF GcInv, ServerInv, LogInv
  <2> QED BY <2>1 DEF Row
<1>10. \A t \in live \ missed' : NamedLoaded(t) \subseteq disk
  BY <1>2 DEF GcInv, GcKeeps
<1>11. CASE /\ \A u \in SavedTablets : u <= r
            /\ candidateSet' = candidateSet \ A
            /\ gcPc' = IF candidateSet' = {} THEN "idle" ELSE "remove"
  <2>1. NRows <= r
    BY <1>11 DEF GcInv, ServerInv, SavedLoaded
  <2>2. \A t \in live : t <= r
    <3>1. r = NRows
      BY <1>4, <2>1, TabletAssumption
    <3> QED BY <1>9, <3>1
  <2>3. \A t \in live \ missed' : NamedLoaded(t) \cap candidateSet' = {}
    BY <1>8, <1>11, <2>2
  <2>4. gcPc' # "scan"
    BY <1>11
  <2> QED BY <1>3, <1>5, <1>6, <1>10, <2>3, <2>4 DEF GcInv, GcKeeps, NamedLoaded, Saves, InitFiles
<1>12. CASE activeSet' = A /\ gcRow' = r /\ UNCHANGED <<candidateSet, gcPc>>
  BY <1>2, <1>3, <1>5, <1>6, <1>8, <1>10, <1>12 DEF GcInv, GcKeeps, NamedLoaded, Saves, InitFiles
<1> QED BY <1>2, <1>11, <1>12

\* The collector removes a file.
LEMMA GcRemoveKeeps == ASSUME GcInv, NEW f \in Disk, GcRemove(f) PROVE GcInv'
<1>1. /\ gcPc = "remove" /\ f \in candidateSet /\ f \in InitFiles
      /\ disk' = disk \ {f} /\ candidateSet' = candidateSet \ {f}
      /\ gcPc' = IF candidateSet' = {} THEN "idle" ELSE "remove"
      /\ UNCHANGED <<files, made, content, tabletVars, dag, meta, workVars, save, race,
                     loggerVars, serVars, compVars, acked, died, gcRow, missed>>
  BY DEF GcRemove, GcInv, GcTypes
<1>2. UNCHANGED <<files, made, content, live, minRow, chain, configChanged, deadFiles,
                  clonedLogs, duplicatedLogs, splitPending, dag, meta, jobs, job, save,
                  race, open, group, full, serq, serLog, serFrag, serTodo, serStack, compPc,
                  compRun, compRows, compOut, compTodo, compTab, acked, died>>
  BY <1>1 DEF tabletVars, workVars, loggerVars, serVars, compVars
<1>3. IInv'
  BY <1>1, <1>2 DEF GcInv, ServerInv, LogInv, IInv, BaseTypes, TabletsPartitionRows, Rows,
                    KnownTablets
<1>4. LogSide' /\ RunSide' /\ died' = died
  BY <1>2, LogSideQuiet, RunSideQuiet DEF GcInv, ServerInv, LogInv
<1>5. BoundSide'
  BY <1>2, QuietBounds DEF GcInv, ServerInv, LogInv
<1>6. SavedLoaded'
  BY <1>2 DEF GcInv, ServerInv, SavedLoaded, SavedTablets, Loaded, InitFiles
<1>7. RefSide'
  <2>1. /\ \A t : LogSwapped(t)' <=> LogSwapped(t)
        /\ \A t : RunSwapped(t)' <=> RunSwapped(t)
        /\ \A t, g : Swapped(t, g)' <=> Swapped(t, g)
        /\ \A t, g : Uses(t, g)' <=> Uses(t, g)
    BY <1>2 DEF LogSwapped, RunSwapped, Swapped, Uses
  <2>2. \A g : Users(g)' = Users(g)
    BY <1>2, <2>1 DEF Users
  <2>3. \A g : Count(g)' = Count(g)
    BY <1>2, <2>2 DEF Count, Kept, Undone, Waiting
  <2>4. RefSide
    BY DEF GcInv, ServerInv
  <2>5. Counted'
    BY <1>1, <1>2, <2>3, <2>4 DEF RefSide, Counted, InitFiles
  <2>6. LoadedKept' /\ UsedMade' /\ ChainsOnce' /\ DeadApart'
    BY <1>2, <2>4 DEF RefSide, LoadedKept, UsedMade, ChainsOnce, DeadApart, Waiting, InitFiles
  <2>7. UsedOnce'
    BY <1>2, <2>1, <2>4 DEF RefSide, UsedOnce, InitFiles
  <2>8. OutputsNew'
    BY <1>2, <2>1, <2>4 DEF RefSide, OutputsNew
  <2> QED BY <2>5, <2>6, <2>7, <2>8 DEF RefSide
<1>8. ServerInv'
  <2>1. DataSide'
    <3>1. Waiting' = Waiting /\ (Installing' => Installing)
      BY <1>2 DEF Waiting, Installing
    <3> QED BY <1>2, <3>1, DataQuiet DEF GcInv, ServerInv, LogInv
  <2>2. MetaSide'
    <3>1. FilesStay /\ ChangesNoted
      BY <1>2, QuietFiles DEF GcInv, ServerInv, LogInv
    <3> QED BY <1>2, <3>1, SteadyMeta DEF GcInv, ServerInv, LogInv
  <2>3. SavingLoaded'
    BY <1>2 DEF GcInv, ServerInv, SavingLoaded, SavedTablets, Saves, InitFiles
  <2> QED BY <1>3, <1>4, <1>5, <1>6, <1>7, <2>1, <2>2, <2>3 DEF GcInv, ServerInv, LogInv
<1>9. GcTypes'
  BY <1>1 DEF GcInv, GcTypes, InitFiles
<1>10. \A t \in live \ missed : NamedLoaded(t) \subseteq disk /\ NamedLoaded(t) \cap candidateSet = {}
  BY <1>1 DEF GcInv, GcKeeps
<1>11. \A t \in live \ missed : NamedLoaded(t) \subseteq disk' /\ NamedLoaded(t) \cap candidateSet' = {}
  BY <1>1, <1>10
<1>12. GcKeeps'
  <2>1. gcPc' # "scan"
    BY <1>1
  <2> QED BY <1>1, <1>2, <1>11, <2>1 DEF GcKeeps, NamedLoaded, Saves, InitFiles
<1> QED BY <1>8, <1>9, <1>12 DEF GcInv

\* Nothing happens.
LEMMA StutterGc == ASSUME GcInv, UNCHANGED <<vars, gcVars>> PROVE GcInv'
<1>1. UNCHANGED vars /\ UNCHANGED <<gcPc, gcRow, candidateSet, activeSet, missed>>
  BY DEF gcVars
<1>2. ServerInv'
  BY <1>1, NextServer DEF GcInv
<1>3. UNCHANGED <<live, chain, disk, meta, save, race>>
  BY <1>1 DEF vars, trackerVars, tabletVars
<1> QED BY <1>1, <1>2, <1>3 DEF GcInv, GcTypes, GcKeeps, NamedLoaded, Saves, InitFiles

\* Where the loaded files are beside the collector holds in every reachable
\* state, for any number of runs of it and of API threads.
THEOREM GcInvariant == GcSpec => []GcInv
<1>1. GcInit => GcInv
  <2> SUFFICES ASSUME GcInit PROVE GcInv
    OBVIOUS
  <2>1. Init /\ gcPc = "idle" /\ gcRow = 0 /\ candidateSet = {}
    BY DEF GcInit
  <2>2. ServerInv
    <3>1. SavingLoaded
      BY <2>1 DEF Init, Idle, SavingLoaded, Saves
    <3> QED BY <2>1, <3>1, InitLogs, InitRefs, InitData, InitBounds, InitMeta, InitLoaded
            DEF ServerInv
  <2>3. GcTypes
    BY <2>1, TabletAssumption DEF GcTypes
  <2>4. disk = InitFiles
    BY <2>1 DEF Init, InitFiles
  <2> QED BY <2>1, <2>2, <2>3, <2>4 DEF GcInv, GcKeeps, NamedLoaded, Saves, InitFiles
<1>2. GcInv /\ [GcNext]_<<vars, gcVars>> => GcInv'
  BY ServerStepGc, GcListKeeps, GcReadKeeps, GcRemoveKeeps, StutterGc DEF GcNext, GcThread
<1> QED BY <1>1, <1>2, PTL DEF GcSpec

\* The collector removes no file of a tablet whose META row its scan has read,
\* or that was split from such a tablet behind the scan's back: what it lists
\* and what it reads may change under it, but a tablet only ever has fewer of
\* the files it was loaded with than its row gives.
THEOREM CollectorKeeps == GcSpec => []CollectorKeepsSavedFiles
<1>1. GcInv => CollectorKeepsSavedFiles
  <2> SUFFICES ASSUME GcInv, NEW t \in live \ missed, NEW f \in ToSet(chain[t])
               PROVE  f \in disk
    BY DEF CollectorKeepsSavedFiles, FilesExist
  <2> USE DEF GcInv, ServerInv, LogInv
  <2>1. CASE f \in InitFiles
    BY <2>1 DEF GcKeeps, NamedLoaded, Saves, InitFiles
  <2>2. CASE f \notin InitFiles
    <3>1. t \in Row /\ Uses(t, f)
      BY RefTypes DEF Uses
    <3>2. f \in made
      BY <3>1 DEF RefSide, UsedMade
    <3> QED BY <2>2, <3>1, <3>2, UsedFilesExist
  <2> QED BY <2>1, <2>2
<1> QED BY <1>1, GcInvariant, PTL

\* A restart finds the files that META names for a tablet whose saves have not
\* overlapped, in spite of what saveConfig() and the collector remove: a
\* replaced file is set free by the save that drops it from META, and what the
\* collector lists was in the row when it read it.
THEOREM CollectorKeepsMeta == GcSpec => []SavedFilesKept
<1>1. GcInv => SavedFilesKept
  <2> SUFFICES ASSUME GcInv, NEW t \in Row \ missed, race[t] = "none",
                      NEW f \in SavedFiles(t)
               PROVE  f \in disk
    BY DEF SavedFilesKept, SavedFilesExist
  <2> USE DEF GcInv, ServerInv, LogInv
  <2>1. t \in SavedTablets /\ meta[t] # None /\ f \in ToSet(meta[t].uris)
    BY DEF SavedFiles, SavedTablets
  <2>2. t \in live /\ Names(t, meta[t])
    BY <2>1, SavedFacts DEF MetaSide, SavedUsed
  <2>3. CASE f \in InitFiles
    <3>1. f \in NamedLoaded(t)
      BY <2>1, <2>3 DEF NamedLoaded
    <3> QED BY <2>2, <3>1 DEF GcKeeps
  <2>4. CASE f \notin InitFiles
    <3>1. Uses(t, f)
      BY <2>1, <2>2, <2>4 DEF Names
    <3>2. f \in made
      BY <2>1, <2>2, NamesMade
    <3> QED BY <2>2, <2>4, <3>1, <3>2, UsedFilesExist
  <2> QED BY <2>3, <2>4
<1> QED BY <1>1, GcInvariant, PTL

\* The collector leaves the files of this server to their reference counts.
THEOREM CollectorCounts == GcSpec => []RefsCountHolders
<1>1. GcInv => RefsCountHolders
  BY HoldersCount DEF GcInv, ServerInv, RefSide, Counted, RefsCountHolders, InitFiles
<1> QED BY <1>1, GcInvariant, PTL
=============================================================================
