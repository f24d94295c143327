---------------------------- MODULE NetScanProofs ----------------------------
(***************************************************************************)
(* Proofs about NetScan, for any cells, predicates and limits.             *)
(*                                                                         *)
(* The client and the server agree on what is still to come.  What the     *)
(* client has got is what is due up to the last cell fetched (GotAll); the *)
(* rest will come from the block that is on its way and the scanner that   *)
(* the client has, if the cache still has it (StreamAhead), or from a      *)
(* scanner opened at lastKey (KeyIsLast).  The cache counts who uses a     *)
(* scanner (CacheFits), and calls that the client has given up on are on   *)
(* scanners that it never uses again (CallsMatch).                         *)
(***************************************************************************)
EXTENDS NetScan, SequenceLemmas

Closing == {"close", "closewait", "gone"}

Types ==
    /\ cpc \in {"out", "release", "next", "wait", "timed"} \cup Closing
    /\ emptyQ \in Nat /\ readyQ \in Seq((SUBSET Cell) \ {{}})
    /\ activeBuf \subseteq Cell /\ lastBuf \in Cell \cup {0}
    /\ lastKey \in KeySet \cup {None}
    /\ eos \in BOOLEAN /\ pending \in BOOLEAN /\ error \in BOOLEAN
    /\ scannerOpen \in BOOLEAN /\ scanner \in Id \cup {None}
    /\ calls \in [Call -> CallSet \cup {None}] /\ now \in Call
    /\ cache \in Seq(Items) /\ mark \in BOOLEAN
    /\ left \in [Id -> SUBSET Cell]
    /\ due \subseteq Cell /\ seen \in Seq(Cell) /\ lost \in BOOLEAN
    /\ status \in {"new", "open", "end", "error"}

\* Before the scan begins nothing has happened; inside nextBuffer() and
\* releaseBuffer() no buffer is active; the destructor ends the stream.
ClientAt ==
    /\ status = "new" =>
           /\ cpc = "out" /\ activeBuf = {} /\ readyQ = <<>> /\ lastBuf = 0
           /\ lastKey = None /\ ~eos /\ ~pending /\ ~scannerOpen
           /\ seen = <<>> /\ ~lost
    /\ cpc \notin {"out"} \cup Closing => status = "open" /\ activeBuf = {}
    /\ cpc \in Closing => eos

-----------------------------------------------------------------------------
(* Calls and the cache.                                                    *)

\* The replies there can be to a call.
Replies(op) ==
    CASE op = "scan" -> ScanReply
      [] op = "fetch" -> FetchReply \cup ErrorReplies
      [] op = "close" -> CloseReply \cup [kind : {"notexist"}]

CallIsSound(n) ==
    calls[n] # None =>
        /\ n <= now
        /\ IF calls[n].op = "scan" THEN calls[n].id = None /\ calls[n].at # "run"
           ELSE calls[n].id \in Id
        /\ calls[n].at = "done" => n = now /\ calls[n].reply \in Replies(calls[n].op)

\* The reply to a scan() or getBulk() that has succeeded.
Opening == calls[now] # None /\ calls[now].op = "scan" /\ calls[now].at = "done"
Fetched == /\ calls[now] # None /\ calls[now].op = "fetch"
           /\ calls[now].at = "done" /\ calls[now].reply.kind = "ok"

\* The scanner that the client has or is about to have.
Current == IF scannerOpen THEN scanner
           ELSE IF Opening THEN calls[now].reply.id ELSE None

\* Calls on a scanner that the client has given up.
Given(n) == n < now /\ calls[n] # None /\ calls[n].op # "scan"

CallsMatch ==
    /\ \A n \in Call : CallIsSound(n)
    /\ pending <=> calls[now] # None
    /\ scannerOpen <=> scanner # None
    /\ calls[now] # None =>
           IF calls[now].op = "scan" THEN ~scannerOpen
           ELSE scannerOpen /\ calls[now].id = scanner
    /\ calls[now] # None /\ calls[now].op = "close" => eos
    /\ \A n \in Call : Given(n) =>
           /\ calls[n].id # Current
           /\ \A m \in Call : Given(m) /\ m # n => calls[m].id # calls[n].id

\* A cache in which those with the keys H are held, once each.
CacheFits(c, H) ==
    /\ c \in Seq(Items)
    /\ \A x \in ToSet(c) : x.refs = IF x.key \in H THEN 1 ELSE 0
    /\ \A k \in H : \E x \in ToSet(c) : x.key = k
    /\ Len(c) > CacheMax => \A x \in ToSet(c) : x.key \in H

Runs == {n \in Call : calls[n] # None /\ calls[n].at = "run"}
InUse == {calls[n].id : n \in Runs} \cup (IF mark THEN {Mark} ELSE {})
CacheCounts == CacheFits(cache, InUse)

\* Without failures only the client's scanner is in the cache, and not any
\* more when it has been closed.
NothingElse ==
    now = 0 /\ ~error =>
        /\ Keys(cache) \subseteq {Mark, Current}
        /\ calls[now] # None /\ calls[now].at = "done" =>
               \/ calls[now].op = "scan" \/ calls[now].reply.kind = "raised"
               \/ calls[now].op = "fetch" /\ calls[now].reply.kind = "ok"
               \/ Keys(cache) \subseteq {Mark}
        /\ cpc = "gone" => ~pending /\ ~scannerOpen

-----------------------------------------------------------------------------
(* Buffers and cells.                                                      *)

BuffersAccounted ==
    /\ calls[now] # None /\ calls[now].op = "fetch" => emptyQ > 0
    /\ emptyQ + Len(readyQ) + (IF activeBuf = {} /\ cpc # "release" THEN 0 ELSE 1)
           = NBuffers

InReady == UNION {readyQ[i] : i \in 1..Len(readyQ)}
Returned == {seen[i] : i \in 1..Len(seen)}
Got == Returned \cup activeBuf \cup InReady

\* What the client has got is in the order in which it will be returned.
InOrder ==
    /\ \A c \in Got : c <= lastBuf
    /\ \A c \in Returned : \A d \in activeBuf \cup InReady : c < d
    /\ \A c \in activeBuf : \A d \in InReady : c < d
    /\ \A i, j \in 1..Len(readyQ) :
           i < j => \A c \in readyQ[i] : \A d \in readyQ[j] : c < d

\* All that is due up to the last cell fetched; all of it at the end.
GotAll ==
    ~lost => /\ \A c \in due : c <= lastBuf => c \in Got
             /\ eos /\ ~error /\ cpc \notin Closing => due \subseteq Got

\* lastKey, while it is set, is the key of the last cell fetched.
KeyIsLast ==
    /\ lastKey # None =>
           /\ lastBuf # 0 /\ lastKey.row = RowOf[lastBuf]
           /\ lastKey.cell \in {None, lastBuf}
           /\ ~lost => \A c \in due : c > lastBuf => After(lastKey, c)
    /\ calls[now] # None /\ calls[now].op = "scan" =>
           /\ lastKey = None => lastBuf = 0
           /\ calls[now].row = IF lastKey = None THEN 0 ELSE lastKey.row

Block == IF Fetched THEN calls[now].reply.block ELSE {}

\* The block that is on its way, and then what the scanner has not read, go on
\* where the client is.
StreamAhead ==
    /\ lastKey = None => \A c \in Block : c > lastBuf
    /\ Current \in Keys(cache) =>
           /\ lastKey = None => \A c \in left[Current] : c > lastBuf
           /\ \A b \in Block : \A c \in left[Current] : b < c
           /\ ~lost => \A c \in due : c > lastBuf => c \in Block \cup left[Current]
    /\ ~lost =>
           /\ \A c \in due : \A d \in Block : lastBuf < c /\ c <= d => c \in Block
           /\ Fetched /\ calls[now].reply.last =>
                  \A c \in due : c > lastBuf => c \in Block

IInv == /\ Types /\ ClientAt /\ CallsMatch /\ CacheCounts
        /\ NothingElse /\ BuffersAccounted /\ InOrder /\ GotAll
        /\ KeyIsLast /\ StreamAhead

-----------------------------------------------------------------------------
(* The cache.                                                              *)

CacheKey == Id \cup {Mark}

\* Keys in terms of the items.
LEMMA KeysOf ==
    ASSUME NEW c \in Seq(Items)
    PROVE  /\ Keys(c) = {x.key : x \in ToSet(c)}
           /\ ToSet(c) \subseteq Items
           /\ \A i \in 1..Len(c) : c[i] \in ToSet(c)
<1>1. DOMAIN c = 1..Len(c) /\ \A i \in 1..Len(c) : c[i] \in Items
  OBVIOUS
<1> QED BY <1>1 DEF Keys, ToSet

\* What Without, Held and DropOrMark keep.
LEMMA WithoutFacts ==
    ASSUME NEW c \in Seq(Items), NEW K
    PROVE  /\ Without(c, K) \in Seq(Items)
           /\ ToSet(Without(c, K)) = {x \in ToSet(c) : x.key \notin K}
           /\ Len(Without(c, K)) <= Len(c)
           /\ (\E x \in ToSet(c) : x.key \in K) => Len(Without(c, K)) < Len(c)
<1> DEFINE S == {c[i] : i \in {j \in 1..Len(c) : c[j].key \notin K}}
<1>1. Without(c, K) = Selected(c, S)
  BY DEF Without, ItemsWhere
<1>2. ToSet(c) \cap S = {x \in ToSet(c) : x.key \notin K}
  BY KeysOf DEF ToSet
<1> HIDE DEF S
<1>3. /\ Selected(c, S) \in Seq(Items)
      /\ ToSet(Selected(c, S)) = ToSet(c) \cap S
      /\ Len(Selected(c, S)) <= Len(c)
      /\ Len(Selected(c, S)) < Len(c) \/ ToSet(c) \subseteq S
  BY SelectedStep, SelectedProperties
<1> QED BY <1>1, <1>2, <1>3

LEMMA HeldFacts ==
    ASSUME NEW c \in Seq(Items)
    PROVE  /\ Held(c) \in Seq(Items)
           /\ ToSet(Held(c)) = {x \in ToSet(c) : x.refs > 0}
           /\ Len(Held(c)) <= Len(c)
<1> DEFINE S == {c[i] : i \in {j \in 1..Len(c) : c[j].refs > 0}}
<1>1. Held(c) = Selected(c, S)
  BY DEF Held, ItemsWhere
<1>2. ToSet(c) \cap S = {x \in ToSet(c) : x.refs > 0}
  BY KeysOf DEF ToSet
<1> HIDE DEF S
<1>3. /\ Selected(c, S) \in Seq(Items)
      /\ ToSet(Selected(c, S)) = ToSet(c) \cap S
      /\ Len(Selected(c, S)) <= Len(c)
  BY SelectedStep, SelectedProperties
<1> QED BY <1>1, <1>2, <1>3

\* flushToSize() drops only items that nobody holds, and as many as it must
\* if there are enough.
LEMMA FlushedFacts ==
    ASSUME NEW c \in Seq(Items), NEW n \in Nat
    PROVE  /\ Flushed(c, n) \in Seq(Items)
           /\ ToSet(Flushed(c, n)) \subseteq ToSet(c)
           /\ \A x \in ToSet(c) : x.refs > 0 => x \in ToSet(Flushed(c, n))
           /\ Len(Flushed(c, n)) <= Len(c)
           /\ \/ n - (Len(c) - Len(Flushed(c, n))) <= CacheMax
              \/ \A x \in ToSet(Flushed(c, n)) : x.refs > 0
<1> DEFINE Fore(i) == Held(SubSeq(c, 1, i))
           Far(i) == i = Len(c) \/ n - (i - Len(Fore(i))) <= CacheMax
           at == CHOOSE i \in 0..Len(c) : Far(i) /\ \A j \in 0..(i - 1) : ~Far(j)
           rest == SubSeq(c, at + 1, Len(c))
<1>1. at \in 0..Len(c) /\ Far(at)
  <2> DEFINE S == {i \in 0..Len(c) : Far(i)}
  <2>1. Len(c) \in S /\ S \in SUBSET Nat
    OBVIOUS
  <2> HIDE DEF S
  <2>2. PICK i \in S : \A j \in S : i <= j
    BY <2>1, LeastNat
  <2>3. i \in 0..Len(c) /\ Far(i)
    BY <2>2 DEF S
  <2>4. \A j \in 0..(i - 1) : j \in 0..Len(c) /\ ~(i <= j)
    BY <2>3
  <2>5. \A j \in 0..(i - 1) : ~Far(j)
    <3> HIDE DEF Far
    <3> QED BY <2>2, <2>4 DEF S
  <2> HIDE DEF Far
  <2> QED BY <2>3, <2>5
<1>2. Flushed(c, n) = Fore(at) \o rest
  BY DEF Flushed
<1> HIDE DEF at
<1>3. /\ SubSeq(c, 1, at) \in Seq(Items) /\ Len(SubSeq(c, 1, at)) = at
      /\ \A i \in 1..at : SubSeq(c, 1, at)[i] = c[i]
  BY <1>1
<1>4. /\ rest \in Seq(Items) /\ Len(rest) = Len(c) - at
      /\ \A i \in 1..(Len(c) - at) : rest[i] = c[at + i]
  <2>1. at + 1 \in Int /\ Len(c) \in Int /\ \A i \in (at + 1)..Len(c) : c[i] \in Items
    BY <1>1
  <2>2. /\ rest \in Seq(Items)
        /\ Len(rest) = IF at + 1 <= Len(c) THEN Len(c) - (at + 1) + 1 ELSE 0
        /\ \A i \in 1..(Len(c) - (at + 1) + 1) : rest[i] = c[at + 1 + i - 1]
    BY <2>1, SubSeqProperties
  <2> HIDE DEF rest
  <2>3. Len(rest) = Len(c) - at
    BY <1>1, <2>2
  <2>4. ASSUME NEW i \in 1..(Len(c) - at) PROVE rest[i] = c[at + i]
    <3>1. i \in 1..(Len(c) - (at + 1) + 1) /\ at + 1 + i - 1 = at + i
      BY <1>1
    <3> QED BY <3>1, <2>2
  <2> QED BY <2>2, <2>3, <2>4
<1>5. /\ ToSet(SubSeq(c, 1, at)) = {c[i] : i \in 1..at}
      /\ ToSet(rest) = {c[i] : i \in (at + 1)..Len(c)}
  <2>1. ToSet(SubSeq(c, 1, at)) = {c[i] : i \in 1..at}
    BY <1>3 DEF ToSet
  <2>2. DOMAIN rest = 1..(Len(c) - at)
    BY <1>4
  <2>3. \A i \in (at + 1)..Len(c) :
            i - at \in 1..(Len(c) - at) /\ c[i] = rest[i - at]
    <3> SUFFICES ASSUME NEW i \in (at + 1)..Len(c)
                 PROVE  i - at \in 1..(Len(c) - at) /\ c[i] = rest[i - at]
      OBVIOUS
    <3>1. i - at \in 1..(Len(c) - at) /\ at + (i - at) = i
      BY <1>1
    <3> QED BY <3>1, <1>4
  <2>4. \A i \in 1..(Len(c) - at) : at + i \in (at + 1)..Len(c)
    BY <1>1
  <2>5. ToSet(rest) = {rest[i] : i \in 1..(Len(c) - at)}
    BY <2>2 DEF ToSet
  <2>6. \A i \in 1..(Len(c) - at) : rest[i] = c[at + i]
    BY <1>4
  <2> HIDE DEF rest
  <2>7. ASSUME NEW x \in ToSet(rest) PROVE x \in {c[i] : i \in (at + 1)..Len(c)}
    <3>1. PICK i \in 1..(Len(c) - at) : x = rest[i]
      BY <2>5
    <3>2. x = c[at + i] /\ at + i \in (at + 1)..Len(c)
      BY <3>1, <2>4, <2>6
    <3> QED BY <3>2
  <2>8. ASSUME NEW x \in {c[i] : i \in (at + 1)..Len(c)} PROVE x \in ToSet(rest)
    <3>1. PICK i \in (at + 1)..Len(c) : x = c[i]
      OBVIOUS
    <3>2. x = rest[i - at] /\ i - at \in 1..(Len(c) - at)
      BY <3>1, <2>3
    <3> QED BY <3>2, <2>5
  <2> QED BY <2>1, <2>7, <2>8
<1>6. ToSet(c) = {c[i] : i \in 1..at} \cup {c[i] : i \in (at + 1)..Len(c)}
  <2>1. ToSet(c) = {c[i] : i \in 1..Len(c)}
    BY DEF ToSet
  <2>2. 1..Len(c) = (1..at) \cup ((at + 1)..Len(c))
    BY <1>1
  <2> QED BY <2>1, <2>2
<1> DEFINE f == Fore(at)
<1>7. /\ f \in Seq(Items) /\ Len(f) <= at
      /\ ToSet(f) = {x \in ToSet(SubSeq(c, 1, at)) : x.refs > 0}
  BY <1>3, HeldFacts
<1>8. Far(at) <=> at = Len(c) \/ n - (at - Len(f)) <= CacheMax
  OBVIOUS
<1> HIDE DEF f, rest, Far
<1>9. /\ Flushed(c, n) \in Seq(Items)
      /\ ToSet(Flushed(c, n)) = ToSet(f) \cup ToSet(rest)
      /\ Len(Flushed(c, n)) = Len(f) + Len(rest)
  <2>1. Flushed(c, n) = f \o rest
    BY <1>2 DEF f
  <2>2. f \in Seq(Items) /\ rest \in Seq(Items)
    BY <1>4, <1>7
  <2>3. f \o rest \in Seq(Items) /\ Len(f \o rest) = Len(f) + Len(rest)
    BY <2>2
  <2>4. ToSet(f \o rest) = ToSet(f) \cup ToSet(rest)
    BY <2>2, ToSetProperties
  <2> QED BY <2>1, <2>3, <2>4
<1>10. ToSet(Flushed(c, n)) \subseteq ToSet(c)
  BY <1>5, <1>6, <1>7, <1>9
<1>11. \A x \in ToSet(c) : x.refs > 0 => x \in ToSet(Flushed(c, n))
  BY <1>5, <1>6, <1>7, <1>9
<1>12. Len(Flushed(c, n)) <= Len(c)
  BY <1>1, <1>4, <1>7, <1>9
<1>13. \/ n - (Len(c) - Len(Flushed(c, n))) <= CacheMax
       \/ \A x \in ToSet(Flushed(c, n)) : x.refs > 0
  <2>1. CASE at = Len(c)
    <3>1. ToSet(rest) = {}
      BY <2>1, <1>1, <1>5
    <3> QED BY <3>1, <1>7, <1>9
  <2>2. CASE n - (at - Len(f)) <= CacheMax
    <3>1. Len(f) \in Nat /\ Len(c) \in Nat /\ at \in Nat /\ CacheMax \in Int
      BY <1>1, <1>7, NetScanAssumption DEF CacheMax
    <3>2. Len(c) - Len(Flushed(c, n)) = at - Len(f)
      BY <3>1, <1>4, <1>9
    <3> QED BY <2>2, <3>2
  <2> QED BY <1>1, <1>8, <2>1, <2>2
<1> QED BY <1>9, <1>10, <1>11, <1>12, <1>13

\* get() adds a holder.
LEMMA GetFacts ==
    ASSUME NEW c, NEW H, CacheFits(c, H), NEW k \in CacheKey, k \notin H
    PROVE  /\ CacheFits(CacheGet(c, k), H \cup {k})
           /\ Keys(CacheGet(c, k)) \subseteq Keys(c) \cup {k}
<1> DEFINE G == CacheGet(c, k)
<1>0. c \in Seq(Items) /\ ToSet(c) \subseteq Items /\ Keys(c) = {x.key : x \in ToSet(c)}
  BY KeysOf DEF CacheFits
<1>1. ASSUME NEW d \in Seq(Items), NEW x \in Items, x.key = k, x.refs = 1,
             ToSet(d) \subseteq ToSet(c), \A y \in ToSet(d) : y.key # k,
             \A y \in ToSet(c) : y.key \in H => y \in ToSet(d),
             \/ Len(d) + 1 <= CacheMax
             \/ \A y \in ToSet(d) : y.key \in H
      PROVE  /\ CacheFits(Append(d, x), H \cup {k})
             /\ Keys(Append(d, x)) \subseteq Keys(c) \cup {k}
  <2>1. /\ Append(d, x) \in Seq(Items) /\ Len(Append(d, x)) = Len(d) + 1
        /\ ToSet(Append(d, x)) = ToSet(d) \cup {x}
    BY <1>1, ToSetProperties
  <2>2. Keys(Append(d, x)) = {y.key : y \in ToSet(d) \cup {x}}
    BY <2>1, KeysOf
  <2>3. Keys(Append(d, x)) \subseteq Keys(c) \cup {k}
    BY <2>2, <1>0, <1>1
  <2>4. \A y \in ToSet(Append(d, x)) : y.refs = IF y.key \in H \cup {k} THEN 1 ELSE 0
    BY <2>1, <1>1 DEF CacheFits
  <2>5. \A j \in H \cup {k} : \E y \in ToSet(Append(d, x)) : y.key = j
    BY <2>1, <1>1 DEF CacheFits
  <2>6. Len(Append(d, x)) > CacheMax =>
            \A y \in ToSet(Append(d, x)) : y.key \in H \cup {k}
    <3>1. CASE Len(d) + 1 <= CacheMax
      <4>1. Len(d) \in Nat /\ CacheMax \in Int
        BY NetScanAssumption DEF CacheMax
      <4> QED BY <4>1, <3>1, <2>1
    <3>2. CASE \A y \in ToSet(d) : y.key \in H
      BY <3>2, <2>1, <1>1
    <3> QED BY <3>1, <3>2, <1>1
  <2> QED BY <2>1, <2>3, <2>4, <2>5, <2>6 DEF CacheFits
<1>2. CASE k \in Keys(c)
  <2> DEFINE x == [key |-> k, refs |-> ItemOf(c, k).refs + 1, removed |-> FALSE]
             d == Without(c, {k})
  <2>1. PICK i \in 1..Len(c) : c[i].key = k
    BY <1>2 DEF Keys
  <2>2. ItemOf(c, k) \in ToSet(c) /\ ItemOf(c, k).key = k
    <3> DEFINE j == CHOOSE j \in 1..Len(c) : c[j].key = k
    <3>1. j \in 1..Len(c) /\ c[j].key = k
      BY <2>1
    <3>2. ItemOf(c, k) = c[j]
      BY DEF ItemOf
    <3> HIDE DEF j
    <3> QED BY <3>1, <3>2, <1>0, KeysOf
  <2>3. ItemOf(c, k).refs = 0
    BY <2>2 DEF CacheFits
  <2>4. x \in Items /\ x.key = k /\ x.refs = 1
    BY <2>3 DEF Items, CacheKey
  <2>5. /\ d \in Seq(Items) /\ ToSet(d) = {y \in ToSet(c) : y.key # k}
        /\ Len(d) < Len(c)
    BY <1>0, <2>2, WithoutFacts
  <2>6. Len(d) + 1 <= CacheMax \/ \A y \in ToSet(d) : y.key \in H
    <3>1. Len(d) \in Nat /\ Len(c) \in Nat /\ CacheMax \in Int
      BY <1>0, <2>5, NetScanAssumption DEF CacheMax
    <3>2. CASE Len(c) > CacheMax
      BY <3>2, <2>5 DEF CacheFits
    <3>3. CASE ~(Len(c) > CacheMax)
      BY <3>1, <3>3, <2>5
    <3> QED BY <3>2, <3>3
  <2>7. G = Append(d, x)
    BY <1>2 DEF CacheGet
  <2>8. \A y \in ToSet(c) : y.key \in H => y \in ToSet(d)
    BY <2>5
  <2>9. ToSet(d) \subseteq ToSet(c) /\ \A y \in ToSet(d) : y.key # k
    BY <2>5
  <2> HIDE DEF d, x, G
  <2>10. d \in Seq(Items)
    BY <2>5
  <2>11. /\ CacheFits(Append(d, x), H \cup {k})
         /\ Keys(Append(d, x)) \subseteq Keys(c) \cup {k}
    BY <2>10, <2>4, <2>6, <2>8, <2>9, <1>1
  <2> QED BY <2>7, <2>11 DEF G
<1>3. CASE k \notin Keys(c)
  <2> DEFINE x == [key |-> k, refs |-> 1, removed |-> FALSE]
             d == Flushed(c, Len(c) + 1)
  <2>1. x \in Items /\ x.key = k /\ x.refs = 1
    BY DEF Items, CacheKey
  <2>2. Len(c) \in Nat /\ Len(c) + 1 \in Nat /\ CacheMax \in Int
    BY <1>0, NetScanAssumption DEF CacheMax
  <2>3. /\ d \in Seq(Items) /\ ToSet(d) \subseteq ToSet(c)
        /\ \A y \in ToSet(c) : y.refs > 0 => y \in ToSet(d)
        /\ Len(d) <= Len(c)
        /\ \/ Len(c) + 1 - (Len(c) - Len(d)) <= CacheMax
           \/ \A y \in ToSet(d) : y.refs > 0
    BY <1>0, <2>2, FlushedFacts
  <2>4. G = Append(d, x)
    BY <1>3 DEF CacheGet
  <2> HIDE DEF d, x, G
  <2>5. \A y \in ToSet(d) : y.key # k
    BY <2>3, <1>0, <1>3
  <2>6. \A y \in ToSet(c) : y.refs > 0 <=> y.key \in H
    BY DEF CacheFits
  <2>7. \A y \in ToSet(c) : y.key \in H => y \in ToSet(d)
    BY <2>3, <2>6
  <2>8. Len(d) + 1 <= CacheMax \/ \A y \in ToSet(d) : y.key \in H
    <3>1. Len(d) \in Nat
      BY <2>3
    <3>2. CASE Len(c) + 1 - (Len(c) - Len(d)) <= CacheMax
      BY <3>1, <3>2, <2>2
    <3>3. CASE \A y \in ToSet(d) : y.refs > 0
      BY <3>3, <2>3, <2>6
    <3> QED BY <3>2, <3>3, <2>3
  <2>9. d \in Seq(Items) /\ ToSet(d) \subseteq ToSet(c)
    BY <2>3
  <2>10. /\ CacheFits(Append(d, x), H \cup {k})
         /\ Keys(Append(d, x)) \subseteq Keys(c) \cup {k}
    BY <2>1, <2>5, <2>7, <2>8, <2>9, <1>1
  <2> QED BY <2>4, <2>10 DEF G
<1> QED BY <1>2, <1>3

\* release() takes a holder away.
LEMMA ReleaseFacts ==
    ASSUME NEW c, NEW H, CacheFits(c, H), NEW k \in H
    PROVE  /\ CacheFits(CacheRelease(c, k), H \ {k})
           /\ Keys(CacheRelease(c, k)) \subseteq Keys(c)
           /\ (\A x \in ToSet(c) : x.key = k => x.removed) =>
                  k \notin Keys(CacheRelease(c, k))
<1> DEFINE R == CacheRelease(c, k)
<1>0. /\ c \in Seq(Items) /\ ToSet(c) \subseteq Items
      /\ Keys(c) = {x.key : x \in ToSet(c)}
      /\ \A i \in 1..Len(c) : c[i] \in ToSet(c)
  BY KeysOf DEF CacheFits
<1>1. ItemOf(c, k) \in ToSet(c) /\ ItemOf(c, k).key = k
  <2> DEFINE j == CHOOSE j \in 1..Len(c) : c[j].key = k
  <2>1. k \in Keys(c)
    BY <1>0 DEF CacheFits
  <2>2. j \in 1..Len(c) /\ c[j].key = k
    BY <2>1 DEF Keys
  <2>3. ItemOf(c, k) = c[j]
    BY DEF ItemOf
  <2> HIDE DEF j
  <2> QED BY <2>2, <2>3, <1>0
<1>2. ItemOf(c, k).refs = 1
  BY <1>1 DEF CacheFits
<1>3. CASE ItemOf(c, k).removed \/ Len(c) > CacheMax
  <2> DEFINE d == Without(c, {k})
  <2>1. R = d
    BY <1>2, <1>3 DEF CacheRelease
  <2>2. /\ d \in Seq(Items) /\ ToSet(d) = {y \in ToSet(c) : y.key # k}
        /\ Len(d) <= Len(c)
    BY <1>0, WithoutFacts
  <2> HIDE DEF d, R
  <2>3. Keys(d) = {y.key : y \in ToSet(d)}
    BY <2>2, KeysOf
  <2>4. Keys(d) \subseteq Keys(c) /\ k \notin Keys(d)
    BY <2>2, <2>3, <1>0
  <2>5. Len(d) > CacheMax => Len(c) > CacheMax
    <3>1. Len(d) \in Nat /\ Len(c) \in Nat /\ CacheMax \in Int
      BY <1>0, <2>2, NetScanAssumption DEF CacheMax
    <3> QED BY <3>1, <2>2
  <2>6. CacheFits(d, H \ {k})
    BY <2>2, <2>5 DEF CacheFits
  <2> QED BY <2>1, <2>4, <2>6 DEF R
<1>4. CASE ~(ItemOf(c, k).removed \/ Len(c) > CacheMax)
  <2> DEFINE Less(x) == IF x.key = k THEN [x EXCEPT !.refs = @ - 1] ELSE x
             d == [i \in 1..Len(c) |-> Less(c[i])]
  <2>1. R = d
    BY <1>2, <1>4 DEF CacheRelease
  <2>2. \A x \in ToSet(c) :
            /\ Less(x) \in Items /\ Less(x).key = x.key
            /\ x.key # k => Less(x) = x
            /\ x.key = k => Less(x).refs = 0
    <3> SUFFICES ASSUME NEW x \in ToSet(c)
                 PROVE  /\ Less(x) \in Items /\ Less(x).key = x.key
                        /\ x.key # k => Less(x) = x
                        /\ x.key = k => Less(x).refs = 0
      OBVIOUS
    <3>1. x \in Items
      BY <1>0
    <3>2. CASE x.key = k
      <4>1. x.refs = 1
        BY <3>2 DEF CacheFits
      <4> QED BY <4>1, <3>1, <3>2 DEF Items
    <3>3. CASE x.key # k
      BY <3>1, <3>3
    <3> QED BY <3>2, <3>3
  <2> HIDE DEF Less
  <2>3. Len(c) \in Nat
    BY <1>0
  <2>4. d \in Seq(Items) /\ Len(d) = Len(c)
    BY <2>2, <2>3, <1>0
  <2>5. ToSet(d) = {Less(x) : x \in ToSet(c)}
    <3>1. ToSet(d) = {Less(c[i]) : i \in 1..Len(c)}
      BY <2>4 DEF ToSet
    <3>2. ToSet(c) = {c[i] : i \in 1..Len(c)}
      BY <1>0 DEF ToSet
    <3> QED BY <3>1, <3>2
  <2> HIDE DEF d, R
  <2>6. Keys(d) = {y.key : y \in ToSet(d)}
    BY <2>4, KeysOf
  <2>7. Keys(d) \subseteq Keys(c)
    BY <2>2, <2>5, <2>6, <1>0
  <2>8. \A y \in ToSet(d) : y.refs = IF y.key \in H \ {k} THEN 1 ELSE 0
    BY <2>2, <2>5 DEF CacheFits
  <2>9. \A j \in H \ {k} : \E y \in ToSet(d) : y.key = j
    BY <2>2, <2>5 DEF CacheFits
  <2>10. CacheFits(d, H \ {k})
    BY <1>4, <2>4, <2>8, <2>9 DEF CacheFits
  <2> QED BY <1>1, <1>4, <2>1, <2>7, <2>10 DEF R
<1> QED BY <1>3, <1>4

\* remove() and removeUntil() drop what nobody holds and mark the rest.
LEMMA DropFacts ==
    ASSUME NEW c, NEW H, CacheFits(c, H), NEW K
    PROVE  /\ CacheFits(DropOrMark(c, K), H)
           /\ Keys(DropOrMark(c, K)) \subseteq Keys(c)
           /\ \A x \in ToSet(DropOrMark(c, K)) : x.key \in K => x.removed
<1> DEFINE S == {c[i] : i \in {j \in 1..Len(c) : c[j].key \notin K \/ c[j].refs > 0}}
           rest == Selected(c, S)
           Mk(x) == [x EXCEPT !.removed = @ \/ x.key \in K]
           d == [i \in 1..Len(rest) |-> Mk(rest[i])]
<1>0. /\ c \in Seq(Items) /\ ToSet(c) \subseteq Items
      /\ Keys(c) = {x.key : x \in ToSet(c)}
  BY KeysOf DEF CacheFits
<1>1. DropOrMark(c, K) = d
  BY DEF DropOrMark, ItemsWhere
<1>2. ToSet(c) \cap S = {x \in ToSet(c) : x.key \notin K \/ x.refs > 0}
  BY <1>0, KeysOf DEF ToSet
<1> HIDE DEF S
<1>3. /\ rest \in Seq(Items)
      /\ ToSet(rest) = {x \in ToSet(c) : x.key \notin K \/ x.refs > 0}
      /\ Len(rest) <= Len(c)
  BY <1>0, <1>2, SelectedStep, SelectedProperties
<1>4. \A x \in Items : /\ Mk(x) \in Items /\ Mk(x).key = x.key
                       /\ Mk(x).refs = x.refs
                       /\ x.key \in K => Mk(x).removed
  BY DEF Items
<1> HIDE DEF rest, Mk
<1>5. ToSet(rest) \subseteq Items /\ \A i \in 1..Len(rest) : rest[i] \in ToSet(rest)
  BY <1>3, KeysOf
<1>6. Len(rest) \in Nat
  BY <1>3
<1>7. d \in Seq(Items) /\ Len(d) = Len(rest)
  BY <1>4, <1>5, <1>6
<1>8. ToSet(d) = {Mk(x) : x \in ToSet(rest)}
  <2>1. ToSet(d) = {Mk(rest[i]) : i \in 1..Len(rest)}
    BY <1>7 DEF ToSet
  <2>2. ToSet(rest) = {rest[i] : i \in 1..Len(rest)}
    BY <1>3 DEF ToSet
  <2> QED BY <2>1, <2>2
<1> HIDE DEF d
<1>9. Keys(d) = {y.key : y \in ToSet(d)}
  BY <1>7, KeysOf
<1>10. Keys(d) \subseteq Keys(c)
  BY <1>0, <1>3, <1>4, <1>5, <1>8, <1>9
<1>11. \A y \in ToSet(d) : y.refs = IF y.key \in H THEN 1 ELSE 0
  BY <1>3, <1>4, <1>5, <1>8 DEF CacheFits
<1>12. \A j \in H : \E y \in ToSet(d) : y.key = j
  <2> SUFFICES ASSUME NEW j \in H PROVE \E y \in ToSet(d) : y.key = j
    OBVIOUS
  <2>1. PICK x \in ToSet(c) : x.key = j
    BY DEF CacheFits
  <2>2. x.refs = 1
    BY <2>1 DEF CacheFits
  <2>3. x \in ToSet(rest)
    BY <2>1, <2>2, <1>3
  <2> QED BY <2>1, <2>3, <1>4, <1>5, <1>8
<1>13. Len(d) > CacheMax => \A y \in ToSet(d) : y.key \in H
  <2>1. Len(rest) \in Nat /\ Len(c) \in Nat /\ CacheMax \in Int
    BY <1>0, <1>3, NetScanAssumption DEF CacheMax
  <2>2. Len(d) > CacheMax => Len(c) > CacheMax
    BY <2>1, <1>3, <1>7
  <2>3. Len(c) > CacheMax => \A x \in ToSet(c) : x.key \in H
    BY DEF CacheFits
  <2> QED BY <2>2, <2>3, <1>3, <1>4, <1>5, <1>8
<1>14. \A x \in ToSet(d) : x.key \in K => x.removed
  BY <1>4, <1>5, <1>8
<1>15. CacheFits(d, H)
  BY <1>7, <1>11, <1>12, <1>13 DEF CacheFits
<1> QED BY <1>1, <1>10, <1>14, <1>15

-----------------------------------------------------------------------------
(* Numbers and records.                                                    *)

\* Min and Max of a set of naturals are what they say.
LEMMA MinIsLeast ==
    ASSUME NEW S \in SUBSET Nat, S # {}
    PROVE  Min(S) \in S /\ \A x \in S : Min(S) <= x
<1>1. \E n \in S : \A m \in S : n <= m
  BY LeastNat
<1> QED BY <1>1 DEF Min

LEMMA FiniteHasGreatest ==
    ASSUME NEW S \in SUBSET Nat, IsFiniteSet(S), S # {}
    PROVE  \E n \in S : \A m \in S : n >= m
<1> DEFINE Great(T) == T # {} => \E n \in T : \A m \in T : n >= m
           P == {n \in Nat : \A T \in SUBSET Nat :
                    IsFiniteSet(T) /\ Cardinality(T) = n => Great(T)}
<1>1. 0 \in P
  <2> SUFFICES ASSUME NEW T \in SUBSET Nat, IsFiniteSet(T), Cardinality(T) = 0
               PROVE  T = {}
    OBVIOUS
  <2> QED BY FS_EmptySet
<1>2. ASSUME NEW n \in Nat, n \in P PROVE n + 1 \in P
  <2> SUFFICES ASSUME NEW T \in SUBSET Nat, IsFiniteSet(T), Cardinality(T) = n + 1,
                      T # {}
               PROVE  \E i \in T : \A j \in T : i >= j
    OBVIOUS
  <2>1. PICK x : x \in T
    OBVIOUS
  <2> DEFINE U == T \ {x}
  <2>2. IsFiniteSet(U) /\ Cardinality(U) = n
    <3>1. IsFiniteSet(U) /\ Cardinality(U) = Cardinality(T) - 1
      BY <2>1, FS_RemoveElement
    <3>2. Cardinality(T) - 1 = n
      OBVIOUS
    <3> QED BY <3>1, <3>2
  <2>3. Great(U)
    BY <2>2, <1>2
  <2>4. CASE U = {}
    BY <2>1, <2>4
  <2>5. CASE U # {}
    <3>1. PICK i \in U : \A j \in U : i >= j
      BY <2>3, <2>5
    <3>2. i \in Nat /\ x \in Nat
      BY <2>1, <3>1
    <3>3. CASE i >= x
      BY <3>1, <3>3
    <3>4. CASE ~(i >= x)
      <4>1. \A j \in U : x >= j
        BY <3>1, <3>2, <3>4
      <4> QED BY <2>1, <3>2, <4>1
    <3> QED BY <3>3, <3>4
  <2> QED BY <2>4, <2>5
<1> HIDE DEF P
<1>3. Nat \subseteq P
  BY <1>1, <1>2, NatSetInduction
<1>4. Cardinality(S) \in Nat
  BY FS_CardinalityType
<1> QED BY <1>3, <1>4 DEF P

LEMMA MaxIsGreatest ==
    ASSUME NEW S \in SUBSET Cell, S # {}
    PROVE  Max(S) \in S /\ \A x \in S : x <= Max(S)
<1>1. S \in SUBSET Nat /\ IsFiniteSet(S)
  BY NetScanAssumption, FS_Subset
<1>2. \E n \in S : \A m \in S : n >= m
  BY <1>1, FiniteHasGreatest
<1> QED BY <1>1, <1>2 DEF Max

\* A new call, and a call that is answered.
LEMMA SentFacts ==
    ASSUME NEW op \in {"scan", "fetch", "close"}, NEW id \in Id \cup {None},
           NEW row \in Nat
    PROVE  /\ Sent(op, id, row) \in CallSet /\ Sent(op, id, row) # None
           /\ Sent(op, id, row).op = op /\ Sent(op, id, row).id = id
           /\ Sent(op, id, row).row = row /\ Sent(op, id, row).at = "sent"
<1>1. Sent(op, id, row) \in CallSet
  BY DEF Sent, CallSet
<1> QED BY <1>1, NoneAssumption DEF Sent

LEMMA RepliedFacts ==
    ASSUME Types, NEW n \in Call, calls[n] # None,
           NEW r \in Replies(calls[n].op), calls[n].op \in {"scan", "fetch", "close"}
    PROVE  /\ Replied(n, r) \in [Call -> CallSet \cup {None}]
           /\ \A m \in Call : m # n => Replied(n, r)[m] = calls[m]
           /\ n < now => Replied(n, r)[n] = None
           /\ ~(n < now) =>
                  /\ Replied(n, r)[n] # None
                  /\ Replied(n, r)[n].op = calls[n].op
                  /\ Replied(n, r)[n].id = calls[n].id
                  /\ Replied(n, r)[n].row = calls[n].row
                  /\ Replied(n, r)[n].at = "done"
                  /\ Replied(n, r)[n].reply = r
<1>1. calls[n] \in CallSet /\ calls \in [Call -> CallSet \cup {None}]
  BY DEF Types
<1>2. r \in ScanReply \cup FetchReply \cup CloseReply \cup ErrorReplies \cup {None}
  <2>1. [kind : {"notexist"}] \subseteq ErrorReplies
    BY DEF ErrorReplies
  <2> QED BY <2>1 DEF Replies
<1> DEFINE x == [calls[n] EXCEPT !.at = "done", !.reply = r]
<1>3. /\ x \in CallSet /\ x.op = calls[n].op /\ x.id = calls[n].id
      /\ x.row = calls[n].row /\ x.at = "done" /\ x.reply = r
  BY <1>1, <1>2 DEF CallSet
<1>4. x # None
  BY <1>3, NoneAssumption
<1>5. Replied(n, r) = [calls EXCEPT ![n] = IF n < now THEN None ELSE x]
  BY <1>1 DEF Replied
<1> HIDE DEF x
<1> QED BY <1>1, <1>3, <1>4, <1>5

\* The three outcomes of maybeStartFetch_locked().
LEMMA StartFetch ==
    ASSUME NEW end, NEW busy, NEW empty, NEW isOpen, NEW id, NEW cs,
           MaybeStartFetch(end, busy, empty, isOpen, id, cs)
    PROVE  \/ /\ ~CanFetch(end, busy, empty)
              /\ pending' = busy /\ calls' = cs /\ UNCHANGED <<lastKey, lost>>
           \/ /\ CanFetch(end, busy, empty) /\ isOpen /\ pending' = TRUE
              /\ calls' = [cs EXCEPT ![now] = Sent("fetch", id, 0)]
              /\ UNCHANGED <<lastKey, lost>>
           \/ /\ CanFetch(end, busy, empty) /\ ~isOpen /\ pending' = TRUE
              /\ lastKey' = IF lastKey # None THEN lastKey ELSE ResumeKey
              /\ calls' = [cs EXCEPT ![now] =
                     Sent("scan", None, IF lastKey' = None THEN 0 ELSE lastKey'.row)]
              /\ lost' = (lost \/ Loses(lastKey'))
BY DEF MaybeStartFetch

LEMMA KeyTyped ==
    ASSUME Types
    PROVE  ResumeKey \in KeySet \cup {None}
<1>1. CASE lastBuf = 0
  BY <1>1 DEF ResumeKey
<1>2. CASE lastBuf # 0
  <2>1. lastBuf \in Cell
    BY <1>2 DEF Types
  <2>2. RowOf[lastBuf] \in Nat
    BY <2>1, NetScanAssumption
  <2> QED BY <1>2, <2>1, <2>2 DEF ResumeKey, KeySet
<1> QED BY <1>1, <1>2

\* The key that a scan resumes after, and the row it asks for.
LEMMA ResumeFacts ==
    ASSUME Types, NEW key,
           key = IF lastKey # None THEN lastKey ELSE ResumeKey
    PROVE  /\ key \in KeySet \cup {None}
           /\ (IF key = None THEN 0 ELSE key.row) \in Nat
<1>1. key \in KeySet \cup {None}
  BY KeyTyped DEF Types
<1> QED BY <1>1 DEF KeySet

-----------------------------------------------------------------------------
(* Calls.                                                                  *)

\* What a call is.
LEMMA CallFacts ==
    ASSUME Types, CallsMatch, NEW n \in Call, calls[n] # None
    PROVE  /\ calls[n] \in CallSet /\ n <= now
           /\ calls[n].op \in {"scan", "fetch", "close"}
           /\ calls[n].op = "scan" => calls[n].id = None /\ calls[n].at # "run"
           /\ calls[n].op # "scan" => calls[n].id \in Id
           /\ calls[n].at = "done" =>
                  n = now /\ calls[n].reply \in Replies(calls[n].op)
<1>1. calls[n] \in CallSet
  BY DEF Types
<1>2. CallIsSound(n)
  BY DEF CallsMatch
<1> QED BY <1>1, <1>2 DEF CallIsSound, CallSet

\* No two calls are on one scanner.
LEMMA CallsDiffer ==
    ASSUME Types, CallsMatch, NEW n \in Call, NEW m \in Call, n # m,
           calls[n] # None, calls[m] # None,
           calls[n].op # "scan", calls[m].op # "scan"
    PROVE  calls[n].id # calls[m].id
<1>1. n <= now /\ m <= now /\ n \in Nat /\ m \in Nat /\ now \in Nat
  BY CallFacts DEF Types, Call
<1>2. ASSUME NEW i \in Call, Given(i), calls[now] # None, calls[now].op # "scan"
      PROVE  calls[i].id # calls[now].id
  <2>1. scannerOpen /\ calls[now].id = scanner
    BY <1>2 DEF CallsMatch
  <2>2. calls[i].id # Current
    BY <1>2 DEF CallsMatch
  <2> QED BY <2>1, <2>2 DEF Current
<1>3. CASE n = now
  <2>1. Given(m)
    BY <1>1, <1>3 DEF Given
  <2> QED BY <2>1, <1>2, <1>3
<1>4. CASE m = now
  <2>1. Given(n)
    BY <1>1, <1>4 DEF Given
  <2> QED BY <2>1, <1>2, <1>4
<1>5. CASE n # now /\ m # now
  <2>1. Given(n) /\ Given(m)
    BY <1>1, <1>5 DEF Given
  <2> QED BY <2>1 DEF CallsMatch
<1> QED BY <1>3, <1>4, <1>5

\* Who uses the cache.
LEMMA UseFacts ==
    ASSUME Types, CallsMatch, CacheCounts
    PROVE  /\ cache \in Seq(Items) /\ CacheFits(cache, InUse)
           /\ InUse \subseteq Keys(cache) /\ Keys(cache) \subseteq CacheKey
           /\ \A n \in Call : calls[n] # None /\ calls[n].op # "scan" =>
                  (calls[n].id \in InUse <=> calls[n].at = "run")
           /\ Mark \in InUse <=> mark
<1>1. cache \in Seq(Items) /\ CacheFits(cache, InUse)
  BY DEF CacheCounts, CacheFits
<1>2. Keys(cache) = {x.key : x \in ToSet(cache)} /\ ToSet(cache) \subseteq Items
  BY <1>1, KeysOf
<1>3. Keys(cache) \subseteq CacheKey
  BY <1>2 DEF Items, CacheKey
<1>4. InUse \subseteq Keys(cache)
  BY <1>1, <1>2 DEF CacheFits
<1>5. \A n \in Runs : calls[n] # None /\ calls[n].op # "scan" /\ calls[n].id \in Id
  BY CallFacts DEF Runs
<1>6. Mark \notin Id
  BY DEF Mark, Id
<1>7. ASSUME NEW n \in Call, calls[n] # None, calls[n].op # "scan"
      PROVE  calls[n].id \in InUse <=> calls[n].at = "run"
  <2>1. calls[n].id \in Id
    BY <1>7, CallFacts
  <2>2. \A m \in Runs : calls[m].id = calls[n].id => m = n
    BY <1>5, <1>7, CallsDiffer DEF Runs
  <2>3. calls[n].at = "run" <=> n \in Runs
    BY <1>7 DEF Runs
  <2>4. calls[n].id \in InUse <=> n \in Runs
    BY <1>6, <2>1, <2>2 DEF InUse
  <2> QED BY <2>3, <2>4
<1>8. Mark \in InUse <=> mark
  BY <1>5, <1>6 DEF InUse
<1> QED BY <1>1, <1>3, <1>4, <1>7, <1>8

-----------------------------------------------------------------------------
(* Steps of the server.                                                    *)

\* What the server leaves alone.
Frame == UNCHANGED <<hist, cpc, emptyQ, readyQ, activeBuf, lastBuf, lastKey,
                     nFailures, delayed, eos, pending, scannerOpen, scanner,
                     error, now, due, seen, status, lost>>

\* Scanners that are still in the cache are as they were, but for i.
LeftBut(j, cells) ==
    /\ left' \in [Id -> SUBSET Cell]
    /\ \A i \in Id : i \in Keys(cache') =>
           left'[i] = IF i = j THEN cells ELSE left[i]

LEMMA SetCacheFacts ==
    ASSUME Types, NEW new, NEW j \in Id, NEW cells \in SUBSET Cell, NEW unread,
           unread = [left EXCEPT ![j] = cells], SetCache(new, unread)
    PROVE  cache' = new /\ LeftBut(j, cells)
<1>1. left \in [Id -> SUBSET Cell]
  BY DEF Types
<1>2. unread \in [Id -> SUBSET Cell]
      /\ \A i \in Id : unread[i] = IF i = j THEN cells ELSE left[i]
  BY <1>1
<1>3. cache' = new
      /\ left' = [i \in Id |-> IF i \in Keys(new) THEN unread[i] ELSE {}]
  BY DEF SetCache
<1> HIDE DEF SetCache
<1>4. left' \in [Id -> SUBSET Cell]
  BY <1>2, <1>3
<1> QED BY <1>2, <1>3, <1>4 DEF LeftBut

LEMMA SetCacheSame ==
    ASSUME Types, NEW new, SetCache(new, left)
    PROVE  cache' = new /\ LeftBut(None, {})
<1>1. left \in [Id -> SUBSET Cell] /\ None \notin Id
  BY NoneAssumption DEF Types, Id
<1>2. cache' = new
      /\ left' = [i \in Id |-> IF i \in Keys(new) THEN left[i] ELSE {}]
  BY DEF SetCache
<1>3. left' \in [Id -> SUBSET Cell]
  BY <1>1, <1>2
<1> QED BY <1>1, <1>2, <1>3 DEF LeftBut

\* A new scanner.
LEMMA ServeScanFacts ==
    ASSUME IInv, NEW n \in Call, ServeScan(n)
    PROVE  /\ Frame /\ UNCHANGED mark
           /\ calls[n] # None /\ calls[n].op = "scan" /\ calls[n].at = "sent"
           /\ \E id \in Id :
                  /\ id \notin Keys(cache) /\ id # scanner
                  /\ \A m \in Call : calls[m] # None => calls[m].id # id
                  /\ \A m \in Call : calls[m] # None /\ calls[m].op = "scan"
                         /\ calls[m].at = "done" => calls[m].reply.id # id
                  /\ calls' = Replied(n, [kind |-> "ok", id |-> id])
                  /\ CacheFits(cache', InUse)
                  /\ Keys(cache') \subseteq Keys(cache) \cup {id}
                  /\ LeftBut(id, {c \in Cell : calls[n].row <= RowOf[c]})
<1> DEFINE id == Min(FreeIds)
<1>1. FreeIds \in SUBSET Nat /\ FreeIds # {}
  BY DEF ServeScan, FreeIds, Id
<1>2. id \in FreeIds
  BY <1>1, MinIsLeast
<1> DEFINE Cs == {c \in Cell : calls[n].row <= RowOf[c]}
<1>3. /\ calls[n] # None /\ calls[n].op = "scan" /\ calls[n].at = "sent"
      /\ calls' = Replied(n, [kind |-> "ok", id |-> id])
      /\ SetCache(CacheRelease(CacheGet(cache, id), id), [left EXCEPT ![id] = Cs])
  BY DEF ServeScan, Running
<1>4. Frame /\ UNCHANGED mark
  BY DEF ServeScan, Frame, clientVars, queueVars, flagVars, historyVars
<1> HIDE DEF id
<1>5. /\ id \in Id /\ id \notin Keys(cache) /\ id # scanner
      /\ \A m \in Call : calls[m] # None => calls[m].id # id
      /\ \A m \in Call : calls[m] # None /\ calls[m].op = "scan"
             /\ calls[m].at = "done" => calls[m].reply.id # id
  BY <1>2 DEF FreeIds
<1>6. CacheFits(cache, InUse) /\ InUse \subseteq Keys(cache)
  BY UseFacts DEF IInv
<1>7. id \in CacheKey /\ id \notin InUse
  BY <1>5, <1>6 DEF CacheKey
<1> DEFINE G == CacheGet(cache, id)
<1>8. CacheFits(G, InUse \cup {id}) /\ Keys(G) \subseteq Keys(cache) \cup {id}
  BY <1>6, <1>7, GetFacts
<1> HIDE DEF G
<1>9. /\ CacheFits(CacheRelease(G, id), (InUse \cup {id}) \ {id})
      /\ Keys(CacheRelease(G, id)) \subseteq Keys(G)
  BY <1>8, ReleaseFacts
<1>10. (InUse \cup {id}) \ {id} = InUse
  BY <1>7
<1>11. Cs \in SUBSET Cell
  OBVIOUS
<1> HIDE DEF Cs
<1>12. cache' = CacheRelease(G, id) /\ LeftBut(id, Cs)
  <2>1. SetCache(CacheRelease(G, id), [left EXCEPT ![id] = Cs]) /\ Types
    BY <1>3 DEF G, IInv
  <2> QED BY <2>1, <1>5, <1>11, SetCacheFacts
<1>13. CacheFits(cache', InUse) /\ Keys(cache') \subseteq Keys(cache) \cup {id}
  BY <1>8, <1>9, <1>10, <1>12
<1> QED BY <1>3, <1>4, <1>5, <1>12, <1>13 DEF Cs

\* A call finds its scanner, and pins it, or does not.
LEMMA LocateFacts ==
    ASSUME IInv, NEW n \in Call, NEW op \in {"fetch", "close"}, Locate(n, op)
    PROVE  /\ Frame /\ UNCHANGED mark
           /\ calls[n] # None /\ calls[n].op = op /\ calls[n].at = "sent"
           /\ \/ /\ calls' = [calls EXCEPT ![n].at = "run"]
                 /\ CacheFits(cache', InUse \cup {calls[n].id})
                 /\ Keys(cache') \subseteq Keys(cache)
                 /\ LeftBut(None, {})
              \/ /\ calls' = Replied(n, [kind |-> "notexist"])
                 /\ calls[n].id \notin Keys(cache)
                 /\ UNCHANGED <<cache, left>>
<1>1. /\ Frame /\ UNCHANGED mark
      /\ calls[n] # None /\ calls[n].op = op /\ calls[n].at = "sent"
  BY DEF Locate, Running, Frame, clientVars, queueVars, flagVars, historyVars
<1>2. CASE calls[n].id \in Keys(cache)
  <2>1. CacheFits(cache, InUse) /\ Keys(cache) \subseteq CacheKey
    BY UseFacts DEF IInv
  <2>2. calls[n].id \in CacheKey /\ calls[n].id \notin InUse
    BY <1>1, <1>2, <2>1, UseFacts DEF IInv
  <2>3. /\ CacheFits(CacheGet(cache, calls[n].id), InUse \cup {calls[n].id})
        /\ Keys(CacheGet(cache, calls[n].id)) \subseteq Keys(cache) \cup {calls[n].id}
    BY <2>1, <2>2, GetFacts
  <2>4. SetCache(CacheGet(cache, calls[n].id), left)
        /\ calls' = [calls EXCEPT ![n].at = "run"]
    BY <1>2 DEF Locate
  <2>5. cache' = CacheGet(cache, calls[n].id) /\ LeftBut(None, {})
    BY <2>4, SetCacheSame DEF IInv
  <2> QED BY <1>1, <1>2, <2>3, <2>4, <2>5
<1>3. CASE calls[n].id \notin Keys(cache)
  BY <1>1, <1>3 DEF Locate, Error
<1> QED BY <1>2, <1>3

\* A call ends: its scanner is released.
LEMMA CallEnds ==
    ASSUME IInv, NEW n \in Call, calls[n] # None, calls[n].op # "scan",
           calls[n].at = "run"
    PROVE  LET id == calls[n].id IN
           /\ id \in Id /\ id \in Keys(cache) /\ id \in InUse
           /\ CacheFits(CacheRelease(cache, id), InUse \ {id})
           /\ Keys(CacheRelease(cache, id)) \subseteq Keys(cache)
           /\ CacheFits(CacheRelease(CacheRemove(cache, id), id), InUse \ {id})
           /\ Keys(CacheRelease(CacheRemove(cache, id), id)) \subseteq Keys(cache)
           /\ id \notin Keys(CacheRelease(CacheRemove(cache, id), id))
<1> DEFINE id == calls[n].id  D == CacheRemove(cache, id)
<1>1. /\ id \in Id /\ id \in InUse /\ InUse \subseteq Keys(cache)
      /\ CacheFits(cache, InUse)
  BY UseFacts, CallFacts DEF IInv
<1> HIDE DEF id
<1>2. CacheFits(CacheRelease(cache, id), InUse \ {id})
      /\ Keys(CacheRelease(cache, id)) \subseteq Keys(cache)
  BY <1>1, ReleaseFacts
<1>3. /\ CacheFits(D, InUse) /\ Keys(D) \subseteq Keys(cache)
      /\ \A x \in ToSet(D) : x.key = id => x.removed
  BY <1>1, DropFacts DEF CacheRemove
<1> HIDE DEF D
<1>4. /\ CacheFits(CacheRelease(D, id), InUse \ {id})
      /\ Keys(CacheRelease(D, id)) \subseteq Keys(D)
      /\ id \notin Keys(CacheRelease(D, id))
  BY <1>1, <1>3, ReleaseFacts
<1> QED BY <1>1, <1>2, <1>3, <1>4 DEF id, D

\* What a thread of the server can do: open a scanner, pin one for a call,
\* answer a call, or change the cache only.
Opens(n, id) ==
    /\ calls[n] # None /\ calls[n].op = "scan" /\ calls[n].at = "sent"
    /\ id \notin Keys(cache) /\ id # scanner
    /\ \A m \in Call : calls[m] # None => calls[m].id # id
    /\ \A m \in Call : calls[m] # None /\ calls[m].op = "scan"
           /\ calls[m].at = "done" => calls[m].reply.id # id
    /\ calls' = Replied(n, [kind |-> "ok", id |-> id])
    /\ CacheFits(cache', InUse)
    /\ Keys(cache') \subseteq Keys(cache) \cup {id}
    /\ LeftBut(id, {c \in Cell : calls[n].row <= RowOf[c]})
    /\ UNCHANGED mark

Pins(n) ==
    /\ calls[n] # None /\ calls[n].op # "scan" /\ calls[n].at = "sent"
    /\ calls' = [calls EXCEPT ![n].at = "run"]
    /\ CacheFits(cache', InUse \cup {calls[n].id})
    /\ Keys(cache') \subseteq Keys(cache)
    /\ LeftBut(None, {})
    /\ UNCHANGED mark

Answers(n, r) ==
    /\ calls[n] # None /\ calls[n].op # "scan" /\ calls[n].at # "done"
    /\ r \in Replies(calls[n].op)
    /\ calls' = Replied(n, r)
    /\ CacheFits(cache', InUse \ {calls[n].id})
    /\ Keys(cache') \subseteq Keys(cache)
    /\ left' \in [Id -> SUBSET Cell]
    /\ UNCHANGED mark

Fails(n, r) ==
    /\ Answers(n, r) /\ LeftBut(None, {})
    /\ \/ r = [kind |-> "notexist"] /\ calls[n].id \notin Keys(cache)
       \/ r = [kind |-> "raised"] /\ calls[n].op = "fetch"
       \/ /\ r = [kind |-> "ok"] /\ calls[n].op = "close"
          /\ calls[n].id \notin Keys(cache')

Reads(n, r) ==
    /\ Answers(n, r) /\ calls[n].op = "fetch" /\ r \in FetchReply
    /\ calls[n].id \in Keys(cache)
    /\ \E read \in SUBSET left[calls[n].id] :
           /\ r.block = read \cap due
           /\ r.last => read = left[calls[n].id]
           /\ \A b \in read : \A c \in left[calls[n].id] \ read : b < c
           /\ LeftBut(calls[n].id, left[calls[n].id] \ read)

Quiet ==
    /\ UNCHANGED calls
    /\ CacheFits(cache', (InUse \ {Mark}) \cup (IF mark' THEN {Mark} ELSE {}))
    /\ Keys(cache') \subseteq Keys(cache) \cup {Mark}
    /\ LeftBut(None, {})
    /\ mark' \in BOOLEAN

LEMMA GetBulkFacts ==
    ASSUME IInv, NEW n \in Call, NEW upto \in Cell \cup {0}, NEW last \in BOOLEAN,
           GetBulk(n, upto, last)
    PROVE  Frame /\ \E r : Reads(n, r)
<1> DEFINE id == calls[n].id
           L == left[id]
           read == IF last THEN L ELSE {c \in L : c <= upto}
           r == [kind |-> "ok", last |-> last, block |-> read \cap due]
<1>1. /\ Frame /\ UNCHANGED mark
      /\ calls[n] # None /\ calls[n].op = "fetch" /\ calls[n].at = "run"
      /\ calls' = Replied(n, r)
  BY DEF GetBulk, Running, Frame, clientVars, queueVars, flagVars, historyVars
<1>2. SetCache(CacheRelease(cache, id), [left EXCEPT ![id] = L \ read])
  <2>1. SetCache(CacheRelease(cache, id), [left EXCEPT ![id] = @ \ read])
    BY DEF GetBulk
  <2>2. [left EXCEPT ![id] = @ \ read] = [left EXCEPT ![id] = L \ read]
    OBVIOUS
  <2> QED BY <2>1, <2>2
<1>3. /\ id \in Id /\ id \in Keys(cache) /\ id \in InUse
      /\ CacheFits(CacheRelease(cache, id), InUse \ {id})
      /\ Keys(CacheRelease(cache, id)) \subseteq Keys(cache)
  BY <1>1, CallEnds
<1>4. L \in SUBSET Cell /\ due \in SUBSET Cell /\ Cell \subseteq Nat
  BY <1>3, NetScanAssumption DEF IInv, Types
<1>5. read \in SUBSET L /\ (last => read = L)
  OBVIOUS
<1>6. \A b \in read : \A c \in L \ read : b < c
  <2>1. upto \in Nat /\ L \subseteq Nat
    <3> HIDE DEF L
    <3> QED BY <1>4
  <2>2. CASE last
    BY <2>2
  <2>3. CASE ~last
    <3> SUFFICES ASSUME NEW b \in read, NEW c \in L \ read PROVE b < c
      OBVIOUS
    <3>1. b \in L /\ b <= upto /\ c \in L /\ ~(c <= upto)
      BY <2>3
    <3> QED BY <2>1, <3>1
  <2> QED BY <2>2, <2>3
<1>7. r \in FetchReply /\ r.block = read \cap due /\ r.last = last
  BY <1>4 DEF FetchReply
<1> HIDE DEF id, L, read, r
<1>8. cache' = CacheRelease(cache, id) /\ LeftBut(id, L \ read)
  <2>1. L \ read \in SUBSET Cell /\ Types
    BY <1>4, <1>5 DEF IInv
  <2> QED BY <2>1, <1>2, <1>3, SetCacheFacts
<1>9. left' \in [Id -> SUBSET Cell]
  BY <1>8 DEF LeftBut
<1>10. r \in Replies("fetch")
  BY <1>7 DEF Replies
<1>11. Answers(n, r)
  BY <1>1, <1>3, <1>8, <1>9, <1>10 DEF Answers, id
<1>12. Reads(n, r)
  BY <1>1, <1>3, <1>5, <1>6, <1>7, <1>8, <1>11 DEF Reads, id, L
<1> QED BY <1>1, <1>12

LEMMA RaisesFacts ==
    ASSUME IInv, NEW n \in Call, GetBulkRaises(n)
    PROVE  Frame /\ \E r : Fails(n, r)
<1> DEFINE id == calls[n].id
           r == [kind |-> "raised"]
<1>1. /\ Frame /\ UNCHANGED mark
      /\ calls[n] # None /\ calls[n].op = "fetch" /\ calls[n].at = "run"
      /\ calls' = Replied(n, r)
      /\ SetCache(CacheRelease(cache, id), left)
  BY DEF GetBulkRaises, Running, Frame, clientVars, queueVars, flagVars,
         historyVars, Error
<1>2. /\ CacheFits(CacheRelease(cache, id), InUse \ {id})
      /\ Keys(CacheRelease(cache, id)) \subseteq Keys(cache)
  BY <1>1, CallEnds
<1>3. cache' = CacheRelease(cache, id) /\ LeftBut(None, {})
  BY <1>1, SetCacheSame DEF IInv
<1>4. r \in Replies("fetch")
  BY DEF Replies, ErrorReplies
<1>5. Answers(n, r)
  BY <1>1, <1>2, <1>3, <1>4 DEF Answers, LeftBut
<1> QED BY <1>1, <1>3, <1>5 DEF Fails

LEMMA CloseFacts ==
    ASSUME IInv, NEW n \in Call, Close(n)
    PROVE  Frame /\ \E r : Fails(n, r)
<1> DEFINE id == calls[n].id
           r == [kind |-> "ok"]
           new == CacheRelease(CacheRemove(cache, id), id)
<1>1. /\ Frame /\ UNCHANGED mark
      /\ calls[n] # None /\ calls[n].op = "close" /\ calls[n].at = "run"
      /\ calls' = Replied(n, r)
      /\ SetCache(new, left)
  BY DEF Close, Running, Frame, clientVars, queueVars, flagVars, historyVars
<1>2. CacheFits(new, InUse \ {id}) /\ Keys(new) \subseteq Keys(cache) /\ id \notin Keys(new)
  BY <1>1, CallEnds
<1> HIDE DEF new
<1>3. cache' = new /\ LeftBut(None, {})
  BY <1>1, SetCacheSame DEF IInv
<1>4. r \in Replies("close")
  BY DEF Replies, CloseReply
<1>5. Answers(n, r)
  BY <1>1, <1>2, <1>3, <1>4 DEF Answers, LeftBut
<1> QED BY <1>1, <1>2, <1>3, <1>5 DEF Fails

LEMMA OtherScanFacts ==
    ASSUME IInv, OtherScan
    PROVE  Frame /\ Quiet
<1>1. /\ Frame /\ UNCHANGED <<calls, mark>>
      /\ SetCache(Flushed(cache, Len(cache) + 1), left)
  BY DEF OtherScan, Frame, clientVars, queueVars, flagVars, historyVars, callVars
<1>2. /\ cache \in Seq(Items) /\ CacheFits(cache, InUse)
      /\ Mark \in InUse <=> mark
  BY UseFacts DEF IInv
<1> DEFINE F == Flushed(cache, Len(cache) + 1)
<1>3. /\ F \in Seq(Items)
      /\ ToSet(F) \subseteq ToSet(cache)
      /\ \A x \in ToSet(cache) : x.refs > 0 => x \in ToSet(F)
      /\ Len(F) <= Len(cache)
      /\ \/ (Len(cache) + 1) - (Len(cache) - Len(F)) <= CacheMax
         \/ \A x \in ToSet(F) : x.refs > 0
  <2>1. Len(cache) + 1 \in Nat
    BY <1>2
  <2> QED BY <1>2, <2>1, FlushedFacts
<1> HIDE DEF F
<1>4. cache' = F /\ LeftBut(None, {})
  BY <1>1, SetCacheSame DEF IInv, F
<1>5. \A x \in ToSet(cache) : x.refs > 0 <=> x.key \in InUse
  BY <1>2 DEF CacheFits
<1>6. Len(F) > CacheMax => \A x \in ToSet(F) : x.key \in InUse
  <2>1. Len(F) \in Nat /\ Len(cache) \in Nat /\ CacheMax \in Int
    BY <1>2, <1>3, NetScanAssumption DEF CacheMax
  <2>2. Len(F) > CacheMax => \A x \in ToSet(F) : x.refs > 0
    BY <2>1, <1>3
  <2> QED BY <2>2, <1>3, <1>5
<1>7. CacheFits(F, InUse)
  BY <1>2, <1>3, <1>5, <1>6 DEF CacheFits
<1>8. Keys(F) \subseteq Keys(cache)
  BY <1>2, <1>3, KeysOf
<1>9. (InUse \ {Mark}) \cup (IF mark' THEN {Mark} ELSE {}) = InUse
  BY <1>1, <1>2
<1>10. mark' \in BOOLEAN
  BY <1>1 DEF IInv, Types
<1> QED BY <1>1, <1>4, <1>7, <1>8, <1>9, <1>10 DEF Quiet

LEMMA PurgeFacts ==
    ASSUME IInv, PurgeAndMark
    PROVE  Frame /\ Quiet
<1> DEFINE D == RemoveUntil(cache, Mark)
           rest == IF mark THEN CacheRelease(D, Mark) ELSE cache
<1>1. /\ Frame /\ UNCHANGED calls /\ mark' = TRUE
      /\ SetCache(CacheGet(rest, Mark), left)
  BY DEF PurgeAndMark, Frame, clientVars, queueVars, flagVars, historyVars, callVars
<1>2. CacheFits(cache, InUse) /\ (Mark \in InUse <=> mark)
  BY UseFacts DEF IInv
<1>3. CacheFits(rest, InUse \ {Mark}) /\ Keys(rest) \subseteq Keys(cache)
  <2>1. CASE mark
    <3>1. CacheFits(D, InUse) /\ Keys(D) \subseteq Keys(cache)
      BY <1>2, DropFacts DEF RemoveUntil
    <3> HIDE DEF D
    <3>2. /\ CacheFits(CacheRelease(D, Mark), InUse \ {Mark})
          /\ Keys(CacheRelease(D, Mark)) \subseteq Keys(D)
      BY <1>2, <2>1, <3>1, ReleaseFacts
    <3> QED BY <2>1, <3>1, <3>2
  <2>2. CASE ~mark
    <3>1. InUse \ {Mark} = InUse /\ rest = cache
      BY <1>2, <2>2
    <3> HIDE DEF rest
    <3> QED BY <3>1, <1>2
  <2> QED BY <2>1, <2>2
<1> HIDE DEF rest
<1>4. /\ CacheFits(CacheGet(rest, Mark), (InUse \ {Mark}) \cup {Mark})
      /\ Keys(CacheGet(rest, Mark)) \subseteq Keys(rest) \cup {Mark}
  <2>1. Mark \in CacheKey /\ Mark \notin InUse \ {Mark}
    BY DEF CacheKey
  <2> QED BY <2>1, <1>3, GetFacts
<1>5. cache' = CacheGet(rest, Mark) /\ LeftBut(None, {})
  BY <1>1, SetCacheSame DEF IInv
<1>6. (InUse \ {Mark}) \cup (IF mark' THEN {Mark} ELSE {}) = (InUse \ {Mark}) \cup {Mark}
  BY <1>1
<1> QED BY <1>1, <1>3, <1>4, <1>5, <1>6 DEF Quiet

\* All that the server does.
ServerNext ==
    \/ \E n \in Call : Serve(n) \/ GetBulkRaises(n)
    \/ OtherScan \/ PurgeAndMark

LEMMA ServerSteps ==
    ASSUME IInv, ServerNext
    PROVE  /\ Frame
           /\ \/ \E n \in Call :
                     \/ \E id \in Id : Opens(n, id)
                     \/ Pins(n)
                     \/ \E r : Fails(n, r) \/ Reads(n, r)
              \/ Quiet
<1>1. ASSUME NEW n \in Call, ServeScan(n)
      PROVE  Frame /\ \E id \in Id : Opens(n, id)
  BY <1>1, ServeScanFacts DEF Opens
<1>2. ASSUME NEW n \in Call, NEW op \in {"fetch", "close"}, Locate(n, op)
      PROVE  Frame /\ (Pins(n) \/ \E r : Fails(n, r))
  <2>1. /\ Frame /\ UNCHANGED mark
        /\ calls[n] # None /\ calls[n].op = op /\ calls[n].at = "sent"
        /\ \/ /\ calls' = [calls EXCEPT ![n].at = "run"]
              /\ CacheFits(cache', InUse \cup {calls[n].id})
              /\ Keys(cache') \subseteq Keys(cache)
              /\ LeftBut(None, {})
           \/ /\ calls' = Replied(n, [kind |-> "notexist"])
              /\ calls[n].id \notin Keys(cache)
              /\ UNCHANGED <<cache, left>>
    BY <1>2, LocateFacts
  <2>2. CASE calls' = [calls EXCEPT ![n].at = "run"]
             /\ CacheFits(cache', InUse \cup {calls[n].id})
             /\ Keys(cache') \subseteq Keys(cache) /\ LeftBut(None, {})
    BY <2>1, <2>2 DEF Pins
  <2>3. CASE calls' = Replied(n, [kind |-> "notexist"])
             /\ calls[n].id \notin Keys(cache) /\ UNCHANGED <<cache, left>>
    <3> DEFINE r == [kind |-> "notexist"]
    <3>1. r \in Replies(calls[n].op)
      BY <2>1 DEF Replies, ErrorReplies
    <3>2. CacheFits(cache, InUse) /\ InUse \subseteq Keys(cache)
      BY UseFacts DEF IInv
    <3>3. InUse \ {calls[n].id} = InUse
      BY <3>2, <2>3
    <3>4. left \in [Id -> SUBSET Cell] /\ None \notin Id
      BY NoneAssumption DEF IInv, Types, Id
    <3>5. Answers(n, r)
      BY <2>1, <2>3, <3>1, <3>2, <3>3, <3>4 DEF Answers
    <3>6. LeftBut(None, {})
      BY <2>3, <3>4 DEF LeftBut
    <3> QED BY <2>1, <2>3, <3>5, <3>6 DEF Fails
  <2> QED BY <2>1, <2>2, <2>3
<1>3. ASSUME NEW n \in Call, Serve(n) \/ GetBulkRaises(n)
      PROVE  /\ Frame
             /\ \/ \E id \in Id : Opens(n, id)
                \/ Pins(n)
                \/ \E r : Fails(n, r) \/ Reads(n, r)
  BY <1>1, <1>2, <1>3, GetBulkFacts, RaisesFacts, CloseFacts DEF Serve
<1> QED BY <1>3, OtherScanFacts, PurgeFacts DEF ServerNext

\* What the server makes of the calls.
Served(m) ==
    \/ calls'[m] = calls[m]
    \/ calls'[m] = None /\ m < now
    \/ /\ calls'[m] # None /\ calls[m] # None /\ calls[m].at # "done"
       /\ calls'[m].op = calls[m].op /\ calls'[m].id = calls[m].id
       /\ calls'[m].row = calls[m].row
       /\ \/ calls'[m].at = "run" /\ calls[m].op # "scan"
          \/ calls'[m].at = "done" /\ m = now
             /\ calls'[m].reply \in Replies(calls[m].op)

\* A call is answered.
LEMMA AnswerServes ==
    ASSUME IInv, NEW n \in Call, calls[n] # None, calls[n].at # "done",
           NEW r \in Replies(calls[n].op), calls' = Replied(n, r)
    PROVE  /\ calls' \in [Call -> CallSet \cup {None}]
           /\ \A m \in Call : Served(m)
           /\ \A m \in Call : m # n => calls'[m] = calls[m]
           /\ n < now => calls'[n] = None
           /\ n = now => /\ calls'[n] # None /\ calls'[n].op = calls[n].op
                         /\ calls'[n].at = "done" /\ calls'[n].reply = r
<1>1. n <= now /\ calls[n].op \in {"scan", "fetch", "close"} /\ n \in Nat /\ now \in Nat
  BY CallFacts DEF IInv, Types, Call
<1>2. /\ Replied(n, r) \in [Call -> CallSet \cup {None}]
      /\ \A m \in Call : m # n => Replied(n, r)[m] = calls[m]
      /\ n < now => Replied(n, r)[n] = None
      /\ ~(n < now) =>
             /\ Replied(n, r)[n] # None
             /\ Replied(n, r)[n].op = calls[n].op
             /\ Replied(n, r)[n].id = calls[n].id
             /\ Replied(n, r)[n].row = calls[n].row
             /\ Replied(n, r)[n].at = "done"
             /\ Replied(n, r)[n].reply = r
  BY <1>1, RepliedFacts DEF IInv
<1>3. (n < now /\ n # now) \/ (n = now /\ ~(n < now))
  BY <1>1
<1>4. Served(n)
  BY <1>2, <1>3 DEF Served
<1>5. \A m \in Call : Served(m)
  BY <1>2, <1>4 DEF Served
<1> QED BY <1>2, <1>3, <1>5

LEMMA PinServes ==
    ASSUME IInv, NEW n \in Call, Pins(n)
    PROVE  /\ calls' \in [Call -> CallSet \cup {None}]
           /\ \A m \in Call : Served(m)
           /\ \A m \in Call : m # n => calls'[m] = calls[m]
           /\ calls'[n] # None /\ calls'[n].op = calls[n].op
           /\ calls'[n].id = calls[n].id /\ calls'[n].at = "run"
<1>1. calls[n] \in CallSet /\ calls \in [Call -> CallSet \cup {None}]
  BY DEF Pins, IInv, Types
<1> DEFINE x == [calls[n] EXCEPT !.at = "run"]
<1>2. /\ x \in CallSet /\ x.op = calls[n].op /\ x.id = calls[n].id
      /\ x.row = calls[n].row /\ x.at = "run"
  BY <1>1 DEF CallSet
<1>3. x # None
  BY <1>2, NoneAssumption
<1>4. calls' = [calls EXCEPT ![n] = x]
  BY DEF Pins
<1> HIDE DEF x
<1>5. /\ calls' \in [Call -> CallSet \cup {None}]
      /\ \A m \in Call : m # n => calls'[m] = calls[m]
      /\ calls'[n] = x
  BY <1>1, <1>2, <1>4
<1>6. calls[n] # None /\ calls[n].op # "scan" /\ calls[n].at # "done"
  BY DEF Pins
<1>7. Served(n)
  BY <1>2, <1>3, <1>5, <1>6 DEF Served
<1> QED BY <1>2, <1>3, <1>5, <1>7 DEF Served

\* A reply with an ID.
LEMMA OpenServes ==
    ASSUME IInv, NEW n \in Call, NEW id \in Id, Opens(n, id)
    PROVE  /\ calls' \in [Call -> CallSet \cup {None}]
           /\ \A m \in Call : Served(m)
           /\ \A m \in Call : m # n => calls'[m] = calls[m]
           /\ n < now => calls'[n] = None
           /\ n = now => /\ calls'[n] # None /\ calls'[n].op = "scan"
                         /\ calls'[n].at = "done"
                         /\ calls'[n].reply.id = id
<1> DEFINE r == [kind |-> "ok", id |-> id]
<1>1. calls[n] # None /\ calls[n].op = "scan" /\ calls[n].at # "done" /\ calls' = Replied(n, r)
  BY DEF Opens
<1>2. r \in Replies(calls[n].op) /\ r.id = id
  BY <1>1 DEF Replies, ScanReply
<1> HIDE DEF r
<1> QED BY <1>1, <1>2, AnswerServes

LEMMA ServerCalls ==
    ASSUME IInv, ServerNext
    PROVE  /\ calls' \in [Call -> CallSet \cup {None}]
           /\ \A m \in Call : Served(m)
<1>1. ASSUME NEW n \in Call, NEW r, Answers(n, r)
      PROVE  /\ calls' \in [Call -> CallSet \cup {None}]
             /\ \A m \in Call : Served(m)
  BY <1>1, AnswerServes DEF Answers
<1>2. CASE Quiet
  BY <1>2 DEF Quiet, Served, IInv, Types
<1> QED BY <1>1, <1>2, PinServes, OpenServes, ServerSteps DEF Fails, Reads

\* The client's scan() is answered: it is about to have the scanner.
LEMMA OpenCurrent ==
    ASSUME IInv, NEW id \in Id, Opens(now, id), Frame
    PROVE  Current' = id /\ Current = None /\ ~Fetched /\ ~Fetched'
<1>1. scannerOpen' = scannerOpen /\ now' = now /\ now \in Call
  BY DEF Frame, IInv, Types
<1>2. calls[now] # None /\ calls[now].op = "scan" /\ calls[now].at # "done" /\ ~scannerOpen
  BY DEF Opens, IInv, CallsMatch
<1>3. /\ calls'[now] # None /\ calls'[now].op = "scan"
      /\ calls'[now].at = "done" /\ calls'[now].reply.id = id
  BY <1>1, OpenServes
<1> QED BY <1>1, <1>2, <1>3 DEF Current, Opening, Fetched

\* The scanner that the client has only changes when a new one is opened.
LEMMA ServerCurrent ==
    ASSUME IInv, ServerNext
    PROVE  \/ Current' = Current
           \/ \E id \in Id : /\ Opens(now, id) /\ Current' = id /\ Current = None
                             /\ ~Fetched /\ ~Fetched'
<1>1. /\ scannerOpen' = scannerOpen /\ scanner' = scanner /\ now' = now
      /\ now \in Call
  BY ServerSteps DEF Frame, IInv, Types
<1>2. ASSUME calls'[now] = calls[now]
      PROVE  Current' = Current
  BY <1>1, <1>2 DEF Current, Opening
<1>3. ASSUME calls[now] # None, calls'[now] # None, calls[now].op # "scan",
             calls'[now].op = calls[now].op
      PROVE  Current' = Current
  BY <1>1, <1>3 DEF Current, Opening
<1>4. ASSUME NEW n \in Call, NEW id \in Id, Opens(n, id)
      PROVE  \/ Current' = Current
             \/ /\ Opens(now, id) /\ Current' = id /\ Current = None
                /\ ~Fetched /\ ~Fetched'
  <2>1. CASE n # now
    BY <2>1, <1>1, <1>2, <1>4, OpenServes
  <2>2. CASE n = now
    BY <2>2, <1>4, OpenCurrent, ServerSteps
  <2> QED BY <2>1, <2>2
<1>5. ASSUME NEW n \in Call, NEW r, Answers(n, r)
      PROVE  Current' = Current
  <2>1. CASE n # now
    BY <2>1, <1>1, <1>2, <1>5, AnswerServes DEF Answers
  <2>2. CASE n = now
    <3>1. calls[n] # None /\ calls[n].op # "scan" /\ calls[n].at # "done"
          /\ r \in Replies(calls[n].op) /\ calls' = Replied(n, r)
      BY <1>5 DEF Answers
    <3>2. calls'[n] # None /\ calls'[n].op = calls[n].op
      BY <2>2, <3>1, AnswerServes
    <3> QED BY <1>3, <2>2, <3>1, <3>2
  <2> QED BY <2>1, <2>2
<1>6. ASSUME NEW n \in Call, Pins(n)
      PROVE  Current' = Current
  <2>1. CASE n # now
    BY <2>1, <1>1, <1>2, <1>6, PinServes
  <2>2. CASE n = now
    <3>1. calls[n] # None /\ calls[n].op # "scan"
      BY <1>6 DEF Pins
    <3> QED BY <1>3, <1>6, <2>2, <3>1, PinServes
  <2> QED BY <2>1, <2>2
<1>7. CASE Quiet
  BY <1>2, <1>7 DEF Quiet
<1> QED BY <1>4, <1>5, <1>6, <1>7, ServerSteps DEF Fails, Reads

-----------------------------------------------------------------------------
(* The server's steps keep the invariant.                                  *)

LEMMA ServerTypes ==
    ASSUME IInv, ServerNext
    PROVE  Types'
<1>1. Frame /\ calls' \in [Call -> CallSet \cup {None}]
  BY ServerSteps, ServerCalls
<1>2. cache' \in Seq(Items) /\ mark' \in BOOLEAN /\ left' \in [Id -> SUBSET Cell]
  <2>1. mark \in BOOLEAN
    BY DEF IInv, Types
  <2>2. ASSUME NEW n \in Call, NEW r, Answers(n, r)
        PROVE  cache' \in Seq(Items) /\ mark' \in BOOLEAN /\ left' \in [Id -> SUBSET Cell]
    BY <2>1, <2>2 DEF Answers, CacheFits
  <2>3. ASSUME NEW n \in Call, Pins(n)
        PROVE  cache' \in Seq(Items) /\ mark' \in BOOLEAN /\ left' \in [Id -> SUBSET Cell]
    BY <2>1, <2>3 DEF Pins, CacheFits, LeftBut
  <2>4. ASSUME NEW n \in Call, NEW id \in Id, Opens(n, id)
        PROVE  cache' \in Seq(Items) /\ mark' \in BOOLEAN /\ left' \in [Id -> SUBSET Cell]
    BY <2>1, <2>4 DEF Opens, CacheFits, LeftBut
  <2>5. CASE Quiet
    BY <2>5 DEF Quiet, CacheFits, LeftBut
  <2> QED BY <2>2, <2>3, <2>4, <2>5, ServerSteps DEF Fails, Reads
<1> QED BY <1>1, <1>2 DEF IInv, Types, Frame

LEMMA ServerClient ==
    ASSUME IInv, ServerNext
    PROVE  ClientAt' /\ BuffersAccounted' /\ InOrder' /\ GotAll' /\ KeyIsLast'
<1>1. Frame /\ now \in Call
  BY ServerSteps DEF IInv, Types
<1>2. /\ calls'[now] # None => calls[now] # None
      /\ calls'[now] # None => calls'[now].op = calls[now].op
      /\ calls'[now] # None => calls'[now].row = calls[now].row
  <2>1. Served(now)
    BY <1>1, ServerCalls
  <2> QED BY <2>1 DEF Served
<1>3. ClientAt' /\ InOrder' /\ GotAll'
  <2>1. ClientAt'
    BY <1>1 DEF IInv, Frame, ClientAt
  <2>2. Got' = Got /\ Returned' = Returned /\ InReady' = InReady
    BY <1>1 DEF Frame, Got, Returned, InReady
  <2>3. InOrder'
    BY <1>1, <2>2 DEF IInv, Frame, InOrder
  <2>4. GotAll'
    BY <1>1, <2>2 DEF IInv, Frame, GotAll
  <2> QED BY <2>1, <2>3, <2>4
<1>4. BuffersAccounted'
  BY <1>1, <1>2 DEF IInv, Frame, BuffersAccounted
<1>5. KeyIsLast'
  BY <1>1, <1>2 DEF IInv, Frame, KeyIsLast, After
<1> QED BY <1>3, <1>4, <1>5

LEMMA ServerMatch ==
    ASSUME IInv, ServerNext
    PROVE  CallsMatch'
<1>1. Frame /\ now \in Call /\ now' = now /\ scannerOpen' = scannerOpen /\ scanner' = scanner
      /\ pending' = pending /\ eos' = eos
  BY ServerSteps DEF IInv, Types, Frame
<1>2. \A m \in Call : Served(m)
  BY ServerCalls
<1>3. ASSUME NEW m \in Call
      PROVE  CallIsSound(m)'
  <2>1. CallIsSound(m) /\ Served(m)
    BY <1>2 DEF IInv, CallsMatch
  <2> QED BY <1>1, <2>1 DEF CallIsSound, Served
<1>4. calls'[now] # None <=> calls[now] # None
  <2>1. Served(now) /\ ~(now < now)
    BY <1>1, <1>2 DEF Call
  <2> QED BY <2>1 DEF Served
<1>5. calls'[now] # None => calls'[now].op = calls[now].op /\ calls'[now].id = calls[now].id
  BY <1>1, <1>2 DEF Served
<1>6. ASSUME NEW n \in Call, Given(n)'
      PROVE  Given(n) /\ calls'[n].id = calls[n].id
  <2>1. Served(n) /\ n < now /\ calls'[n] # None /\ calls'[n].op # "scan"
    BY <1>1, <1>2, <1>6 DEF Given
  <2> QED BY <2>1 DEF Given, Served
<1>7. ASSUME NEW n \in Call, Given(n)
      PROVE  calls[n].id # Current'
  <2>1. CASE Current' = Current
    BY <1>7, <2>1 DEF IInv, CallsMatch
  <2>2. ASSUME NEW id \in Id, Opens(now, id), Current' = id
        PROVE  calls[n].id # Current'
    BY <1>7, <2>2 DEF Opens, Given
  <2> QED BY <2>1, <2>2, ServerCurrent
<1>8. \A n \in Call : Given(n)' =>
          /\ calls'[n].id # Current'
          /\ \A m \in Call : Given(m)' /\ m # n => calls'[m].id # calls'[n].id
  BY <1>6, <1>7 DEF IInv, CallsMatch
<1>9. /\ pending' <=> calls'[now] # None
      /\ scannerOpen' <=> scanner' # None
      /\ calls'[now] # None =>
           IF calls'[now].op = "scan" THEN ~scannerOpen'
           ELSE scannerOpen' /\ calls'[now].id = scanner'
      /\ calls'[now] # None /\ calls'[now].op = "close" => eos'
  BY <1>1, <1>4, <1>5 DEF IInv, CallsMatch
<1> QED BY <1>1, <1>3, <1>8, <1>9 DEF CallsMatch

LEMMA ServerCounts ==
    ASSUME IInv, ServerNext
    PROVE  CacheCounts'
<1>0. /\ Types /\ CallsMatch /\ Mark \notin Id /\ now \in Call
      /\ \A n \in Runs : calls[n] # None /\ calls[n].op # "scan" /\ calls[n].id \in Id
  BY CallFacts DEF IInv, Types, Runs, Mark, Id
<1>1. ASSUME NEW n \in Call, NEW r, Answers(n, r)
      PROVE  InUse' = InUse \ {calls[n].id}
  <2>1. calls[n] # None /\ calls[n].op # "scan" /\ calls[n].at # "done"
        /\ r \in Replies(calls[n].op) /\ calls' = Replied(n, r) /\ mark' = mark
    BY <1>1 DEF Answers
  <2>2. /\ \A m \in Call : m # n => calls'[m] = calls[m]
        /\ calls'[n] = None \/ calls'[n].at = "done"
    <3>1. n < now \/ n = now
      BY <1>0, <2>1, CallFacts DEF Call
    <3> QED BY <2>1, <3>1, AnswerServes
  <2>3. Runs' = Runs \ {n}
    BY <2>2 DEF Runs
  <2>4. \A m \in Runs \ {n} : calls'[m].id = calls[m].id /\ calls[m].id # calls[n].id
    BY <1>0, <2>1, <2>2, CallsDiffer DEF Runs
  <2>5. calls[n].id \in Id
    BY <1>0, <2>1, CallFacts
  <2>6. {calls'[m].id : m \in Runs'} = {calls[m].id : m \in Runs} \ {calls[n].id}
    BY <2>3, <2>4
  <2> QED BY <1>0, <2>1, <2>5, <2>6 DEF InUse
<1>2. ASSUME NEW n \in Call, Pins(n)
      PROVE  InUse' = InUse \cup {calls[n].id}
  <2>1. /\ \A m \in Call : m # n => calls'[m] = calls[m]
        /\ calls'[n] # None /\ calls'[n].id = calls[n].id /\ calls'[n].at = "run"
    BY <1>2, PinServes
  <2>2. Runs' = Runs \cup {n} /\ mark' = mark /\ n \notin Runs
    BY <1>2, <2>1 DEF Runs, Pins
  <2>3. {calls'[m].id : m \in Runs'} = {calls[m].id : m \in Runs} \cup {calls[n].id}
    BY <2>1, <2>2 DEF Runs
  <2> QED BY <2>2, <2>3 DEF InUse
<1>3. ASSUME NEW n \in Call, NEW id \in Id, Opens(n, id)
      PROVE  InUse' = InUse
  <2>1. /\ \A m \in Call : m # n => calls'[m] = calls[m]
        /\ calls'[n] = None \/ calls'[n].at = "done"
    <3>1. n < now \/ n = now
      BY <1>0, <1>3, CallFacts DEF Call, Opens
    <3> QED BY <1>3, <3>1, OpenServes
  <2>2. Runs' = Runs /\ mark' = mark /\ n \notin Runs
    BY <1>3, <2>1 DEF Runs, Opens
  <2>3. {calls'[m].id : m \in Runs'} = {calls[m].id : m \in Runs}
    BY <2>1, <2>2 DEF Runs
  <2> QED BY <2>2, <2>3 DEF InUse
<1>4. CASE Quiet
  <2>1. Runs' = Runs /\ {calls'[m].id : m \in Runs'} = {calls[m].id : m \in Runs}
    BY <1>4 DEF Quiet, Runs
  <2>2. {calls[m].id : m \in Runs} \subseteq Id
    BY <1>0
  <2>3. InUse' = (InUse \ {Mark}) \cup (IF mark' THEN {Mark} ELSE {})
    BY <1>0, <2>1, <2>2 DEF InUse
  <2> QED BY <1>4, <2>3 DEF Quiet, CacheCounts
<1>5. ASSUME NEW n \in Call, NEW r, Answers(n, r)
      PROVE  CacheCounts'
  BY <1>1, <1>5 DEF Answers, CacheCounts
<1>6. ASSUME NEW n \in Call, Pins(n)
      PROVE  CacheCounts'
  BY <1>2, <1>6 DEF Pins, CacheCounts
<1>7. ASSUME NEW n \in Call, NEW id \in Id, Opens(n, id)
      PROVE  CacheCounts'
  BY <1>3, <1>7 DEF Opens, CacheCounts
<1> QED BY <1>4, <1>5, <1>6, <1>7, ServerSteps DEF Fails, Reads

LEMMA ServerElse ==
    ASSUME IInv, ServerNext
    PROVE  NothingElse'
<1>0. /\ Types /\ CallsMatch /\ now \in Call /\ now \in Nat
      /\ Keys(cache) \subseteq CacheKey
  BY UseFacts DEF IInv, Types, Call
<1>1. Frame /\ now' = now /\ error' = error /\ scannerOpen' = scannerOpen /\ pending' = pending
      /\ cpc' = cpc
  BY ServerSteps DEF Frame
<1> SUFFICES ASSUME now = 0, ~error
             PROVE  /\ Keys(cache') \subseteq {Mark, Current'}
                    /\ calls'[now] # None /\ calls'[now].at = "done" =>
                           \/ calls'[now].op = "scan"
                           \/ calls'[now].reply.kind = "raised"
                           \/ calls'[now].op = "fetch" /\ calls'[now].reply.kind = "ok"
                           \/ Keys(cache') \subseteq {Mark}
  <2>1. (cpc = "gone" /\ now = 0 /\ ~error) => ~pending /\ ~scannerOpen
    BY DEF IInv, NothingElse
  <2> QED BY <1>1, <2>1 DEF NothingElse
<1> DEFINE Ends(k) ==
        \/ calls[now].op = "scan" \/ calls[now].reply.kind = "raised"
        \/ calls[now].op = "fetch" /\ calls[now].reply.kind = "ok"
        \/ k \subseteq {Mark}
<1>2. /\ Keys(cache) \subseteq {Mark, Current}
      /\ calls[now] # None /\ calls[now].at = "done" => Ends(Keys(cache))
  BY DEF IInv, NothingElse
<1>3. \A n \in Call : calls[n] # None => n = now
  <2> SUFFICES ASSUME NEW n \in Call, calls[n] # None PROVE n = now
    OBVIOUS
  <2>1. n <= now /\ n \in Nat
    BY <1>0, CallFacts DEF Call
  <2> QED BY <2>1
<1>4. ASSUME NEW n \in Call, NEW id \in Id, Opens(n, id)
      PROVE  /\ Keys(cache') \subseteq {Mark, Current'}
             /\ calls'[now].op = "scan"
  <2>1. n = now
    BY <1>3, <1>4 DEF Opens
  <2>2. Current' = id /\ Current = None
    BY <2>1, <1>1, <1>4, OpenCurrent
  <2>3. None \notin Keys(cache)
    BY <1>0, NoneAssumption DEF CacheKey, Mark, Id
  <2>4. Keys(cache') \subseteq Keys(cache) \cup {id}
    BY <1>4 DEF Opens
  <2>5. calls'[now].op = "scan"
    BY <2>1, <1>4, OpenServes
  <2> QED BY <1>2, <2>2, <2>3, <2>4, <2>5
<1>5. ASSUME NEW n \in Call, NEW r, Answers(n, r)
      PROVE  /\ n = now /\ Current' = Current
             /\ Keys(cache') \subseteq Keys(cache)
             /\ calls[n].id = Current
             /\ calls'[now].op = calls[now].op /\ calls'[now].reply = r
  <2>1. calls[n] # None /\ calls[n].op # "scan" /\ calls[n].at # "done"
        /\ r \in Replies(calls[n].op) /\ calls' = Replied(n, r)
        /\ Keys(cache') \subseteq Keys(cache)
    BY <1>5 DEF Answers
  <2>2. n = now
    BY <1>3, <2>1
  <2>3. calls'[now] # None /\ calls'[now].op = calls[now].op /\ calls'[now].reply = r
    BY <2>1, <2>2, AnswerServes
  <2>4. scannerOpen /\ scanner = calls[n].id
    BY <2>1, <2>2 DEF IInv, CallsMatch
  <2>5. Current = calls[n].id /\ Current' = Current
    BY <1>1, <2>4, <2>3 DEF Current, Frame
  <2> QED BY <2>1, <2>2, <2>3, <2>5
<1>6. ASSUME NEW n \in Call, NEW r, Fails(n, r)
      PROVE  /\ Keys(cache') \subseteq {Mark, Current'}
             /\ \/ calls'[now].reply.kind = "raised"
                \/ Keys(cache') \subseteq {Mark}
  <2>1. Answers(n, r)
    BY <1>6 DEF Fails
  <2>2. \/ r.kind = "raised" \/ calls[n].id \notin Keys(cache)
        \/ calls[n].id \notin Keys(cache')
    BY <1>6 DEF Fails
  <2> QED BY <1>2, <1>5, <2>1, <2>2
<1>7. ASSUME NEW n \in Call, NEW r, Reads(n, r)
      PROVE  /\ Keys(cache') \subseteq {Mark, Current'}
             /\ calls'[now].op = "fetch" /\ calls'[now].reply.kind = "ok"
  <2>1. Answers(n, r) /\ calls[n].op = "fetch" /\ r.kind = "ok"
    BY <1>7 DEF Reads, FetchReply
  <2> QED BY <1>2, <1>5, <2>1
<1>8. ASSUME NEW n \in Call, Pins(n)
      PROVE  /\ Keys(cache') \subseteq {Mark, Current'}
             /\ calls'[now].at # "done"
  <2>1. calls[n] # None /\ calls[n].op # "scan" /\ Keys(cache') \subseteq Keys(cache)
    BY <1>8 DEF Pins
  <2>2. n = now /\ scannerOpen
    BY <1>3, <2>1 DEF IInv, CallsMatch
  <2>3. calls'[now].at = "run"
    BY <1>8, <2>2, PinServes
  <2>4. Current' = Current
    BY <1>1, <2>2 DEF Current, Frame
  <2> QED BY <1>2, <2>1, <2>3, <2>4
<1>9. CASE Quiet
  <2>1. calls' = calls /\ Keys(cache') \subseteq Keys(cache) \cup {Mark}
    BY <1>9 DEF Quiet
  <2>2. Current' = Current
    BY <1>1, <2>1 DEF Current, Opening, Frame
  <2> QED BY <1>2, <2>1, <2>2
<1> QED BY <1>4, <1>6, <1>7, <1>8, <1>9, ServerSteps

\* A step that leaves what is still to come alone.
LEMMA StreamKept ==
    ASSUME StreamAhead, lastKey' = lastKey, lastBuf' = lastBuf, due' = due,
           lost' = lost, Block' = Block, Fetched' => Fetched,
           Fetched' => calls'[now'].reply = calls[now].reply,
           Current' \in Keys(cache') =>
               Current' = Current /\ Current \in Keys(cache)
               /\ left'[Current] = left[Current]
    PROVE  StreamAhead'
<1>1. Fetched' => Fetched /\ calls'[now'].reply.last = calls[now].reply.last
  OBVIOUS
<1> QED BY <1>1 DEF StreamAhead

\* A step after which the client has no scanner.
LEMMA StreamNone ==
    ASSUME Types', Current' = None, ~Fetched'
    PROVE  StreamAhead'
<1>1. cache' \in Seq(Items)
  BY DEF Types
<1>2. Keys(cache') = {x.key : x \in ToSet(cache')} /\ ToSet(cache') \subseteq Items
  BY <1>1, KeysOf
<1>3. None \notin Keys(cache')
  BY <1>2, NoneAssumption DEF Items, Mark, Id
<1>4. Block' = {}
  BY DEF Block
<1> QED BY <1>3, <1>4 DEF StreamAhead

\* The scanner that a scan() opens goes on where the client is.
LEMMA OpenStream ==
    ASSUME IInv, NEW id \in Id, Opens(now, id), Frame
    PROVE  StreamAhead'
<1>1. Current' = id /\ ~Fetched' /\ Block' = {}
  BY OpenCurrent DEF Block
<1>2. lastKey' = lastKey /\ lastBuf' = lastBuf /\ due' = due /\ lost' = lost
  BY DEF Frame
<1> DEFINE row == calls[now].row
<1>3. /\ row = IF lastKey = None THEN 0 ELSE lastKey.row
      /\ lastKey = None => lastBuf = 0
      /\ lastKey # None /\ ~lost => \A c \in due : c > lastBuf => After(lastKey, c)
  BY DEF Opens, IInv, KeyIsLast
<1>4. /\ due \subseteq Cell /\ Cell \subseteq Nat \ {0}
      /\ \A c \in Cell : RowOf[c] \in Nat
      /\ lastKey # None => lastKey.row \in Nat
  BY NetScanAssumption DEF IInv, Types, KeySet
<1>5. id \in Keys(cache') => left'[id] = {c \in Cell : row <= RowOf[c]}
  BY DEF Opens, LeftBut
<1> HIDE DEF row
<1>6. lastKey = None => \A c \in Cell : c > lastBuf
  BY <1>3, <1>4
<1>7. ~lost => \A c \in due : c > lastBuf => row <= RowOf[c]
  <2>1. CASE lastKey = None
    <3>1. row = 0
      BY <1>3, <2>1
    <3> QED BY <1>4, <3>1
  <2>2. CASE lastKey # None
    <3>1. row = lastKey.row /\ row \in Nat
      BY <1>3, <1>4, <2>2
    <3>2. \A c \in Cell : After(lastKey, c) => row <= RowOf[c]
      BY <1>4, <3>1 DEF After
    <3> QED BY <1>3, <1>4, <2>2, <3>2
  <2> QED BY <2>1, <2>2
<1> QED BY <1>1, <1>2, <1>4, <1>5, <1>6, <1>7 DEF StreamAhead

\* A block comes from the front of what the scanner has not read.
LEMMA ReadStream ==
    ASSUME IInv, NEW r, Reads(now, r), Frame
    PROVE  StreamAhead'
<1> DEFINE s == calls[now].id
           L == left[s]
<1>0. lastKey' = lastKey /\ lastBuf' = lastBuf /\ due' = due /\ lost' = lost
      /\ now' = now /\ scannerOpen' = scannerOpen /\ scanner' = scanner
      /\ now \in Call /\ Types /\ CallsMatch
  BY DEF Frame, IInv, Types
<1>1. /\ Answers(now, r) /\ calls[now].op = "fetch" /\ r \in FetchReply
      /\ s \in Keys(cache)
  BY DEF Reads
<1>2. PICK read \in SUBSET L :
           /\ r.block = read \cap due
           /\ r.last => read = L
           /\ \A b \in read : \A c \in L \ read : b < c
           /\ LeftBut(s, L \ read)
  BY DEF Reads
<1>3. calls[now] # None /\ calls[now].at # "done" /\ r \in Replies(calls[now].op)
      /\ calls' = Replied(now, r)
  BY <1>1 DEF Answers
<1>4. /\ calls'[now] # None /\ calls'[now].op = calls[now].op
      /\ calls'[now].at = "done" /\ calls'[now].reply = r
  BY <1>0, <1>3, AnswerServes
<1>5. Fetched' /\ Block' = r.block /\ calls'[now'].reply.last = r.last
  BY <1>0, <1>1, <1>4 DEF Fetched, Block, FetchReply
<1>6. Block = {} /\ scannerOpen /\ Current = s /\ s \in Id
  <2>1. scannerOpen /\ scanner = s
    BY <1>1, <1>3 DEF IInv, CallsMatch
  <2>2. s \in Id
    BY <1>0, <1>1, <1>3, CallFacts
  <2> QED BY <1>3, <2>1, <2>2 DEF Current, Block, Fetched
<1>7. Current' = s
  BY <1>0, <1>6 DEF Current
<1>8. s \in Keys(cache') => left'[s] = L \ read
  BY <1>2, <1>6 DEF LeftBut
<1>9. /\ lastKey = None => \A c \in L : c > lastBuf
      /\ ~lost => \A c \in due : c > lastBuf => c \in L
  BY <1>1, <1>6 DEF IInv, StreamAhead
<1>10. due \subseteq Nat /\ L \subseteq Nat /\ lastBuf \in Nat
  <2>1. L \in SUBSET Cell
    BY <1>6 DEF IInv, Types
  <2> QED BY <2>1, NetScanAssumption DEF IInv, Types
<1> HIDE DEF s, L
<1>11. Block' = read \cap due
  BY <1>2, <1>5
<1>12. ~lost => \A c \in due : \A d \in Block' : lastBuf < c /\ c <= d => c \in Block'
  <2> SUFFICES ASSUME ~lost, NEW c \in due, NEW d \in read, lastBuf < c, c <= d
               PROVE  c \in read
    BY <1>11
  <2>1. c \in L
    BY <1>9, <1>10
  <2>2. ~(d < c)
    BY <1>2, <1>10
  <2> QED BY <1>2, <2>1, <2>2
<1>13. s \in Keys(cache') =>
           /\ lastKey = None => \A c \in left'[s] : c > lastBuf
           /\ \A b \in Block' : \A c \in left'[s] : b < c
           /\ ~lost => \A c \in due : c > lastBuf => c \in Block' \cup left'[s]
  BY <1>2, <1>8, <1>9, <1>11
<1>14. lastKey = None => \A c \in Block' : c > lastBuf
  BY <1>2, <1>9, <1>11
<1>15. ~lost /\ r.last => \A c \in due : c > lastBuf => c \in Block'
  BY <1>2, <1>9, <1>11
<1> QED BY <1>0, <1>5, <1>7, <1>12, <1>13, <1>14, <1>15 DEF StreamAhead

LEMMA ServerStream ==
    ASSUME IInv, ServerNext
    PROVE  StreamAhead'
<1>0. Frame /\ now' = now /\ now \in Call /\ Types /\ CallsMatch /\ StreamAhead
      /\ scannerOpen' = scannerOpen /\ scanner' = scanner
  BY ServerSteps DEF Frame, IInv, Types
<1>1. lastKey' = lastKey /\ lastBuf' = lastBuf /\ due' = due /\ lost' = lost
  BY <1>0 DEF Frame
<1>2. Current \in Id \cup {None}
  <2>1. CASE scannerOpen
    BY <1>0, <2>1 DEF Current, Types
  <2>2. CASE ~scannerOpen /\ Opening
    <3>1. calls[now].reply \in ScanReply
      BY <1>0, <2>2, CallFacts DEF Opening, Replies
    <3> QED BY <2>2, <3>1 DEF Current, ScanReply
  <2> QED BY <2>1, <2>2 DEF Current
<1>3. Keys(cache') \subseteq CacheKey
  <2>1. cache' \in Seq(Items)
    BY ServerTypes DEF Types
  <2>2. Keys(cache') = {x.key : x \in ToSet(cache')} /\ ToSet(cache') \subseteq Items
    BY <2>1, KeysOf
  <2> QED BY <2>2 DEF Items, CacheKey
<1>4. None \notin CacheKey /\ Mark \notin Id
  BY NoneAssumption DEF CacheKey, Mark, Id
<1>5. ASSUME Current' = Current, Fetched' => Fetched, Fetched => Fetched',
             Fetched' => calls'[now'].reply = calls[now].reply,
             Current \in Keys(cache') =>
                 Current \in Keys(cache) /\ left'[Current] = left[Current]
      PROVE  StreamAhead'
  <2>1. Block' = Block
    BY <1>5 DEF Block
  <2> QED BY <1>0, <1>1, <1>5, <2>1, StreamKept
<1>6. ASSUME calls'[now] = calls[now]
      PROVE  /\ Current' = Current /\ (Fetched' <=> Fetched)
             /\ calls'[now'].reply = calls[now].reply
  BY <1>0, <1>6 DEF Current, Opening, Fetched
<1>7. ASSUME LeftBut(None, {}), NEW k, Keys(cache') \subseteq Keys(cache) \cup {k},
             k # Current, Current \in Keys(cache')
      PROVE  Current \in Keys(cache) /\ left'[Current] = left[Current]
  <2>1. Current \in Id
    BY <1>2, <1>3, <1>4, <1>7
  <2> QED BY <1>4, <1>7, <2>1 DEF LeftBut, CacheKey
<1>8. CASE Quiet
  <2>1. Mark # Current
    BY <1>2, <1>4, NoneAssumption DEF CacheKey
  <2> QED BY <1>5, <1>6, <1>7, <1>8, <2>1 DEF Quiet
<1>9. ASSUME NEW n \in Call, NEW id \in Id, Opens(n, id)
      PROVE  StreamAhead'
  <2>1. CASE n = now
    BY <1>0, <1>9, <2>1, OpenStream
  <2>2. CASE n # now
    <3>1. calls'[now] = calls[now]
      BY <1>0, <1>9, <2>2, OpenServes
    <3>2. Current # id
      BY <1>0, <1>4, <1>9, CallFacts, NoneAssumption DEF Current, Opening, Opens, CacheKey
    <3>3. Current \in Keys(cache') =>
              Current \in Keys(cache) /\ left'[Current] = left[Current]
      <4> SUFFICES ASSUME Current \in Keys(cache')
                   PROVE  Current \in Keys(cache) /\ left'[Current] = left[Current]
        OBVIOUS
      <4>1. Current \in Id
        BY <1>2, <1>3, <1>4
      <4> QED BY <1>9, <3>2, <4>1 DEF Opens, LeftBut
    <3> QED BY <1>5, <1>6, <3>1, <3>3
  <2> QED BY <2>1, <2>2
<1>10. ASSUME NEW n \in Call, Pins(n)
       PROVE  StreamAhead'
  <2>1. calls[n] # None /\ calls[n].op # "scan" /\ calls[n].at # "done"
        /\ Keys(cache') \subseteq Keys(cache) \cup {Mark} /\ LeftBut(None, {})
    BY <1>10 DEF Pins
  <2>2. Current \in Keys(cache') =>
            Current \in Keys(cache) /\ left'[Current] = left[Current]
    BY <2>1, <1>7, <1>2, <1>4, NoneAssumption DEF CacheKey
  <2>3. CASE n # now
    BY <1>0, <1>5, <1>6, <1>10, <2>2, <2>3, PinServes
  <2>4. CASE n = now
    <3>1. scannerOpen /\ ~Fetched
      BY <2>1, <2>4 DEF IInv, CallsMatch, Fetched
    <3>2. calls'[now].at = "run"
      BY <1>10, <2>4, PinServes
    <3> QED BY <1>0, <1>5, <2>2, <3>1, <3>2 DEF Current, Fetched
  <2> QED BY <2>3, <2>4
<1>11. ASSUME NEW n \in Call, NEW r, Fails(n, r)
       PROVE  StreamAhead'
  <2>1. calls[n] # None /\ calls[n].op # "scan" /\ calls[n].at # "done"
        /\ Keys(cache') \subseteq Keys(cache) \cup {Mark} /\ LeftBut(None, {})
        /\ r \in Replies(calls[n].op) /\ calls' = Replied(n, r)
    BY <1>11 DEF Fails, Answers
  <2>2. Current \in Keys(cache') =>
            Current \in Keys(cache) /\ left'[Current] = left[Current]
    BY <2>1, <1>7, <1>2, <1>4, NoneAssumption DEF CacheKey
  <2>3. CASE n # now
    BY <1>0, <1>5, <1>6, <2>1, <2>2, <2>3, AnswerServes
  <2>4. CASE n = now
    <3>1. scannerOpen /\ ~Fetched
      BY <2>1, <2>4 DEF IInv, CallsMatch, Fetched
    <3>2. calls'[now].op = calls[now].op /\ calls'[now].reply = r
      BY <2>1, <2>4, AnswerServes
    <3>3. ~(r.kind = "ok" /\ calls[now].op = "fetch")
      BY <1>11, <2>4 DEF Fails
    <3> QED BY <1>0, <1>5, <2>2, <3>1, <3>2, <3>3 DEF Current, Fetched
  <2> QED BY <2>3, <2>4
<1>12. ASSUME NEW n \in Call, NEW r, Reads(n, r)
       PROVE  StreamAhead'
  <2>1. CASE n = now
    BY <1>0, <1>12, <2>1, ReadStream
  <2>2. CASE n # now
    <3>1. calls[n] # None /\ calls[n].op # "scan" /\ calls[n].at # "done"
          /\ Keys(cache') \subseteq Keys(cache)
          /\ r \in Replies(calls[n].op) /\ calls' = Replied(n, r)
      BY <1>12 DEF Reads, Answers
    <3>2. calls'[now] = calls[now]
      BY <1>0, <2>2, <3>1, AnswerServes
    <3>3. calls[n].id # Current
      <4>1. n < now
        BY <1>0, <2>2, <3>1, CallFacts DEF Call
      <4> QED BY <1>0, <3>1, <4>1 DEF CallsMatch, Given
    <3>4. PICK read \in SUBSET left[calls[n].id] :
              LeftBut(calls[n].id, left[calls[n].id] \ read)
      BY <1>12 DEF Reads
    <3>5. Current \in Keys(cache') =>
              Current \in Keys(cache) /\ left'[Current] = left[Current]
      <4> SUFFICES ASSUME Current \in Keys(cache')
                   PROVE  Current \in Keys(cache) /\ left'[Current] = left[Current]
        OBVIOUS
      <4>1. Current \in Id
        BY <1>2, <1>3, <1>4
      <4> QED BY <3>1, <3>3, <3>4, <4>1 DEF LeftBut
    <3> QED BY <1>5, <1>6, <3>2, <3>5
  <2> QED BY <2>1, <2>2
<1> QED BY <1>8, <1>9, <1>10, <1>11, <1>12, ServerSteps

LEMMA ServerKeeps ==
    ASSUME IInv, ServerNext
    PROVE  IInv'
BY ServerTypes, ServerClient, ServerMatch, ServerCounts, ServerElse, ServerStream
   DEF IInv

-----------------------------------------------------------------------------
(* Steps of the client, by what they do to the calls.                      *)

ServerStill == cache' = cache /\ mark' = mark /\ left' = left

\* No call begins or ends.
LEMMA IdleCalls ==
    ASSUME IInv, ServerStill, calls' = calls, now' = now, pending' = pending,
           scannerOpen' = scannerOpen, scanner' = scanner, eos => eos'
    PROVE  /\ CallsMatch' /\ CacheCounts'
           /\ Current' = Current /\ (Fetched' <=> Fetched) /\ Block' = Block
<1>1. Current' = Current /\ (Fetched' <=> Fetched) /\ Block' = Block
  BY DEF Current, Opening, Fetched, Block
<1>2. CacheCounts'
  BY DEF IInv, CacheCounts, ServerStill, InUse, Runs
<1>3. \A n \in Call : CallIsSound(n)' /\ (Given(n)' <=> Given(n))
  BY DEF IInv, CallsMatch, CallIsSound, Given
<1>4. CallsMatch'
  BY <1>1, <1>3 DEF IInv, CallsMatch
<1> QED BY <1>1, <1>2, <1>4

\* The call of now is over, if there is one; it may be followed by another.
Begins(x) ==
    /\ now' = now /\ calls' = [calls EXCEPT ![now] = x]
    /\ calls[now] = None \/ calls[now].at = "done"
    /\ scanner' \in {Current, None} /\ scannerOpen' \in BOOLEAN
    /\ scannerOpen' <=> scanner' # None
    /\ \/ x = None /\ pending' = FALSE
       \/ /\ pending' = TRUE
          /\ \/ \E row \in Nat : x = Sent("scan", None, row) /\ ~scannerOpen'
             \/ x = Sent("fetch", scanner', 0) /\ scannerOpen'
             \/ x = Sent("close", scanner', 0) /\ scannerOpen' /\ eos'

LEMMA CurrentTyped ==
    ASSUME Types, CallsMatch
    PROVE  Current \in Id \cup {None}
<1>0. now \in Call
  BY DEF Types
<1>1. CASE scannerOpen
  BY <1>1 DEF Current, Types
<1>2. CASE ~scannerOpen /\ Opening
  <2>1. calls[now].reply \in ScanReply
    BY <1>0, <1>2, CallFacts DEF Opening, Replies
  <2> QED BY <1>2, <2>1 DEF Current, ScanReply
<1> QED BY <1>1, <1>2 DEF Current

LEMMA BeginCalls ==
    ASSUME IInv, ServerStill, NEW x, Begins(x)
    PROVE  /\ CallsMatch' /\ CacheCounts' /\ calls' \in [Call -> CallSet \cup {None}]
           /\ calls'[now'] = x /\ Current' = scanner' /\ ~Fetched'
           /\ scanner' \in Id \cup {None} /\ pending' \in BOOLEAN
           /\ x # None => x.at = "sent"
<1>0. /\ Types /\ CallsMatch /\ now \in Call /\ now \in Nat /\ now' = now
      /\ Current \in Id \cup {None}
      /\ calls \in [Call -> CallSet \cup {None}]
  BY CurrentTyped DEF IInv, Types, Call, Begins
<1>1. scanner' \in Id \cup {None} /\ pending' \in BOOLEAN /\ None \notin Id
  <2>1. None \notin Id
    BY NoneAssumption DEF Id
  <2>2. pending' = TRUE \/ pending' = FALSE
    BY DEF Begins
  <2>3. scanner' \in {Current, None}
    BY DEF Begins
  <2>4. pending' \in BOOLEAN
    BY <2>2
  <2> QED BY <1>0, <2>1, <2>3, <2>4
<1>2. x # None =>
          /\ x \in CallSet /\ x.at = "sent" /\ pending' = TRUE
          /\ \/ x.op = "scan" /\ x.id = None /\ ~scannerOpen'
             \/ x.op = "fetch" /\ x.id = scanner' /\ scannerOpen'
             \/ x.op = "close" /\ x.id = scanner' /\ scannerOpen' /\ eos'
  <2>1. CASE \E row \in Nat : x = Sent("scan", None, row) /\ ~scannerOpen'
    <3>1. PICK row \in Nat : x = Sent("scan", None, row) /\ ~scannerOpen'
      BY <2>1
    <3>2. x \in CallSet /\ x # None /\ x.op = "scan" /\ x.id = None /\ x.at = "sent"
      BY <3>1, SentFacts
    <3> QED BY <3>1, <3>2 DEF Begins
  <2>2. CASE x = Sent("fetch", scanner', 0) /\ scannerOpen'
    <3>1. x \in CallSet /\ x # None /\ x.op = "fetch" /\ x.id = scanner' /\ x.at = "sent"
      BY <1>1, <2>2, SentFacts
    <3> QED BY <2>2, <3>1 DEF Begins
  <2>3. CASE x = Sent("close", scanner', 0) /\ scannerOpen' /\ eos'
    <3>1. x \in CallSet /\ x # None /\ x.op = "close" /\ x.id = scanner' /\ x.at = "sent"
      BY <1>1, <2>3, SentFacts
    <3> QED BY <2>3, <3>1 DEF Begins
  <2> QED BY <2>1, <2>2, <2>3 DEF Begins
<1>3. x = None => pending' = FALSE
  <2>1. ASSUME NEW row \in Nat PROVE Sent("scan", None, row) # None
    BY SentFacts
  <2>2. Sent("fetch", scanner', 0) # None /\ Sent("close", scanner', 0) # None
    BY <1>1, SentFacts
  <2> QED BY <2>1, <2>2 DEF Begins
<1>4. /\ calls' \in [Call -> CallSet \cup {None}] /\ calls'[now] = x
      /\ \A m \in Call : m # now => calls'[m] = calls[m]
  BY <1>0, <1>2 DEF Begins
<1>5. ~Fetched' /\ ~Opening' /\ Current' = scanner'
  BY <1>0, <1>2, <1>4 DEF Fetched, Opening, Current, Begins
<1>6. CacheCounts'
  <2>1. Runs' = Runs /\ now \notin Runs
    BY <1>0, <1>2, <1>4 DEF Runs, Begins
  <2>2. {calls'[m].id : m \in Runs'} = {calls[m].id : m \in Runs}
    BY <1>4, <2>1 DEF Runs
  <2>3. InUse' = InUse
    BY <2>2 DEF InUse, ServerStill
  <2> QED BY <2>3 DEF IInv, CacheCounts, ServerStill
<1>7. ASSUME NEW m \in Call PROVE CallIsSound(m)'
  <2>1. CASE m # now
    BY <1>0, <1>4, <2>1 DEF CallsMatch, CallIsSound
  <2>2. CASE m = now
    BY <1>0, <1>1, <1>2, <1>4, <2>2 DEF CallIsSound, Begins
  <2> QED BY <2>1, <2>2
<1>8. ASSUME NEW n \in Call, Given(n)'
      PROVE  /\ Given(n) /\ calls'[n] = calls[n]
             /\ calls'[n].id # Current'
  <2>1. n # now /\ n < now /\ calls'[n] = calls[n]
    BY <1>0, <1>4, <1>8 DEF Given
  <2>2. Given(n)
    BY <1>0, <1>8, <2>1 DEF Given
  <2>3. calls[n].id # Current /\ calls[n].id \in Id
    BY <1>0, <2>2, CallFacts DEF CallsMatch, Given
  <2> QED BY <1>1, <1>5, <2>1, <2>2, <2>3 DEF Begins
<1>9. CallsMatch'
  <2>1. \A n \in Call : Given(n)' =>
           /\ calls'[n].id # Current'
           /\ \A m \in Call : Given(m)' /\ m # n => calls'[m].id # calls'[n].id
    BY <1>0, <1>8 DEF CallsMatch
  <2>2. pending' <=> calls'[now'] # None
    BY <1>0, <1>2, <1>3, <1>4
  <2>3. scannerOpen' <=> scanner' # None
    BY DEF Begins
  <2> QED BY <1>0, <1>2, <1>4, <1>7, <2>1, <2>2, <2>3 DEF CallsMatch
<1> QED BY <1>0, <1>1, <1>2, <1>4, <1>5, <1>6, <1>9

\* The client gives a call up: the scanner is no longer its own.
LEMMA LostCalls ==
    ASSUME IInv, ServerStill, now < MaxFaults, calls[now] # None, now' = now + 1,
           calls' = IF calls[now].at = "done" THEN [calls EXCEPT ![now] = None]
                    ELSE calls,
           pending' = FALSE, scannerOpen' = FALSE, scanner' = None
    PROVE  /\ CallsMatch' /\ CacheCounts' /\ calls' \in [Call -> CallSet \cup {None}]
           /\ calls'[now'] = None /\ Current' = None /\ ~Fetched' /\ now' \in Call
<1>0. /\ Types /\ CallsMatch /\ now \in Call /\ now \in Nat /\ MaxFaults \in Nat
      /\ calls \in [Call -> CallSet \cup {None}]
  BY NetScanAssumption DEF IInv, Types, Call
<1>1. now' \in Call /\ now' # now /\ ~(now' <= now)
  BY <1>0 DEF Call
<1>2. /\ calls' \in [Call -> CallSet \cup {None}]
      /\ \A m \in Call : m # now => calls'[m] = calls[m]
      /\ \/ calls'[now] = calls[now] /\ calls[now].at # "done"
         \/ calls'[now] = None /\ calls[now].at = "done"
  BY <1>0
<1>3. calls'[now'] = None
  <2>1. calls[now'] = None
    BY <1>0, <1>1, CallFacts
  <2> QED BY <1>1, <1>2, <2>1
<1>4. Current' = None /\ ~Fetched'
  BY <1>3 DEF Current, Opening, Fetched
<1>5. CacheCounts'
  <2>1. Runs' = Runs
    BY <1>0, <1>2 DEF Runs
  <2>2. {calls'[m].id : m \in Runs'} = {calls[m].id : m \in Runs}
    BY <1>2, <2>1 DEF Runs
  <2>3. InUse' = InUse
    BY <2>2 DEF InUse, ServerStill
  <2> QED BY <2>3 DEF IInv, CacheCounts, ServerStill
<1>6. ASSUME NEW m \in Call, calls'[m] # None
      PROVE  calls'[m] = calls[m] /\ calls[m].at # "done" /\ m <= now /\ m < now'
  <2>1. calls'[m] = calls[m] /\ calls[m] # None
    BY <1>2, <1>6
  <2>2. m <= now /\ m \in Nat
    BY <1>0, <2>1, CallFacts DEF Call
  <2>3. calls[m].at # "done"
    BY <1>0, <1>2, <1>6, <2>1, CallFacts
  <2> QED BY <1>0, <2>1, <2>2, <2>3
<1>7. ASSUME NEW m \in Call PROVE CallIsSound(m)'
  <2>1. CASE calls'[m] = None
    BY <2>1 DEF CallIsSound
  <2>2. CASE calls'[m] # None
    <3>1. m <= now'
      BY <1>0, <1>6, <2>2 DEF Call
    <3> QED BY <1>0, <1>6, <2>2, <3>1 DEF CallsMatch, CallIsSound
  <2> QED BY <2>1, <2>2
<1>8. ASSUME NEW n \in Call, Given(n)'
      PROVE  /\ calls[n] # None /\ calls[n].op # "scan" /\ calls'[n] = calls[n]
             /\ calls[n].id \in Id
  BY <1>0, <1>6, <1>8, CallFacts DEF Given
<1>9. ASSUME NEW n \in Call, Given(n)'
      PROVE  /\ calls'[n].id # Current'
             /\ \A m \in Call : Given(m)' /\ m # n => calls'[m].id # calls'[n].id
  <2>1. None \notin Id
    BY NoneAssumption DEF Id
  <2>2. ASSUME NEW m \in Call, Given(m)', m # n
        PROVE  calls'[m].id # calls'[n].id
    BY <1>0, <1>8, <1>9, <2>2, CallsDiffer
  <2> QED BY <1>4, <1>8, <1>9, <2>1, <2>2
<1>10. CallsMatch'
  BY <1>3, <1>7, <1>9 DEF CallsMatch
<1> QED BY <1>1, <1>2, <1>3, <1>4, <1>5, <1>10

-----------------------------------------------------------------------------
(* The client's thread keeps the invariant.                                *)

\* What a step that starts and ends no call, and changes no key, keeps.
LEMMA IdleKeeps ==
    ASSUME IInv, ServerStill, calls' = calls, now' = now, pending' = pending,
           scannerOpen' = scannerOpen, scanner' = scanner, eos => eos',
           error' = error, lastKey' = lastKey, lastBuf' = lastBuf, lost' = lost,
           due' = due,
           cpc' = "gone" => cpc = "gone" \/ (~pending /\ ~scannerOpen)
    PROVE  CallsMatch' /\ CacheCounts' /\ NothingElse' /\ KeyIsLast' /\ StreamAhead'
<1>1. /\ CallsMatch' /\ CacheCounts'
      /\ Current' = Current /\ (Fetched' <=> Fetched) /\ Block' = Block
  BY IdleCalls
<1>2. NothingElse'
  BY <1>1 DEF IInv, NothingElse, ServerStill
<1>3. KeyIsLast'
  BY DEF IInv, KeyIsLast, After
<1>4. StreamAhead'
  BY <1>1, StreamKept DEF IInv, ServerStill
<1> QED BY <1>1, <1>2, <1>3, <1>4

\* What the client has got is cells, and cells are numbers.
LEMMA GotTyped ==
    ASSUME Types
    PROVE  /\ Len(readyQ) \in Nat
           /\ \A i \in 1..Len(readyQ) : readyQ[i] \subseteq Cell /\ readyQ[i] # {}
           /\ InReady \subseteq Cell /\ Returned \subseteq Cell /\ Got \subseteq Cell
           /\ Cell \subseteq Nat \ {0} /\ lastBuf \in Nat
<1>1. Len(readyQ) \in Nat /\ \A i \in 1..Len(readyQ) : readyQ[i] \in (SUBSET Cell) \ {{}}
  <2> DEFINE B == (SUBSET Cell) \ {{}}
  <2>1. readyQ \in Seq(B)
    BY DEF Types
  <2> HIDE DEF B
  <2>2. Len(readyQ) \in Nat /\ \A i \in 1..Len(readyQ) : readyQ[i] \in B
    BY <2>1
  <2> QED BY <2>2 DEF B
<1>2. InReady \subseteq Cell
  BY <1>1 DEF InReady
<1>3. Returned \subseteq Cell /\ activeBuf \subseteq Cell
  BY DEF Returned, Types
<1>4. Cell \subseteq Nat \ {0} /\ lastBuf \in Nat
  BY NetScanAssumption DEF Types
<1> QED BY <1>1, <1>2, <1>3, <1>4 DEF Got

\* The buffers and what was returned stay as they are.
LEMMA QueuesSame ==
    ASSUME IInv, readyQ' = readyQ, activeBuf' = activeBuf, seen' = seen,
           lastBuf' = lastBuf
    PROVE  Got' = Got /\ InOrder'
<1>1. Got' = Got /\ Returned' = Returned /\ InReady' = InReady
  BY DEF Got, Returned, InReady
<1> QED BY <1>1 DEF IInv, InOrder

LEMMA ScanKeeps ==
    ASSUME IInv, NEW h \in Histories, Scan(h)
    PROVE  IInv'
<1>1. /\ status = "new" /\ status' = "open" /\ due' \subseteq Cell
      /\ UNCHANGED <<cpc, emptyQ, readyQ, activeBuf, lastBuf, lastKey, eos, pending,
                     scannerOpen, scanner, error, calls, now, cache, mark, left, seen,
                     lost>>
  BY DEF Scan, queueVars, flagVars, callVars, serverVars
<1>2. /\ cpc = "out" /\ activeBuf = {} /\ lastBuf = 0 /\ lastKey = None
      /\ ~eos /\ ~pending /\ ~scannerOpen
  BY <1>1 DEF IInv, ClientAt
<1>3. Types'
  BY <1>1 DEF IInv, Types
<1>4. CallsMatch' /\ CacheCounts' /\ Current' = Current /\ (Fetched' <=> Fetched)
  BY <1>1, IdleCalls DEF ServerStill
<1>5. calls[now] = None /\ Current = None /\ ~Fetched
  BY <1>2 DEF IInv, CallsMatch, Current, Opening, Fetched
<1>6. StreamAhead'
  BY <1>3, <1>4, <1>5, StreamNone
<1>7. Got' = Got /\ InOrder'
  BY <1>1, QueuesSame
<1>8. GotAll'
  BY <1>1, <1>2, NetScanAssumption DEF GotAll
<1>9. KeyIsLast'
  BY <1>1, <1>2, <1>5 DEF KeyIsLast
<1>10. NothingElse'
  BY <1>1, <1>4 DEF IInv, NothingElse
<1>11. BuffersAccounted'
  BY <1>1 DEF IInv, BuffersAccounted
<1>12. ClientAt'
  BY <1>1, <1>2 DEF ClientAt, Closing
<1> QED BY <1>3, <1>4, <1>6, <1>7, <1>8, <1>9, <1>10, <1>11, <1>12 DEF IInv

LEMMA GetCellKeeps ==
    ASSUME IInv, GetCell
    PROVE  IInv'
<1> DEFINE m == Min(activeBuf)
<1>1. /\ cpc = "out" /\ activeBuf # {} /\ status = "open"
      /\ seen' = Append(seen, m) /\ activeBuf' = activeBuf \ {m}
      /\ cpc' = IF activeBuf' = {} THEN "release" ELSE "out"
      /\ UNCHANGED <<emptyQ, readyQ, lastBuf, lastKey, eos, pending,
                     scannerOpen, scanner, error, calls, now, cache, mark, left,
                     due, status, lost>>
  BY DEF GetCell, flagVars, callVars, serverVars
<1>2. /\ activeBuf \subseteq Cell /\ activeBuf \in SUBSET Nat /\ InReady \subseteq Nat
      /\ seen \in Seq(Cell)
  <2>1. activeBuf \subseteq Cell /\ seen \in Seq(Cell) /\ Types
    BY DEF IInv, Types
  <2> QED BY <2>1, GotTyped
<1>3. m \in activeBuf /\ \A c \in activeBuf : m <= c
  BY <1>1, <1>2, MinIsLeast
<1> HIDE DEF m
<1>4. m \in Cell /\ m \in Nat
  BY <1>2, <1>3
<1>5. Types'
  <2>1. seen' \in Seq(Cell) /\ activeBuf' \subseteq Cell
    BY <1>1, <1>2, <1>4
  <2> QED BY <1>1, <2>1 DEF IInv, Types
<1>6. Returned' = Returned \cup {m} /\ InReady' = InReady
  <2>1. Len(seen') = Len(seen) + 1 /\ Len(seen) \in Nat
        /\ \A i \in 1..(Len(seen) + 1) :
               seen'[i] = IF i = Len(seen) + 1 THEN m ELSE seen[i]
    BY <1>1, <1>2, <1>4
  <2>2. 1..(Len(seen) + 1) = (1..Len(seen)) \cup {Len(seen) + 1}
        /\ \A i \in 1..Len(seen) : i # Len(seen) + 1
    BY <2>1
  <2>3. Returned' = {seen'[i] : i \in 1..(Len(seen) + 1)}
    BY <2>1 DEF Returned
  <2>4. Returned' = Returned \cup {m}
    BY <2>1, <2>2, <2>3 DEF Returned
  <2> QED BY <1>1, <2>4 DEF InReady
<1>7. Got' = Got
  BY <1>1, <1>3, <1>6 DEF Got
<1>8. InOrder'
  <2>1. \A c \in activeBuf' : m < c
    <3> SUFFICES ASSUME NEW c \in activeBuf, c # m PROVE m < c
      BY <1>1
    <3>1. m <= c /\ c \in Nat
      BY <1>2, <1>3
    <3> QED BY <1>4, <3>1
  <2>2. \A d \in InReady : m < d
    BY <1>3 DEF IInv, InOrder
  <2>3. \A c \in Returned' : \A d \in activeBuf' \cup InReady' : c < d
    BY <1>1, <1>6, <2>1, <2>2 DEF IInv, InOrder
  <2>4. \A c \in activeBuf' : \A d \in InReady' : c < d
    BY <1>1, <1>6 DEF IInv, InOrder
  <2>5. /\ \A c \in Got' : c <= lastBuf'
        /\ \A i, j \in 1..Len(readyQ') :
               i < j => \A c \in readyQ'[i] : \A d \in readyQ'[j] : c < d
    BY <1>1, <1>7 DEF IInv, InOrder
  <2> QED BY <2>3, <2>4, <2>5 DEF InOrder
<1>9. /\ CallsMatch' /\ CacheCounts' /\ NothingElse' /\ KeyIsLast' /\ StreamAhead'
  BY <1>1, IdleKeeps DEF ServerStill
<1>10. GotAll'
  BY <1>1, <1>7 DEF IInv, GotAll, Closing
<1>11. BuffersAccounted' /\ ClientAt'
  BY <1>1 DEF IInv, BuffersAccounted, ClientAt, Closing
<1> QED BY <1>5, <1>7, <1>8, <1>9, <1>10, <1>11 DEF IInv

LEMMA NextReadyKeeps ==
    ASSUME IInv, NextReady
    PROVE  IInv'
<1> DEFINE H == Head(readyQ)
<1>1. /\ InNextBuffer /\ readyQ # <<>>
      /\ activeBuf' = H /\ readyQ' = Tail(readyQ) /\ cpc' = "out"
      /\ UNCHANGED <<emptyQ, lastBuf, lastKey, eos, pending,
                     scannerOpen, scanner, error, calls, now, cache, mark, left,
                     due, seen, status, lost>>
  BY DEF NextReady, flagVars, callVars, serverVars, historyVars
<1>2. activeBuf = {} /\ cpc \in {"next", "out"} /\ status # "new"
  BY <1>1 DEF InNextBuffer, IInv, ClientAt, Closing
<1>3. readyQ \in Seq((SUBSET Cell) \ {{}})
  BY DEF IInv, Types
<1>4. /\ H \in SUBSET Cell /\ H # {} /\ H = readyQ[1]
      /\ readyQ' \in Seq((SUBSET Cell) \ {{}}) /\ Len(readyQ) \in Nat
      /\ Len(readyQ) >= 1 /\ Len(readyQ') = Len(readyQ) - 1
      /\ \A i \in 1..Len(readyQ') : readyQ'[i] = readyQ[i + 1]
  <2> DEFINE B == (SUBSET Cell) \ {{}}
  <2>1. readyQ \in Seq(B)
    BY <1>3
  <2>2. H \in B
    <3> HIDE DEF B
    <3> QED BY <1>1, <2>1
  <2> HIDE DEF B
  <2>3. /\ H = readyQ[1]
        /\ readyQ' \in Seq(B) /\ Len(readyQ) \in Nat
        /\ Len(readyQ) >= 1 /\ Len(readyQ') = Len(readyQ) - 1
        /\ \A i \in 1..Len(readyQ') : readyQ'[i] = readyQ[i + 1]
    BY <1>1, <2>1
  <2> QED BY <2>2, <2>3 DEF B
<1> HIDE DEF H
<1>5. Types'
  BY <1>1, <1>4 DEF IInv, Types
<1>6. /\ 1 \in 1..Len(readyQ)
      /\ \A i \in 1..Len(readyQ') : i + 1 \in 1..Len(readyQ) /\ 1 < i + 1
      /\ \A i \in 1..Len(readyQ) : i = 1 \/ (i - 1 \in 1..Len(readyQ') /\ (i - 1) + 1 = i)
      /\ \A i, j \in 1..Len(readyQ') : i < j => i + 1 < j + 1
  BY <1>4
<1>7. InReady = H \cup InReady'
  <2>1. ASSUME NEW x \in InReady PROVE x \in H \cup InReady'
    <3>1. PICK i \in 1..Len(readyQ) : x \in readyQ[i]
      BY <2>1 DEF InReady
    <3>2. CASE i = 1
      BY <1>4, <3>1, <3>2
    <3>3. CASE i # 1
      <4>1. i - 1 \in 1..Len(readyQ') /\ (i - 1) + 1 = i
        BY <1>6, <3>1, <3>3
      <4>2. x \in readyQ'[i - 1]
        BY <1>4, <3>1, <4>1
      <4> QED BY <4>1, <4>2 DEF InReady
    <3> QED BY <3>2, <3>3
  <2>2. H \subseteq InReady
    BY <1>4, <1>6 DEF InReady
  <2>3. ASSUME NEW x \in InReady' PROVE x \in InReady
    <3>1. PICK i \in 1..Len(readyQ') : x \in readyQ'[i]
      BY <2>3 DEF InReady
    <3>2. i + 1 \in 1..Len(readyQ) /\ x \in readyQ[i + 1]
      BY <1>4, <1>6, <3>1
    <3> QED BY <3>2 DEF InReady
  <2> QED BY <2>1, <2>2, <2>3
<1>8. Got' = Got
  BY <1>1, <1>2, <1>7 DEF Got, Returned
<1>9. InOrder'
  <2>1. \A c \in activeBuf' : \A d \in InReady' : c < d
    <3> SUFFICES ASSUME NEW c \in H, NEW i \in 1..Len(readyQ'), NEW d \in readyQ'[i]
                 PROVE  c < d
      BY <1>1 DEF InReady
    <3>1. d \in readyQ[i + 1] /\ c \in readyQ[1]
      BY <1>4
    <3> QED BY <1>6, <3>1 DEF IInv, InOrder
  <2>2. \A i, j \in 1..Len(readyQ') :
            i < j => \A c \in readyQ'[i] : \A d \in readyQ'[j] : c < d
    BY <1>4, <1>6 DEF IInv, InOrder
  <2>3. Returned' = Returned
    BY <1>1 DEF Returned
  <2>4. \A c \in Returned' : \A d \in activeBuf' \cup InReady' : c < d
    BY <1>1, <1>7, <2>3 DEF IInv, InOrder
  <2>5. \A c \in Got' : c <= lastBuf'
    BY <1>1, <1>8 DEF IInv, InOrder
  <2> QED BY <2>1, <2>2, <2>4, <2>5 DEF InOrder
<1>10. /\ CallsMatch' /\ CacheCounts' /\ NothingElse' /\ KeyIsLast' /\ StreamAhead'
  BY <1>1, IdleKeeps DEF ServerStill
<1>11. GotAll'
  BY <1>1, <1>2, <1>8 DEF IInv, GotAll, Closing
<1>12. BuffersAccounted'
  <2>1. emptyQ + Len(readyQ) + 0 = NBuffers /\ emptyQ \in Nat
    BY <1>2 DEF IInv, BuffersAccounted, Types
  <2>2. emptyQ' + Len(readyQ') + 1 = NBuffers
    BY <1>1, <1>4, <2>1
  <2> QED BY <1>1, <1>4, <2>2 DEF IInv, BuffersAccounted
<1>13. ClientAt'
  BY <1>1, <1>2 DEF ClientAt, Closing
<1> QED BY <1>5, <1>9, <1>10, <1>11, <1>12, <1>13 DEF IInv

\* The other steps that start no call: only cpc and flags change.
LEMMA PassingKeeps ==
    ASSUME IInv, ServerStill,
           UNCHANGED <<emptyQ, readyQ, activeBuf, lastBuf, lastKey, pending,
                       scannerOpen, scanner, error, calls, now, due, seen, lost>>,
           status # "new", status' \in {"open", "end", "error"},
           eos' \in BOOLEAN, eos => eos', eos' = eos \/ cpc' \in Closing,
           cpc' \in Closing => eos',
           cpc \in Closing => cpc' \in Closing,
           cpc # "release", cpc' # "release",
           \/ cpc' \in {"out"} \cup Closing
           \/ cpc' \in {"next", "wait", "timed"} /\ status' = "open" /\ activeBuf = {},
           cpc' = "gone" => ~pending /\ ~scannerOpen
    PROVE  IInv'
<1>1. Types'
  BY DEF IInv, Types, ServerStill, Closing
<1>2. /\ CallsMatch' /\ CacheCounts' /\ NothingElse' /\ KeyIsLast' /\ StreamAhead'
  BY IdleKeeps
<1>3. Got' = Got /\ InOrder'
  BY QueuesSame
<1>4. GotAll'
  BY <1>3 DEF IInv, GotAll
<1>5. BuffersAccounted'
  BY DEF IInv, BuffersAccounted
<1>6. ClientAt'
  BY DEF ClientAt
<1> QED BY <1>1, <1>2, <1>3, <1>4, <1>5, <1>6 DEF IInv

LEMMA NextEndKeeps ==
    ASSUME IInv, NextEnd
    PROVE  IInv'
<1>1. /\ InNextBuffer /\ eos /\ cpc' = "out"
      /\ status' = (IF error THEN "error" ELSE "end")
      /\ UNCHANGED <<emptyQ, readyQ, activeBuf, lastBuf, lastKey, pending,
                     scannerOpen, scanner, error, calls, now, due, seen, lost, eos,
                     cache, mark, left>>
  BY DEF NextEnd, queueVars, flagVars, callVars, serverVars
<1>2. cpc \in {"next", "out"} /\ status # "new"
  BY <1>1 DEF InNextBuffer, IInv, ClientAt, Closing
<1>3. eos' \in BOOLEAN /\ status' \in {"open", "end", "error"}
  BY <1>1 DEF IInv, Types
<1> QED BY <1>1, <1>2, <1>3, PassingKeeps DEF Closing, ServerStill

LEMMA DelayOverKeeps ==
    ASSUME IInv, DelayOver
    PROVE  IInv'
<1>1. /\ cpc' = (IF cpc = "timed" THEN "next" ELSE cpc)
      /\ UNCHANGED <<emptyQ, readyQ, activeBuf, lastBuf, lastKey, pending,
                     scannerOpen, scanner, error, calls, now, due, seen, lost, eos,
                     cache, mark, left, status>>
  BY DEF DelayOver, queueVars, callVars, serverVars, historyVars
<1>2. Types'
  BY <1>1 DEF IInv, Types
<1>3. /\ CallsMatch' /\ CacheCounts' /\ NothingElse' /\ KeyIsLast' /\ StreamAhead'
  BY <1>1, IdleKeeps DEF ServerStill
<1>4. Got' = Got /\ InOrder'
  BY <1>1, QueuesSame
<1>5. GotAll'
  BY <1>1, <1>4 DEF IInv, GotAll, Closing
<1>6. BuffersAccounted'
  BY <1>1 DEF IInv, BuffersAccounted
<1>7. ClientAt'
  BY <1>1 DEF IInv, ClientAt, Closing
<1> QED BY <1>2, <1>3, <1>4, <1>5, <1>6, <1>7 DEF IInv

LEMMA DestroyKeeps ==
    ASSUME IInv, Destroy
    PROVE  IInv'
<1>1. /\ cpc = "out" /\ status # "new" /\ cpc' = "close" /\ eos' = TRUE
      /\ UNCHANGED <<emptyQ, readyQ, activeBuf, lastBuf, lastKey, pending,
                     scannerOpen, scanner, error, calls, now, due, seen, lost,
                     cache, mark, left, status>>
  BY DEF Destroy, queueVars, callVars, serverVars, historyVars
<1>2. eos' \in BOOLEAN /\ status' \in {"open", "end", "error"}
  BY <1>1 DEF IInv, Types
<1> QED BY <1>1, <1>2, PassingKeeps DEF Closing, ServerStill

LEMMA DestroyedKeeps ==
    ASSUME IInv, Destroyed
    PROVE  IInv'
<1>1. /\ cpc = "close" /\ ~pending /\ ~scannerOpen /\ cpc' = "gone"
      /\ UNCHANGED <<emptyQ, readyQ, activeBuf, lastBuf, lastKey, pending,
                     scannerOpen, scanner, error, calls, now, due, seen, lost, eos,
                     cache, mark, left, status>>
  BY DEF Destroyed, queueVars, flagVars, callVars, serverVars, historyVars
<1>2. status # "new" /\ eos
  BY <1>1 DEF IInv, ClientAt, Closing
<1>3. eos' \in BOOLEAN /\ status' \in {"open", "end", "error"}
  BY <1>1, <1>2 DEF IInv, Types
<1> QED BY <1>1, <1>2, <1>3, PassingKeeps DEF Closing, ServerStill

\* Without failures there is no other scanner still.
LEMMA BeginElse ==
    ASSUME IInv, ServerStill, NEW x, Begins(x), error => error',
           now = 0 /\ ~error' => Current' = Current \/ Keys(cache) \subseteq {Mark},
           cpc' = "gone" => cpc = "gone" /\ calls[now] # None
    PROVE  NothingElse'
<1>1. calls'[now'] = x /\ (x # None => x.at = "sent") /\ now' = now /\ cache' = cache
  BY BeginCalls DEF Begins, ServerStill
<1> SUFFICES ASSUME now = 0, ~error'
             PROVE  Keys(cache) \subseteq {Mark, Current'} /\ cpc' # "gone"
  BY <1>1 DEF NothingElse
<1>2. Keys(cache) \subseteq {Mark, Current} /\ (cpc = "gone" => ~pending)
  BY DEF IInv, NothingElse
<1>3. cpc' # "gone"
  BY <1>2 DEF IInv, CallsMatch
<1> QED BY <1>2, <1>3

\* maybeStartFetch_locked() from the client's thread.
LEMMA FetchStarts ==
    ASSUME IInv, ServerStill, NEW e \in Nat, e >= emptyQ, emptyQ' = e,
           MaybeStartFetch(eos, pending, e, scannerOpen, scanner, calls),
           now' = now, scannerOpen' = scannerOpen, scanner' = scanner,
           eos' = eos, error' = error, lastBuf' = lastBuf, due' = due,
           cpc' # "gone"
    PROVE  /\ CallsMatch' /\ CacheCounts' /\ NothingElse' /\ KeyIsLast'
           /\ calls' \in [Call -> CallSet \cup {None}] /\ pending' \in BOOLEAN
           /\ lastKey' \in KeySet \cup {None} /\ lost' \in BOOLEAN
           /\ lost => lost'
           /\ calls'[now'] # None /\ calls'[now'].op = "fetch" => emptyQ' > 0
           /\ Types' => StreamAhead'
<1>0. /\ Types /\ CallsMatch /\ now \in Call /\ emptyQ \in Nat /\ lost \in BOOLEAN
      /\ pending \in BOOLEAN /\ lastKey \in KeySet \cup {None}
      /\ calls \in [Call -> CallSet \cup {None}] /\ scannerOpen \in BOOLEAN
  BY DEF IInv, Types
<1>1. CASE /\ pending' = pending /\ calls' = calls /\ UNCHANGED <<lastKey, lost>>
  <2>1. CallsMatch' /\ CacheCounts' /\ NothingElse' /\ KeyIsLast' /\ StreamAhead'
    BY <1>1, IdleKeeps
  <2>2. calls'[now'] # None /\ calls'[now'].op = "fetch" => emptyQ' > 0
    <3>1. calls'[now'] # None /\ calls'[now'].op = "fetch" => emptyQ > 0
      BY <1>1 DEF IInv, BuffersAccounted
    <3> QED BY <3>1, <1>0
  <2> QED BY <1>0, <1>1, <2>1, <2>2
<1>2. ASSUME CanFetch(eos, pending, e)
      PROVE  /\ ~pending /\ e > 0 /\ calls[now] = None /\ ~Fetched /\ Block = {}
             /\ Current = scanner
  BY <1>2 DEF CanFetch, IInv, CallsMatch, Fetched, Current, Opening, Block
<1>3. CASE /\ CanFetch(eos, pending, e) /\ scannerOpen /\ pending' = TRUE
           /\ calls' = [calls EXCEPT ![now] = Sent("fetch", scanner, 0)]
           /\ UNCHANGED <<lastKey, lost>>
  <2> DEFINE x == Sent("fetch", scanner, 0)
  <2>1. Begins(x)
    BY <1>2, <1>3, <1>0 DEF Begins, CallsMatch
  <2>2. x.op = "fetch"
    <3>1. scanner \in Id \cup {None} /\ 0 \in Nat
      BY <1>0 DEF Types
    <3> QED BY <3>1, SentFacts
  <2> HIDE DEF x
  <2>3. /\ CallsMatch' /\ CacheCounts' /\ calls' \in [Call -> CallSet \cup {None}]
        /\ calls'[now'] = x /\ Current' = scanner' /\ ~Fetched' /\ pending' \in BOOLEAN
    BY <2>1, BeginCalls
  <2>4. NothingElse'
    BY <1>2, <1>3, <2>1, <2>3, BeginElse
  <2>5. KeyIsLast'
    BY <1>3, <2>2, <2>3 DEF IInv, KeyIsLast, After
  <2>6. StreamAhead'
    <3>1. Block' = Block /\ Current' = Current
      BY <1>2, <1>3, <2>3 DEF Block
    <3> QED BY <1>2, <1>3, <2>3, <3>1, StreamKept DEF IInv, ServerStill
  <2> QED BY <1>0, <1>2, <1>3, <2>3, <2>4, <2>5, <2>6
<1>4. CASE /\ CanFetch(eos, pending, e) /\ ~scannerOpen /\ pending' = TRUE
           /\ lastKey' = (IF lastKey # None THEN lastKey ELSE ResumeKey)
           /\ calls' = [calls EXCEPT ![now] =
                  Sent("scan", None, IF lastKey' = None THEN 0 ELSE lastKey'.row)]
           /\ lost' = (lost \/ Loses(lastKey'))
  <2> DEFINE row == IF lastKey' = None THEN 0 ELSE lastKey'.row
             x == Sent("scan", None, row)
  <2>1. lastKey' \in KeySet \cup {None} /\ row \in Nat
    BY <1>0, <1>4, ResumeFacts
  <2> HIDE DEF row
  <2>2. scanner = None
    BY <1>4 DEF IInv, CallsMatch
  <2>3. Begins(x)
    BY <1>0, <1>2, <1>4, <2>1, <2>2 DEF Begins, row
  <2>4. x.op = "scan" /\ x.row = row
    BY <2>1, SentFacts
  <2> HIDE DEF x
  <2>5. /\ CallsMatch' /\ CacheCounts' /\ calls' \in [Call -> CallSet \cup {None}]
        /\ calls'[now'] = x /\ Current' = scanner' /\ ~Fetched' /\ pending' \in BOOLEAN
    BY <2>3, BeginCalls
  <2>6. NothingElse'
    BY <1>2, <1>4, <2>3, <2>5, BeginElse
  <2>7. lost' \in BOOLEAN /\ (lost => lost')
    BY <1>4
  <2>8. KeyIsLast'
    <3>1. ASSUME lastKey' # None
          PROVE  /\ lastBuf' # 0 /\ lastKey'.row = RowOf[lastBuf']
                 /\ lastKey'.cell \in {None, lastBuf'}
                 /\ ~lost' => \A c \in due' : c > lastBuf' => After(lastKey', c)
      <4>1. CASE lastKey # None
        <5>1. lastKey' = lastKey /\ (~lost' => ~lost)
          BY <1>4, <2>7, <4>1
        <5> QED BY <4>1, <5>1 DEF IInv, KeyIsLast
      <4>2. CASE lastKey = None
        <5>1. lastKey' = ResumeKey /\ lastBuf # 0
          BY <1>4, <3>1, <4>2 DEF ResumeKey
        <5>2. lastKey'.row = RowOf[lastBuf] /\ lastKey'.cell \in {None, lastBuf}
          BY <5>1 DEF ResumeKey
        <5>3. ~lost' => \A c \in due : c > lastBuf => After(lastKey', c)
          BY <1>4, <3>1 DEF Loses
        <5> QED BY <5>1, <5>2, <5>3
      <4> QED BY <4>1, <4>2
    <3>2. lastKey' = None => lastBuf' = 0
      <4>1. CASE lastBuf = 0
        BY <4>1
      <4>2. CASE lastBuf # 0
        <5>1. ResumeKey = [row |-> RowOf[lastBuf],
                           cell |-> IF hist > 0 THEN None ELSE lastBuf]
          BY <4>2 DEF ResumeKey
        <5>2. lastBuf \in Cell
          BY <1>0, <4>2 DEF Types
        <5>3. RowOf[lastBuf] \in Nat
          BY <5>2, NetScanAssumption
        <5>4. ResumeKey \in KeySet
          BY <5>1, <5>2, <5>3 DEF KeySet
        <5>5. ResumeKey # None
          BY <5>4, NoneAssumption
        <5> QED BY <1>4, <5>5
      <4> QED BY <4>1, <4>2
    <3>3. calls'[now'].row = IF lastKey' = None THEN 0 ELSE lastKey'.row
      BY <2>4, <2>5 DEF row
    <3>4. lastKey' # None =>
                 /\ lastBuf' # 0 /\ lastKey'.row = RowOf[lastBuf']
                 /\ lastKey'.cell \in {None, lastBuf'}
                 /\ ~lost' => \A c \in due' : c > lastBuf' => After(lastKey', c)
      BY <3>1
    <3> QED BY <3>2, <3>3, <3>4 DEF KeyIsLast, After
  <2>9. Types' => StreamAhead'
    BY <2>2, <2>5, StreamNone
  <2> QED BY <2>1, <2>4, <2>5, <2>6, <2>7, <2>8, <2>9
<1>5. \/ /\ pending' = pending /\ calls' = calls /\ UNCHANGED <<lastKey, lost>>
      \/ /\ CanFetch(eos, pending, e) /\ scannerOpen /\ pending' = TRUE
         /\ calls' = [calls EXCEPT ![now] = Sent("fetch", scanner, 0)]
         /\ UNCHANGED <<lastKey, lost>>
      \/ /\ CanFetch(eos, pending, e) /\ ~scannerOpen /\ pending' = TRUE
         /\ lastKey' = (IF lastKey # None THEN lastKey ELSE ResumeKey)
         /\ calls' = [calls EXCEPT ![now] =
                Sent("scan", None, IF lastKey' = None THEN 0 ELSE lastKey'.row)]
         /\ lost' = (lost \/ Loses(lastKey'))
  BY StartFetch
<1> QED BY <1>1, <1>3, <1>4, <1>5

LEMMA ReleaseBufferKeeps ==
    ASSUME IInv, ReleaseBuffer
    PROVE  IInv'
<1>1. /\ cpc = "release" /\ cpc' = "out" /\ emptyQ' = emptyQ + 1
      /\ MaybeStartFetch(eos, pending, emptyQ + 1, scannerOpen, scanner, calls)
      /\ UNCHANGED <<readyQ, activeBuf, lastBuf, eos, scannerOpen, scanner, error, now,
                     cache, mark, left, due, seen, status>>
  BY DEF ReleaseBuffer, serverVars
<1>2. status = "open" /\ activeBuf = {}
  BY <1>1 DEF IInv, ClientAt, Closing
<1>3. emptyQ \in Nat /\ emptyQ + 1 \in Nat /\ emptyQ + 1 >= emptyQ
  BY DEF IInv, Types
<1>4. /\ CallsMatch' /\ CacheCounts' /\ NothingElse' /\ KeyIsLast'
      /\ calls' \in [Call -> CallSet \cup {None}] /\ pending' \in BOOLEAN
      /\ lastKey' \in KeySet \cup {None} /\ lost' \in BOOLEAN
      /\ lost => lost'
      /\ calls'[now'] # None /\ calls'[now'].op = "fetch" => emptyQ' > 0
      /\ Types' => StreamAhead'
  <2> DEFINE e == emptyQ + 1
  <2>1. e \in Nat /\ e >= emptyQ /\ emptyQ' = e
        /\ MaybeStartFetch(eos, pending, e, scannerOpen, scanner, calls)
    BY <1>1, <1>3
  <2> HIDE DEF e
  <2> QED BY <1>1, <2>1, FetchStarts DEF ServerStill
<1>5. Types'
  BY <1>1, <1>3, <1>4 DEF IInv, Types
<1>6. Got' = Got /\ InOrder'
  BY <1>1, QueuesSame
<1>7. GotAll'
  BY <1>1, <1>4, <1>6 DEF IInv, GotAll, Closing
<1>8. BuffersAccounted'
  <2>1. emptyQ + Len(readyQ) + 1 = NBuffers /\ Len(readyQ) \in Nat
    BY <1>1, GotTyped DEF IInv, BuffersAccounted
  <2>2. emptyQ' + Len(readyQ') + 0 = NBuffers
    BY <1>1, <1>3, <2>1
  <2> QED BY <1>1, <1>2, <1>4, <2>2 DEF BuffersAccounted
<1>9. ClientAt'
  BY <1>1, <1>2 DEF ClientAt, Closing
<1> QED BY <1>4, <1>5, <1>6, <1>7, <1>8, <1>9 DEF IInv

LEMMA NextWaitKeeps ==
    ASSUME IInv, NextWait
    PROVE  IInv'
<1>1. /\ InNextBuffer /\ ~eos
      /\ UNCHANGED <<emptyQ, readyQ, activeBuf, lastBuf, eos, scannerOpen, scanner,
                     error, now, cache, mark, left, due, seen, status>>
  BY DEF NextWait, queueVars, serverVars
<1>2. status = "open" /\ activeBuf = {} /\ cpc \in {"next", "out"}
  BY <1>1 DEF InNextBuffer, IInv, ClientAt, Closing
<1>3. eos' \in BOOLEAN /\ emptyQ \in Nat /\ emptyQ >= emptyQ
  BY <1>1 DEF IInv, Types
<1>4. CASE delayed
  <2>1. cpc' = "timed" /\ UNCHANGED <<pending, lastKey, calls, lost>>
    BY <1>4 DEF NextWait
  <2> QED BY <1>1, <1>2, <1>3, <2>1, PassingKeeps DEF ServerStill, Closing
<1>5. CASE ~delayed
  <2>1. cpc' = "wait"
        /\ MaybeStartFetch(eos, pending, emptyQ, scannerOpen, scanner, calls)
    BY <1>5 DEF NextWait
  <2>2. /\ CallsMatch' /\ CacheCounts' /\ NothingElse' /\ KeyIsLast'
        /\ calls' \in [Call -> CallSet \cup {None}] /\ pending' \in BOOLEAN
        /\ lastKey' \in KeySet \cup {None} /\ lost' \in BOOLEAN
        /\ lost => lost'
        /\ calls'[now'] # None /\ calls'[now'].op = "fetch" => emptyQ' > 0
        /\ Types' => StreamAhead'
    BY <1>1, <1>3, <2>1, FetchStarts DEF ServerStill
  <2>3. Types'
    BY <1>1, <2>1, <2>2 DEF IInv, Types
  <2>4. Got' = Got /\ InOrder'
    BY <1>1, QueuesSame
  <2>5. GotAll'
    BY <1>1, <1>2, <2>1, <2>2, <2>4 DEF IInv, GotAll, Closing
  <2>6. BuffersAccounted'
    BY <1>1, <1>2, <2>1, <2>2 DEF IInv, BuffersAccounted
  <2>7. ClientAt'
    BY <1>1, <1>2, <2>1 DEF ClientAt, Closing
  <2> QED BY <2>2, <2>3, <2>4, <2>5, <2>6, <2>7 DEF IInv
<1> QED BY <1>4, <1>5

LEMMA DestroyWaitKeeps ==
    ASSUME IInv, DestroyWait
    PROVE  IInv'
<1>1. /\ cpc = "close" /\ (pending \/ scannerOpen) /\ cpc' = "closewait"
      /\ MaybeStartClose(pending, scannerOpen, scanner, calls)
      /\ UNCHANGED <<emptyQ, readyQ, activeBuf, lastBuf, lastKey, eos, scannerOpen,
                     scanner, error, now, cache, mark, left, due, seen, status, lost>>
  BY DEF DestroyWait, queueVars, serverVars, historyVars
<1>2. status # "new" /\ eos /\ eos' \in BOOLEAN /\ status' \in {"open", "end", "error"}
  BY <1>1 DEF IInv, ClientAt, Closing, Types
<1>3. CASE ~(scannerOpen /\ ~pending)
  <2>1. pending' = pending /\ calls' = calls
    BY <1>1, <1>3 DEF MaybeStartClose
  <2> QED BY <1>1, <1>2, <2>1, PassingKeeps DEF ServerStill, Closing
<1>4. CASE scannerOpen /\ ~pending
  <2> DEFINE x == Sent("close", scanner, 0)
  <2>1. pending' = TRUE /\ calls' = [calls EXCEPT ![now] = x]
    BY <1>1, <1>4 DEF MaybeStartClose
  <2>2. x.op = "close"
    <3>1. scanner \in Id \cup {None} /\ 0 \in Nat
      BY DEF IInv, Types
    <3> QED BY <3>1, SentFacts
  <2>3. calls[now] = None /\ Current = scanner /\ ~Fetched /\ Block = {}
        /\ scanner # None
    BY <1>4 DEF IInv, CallsMatch, Current, Fetched, Block
  <2>4. Begins(x)
    BY <1>1, <1>2, <1>4, <2>1, <2>3 DEF Begins
  <2> HIDE DEF x
  <2>5. /\ CallsMatch' /\ CacheCounts' /\ calls' \in [Call -> CallSet \cup {None}]
        /\ calls'[now'] = x /\ Current' = scanner' /\ ~Fetched' /\ pending' \in BOOLEAN
    BY <1>1, <2>4, BeginCalls DEF ServerStill
  <2>6. Types'
    BY <1>1, <2>5 DEF IInv, Types, Closing
  <2>7. NothingElse'
    BY <1>1, <2>3, <2>4, <2>5, BeginElse DEF ServerStill
  <2>8. KeyIsLast'
    BY <1>1, <2>2, <2>5 DEF IInv, KeyIsLast, After
  <2>9. StreamAhead'
    <3>1. Block' = Block /\ Current' = Current
      BY <1>1, <2>3, <2>5 DEF Block
    <3> QED BY <1>1, <2>3, <2>5, <3>1, StreamKept DEF IInv
  <2>10. Got' = Got /\ InOrder'
    BY <1>1, QueuesSame
  <2>11. GotAll'
    BY <1>1, <2>10 DEF IInv, GotAll, Closing
  <2>12. BuffersAccounted'
    BY <1>1, <2>2, <2>5 DEF IInv, BuffersAccounted
  <2>13. ClientAt'
    BY <1>1, <1>2 DEF ClientAt, Closing
  <2> QED BY <2>5, <2>6, <2>7, <2>8, <2>9, <2>10, <2>11, <2>12, <2>13 DEF IInv
<1> QED BY <1>3, <1>4

-----------------------------------------------------------------------------
(* The callbacks keep the invariant.                                       *)

\* A notification does not move the client out of what it is in.
Woken ==
    /\ cpc' \in {"out", "release", "next", "wait", "timed"} \cup Closing
    /\ cpc' \in Closing <=> cpc \in Closing
    /\ cpc' = "gone" => cpc = "gone"
    /\ cpc' = "release" <=> cpc = "release"
    /\ cpc' = "out" <=> cpc = "out"

LEMMA NotifyWakes ==
    ASSUME Types, Notify \/ UNCHANGED cpc
    PROVE  Woken
<1>1. cpc \in {"out", "release", "next", "wait", "timed", "close", "closewait", "gone"}
  BY DEF Types, Closing
<1>2. CASE UNCHANGED cpc
  BY <1>1, <1>2 DEF Woken, Closing
<1>3. CASE Notify
  <2>1. CASE cpc \in {"wait", "timed"}
    BY <1>3, <2>1 DEF Notify, Woken, Closing
  <2>2. CASE cpc = "closewait"
    BY <1>3, <2>2 DEF Notify, Woken, Closing
  <2>3. CASE cpc \notin {"wait", "timed", "closewait"}
    <3>1. cpc' = cpc
      BY <1>3, <2>3 DEF Notify
    <3> QED BY <1>1, <3>1 DEF Woken, Closing
  <2> QED BY <2>1, <2>2, <2>3
<1> QED BY <1>2, <1>3

\* What the callback of a call leaves alone.
LEMMA WokenClient ==
    ASSUME IInv, Woken, calls[now] # None, status' = status,
           activeBuf' = activeBuf, eos => eos'
    PROVE  ClientAt' /\ status # "new"
<1>1. status # "new"
  BY DEF IInv, ClientAt, CallsMatch
<1> QED BY <1>1 DEF IInv, ClientAt, Woken

LEMMA HandleScanKeeps ==
    ASSUME IInv, HandleScan
    PROVE  IInv'
<1>1. /\ calls[now] # None /\ calls[now].op = "scan" /\ calls[now].at = "done"
      /\ scanner' = calls[now].reply.id /\ scannerOpen' = TRUE
      /\ MaybeStartFetch(eos, FALSE, emptyQ, TRUE, scanner', Answered)
      /\ Notify \/ UNCHANGED cpc
      /\ UNCHANGED <<emptyQ, readyQ, activeBuf, lastBuf, eos, error, now,
                     cache, mark, left, due, seen, status>>
  BY DEF HandleScan, Reply, Answer, queueVars, serverVars
<1>2. /\ now \in Call /\ Types /\ CallsMatch /\ Woken
      /\ calls \in [Call -> CallSet \cup {None}]
  BY <1>1, NotifyWakes DEF IInv, Types
<1>3. scanner' \in Id /\ scanner' # None
  <2>1. calls[now].reply \in ScanReply
    BY <1>1, <1>2, CallFacts DEF Replies
  <2> QED BY <1>1, <2>1, NoneAssumption DEF ScanReply, Id
<1>4. ~scannerOpen /\ Current = scanner' /\ ~Fetched /\ Block = {}
  BY <1>1 DEF IInv, CallsMatch, Current, Opening, Fetched, Block
<1> DEFINE y == Sent("fetch", scanner', 0)
<1>5. /\ UNCHANGED <<lastKey, lost>>
      /\ \/ pending' = FALSE /\ calls' = [calls EXCEPT ![now] = None]
         \/ /\ pending' = TRUE /\ calls' = [calls EXCEPT ![now] = y]
            /\ CanFetch(eos, FALSE, emptyQ)
  <2>1. [Answered EXCEPT ![now] = y] = [calls EXCEPT ![now] = y]
    BY <1>2 DEF Answered
  <2> HIDE DEF y
  <2>2. \/ /\ pending' = FALSE /\ calls' = Answered /\ UNCHANGED <<lastKey, lost>>
        \/ /\ CanFetch(eos, FALSE, emptyQ) /\ pending' = TRUE
           /\ calls' = [Answered EXCEPT ![now] = y]
           /\ UNCHANGED <<lastKey, lost>>
    BY <1>1 DEF MaybeStartFetch, y
  <2> QED BY <2>1, <2>2 DEF Answered
<1>6. PICK x : /\ Begins(x)
               /\ x = None \/ (x = y /\ emptyQ > 0)
  <2> HIDE DEF y
  <2>1. CASE pending' = FALSE /\ calls' = [calls EXCEPT ![now] = None]
    BY <1>1, <1>3, <1>4, <2>1 DEF Begins
  <2>2. CASE pending' = TRUE /\ calls' = [calls EXCEPT ![now] = y]
             /\ CanFetch(eos, FALSE, emptyQ)
    BY <1>1, <1>3, <1>4, <2>2 DEF Begins, CanFetch, y
  <2> QED BY <1>5, <2>1, <2>2
<1>7. x # None => x.op = "fetch"
  <2>1. scanner' \in Id \cup {None} /\ 0 \in Nat
    BY <1>3
  <2>2. y.op = "fetch"
    BY <2>1, SentFacts
  <2> QED BY <1>6, <2>2
<1> HIDE DEF y
<1>8. /\ CallsMatch' /\ CacheCounts' /\ calls' \in [Call -> CallSet \cup {None}]
      /\ calls'[now'] = x /\ Current' = scanner' /\ ~Fetched' /\ pending' \in BOOLEAN
  BY <1>1, <1>6, BeginCalls DEF ServerStill
<1>9. Types'
  BY <1>1, <1>2, <1>3, <1>5, <1>8 DEF IInv, Types, Woken
<1>10. NothingElse'
  BY <1>1, <1>2, <1>4, <1>6, <1>8, BeginElse DEF ServerStill, Woken
<1>11. KeyIsLast'
  BY <1>1, <1>5, <1>7, <1>8 DEF IInv, KeyIsLast, After
<1>12. StreamAhead'
  <2>1. Block' = Block /\ Current' = Current
    BY <1>4, <1>8 DEF Block
  <2> QED BY <1>1, <1>4, <1>5, <1>8, <2>1, StreamKept DEF IInv
<1>13. Got' = Got /\ InOrder'
  BY <1>1, QueuesSame
<1>14. GotAll'
  BY <1>1, <1>2, <1>5, <1>13 DEF IInv, GotAll, Woken
<1>15. BuffersAccounted'
  BY <1>1, <1>2, <1>6, <1>8 DEF IInv, BuffersAccounted, Woken
<1>16. ClientAt'
  BY <1>1, <1>2, WokenClient
<1> QED BY <1>8, <1>9, <1>10, <1>11, <1>12, <1>13, <1>14, <1>15, <1>16 DEF IInv

\* After a call that ended otherwise the client has no scanner.
LEMMA ClosedKeeps ==
    ASSUME IInv, ServerStill, Woken, calls[now] # None, CallsMatch', CacheCounts',
           calls' \in [Call -> CallSet \cup {None}], now' \in Call,
           calls'[now'] = None, Current' = None, ~Fetched', pending' = FALSE,
           scannerOpen' = FALSE, scanner' = None, NothingElse',
           UNCHANGED <<emptyQ, readyQ, activeBuf, lastBuf, lastKey, due, seen, status,
                       lost>>,
           eos' \in BOOLEAN, error' \in BOOLEAN, eos => eos',
           ~error' => ~error /\ eos' = eos
    PROVE  IInv'
<1>1. Types'
  BY DEF IInv, Types, Woken, ServerStill
<1>2. KeyIsLast'
  BY DEF IInv, KeyIsLast, After
<1>3. StreamAhead'
  BY <1>1, StreamNone
<1>4. Got' = Got /\ InOrder'
  BY QueuesSame
<1>5. GotAll'
  BY <1>4 DEF IInv, GotAll, Woken
<1>6. BuffersAccounted'
  BY DEF IInv, BuffersAccounted, Woken
<1>7. ClientAt'
  BY WokenClient
<1> QED BY <1>1, <1>2, <1>3, <1>4, <1>5, <1>6, <1>7 DEF IInv

LEMMA HandleCloseKeeps ==
    ASSUME IInv, HandleClose
    PROVE  IInv'
<1>1. /\ calls[now] # None /\ calls[now].op = "close" /\ calls[now].at = "done"
      /\ calls[now].reply.kind = "ok"
      /\ pending' = FALSE /\ scannerOpen' = FALSE /\ scanner' = None
      /\ calls' = [calls EXCEPT ![now] = None] /\ Notify
      /\ UNCHANGED <<emptyQ, readyQ, activeBuf, lastBuf, lastKey, eos, error, now,
                     cache, mark, left, due, seen, status, lost>>
  BY DEF HandleClose, Reply, Answered, queueVars, serverVars, historyVars
<1>2. Types /\ Woken /\ now' \in Call /\ eos' \in BOOLEAN /\ error' \in BOOLEAN
  BY <1>1, NotifyWakes DEF IInv, Types
<1>3. Begins(None)
  BY <1>1 DEF Begins
<1>4. /\ CallsMatch' /\ CacheCounts' /\ calls' \in [Call -> CallSet \cup {None}]
      /\ calls'[now'] = None /\ Current' = scanner' /\ ~Fetched'
  BY <1>1, <1>3, BeginCalls DEF ServerStill
<1>5. now = 0 /\ ~error' => Keys(cache) \subseteq {Mark}
  BY <1>1 DEF IInv, NothingElse
<1>6. NothingElse'
  BY <1>1, <1>2, <1>3, <1>5, BeginElse DEF ServerStill, Woken
<1> QED BY <1>1, <1>2, <1>4, <1>6, ClosedKeeps DEF ServerStill

\* What handleError() does.
LEMMA ErrorFacts ==
    ASSUME IInv, NEW kind, HandleError(kind), calls[now] # None
    PROVE  /\ pending' = FALSE /\ scannerOpen' = FALSE /\ scanner' = None
           /\ UNCHANGED <<emptyQ, readyQ, activeBuf, lastBuf, lastKey, due, seen,
                          status, lost>>
           /\ ServerStill /\ Woken
           /\ eos' \in BOOLEAN /\ error' \in BOOLEAN /\ (eos => eos')
           /\ ~error' => ~error /\ eos' = eos
           /\ kind = "raised" /\ calls[now].op # "close" => error'
<1> DEFINE op == calls[now].op
           stop == GiveUp(op, kind, nFailures + 1)
<1>1. /\ pending' = FALSE /\ scannerOpen' = FALSE /\ scanner' = None
      /\ UNCHANGED <<emptyQ, readyQ, activeBuf, lastBuf, lastKey, due, seen,
                     status, lost, cache, mark, left>>
      /\ error' = (error \/ (stop /\ op # "close"))
      /\ eos' = (eos \/ stop) /\ Notify
  BY DEF HandleError, queueVars, serverVars, historyVars
<1>2. Types /\ eos \in BOOLEAN /\ error \in BOOLEAN /\ (op = "close" => eos)
  BY DEF IInv, Types, CallsMatch
<1>3. Woken
  BY <1>1, <1>2, NotifyWakes
<1>4. kind = "raised" => stop
  BY DEF GiveUp
<1> HIDE DEF op, stop
<1>5. eos' \in BOOLEAN /\ error' \in BOOLEAN /\ (eos => eos')
      /\ (~error' => ~error /\ eos' = eos)
  <2>1. eos' \in BOOLEAN
    BY <1>1
  <2>2. error' \in BOOLEAN
    BY <1>1
  <2>3. eos => eos'
    BY <1>1
  <2>4. ~error' => ~error
    BY <1>1
  <2>5. ~error' => ~stop \/ eos
    BY <1>1, <1>2
  <2>6. CASE stop
    BY <1>1, <1>2, <2>1, <2>2, <2>3, <2>4, <2>5, <2>6
  <2>7. CASE ~stop
    <3>1. eos' = eos
      BY <1>1, <1>2, <2>7
    <3> QED BY <2>1, <2>2, <2>3, <2>4, <3>1
  <2> QED BY <2>6, <2>7
<1>6. kind = "raised" /\ op # "close" => error'
  BY <1>1, <1>4
<1> QED BY <1>1, <1>3, <1>5, <1>6 DEF ServerStill, op

LEMMA ErrorReplyKeeps ==
    ASSUME IInv, ErrorReply
    PROVE  IInv'
<1>1. /\ calls[now] # None /\ calls[now].at = "done"
      /\ calls[now].reply.kind \in {"notexist", "raised"}
      /\ HandleError(calls[now].reply.kind)
      /\ calls' = [calls EXCEPT ![now] = None] /\ now' = now
  BY DEF ErrorReply, Answer, Answered
<1>2. /\ pending' = FALSE /\ scannerOpen' = FALSE /\ scanner' = None
      /\ UNCHANGED <<emptyQ, readyQ, activeBuf, lastBuf, lastKey, due, seen,
                     status, lost>>
      /\ ServerStill /\ Woken
      /\ eos' \in BOOLEAN /\ error' \in BOOLEAN /\ (eos => eos')
      /\ ~error' => ~error /\ eos' = eos
      /\ calls[now].reply.kind = "raised" /\ calls[now].op # "close" => error'
  BY <1>1, ErrorFacts
<1>3. now \in Call /\ now' \in Call /\ Types /\ CallsMatch
  BY <1>1 DEF IInv, Types
<1>4. Begins(None)
  BY <1>1, <1>2 DEF Begins
<1>5. /\ CallsMatch' /\ CacheCounts' /\ calls' \in [Call -> CallSet \cup {None}]
      /\ calls'[now'] = None /\ Current' = scanner' /\ ~Fetched'
  BY <1>2, <1>4, BeginCalls
<1>6. now = 0 /\ ~error' => Keys(cache) \subseteq {Mark}
  <2> SUFFICES ASSUME now = 0, ~error' PROVE Keys(cache) \subseteq {Mark}
    OBVIOUS
  <2>1. calls[now].reply \in Replies(calls[now].op)
        /\ calls[now].op \in {"scan", "fetch", "close"}
    BY <1>1, <1>3, CallFacts
  <2>2. calls[now].op # "scan"
    BY <1>1, <2>1 DEF Replies, ScanReply
  <2>3. calls[now].reply.kind = "raised" => calls[now].op # "close"
    BY <2>1 DEF Replies, CloseReply
  <2>4. calls[now].reply.kind = "notexist"
    BY <1>1, <1>2, <2>3
  <2> QED BY <1>1, <1>2, <2>2, <2>4 DEF IInv, NothingElse
<1>7. NothingElse'
  BY <1>1, <1>2, <1>4, <1>6, BeginElse DEF Woken
<1> QED BY <1>1, <1>2, <1>3, <1>5, <1>7, ClosedKeeps

LEMMA CallLostKeeps ==
    ASSUME IInv, CallLost
    PROVE  IInv'
<1>1. /\ now < MaxFaults /\ calls[now] # None /\ HandleError("connection")
      /\ now' = now + 1
      /\ calls' = (IF calls[now].at = "done" THEN [calls EXCEPT ![now] = None]
                   ELSE calls)
  BY DEF CallLost, Answered
<1>2. /\ pending' = FALSE /\ scannerOpen' = FALSE /\ scanner' = None
      /\ UNCHANGED <<emptyQ, readyQ, activeBuf, lastBuf, lastKey, due, seen,
                     status, lost>>
      /\ ServerStill /\ Woken
      /\ eos' \in BOOLEAN /\ error' \in BOOLEAN /\ (eos => eos')
      /\ ~error' => ~error /\ eos' = eos
  BY <1>1, ErrorFacts
<1>3. /\ CallsMatch' /\ CacheCounts' /\ calls' \in [Call -> CallSet \cup {None}]
      /\ calls'[now'] = None /\ Current' = None /\ ~Fetched' /\ now' \in Call
  BY <1>1, <1>2, LostCalls
<1>4. now' # 0
  BY <1>1 DEF IInv, Types, Call
<1>5. NothingElse'
  BY <1>4 DEF NothingElse
<1> QED BY <1>1, <1>2, <1>3, <1>5, ClosedKeeps

\* The cells of a block past lastKey are those past the last cell fetched, and
\* all of these if nothing is lost.
LEMMA FreshFacts ==
    ASSUME IInv, Fetched
    PROVE  LET B == calls[now].reply.block
               F == FreshCells(B)
           IN  /\ Block = B /\ B \subseteq Cell /\ F \subseteq B
               /\ \A c \in F : c > lastBuf
               /\ ~lost => \A c \in due : c \in B /\ c > lastBuf => c \in F
<1> DEFINE B == calls[now].reply.block
           F == FreshCells(B)
<1>0. now \in Call /\ Types /\ CallsMatch
  BY DEF IInv, Types
<1>1. calls[now].reply \in FetchReply
  <2>1. calls[now].reply \in FetchReply \cup ErrorReplies
    BY <1>0, CallFacts DEF Fetched, Replies
  <2> QED BY <2>1 DEF Fetched, ErrorReplies
<1>2. Block = B /\ B \subseteq Cell
  BY <1>1 DEF Block, FetchReply
<1>3. lastKey = None => F = B
  BY DEF FreshCells
<1>4. lastKey # None => F = {c \in B : After(lastKey, c)}
  BY DEF FreshCells
<1> HIDE DEF B, F
<1>5. F \subseteq B
  BY <1>3, <1>4
<1>6. \A c \in F : c > lastBuf
  <2>1. CASE lastKey = None
    BY <1>2, <1>3, <2>1 DEF IInv, StreamAhead
  <2>2. CASE lastKey # None
    <3>1. /\ lastBuf # 0 /\ lastKey.row = RowOf[lastBuf]
          /\ lastKey.cell \in {None, lastBuf}
      BY <2>2 DEF IInv, KeyIsLast
    <3>2. lastBuf \in Cell
      BY <1>0, <3>1 DEF Types
    <3> SUFFICES ASSUME NEW c \in F PROVE c > lastBuf
      OBVIOUS
    <3>3. c \in Cell /\ After(lastKey, c)
      BY <1>2, <1>4, <1>5, <2>2
    <3>4. /\ c \in Nat /\ lastBuf \in Nat /\ RowOf[c] \in Nat /\ RowOf[lastBuf] \in Nat
          /\ c < lastBuf => RowOf[c] <= RowOf[lastBuf]
      BY <3>2, <3>3, NetScanAssumption
    <3>5. CASE lastKey.row < RowOf[c]
      <4>1. RowOf[lastBuf] < RowOf[c]
        BY <3>1, <3>5
      <4>2. c # lastBuf
        BY <3>4, <4>1
      <4> QED BY <3>4, <4>1, <4>2
    <3>6. CASE lastKey.row = RowOf[c] /\ lastKey.cell # None /\ lastKey.cell < c
      BY <3>1, <3>4, <3>6
    <3> QED BY <3>3, <3>5, <3>6 DEF After
  <2> QED BY <2>1, <2>2
<1>7. ~lost => \A c \in due : c \in B /\ c > lastBuf => c \in F
  BY <1>3, <1>4 DEF IInv, KeyIsLast
<1> QED BY <1>2, <1>5, <1>6, <1>7 DEF B, F

\* What handleFetch() does.
LEMMA HandleFetchFacts ==
    ASSUME IInv, HandleFetch
    PROVE  LET F == FreshCells(calls[now].reply.block) IN
           /\ Fetched /\ calls[now].reply.last \in BOOLEAN
           /\ calls[now] # None /\ calls[now].op = "fetch" /\ calls[now].at = "done"
           /\ QueueBlock(F)
           /\ eos' = (calls[now].reply.last \/ eos)
           /\ lastKey' = (IF F = {} THEN lastKey ELSE None)
           /\ ServerStill
           /\ Notify \/ UNCHANGED cpc
           /\ UNCHANGED <<scannerOpen, scanner, error, now, due, seen, status, lost>>
           /\ \/ /\ eos' /\ pending' = TRUE
                 /\ calls' = [calls EXCEPT ![now] = Sent("close", scanner, 0)]
              \/ /\ emptyQ' > 0 /\ pending' = TRUE
                 /\ calls' = [calls EXCEPT ![now] = Sent("fetch", scanner, 0)]
              \/ pending' = FALSE /\ calls' = [calls EXCEPT ![now] = None]
<1> DEFINE F == FreshCells(calls[now].reply.block)
           end == calls[now].reply.last \/ eos
<1>0. now \in Call /\ Types /\ CallsMatch /\ calls \in [Call -> CallSet \cup {None}]
  BY DEF IInv, Types
<1>1. /\ calls[now] # None /\ calls[now].op = "fetch" /\ calls[now].at = "done"
      /\ calls[now].reply.kind = "ok"
  BY DEF HandleFetch, Reply
<1>2. Fetched /\ calls[now].reply.last \in BOOLEAN
  <2>1. calls[now].reply \in FetchReply \cup ErrorReplies
    BY <1>0, <1>1, CallFacts DEF Replies
  <2> QED BY <1>1, <2>1 DEF Fetched, ErrorReplies, FetchReply
<1>3. /\ QueueBlock(F) /\ eos' = end /\ lastKey' = (IF F = {} THEN lastKey ELSE None)
      /\ Notify \/ UNCHANGED cpc
      /\ UNCHANGED <<scannerOpen, scanner, error, now, due, seen, status, lost>>
      /\ ServerStill
  BY DEF HandleFetch, Answer, serverVars, ServerStill
<1>4. IF end
      THEN MaybeStartClose(FALSE, TRUE, scanner, Answered)
      ELSE /\ pending' = CanFetch(FALSE, FALSE, emptyQ')
           /\ calls' = IF pending'
                       THEN [calls EXCEPT ![now] = Sent("fetch", scanner, 0)]
                       ELSE Answered
  BY DEF HandleFetch, Answer
<1> HIDE DEF F, end
<1>5. CASE end
  <2> DEFINE y == Sent("close", scanner, 0)
  <2>1. pending' = TRUE /\ calls' = [Answered EXCEPT ![now] = y]
    BY <1>4, <1>5 DEF MaybeStartClose
  <2> HIDE DEF y
  <2>2. [Answered EXCEPT ![now] = y] = [calls EXCEPT ![now] = y]
    BY <1>0 DEF Answered
  <2> QED BY <1>1, <1>2, <1>3, <1>5, <2>1, <2>2 DEF F, end, y
<1>6. CASE ~end
  <2>1. \/ pending' = TRUE /\ emptyQ' > 0
           /\ calls' = [calls EXCEPT ![now] = Sent("fetch", scanner, 0)]
        \/ pending' = FALSE /\ calls' = Answered
    BY <1>4, <1>6 DEF CanFetch
  <2> QED BY <1>1, <1>2, <1>3, <2>1 DEF F, end, Answered
<1> QED BY <1>5, <1>6

\* A block that is not empty goes to the end of the queue.
LEMMA QueueFacts ==
    ASSUME IInv, NEW F \in SUBSET Cell, F # {}, QueueBlock(F),
           calls[now] # None, calls[now].op = "fetch", seen' = seen,
           \A c \in F : c > lastBuf
    PROVE  /\ emptyQ' = emptyQ - 1 /\ emptyQ' \in Nat /\ activeBuf' = activeBuf
           /\ readyQ' \in Seq((SUBSET Cell) \ {{}}) /\ Len(readyQ') = Len(readyQ) + 1
           /\ lastBuf' \in F /\ (\A c \in F : c <= lastBuf') /\ lastBuf' > lastBuf
           /\ Got' = Got \cup F /\ InOrder'
<1>1. /\ emptyQ' = emptyQ - 1 /\ readyQ' = Append(readyQ, F) /\ lastBuf' = Max(F)
      /\ activeBuf' = activeBuf
  BY DEF QueueBlock
<1>2. lastBuf' \in F /\ (\A c \in F : c <= lastBuf')
  BY <1>1, MaxIsGreatest
<1>3. emptyQ' \in Nat
  BY <1>1 DEF IInv, Types, BuffersAccounted
<1>4. /\ Len(readyQ) \in Nat
      /\ InReady \subseteq Cell /\ Returned \subseteq Cell /\ Got \subseteq Cell
      /\ Cell \subseteq Nat \ {0} /\ lastBuf \in Nat
      /\ activeBuf \subseteq Cell
  BY GotTyped DEF IInv, Types
<1>5. /\ readyQ' \in Seq((SUBSET Cell) \ {{}}) /\ Len(readyQ') = Len(readyQ) + 1
      /\ \A i \in 1..(Len(readyQ) + 1) :
             readyQ'[i] = IF i = Len(readyQ) + 1 THEN F ELSE readyQ[i]
  <2> DEFINE B == (SUBSET Cell) \ {{}}
  <2>1. readyQ \in Seq(B) /\ F \in B
    BY DEF IInv, Types
  <2> HIDE DEF B
  <2>2. /\ readyQ' \in Seq(B) /\ Len(readyQ') = Len(readyQ) + 1
        /\ \A i \in 1..(Len(readyQ) + 1) :
               readyQ'[i] = IF i = Len(readyQ) + 1 THEN F ELSE readyQ[i]
    BY <1>1, <2>1
  <2> QED BY <2>2 DEF B
<1>6. /\ 1..(Len(readyQ) + 1) = (1..Len(readyQ)) \cup {Len(readyQ) + 1}
      /\ \A i \in 1..Len(readyQ) : i # Len(readyQ) + 1
      /\ \A j \in 1..(Len(readyQ) + 1) : ~(Len(readyQ) + 1 < j)
  BY <1>4
<1> DEFINE n == Len(readyQ) + 1
<1> HIDE DEF n
<1>7. InReady' = InReady \cup F
  <2>1. InReady' = UNION {readyQ'[i] : i \in 1..n}
    BY <1>5 DEF InReady, n
  <2>2. /\ \A i \in 1..Len(readyQ) : i \in 1..n /\ readyQ'[i] = readyQ[i]
        /\ n \in 1..n /\ readyQ'[n] = F
        /\ \A i \in 1..n : i = n \/ i \in 1..Len(readyQ)
    BY <1>5, <1>6 DEF n
  <2>3. ASSUME NEW x \in InReady' PROVE x \in InReady \cup F
    <3>1. PICK i \in 1..n : x \in readyQ'[i]
      BY <2>1, <2>3
    <3> QED BY <2>2, <3>1 DEF InReady
  <2>4. ASSUME NEW x \in InReady PROVE x \in InReady'
    <3>1. PICK i \in 1..Len(readyQ) : x \in readyQ[i]
      BY <2>4 DEF InReady
    <3> QED BY <2>1, <2>2, <3>1
  <2>5. F \subseteq InReady'
    BY <2>1, <2>2
  <2> QED BY <2>3, <2>4, <2>5
<1>8. Returned' = Returned
  BY DEF Returned
<1>9. Got' = Got \cup F
  BY <1>1, <1>7, <1>8 DEF Got
<1>10. F \subseteq Nat /\ lastBuf' \in Nat /\ lastBuf' > lastBuf
  BY <1>2, <1>4
<1>11. \A c \in Got : c \in Nat /\ c <= lastBuf /\ \A d \in F : c < d
  <2> SUFFICES ASSUME NEW c \in Got, NEW d \in F
               PROVE  c \in Nat /\ c <= lastBuf /\ c < d
    BY <1>2
  <2>1. c \in Nat /\ c <= lastBuf
    BY <1>4 DEF IInv, InOrder
  <2>2. d \in Nat /\ d > lastBuf
    BY <1>10
  <2> QED BY <1>4, <2>1, <2>2
<1>12. InOrder'
  <2>1. \A c \in Got' : c <= lastBuf'
    <3>1. \A c \in Got : c <= lastBuf'
      BY <1>4, <1>10, <1>11
    <3> QED BY <1>2, <1>9, <3>1
  <2>2. Returned \subseteq Got /\ activeBuf \subseteq Got /\ InReady \subseteq Got
    BY DEF Got
  <2>3. /\ \A c \in Returned' : \A d \in activeBuf' \cup InReady' : c < d
        /\ \A c \in activeBuf' : \A d \in InReady' : c < d
    BY <1>1, <1>7, <1>8, <1>11, <2>2 DEF IInv, InOrder
  <2>4. ASSUME NEW i \in 1..Len(readyQ'), NEW j \in 1..Len(readyQ'), i < j,
               NEW c \in readyQ'[i], NEW d \in readyQ'[j]
        PROVE  c < d
    <3>1. i \in 1..Len(readyQ) /\ c \in readyQ[i]
      BY <1>4, <1>5, <1>6, <2>4
    <3>2. CASE j \in 1..Len(readyQ)
      <4>1. d \in readyQ[j]
        BY <1>5, <1>6, <3>2
      <4> QED BY <2>4, <3>1, <3>2, <4>1 DEF IInv, InOrder
    <3>3. CASE j = Len(readyQ) + 1
      <4>1. d \in F
        BY <1>5, <1>6, <3>3
      <4>2. c \in Got
        BY <3>1 DEF Got, InReady
      <4> QED BY <1>11, <4>1, <4>2
    <3> QED BY <1>5, <1>6, <3>2, <3>3
  <2> QED BY <2>1, <2>3, <2>4 DEF InOrder
<1> QED BY <1>1, <1>2, <1>3, <1>5, <1>9, <1>10, <1>12

LEMMA HandleFetchKeeps ==
    ASSUME IInv, HandleFetch
    PROVE  IInv'
<1> DEFINE B == calls[now].reply.block
           F == FreshCells(B)
           last == calls[now].reply.last
<1>1. /\ Fetched /\ last \in BOOLEAN
      /\ calls[now] # None /\ calls[now].op = "fetch" /\ calls[now].at = "done"
      /\ QueueBlock(F) /\ eos' = (last \/ eos)
      /\ lastKey' = (IF F = {} THEN lastKey ELSE None)
      /\ ServerStill
      /\ Notify \/ UNCHANGED cpc
      /\ UNCHANGED <<scannerOpen, scanner, error, now, due, seen, status, lost>>
  BY HandleFetchFacts
<1>2. \/ /\ eos' /\ pending' = TRUE
         /\ calls' = [calls EXCEPT ![now] = Sent("close", scanner, 0)]
      \/ /\ emptyQ' > 0 /\ pending' = TRUE
         /\ calls' = [calls EXCEPT ![now] = Sent("fetch", scanner, 0)]
      \/ pending' = FALSE /\ calls' = [calls EXCEPT ![now] = None]
  BY HandleFetchFacts
<1>3. /\ Block = B /\ B \subseteq Cell /\ F \subseteq B
      /\ \A c \in F : c > lastBuf
      /\ ~lost => \A c \in due : c \in B /\ c > lastBuf => c \in F
  BY <1>1, FreshFacts
<1> HIDE DEF B, F, last
<1>4. /\ Types /\ Woken /\ scannerOpen /\ scanner # None /\ Current = scanner
      /\ eos \in BOOLEAN /\ scanner \in Id \cup {None}
  BY <1>1, NotifyWakes DEF IInv, Types, CallsMatch, Current
<1>5. eos' \in BOOLEAN /\ (eos => eos')
  BY <1>1
<1>6. PICK x : /\ Begins(x)
               /\ x # None => x.op \in {"fetch", "close"}
               /\ x # None /\ x.op = "fetch" => emptyQ' > 0
  <2>0. 0 \in Nat /\ scanner' = scanner
    BY <1>1
  <2>1. CASE eos' /\ pending' = TRUE
             /\ calls' = [calls EXCEPT ![now] = Sent("close", scanner, 0)]
    <3>1. Sent("close", scanner, 0).op = "close"
      BY <1>4, <2>0, SentFacts
    <3>2. Begins(Sent("close", scanner, 0))
      BY <1>1, <1>4, <2>1 DEF Begins
    <3> QED BY <3>1, <3>2
  <2>2. CASE emptyQ' > 0 /\ pending' = TRUE
             /\ calls' = [calls EXCEPT ![now] = Sent("fetch", scanner, 0)]
    <3>1. Sent("fetch", scanner, 0).op = "fetch"
      BY <1>4, <2>0, SentFacts
    <3>2. Begins(Sent("fetch", scanner, 0))
      BY <1>1, <1>4, <2>2 DEF Begins
    <3> QED BY <2>2, <3>1, <3>2
  <2>3. CASE pending' = FALSE /\ calls' = [calls EXCEPT ![now] = None]
    BY <1>1, <1>4, <2>3 DEF Begins
  <2> QED BY <1>2, <2>1, <2>2, <2>3
<1>7. /\ CallsMatch' /\ CacheCounts' /\ calls' \in [Call -> CallSet \cup {None}]
      /\ calls'[now'] = x /\ Current' = scanner' /\ ~Fetched' /\ pending' \in BOOLEAN
  BY <1>1, <1>6, BeginCalls
<1>8. NothingElse'
  BY <1>1, <1>4, <1>6, <1>7, BeginElse DEF Woken
<1>9. Current' = Current /\ cache' = cache /\ left' = left /\ Block' = {}
  BY <1>1, <1>4, <1>7 DEF ServerStill, Block
<1>10. /\ Cell \subseteq Nat \ {0} /\ lastBuf \in Nat /\ Got \subseteq Cell
       /\ due \subseteq Cell
  BY <1>4, GotTyped DEF Types
<1> DEFINE Lft == left[Current]
<1>11. Current \in Keys(cache) =>
           /\ Lft \subseteq Nat
           /\ lastKey = None => \A c \in Lft : c > lastBuf
           /\ \A b \in B : \A c \in Lft : b < c
           /\ ~lost => \A c \in due : c > lastBuf => c \in B \cup Lft
  <2> SUFFICES ASSUME Current \in Keys(cache)
               PROVE  Lft \subseteq Nat
    BY <1>3 DEF IInv, StreamAhead
  <2>1. Current \in Id
    <3>1. None \notin Keys(cache)
      BY UseFacts, NoneAssumption DEF IInv, CacheKey, Mark, Id
    <3> QED BY <1>4, <3>1
  <2>2. Lft \in SUBSET Cell
    BY <1>4, <2>1 DEF Types
  <2> HIDE DEF Lft
  <2> QED BY <1>10, <2>2
<1>12. ~lost =>
           /\ \A c \in due : \A d \in B : lastBuf < c /\ c <= d => c \in B
           /\ last => \A c \in due : c > lastBuf => c \in B
  BY <1>1, <1>3 DEF IInv, StreamAhead, last
<1>13. ~lost => /\ \A c \in due : c <= lastBuf => c \in Got
                /\ eos /\ ~error /\ cpc \notin Closing => due \subseteq Got
  BY DEF IInv, GotAll
<1>14. ~lost /\ last => \A c \in due : c \in Got \/ c \in F
  <2> SUFFICES ASSUME ~lost, last, NEW c \in due PROVE c \in Got \/ c \in F
    OBVIOUS
  <2>1. c \in Nat
    BY <1>10
  <2>2. CASE c <= lastBuf
    BY <1>13, <2>2
  <2>3. CASE c > lastBuf
    BY <1>3, <1>12, <2>3
  <2> QED BY <1>10, <2>1, <2>2, <2>3
<1> HIDE DEF Lft
<1>15. ClientAt' /\ status # "new"
  <2>1. activeBuf' = activeBuf
    BY <1>1 DEF QueueBlock, queueVars
  <2> QED BY <1>1, <1>4, <1>5, <2>1, WokenClient
<1>16. CASE F = {}
  <2>1. UNCHANGED <<emptyQ, readyQ, activeBuf, lastBuf, lastKey>>
    BY <1>1, <1>16 DEF QueueBlock, queueVars
  <2>2. Types'
    BY <1>1, <1>4, <1>5, <1>7, <2>1 DEF IInv, Types, Woken, ServerStill
  <2>3. Got' = Got /\ InOrder'
    BY <1>1, <2>1, QueuesSame
  <2>4. GotAll'
    <3>1. ~lost /\ eos' /\ ~error /\ cpc' \notin Closing => due \subseteq Got
      BY <1>1, <1>4, <1>13, <1>14, <1>16 DEF Woken
    <3> QED BY <1>1, <1>13, <2>1, <2>3, <3>1 DEF GotAll
  <2>5. KeyIsLast'
    BY <1>1, <1>6, <1>7, <2>1 DEF IInv, KeyIsLast, After
  <2>6. BuffersAccounted'
    BY <1>1, <1>4, <1>6, <1>7, <2>1 DEF IInv, BuffersAccounted, Woken
  <2>7. StreamAhead'
    <3>1. Current \in Keys(cache) =>
           /\ lastKey = None => \A c \in Lft : c > lastBuf
           /\ ~lost => \A c \in due : c > lastBuf => c \in Lft
      BY <1>3, <1>11, <1>16
    <3> QED BY <1>1, <1>7, <1>9, <2>1, <3>1 DEF StreamAhead, Lft
  <2> QED BY <1>7, <1>8, <1>15, <2>2, <2>3, <2>4, <2>5, <2>6, <2>7 DEF IInv
<1>17. CASE F # {}
  <2>1. /\ emptyQ' = emptyQ - 1 /\ emptyQ' \in Nat /\ activeBuf' = activeBuf
        /\ readyQ' \in Seq((SUBSET Cell) \ {{}}) /\ Len(readyQ') = Len(readyQ) + 1
        /\ lastBuf' \in F /\ (\A c \in F : c <= lastBuf') /\ lastBuf' > lastBuf
        /\ Got' = Got \cup F /\ InOrder'
    <3>1. F \in SUBSET Cell
      BY <1>3
    <3> QED BY <1>1, <1>3, <1>17, <3>1, QueueFacts
  <2>2. lastKey' = None /\ lastBuf' \in B /\ lastBuf' \in Cell /\ lastBuf' \in Nat
    BY <1>1, <1>3, <1>10, <1>17, <2>1
  <2>3. Types'
    BY <1>1, <1>4, <1>5, <1>7, <2>1, <2>2 DEF IInv, Types, Woken, ServerStill
  <2>4. GotAll'
    <3>1. ~lost /\ eos' /\ ~error /\ cpc' \notin Closing => due \subseteq Got'
      BY <1>1, <1>4, <1>13, <1>14, <2>1 DEF Woken
    <3>2. ~lost => \A c \in due : c <= lastBuf' => c \in Got'
      <4> SUFFICES ASSUME ~lost, NEW c \in due, c <= lastBuf' PROVE c \in Got'
        OBVIOUS
      <4>1. c \in Nat
        BY <1>10
      <4>2. CASE c <= lastBuf
        BY <1>13, <2>1, <4>2
      <4>3. CASE lastBuf < c
        <5>1. c \in B
          BY <1>12, <2>2, <4>3
        <5> QED BY <1>3, <1>10, <2>1, <4>1, <4>3, <5>1
      <4> QED BY <1>10, <4>1, <4>2, <4>3
    <3> QED BY <1>1, <3>1, <3>2 DEF GotAll
  <2>5. KeyIsLast'
    BY <1>6, <1>7, <2>2 DEF KeyIsLast
  <2>6. BuffersAccounted'
    <3> DEFINE a == IF activeBuf = {} /\ cpc # "release" THEN 0 ELSE 1
    <3>1. emptyQ + Len(readyQ) + a = NBuffers
      BY DEF IInv, BuffersAccounted
    <3>2. emptyQ \in Nat /\ Len(readyQ) \in Nat /\ a \in Nat
      BY <1>4, GotTyped DEF Types
    <3>3. a = IF activeBuf' = {} /\ cpc' # "release" THEN 0 ELSE 1
      BY <1>4, <2>1 DEF Woken
    <3> HIDE DEF a
    <3>4. emptyQ' + Len(readyQ') + a = NBuffers
      BY <2>1, <3>1, <3>2
    <3> QED BY <1>6, <1>7, <3>3, <3>4 DEF BuffersAccounted
  <2>7. StreamAhead'
    <3>1. Current \in Keys(cache) =>
           /\ \A c \in Lft : c > lastBuf'
           /\ ~lost => \A c \in due : c > lastBuf' => c \in Lft
      <4> SUFFICES ASSUME Current \in Keys(cache)
                   PROVE  /\ \A c \in Lft : c > lastBuf'
                          /\ ~lost => \A c \in due : c > lastBuf' => c \in Lft
        OBVIOUS
      <4>1. \A c \in Lft : c > lastBuf'
        BY <1>11, <2>2
      <4>2. ASSUME ~lost, NEW c \in due, c > lastBuf' PROVE c \in Lft
        <5>1. c \in Nat /\ c > lastBuf
          BY <1>10, <2>1, <2>2, <4>2
        <5>2. c \notin F
          BY <2>1, <2>2, <4>2, <5>1
        <5>3. c \notin B
          BY <1>3, <4>2, <5>1, <5>2
        <5> QED BY <1>11, <4>2, <5>1, <5>3
      <4> QED BY <4>1, <4>2
    <3> QED BY <1>1, <1>7, <1>9, <2>2, <3>1 DEF StreamAhead, Lft
  <2> QED BY <1>7, <1>8, <1>15, <2>1, <2>3, <2>4, <2>5, <2>6, <2>7 DEF IInv
<1> QED BY <1>16, <1>17

-----------------------------------------------------------------------------
(* Results.                                                                *)

LEMMA InitHolds ==
    ASSUME Init
    PROVE  IInv
<1>1. /\ cpc = "out" /\ emptyQ = NBuffers /\ readyQ = <<>> /\ activeBuf = {}
      /\ lastBuf = 0 /\ lastKey = None /\ eos = FALSE /\ pending = FALSE
      /\ scannerOpen = FALSE /\ scanner = None /\ error = FALSE
      /\ calls = [n \in Call |-> None] /\ now = 0 /\ cache = <<>> /\ mark = FALSE
      /\ left = [i \in Id |-> {}] /\ due = {} /\ seen = <<>> /\ status = "new"
      /\ lost = FALSE
  BY DEF Init
<1>2. now \in Call /\ NBuffers \in Nat /\ calls[now] = None
      /\ \A n \in Call : calls[n] = None
  BY <1>1, NetScanAssumption DEF Call
<1>3. readyQ \in Seq((SUBSET Cell) \ {{}}) /\ cache \in Seq(Items) /\ seen \in Seq(Cell)
  <2>1. \A S : <<>> \in Seq(S)
    OBVIOUS
  <2> QED BY <1>1, <2>1
<1>4. Types
  BY <1>1, <1>2, <1>3 DEF Types
<1>5. Current = None /\ ~Fetched /\ Block = {} /\ Keys(cache) = {} /\ Len(cache) = 0
      /\ ToSet(cache) = {}
  BY <1>1, <1>2 DEF Current, Opening, Fetched, Block, Keys, ToSet
<1>6. ClientAt
  BY <1>1 DEF ClientAt, Closing
<1>7. CallsMatch
  BY <1>1, <1>2 DEF CallsMatch, CallIsSound, Given
<1>8. CacheCounts
  <2>1. InUse = {}
    BY <1>1, <1>2 DEF InUse, Runs
  <2>2. ~(Len(cache) > CacheMax)
    BY <1>5, NetScanAssumption DEF CacheMax
  <2> QED BY <1>3, <1>5, <2>1, <2>2 DEF CacheCounts, CacheFits
<1>9. NothingElse
  BY <1>1, <1>2, <1>5 DEF NothingElse
<1>10. Got = {} /\ Returned = {} /\ InReady = {}
  BY <1>1 DEF Got, Returned, InReady
<1>11. InOrder /\ GotAll
  <2>1. Len(readyQ) = 0
    BY <1>1
  <2>2. InOrder
    BY <1>1, <1>10, <2>1 DEF InOrder
  <2> QED BY <1>1, <2>2 DEF GotAll
<1>12. BuffersAccounted
  BY <1>1, <1>2 DEF BuffersAccounted
<1>13. KeyIsLast /\ StreamAhead
  BY <1>1, <1>2, <1>5 DEF KeyIsLast, StreamAhead
<1> QED BY <1>4, <1>6, <1>7, <1>8, <1>9, <1>11, <1>12, <1>13 DEF IInv

LEMMA StutterKeeps ==
    ASSUME IInv, UNCHANGED vars
    PROVE  IInv'
<1>1. /\ ServerStill
      /\ UNCHANGED <<hist, cpc, emptyQ, readyQ, activeBuf, lastBuf, lastKey, eos,
                     pending, scannerOpen, scanner, error, calls, now, cache, mark,
                     left, due, seen, status, lost>>
  BY DEF vars, clientVars, queueVars, flagVars, callVars, serverVars, historyVars,
         ServerStill
<1>2. CallsMatch' /\ CacheCounts' /\ NothingElse' /\ KeyIsLast' /\ StreamAhead'
  BY <1>1, IdleKeeps
<1>3. Got' = Got /\ InOrder'
  BY <1>1, QueuesSame
<1>4. Types'
  BY <1>1 DEF IInv, Types
<1>5. GotAll'
  BY <1>1, <1>3 DEF IInv, GotAll
<1>6. BuffersAccounted'
  BY <1>1 DEF IInv, BuffersAccounted
<1>7. ClientAt'
  BY <1>1 DEF IInv, ClientAt
<1> QED BY <1>2, <1>3, <1>4, <1>5, <1>6, <1>7 DEF IInv

LEMMA NextKeeps ==
    ASSUME IInv, [Next]_vars
    PROVE  IInv'
<1>1. CASE \E h \in Histories : Scan(h)
  BY <1>1, ScanKeeps
<1>2. CASE ClientThread
  BY <1>2, GetCellKeeps, ReleaseBufferKeeps, NextWaitKeeps, NextReadyKeeps,
     NextEndKeeps, DestroyWaitKeeps, DestroyedKeeps DEF ClientThread
<1>3. CASE Destroy \/ DelayOver
  BY <1>3, DestroyKeeps, DelayOverKeeps
<1>4. CASE Callback \/ CallLost
  BY <1>4, HandleScanKeeps, HandleFetchKeeps, HandleCloseKeeps, ErrorReplyKeeps,
     CallLostKeeps DEF Callback
<1>5. CASE ServerNext
  BY <1>5, ServerKeeps
<1>6. CASE UNCHANGED vars
  BY <1>6, StutterKeeps
<1> QED BY <1>1, <1>2, <1>3, <1>4, <1>5, <1>6 DEF Next, ServerNext

\* What client and server agree on, through failures, evictions and purges.
THEOREM NetScanInvariant == Spec => []IInv
<1>1. Init => IInv
  BY InitHolds
<1>2. IInv /\ [Next]_vars => IInv'
  BY NextKeeps
<1> QED BY <1>1, <1>2, PTL DEF Spec

\* handleFetch() always finds an empty buffer, and no buffer is lost, however
\* many there are.
THEOREM FetchHasBuffer == Spec => []BufferForFetch
<1>1. IInv => BufferForFetch
  BY DEF IInv, BuffersAccounted, CallsMatch, BufferForFetch
<1> QED BY <1>1, NetScanInvariant, PTL

\* A call runs on a scanner that the cache still has, and only items in use
\* make the cache larger than it should be.
THEOREM RunsStayCached == Spec => []RunsAreCached
<1>1. ASSUME IInv PROVE RunsAreCached
  <2>1. cache \in Seq(Items) /\ CacheFits(cache, InUse)
    BY <1>1, UseFacts DEF IInv
  <2>2. ToSet(cache) = {cache[i] : i \in 1..Len(cache)}
    BY <2>1 DEF ToSet
  <2>3. ASSUME NEW n \in Call, calls[n] # None, calls[n].at = "run"
        PROVE  \E i \in 1..Len(cache) : cache[i].key = calls[n].id /\ cache[i].refs > 0
    <3>1. calls[n].id \in InUse
      BY <2>3 DEF InUse, Runs
    <3>2. PICK x \in ToSet(cache) : x.key = calls[n].id /\ x.refs = 1
      BY <2>1, <3>1 DEF CacheFits
    <3> QED BY <2>2, <3>2
  <2>4. ASSUME Len(cache) > CacheMax, NEW i \in 1..Len(cache)
        PROVE  cache[i].refs > 0
    <3>1. cache[i] \in ToSet(cache)
      BY <2>2
    <3>2. cache[i].refs = 1
      BY <2>1, <2>4, <3>1 DEF CacheFits
    <3> QED BY <3>2
  <2> QED BY <2>3, <2>4 DEF RunsAreCached
<1>2. IInv => RunsAreCached
  BY <1>1
<1> QED BY <1>2, NetScanInvariant, PTL

\* A client that is gone has left no scanner, if no call failed.
THEOREM NoScannerIsLeft == Spec => []NoScannerLeft
<1>1. ASSUME IInv PROVE NoScannerLeft
  <2> SUFFICES ASSUME cpc = "gone", now = 0, ~error
               PROVE  Keys(cache) \subseteq {Mark}
    BY DEF NoScannerLeft
  <2>1. Keys(cache) \subseteq {Mark, Current} /\ ~pending /\ ~scannerOpen
    BY <1>1 DEF IInv, NothingElse
  <2>2. Current = None
    BY <1>1, <2>1 DEF IInv, CallsMatch, Current, Opening
  <2>3. None \notin Keys(cache)
    BY <1>1, UseFacts, NoneAssumption DEF IInv, CacheKey, Mark, Id
  <2> QED BY <2>1, <2>2, <2>3
<1>2. IInv => NoScannerLeft
  BY <1>1
<1> QED BY <1>2, NetScanInvariant, PTL

\* The lost cells, if any, are lost when a scan resumes.
LEMMA LoseOrNot ==
    ASSUME status = "open", UNCHANGED <<due, seen, status>>, lost => lost'
    PROVE  OS!Lose \/ UNCHANGED OS!vars
<1>1. CASE lost \/ ~lost'
  BY <1>1 DEF OS!vars
<1>2. CASE ~lost /\ lost'
  BY <1>2 DEF OS!Lose
<1> QED BY <1>1, <1>2

\* The scan over the network is a scan in order: what the caller gets is
\* sorted and without duplicates, and complete unless older versions of a cell
\* were lost by resuming after it.
THEOREM NetScanIsOrdered == Spec => ImplementsOrderedScan
<1>1. ASSUME Init PROVE OS!Init
  BY <1>1 DEF Init, OS!Init
<1>2. ASSUME IInv, NEW h \in Histories, Scan(h) PROVE OS!Begin
  <2>1. status = "new" /\ ~lost
    BY <1>2 DEF Scan, IInv, ClientAt
  <2>2. due' \in SUBSET Cell
    BY <1>2 DEF Scan
  <2> QED BY <1>2, <2>1, <2>2 DEF Scan, OS!Begin
<1>3. ASSUME IInv, GetCell PROVE \E c \in Cell : OS!Deliver(c)
  <2> DEFINE m == Min(activeBuf)
  <2>1. /\ status = "open" /\ activeBuf # {} /\ seen' = Append(seen, m)
        /\ UNCHANGED <<due, status, lost>>
    BY <1>3 DEF GetCell
  <2>2. Types /\ activeBuf \in SUBSET Cell /\ activeBuf \in SUBSET Nat /\ due \subseteq Nat
    BY <1>3, NetScanAssumption DEF IInv, Types
  <2>3. m \in activeBuf /\ \A c \in activeBuf : m <= c
    BY <2>1, <2>2, MinIsLeast
  <2> HIDE DEF m
  <2>4. /\ m \in Cell /\ m \in Nat /\ m \in Got /\ lastBuf \in Nat /\ Got \subseteq Nat
        /\ activeBuf \subseteq Got /\ InReady \subseteq Got /\ Returned \subseteq Got
    BY <2>2, <2>3, GotTyped DEF Got
  <2>5. /\ \A d \in Returned : d < m
        /\ \A d \in InReady : m < d
        /\ m <= lastBuf
    BY <1>3, <2>3, <2>4 DEF IInv, InOrder
  <2>6. ASSUME ~lost, NEW d \in due, d < m PROVE d \in Returned
    <3>1. d \in Nat /\ d <= lastBuf
      BY <2>2, <2>4, <2>5, <2>6
    <3>2. d \in Got
      BY <1>3, <2>6, <3>1 DEF IInv, GotAll
    <3>3. d \notin activeBuf /\ d \notin InReady
      BY <2>3, <2>4, <2>5, <2>6, <3>1
    <3> QED BY <3>2, <3>3 DEF Got
  <2>7. OS!Returned = Returned
    <3>1. DOMAIN seen = 1..Len(seen)
      BY <2>2 DEF Types
    <3> QED BY <3>1 DEF OS!Returned, Returned
  <2>8. OS!Deliver(m)
    BY <2>1, <2>5, <2>6, <2>7 DEF OS!Deliver, OS!Before
  <2> QED BY <2>4, <2>8
<1>4. ASSUME IInv, NextEnd PROVE OS!End \/ OS!Fail
  <2>1. /\ InNextBuffer /\ readyQ = <<>> /\ eos
        /\ status' = (IF error THEN "error" ELSE "end")
        /\ UNCHANGED <<due, seen, lost>>
    BY <1>4 DEF NextEnd
  <2>2. status = "open" /\ activeBuf = {} /\ cpc \notin Closing
    BY <1>4, <2>1 DEF InNextBuffer, IInv, ClientAt, Closing
  <2>3. CASE error
    BY <2>1, <2>2, <2>3 DEF OS!Fail
  <2>4. CASE ~error
    <3>1. InReady = {} /\ Got = Returned
      BY <2>1, <2>2 DEF InReady, Got
    <3>2. ~lost => due \subseteq Returned
      BY <1>4, <2>1, <2>2, <2>4, <3>1 DEF IInv, GotAll
    <3>3. OS!Returned = Returned
      <4>1. DOMAIN seen = 1..Len(seen)
        BY <1>4 DEF IInv, Types
      <4> QED BY <4>1 DEF OS!Returned, Returned
    <3> QED BY <2>1, <2>2, <2>4, <3>2, <3>3 DEF OS!End
  <2> QED BY <2>3, <2>4
<1>5. ASSUME IInv, ReleaseBuffer \/ NextWait
      PROVE  OS!Lose \/ UNCHANGED OS!vars
  <2>1. status = "open" /\ UNCHANGED <<due, seen, status>>
    BY <1>5 DEF ReleaseBuffer, NextWait, InNextBuffer, IInv, ClientAt, Closing
  <2>2. lost => lost'
    <3>1. CASE UNCHANGED lost
      BY <3>1
    <3>2. CASE \E e : MaybeStartFetch(eos, pending, e, scannerOpen, scanner, calls)
      BY <3>2 DEF MaybeStartFetch
    <3> QED BY <1>5, <3>1, <3>2 DEF ReleaseBuffer, NextWait
  <2> QED BY <2>1, <2>2, LoseOrNot
<1>6. ASSUME IInv, HandleScan PROVE UNCHANGED OS!vars
  <2>1. UNCHANGED <<due, seen, status, lost>>
    BY <1>6 DEF HandleScan, MaybeStartFetch
  <2> QED BY <2>1 DEF OS!vars
<1>7. ASSUME NextReady \/ DestroyWait \/ Destroyed \/ Destroy \/ DelayOver
             \/ HandleFetch \/ HandleClose \/ ErrorReply \/ CallLost \/ UNCHANGED vars
      PROVE  UNCHANGED OS!vars
  <2>1. UNCHANGED <<due, seen, status, lost>>
    BY <1>7 DEF NextReady, DestroyWait, Destroyed, Destroy, DelayOver, HandleFetch,
       HandleClose, ErrorReply, CallLost, HandleError, vars, historyVars
  <2> QED BY <2>1 DEF OS!vars
<1>8. ASSUME IInv, ServerNext PROVE UNCHANGED OS!vars
  <2>1. UNCHANGED <<due, seen, status, lost>>
    BY <1>8, ServerSteps DEF Frame
  <2> QED BY <2>1 DEF OS!vars
<1>9. ASSUME IInv, [Next]_vars PROVE [OS!Next \/ OS!Lose]_OS!vars
  BY <1>2, <1>3, <1>4, <1>5, <1>6, <1>7, <1>8, <1>9
     DEF Next, ClientThread, Callback, ServerNext, OS!Next
<1>10. Init => OS!Init
  BY <1>1
<1>11. IInv /\ [Next]_vars => [OS!Next \/ OS!Lose]_OS!vars
  BY <1>9
<1> QED BY <1>10, <1>11, NetScanInvariant, PTL DEF Spec, ImplementsOrderedScan,
   OS!LossySpec
=============================================================================
