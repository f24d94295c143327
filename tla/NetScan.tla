------------------------------ MODULE NetScan ------------------------------
(***************************************************************************)
(* A scan over the network: the read-ahead scanner of the client           *)
(* (NetTable::Scanner in kdi/net/net_table.cc), the scanner objects of the *)
(* server (ScannerI and TableI::scan() in TableManagerI.cc over            *)
(* kdi/LimitedScanner.h) and the cache that holds them (ScannerLocator.cc  *)
(* over warp/lru_cache.h).                                                 *)
(*                                                                         *)
(* Threads: the client's, in get() and the destructor; Ice's, which runs a *)
(* callback for the one call that is pending; the server's, one per call;  *)
(* the server's maintenance thread.  A call may fail before the server     *)
(* sees it, or after the server has done its work: the client then goes    *)
(* on while the server still runs the old call.  Calls are numbered by the *)
(* failures before them, so that each number has at most one.              *)
(*                                                                         *)
(* The table does not change (TableScan is about that).  Cells are numbers *)
(* in scan order, 0 stands for none; every row is one column, with several *)
(* versions of its value.  A block is the set of its cells: the server     *)
(* writes them, and the client reads them, in scan order.                  *)
(***************************************************************************)
EXTENDS Integers, FiniteSetsExt, Sequences, Selection

CONSTANTS
    Cell,           \* the cells of the table
    RowOf,          \* the row, and column, of each cell
    Matching,       \* the cells that pass the column and time predicates
    Histories,      \* the history predicates to try; 0 is none
    NBuffers,       \* N_SCAN_BUFFERS
    MaxFailures,    \* MAX_SCAN_FAILURES
    NObjects,       \* ScannerLocator: scanners kept
    MaxScanners,    \* scanners there can be at a time, used or not
    MaxOthers,      \* bound on scanners opened by other clients
    MaxFaults,      \* bound on failed calls
    MaxPurges,      \* bound on runs of purgeAndMark()
    None

Id == 1..MaxScanners
Mark == 0           \* the key size_t(-1) in the cache
Call == 0..MaxFaults

ASSUME NetScanAssumption ==
    /\ Cell \subseteq Nat \ {0} /\ IsFiniteSet(Cell)
    /\ RowOf \in [Cell -> Nat \ {0}]
    /\ \A c, d \in Cell : c < d => RowOf[c] <= RowOf[d]
    /\ Matching \subseteq Cell
    /\ Histories \subseteq Nat
    /\ {NBuffers, MaxFailures, NObjects, MaxScanners}
            \subseteq Nat \ {0}
    /\ {MaxOthers, MaxFaults, MaxPurges} \subseteq Nat

\* What a scan resumes after, calls and their replies, items of the cache.
KeySet == [row : Nat, cell : Cell \cup {None}]
ScanReply == [kind : {"ok"}, id : Id]
FetchReply == [kind : {"ok"}, last : BOOLEAN, block : SUBSET Cell]
CloseReply == [kind : {"ok"}]
ErrorReplies == [kind : {"notexist", "raised"}]
CallSet == [op : {"scan", "fetch", "close"}, id : Id \cup {None}, row : Nat,
            at : {"sent", "run", "done"},
            reply : ScanReply \cup FetchReply \cup CloseReply \cup ErrorReplies
                    \cup {None}]
Items == [key : Id \cup {Mark}, refs : Nat, removed : BOOLEAN]

ASSUME NoneAssumption == None \notin KeySet \cup CallSet \cup Nat

VARIABLES
    hist,           \* pred.getMaxHistory()
    cpc,            \* where the client's thread is
    emptyQ,         \* number of empty buffers
    readyQ,         \* filled buffers, each the cells left in it
    activeBuf,      \* cells left in the active buffer; {} is null
    lastBuf,        \* last cell of the last buffer fetched
    lastKey,        \* NetTable::Scanner::lastKey
    nFailures, delayed, eos, pending, scannerOpen, scanner, error,
    calls,          \* calls on their way, by number
    now,            \* the number of the client's next call
    cache,          \* ScannerLocator::cache: items, least recently used first
    mark,           \* ScannerLocator::mark is set
    left,           \* each ScannerI: the cells its stream has not read
    opened, purges, \* scanners opened by others, purges: for the bounds
    due, seen, status, lost     \* history: see OrderedScan

queueVars == <<emptyQ, readyQ, activeBuf, lastBuf>>
flagVars == <<nFailures, delayed, eos, pending, scannerOpen, scanner, error>>
clientVars == <<hist, cpc, queueVars, lastKey, flagVars>>
callVars == <<calls, now>>
serverVars == <<cache, mark, left, opened, purges>>
historyVars == <<due, seen, status, lost>>
vars == <<clientVars, callVars, serverVars, historyVars>>

\* The cells of the scan: HistoryFilter keeps the newest hist of a column.
Passes(c, h) ==
    /\ c \in Matching
    /\ h = 0 \/ Cardinality({d \in Matching : RowOf[d] = RowOf[c] /\ d <= c}) <= h

Init ==
    /\ hist = 0
    /\ cpc = "out"
    /\ emptyQ = NBuffers /\ readyQ = <<>> /\ activeBuf = {} /\ lastBuf = 0
    /\ lastKey = None
    /\ nFailures = 0 /\ delayed = FALSE /\ eos = FALSE
    /\ pending = FALSE /\ scannerOpen = FALSE /\ scanner = None
    /\ error = FALSE
    /\ calls = [n \in Call |-> None] /\ now = 0
    /\ cache = <<>>
    /\ mark = FALSE
    /\ left = [i \in Id |-> {}]
    /\ opened = 0 /\ purges = 0
    /\ due = {} /\ seen = <<>> /\ status = "new" /\ lost = FALSE

-----------------------------------------------------------------------------
(* The client under NetTable::Scanner::mutex.                              *)

\* The key a scan resumes after: the last cell fetched or, with a history
\* predicate, the last version its column could have.
ResumeKey ==
    IF lastBuf = 0 THEN None
    ELSE [row |-> RowOf[lastBuf], cell |-> IF hist > 0 THEN None ELSE lastBuf]

\* *lastKey < next->key
After(key, c) ==
    \/ key.row < RowOf[c]
    \/ key.row = RowOf[c] /\ key.cell # None /\ key.cell < c

\* Passing over the rest of a column loses versions that were asked for.
Loses(key) ==
    key # None /\ \E c \in due : c > lastBuf /\ ~After(key, c)

Sent(op, id, row) == [op |-> op, id |-> id, row |-> row, at |-> "sent",
                      reply |-> None]

\* Mutant: a fetch is started without a buffer for it.
CanFetchAnyway(end, busy, empty) == ~end /\ ~busy

\* Not at the end, no call pending, and a buffer to fetch into.
CanFetch(end, busy, empty) == ~end /\ ~busy /\ empty > 0

\* maybeStartFetch_locked(), with the values the caller has just given to the
\* flags, the number of empty buffers and the calls: a scanner is opened if
\* there is none.  It sets pending, lastKey, calls and lost.
MaybeStartFetch(end, busy, empty, isOpen, id, cs) ==
    LET key == IF lastKey # None THEN lastKey ELSE ResumeKey
        row == IF key = None THEN 0 ELSE key.row
    IN
    IF ~CanFetch(end, busy, empty)
    THEN pending' = busy /\ calls' = cs /\ UNCHANGED <<lastKey, lost>>
    ELSE /\ pending' = TRUE
         /\ IF isOpen
            THEN /\ calls' = [cs EXCEPT ![now] = Sent("fetch", id, 0)]
                 /\ UNCHANGED <<lastKey, lost>>
            ELSE /\ calls' = [cs EXCEPT ![now] = Sent("scan", None, row)]
                 /\ lastKey' = key
                 /\ lost' = (lost \/ Loses(key))

\* maybeStartClose_locked(), likewise; it sets pending and calls.
MaybeStartClose(busy, isOpen, id, cs) ==
    IF isOpen /\ ~busy
    THEN pending' = TRUE
         /\ calls' = [cs EXCEPT ![now] = Sent("close", id, 0)]
    ELSE pending' = busy /\ calls' = cs

\* Mutant: the notification is forgotten.
NotifyForgotten == UNCHANGED cpc

\* cond.notify_one(): the client's thread is the only one that waits.
Notify ==
    cpc' = CASE cpc \in {"wait", "timed"} -> "next"
             [] cpc = "closewait" -> "close"
             [] OTHER -> cpc

\* NetTable::scan() with a history predicate.
Scan(h) ==
    /\ status = "new"
    /\ hist' = h
    /\ due' = {c \in Cell : Passes(c, h)}
    /\ status' = "open"
    /\ UNCHANGED <<cpc, queueVars, lastKey, flagVars, callVars, serverVars,
                   seen, lost>>

\* get() takes a cell from the active buffer.
GetCell ==
    /\ cpc = "out" /\ activeBuf # {} /\ status = "open"
    /\ seen' = Append(seen, Min(activeBuf))
    /\ activeBuf' = activeBuf \ {Min(activeBuf)}
    /\ cpc' = IF activeBuf' = {} THEN "release" ELSE "out"
    /\ UNCHANGED <<hist, emptyQ, readyQ, lastBuf, lastKey, flagVars, callVars,
                   serverVars, due, status, lost>>

\* releaseBuffer(), when that was the last one; it does not ask for a delay.
ReleaseBuffer ==
    /\ cpc = "release"
    /\ cpc' = "out"
    /\ emptyQ' = emptyQ + 1
    /\ MaybeStartFetch(eos, pending, emptyQ + 1, scannerOpen, scanner, calls)
    /\ UNCHANGED <<hist, readyQ, activeBuf, lastBuf, nFailures, delayed, eos,
                   scannerOpen, scanner, error, now, serverVars, due, seen,
                   status>>

\* get() with no active buffer enters nextBuffer(), or is woken in it.
InNextBuffer ==
    cpc = "next" \/ (cpc = "out" /\ activeBuf = {} /\ status = "open")

\* The loop of nextBuffer(): wait for a buffer or the end.
NextWait ==
    /\ InNextBuffer /\ readyQ = <<>> /\ ~eos
    /\ IF delayed
       THEN cpc' = "timed" /\ UNCHANGED <<pending, lastKey, calls, lost>>
       ELSE /\ cpc' = "wait"
            /\ MaybeStartFetch(eos, pending, emptyQ, scannerOpen, scanner,
                               calls)
    /\ UNCHANGED <<hist, queueVars, nFailures, delayed, eos, scannerOpen,
                   scanner, error, now, serverVars, due, seen, status>>

\* nextBuffer() has a buffer.
NextReady ==
    /\ InNextBuffer /\ readyQ # <<>>
    /\ activeBuf' = Head(readyQ) /\ readyQ' = Tail(readyQ)
    /\ cpc' = "out"
    /\ UNCHANGED <<hist, emptyQ, lastBuf, lastKey, flagVars, callVars,
                   serverVars, historyVars>>

\* nextBuffer() has come to the end: the stored error is thrown, if any.
NextEnd ==
    /\ InNextBuffer /\ readyQ = <<>> /\ eos
    /\ cpc' = "out"
    /\ status' = IF error THEN "error" ELSE "end"
    /\ UNCHANGED <<hist, queueVars, lastKey, flagVars, callVars, serverVars,
                   due, seen, lost>>

\* The clock reaches delayUntil; a timed wait ends.
DelayOver ==
    /\ delayed
    /\ delayed' = FALSE
    /\ cpc' = IF cpc = "timed" THEN "next" ELSE cpc
    /\ UNCHANGED <<hist, queueVars, lastKey, nFailures, eos, pending,
                   scannerOpen, scanner, error, callVars, serverVars,
                   historyVars>>

\* ~Scanner(), once the caller is done with the stream or gives it up.
Destroy ==
    /\ cpc = "out" /\ status # "new"
    /\ cpc' = "close" /\ eos' = TRUE
    /\ UNCHANGED <<hist, queueVars, lastKey, nFailures, delayed, pending,
                   scannerOpen, scanner, error, callVars, serverVars,
                   historyVars>>

\* The loop of ~Scanner().
DestroyWait ==
    /\ cpc = "close" /\ (pending \/ scannerOpen)
    /\ cpc' = "closewait"
    /\ MaybeStartClose(pending, scannerOpen, scanner, calls)
    /\ UNCHANGED <<hist, queueVars, lastKey, nFailures, delayed, eos,
                   scannerOpen, scanner, error, now, serverVars, historyVars>>

Destroyed ==
    /\ cpc = "close" /\ ~pending /\ ~scannerOpen
    /\ cpc' = "gone"
    /\ UNCHANGED <<hist, queueVars, lastKey, flagVars, callVars, serverVars,
                   historyVars>>

-----------------------------------------------------------------------------
(* Ice's threads on the client: the callback of the pending call.          *)

\* The call has a reply of this kind, and the reply is used up.
Reply(op, kind) ==
    /\ calls[now] # None /\ calls[now].op = op /\ calls[now].at = "done"
    /\ calls[now].reply.kind = kind
Answer == calls[now].reply
Answered == [calls EXCEPT ![now] = None]

HandleScan ==
    /\ Reply("scan", "ok")
    /\ nFailures' = 0
    /\ scanner' = Answer.id /\ scannerOpen' = TRUE
    /\ MaybeStartFetch(eos, FALSE, emptyQ, TRUE, Answer.id, Answered)
    /\ IF pending' THEN UNCHANGED cpc ELSE Notify
    /\ UNCHANGED <<hist, queueVars, delayed, eos, error, now, serverVars, due,
                   seen, status>>

\* Mutant: the whole block is queued.
FreshCellsAll(block) == block

\* The cells of a block past lastKey.
FreshCells(block) ==
    IF lastKey = None THEN block ELSE {c \in block : After(lastKey, c)}

\* A block with cells goes to the ready queue.
QueueBlock(block) ==
    IF block = {} THEN UNCHANGED queueVars
    ELSE /\ emptyQ' = emptyQ - 1
         /\ readyQ' = Append(readyQ, block)
         /\ lastBuf' = Max(block)
         /\ UNCHANGED activeBuf

HandleFetch ==
    /\ Reply("fetch", "ok")
    /\ LET block == FreshCells(Answer.block)
           end == Answer.last \/ eos
           key == IF block = {} THEN lastKey ELSE None
       IN
       /\ nFailures' = 0
       /\ QueueBlock(block)
       /\ eos' = end
       /\ lastKey' = key
       /\ IF end
          THEN MaybeStartClose(FALSE, TRUE, scanner, Answered)
          ELSE /\ pending' = CanFetch(FALSE, FALSE, emptyQ')
               /\ calls' = IF pending'
                           THEN [calls EXCEPT ![now] = Sent("fetch", scanner, 0)]
                           ELSE Answered
       /\ IF end \/ block # {} THEN Notify ELSE UNCHANGED cpc
    /\ UNCHANGED <<hist, delayed, scannerOpen, scanner, error, now,
                   serverVars, due, seen, status, lost>>

HandleClose ==
    /\ Reply("close", "ok")
    /\ pending' = FALSE /\ nFailures' = 0
    /\ scannerOpen' = FALSE /\ scanner' = None
    /\ calls' = Answered
    /\ Notify
    /\ UNCHANGED <<hist, queueVars, lastKey, delayed, eos, error, now,
                   serverVars, historyVars>>

\* handleError() gives up: no close is retried, nor a scan of a missing
\* table, nor an error of an unknown kind.
GiveUp(op, kind, n) ==
    n >= MaxFailures \/ op = "close" \/ kind = "raised"

\* handleError(): the scanner counts as closed.  A fetch from a scanner that
\* is gone is tried again at once, what else is tried again is delayed.
HandleError(kind) ==
    LET op == calls[now].op
        stop == GiveUp(op, kind, nFailures + 1)
    IN
    /\ pending' = FALSE /\ scannerOpen' = FALSE /\ scanner' = None
    /\ nFailures' = IF stop THEN MaxFailures ELSE nFailures + 1
    /\ error' = (error \/ (stop /\ op # "close"))
    /\ eos' = (eos \/ stop)
    /\ delayed' = (delayed \/ (~stop /\ kind # "notexist"))
    /\ Notify
    /\ UNCHANGED <<hist, queueVars, lastKey, serverVars, historyVars>>

\* The server answered with an error.
ErrorReply ==
    /\ calls[now] # None /\ calls[now].at = "done"
    /\ calls[now].reply.kind \in {"notexist", "raised"}
    /\ HandleError(Answer.kind)
    /\ calls' = Answered
    /\ UNCHANGED now

\* The connection breaks or the call times out.  The server may have run it,
\* be running it, or see it later.
CallLost ==
    /\ now < MaxFaults
    /\ calls[now] # None
    /\ HandleError("connection")
    /\ now' = now + 1
    /\ calls' = IF calls[now].at = "done" THEN Answered ELSE calls

-----------------------------------------------------------------------------
(* The cache of scanners: LruCache over ScannerLocator's keys.             *)

CacheMax == NObjects + 1
Keys(c) == {c[i].key : i \in 1..Len(c)}
ItemOf(c, k) == c[CHOOSE i \in 1..Len(c) : c[i].key = k]
ItemsWhere(c, Test(_)) == {c[i] : i \in {j \in 1..Len(c) : Test(c[j])}}
Without(c, K) == Selected(c, ItemsWhere(c, LAMBDA x : x.key \notin K))

\* flushToSize() for a cache of size n: from the front on, items that nobody
\* holds go until the rest fits.
Held(c) == Selected(c, ItemsWhere(c, LAMBDA x : x.refs > 0))
Flushed(c, n) ==
    LET Front(i) == Held(SubSeq(c, 1, i))
        Far(i) == i = Len(c) \/ n - (i - Len(Front(i))) <= CacheMax
        at == CHOOSE i \in 0..Len(c) : Far(i) /\ \A j \in 0..(i - 1) : ~Far(j)
    IN  Front(at) \o SubSeq(c, at + 1, Len(c))

\* LruCache::get(): the item is made if it is not there, pinned, and moved to
\* the back.
CacheGet(c, k) ==
    IF k \in Keys(c)
    THEN Append(Without(c, {k}), [key |-> k, refs |-> ItemOf(c, k).refs + 1,
                                  removed |-> FALSE])
    ELSE Append(Flushed(c, Len(c) + 1), [key |-> k, refs |-> 1,
                                         removed |-> FALSE])

\* Mutant: an item that was removed while it was held stays.
CacheReleaseKept(c, k) ==
    [i \in 1..Len(c) |-> IF c[i].key = k THEN [c[i] EXCEPT !.refs = @ - 1]
                         ELSE c[i]]

\* LruCache::release(): an item that was removed meanwhile, or for which there
\* is no room, goes with its last holder.
CacheRelease(c, k) ==
    IF /\ ItemOf(c, k).refs = 1
       /\ ItemOf(c, k).removed \/ Len(c) > CacheMax
    THEN Without(c, {k})
    ELSE [i \in 1..Len(c) |-> IF c[i].key = k THEN [c[i] EXCEPT !.refs = @ - 1]
                              ELSE c[i]]

\* The items with keys K, dropped or, while they are held, marked as removed.
DropOrMark(c, K) ==
    LET rest == Selected(c, ItemsWhere(c, LAMBDA x : x.key \notin K \/ x.refs > 0)) IN
    [i \in 1..Len(rest) |-> [rest[i] EXCEPT !.removed = @ \/ rest[i].key \in K]]

\* LruCache::remove().
CacheRemove(c, k) == DropOrMark(c, {k})

\* The keys used less recently than k.
Older(c, k) == {c[i].key : i \in {j \in 1..Len(c) : \A h \in 1..j : c[h].key # k}}

\* Mutant: items that are held are dropped, too.
RemoveUntilAll(c, k) == Without(c, Older(c, k))

\* LruCache::removeUntil(): items used less recently than k.
RemoveUntil(c, k) == DropOrMark(c, Older(c, k))

\* The cache is now `new', and what the scanners have not read is `unread': a
\* scanner that is no longer in the cache is destroyed.
SetCache(new, unread) ==
    \E c \in {new} :
        /\ cache' = c
        /\ left' = [i \in Id |-> IF i \in Keys(c) THEN unread[i] ELSE {}]

\* purgeAndMark(), by the maintenance thread: scanners not used since the
\* last time go.
PurgeAndMark ==
    /\ purges < MaxPurges
    /\ purges' = purges + 1
    /\ LET rest == IF mark THEN CacheRelease(RemoveUntil(cache, Mark), Mark)
                   ELSE cache
       IN SetCache(CacheGet(rest, Mark), left)
    /\ mark' = TRUE
    /\ UNCHANGED <<clientVars, callVars, opened, historyVars>>

-----------------------------------------------------------------------------
(* The server's threads.                                                   *)

Running(n, op, at) ==
    calls[n] # None /\ calls[n].op = op /\ calls[n].at = at

\* The reply to a call that the client has given up on goes nowhere.
Replied(n, reply) ==
    [calls EXCEPT ![n] = IF n < now THEN None
                         ELSE [@ EXCEPT !.at = "done", !.reply = reply]]
Error(kind) == [kind |-> kind]

\* IDs that nobody has or will ask for.
FreeIds ==
    {i \in Id : /\ i \notin Keys(cache) /\ i # scanner
                /\ \A n \in Call : calls[n] # None =>
                       /\ calls[n].id # i
                       /\ calls[n].op = "scan" /\ calls[n].at = "done" =>
                              calls[n].reply.id # i}

\* TableI::scan() on the rows from the given one on: a new ScannerI is put in
\* the cache under a new ID, of which there are MaxScanners.
ServeScan(n) ==
    /\ Running(n, "scan", "sent") /\ FreeIds # {}
    /\ LET id == Min(FreeIds) IN
       /\ calls' = Replied(n, [kind |-> "ok", id |-> id])
       /\ \E c \in {CacheGet(cache, id)} :
              SetCache(CacheRelease(c, id),
                       [left EXCEPT ![id] = {d \in Cell : calls[n].row <= RowOf[d]}])
    /\ UNCHANGED <<clientVars, now, mark, purges, opened, historyVars>>

\* Another client opens a scanner, reads it to the end and closes it: it has
\* taken the place of the scanner least recently used.
OtherScan ==
    /\ opened < MaxOthers
    /\ opened' = opened + 1
    /\ SetCache(Flushed(cache, Len(cache) + 1), left)
    /\ UNCHANGED <<clientVars, callVars, mark, purges, historyVars>>

\* ScannerLocator::locate() for a call on a scanner: it is pinned, or gone.
Locate(n, op) ==
    /\ Running(n, op, "sent")
    /\ IF calls[n].id \in Keys(cache)
       THEN /\ SetCache(CacheGet(cache, calls[n].id), left)
            /\ calls' = [calls EXCEPT ![n].at = "run"]
       ELSE /\ calls' = Replied(n, Error("notexist"))
            /\ UNCHANGED <<cache, left>>
    /\ UNCHANGED <<clientVars, now, mark, purges, opened, historyVars>>

\* ScannerI::getBulk() reads up to a cell (the block is full, or LimitedScanner
\* has read enough: a matter of bytes) or to the end of the stream, which it
\* only sees by reading past it, and returns what passes the filter;
\* ScannerLocator::finished() follows.
GetBulk(n, upto, last) ==
    LET id == calls[n].id
        read == IF last THEN left[id] ELSE {c \in left[id] : c <= upto}
    IN
    /\ Running(n, "fetch", "run")
    /\ last \/ read # {}
    /\ calls' = Replied(n, [kind |-> "ok", last |-> last, block |-> read \cap due])
    /\ SetCache(CacheRelease(cache, id), [left EXCEPT ![id] = @ \ read])
    /\ UNCHANGED <<clientVars, now, mark, purges, opened, historyVars>>

\* getBulk() raises an error: the scan of the table failed.
GetBulkRaises(n) ==
    /\ Running(n, "fetch", "run")
    /\ calls' = Replied(n, Error("raised"))
    /\ SetCache(CacheRelease(cache, calls[n].id), left)
    /\ UNCHANGED <<clientVars, now, mark, purges, opened, historyVars>>

\* ScannerI::close(), and finished().
Close(n) ==
    /\ Running(n, "close", "run")
    /\ SetCache(CacheRelease(CacheRemove(cache, calls[n].id), calls[n].id),
                left)
    /\ calls' = Replied(n, [kind |-> "ok"])
    /\ UNCHANGED <<clientVars, now, mark, purges, opened, historyVars>>

ClientThread ==
    GetCell \/ ReleaseBuffer \/ NextWait \/ NextReady \/ NextEnd \/ DestroyWait
    \/ Destroyed
Callback == HandleScan \/ HandleFetch \/ HandleClose \/ ErrorReply
Serve(n) ==
    \/ ServeScan(n) \/ Locate(n, "fetch") \/ Locate(n, "close")
    \/ \E upto \in Cell \cup {0}, last \in BOOLEAN : GetBulk(n, upto, last)
    \/ Close(n)

Next ==
    \/ \E h \in Histories : Scan(h)
    \/ ClientThread \/ Destroy \/ DelayOver
    \/ Callback \/ CallLost
    \/ \E n \in Call : Serve(n) \/ GetBulkRaises(n)
    \/ OtherScan \/ PurgeAndMark

Spec == Init /\ [][Next]_vars

\* The caller goes on reading until the end, the callbacks and the server's
\* threads are scheduled, and time passes: none of the client's scan stands
\* still, and no call that the client gave up on does either.
Fairness ==
    /\ WF_vars(ClientThread \/ DelayOver \/ Callback \/ Serve(now))
    /\ \A n \in Call : WF_vars(n < now /\ Serve(n))
FairSpec == Spec /\ Fairness

-----------------------------------------------------------------------------
(* Properties.                                                             *)

\* A fetch that is on its way has an empty buffer to go to, whatever order
\* buffers are filled and released in: handleFetch() takes emptyQ.front()
\* without looking, and no buffer is lost.
BufferForFetch ==
    /\ pending /\ calls[now].op = "fetch" => emptyQ > 0
    /\ LET active == IF activeBuf = {} /\ cpc # "release" THEN 0 ELSE 1
       IN emptyQ + Len(readyQ) + active = NBuffers

\* A call runs on a scanner that the cache still has, and the cache outgrows
\* its size only by items in use.
RunsAreCached ==
    /\ \A n \in Call : calls[n] # None /\ calls[n].at = "run" =>
           \E i \in 1..Len(cache) : /\ cache[i].key = calls[n].id
                                     /\ cache[i].refs > 0
    /\ Len(cache) > CacheMax => \A i \in 1..Len(cache) : cache[i].refs > 0

\* If no call failed, a client that is gone has left no scanner on the server.
NoScannerLeft ==
    cpc = "gone" /\ now = 0 /\ ~error
        => Keys(cache) \subseteq {Mark}

\* However calls fail, scanners are evicted and blocks end, the cells arrive
\* as OrderedScan says: read-ahead, retries and resumption repeat nothing and
\* pass over nothing, except older versions of a cell if more than one version
\* was asked for.
OS == INSTANCE OrderedScan WITH
          status <- IF lost /\ status = "open" THEN "lost" ELSE status
ImplementsOrderedScan == OS!LossySpec

\* A scan comes to its end or an error, and the destructor returns: no wakeup
\* is lost between the client's thread and the callbacks, and no retry goes on
\* for ever once calls stop failing.
ScanFinishes ==
    status = "open" \/ cpc = "close" ~>
        cpc = "gone" \/ (cpc = "out" /\ status # "open")
=============================================================================
