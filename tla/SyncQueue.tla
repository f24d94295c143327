----------------------------- MODULE SyncQueue -----------------------------
(***************************************************************************)
(* warp::SyncQueue, the blocking queue between the threads of the server   *)
(* (warp/syncqueue.h): commitQueue, serializeQueue and WorkQueue::jobs.    *)
(*                                                                         *)
(* A call runs under qMutex from its start, or from the moment a wait      *)
(* returns, until it returns or waits: that is one action.  A thread in a  *)
(* wait is in `asleep'; a notified thread has left it and will run when it *)
(* gets the mutex.  notify_one() wakes any one thread, a thread may wake   *)
(* for no reason, and a timed wait may end at any time.                    *)
(***************************************************************************)
EXTENDS Integers, Sequences, FiniteSets

CONSTANTS
    Thread, Item, None,
    QMax            \* SyncQueue::qMax

WaitingOp == {"push", "pop", "empty", "completion", "cancel"}
How == {"nowait", "wait", "timed"}

\* Calls that may wait: push(x, wait) and push(x, timeout), pop() likewise,
\* waitForEmpty(), waitForCompletion() and cancelWaits(wait).
Call == [op : {"push"}, how : How, x : Item]
        \cup [op : {"pop"}, how : How, x : {None}]
        \cup [op : {"empty", "completion"}, how : {"wait"}, x : {None}]
        \cup [op : {"cancel"}, how : {"nowait", "wait"}, x : {None}]

ASSUME SyncQueueAssumption ==
    /\ IsFiniteSet(Thread)
    /\ QMax \in Nat \ {0}
    /\ None \notin Item /\ None \notin Call

VARIABLES q, nWaiting, nTasksPending, cancel,
          call,         \* the operation each thread is in a wait of, or None
          asleep,       \* the threads that wait and were not notified
          hand          \* the item each thread has popped and not yet acked
vars == <<q, nWaiting, nTasksPending, cancel, call, asleep, hand>>

\* The condition an operation waits on.
Cond(op) ==
    CASE op = "pop" -> "itemPushed"
      [] op \in {"push", "empty"} -> "itemPopped"
      [] op = "completion" -> "allTasksCompleted"
      [] OTHER -> "zeroWaiting"

Init ==
    /\ q = <<>> /\ nWaiting = 0 /\ nTasksPending = 0 /\ cancel = FALSE
    /\ call = [t \in Thread |-> None]
    /\ asleep = {}
    /\ hand = [t \in Thread |-> None]

-----------------------------------------------------------------------------
(* Conditions: what is left of the sleepers A after a notification.        *)

Sleepers(A, c) == {t \in A : Cond(call[t].op) = c}
NotifyOne(A, c) == IF Sleepers(A, c) = {} THEN {A}
                   ELSE {A \ {t} : t \in Sleepers(A, c)}
NotifyAll(A, C) == {t \in A : Cond(call[t].op) \notin C}

\* Mutant: the last waiter to leave tells nobody.
LeaveQuietly(n) == asleep

\* The end of waitHelper(): n threads are still waiting.
Leave(n) == IF n = 0 THEN NotifyAll(asleep, {"zeroWaiting"}) ELSE asleep

-----------------------------------------------------------------------------
(* One pass through the loop of an operation, with n threads counted as    *)
(* waiting and the threads of A asleep: it returns or waits.               *)

Return(t, n) ==
    /\ call' = [call EXCEPT ![t] = None]
    /\ nWaiting' = n

\* The call waits: it is counted by waitHelper(), unless it is cancelWaits(),
\* which waits on zeroWaiting itself.
Wait(t, c, n, A) ==
    /\ call' = [call EXCEPT ![t] = c]
    /\ nWaiting' = IF c.op = "cancel" THEN n ELSE n + 1
    /\ asleep' = A \cup {t}

HasRoom == Len(q) < QMax

\* Mutant: a push wakes a popper only if the queue was empty.
PushSignalIfEmpty(A) == IF q = <<>> THEN NotifyOne(A, "itemPushed") ELSE {A}

PushSignal(A) == NotifyOne(A, "itemPushed")

\* push(), both versions; "nowait" is push(x, false).
PushPass(t, c, n, A) ==
    /\ IF HasRoom
       THEN /\ nTasksPending' = nTasksPending + 1
            /\ q' = Append(q, c.x)
            /\ asleep' \in PushSignal(A)
            /\ Return(t, n)
       ELSE /\ IF c.how = "nowait" \/ cancel
               THEN Return(t, n) /\ asleep' = A
               ELSE Wait(t, c, n, A)
            /\ UNCHANGED <<q, nTasksPending>>
    /\ UNCHANGED <<cancel, hand>>

\* Mutant: the front item is copied and the back item is removed.
AfterPopBack == SubSeq(q, 1, Len(q) - 1)

AfterPop == Tail(q)

\* pop(), both versions.
PopPass(t, c, n, A) ==
    /\ IF q # <<>>
       THEN /\ hand' = [hand EXCEPT ![t] = Head(q)]
            /\ q' = AfterPop
            /\ asleep' \in NotifyOne(A, "itemPopped")
            /\ Return(t, n)
       ELSE /\ IF c.how = "nowait" \/ cancel
               THEN Return(t, n) /\ asleep' = A
               ELSE Wait(t, c, n, A)
            /\ UNCHANGED <<q, hand>>
    /\ UNCHANGED <<cancel, nTasksPending>>

EmptyPass(t, c, n, A) ==
    /\ IF q = <<>> \/ cancel
       THEN Return(t, n) /\ asleep' = A
       ELSE Wait(t, c, n, A)
    /\ UNCHANGED <<q, cancel, nTasksPending, hand>>

\* Mutant: waitForCompletion() waits for the queue to be empty.
CompletionPassEmpty(t, c, n, A) ==
    /\ IF q = <<>> \/ cancel
       THEN Return(t, n) /\ asleep' = A
       ELSE Wait(t, c, n, A)
    /\ UNCHANGED <<q, cancel, nTasksPending, hand>>

CompletionPass(t, c, n, A) ==
    /\ IF nTasksPending = 0 \/ cancel
       THEN Return(t, n) /\ asleep' = A
       ELSE Wait(t, c, n, A)
    /\ UNCHANGED <<q, cancel, nTasksPending, hand>>

\* Mutant: cancelWaits() does not wake waitForCompletion().
WokenByCancelSome == {"itemPushed", "itemPopped"}

WokenByCancel == {"itemPushed", "itemPopped", "allTasksCompleted"}

CancelPass(t, c, n, A) ==
    LET B == NotifyAll(A, WokenByCancel) IN
    /\ cancel' = TRUE
    /\ IF c.how = "nowait" \/ n = 0
       THEN Return(t, n) /\ asleep' = B
       ELSE Wait(t, c, n, B)
    /\ UNCHANGED <<q, nTasksPending, hand>>

Pass(t, c, n, A) ==
    \/ c.op = "push" /\ PushPass(t, c, n, A)
    \/ c.op = "pop" /\ PopPass(t, c, n, A)
    \/ c.op = "empty" /\ EmptyPass(t, c, n, A)
    \/ c.op = "completion" /\ CompletionPass(t, c, n, A)
    \/ c.op = "cancel" /\ CancelPass(t, c, n, A)

-----------------------------------------------------------------------------
\* An idle thread calls an operation that may wait.  A thread acknowledges
\* an item before it pops another.
Start(t, c) ==
    /\ call[t] = None
    /\ c.op = "pop" => hand[t] = None
    /\ Pass(t, c, nWaiting, asleep)

\* Mutant: waitForEmpty() keeps the notification it got.
ResumeKeepsBaton(t) ==
    LET c == call[t] IN
    /\ c # None /\ t \notin asleep
    /\ \/ c.op = "cancel" /\ Pass(t, c, nWaiting, asleep)
       \/ c.op # "cancel" /\ Pass(t, c, nWaiting - 1, Leave(nWaiting - 1))

\* A notified thread has the mutex again.  waitForEmpty() passes the
\* notification on: there still is room for a push.
Resume(t) ==
    LET c == call[t] IN
    /\ c # None /\ t \notin asleep
    /\ \/ /\ c.op = "cancel"
          /\ Pass(t, c, nWaiting, asleep)
       \/ /\ c.op = "empty"
          /\ \E A \in NotifyOne(Leave(nWaiting - 1), "itemPopped") :
                Pass(t, c, nWaiting - 1, A)
       \/ /\ c.op \notin {"cancel", "empty"}
          /\ Pass(t, c, nWaiting - 1, Leave(nWaiting - 1))

\* Mutant: a wait that times out is still counted.
TimeOutCounted(t) ==
    /\ t \in asleep /\ call[t].how = "timed"
    /\ asleep' = asleep \ {t}
    /\ Return(t, nWaiting)
    /\ UNCHANGED <<q, nTasksPending, cancel, hand>>

\* A timed wait ends without a notification: the call fails.
TimeOut(t) ==
    /\ t \in asleep /\ call[t].how = "timed"
    /\ asleep' = Leave(nWaiting - 1) \ {t}
    /\ Return(t, nWaiting - 1)
    /\ UNCHANGED <<q, nTasksPending, cancel, hand>>

\* A wait ends for no reason.
WakeUp(t) ==
    /\ t \in asleep
    /\ asleep' = asleep \ {t}
    /\ UNCHANGED <<q, nWaiting, nTasksPending, cancel, call, hand>>

\* taskComplete()
TaskComplete(t) ==
    /\ call[t] = None /\ hand[t] # None
    /\ hand' = [hand EXCEPT ![t] = None]
    /\ nTasksPending' = nTasksPending - 1
    /\ asleep' = IF nTasksPending = 1
                 THEN NotifyAll(asleep, {"allTasksCompleted"}) ELSE asleep
    /\ UNCHANGED <<q, nWaiting, cancel, call>>

\* enableWaits()
EnableWaits(t) ==
    /\ call[t] = None
    /\ cancel' = FALSE
    /\ UNCHANGED <<q, nWaiting, nTasksPending, call, asleep, hand>>

Next == \E t \in Thread :
    \/ \E c \in Call : Start(t, c)
    \/ Resume(t) \/ TimeOut(t) \/ WakeUp(t)
    \/ TaskComplete(t) \/ EnableWaits(t)

Spec == Init /\ [][Next]_vars

\* A notified thread gets the mutex in the end; nobody has to call anything.
FairSpec == Spec /\ \A t \in Thread : WF_vars(Resume(t))

-----------------------------------------------------------------------------
(* Properties.                                                             *)

Waiters == {t \in Thread : call[t] # None /\ call[t].op # "cancel"}
Awake(c) == {t \in Thread : /\ call[t] # None /\ t \notin asleep
                             /\ Cond(call[t].op) = c}
AsleepIn(op) == {t \in asleep : call[t].op = op}
Busy == {t \in Thread : hand[t] # None}

\* The variables have their types, the queue keeps to its limit, only threads
\* in a call sleep, and a pop waits with empty hands.
TypeOK ==
    /\ q \in Seq(Item) /\ Len(q) <= QMax
    /\ nWaiting \in Nat /\ nTasksPending \in Nat /\ cancel \in BOOLEAN
    /\ call \in [Thread -> Call \cup {None}]
    /\ asleep \subseteq Thread
    /\ \A t \in asleep : call[t] # None
    /\ hand \in [Thread -> Item \cup {None}]
    /\ \A t \in Thread :
          call[t] # None /\ call[t].op = "pop" => hand[t] = None

\* nWaiting and nTasksPending count what their names say, through waits that
\* time out, are cancelled or are resumed in any order.
CountersAgree ==
    /\ nWaiting = Cardinality(Waiters)
    /\ nTasksPending = Len(q) + Cardinality(Busy)

\* No item waits for a popper that sleeps: notify_one() in push() wakes one
\* thread per item, also if others take the items first.
NoLostItem == AsleepIn("pop") # {} => Len(q) <= Cardinality(Awake("itemPushed"))

\* No room waits for a pusher that sleeps, although waitForEmpty() waits on
\* the same condition: it hands on each notification it takes.
NoLostRoom ==
    AsleepIn("push") # {} => QMax - Len(q) <= Cardinality(Awake("itemPopped"))

\* waitForEmpty() and waitForCompletion() do not sleep through what they wait
\* for, nor cancelWaits(true) when the last waiter has left.
NoMissedEnd ==
    /\ AsleepIn("empty") # {} /\ q = <<>> => Awake("itemPopped") # {}
    /\ nTasksPending = 0 => AsleepIn("completion") = {}
    /\ nWaiting = 0 => AsleepIn("cancel") = {}

\* Once waits are cancelled no push, pop or wait sleeps.
CancelWakesAll == cancel => \A t \in asleep : call[t].op = "cancel"

\* waitForCompletion() that was not cancelled returns only when no item is
\* queued and none is being worked on.
CompletionStep ==
    \A t \in Thread :
        call[t] # None /\ call'[t] = None /\ ~cancel /\ call[t].op = "completion"
            => q = <<>> /\ Busy = {}
CompletionIsQuiescent == [][CompletionStep]_vars

\* The queue delivers each item once and in order, and keeps to its limit.
Abstract == INSTANCE BoundedQueue
Delivery == Abstract!Spec

\* cancelWaits(true) returns, because every thread that waits leaves its wait,
\* unless somebody allows waits again with enableWaits().
CancelReturns ==
    \A t \in Thread :
        call[t] # None /\ call[t].op = "cancel" ~> call[t] = None \/ ~cancel
=============================================================================
