-------------------------- MODULE SyncQueueProofs --------------------------
(***************************************************************************)
(* Proofs about SyncQueue, for any number of threads and any limit.        *)
(*                                                                         *)
(* The invariants of SyncQueue are inductive together.  A step of thread t *)
(* is seen in two halves: first t leaves its wait (Resume) or enters with  *)
(* nothing to leave (Start), which reaches a state described by Entered;   *)
(* then it passes once through the loop of its operation (Pass).           *)
(***************************************************************************)
EXTENDS SyncQueue, FiniteSetTheorems, TLAPS

IInv == TypeOK /\ CountersAgree /\ NoLostItem /\ NoLostRoom /\ NoMissedEnd
        /\ CancelWakesAll

\* Threads other than t that are awake in a wait on cond, if A sleep.
Rest(t, A, cond) == {u \in Thread : /\ u # t /\ call[u] # None /\ u \notin A
                                    /\ Cond(call[u].op) = cond}

SleepIn(A, op) == {u \in A : call[u].op = op}

\* Thread t is about to pass through the loop of call c: n other threads are
\* counted as waiting and the threads of A sleep.  The item, or the room, that
\* t itself was woken for is not yet taken.
Entered(t, c, n, A) ==
    /\ t \in Thread /\ c \in Call
    /\ A \subseteq Thread /\ t \notin A /\ \A u \in A : call[u] # None
    /\ c.op = "push" => c.x \in Item
    /\ c.op = "pop" => hand[t] = None
    /\ n = Cardinality(Waiters \ {t})
    /\ SleepIn(A, "pop") # {} =>
           Len(q) <= Cardinality(Rest(t, A, "itemPushed"))
                     + (IF c.op = "pop" THEN 1 ELSE 0)
    /\ SleepIn(A, "push") # {} =>
           QMax - Len(q) <= Cardinality(Rest(t, A, "itemPopped"))
                            + (IF c.op = "push" THEN 1 ELSE 0)
    /\ SleepIn(A, "empty") # {} /\ q = <<>> =>
           c.op = "push" \/ Rest(t, A, "itemPopped") # {}
    /\ nTasksPending = 0 => SleepIn(A, "completion") = {}
    /\ n = 0 => SleepIn(A, "cancel") = {}
    /\ cancel => \A u \in A : call[u].op = "cancel"

-----------------------------------------------------------------------------
(* Counting.                                                               *)

\* Sets of threads are finite, and grow by one with a new element.
LEMMA Counting ==
    ASSUME NEW S, S \subseteq Thread
    PROVE  /\ IsFiniteSet(S) /\ Cardinality(S) \in Nat
           /\ Cardinality(S) = 0 <=> S = {}
           /\ \A T \in SUBSET S : Cardinality(T) <= Cardinality(S)
           /\ \A x \in Thread \ S : Cardinality(S \cup {x}) = Cardinality(S) + 1
           /\ \A x \in S : Cardinality(S \ {x}) = Cardinality(S) - 1
<1>1. IsFiniteSet(S)
  BY SyncQueueAssumption, FS_Subset
<1>2. Cardinality(S) \in Nat
  BY <1>1, FS_CardinalityType
<1>3. Cardinality(S) = 0 <=> S = {}
  BY <1>1, FS_EmptySet
<1>4. \A T \in SUBSET S : Cardinality(T) <= Cardinality(S)
  BY <1>1, FS_Subset
<1>5. \A x \in Thread \ S : Cardinality(S \cup {x}) = Cardinality(S) + 1
  BY <1>1, FS_AddElement
<1>6. \A x \in S : Cardinality(S \ {x}) = Cardinality(S) - 1
  BY <1>1, FS_RemoveElement
<1> QED
  BY <1>1, <1>2, <1>3, <1>4, <1>5, <1>6

\* If fewer threads sleep, more are awake.
LEMMA RestGrows ==
    ASSUME NEW t, NEW A, NEW B \in SUBSET A, NEW cond
    PROVE  /\ Cardinality(Rest(t, A, cond)) \in Nat
           /\ Cardinality(Rest(t, B, cond)) \in Nat
           /\ Cardinality(Rest(t, A, cond)) <= Cardinality(Rest(t, B, cond))
<1>1. Rest(t, A, cond) \subseteq Rest(t, B, cond) /\ Rest(t, B, cond) \subseteq Thread
  BY DEF Rest
<1> QED
  BY <1>1, Counting

\* A thread that is notified is one more that is awake.
LEMMA RestNotified ==
    ASSUME NEW t, NEW A \in SUBSET Thread, NEW v \in A, v # t, call[v] # None,
           NEW c, Cond(call[v].op) = c
    PROVE  /\ v \in Rest(t, A \ {v}, c)
           /\ Cardinality(Rest(t, A \ {v}, c)) = Cardinality(Rest(t, A, c)) + 1
<1>1. Rest(t, A \ {v}, c) = Rest(t, A, c) \cup {v}
  BY DEF Rest
<1>2. Rest(t, A, c) \subseteq Thread /\ v \in Thread \ Rest(t, A, c)
  BY DEF Rest
<1>3. Cardinality(Rest(t, A, c) \cup {v}) = Cardinality(Rest(t, A, c)) + 1
  BY <1>2, Counting
<1> QED
  BY <1>1, <1>3

-----------------------------------------------------------------------------
(* The two ways a pass ends.                                               *)

\* When a call of t returns, t neither waits nor sleeps; nobody else's call
\* changes.
LEMMA ReturnFacts ==
    ASSUME TypeOK, NEW t \in Thread, NEW n, NEW B \in SUBSET Thread, t \notin B,
           Return(t, n), asleep' = B, \A u \in B : call[u] # None
    PROVE  /\ call' \in [Thread -> Call \cup {None}]
           /\ Waiters' = Waiters \ {t}
           /\ \A cond : Awake(cond)' = Rest(t, B, cond)
           /\ \A op : AsleepIn(op)' = SleepIn(B, op)
           /\ \A u \in asleep' : call'[u] = call[u]
<1>1. /\ call'[t] = None
      /\ \A u \in Thread : u # t => call'[u] = call[u]
      /\ call' \in [Thread -> Call \cup {None}]
  BY DEF Return, TypeOK
<1>2. Waiters' = Waiters \ {t}
  BY <1>1 DEF Waiters
<1>3. \A cond : Awake(cond)' = Rest(t, B, cond)
  BY <1>1 DEF Awake, Rest
<1>4. \A op : AsleepIn(op)' = SleepIn(B, op)
  BY <1>1 DEF AsleepIn, SleepIn
<1> QED
  BY <1>1, <1>2, <1>3, <1>4

\* When a call of t waits, t sleeps on the condition of its operation; nobody
\* else's call changes.
LEMMA WaitFacts ==
    ASSUME TypeOK, NEW t \in Thread, NEW c \in Call, NEW n,
           NEW A \in SUBSET Thread, t \notin A,
           Wait(t, c, n, A), \A u \in A : call[u] # None
    PROVE  /\ call' \in [Thread -> Call \cup {None}]
           /\ call'[t] = c /\ c # None
           /\ Waiters' = IF c.op = "cancel" THEN Waiters \ {t}
                         ELSE (Waiters \ {t}) \cup {t}
           /\ \A cond : Awake(cond)' = Rest(t, A, cond)
           /\ \A op : op # c.op => AsleepIn(op)' = SleepIn(A, op)
           /\ \A u \in A : call'[u] = call[u]
<1>1. /\ call'[t] = c /\ c # None
      /\ \A u \in Thread : u # t => call'[u] = call[u]
      /\ call' \in [Thread -> Call \cup {None}]
      /\ asleep' = A \cup {t}
  BY SyncQueueAssumption DEF Wait, TypeOK
<1>2. Waiters' = IF c.op = "cancel" THEN Waiters \ {t}
                 ELSE (Waiters \ {t}) \cup {t}
  BY <1>1 DEF Waiters
<1>3. \A cond : Awake(cond)' = Rest(t, A, cond)
  BY <1>1 DEF Awake, Rest
<1>4. \A op : op # c.op => AsleepIn(op)' = SleepIn(A, op)
  BY <1>1 DEF AsleepIn, SleepIn
<1> QED
  BY <1>1, <1>2, <1>3, <1>4

\* The call returns and moves no item: what t was woken for was not there.
LEMMA ReturnKeepsInv ==
    ASSUME IInv, NEW t, NEW c, NEW n, NEW A, Entered(t, c, n, A),
           Return(t, n), asleep' = A,
           UNCHANGED <<q, nTasksPending, hand>>,
           cancel' => \A u \in A : call[u].op = "cancel",
           cancel' \in BOOLEAN,
           c.op = "push" => Len(q) = QMax,
           c.op = "pop" => q = <<>>
    PROVE  IInv'
<1> USE DEF Entered
<1>1. /\ call' \in [Thread -> Call \cup {None}]
      /\ Waiters' = Waiters \ {t}
      /\ \A cond : Awake(cond)' = Rest(t, A, cond)
      /\ \A op : AsleepIn(op)' = SleepIn(A, op)
      /\ \A u \in asleep' : call'[u] = call[u]
  BY ReturnFacts DEF IInv
<1>2. /\ Cardinality(Waiters \ {t}) \in Nat
      /\ \A cond : Cardinality(Rest(t, A, cond)) \in Nat
  BY Counting, RestGrows DEF Waiters
<1>3. TypeOK'
  <2>1. \A u \in Thread : u # t => call'[u] = call[u]
    BY DEF IInv, TypeOK, Return
  <2>2. call'[t] = None
    BY DEF IInv, TypeOK, Return
  <2> QED
    BY <1>1, <1>2, <2>1, <2>2 DEF IInv, TypeOK, Return
<1>4. CountersAgree'
  BY <1>1 DEF IInv, CountersAgree, Return, Busy
<1>5. NoLostItem'
  BY <1>1, <1>2, SyncQueueAssumption DEF IInv, TypeOK, NoLostItem
<1>6. NoLostRoom'
  BY <1>1, <1>2, SyncQueueAssumption DEF IInv, TypeOK, NoLostRoom
<1>7. NoMissedEnd'
  BY <1>1, SyncQueueAssumption DEF IInv, TypeOK, NoMissedEnd, Return
<1>8. CancelWakesAll'
  BY <1>1 DEF CancelWakesAll
<1> QED
  BY <1>3, <1>4, <1>5, <1>6, <1>7, <1>8 DEF IInv

\* The call waits: what it waits for has not happened.
LEMMA WaitKeepsInv ==
    ASSUME IInv, NEW t, NEW c, NEW n, NEW A, Entered(t, c, n, A),
           Wait(t, c, n, A),
           UNCHANGED <<q, nTasksPending, hand>>,
           cancel' \in BOOLEAN,
           cancel' => c.op = "cancel" /\ \A u \in A : call[u].op = "cancel",
           c.op = "push" => Len(q) = QMax,
           c.op = "pop" => q = <<>>,
           c.op = "empty" => q # <<>>,
           c.op = "completion" => nTasksPending # 0,
           c.op = "cancel" => n # 0
    PROVE  IInv'
<1> USE DEF Entered
<1>1. /\ call' \in [Thread -> Call \cup {None}]
      /\ call'[t] = c /\ c # None
      /\ Waiters' = IF c.op = "cancel" THEN Waiters \ {t}
                    ELSE (Waiters \ {t}) \cup {t}
      /\ \A cond : Awake(cond)' = Rest(t, A, cond)
      /\ \A op : op # c.op => AsleepIn(op)' = SleepIn(A, op)
      /\ \A u \in A : call'[u] = call[u]
  BY WaitFacts DEF IInv
<1>2. /\ Cardinality(Waiters \ {t}) \in Nat
      /\ Cardinality((Waiters \ {t}) \cup {t}) = Cardinality(Waiters \ {t}) + 1
      /\ \A cond : Cardinality(Rest(t, A, cond)) \in Nat
  BY Counting, RestGrows DEF Waiters
<1>3. asleep' = A \cup {t}
  BY DEF Wait
<1>4. nWaiting' = Cardinality(Waiters') /\ nWaiting' \in Nat
  BY <1>1, <1>2 DEF Wait
<1>5. TypeOK'
  <2>1. \A u \in Thread : u # t => call'[u] = call[u]
    BY DEF IInv, TypeOK, Wait
  <2> QED
    BY <1>1, <1>3, <1>4, <2>1 DEF IInv, TypeOK
<1>6. CountersAgree'
  BY <1>4 DEF IInv, CountersAgree, Busy
<1>7. NoLostItem'
  <2>1. CASE c.op = "pop"
    BY <2>1, <1>1, <1>2 DEF NoLostItem
  <2>2. CASE c.op # "pop"
    BY <2>2, <1>1, <1>2 DEF IInv, TypeOK, NoLostItem
  <2> QED
    BY <2>1, <2>2
<1>8. NoLostRoom'
  <2>1. CASE c.op = "push"
    BY <2>1, <1>1, <1>2, SyncQueueAssumption DEF NoLostRoom
  <2>2. CASE c.op # "push"
    BY <2>2, <1>1, <1>2, SyncQueueAssumption DEF IInv, TypeOK, NoLostRoom
  <2> QED
    BY <2>1, <2>2
<1>9. NoMissedEnd'
  <2>1. AsleepIn("empty")' # {} /\ q' = <<>> => Awake("itemPopped")' # {}
    BY <1>1, SyncQueueAssumption DEF IInv, TypeOK
  <2>2. nTasksPending' = 0 => AsleepIn("completion")' = {}
    BY <1>1
  <2>3. nWaiting' = 0 => AsleepIn("cancel")' = {}
    BY <1>1, <1>2, <1>4
  <2> QED
    BY <2>1, <2>2, <2>3 DEF NoMissedEnd
<1>10. CancelWakesAll'
  BY <1>1, <1>3 DEF CancelWakesAll
<1> QED
  BY <1>5, <1>6, <1>7, <1>8, <1>9, <1>10 DEF IInv

-----------------------------------------------------------------------------
(* The passes.                                                             *)

\* notify_one() wakes a sleeper of the condition if there is one.
LEMMA NotifyFacts ==
    ASSUME NEW t, NEW A \in SUBSET Thread, t \notin A,
           \A u \in A : call[u] # None,
           NEW cond, NEW B \in NotifyOne(A, cond)
    PROVE  /\ B \in SUBSET A
           /\ Sleepers(A, cond) # {} =>
                 /\ Rest(t, B, cond) # {}
                 /\ Cardinality(Rest(t, B, cond))
                    = Cardinality(Rest(t, A, cond)) + 1
<1>1. B \in SUBSET A
  BY DEF NotifyOne, Sleepers
<1>2. ASSUME Sleepers(A, cond) # {}
      PROVE  /\ Rest(t, B, cond) # {}
             /\ Cardinality(Rest(t, B, cond)) = Cardinality(Rest(t, A, cond)) + 1
  <2>1. PICK v \in Sleepers(A, cond) : B = A \ {v}
    BY <1>2 DEF NotifyOne
  <2>2. v \in A /\ v # t /\ call[v] # None /\ Cond(call[v].op) = cond
    BY <2>1 DEF Sleepers
  <2> QED
    BY <2>1, <2>2, RestNotified
<1> QED
  BY <1>1, <1>2

\* The push succeeds: either nobody waits for an item or one more is awake.
LEMMA PushKeepsInv ==
    ASSUME IInv, NEW t, NEW c, NEW n, NEW A, Entered(t, c, n, A),
           c.op = "push", PushPass(t, c, n, A)
    PROVE  IInv'
<1> USE DEF Entered
<1>1. CASE Len(q) >= QMax
  <2>1. Len(q) = QMax
    BY <1>1, SyncQueueAssumption DEF IInv, TypeOK
  <2>2. CASE c.how = "nowait" \/ cancel
    BY <2>1, <2>2, <1>1, ReturnKeepsInv, SyncQueueAssumption
       DEF PushPass, HasRoom, PushSignal, IInv, TypeOK
  <2>3. CASE ~(c.how = "nowait" \/ cancel)
    BY <2>1, <2>3, <1>1, WaitKeepsInv, SyncQueueAssumption
       DEF PushPass, HasRoom, PushSignal, IInv, TypeOK
  <2> QED
    BY <2>2, <2>3
<1>2. CASE Len(q) < QMax
  <2>1. /\ nTasksPending' = nTasksPending + 1
        /\ q' = Append(q, c.x)
        /\ asleep' \in NotifyOne(A, "itemPushed")
        /\ Return(t, n)
        /\ UNCHANGED <<cancel, hand>>
    BY <1>2 DEF PushPass, HasRoom, PushSignal
  <2>2. asleep' \in SUBSET A
    BY <2>1 DEF NotifyOne, Sleepers
  <2>3. /\ call' \in [Thread -> Call \cup {None}]
        /\ Waiters' = Waiters \ {t}
        /\ \A cond : Awake(cond)' = Rest(t, asleep', cond)
        /\ \A op : AsleepIn(op)' = SleepIn(asleep', op)
        /\ \A u \in asleep' : call'[u] = call[u]
    BY <2>1, <2>2, ReturnFacts DEF IInv
  <2>4. /\ Cardinality(Waiters \ {t}) \in Nat
        /\ \A cond : /\ Cardinality(Rest(t, asleep', cond)) \in Nat
                     /\ Cardinality(Rest(t, A, cond)) \in Nat
                     /\ Cardinality(Rest(t, A, cond))
                        <= Cardinality(Rest(t, asleep', cond))
    BY <2>2, Counting, RestGrows DEF Waiters
  <2>5. /\ q' \in Seq(Item) /\ Len(q') = Len(q) + 1 /\ q' # <<>>
        /\ nTasksPending' # 0
    BY <2>1 DEF IInv, TypeOK
  <2>6. TypeOK'
    <3>1. \A u \in Thread : u # t => call'[u] = call[u]
      BY <2>1 DEF IInv, TypeOK, Return
    <3>2. call'[t] = None
      BY <2>1 DEF IInv, TypeOK, Return
    <3> QED
      BY <1>2, <2>1, <2>2, <2>3, <2>4, <2>5, <3>1, <3>2, SyncQueueAssumption
         DEF IInv, TypeOK, Return
  <2>7. CountersAgree'
    <3>1. Busy' = Busy /\ Cardinality(Busy) \in Nat
      BY <2>1, Counting DEF Busy
    <3> QED
      BY <2>1, <2>3, <2>5, <3>1 DEF IInv, TypeOK, CountersAgree, Return
  <2>8. NoLostItem'
    <3> SUFFICES ASSUME SleepIn(asleep', "pop") # {}
                 PROVE  Len(q') <= Cardinality(Rest(t, asleep', "itemPushed"))
      BY <2>3 DEF NoLostItem
    <3>1. SleepIn(A, "pop") # {}
      BY <2>2 DEF SleepIn
    <3>2. Sleepers(A, "itemPushed") # {}
      BY <3>1 DEF SleepIn, Sleepers, Cond
    <3>3. Cardinality(Rest(t, asleep', "itemPushed"))
          = Cardinality(Rest(t, A, "itemPushed")) + 1
      BY <2>1, <3>2, NotifyFacts
    <3> QED
      BY <2>4, <2>5, <3>1, <3>3 DEF IInv, TypeOK
  <2>9. NoLostRoom'
    <3>1. SleepIn(asleep', "push") # {} => SleepIn(A, "push") # {}
      BY <2>2 DEF SleepIn
    <3> QED
      BY <2>3, <2>4, <2>5, <3>1, SyncQueueAssumption
         DEF IInv, TypeOK, NoLostRoom
  <2>10. NoMissedEnd'
    <3>1. SleepIn(A, "cancel") = {} => SleepIn(asleep', "cancel") = {}
      BY <2>2 DEF SleepIn
    <3> QED
      BY <2>1, <2>3, <2>5, <3>1 DEF NoMissedEnd, Return
  <2>11. CancelWakesAll'
    BY <2>1, <2>2, <2>3 DEF CancelWakesAll
  <2> QED
    BY <2>6, <2>7, <2>8, <2>9, <2>10, <2>11 DEF IInv
<1> QED
  BY <1>1, <1>2, SyncQueueAssumption DEF IInv, TypeOK

\* The pop succeeds: a sleeping push or waitForEmpty(), if any, is woken.
LEMMA PopKeepsInv ==
    ASSUME IInv, NEW t, NEW c, NEW n, NEW A, Entered(t, c, n, A),
           c.op = "pop", PopPass(t, c, n, A)
    PROVE  IInv'
<1> USE DEF Entered
<1>1. CASE q = <<>>
  <2>1. CASE c.how = "nowait" \/ cancel
    BY <1>1, <2>1, ReturnKeepsInv DEF PopPass, AfterPop, IInv, TypeOK
  <2>2. CASE ~(c.how = "nowait" \/ cancel)
    BY <1>1, <2>2, WaitKeepsInv DEF PopPass, AfterPop, IInv, TypeOK
  <2> QED
    BY <2>1, <2>2
<1>2. CASE q # <<>>
  <2>1. /\ hand' = [hand EXCEPT ![t] = Head(q)]
        /\ q' = Tail(q)
        /\ asleep' \in NotifyOne(A, "itemPopped")
        /\ Return(t, n)
        /\ UNCHANGED <<cancel, nTasksPending>>
    BY <1>2 DEF PopPass, AfterPop
  <2>2. asleep' \in SUBSET A
    BY <2>1, NotifyFacts
  <2>3. /\ call' \in [Thread -> Call \cup {None}]
        /\ Waiters' = Waiters \ {t}
        /\ \A cond : Awake(cond)' = Rest(t, asleep', cond)
        /\ \A op : AsleepIn(op)' = SleepIn(asleep', op)
        /\ \A u \in asleep' : call'[u] = call[u]
    BY <2>1, <2>2, ReturnFacts DEF IInv
  <2>4. /\ Cardinality(Waiters \ {t}) \in Nat
        /\ \A cond : /\ Cardinality(Rest(t, asleep', cond)) \in Nat
                     /\ Cardinality(Rest(t, A, cond)) \in Nat
                     /\ Cardinality(Rest(t, A, cond))
                        <= Cardinality(Rest(t, asleep', cond))
    BY <2>2, Counting, RestGrows DEF Waiters
  <2>5. /\ q' \in Seq(Item) /\ Len(q') = Len(q) - 1 /\ Len(q) \in Nat
        /\ Head(q) \in Item
    BY <1>2, <2>1 DEF IInv, TypeOK
  <2>6. TypeOK'
    <3>1. \A u \in Thread : u # t => call'[u] = call[u] /\ hand'[u] = hand[u]
      BY <2>1 DEF IInv, TypeOK, Return
    <3>2. call'[t] = None /\ hand' \in [Thread -> Item \cup {None}]
      BY <2>1, <2>5 DEF IInv, TypeOK, Return
    <3> QED
      BY <2>1, <2>2, <2>3, <2>4, <2>5, <3>1, <3>2, SyncQueueAssumption
         DEF IInv, TypeOK, Return
  <2>7. CountersAgree'
    <3>1. t \notin Busy /\ Busy' = Busy \cup {t}
      BY <2>1, <2>5, SyncQueueAssumption DEF Busy, IInv, TypeOK
    <3>2. Cardinality(Busy') = Cardinality(Busy) + 1 /\ Cardinality(Busy) \in Nat
      BY <3>1, Counting DEF Busy
    <3> QED
      BY <2>1, <2>3, <2>5, <3>2 DEF IInv, TypeOK, CountersAgree, Return
  <2>8. NoLostItem'
    <3>1. SleepIn(asleep', "pop") # {} => SleepIn(A, "pop") # {}
      BY <2>2 DEF SleepIn
    <3> QED
      BY <2>3, <2>4, <2>5, <3>1 DEF NoLostItem
  <2>9. NoLostRoom'
    <3> SUFFICES ASSUME SleepIn(asleep', "push") # {}
                 PROVE  QMax - Len(q') <= Cardinality(Rest(t, asleep', "itemPopped"))
      BY <2>3 DEF NoLostRoom
    <3>1. SleepIn(A, "push") # {}
      BY <2>2 DEF SleepIn
    <3>2. Sleepers(A, "itemPopped") # {}
      BY <3>1 DEF SleepIn, Sleepers, Cond
    <3>3. Cardinality(Rest(t, asleep', "itemPopped"))
          = Cardinality(Rest(t, A, "itemPopped")) + 1
      BY <2>1, <3>2, NotifyFacts
    <3> QED
      BY <2>4, <2>5, <3>1, <3>3, SyncQueueAssumption
  <2>10. NoMissedEnd'
    <3>1. \A op : SleepIn(A, op) = {} => SleepIn(asleep', op) = {}
      BY <2>2 DEF SleepIn
    <3>2. ASSUME SleepIn(asleep', "empty") # {}
          PROVE  Rest(t, asleep', "itemPopped") # {}
      <4>1. Sleepers(A, "itemPopped") # {}
        BY <2>2, <3>2 DEF SleepIn, Sleepers, Cond
      <4> QED
        BY <2>1, <4>1, NotifyFacts
    <3> QED
      BY <2>1, <2>3, <3>1, <3>2 DEF NoMissedEnd, Return
  <2>11. CancelWakesAll'
    BY <2>1, <2>2, <2>3 DEF CancelWakesAll
  <2> QED
    BY <2>6, <2>7, <2>8, <2>9, <2>10, <2>11 DEF IInv
<1> QED
  BY <1>1, <1>2

\* cancelWaits() notifies, then returns or waits.
LEMMA CancelKeepsInv ==
    ASSUME IInv, NEW t, NEW c, NEW n, NEW A, Entered(t, c, n, A),
           c.op = "cancel", CancelPass(t, c, n, A)
    PROVE  IInv'
<1> DEFINE B == NotifyAll(A, WokenByCancel)
<1>1. B \in SUBSET A
  BY DEF NotifyAll
<1>2. \A op \in {"pop", "push", "empty", "completion"} : SleepIn(B, op) = {}
  BY DEF SleepIn, NotifyAll, WokenByCancel, Cond
<1>3. SleepIn(B, "cancel") \subseteq SleepIn(A, "cancel")
  BY <1>1 DEF SleepIn
<1>4. Entered(t, c, n, B)
  <2>1. \A u \in B : call[u] # None
    BY <1>1 DEF Entered
  <2> HIDE DEF B
  <2>2. cancel => \A u \in B : call[u].op = "cancel"
    BY <1>1 DEF Entered
  <2> QED
    BY <1>1, <1>2, <1>3, <2>1, <2>2 DEF Entered
<1>5. \A u \in B : call[u].op = "cancel"
  <2> SUFFICES ASSUME NEW u \in B, call[u].op # "cancel" PROVE FALSE
    OBVIOUS
  <2>1. call[u] \in Call /\ call[u] # None
    BY <1>1 DEF Entered, IInv, TypeOK
  <2>2. Cond(call[u].op) = "zeroWaiting"
    BY DEF NotifyAll, WokenByCancel, Cond
  <2> QED
    BY <2>1, <2>2 DEF Cond, Call, WaitingOp
<1> HIDE DEF B
<1>6. cancel' = TRUE /\ UNCHANGED <<q, nTasksPending, hand>>
  BY DEF CancelPass
<1>7. CASE c.how = "nowait" \/ n = 0
  <2>1. Return(t, n) /\ asleep' = B
    BY <1>7 DEF CancelPass, B
  <2> QED
    BY <2>1, <1>4, <1>5, <1>6, ReturnKeepsInv
<1>8. CASE ~(c.how = "nowait" \/ n = 0)
  <2>1. Wait(t, c, n, B)
    BY <1>8 DEF CancelPass, B
  <2> QED
    BY <2>1, <1>4, <1>5, <1>6, <1>8, WaitKeepsInv
<1> QED
  BY <1>7, <1>8

\* Every pass of an operation, begun in a state where t is not counted and
\* does not sleep, re-establishes the invariant.
LEMMA PassKeepsInv ==
    ASSUME IInv, NEW t, NEW c, NEW n, NEW A, Entered(t, c, n, A),
           Pass(t, c, n, A)
    PROVE  IInv'
<1>1. CASE c.op = "push" /\ PushPass(t, c, n, A)
  BY <1>1, PushKeepsInv
<1>2. CASE c.op = "pop" /\ PopPass(t, c, n, A)
  BY <1>2, PopKeepsInv
<1>3. CASE c.op = "empty" /\ EmptyPass(t, c, n, A)
  <2>1. CASE q = <<>> \/ cancel
    BY <1>3, <2>1, ReturnKeepsInv DEF EmptyPass, IInv, TypeOK, Entered
  <2>2. CASE ~(q = <<>> \/ cancel)
    BY <1>3, <2>2, WaitKeepsInv DEF EmptyPass, IInv, TypeOK
  <2> QED
    BY <2>1, <2>2
<1>4. CASE c.op = "completion" /\ CompletionPass(t, c, n, A)
  <2>1. CASE nTasksPending = 0 \/ cancel
    BY <1>4, <2>1, ReturnKeepsInv DEF CompletionPass, IInv, TypeOK, Entered
  <2>2. CASE ~(nTasksPending = 0 \/ cancel)
    BY <1>4, <2>2, WaitKeepsInv DEF CompletionPass, IInv, TypeOK
  <2> QED
    BY <2>1, <2>2
<1>5. CASE c.op = "cancel" /\ CancelPass(t, c, n, A)
  BY <1>5, CancelKeepsInv
<1> QED
  BY <1>1, <1>2, <1>3, <1>4, <1>5 DEF Pass

-----------------------------------------------------------------------------
(* How a pass is entered.                                                  *)

\* A call begins: the state is as it was.
LEMMA StartEnters ==
    ASSUME IInv, NEW t \in Thread, NEW c \in Call, Start(t, c)
    PROVE  Entered(t, c, nWaiting, asleep)
<1>1. t \notin asleep /\ t \notin Waiters /\ \A cond : t \notin Awake(cond)
  BY DEF Start, IInv, TypeOK, Waiters, Awake
<1>2. /\ Rest(t, asleep, "itemPushed") = Awake("itemPushed")
      /\ Rest(t, asleep, "itemPopped") = Awake("itemPopped")
  BY <1>1 DEF Rest, Awake, Start
<1>3. /\ SleepIn(asleep, "pop") = AsleepIn("pop")
      /\ SleepIn(asleep, "push") = AsleepIn("push")
      /\ SleepIn(asleep, "empty") = AsleepIn("empty")
      /\ SleepIn(asleep, "completion") = AsleepIn("completion")
      /\ SleepIn(asleep, "cancel") = AsleepIn("cancel")
  BY DEF SleepIn, AsleepIn
<1>4. Waiters \ {t} = Waiters
  BY <1>1
<1>5. c.op = "push" => c.x \in Item
  BY DEF Start, Call
<1>6. c.op = "pop" => hand[t] = None
  BY DEF Start
<1>7. Cardinality(Awake("itemPushed")) \in Nat /\ Cardinality(Awake("itemPopped")) \in Nat
  BY Counting DEF Awake
<1>8. Len(q) \in Nat /\ QMax \in Nat
  BY SyncQueueAssumption DEF IInv, TypeOK
<1>9. asleep \subseteq Thread /\ \A u \in asleep : call[u] # None
  BY DEF IInv, TypeOK
<1>10. /\ AsleepIn("pop") # {} => Len(q) <= Cardinality(Awake("itemPushed"))
       /\ AsleepIn("push") # {} => QMax - Len(q) <= Cardinality(Awake("itemPopped"))
       /\ AsleepIn("empty") # {} /\ q = <<>> => Awake("itemPopped") # {}
       /\ nTasksPending = 0 => AsleepIn("completion") = {}
       /\ nWaiting = 0 => AsleepIn("cancel") = {}
       /\ nWaiting = Cardinality(Waiters)
       /\ cancel => \A u \in asleep : call[u].op = "cancel"
  BY DEF IInv, NoLostItem, NoLostRoom, NoMissedEnd, CountersAgree, CancelWakesAll
<1>11. /\ SleepIn(asleep, "pop") # {} =>
              Len(q) <= Cardinality(Rest(t, asleep, "itemPushed"))
                        + (IF c.op = "pop" THEN 1 ELSE 0)
       /\ SleepIn(asleep, "push") # {} =>
              QMax - Len(q) <= Cardinality(Rest(t, asleep, "itemPopped"))
                               + (IF c.op = "push" THEN 1 ELSE 0)
  BY <1>2, <1>3, <1>7, <1>8, <1>10
<1> QED
  BY <1>1, <1>2, <1>3, <1>4, <1>5, <1>6, <1>9, <1>10, <1>11 DEF Entered

\* A thread leaves its wait: it is not counted any more, and the last one to
\* leave wakes those in cancelWaits(true).
LEMMA LeaveFacts ==
    ASSUME IInv, NEW t \in Waiters
    PROVE  /\ nWaiting - 1 = Cardinality(Waiters \ {t})
           /\ nWaiting - 1 \in Nat
           /\ Leave(nWaiting - 1) \in SUBSET asleep
           /\ \A op \in WaitingOp \ {"cancel"} :
                 SleepIn(Leave(nWaiting - 1), op) = AsleepIn(op)
           /\ nWaiting - 1 = 0 => SleepIn(Leave(nWaiting - 1), "cancel") = {}
<1>1. nWaiting = Cardinality(Waiters) /\ Waiters \subseteq Thread
  BY DEF IInv, CountersAgree, Waiters
<1>2. nWaiting - 1 = Cardinality(Waiters \ {t}) /\ nWaiting - 1 \in Nat
  <2>1. Cardinality(Waiters \ {t}) = Cardinality(Waiters) - 1
    BY <1>1, Counting
  <2>2. Cardinality(Waiters \ {t}) \in Nat
    <3>1. Waiters \ {t} \subseteq Thread
      BY <1>1
    <3> QED
      BY <3>1, Counting
  <2> QED
    BY <1>1, <2>1, <2>2
<1>3. Leave(nWaiting - 1) \in SUBSET asleep
  BY DEF Leave, NotifyAll
<1>4. \A op \in WaitingOp \ {"cancel"} :
          SleepIn(Leave(nWaiting - 1), op) = AsleepIn(op)
  BY DEF Leave, NotifyAll, SleepIn, AsleepIn, Cond, WaitingOp
<1>5. nWaiting - 1 = 0 => SleepIn(Leave(nWaiting - 1), "cancel") = {}
  BY DEF Leave, NotifyAll, SleepIn, Cond
<1> QED
  BY <1>2, <1>3, <1>4, <1>5

\* A push, a pop or waitForCompletion() resumes.
LEMMA ResumeEnters ==
    ASSUME IInv, NEW t \in Thread, call[t] # None, t \notin asleep,
           call[t].op \notin {"cancel", "empty"}
    PROVE  Entered(t, call[t], nWaiting - 1, Leave(nWaiting - 1))
<1> DEFINE c == call[t]
           L == Leave(nWaiting - 1)
<1>1. c \in Call /\ t \in Waiters
  BY DEF IInv, TypeOK, Waiters
<1>2. /\ nWaiting - 1 = Cardinality(Waiters \ {t})
      /\ L \in SUBSET asleep
      /\ \A op \in WaitingOp \ {"cancel"} : SleepIn(L, op) = AsleepIn(op)
      /\ nWaiting - 1 = 0 => SleepIn(L, "cancel") = {}
  BY <1>1, LeaveFacts
<1>3. asleep \subseteq Thread /\ \A u \in asleep : call[u] # None
  BY DEF IInv, TypeOK
<1>4. \A cond : /\ Cardinality(Rest(t, L, cond)) \in Nat
                /\ Cardinality(Rest(t, asleep, cond)) \in Nat
                /\ Cardinality(Rest(t, asleep, cond)) <= Cardinality(Rest(t, L, cond))
  BY <1>2, RestGrows
<1>5. \A cond : Rest(t, asleep, cond) \subseteq Rest(t, L, cond)
  BY <1>2 DEF Rest
<1>6. \A cond : Cond(c.op) # cond => Rest(t, asleep, cond) = Awake(cond)
  BY DEF Rest, Awake
<1>7. \A cond : Cond(c.op) = cond =>
          Cardinality(Rest(t, asleep, cond)) = Cardinality(Awake(cond)) - 1
  <2> TAKE cond
  <2> HAVE Cond(c.op) = cond
  <2>1. Rest(t, asleep, cond) = Awake(cond) \ {t} /\ t \in Awake(cond)
    BY DEF Rest, Awake
  <2>2. Awake(cond) \subseteq Thread
    BY DEF Awake
  <2> QED
    BY <2>1, <2>2, Counting
<1>8. \A cond : Cardinality(Awake(cond)) \in Nat
  <2>1. \A cond : Awake(cond) \subseteq Thread
    BY DEF Awake
  <2> QED
    BY <2>1, Counting
<1>9. Len(q) \in Nat /\ QMax \in Nat
  BY SyncQueueAssumption DEF IInv, TypeOK
<1>10. /\ Cond("pop") = "itemPushed" /\ Cond("push") = "itemPopped"
       /\ Cond("completion") = "allTasksCompleted"
  BY DEF Cond
<1>11. c.op \in {"push", "pop", "completion"}
  BY <1>1 DEF Call, WaitingOp
<1>12. /\ AsleepIn("pop") # {} => Len(q) <= Cardinality(Awake("itemPushed"))
       /\ AsleepIn("push") # {} => QMax - Len(q) <= Cardinality(Awake("itemPopped"))
       /\ AsleepIn("empty") # {} /\ q = <<>> => Awake("itemPopped") # {}
       /\ nTasksPending = 0 => AsleepIn("completion") = {}
       /\ cancel => \A u \in asleep : call[u].op = "cancel"
  BY DEF IInv, NoLostItem, NoLostRoom, NoMissedEnd, CancelWakesAll
<1>13. /\ c.op = "push" => c.x \in Item
       /\ c.op = "pop" => hand[t] = None
  BY <1>1 DEF IInv, TypeOK, Call
<1> HIDE DEF L
<1>14. SleepIn(L, "pop") # {} =>
           Len(q) <= Cardinality(Rest(t, L, "itemPushed"))
                     + (IF c.op = "pop" THEN 1 ELSE 0)
  <2>1. SleepIn(L, "pop") = AsleepIn("pop")
    BY <1>2 DEF WaitingOp
  <2>2. CASE c.op = "pop"
    <3>1. Cardinality(Rest(t, asleep, "itemPushed")) = Cardinality(Awake("itemPushed")) - 1
      BY <1>7, <1>10, <2>2
    <3> QED
      BY <3>1, <2>1, <2>2, <1>4, <1>8, <1>9, <1>12
  <2>3. CASE c.op # "pop"
    <3>1. Rest(t, asleep, "itemPushed") = Awake("itemPushed")
      BY <1>6, <1>10, <1>11, <2>3
    <3> QED
      BY <3>1, <2>1, <2>3, <1>4, <1>8, <1>9, <1>12
  <2> QED
    BY <2>2, <2>3
<1>15. SleepIn(L, "push") # {} =>
           QMax - Len(q) <= Cardinality(Rest(t, L, "itemPopped"))
                            + (IF c.op = "push" THEN 1 ELSE 0)
  <2>1. SleepIn(L, "push") = AsleepIn("push")
    BY <1>2 DEF WaitingOp
  <2>2. CASE c.op = "push"
    <3>1. Cardinality(Rest(t, asleep, "itemPopped")) = Cardinality(Awake("itemPopped")) - 1
      BY <1>7, <1>10, <2>2
    <3> QED
      BY <3>1, <2>1, <2>2, <1>4, <1>8, <1>9, <1>12
  <2>3. CASE c.op # "push"
    <3>1. Rest(t, asleep, "itemPopped") = Awake("itemPopped")
      BY <1>6, <1>10, <1>11, <2>3
    <3> QED
      BY <3>1, <2>1, <2>3, <1>4, <1>8, <1>9, <1>12
  <2> QED
    BY <2>2, <2>3
<1>16. SleepIn(L, "empty") # {} /\ q = <<>> =>
           c.op = "push" \/ Rest(t, L, "itemPopped") # {}
  <2>1. SleepIn(L, "empty") = AsleepIn("empty")
    BY <1>2 DEF WaitingOp
  <2>2. CASE c.op # "push"
    <3>1. Rest(t, asleep, "itemPopped") = Awake("itemPopped")
      BY <1>6, <1>10, <1>11, <2>2
    <3> QED
      BY <3>1, <2>1, <1>5, <1>12
  <2> QED
    BY <2>2
<1>17. /\ nTasksPending = 0 => SleepIn(L, "completion") = {}
       /\ cancel => \A u \in L : call[u].op = "cancel"
       /\ L \subseteq Thread /\ t \notin L /\ \A u \in L : call[u] # None
  BY <1>2, <1>3, <1>12 DEF WaitingOp
<1> HIDE DEF c
<1>18. Entered(t, c, nWaiting - 1, L)
  BY <1>1, <1>2, <1>13, <1>14, <1>15, <1>16, <1>17 DEF Entered
<1> QED
  BY <1>18 DEF c, L

\* waitForEmpty() resumes and passes its notification on: as many threads are
\* awake as before, if one is left to be woken.
LEMMA ResumeEmptyEnters ==
    ASSUME IInv, NEW t \in Thread, call[t] # None, t \notin asleep,
           call[t].op = "empty",
           NEW B \in NotifyOne(Leave(nWaiting - 1), "itemPopped")
    PROVE  Entered(t, call[t], nWaiting - 1, B)
<1> DEFINE c == call[t]
           L == Leave(nWaiting - 1)
<1>1. c \in Call /\ t \in Waiters
  BY DEF IInv, TypeOK, Waiters
<1>2. /\ nWaiting - 1 = Cardinality(Waiters \ {t})
      /\ L \in SUBSET asleep
      /\ \A op \in WaitingOp \ {"cancel"} : SleepIn(L, op) = AsleepIn(op)
      /\ nWaiting - 1 = 0 => SleepIn(L, "cancel") = {}
  BY <1>1, LeaveFacts
<1>3. asleep \subseteq Thread /\ \A u \in asleep : call[u] # None
  BY DEF IInv, TypeOK
<1> HIDE DEF L
<1>4. /\ L \in SUBSET Thread /\ t \notin L /\ \A u \in L : call[u] # None
      /\ B \in NotifyOne(L, "itemPopped")
  BY <1>2, <1>3 DEF L
<1>5. /\ B \in SUBSET L
      /\ Sleepers(L, "itemPopped") # {} =>
            /\ Rest(t, B, "itemPopped") # {}
            /\ Cardinality(Rest(t, B, "itemPopped"))
               = Cardinality(Rest(t, L, "itemPopped")) + 1
  BY <1>4, NotifyFacts
<1>6. \A op : SleepIn(B, op) # {} => SleepIn(L, op) # {}
  BY <1>5 DEF SleepIn
<1>7. /\ SleepIn(L, "push") # {} => Sleepers(L, "itemPopped") # {}
      /\ SleepIn(L, "empty") # {} => Sleepers(L, "itemPopped") # {}
  BY DEF SleepIn, Sleepers, Cond
<1>8. /\ Cardinality(Rest(t, L, "itemPopped")) \in Nat
      /\ Cardinality(Rest(t, asleep, "itemPopped")) <= Cardinality(Rest(t, L, "itemPopped"))
      /\ Cardinality(Rest(t, B, "itemPushed")) \in Nat
      /\ Cardinality(Rest(t, asleep, "itemPushed")) <= Cardinality(Rest(t, B, "itemPushed"))
      /\ Cardinality(Rest(t, asleep, "itemPopped")) \in Nat
  <2>1. B \in SUBSET asleep
    BY <1>2, <1>5
  <2> QED
    BY <1>2, <2>1, RestGrows
<1>9. Rest(t, asleep, "itemPushed") = Awake("itemPushed")
  BY DEF Rest, Awake, Cond
<1>10. Cardinality(Rest(t, asleep, "itemPopped")) = Cardinality(Awake("itemPopped")) - 1
  <2>1. Rest(t, asleep, "itemPopped") = Awake("itemPopped") \ {t}
        /\ t \in Awake("itemPopped") /\ Awake("itemPopped") \subseteq Thread
    BY DEF Rest, Awake, Cond
  <2> QED
    BY <2>1, Counting
<1>11. Len(q) \in Nat /\ QMax \in Nat /\ Cardinality(Awake("itemPopped")) \in Nat
       /\ Cardinality(Awake("itemPushed")) \in Nat
  BY SyncQueueAssumption, Counting DEF IInv, TypeOK, Awake
<1>12. /\ AsleepIn("pop") # {} => Len(q) <= Cardinality(Awake("itemPushed"))
       /\ AsleepIn("push") # {} => QMax - Len(q) <= Cardinality(Awake("itemPopped"))
       /\ nTasksPending = 0 => AsleepIn("completion") = {}
       /\ cancel => \A u \in asleep : call[u].op = "cancel"
  BY DEF IInv, NoLostItem, NoLostRoom, NoMissedEnd, CancelWakesAll
<1>13. /\ SleepIn(L, "pop") = AsleepIn("pop")
       /\ SleepIn(L, "push") = AsleepIn("push")
       /\ SleepIn(L, "completion") = AsleepIn("completion")
  BY <1>2 DEF WaitingOp
<1>14. SleepIn(B, "pop") # {} => Len(q) <= Cardinality(Rest(t, B, "itemPushed"))
  BY <1>6, <1>8, <1>9, <1>11, <1>12, <1>13
<1>15. SleepIn(B, "push") # {} =>
           QMax - Len(q) <= Cardinality(Rest(t, B, "itemPopped"))
  BY <1>5, <1>6, <1>7, <1>8, <1>10, <1>11, <1>12, <1>13
<1>16. SleepIn(B, "empty") # {} => Rest(t, B, "itemPopped") # {}
  BY <1>5, <1>6, <1>7
<1>17. /\ nTasksPending = 0 => SleepIn(B, "completion") = {}
       /\ nWaiting - 1 = 0 => SleepIn(B, "cancel") = {}
       /\ cancel => \A u \in B : call[u].op = "cancel"
       /\ B \subseteq Thread /\ t \notin B /\ \A u \in B : call[u] # None
  BY <1>2, <1>4, <1>5, <1>6, <1>12, <1>13
<1>18. (IF c.op = "pop" THEN 1 ELSE 0) = 0 /\ (IF c.op = "push" THEN 1 ELSE 0) = 0
       /\ c.op # "pop" /\ c.op # "push"
  OBVIOUS
<1>19. Cardinality(Rest(t, B, "itemPopped")) \in Nat
  BY <1>5, RestGrows
<1> HIDE DEF c
<1>20. /\ SleepIn(B, "pop") # {} =>
              Len(q) <= Cardinality(Rest(t, B, "itemPushed"))
                        + (IF c.op = "pop" THEN 1 ELSE 0)
       /\ SleepIn(B, "push") # {} =>
              QMax - Len(q) <= Cardinality(Rest(t, B, "itemPopped"))
                               + (IF c.op = "push" THEN 1 ELSE 0)
  BY <1>8, <1>11, <1>14, <1>15, <1>18, <1>19
<1>21. Entered(t, c, nWaiting - 1, B)
  BY <1>1, <1>2, <1>16, <1>17, <1>18, <1>20 DEF Entered
<1> QED
  BY <1>21 DEF c

\* cancelWaits(true) resumes; it is not counted in nWaiting.
LEMMA ResumeCancelEnters ==
    ASSUME IInv, NEW t \in Thread, call[t] # None, t \notin asleep,
           call[t].op = "cancel"
    PROVE  Entered(t, call[t], nWaiting, asleep)
<1>1. call[t] \in Call /\ t \notin Waiters
  BY DEF IInv, TypeOK, Waiters
<1>2. /\ Rest(t, asleep, "itemPushed") = Awake("itemPushed")
      /\ Rest(t, asleep, "itemPopped") = Awake("itemPopped")
  BY DEF Rest, Awake, Cond
<1>3. /\ SleepIn(asleep, "pop") = AsleepIn("pop")
      /\ SleepIn(asleep, "push") = AsleepIn("push")
      /\ SleepIn(asleep, "empty") = AsleepIn("empty")
      /\ SleepIn(asleep, "completion") = AsleepIn("completion")
      /\ SleepIn(asleep, "cancel") = AsleepIn("cancel")
  BY DEF SleepIn, AsleepIn
<1>4. Waiters \ {t} = Waiters
  BY <1>1
<1>5. Cardinality(Awake("itemPushed")) \in Nat /\ Cardinality(Awake("itemPopped")) \in Nat
  BY Counting DEF Awake
<1>6. Len(q) \in Nat /\ QMax \in Nat
  BY SyncQueueAssumption DEF IInv, TypeOK
<1>7. asleep \subseteq Thread /\ \A u \in asleep : call[u] # None
  BY DEF IInv, TypeOK
<1>8. /\ AsleepIn("pop") # {} => Len(q) <= Cardinality(Awake("itemPushed"))
      /\ AsleepIn("push") # {} => QMax - Len(q) <= Cardinality(Awake("itemPopped"))
      /\ AsleepIn("empty") # {} /\ q = <<>> => Awake("itemPopped") # {}
      /\ nTasksPending = 0 => AsleepIn("completion") = {}
      /\ nWaiting = 0 => AsleepIn("cancel") = {}
      /\ nWaiting = Cardinality(Waiters)
      /\ cancel => \A u \in asleep : call[u].op = "cancel"
  BY DEF IInv, NoLostItem, NoLostRoom, NoMissedEnd, CountersAgree, CancelWakesAll
<1> DEFINE c == call[t]
<1>9. (IF c.op = "pop" THEN 1 ELSE 0) = 0 /\ (IF c.op = "push" THEN 1 ELSE 0) = 0
      /\ c.op # "pop" /\ c.op # "push" /\ c \in Call
  BY <1>1
<1> HIDE DEF c
<1>10. /\ SleepIn(asleep, "pop") # {} =>
              Len(q) <= Cardinality(Rest(t, asleep, "itemPushed"))
                        + (IF c.op = "pop" THEN 1 ELSE 0)
       /\ SleepIn(asleep, "push") # {} =>
              QMax - Len(q) <= Cardinality(Rest(t, asleep, "itemPopped"))
                               + (IF c.op = "push" THEN 1 ELSE 0)
  BY <1>2, <1>3, <1>5, <1>6, <1>8, <1>9
<1>11. Entered(t, c, nWaiting, asleep)
  BY <1>2, <1>3, <1>4, <1>7, <1>8, <1>9, <1>10 DEF Entered
<1> QED
  BY <1>11 DEF c

-----------------------------------------------------------------------------
(* The other steps, and the theorems.                                      *)

\* A timed wait ends: t leaves without having been notified.
LEMMA TimeOutKeepsInv ==
    ASSUME IInv, NEW t \in Thread, TimeOut(t)
    PROVE  IInv'
<1> DEFINE B == Leave(nWaiting - 1) \ {t}
<1>1. /\ asleep \subseteq Thread /\ \A u \in asleep : call[u] # None
      /\ t \in asleep /\ call[t] \in Call /\ call[t].op \in {"push", "pop"}
  BY DEF IInv, TypeOK, TimeOut, Call
<1>2. t \in Waiters
  BY <1>1 DEF Waiters
<1>3. /\ nWaiting - 1 = Cardinality(Waiters \ {t}) /\ nWaiting - 1 \in Nat
      /\ B \in SUBSET asleep /\ t \notin B
      /\ nWaiting - 1 = 0 => SleepIn(B, "cancel") = {}
  BY <1>2, LeaveFacts DEF SleepIn
<1>4. \A op : SleepIn(B, op) # {} => AsleepIn(op) # {}
  BY <1>3 DEF SleepIn, AsleepIn
<1> HIDE DEF B
<1>5. /\ asleep' = B /\ Return(t, nWaiting - 1)
      /\ UNCHANGED <<q, nTasksPending, cancel, hand>>
  BY DEF TimeOut, B
<1>6. /\ call' \in [Thread -> Call \cup {None}]
      /\ Waiters' = Waiters \ {t}
      /\ \A cond : Awake(cond)' = Rest(t, B, cond)
      /\ \A op : AsleepIn(op)' = SleepIn(B, op)
      /\ \A u \in asleep' : call'[u] = call[u]
  BY <1>1, <1>3, <1>5, ReturnFacts DEF IInv
<1>7. \A cond : Rest(t, asleep, cond) = Awake(cond)
  BY <1>1 DEF Rest, Awake
<1>8. \A cond : /\ Cardinality(Awake(cond)) \in Nat
                /\ Cardinality(Awake(cond)') \in Nat
                /\ Cardinality(Awake(cond)) <= Cardinality(Awake(cond)')
  BY <1>3, <1>6, <1>7, RestGrows
<1>9. TypeOK'
  <2>1. \A u \in Thread : u # t => call'[u] = call[u]
    BY <1>5 DEF IInv, TypeOK, Return
  <2>2. call'[t] = None
    BY <1>5 DEF IInv, TypeOK, Return
  <2> QED
    BY <1>1, <1>3, <1>5, <1>6, <2>1, <2>2 DEF IInv, TypeOK, Return
<1>10. CountersAgree'
  BY <1>3, <1>5, <1>6 DEF IInv, CountersAgree, Return, Busy
<1>11. NoLostItem'
  <2>1. Len(q) \in Nat /\ q' = q
    BY <1>5 DEF IInv, TypeOK
  <2> QED
    BY <1>4, <1>6, <1>8, <2>1 DEF IInv, NoLostItem
<1>12. NoLostRoom'
  <2>1. Len(q) \in Nat /\ q' = q /\ QMax \in Nat
    BY <1>5, SyncQueueAssumption DEF IInv, TypeOK
  <2> QED
    BY <1>4, <1>6, <1>8, <2>1 DEF IInv, NoLostRoom
<1>13. NoMissedEnd'
  <2>1. Rest(t, asleep, "itemPopped") \subseteq Rest(t, B, "itemPopped")
    BY <1>3 DEF Rest
  <2> QED
    BY <1>3, <1>4, <1>5, <1>6, <1>7, <2>1 DEF IInv, NoMissedEnd, Return
<1>14. CancelWakesAll'
  BY <1>3, <1>5, <1>6 DEF IInv, CancelWakesAll
<1> QED
  BY <1>9, <1>10, <1>11, <1>12, <1>13, <1>14 DEF IInv

\* Threads only leave the set of sleepers: of what the invariant says of them
\* nothing is lost.
LEMMA WakingKeepsInv ==
    ASSUME IInv, asleep' \in SUBSET asleep,
           UNCHANGED <<q, nWaiting, call>>,
           TypeOK', CountersAgree',
           nTasksPending' = 0 => AsleepIn("completion")' = {},
           cancel' => cancel
    PROVE  IInv'
<1>1. \A cond : Awake(cond) \subseteq Awake(cond)' /\ Awake(cond)' \subseteq Thread
  BY DEF Awake
<1>2. \A op : AsleepIn(op)' # {} => AsleepIn(op) # {}
  BY DEF AsleepIn
<1>3. \A cond : /\ Cardinality(Awake(cond)) \in Nat
                /\ Cardinality(Awake(cond)') \in Nat
                /\ Cardinality(Awake(cond)) <= Cardinality(Awake(cond)')
  BY <1>1, Counting
<1>4. Len(q) \in Nat /\ QMax \in Nat
  BY SyncQueueAssumption DEF IInv, TypeOK
<1>5. NoLostItem' /\ NoLostRoom'
  BY <1>2, <1>3, <1>4 DEF IInv, NoLostItem, NoLostRoom
<1>6. NoMissedEnd'
  BY <1>1, <1>2 DEF IInv, NoMissedEnd
<1>7. CancelWakesAll'
  BY DEF IInv, CancelWakesAll
<1> QED
  BY <1>5, <1>6, <1>7 DEF IInv

\* taskComplete() wakes all of waitForCompletion() with the last item.
LEMMA TaskCompleteKeepsInv ==
    ASSUME IInv, NEW t \in Thread, TaskComplete(t)
    PROVE  IInv'
<1>1. /\ t \in Busy /\ Busy' = Busy \ {t} /\ Busy \subseteq Thread
  BY DEF TaskComplete, Busy, IInv, TypeOK
<1>2. /\ Cardinality(Busy') = Cardinality(Busy) - 1
      /\ Cardinality(Busy) \in Nat /\ Cardinality(Busy') \in Nat
  <2>1. Busy' \subseteq Thread
    BY <1>1
  <2> QED
    BY <1>1, <2>1, Counting
<1>3. asleep' \in SUBSET asleep
  BY DEF TaskComplete, NotifyAll
<1>4. CountersAgree'
  <2>1. Waiters' = Waiters
    BY DEF TaskComplete, Waiters
  <2> QED
    BY <1>2, <2>1 DEF IInv, TypeOK, CountersAgree, TaskComplete
<1>5. TypeOK'
  <2>1. nTasksPending' \in Nat
    BY <1>2, <1>4 DEF CountersAgree, TaskComplete, IInv, TypeOK
  <2> QED
    BY <1>3, <2>1 DEF IInv, TypeOK, TaskComplete
<1>6. nTasksPending' = 0 => AsleepIn("completion")' = {}
  BY DEF TaskComplete, NotifyAll, AsleepIn, Cond, IInv, TypeOK
<1> QED
  BY <1>3, <1>4, <1>5, <1>6, WakingKeepsInv DEF TaskComplete

\* A wait that ends for no reason does no harm.
LEMMA WakeUpKeepsInv ==
    ASSUME IInv, NEW t \in Thread, WakeUp(t)
    PROVE  IInv'
<1>1. TypeOK' /\ asleep' \in SUBSET asleep
  BY DEF IInv, TypeOK, WakeUp
<1>2. CountersAgree'
  BY DEF IInv, CountersAgree, WakeUp, Waiters, Busy
<1>3. nTasksPending' = 0 => AsleepIn("completion")' = {}
  BY DEF IInv, NoMissedEnd, WakeUp, AsleepIn
<1> QED
  BY <1>1, <1>2, <1>3, WakingKeepsInv DEF WakeUp

\* enableWaits() does no harm: those who sleep had better wait again.
LEMMA EnableKeepsInv ==
    ASSUME IInv, NEW t \in Thread, EnableWaits(t)
    PROVE  IInv'
<1>1. TypeOK' /\ asleep' \in SUBSET asleep
  BY DEF IInv, TypeOK, EnableWaits
<1>2. CountersAgree'
  BY DEF IInv, CountersAgree, EnableWaits, Waiters, Busy
<1>3. nTasksPending' = 0 => AsleepIn("completion")' = {}
  BY DEF IInv, NoMissedEnd, EnableWaits, AsleepIn
<1> QED
  BY <1>1, <1>2, <1>3, WakingKeepsInv DEF EnableWaits

\* A new queue satisfies the invariant.
LEMMA InitInv == Init => IInv
<1> SUFFICES ASSUME Init PROVE IInv
  OBVIOUS
<1>1. Waiters = {} /\ Busy = {} /\ \A op : AsleepIn(op) = {}
  BY DEF Init, Waiters, Busy, AsleepIn
<1>2. TypeOK
  <2>1. q \in Seq(Item) /\ Len(q) = 0 /\ QMax \in Nat
    BY SyncQueueAssumption DEF Init
  <2>2. \A t \in Thread : call[t] = None
    BY DEF Init
  <2>3. call \in [Thread -> Call \cup {None}] /\ hand \in [Thread -> Item \cup {None}]
    BY DEF Init
  <2>4. asleep = {} /\ nWaiting = 0 /\ nTasksPending = 0 /\ cancel \in BOOLEAN
    BY DEF Init
  <2> QED
    BY <2>1, <2>2, <2>3, <2>4 DEF TypeOK
<1>3. CountersAgree
  BY <1>1, FS_EmptySet DEF Init, CountersAgree
<1>4. NoLostItem /\ NoLostRoom /\ NoMissedEnd /\ CancelWakesAll
  BY <1>1 DEF Init, NoLostItem, NoLostRoom, NoMissedEnd, CancelWakesAll
<1> QED
  BY <1>2, <1>3, <1>4 DEF IInv

\* Every step of every thread keeps the invariant.
LEMMA NextInv == IInv /\ [Next]_vars => IInv'
<1> SUFFICES ASSUME IInv, [Next]_vars PROVE IInv'
  OBVIOUS
<1>1. ASSUME NEW t \in Thread, NEW c \in Call, Start(t, c) PROVE IInv'
  <2>1. Entered(t, c, nWaiting, asleep)
    BY <1>1, StartEnters
  <2>2. Pass(t, c, nWaiting, asleep)
    BY <1>1 DEF Start
  <2> QED
    BY <2>1, <2>2, PassKeepsInv
<1>2. ASSUME NEW t \in Thread, Resume(t) PROVE IInv'
  <2>1. call[t] # None /\ t \notin asleep
    BY <1>2 DEF Resume
  <2>2. CASE call[t].op = "cancel"
    <3>1. Pass(t, call[t], nWaiting, asleep)
      BY <1>2, <2>2 DEF Resume
    <3>2. Entered(t, call[t], nWaiting, asleep)
      BY <2>1, <2>2, ResumeCancelEnters
    <3> QED
      BY <3>1, <3>2, PassKeepsInv
  <2>3. CASE call[t].op = "empty"
    <3>1. PICK B \in NotifyOne(Leave(nWaiting - 1), "itemPopped") :
              Pass(t, call[t], nWaiting - 1, B)
      BY <1>2, <2>3 DEF Resume
    <3>2. Entered(t, call[t], nWaiting - 1, B)
      BY <2>1, <2>3, ResumeEmptyEnters
    <3> QED
      BY <3>1, <3>2, PassKeepsInv
  <2>4. CASE call[t].op \notin {"cancel", "empty"}
    <3>1. Pass(t, call[t], nWaiting - 1, Leave(nWaiting - 1))
      BY <1>2, <2>4 DEF Resume
    <3>2. Entered(t, call[t], nWaiting - 1, Leave(nWaiting - 1))
      BY <2>1, <2>4, ResumeEnters
    <3> QED
      BY <3>1, <3>2, PassKeepsInv
  <2> QED
    BY <2>2, <2>3, <2>4
<1>3. ASSUME NEW t \in Thread, TimeOut(t) PROVE IInv'
  BY <1>3, TimeOutKeepsInv
<1>4. ASSUME NEW t \in Thread, WakeUp(t) PROVE IInv'
  BY <1>4, WakeUpKeepsInv
<1>5. ASSUME NEW t \in Thread, TaskComplete(t) PROVE IInv'
  BY <1>5, TaskCompleteKeepsInv
<1>6. ASSUME NEW t \in Thread, EnableWaits(t) PROVE IInv'
  BY <1>6, EnableKeepsInv
<1>7. CASE UNCHANGED vars
  BY <1>7 DEF vars, IInv, TypeOK, CountersAgree, NoLostItem, NoLostRoom,
              NoMissedEnd, CancelWakesAll, Waiters, Busy, Awake, AsleepIn
<1> QED
  BY <1>1, <1>2, <1>3, <1>4, <1>5, <1>6, <1>7 DEF Next

\* All the invariants of the queue, together: it is they that are inductive.
THEOREM QueueInvariant == Spec => []IInv
<1> QED
  BY InitInv, NextInv, PTL DEF Spec

\* While a thread sleeps in pop(), every item of the queue has a thread that is
\* awake and will take it: push() and pop() pass the signal itemPushed on.
THEOREM ItemNotLost == Spec => []NoLostItem
<1>1. IInv => NoLostItem
  BY DEF IInv
<1> QED
  BY <1>1, QueueInvariant, PTL

\* Likewise for the room in the queue, the threads asleep in push(), and the
\* signal itemPopped, which waitForEmpty() takes too.
THEOREM RoomNotLost == Spec => []NoLostRoom
<1>1. IInv => NoLostRoom
  BY DEF IInv
<1> QED
  BY <1>1, QueueInvariant, PTL

\* Nobody sleeps on in waitForEmpty(), waitForCompletion() or cancelWaits()
\* when what the call waits for has come about.
THEOREM EndNotMissed == Spec => []NoMissedEnd
<1>1. IInv => NoMissedEnd
  BY DEF IInv
<1> QED
  BY <1>1, QueueInvariant, PTL

\* nWaiting and nTasksPending are exact at all times.
THEOREM Counters == Spec => []CountersAgree
<1>1. IInv => CountersAgree
  BY DEF IInv
<1> QED
  BY <1>1, QueueInvariant, PTL

\* waitForCompletion() returns, unless cancelled, only when all is done.
THEOREM CompletionQuiescent == Spec => CompletionIsQuiescent
<1> DEFINE Ends(t) == /\ call[t] # None /\ call'[t] = None /\ ~cancel
                      /\ call[t].op = "completion"
<1>1. IInv /\ [Next]_vars => [CompletionStep]_vars
  <2> SUFFICES ASSUME IInv, Next, NEW t \in Thread, Ends(t)
               PROVE  q = <<>> /\ Busy = {}
    BY DEF CompletionStep
  <2>1. PICK u \in Thread : \/ \E c \in Call : Start(u, c)
                            \/ Resume(u) \/ TimeOut(u) \/ WakeUp(u)
                            \/ TaskComplete(u) \/ EnableWaits(u)
    BY DEF Next
  <2>2. \A v \in Thread : \A c, n, S : Return(v, n) \/ Wait(v, c, n, S) =>
            \A w \in Thread : w # v => call'[w] = call[w]
    BY DEF Return, Wait, IInv, TypeOK
  <2>3. \A v \in Thread : \A c, n, S : Pass(v, c, n, S) =>
            \A w \in Thread : w # v => call'[w] = call[w]
    BY <2>2 DEF Pass, PushPass, HasRoom, PushSignal, PopPass, AfterPop,
       EmptyPass, CompletionPass, CancelPass
  <2>4. u = t /\ Resume(t)
    <3>1. ASSUME NEW c \in Call, Start(u, c) PROVE FALSE
      <4>1. u # t /\ Pass(u, c, nWaiting, asleep)
        BY <3>1 DEF Start
      <4> QED
        BY <4>1, <2>3
    <3>2. CASE Resume(u)
      <4>1. \E n, S : Pass(u, call[u], n, S)
        BY <3>2 DEF Resume
      <4> QED
        BY <3>2, <4>1, <2>3
    <3>3. ~TimeOut(u)
      <4> SUFFICES ASSUME TimeOut(u) PROVE FALSE
        OBVIOUS
      <4>1. u = t
        BY <2>2 DEF TimeOut
      <4> QED
        BY <4>1 DEF TimeOut, IInv, TypeOK, Call
    <3>4. ~WakeUp(u) /\ ~TaskComplete(u) /\ ~EnableWaits(u)
      BY DEF WakeUp, TaskComplete, EnableWaits
    <3> QED
      BY <2>1, <3>1, <3>2, <3>3, <3>4
  <2>5. PICK n, S : Pass(t, call[t], n, S)
    BY <2>4 DEF Resume
  <2>6. CompletionPass(t, call[t], n, S)
    BY <2>5 DEF Pass
  <2>7. nTasksPending = 0
    <3>1. CASE nTasksPending = 0
      BY <3>1
    <3>2. CASE nTasksPending # 0
      <4>1. Wait(t, call[t], n, S)
        BY <2>6, <3>2 DEF CompletionPass
      <4> QED
        BY <4>1 DEF Wait, IInv, TypeOK
    <3> QED
      BY <3>1, <3>2
  <2>8. Busy \subseteq Thread
    BY DEF Busy
  <2>9. Cardinality(Busy) \in Nat /\ (Cardinality(Busy) = 0 <=> Busy = {})
    BY <2>8, Counting
  <2>10. Len(q) = 0 /\ Cardinality(Busy) = 0
    BY <2>7, <2>9 DEF IInv, TypeOK, CountersAgree
  <2> QED
    BY <2>9, <2>10 DEF IInv, TypeOK
<1> QED
  BY <1>1, QueueInvariant, PTL DEF Spec, CompletionIsQuiescent

\* SyncQueue implements BoundedQueue: each item is delivered once, in order.
THEOREM DeliveryHolds == Spec => Delivery
<1>1. Init => Abstract!Init
  BY DEF Init, Abstract!Init
<1>2. IInv /\ [Next]_vars => [Abstract!Next]_<<q, hand>>
  <2> SUFFICES ASSUME IInv, Next, ~UNCHANGED <<q, hand>>
               PROVE  Abstract!Next
    BY DEF vars
  <2>1. ASSUME NEW t \in Thread, NEW c \in Call, NEW n, NEW S,
               c.op = "pop" => hand[t] = None, Pass(t, c, n, S)
        PROVE  Abstract!Next
    <3>1. CASE c.op = "push" /\ PushPass(t, c, n, S)
      <4>1. c.x \in Item
        BY <3>1 DEF Call
      <4>2. Abstract!Put(c.x)
        BY <3>1 DEF PushPass, HasRoom, PushSignal, Abstract!Put
      <4> QED
        BY <4>1, <4>2 DEF Abstract!Next
    <3>2. CASE c.op = "pop" /\ PopPass(t, c, n, S)
      <4>1. Abstract!Take(t)
        BY <2>1, <3>2 DEF PopPass, AfterPop, Abstract!Take
      <4> QED
        BY <4>1 DEF Abstract!Next
    <3>3. CASE c.op \notin {"push", "pop"}
      BY <2>1, <3>3 DEF Pass, EmptyPass, CompletionPass, CancelPass
    <3> QED
      BY <2>1, <3>1, <3>2, <3>3 DEF Pass
  <2>2. ASSUME NEW t \in Thread, NEW c \in Call, Start(t, c)
        PROVE  Abstract!Next
    BY <2>1, <2>2 DEF Start
  <2>3. ASSUME NEW t \in Thread, Resume(t) PROVE Abstract!Next
    <3>1. call[t] \in Call /\ (call[t].op = "pop" => hand[t] = None)
      BY <2>3 DEF Resume, IInv, TypeOK
    <3>2. PICK n, S : Pass(t, call[t], n, S)
      BY <2>3 DEF Resume
    <3> QED
      BY <2>1, <3>1, <3>2
  <2>4. ASSUME NEW t \in Thread, TaskComplete(t) PROVE Abstract!Next
    <3>1. Abstract!Acknowledge(t)
      BY <2>4 DEF TaskComplete, Abstract!Acknowledge
    <3> QED
      BY <3>1 DEF Abstract!Next
  <2>5. \A t \in Thread : ~TimeOut(t) /\ ~WakeUp(t) /\ ~EnableWaits(t)
    BY DEF TimeOut, WakeUp, EnableWaits
  <2> QED
    BY <2>2, <2>3, <2>4, <2>5 DEF Next
<1> QED
  BY <1>1, <1>2, QueueInvariant, PTL DEF Spec, Delivery, Abstract!Spec
=============================================================================
