---------------------------- MODULE BoundedQueue ----------------------------
(***************************************************************************)
(* What a SyncQueue promises to the threads that use it: a bounded FIFO    *)
(* queue of work items.  Each item that was accepted is handed to exactly  *)
(* one thread, in order, and stays outstanding until that thread           *)
(* acknowledges it.  How the threads wait for each other is left out.      *)
(***************************************************************************)
EXTENDS Naturals, Sequences

CONSTANTS Thread, Item, QMax, None

VARIABLES q,        \* the items that wait
          hand      \* the item each thread is working on

Init == q = <<>> /\ hand = [t \in Thread |-> None]

Put(x) ==
    /\ Len(q) < QMax
    /\ q' = Append(q, x)
    /\ UNCHANGED hand

Take(t) ==
    /\ q # <<>> /\ hand[t] = None
    /\ hand' = [hand EXCEPT ![t] = Head(q)]
    /\ q' = Tail(q)

Acknowledge(t) ==
    /\ hand[t] # None
    /\ hand' = [hand EXCEPT ![t] = None]
    /\ UNCHANGED q

Next == \/ \E x \in Item : Put(x)
        \/ \E t \in Thread : Take(t) \/ Acknowledge(t)

Spec == Init /\ [][Next]_<<q, hand>>
=============================================================================
