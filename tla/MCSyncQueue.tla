---------------------------- MODULE MCSyncQueue ----------------------------
(* An instance of SyncQueue for TLC. *)
EXTENDS SyncQueue

CONSTANTS t1, t2, t3, a, b

ThreeThreads == {t1, t2, t3}

\* Which item a thread has popped decides no later step, and no property but
\* Delivery, which sees it in the step that pops it, depends on it.
AnyItemInHand == <<q, nWaiting, nTasksPending, cancel, call, asleep, Busy>>
=============================================================================
