------------------------- MODULE SchedulerRefinement -------------------------
(***************************************************************************)
(* Scheduler implements Mutexes, and, while the alarm leaves library calls *)
(* alone, QueuedMutexes.  A thread holds m from the test-and-set that      *)
(* found it free to the first step of its unlock, which takes the next     *)
(* waiter off the queue; the flag is cleared a step later.                 *)
(***************************************************************************)
EXTENDS Scheduler, Sequences

Owners ==
  [m \in Mutex |->
     {t \in Thread : InCritical(t, m) /\ ~ (pc[t] = "unlock_clear" /\ mutex[t] = m)}]

Holder ==
  [m \in Mutex |-> IF Owners[m] = {} THEN NULL ELSE CHOOSE t \in Owners[m] : TRUE]

\* The linked list of each mutex as a sequence, cut at numNodes.
WaitSequence ==
  [m \in Mutex |->
     LET walk == WalkFrom(heap, heap.wait[m].front)
     IN  [i \in 1 .. heap.wait[m].numNodes |-> walk[i - 1]]]

Locks  == INSTANCE Mutexes WITH holder <- Holder
Queued == INSTANCE QueuedMutexes WITH holder <- Holder, queue <- WaitSequence

\* my_pthread_mutex_lock and unlock give every mutex to one thread at a time,
\* and nothing but its own unlock takes it from a thread, wherever the alarm
\* switches threads inside them.
LocksExclude == Locks!Spec

\* The wait queues, linked through the next field that all lists share, are
\* first in, first out, and a thread is queued only behind a holder that will
\* wake it.
LocksQueue == Queued!Spec
=============================================================================
