---------------------------- MODULE QueuedMutexes ----------------------------
(***************************************************************************)
(* A mutex with its wait queue.  A thread waits only while another holds   *)
(* the mutex, the threads are woken in the order they came, one at each    *)
(* release, and whoever is woken competes for the mutex with the others.   *)
(***************************************************************************)
EXTENDS Sequences

CONSTANTS Thread, Mutex, NULL

VARIABLES holder,  \* as in Mutexes
          queue    \* the threads that wait for each mutex, in order

vars == << holder, queue >>

M == INSTANCE Mutexes

Init == M!Init /\ queue = [m \in Mutex |-> << >>]

Queued(t) == \E m \in Mutex : \E i \in DOMAIN queue[m] : queue[m][i] = t

Acquire(t, m) == ~ Queued(t) /\ M!Acquire(t, m) /\ UNCHANGED queue

Wait(t, m) ==
  /\ ~ Queued(t)
  /\ holder[m] \notin {NULL, t}
  /\ queue' = [queue EXCEPT ![m] = Append(@, t)]
  /\ UNCHANGED holder

Release(t, m) ==
  /\ M!Release(t, m)
  /\ queue' = [queue EXCEPT ![m] = IF @ = << >> THEN @ ELSE Tail(@)]

Next ==
  \E t \in Thread, m \in Mutex : Acquire(t, m) \/ Wait(t, m) \/ Release(t, m)

Spec == Init /\ [][Next]_vars
=============================================================================
