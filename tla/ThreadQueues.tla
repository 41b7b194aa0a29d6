---------------------------- MODULE ThreadQueues ----------------------------
(***************************************************************************)
(* The linked lists of my_pthread.c.  Every thread has one next field, so  *)
(* a thread belongs to whatever list reaches it through next.  The lists   *)
(* are the four entries of pthreadQueue (0 running, 1 low priority,        *)
(* 2 waiting for a join, 3 dead) and the wait queue of every mutex.        *)
(*                                                                         *)
(* A heap is the record of these pointers; each operator maps the heap     *)
(* before a function of the source to the heap after it.  The pointers are *)
(* kept, rather than a sequence per queue, because the source is wrong in  *)
(* pointers: rear is stale after a queue was emptied or lost its tail, and *)
(* next is stale after a dequeue.  numNodes of pthreadQueue and prev are   *)
(* written and never read, and are left out.                               *)
(***************************************************************************)
EXTENDS Integers, FiniteSets

CONSTANTS Thread,  \* the my_pthread_t structures of the program
          Mutex,   \* the my_pthread_mutex_t structures, by locking order
          NULL     \* the null pointer

ASSUME ThreadsFinite == IsFiniteSet(Thread)
ASSUME NullIsNoThread == NULL \notin Thread
ASSUME MutexesOrdered == Mutex \subseteq Nat

Running == 0
Low     == 1
Waiting == 2
Dead    == 3
Queue   == 0 .. 3

Pointer == Thread \cup {NULL}

Heap == [next  : [Thread -> Pointer],
         front : [Queue -> Pointer],
         rear  : [Queue -> Pointer],
         wait  : [Mutex -> [front : Pointer, rear : Pointer, numNodes : Nat]]]

\* What initQueue and my_pthread_mutex_init leave: every list empty.
initQueue == [next  |-> [t \in Thread |-> NULL],
              front |-> [q \in Queue |-> NULL],
              rear  |-> [q \in Queue |-> NULL],
              wait  |-> [m \in Mutex |->
                           [front |-> NULL, rear |-> NULL, numNodes |-> 0]]]

-----------------------------------------------------------------------------
(* Walking a list. *)

\* The pointers met on a walk from p, the first Cardinality(Thread) + 1 of
\* them: a walk that ends at all has reached NULL by then.
Successor(h, p) == IF p = NULL THEN NULL ELSE h.next[p]

WalkFrom(h, p) ==
  LET at[k \in 0 .. Cardinality(Thread)] ==
        IF k = 0 THEN p ELSE Successor(h, at[k - 1])
  IN  at

Walk(h, q) == WalkFrom(h, h.front[q])

Nodes(walk) == {walk[k] : k \in DOMAIN walk} \ {NULL}

\* A loop over the list would come to its end.
Ends(walk) == walk[Cardinality(Thread)] = NULL

\* The position k at which the walk first meets a member of S.
IsFirst(walk, S, k) ==
  /\ walk[k] \in S
  /\ \A j \in 0 .. k - 1 : walk[j] \notin S

Meets(walk, S)      == \E k \in DOMAIN walk : IsFirst(walk, S, k)
FirstAt(walk, S)    == CHOOSE k \in DOMAIN walk : IsFirst(walk, S, k)
FirstIn(walk, S)    == walk[FirstAt(walk, S)]
FirstAfter(walk, S) == IF FirstAt(walk, S) = 0
                       THEN NULL ELSE walk[FirstAt(walk, S) - 1]

-----------------------------------------------------------------------------
(* enqueue and dequeue on pthreadQueue. *)

\* Mutant of enqueue: "temp->next = NULL" is forgotten.
enqueue_KeepsNext(h, t, q) ==
  IF h.front[q] = NULL
  THEN [h EXCEPT !.front[q] = t, !.rear[q] = t]
  ELSE [h EXCEPT !.next[h.rear[q]] = t, !.rear[q] = t]

enqueue(h, t, q) ==
  LET cut == [h EXCEPT !.next[t] = NULL]
  IN  IF h.front[q] = NULL
      THEN [cut EXCEPT !.front[q] = t, !.rear[q] = t]
      ELSE [cut EXCEPT !.next[h.rear[q]] = t, !.rear[q] = t]

\* The caller keeps front[q]; neither its next nor rear[q] is touched, for
\* "rear == NULL" at the end of the source's dequeue is a comparison.
dequeue(h, q) == [h EXCEPT !.front[q] = h.next[h.front[q]]]

\* The thread x met on a walk of q, after the node p (NULL at the front),
\* is bypassed.  rear[q] stays even when x was the last.
unlink(h, q, p, x) ==
  IF p = NULL
  THEN [h EXCEPT !.front[q] = h.next[x]]
  ELSE [h EXCEPT !.next[p] = h.next[x]]

\* Mutant of pushFront: the case of an empty queue 0 is forgotten.
pushFront_NotWhenEmpty(h, x) ==
  IF h.front[Running] = NULL
  THEN [h EXCEPT !.next[x] = NULL]
  ELSE [h EXCEPT !.next[x] = h.front[Running], !.front[Running] = x]

\* The waiter x becomes the head of the running queue; rear is not set when
\* the queue was empty.
pushFront(h, x) ==
  IF h.front[Running] = NULL
  THEN [h EXCEPT !.front[Running] = x, !.next[x] = NULL]
  ELSE IF x # h.front[Running]
       THEN [h EXCEPT !.next[x] = h.front[Running], !.front[Running] = x]
       ELSE h

-----------------------------------------------------------------------------
(* gen_enqueue and gen_dequeue on the wait queue of a mutex. *)

\* Mutant of gen_enqueue: the last to wait is the first to be woken.
gen_enqueue_Lifo(h, m, t) ==
  LET w == h.wait[m]
  IN  IF w.numNodes = 0
      THEN [h EXCEPT !.wait[m] = [front |-> t, rear |-> t, numNodes |-> 1]]
      ELSE [h EXCEPT !.next[t] = w.front,
                     !.wait[m] =
                       [front |-> t, rear |-> w.rear, numNodes |-> w.numNodes + 1]]

\* next of the new tail is left as it was.
gen_enqueue(h, m, t) ==
  LET w == h.wait[m]
  IN  IF w.numNodes = 0
      THEN [h EXCEPT !.wait[m] = [front |-> t, rear |-> t, numNodes |-> 1]]
      ELSE [h EXCEPT !.next[w.rear] = t,
                     !.wait[m] =
                       [front |-> w.front, rear |-> t, numNodes |-> w.numNodes + 1]]

\* Mutant of gen_dequeue: the last waiter is not told from the others.
gen_dequeue_NoLast(h, m) ==
  LET w == h.wait[m]
  IN  [h EXCEPT !.wait[m] = [front |-> h.next[w.front], rear |-> w.rear,
                             numNodes |-> w.numNodes - 1]]

gen_dequeue(h, m) ==
  LET w == h.wait[m]
  IN  IF w.numNodes = 0 THEN h
      ELSE IF w.numNodes = 1
      THEN [h EXCEPT !.wait[m] = [front |-> NULL, rear |-> NULL, numNodes |-> 0]]
      ELSE [h EXCEPT !.wait[m] =
                       [front |-> h.next[w.front], rear |-> w.rear,
                        numNodes |-> w.numNodes - 1]]
=============================================================================
