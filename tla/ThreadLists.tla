----------------------------- MODULE ThreadLists -----------------------------
(***************************************************************************)
(* The lists of ThreadQueues as sequences of their nodes: when a sequence  *)
(* is what the pointers of a list say, and when a family of them has each  *)
(* thread in one place.                                                    *)
(***************************************************************************)
EXTENDS ThreadQueues, Sequences

\* A list is a queue or the wait queue of a mutex.
OfQueue(q) == << "queue", q >>
OfMutex(m) == << "mutex", m >>

List == {OfQueue(q) : q \in Queue} \cup {OfMutex(m) : m \in Mutex}

\* front and next of a queue say x, and its last next is NULL.
QueueHolds(h, q, x) ==
  /\ x \in Seq(Thread)
  /\ h.front[q] = IF x = << >> THEN NULL ELSE x[1]
  /\ \A k \in 1 .. Len(x) : h.next[x[k]] = IF k = Len(x) THEN NULL ELSE x[k + 1]

\* A mutex counts its nodes; the next of the last one is stale.
MutexHolds(h, m, x) ==
  /\ x \in Seq(Thread) /\ Len(x) = h.wait[m].numNodes
  /\ h.wait[m].front = IF x = << >> THEN NULL ELSE x[1]
  /\ x # << >> => h.wait[m].rear = x[Len(x)]
  /\ \A k \in 1 .. Len(x) - 1 : h.next[x[k]] = x[k + 1]

Linked(h, c) ==
  /\ \A q \in Queue : QueueHolds(h, q, c[OfQueue(q)])
  /\ \A m \in Mutex : MutexHolds(h, m, c[OfMutex(m)])

\* Nobody is in two lists, or in one of them twice.
Once(c) ==
  \A l, r \in List : \A j \in 1 .. Len(c[l]), k \in 1 .. Len(c[r]) :
    c[l][j] = c[r][k] => l = r /\ j = k

\* No thread is twice in x.
NoneTwice(x) == \A j, k \in 1 .. Len(x) : x[j] = x[k] => j = k

In(x, t) == \E k \in 1 .. Len(x) : x[k] = t

Among(c, t) == \E l \in List : In(c[l], t)

RearIs(h, q, x) == x # << >> => h.rear[q] = x[Len(x)]

\* The next field of a thread that runs leads into the queue it came from.
NextIs(h, c, t) ==
  \/ h.next[t] = NULL
  \/ In(c[OfQueue(Running)], h.next[t])
  \/ In(c[OfQueue(Low)], h.next[t])
=============================================================================
