-------------------------- MODULE ThreadListsProofs -------------------------
(***************************************************************************)
(* What the list operations of my_pthread.c do, for all sets of threads and *)
(* mutexes, to lists that are right: each is the sequence of nodes c gives it, *)
(* linked by next, nobody is in two of them or twice in one, and no way along *)
(* next fields leads in a circle (Chained).  The operations then are those on *)
(* sequences: With, Without and Ahead.                                     *)
(*                                                                         *)
(* A next field that is not cleared leads out of its list into another, so the *)
(* walks of the library are shown to end by ranks: numbers that fall along *)
(* next, whichever list it leads into.                                     *)
(***************************************************************************)
EXTENDS ThreadLists, Induction

-----------------------------------------------------------------------------
(* The operators of ThreadQueues keep a heap a heap. *)

LEMMA InitHeap == initQueue \in Heap
  BY DEF initQueue, Heap, Pointer

LEMMA EnqueueHeap ==
  ASSUME NEW h \in Heap, NEW t \in Thread, NEW q \in Queue
  PROVE  enqueue(h, t, q) \in Heap
  BY DEF enqueue, Heap, Pointer

\* enqueue, pointer by pointer, on an empty queue and on another.
LEMMA EnqueueEmpty ==
  ASSUME NEW h \in Heap, NEW t \in Thread, NEW q \in Queue, h.front[q] = NULL
  PROVE  /\ \A u \in Thread :
              enqueue(h, t, q).next[u] = IF u = t THEN NULL ELSE h.next[u]
         /\ \A r \in Queue :
              /\ enqueue(h, t, q).front[r] = IF r = q THEN t ELSE h.front[r]
              /\ enqueue(h, t, q).rear[r]  = IF r = q THEN t ELSE h.rear[r]
  BY DEF enqueue, Heap

LEMMA EnqueueBehind ==
  ASSUME NEW h \in Heap, NEW t \in Thread, NEW q \in Queue, h.front[q] # NULL
  PROVE  /\ \A u \in Thread :
              enqueue(h, t, q).next[u] = IF u = h.rear[q] THEN t
                                         ELSE IF u = t THEN NULL ELSE h.next[u]
         /\ \A r \in Queue :
              /\ enqueue(h, t, q).front[r] = h.front[r]
              /\ enqueue(h, t, q).rear[r]  = IF r = q THEN t ELSE h.rear[r]
  BY DEF enqueue, Heap

LEMMA DequeueHeap ==
  ASSUME NEW h \in Heap, NEW q \in Queue, h.front[q] # NULL
  PROVE  dequeue(h, q) \in Heap
  BY DEF dequeue, Heap, Pointer

LEMMA UnlinkHeap ==
  ASSUME NEW h \in Heap, NEW q \in Queue, NEW p, NEW x \in Thread
  PROVE  unlink(h, q, p, x) \in Heap
  BY DEF unlink, Heap, Pointer

LEMMA QueueNumbers == Running \in Queue /\ Low \in Queue /\ Waiting \in Queue /\ Dead \in Queue
  BY DEF Queue, Running, Low, Waiting, Dead

LEMMA PushFrontHeap ==
  ASSUME NEW h \in Heap, NEW x \in Thread
  PROVE  pushFront(h, x) \in Heap
<1>1. CASE h.front[Running] = NULL
  BY <1>1, QueueNumbers DEF pushFront, Heap, Pointer
<1>2. CASE h.front[Running] # NULL /\ x # h.front[Running]
  BY <1>2, QueueNumbers DEF pushFront, Heap, Pointer
<1>3. CASE h.front[Running] # NULL /\ x = h.front[Running]
  BY <1>3 DEF pushFront
<1> QED
  BY <1>1, <1>2, <1>3

\* The wait queue of one mutex is a record of its own.
WaitQueue == [front : Pointer, rear : Pointer, numNodes : Nat]

LEMMA SetWait ==
  ASSUME NEW h \in Heap, NEW m \in Mutex, NEW w \in WaitQueue
  PROVE  [h EXCEPT !.wait[m] = w] \in Heap
  BY DEF WaitQueue, Heap

LEMMA SetNext ==
  ASSUME NEW h \in Heap, NEW p, NEW t \in Pointer
  PROVE  [h EXCEPT !.next[p] = t] \in Heap
  BY DEF Heap

LEMMA GenEnqueueHeap ==
  ASSUME NEW h \in Heap, NEW m \in Mutex, NEW t \in Thread
  PROVE  gen_enqueue(h, m, t) \in Heap
<1> DEFINE w == h.wait[m]
<1>1. w \in WaitQueue /\ t \in Pointer /\ NULL \in Pointer
  BY DEF WaitQueue, Heap, Pointer
<1>2. [front |-> t, rear |-> t, numNodes |-> 1] \in WaitQueue
  BY <1>1 DEF WaitQueue
<1>3. [front |-> w.front, rear |-> t, numNodes |-> w.numNodes + 1] \in WaitQueue
  BY <1>1 DEF WaitQueue
<1>4. CASE w.numNodes = 0
  BY <1>2, <1>4, SetWait DEF gen_enqueue
<1>5. CASE w.numNodes # 0
  <2>1. [h EXCEPT !.next[w.rear] = t] \in Heap
    BY <1>1, SetNext
  <2>2. [[h EXCEPT !.next[w.rear] = t]
           EXCEPT !.wait[m] = [front |-> w.front, rear |-> t, numNodes |-> w.numNodes + 1]] \in Heap
    BY <2>1, <1>3, SetWait
  <2> QED
    BY <2>2, <1>5 DEF gen_enqueue
<1> QED
  BY <1>4, <1>5

LEMMA GenDequeueHeap ==
  ASSUME NEW h \in Heap, NEW m \in Mutex, h.wait[m].front # NULL
  PROVE  gen_dequeue(h, m) \in Heap
<1> DEFINE w == h.wait[m]
<1>1. w \in WaitQueue /\ NULL \in Pointer
  BY DEF WaitQueue, Heap, Pointer
<1>2. CASE w.numNodes = 0
  BY <1>2 DEF gen_dequeue
<1>3. CASE w.numNodes = 1
  <2>1. [front |-> NULL, rear |-> NULL, numNodes |-> 0] \in WaitQueue
    BY <1>1 DEF WaitQueue
  <2> QED
    BY <2>1, <1>3, SetWait DEF gen_dequeue
<1>4. CASE w.numNodes \notin {0, 1}
  <2>1. h.next[w.front] \in Pointer
    BY <1>1 DEF WaitQueue, Heap, Pointer
  <2>2. [front |-> h.next[w.front], rear |-> w.rear, numNodes |-> w.numNodes - 1] \in WaitQueue
    BY <1>1, <1>4, <2>1 DEF WaitQueue
  <2> QED
    BY <2>2, <1>4, SetWait DEF gen_dequeue
<1> QED
  BY <1>2, <1>3, <1>4

LEMMA FirstInSet ==
  ASSUME NEW walk, NEW S, Meets(walk, S)
  PROVE  FirstIn(walk, S) \in S
  BY DEF Meets, FirstIn, FirstAt, IsFirst

-----------------------------------------------------------------------------
(* Walks. *)

\* The function that Walk and WalkFrom choose exists and is the walk: it starts
\* where it should and follows next.
LEMMA WalkIs ==
  ASSUME NEW h \in Heap, NEW p \in Pointer
  PROVE  /\ Cardinality(Thread) \in Nat
         /\ WalkFrom(h, p) \in [0 .. Cardinality(Thread) -> Pointer]
         /\ WalkFrom(h, p)[0] = p
         /\ \A k \in 1 .. Cardinality(Thread) :
              WalkFrom(h, p)[k] = Successor(h, WalkFrom(h, p)[k - 1])
<1> DEFINE n == Cardinality(Thread)
           turn(f) == [k \in 0 .. n |-> IF k = 0 THEN p ELSE Successor(h, f[k - 1])]
           next == [k \in Nat |-> [x \in Pointer |-> Successor(h, x)]]
<1>1. n \in Nat
  BY ThreadsFinite, FS_CardinalityType
<1>2. \A x \in Pointer : Successor(h, x) \in Pointer
  BY DEF Successor, Heap, Pointer
<1> HIDE DEF n
<1>3. PICK at : IsWalk(at, Pointer, p, next, n)
  BY <1>1, <1>2, WalkExists
<1>4. \A k \in 1 .. n : at[k] = Successor(h, at[k - 1])
  <2> TAKE k \in 1 .. n
  <2>1. k \in Nat /\ k - 1 \in 0 .. n
    BY <1>1
  <2> HIDE DEF next
  <2>2. at[k] = next[k][at[k - 1]] /\ at[k - 1] \in Pointer
    BY <1>3, <2>1 DEF IsWalk
  <2> QED
    BY <2>1, <2>2 DEF next
<1>5. at = turn(at)
  <2>1. at \in [0 .. n -> Pointer] /\ at[0] = p
    BY <1>3 DEF IsWalk
  <2>2. \A k \in 0 .. n : at[k] = turn(at)[k]
    BY <1>1, <1>4, <2>1
  <2> QED
    BY <2>1, <2>2
<1>6. WalkFrom(h, p) = CHOOSE f : f = turn(f)
  BY DEF WalkFrom, n
<1> DEFINE w == WalkFrom(h, p)
<1>7. w = turn(w)
  <2> HIDE DEF turn
  <2> QED
    BY <1>5, <1>6
<1> HIDE DEF w
<1>8. DOMAIN w = 0 .. n /\ w[0] = p /\ \A k \in 1 .. n : w[k] = Successor(h, w[k - 1])
  <2>1. \A k \in 0 .. n : w[k] = IF k = 0 THEN p ELSE Successor(h, w[k - 1])
    BY <1>7
  <2> QED
    BY <1>1, <1>7, <2>1
<1>9. \A k \in 0 .. n : w[k] \in Pointer
  <2> DEFINE T == {k \in Nat : k \in 0 .. n => w[k] \in Pointer}
  <2>1. 0 \in T
    BY <1>8
  <2>2. ASSUME NEW k \in Nat, k \in T PROVE k + 1 \in T
    <3> SUFFICES ASSUME k + 1 \in 0 .. n PROVE w[k + 1] \in Pointer
      OBVIOUS
    <3>1. w[k] \in Pointer /\ w[k + 1] = Successor(h, w[k])
      BY <1>1, <1>8, <2>2
    <3> QED
      BY <1>2, <3>1
  <2> HIDE DEF T
  <2>3. Nat \subseteq T
    BY <2>1, <2>2, SetInduction
  <2> QED
    BY <1>1, <2>3 DEF T
<1>10. w \in [0 .. n -> Pointer]
  <2>1. w = [k \in 0 .. n |-> w[k]]
    BY <1>7
  <2> QED
    BY <1>9, <2>1
<1> QED
  BY <1>1, <1>8, <1>10 DEF w, n

\* What Len and DOMAIN are, ...
LEMMA SeqIs ==
  ASSUME NEW T, NEW x \in Seq(T)
  PROVE  /\ Len(x) \in Nat /\ DOMAIN x = 1 .. Len(x) /\ x \in [1 .. Len(x) -> T]
         /\ x = << >> <=> Len(x) = 0
         /\ x # << >> => 1 \in 1 .. Len(x) /\ Len(x) \in 1 .. Len(x)
  OBVIOUS

\* ... what Append does, ...
LEMMA AppendIs ==
  ASSUME NEW T, NEW x \in Seq(T), NEW t \in T
  PROVE  /\ Append(x, t) \in Seq(T) /\ Len(Append(x, t)) = Len(x) + 1
         /\ \A k \in 1 .. Len(x) : Append(x, t)[k] = x[k]
         /\ Append(x, t)[Len(x) + 1] = t
         /\ Append(x, t) # << >>
  OBVIOUS

\* ... and Tail.
LEMMA TailIs ==
  ASSUME NEW T, NEW x \in Seq(T), x # << >>
  PROVE  /\ Tail(x) \in Seq(T) /\ Len(Tail(x)) = Len(x) - 1
         /\ \A k \in 1 .. Len(x) - 1 : Tail(x)[k] = x[k + 1]
  OBVIOUS

\* A sequence without repetitions is no longer than there are threads.
LEMMA ShortSequence ==
  ASSUME NEW x \in Seq(Thread), NoneTwice(x)
  PROVE  Len(x) <= Cardinality(Thread)
  BY SeqIs, ThreadsFinite, Distinct DEF NoneTwice

\* The walk over a queue meets its nodes, and then NULL.
LEMMA WalkMeets ==
  ASSUME NEW h \in Heap, NEW q \in Queue, NEW x, QueueHolds(h, q, x), NoneTwice(x)
  PROVE  /\ Walk(h, q) \in [0 .. Cardinality(Thread) -> Pointer]
         /\ Cardinality(Thread) \in Nat /\ Len(x) \in 0 .. Cardinality(Thread)
         /\ \A k \in 0 .. Cardinality(Thread) :
              Walk(h, q)[k] = IF k < Len(x) THEN x[k + 1] ELSE NULL
<1> DEFINE n == Cardinality(Thread)
           w == Walk(h, q)
<1>1. x \in Seq(Thread)
  BY DEF QueueHolds
<1>2. Len(x) \in Nat /\ x \in [1 .. Len(x) -> Thread] /\ (x = << >> <=> Len(x) = 0)
  BY <1>1, SeqIs
<1>3. h.front[q] \in Pointer
  BY DEF Heap
<1>4. /\ n \in Nat /\ w \in [0 .. n -> Pointer] /\ w[0] = h.front[q]
      /\ \A k \in 1 .. n : w[k] = Successor(h, w[k - 1])
  BY <1>3, WalkIs DEF Walk
<1>5. Len(x) <= n
  BY <1>1, ShortSequence
<1> HIDE DEF n, w
<1> DEFINE T == {k \in Nat : k \in 0 .. n => w[k] = IF k < Len(x) THEN x[k + 1] ELSE NULL}
<1>6. 0 \in T
  <2>1. w[0] = IF x = << >> THEN NULL ELSE x[0 + 1]
    BY <1>4 DEF QueueHolds
  <2>2. x = << >> <=> ~ (0 < Len(x))
    BY <1>2
  <2> QED
    BY <2>1, <2>2
<1>7. ASSUME NEW k \in Nat, k \in T PROVE k + 1 \in T
  <2> SUFFICES ASSUME k + 1 \in 0 .. n
               PROVE  w[k + 1] = IF k + 1 < Len(x) THEN x[(k + 1) + 1] ELSE NULL
    OBVIOUS
  <2>1. w[k] = (IF k < Len(x) THEN x[k + 1] ELSE NULL) /\ w[k + 1] = Successor(h, w[k])
    BY <1>4, <1>7
  <2>2. CASE k < Len(x)
    <3>1. k + 1 \in 1 .. Len(x) /\ x[k + 1] \in Thread
      BY <1>2, <2>2
    <3>2. h.next[x[k + 1]] = IF k + 1 = Len(x) THEN NULL ELSE x[(k + 1) + 1]
      BY <3>1 DEF QueueHolds
    <3>3. w[k + 1] = h.next[x[k + 1]]
      BY <2>1, <2>2, <3>1, NullIsNoThread DEF Successor
    <3>4. k + 1 = Len(x) <=> ~ (k + 1 < Len(x))
      <4>1. Len(x) \in Nat /\ k + 1 <= Len(x)
        BY <1>2, <2>2
      <4> HIDE DEF T
      <4> QED
        BY <4>1
    <3> HIDE DEF T
    <3> QED
      BY <3>2, <3>3, <3>4
  <2>3. CASE ~ (k < Len(x))
    BY <1>2, <2>1, <2>3 DEF Successor
  <2> QED
    BY <2>2, <2>3
<1> HIDE DEF T
<1>8. Nat \subseteq T
  BY <1>6, <1>7, SetInduction
<1>9. \A k \in 0 .. n : w[k] = IF k < Len(x) THEN x[k + 1] ELSE NULL
  BY <1>4, <1>8 DEF T
<1> QED
  BY <1>2, <1>4, <1>5, <1>9 DEF n, w

\* FirstAt finds the first.
LEMMA FirstAtIs ==
  ASSUME NEW walk, NEW n \in Nat, DOMAIN walk = 0 .. n, NEW S,
         NEW k \in 0 .. n, walk[k] \in S, \A j \in 0 .. k - 1 : walk[j] \notin S
  PROVE  Meets(walk, S) /\ FirstAt(walk, S) = k
<1>1. IsFirst(walk, S, k)
  BY DEF IsFirst
<1>2. ASSUME NEW j \in 0 .. n, IsFirst(walk, S, j) PROVE j = k
  <2>1. ~ (j < k) /\ ~ (k < j)
    BY <1>1, <1>2 DEF IsFirst
  <2> QED
    BY <2>1
<1> QED
  BY <1>1, <1>2 DEF Meets, FirstAt

\* A walk that meets S meets it first somewhere.
LEMMA MeetsSome ==
  ASSUME NEW walk, NEW n \in Nat, DOMAIN walk = 0 .. n, NEW S,
         NEW k \in 0 .. n, walk[k] \in S
  PROVE  Meets(walk, S)
<1> DEFINE T == {j \in Nat : j \in 0 .. n /\ walk[j] \in S}
<1>1. k \in T /\ T \in SUBSET Nat
  OBVIOUS
<1>2. PICK j \in T : \A m \in T : j <= m
  BY <1>1, Least
<1>3. j \in 0 .. n /\ walk[j] \in S
  BY <1>2
<1>4. \A i \in 0 .. j - 1 : walk[i] \notin S
  BY <1>2, <1>3
<1> QED
  BY <1>3, <1>4, FirstAtIs

-----------------------------------------------------------------------------
(* The lists, and what the operations on the heap do to them. *)

\* Each queue and each mutex has a list of its own.
LEMMA ListNames ==
  /\ \A q \in Queue : OfQueue(q) \in List
  /\ \A m \in Mutex : OfMutex(m) \in List
  /\ \A q, r : OfQueue(q) = OfQueue(r) <=> q = r
  /\ \A m, n : OfMutex(m) = OfMutex(n) <=> m = n
  /\ \A q, m : OfQueue(q) # OfMutex(m)
  /\ \A l \in List : (\E q \in Queue : l = OfQueue(q)) \/ (\E m \in Mutex : l = OfMutex(m))
<1>1. \A q, m : OfQueue(q) # OfMutex(m)
  BY DEF OfQueue, OfMutex
<1> QED
  BY <1>1 DEF List, OfQueue, OfMutex

With(c, l, t)  == [c EXCEPT ![l] = Append(c[l], t)]
Without(c, l)  == [c EXCEPT ![l] = Tail(c[l])]

\* Numbers that get smaller along next: no walk goes in a circle.
Falls(next, r) == \A t \in Thread : next[t] # NULL => r[next[t]] < r[t]
Ranked(next)   == \E r \in [Thread -> Nat] : Falls(next, r)

Chained(h, c) ==
  /\ h \in Heap /\ c \in [List -> Seq(Thread)]
  /\ Linked(h, c) /\ Once(c) /\ Ranked(h.next)

\* A node of a list is in it.
LEMMA InIs ==
  ASSUME NEW c, NEW l \in List, NEW k \in 1 .. Len(c[l])
  PROVE  In(c[l], c[l][k]) /\ Among(c, c[l][k])
  BY DEF In, Among

\* Two places with the same node are one, ...
LEMMA OnceIs ==
  ASSUME NEW c, Once(c), NEW l \in List, NEW r \in List,
         NEW j \in 1 .. Len(c[l]), NEW k \in 1 .. Len(c[r]), c[l][j] = c[r][k]
  PROVE  l = r /\ j = k
  BY DEF Once

\* ... also within one list.
LEMMA OnceEach ==
  ASSUME NEW c, Once(c), NEW l \in List
  PROVE  NoneTwice(c[l])
  BY DEF Once, NoneTwice

\* A list stays what it is while its head and its next fields do.
LEMMA QueueHoldsStill ==
  ASSUME NEW h, NEW q, NEW x, QueueHolds(h, q, x), NEW z, z.front[q] = h.front[q],
         \A k \in 1 .. Len(x) : z.next[x[k]] = h.next[x[k]]
  PROVE  QueueHolds(z, q, x)
  BY DEF QueueHolds

\* So does that of a mutex, whose last next field does not matter.
LEMMA MutexHoldsStill ==
  ASSUME NEW h, NEW m, NEW x, MutexHolds(h, m, x), NEW z, z.wait[m] = h.wait[m],
         \A k \in 1 .. Len(x) - 1 : z.next[x[k]] = h.next[x[k]]
  PROVE  MutexHolds(z, m, x)
  BY DEF MutexHolds

\* Each list is linked as it should be.
LEMMA LinkedIs ==
  ASSUME NEW h, NEW c \in [List -> Seq(Thread)], Linked(h, c)
  PROVE  /\ \A q \in Queue : QueueHolds(h, q, c[OfQueue(q)]) /\ c[OfQueue(q)] \in Seq(Thread)
         /\ \A m \in Mutex : MutexHolds(h, m, c[OfMutex(m)]) /\ c[OfMutex(m)] \in Seq(Thread)
  BY ListNames DEF Linked

\* A list l gets t as its last: nobody is twice in them still.
LEMMA WithOnce ==
  ASSUME NEW c \in [List -> Seq(Thread)], Once(c), NEW l \in List, NEW t \in Thread,
         ~ Among(c, t)
  PROVE  With(c, l, t) \in [List -> Seq(Thread)] /\ Once(With(c, l, t))
<1> DEFINE d == With(c, l, t)
<1>1. c[l] \in Seq(Thread) /\ Len(c[l]) \in Nat
  BY SeqIs
<1>2. Append(c[l], t) \in Seq(Thread)
  BY <1>1, AppendIs
<1>3. \A r \in List : d[r] = IF r = l THEN Append(c[l], t) ELSE c[r]
  BY DEF With
<1>4. d \in [List -> Seq(Thread)]
  BY <1>2 DEF With
<1>5. \A r \in List : \A k \in 1 .. Len(d[r]) :
        \/ (k \in 1 .. Len(c[r]) /\ d[r][k] = c[r][k])
        \/ (r = l /\ k = Len(c[l]) + 1 /\ d[r][k] = t)
  <2> TAKE r \in List
  <2> TAKE k \in 1 .. Len(d[r])
  <2>1. CASE r = l
    <3>1. d[r] = Append(c[l], t)
      BY <1>3, <2>1
    <3> HIDE DEF d
    <3>2. Len(d[r]) = Len(c[l]) + 1 /\ d[r][Len(c[l]) + 1] = t
          /\ \A j \in 1 .. Len(c[l]) : d[r][j] = c[l][j]
      BY <1>1, <3>1, AppendIs
    <3>3. k \in 1 .. Len(c[l]) \/ k = Len(c[l]) + 1
      BY <1>1, <3>2
    <3> QED
      BY <2>1, <3>2, <3>3
  <2>2. CASE r # l
    BY <1>3, <2>2
  <2> QED
    BY <2>1, <2>2
<1>6. \A r \in List : \A k \in 1 .. Len(c[r]) : c[r][k] # t
  BY DEF Among, In
<1> HIDE DEF d
<1>7. Once(d)
  <2> SUFFICES ASSUME NEW q \in List, NEW r \in List, NEW j \in 1 .. Len(d[q]),
                      NEW k \in 1 .. Len(d[r]), d[q][j] = d[r][k]
               PROVE  q = r /\ j = k
    BY DEF Once
  <2>1. CASE j \in 1 .. Len(c[q]) /\ d[q][j] = c[q][j] /\ k \in 1 .. Len(c[r]) /\ d[r][k] = c[r][k]
    <3>1. c[q][j] = c[r][k]
      BY <2>1
    <3> QED
      BY <2>1, <3>1, OnceIs
  <2>2. CASE d[q][j] = t \/ d[r][k] = t
    <3>1. d[q][j] = t /\ d[r][k] = t
      BY <2>2
    <3>2. q = l /\ j = Len(c[l]) + 1
      BY <1>5, <1>6, <3>1
    <3>3. r = l /\ k = Len(c[l]) + 1
      BY <1>5, <1>6, <3>1
    <3> QED
      BY <3>2, <3>3
  <2> QED
    BY <1>5, <2>1, <2>2
<1> QED
  BY <1>4, <1>7 DEF d

\* A list loses its head: it is in none then, and nobody is twice in them.
LEMMA WithoutOnce ==
  ASSUME NEW c \in [List -> Seq(Thread)], Once(c), NEW l \in List, c[l] # << >>
  PROVE  /\ Without(c, l) \in [List -> Seq(Thread)] /\ Once(Without(c, l))
         /\ c[l][1] \in Thread /\ ~ Among(Without(c, l), c[l][1])
         /\ \A u : Among(c, u) <=> Among(Without(c, l), u) \/ u = c[l][1]
<1> DEFINE d == Without(c, l)
<1>1. c[l] \in Seq(Thread) /\ Len(c[l]) \in Nat \ {0} /\ c[l] \in [1 .. Len(c[l]) -> Thread]
  BY SeqIs
<1>2. Tail(c[l]) \in Seq(Thread)
  BY <1>1, TailIs
<1>3. \A r \in List : d[r] = IF r = l THEN Tail(c[l]) ELSE c[r]
  BY DEF Without
<1>4. d \in [List -> Seq(Thread)]
  BY <1>2 DEF Without
<1> HIDE DEF d
<1>5. \A r \in List : \A k \in 1 .. Len(d[r]) :
        \/ (r # l /\ k \in 1 .. Len(c[r]) /\ d[r][k] = c[r][k])
        \/ (r = l /\ k + 1 \in 1 .. Len(c[r]) /\ d[r][k] = c[r][k + 1])
  <2> TAKE r \in List
  <2> TAKE k \in 1 .. Len(d[r])
  <2>1. CASE r = l
    <3>1. d[r] = Tail(c[l])
      BY <1>3, <2>1
    <3>2. Len(d[r]) = Len(c[l]) - 1 /\ \A j \in 1 .. Len(c[l]) - 1 : d[r][j] = c[l][j + 1]
      BY <1>1, <3>1, TailIs
    <3>3. k \in 1 .. Len(c[l]) - 1
      BY <3>2
    <3>4. k + 1 \in 1 .. Len(c[l])
      <4>1. Len(c[l]) \in Nat
        BY <1>1
      <4> QED
        BY <3>3, <4>1
    <3> QED
      BY <2>1, <3>2, <3>3, <3>4
  <2>2. CASE r # l
    BY <1>3, <2>2
  <2> QED
    BY <2>1, <2>2
<1>6. Once(d)
  <2> SUFFICES ASSUME NEW q \in List, NEW r \in List, NEW j \in 1 .. Len(d[q]),
                      NEW k \in 1 .. Len(d[r]), d[q][j] = d[r][k]
               PROVE  q = r /\ j = k
    BY DEF Once
  <2>1. PICK i \in 1 .. Len(c[q]) : d[q][j] = c[q][i] /\ i = IF q = l THEN j + 1 ELSE j
    BY <1>5
  <2>2. PICK m \in 1 .. Len(c[r]) : d[r][k] = c[r][m] /\ m = IF r = l THEN k + 1 ELSE k
    BY <1>5
  <2>3. c[q][i] = c[r][m]
    BY <2>1, <2>2
  <2>4. q = r /\ i = m
    BY <2>3, OnceIs
  <2> QED
    BY <2>1, <2>2, <2>4
<1>7. 1 \in 1 .. Len(c[l]) /\ c[l][1] \in Thread
  BY <1>1
<1>8. ~ Among(d, c[l][1])
  <2> SUFFICES ASSUME NEW r \in List, NEW k \in 1 .. Len(d[r]), d[r][k] = c[l][1] PROVE FALSE
    BY DEF Among, In
  <2>1. PICK m \in 1 .. Len(c[r]) : d[r][k] = c[r][m] /\ m = IF r = l THEN k + 1 ELSE k
    BY <1>5
  <2>2. c[r][m] = c[l][1]
    BY <2>1
  <2>3. r = l /\ m = 1
    BY <1>7, <2>2, OnceIs
  <2>4. k \in Nat \ {0} /\ m = k + 1
    BY <2>1, <2>3
  <2> QED
    BY <2>3, <2>4
<1>9. ASSUME NEW u, Among(d, u) PROVE Among(c, u)
  BY <1>5, <1>9 DEF Among, In
<1>10. ASSUME NEW u, Among(c, u), u # c[l][1] PROVE Among(d, u)
  <2>1. PICK r \in List : \E k \in 1 .. Len(c[r]) : c[r][k] = u
    BY <1>10 DEF Among, In
  <2>2. PICK k \in 1 .. Len(c[r]) : c[r][k] = u
    BY <2>1
  <2>3. CASE r # l
    BY <1>3, <2>2, <2>3 DEF Among, In
  <2>4. CASE r = l
    <3>1. k # 1 /\ k - 1 \in 1 .. Len(c[l]) - 1
      BY <1>1, <1>10, <2>2, <2>4
    <3>2. Len(d[l]) = Len(c[l]) - 1 /\ d[l][k - 1] = c[l][k - 1 + 1]
      BY <1>1, <1>3, <3>1, TailIs
    <3>3. k - 1 \in 1 .. Len(d[l])
      BY <3>1, <3>2
    <3>4. k - 1 + 1 = k
      BY <2>2
    <3>5. d[l][k - 1] = u
      BY <2>2, <2>4, <3>2, <3>4
    <3> QED
      BY <3>3, <3>5 DEF Among, In
  <2> QED
    BY <2>3, <2>4
<1>11. Among(c, c[l][1])
  BY <1>7 DEF Among, In
<1> QED
  BY <1>4, <1>6, <1>7, <1>8, <1>9, <1>10, <1>11 DEF d

\* Who is among the lists then.
LEMMA AmongWith ==
  ASSUME NEW c \in [List -> Seq(Thread)], NEW l \in List, NEW t \in Thread
  PROVE  \A u : Among(With(c, l, t), u) <=> Among(c, u) \/ u = t
<1> DEFINE d == With(c, l, t)
<1>1. c[l] \in Seq(Thread) /\ Len(c[l]) \in Nat
  BY SeqIs
<1>2. /\ \A r \in List : r # l => d[r] = c[r]
      /\ Len(d[l]) = Len(c[l]) + 1 /\ d[l][Len(c[l]) + 1] = t
      /\ \A k \in 1 .. Len(c[l]) : d[l][k] = c[l][k]
  BY <1>1, AppendIs DEF With
<1> HIDE DEF d
<1>3. \A k \in 1 .. Len(d[l]) : k \in 1 .. Len(c[l]) \/ k = Len(c[l]) + 1
  BY <1>1, <1>2
<1>4. Len(c[l]) + 1 \in 1 .. Len(d[l]) /\ \A k \in 1 .. Len(c[l]) : k \in 1 .. Len(d[l])
  BY <1>1, <1>2
<1>5. ASSUME NEW u, Among(d, u) PROVE Among(c, u) \/ u = t
  BY <1>2, <1>3, <1>5 DEF Among, In
<1>6. ASSUME NEW u, Among(c, u) PROVE Among(d, u)
  BY <1>2, <1>4, <1>6 DEF Among, In
<1>7. Among(d, t)
  BY <1>2, <1>4 DEF Among, In
<1> QED
  BY <1>5, <1>6, <1>7 DEF d

-----------------------------------------------------------------------------
(* No walk goes in a circle, whatever next field is written. *)

\* next of u is cleared.
LEMMA RankCut ==
  ASSUME NEW f, Ranked(f), NEW g, \A x \in Thread : g[x] = f[x] \/ g[x] = NULL
  PROVE  Ranked(g)
  BY DEF Ranked, Falls

\* next of u is made v, and no way leads from v to u.
LEMMA RankAdd ==
  ASSUME NEW f \in [Thread -> Pointer], Ranked(f), NEW S, NEW u \in Thread, u \notin S,
         NEW v \in Thread, v \in S, \A x \in Thread : x \in S => f[x] \in S \cup {NULL},
         NEW g, \A x \in Thread : g[x] = IF x = u THEN v ELSE f[x]
  PROVE  Ranked(g)
<1>1. PICK r \in [Thread -> Nat] : Falls(f, r)
  BY DEF Ranked
<1> DEFINE d == [x \in Thread |-> IF x \in S THEN r[x] ELSE r[x] + r[v] + 1]
<1>2. d \in [Thread -> Nat]
  OBVIOUS
<1>3. ASSUME NEW x \in Thread, g[x] # NULL PROVE d[g[x]] < d[x]
  <2>1. r[x] \in Nat /\ r[v] \in Nat
    OBVIOUS
  <2>2. CASE x = u
    <3>1. g[x] = v /\ d[v] = r[v] /\ d[x] = r[x] + r[v] + 1
      BY <2>2
    <3> QED
      BY <2>1, <3>1
  <2>3. CASE x # u
    <3>1. g[x] = f[x] /\ f[x] \in Thread /\ f[x] # NULL
      BY <1>3, <2>3 DEF Pointer
    <3>2. r[f[x]] < r[x] /\ r[f[x]] \in Nat
      BY <1>1, <3>1 DEF Falls
    <3>3. x \in S => f[x] \in S
      BY <3>1
    <3>4. d[x] = (IF x \in S THEN r[x] ELSE r[x] + r[v] + 1)
          /\ d[f[x]] = IF f[x] \in S THEN r[f[x]] ELSE r[f[x]] + r[v] + 1
      BY <3>1
    <3> HIDE DEF d
    <3>5. d[f[x]] < d[x]
      BY <2>1, <3>2, <3>3, <3>4
    <3> QED
      BY <3>1, <3>5
  <2> QED
    BY <2>2, <2>3
<1> HIDE DEF d
<1> QED
  BY <1>2, <1>3 DEF Ranked, Falls

-----------------------------------------------------------------------------
(* The operations, on lists that are right. *)

\* The parts of Chained, for each list.
LEMMA ChainedIs ==
  ASSUME NEW h, NEW c, Chained(h, c)
  PROVE  /\ h \in Heap /\ h.next \in [Thread -> Pointer] /\ Ranked(h.next)
         /\ c \in [List -> Seq(Thread)] /\ Once(c)
         /\ \A q \in Queue : QueueHolds(h, q, c[OfQueue(q)]) /\ c[OfQueue(q)] \in Seq(Thread)
         /\ \A m \in Mutex : MutexHolds(h, m, c[OfMutex(m)]) /\ c[OfMutex(m)] \in Seq(Thread)
         /\ \A l \in List : /\ c[l] \in Seq(Thread) /\ Len(c[l]) \in Nat
                            /\ \A k \in 1 .. Len(c[l]) : c[l][k] \in Thread /\ Among(c, c[l][k])
         /\ \A q \in Queue : h.front[q] = NULL <=> c[OfQueue(q)] = << >>
<1>1. h \in Heap /\ h.next \in [Thread -> Pointer] /\ Ranked(h.next) /\ c \in [List -> Seq(Thread)] /\ Once(c)
  BY DEF Chained, Heap
<1>2. /\ \A q \in Queue : QueueHolds(h, q, c[OfQueue(q)]) /\ c[OfQueue(q)] \in Seq(Thread)
      /\ \A m \in Mutex : MutexHolds(h, m, c[OfMutex(m)]) /\ c[OfMutex(m)] \in Seq(Thread)
  BY <1>1, LinkedIs DEF Chained
<1>3. \A l \in List : /\ c[l] \in Seq(Thread) /\ Len(c[l]) \in Nat
                      /\ \A k \in 1 .. Len(c[l]) : c[l][k] \in Thread /\ Among(c, c[l][k])
  BY <1>1, SeqIs, InIs
<1>4. ASSUME NEW q \in Queue PROVE h.front[q] = NULL <=> c[OfQueue(q)] = << >>
  <2>1. QueueHolds(h, q, c[OfQueue(q)]) /\ OfQueue(q) \in List
    BY <1>2, ListNames
  <2>2. c[OfQueue(q)] # << >> => c[OfQueue(q)][1] \in Thread
    BY <1>1, <2>1, SeqIs
  <2> QED
    BY <2>1, <2>2, NullIsNoThread DEF QueueHolds
<1> QED
  BY <1>1, <1>2, <1>3, <1>4

\* enqueue puts t behind the others, if rear is right.
LEMMA EnqueueChained ==
  ASSUME NEW h, NEW c, Chained(h, c), NEW t \in Thread, ~ Among(c, t), NEW q \in Queue,
         RearIs(h, q, c[OfQueue(q)])
  PROVE  /\ Chained(enqueue(h, t, q), With(c, OfQueue(q), t))
         /\ enqueue(h, t, q).rear[q] = t
         /\ \A r \in Queue : r # q => enqueue(h, t, q).rear[r] = h.rear[r]
         /\ \A u \in Thread : u # t /\ ~ Among(c, u) =>
              enqueue(h, t, q).next[u] = h.next[u]
<1> DEFINE l == OfQueue(q)
           x == c[l]
           z == enqueue(h, t, q)
           d == With(c, l, t)
<1>1. /\ h \in Heap /\ h.next \in [Thread -> Pointer] /\ Ranked(h.next)
      /\ c \in [List -> Seq(Thread)] /\ Once(c) /\ l \in List
      /\ x \in Seq(Thread) /\ Len(x) \in Nat /\ QueueHolds(h, q, x)
      /\ h.front[q] = NULL <=> x = << >>
  BY ChainedIs, ListNames
<1>2. z \in Heap
  BY <1>1, EnqueueHeap
<1>3. d \in [List -> Seq(Thread)] /\ Once(d)
  BY <1>1, WithOnce
<1>4. d[l] = Append(x, t) /\ \A r \in List : r # l => d[r] = c[r]
  BY <1>1 DEF With
<1>5. x # << >> => h.rear[q] = x[Len(x)] /\ Len(x) \in 1 .. Len(x)
  BY <1>1, SeqIs DEF RearIs
<1>6. /\ \A u \in Thread : z.next[u] = IF x # << >> /\ u = x[Len(x)] THEN t
                                       ELSE IF u = t THEN NULL ELSE h.next[u]
      /\ \A r \in Queue : z.front[r] = IF r = q /\ x = << >> THEN t ELSE h.front[r]
      /\ \A r \in Queue : z.rear[r] = IF r = q THEN t ELSE h.rear[r]
  <2>1. CASE x = << >>
    BY <1>1, <2>1, EnqueueEmpty
  <2>2. CASE x # << >>
    BY <1>1, <1>5, <2>2, EnqueueBehind
  <2> QED
    BY <2>1, <2>2
<1>7. z.wait = h.wait
  BY DEF enqueue
<1>8. \A r \in List : \A k \in 1 .. Len(c[r]) :
        c[r][k] \in Thread /\ c[r][k] # t /\ Among(c, c[r][k])
  BY ChainedIs
<1> HIDE DEF z, d
<1>9. ASSUME NEW r \in List, NEW k \in 1 .. Len(c[r]), ~ (r = l /\ k = Len(x))
      PROVE  z.next[c[r][k]] = h.next[c[r][k]]
  <2>1. x # << >> => c[r][k] # x[Len(x)]
    <3> SUFFICES ASSUME x # << >>, c[r][k] = c[l][Len(x)] PROVE FALSE
      OBVIOUS
    <3>1. Len(x) \in 1 .. Len(c[l])
      BY <1>5
    <3> QED
      BY <1>1, <1>9, <3>1, OnceIs
  <2> QED
    BY <1>6, <1>8, <2>1
<1>10. QueueHolds(z, q, d[l])
  <2> DEFINE y == Append(x, t)
  <2>1. y \in Seq(Thread) /\ Len(y) = Len(x) + 1 /\ y # << >> /\ y[Len(x) + 1] = t
        /\ \A k \in 1 .. Len(x) : y[k] = x[k]
    BY <1>1, AppendIs
  <2> HIDE DEF y
  <2>2. z.front[q] = y[1]
    <3>1. CASE x = << >>
      <4>1. Len(x) = 0
        BY <1>1, <3>1, SeqIs
      <4> QED
        BY <1>6, <2>1, <3>1, <4>1
    <3>2. CASE x # << >>
      <4>1. 1 \in 1 .. Len(x)
        BY <1>1, <3>2, SeqIs
      <4> QED
        BY <1>1, <1>6, <2>1, <3>2, <4>1 DEF QueueHolds
    <3> QED
      BY <3>1, <3>2
  <2>3. ASSUME NEW k \in 1 .. Len(y) PROVE z.next[y[k]] = IF k = Len(y) THEN NULL ELSE y[k + 1]
    <3>1. CASE k = Len(x) + 1
      <4>1. x # << >> => t # x[Len(x)]
        BY <1>1, <1>5, <1>8
      <4> QED
        BY <1>6, <2>1, <3>1, <4>1
    <3>2. CASE k = Len(x)
      <4>1. x # << >> /\ k \in 1 .. Len(x)
        BY <1>1, <1>5, <3>2, SeqIs
      <4>2. y[k] = x[Len(x)] /\ y[k + 1] = t /\ k # Len(y) /\ x[Len(x)] \in Thread
        BY <1>1, <1>8, <2>1, <3>2, <4>1
      <4> QED
        BY <1>6, <4>1, <4>2
    <3>3. CASE k < Len(x)
      <4>1. k \in 1 .. Len(x) /\ k + 1 \in 1 .. Len(x) /\ k # Len(x) /\ k # Len(y)
        BY <1>1, <2>1, <3>3
      <4>2. z.next[x[k]] = h.next[x[k]]
        BY <1>1, <1>9, <4>1
      <4>3. h.next[x[k]] = x[k + 1]
        BY <1>1, <4>1 DEF QueueHolds
      <4> QED
        BY <2>1, <4>1, <4>2, <4>3
    <3>4. k = Len(x) + 1 \/ k = Len(x) \/ k < Len(x)
      BY <1>1, <2>1
    <3> QED
      BY <3>1, <3>2, <3>3, <3>4
  <2>4. d[l] = y
    BY <1>4 DEF y
  <2> QED
    BY <2>1, <2>2, <2>3, <2>4 DEF QueueHolds
<1>11. ASSUME NEW r \in Queue, r # q PROVE QueueHolds(z, r, d[OfQueue(r)])
  <2>1. OfQueue(r) \in List /\ OfQueue(r) # l
    BY <1>11, ListNames
  <2>2. d[OfQueue(r)] = c[OfQueue(r)]
    BY <1>4, <2>1
  <2>3. \A k \in 1 .. Len(c[OfQueue(r)]) : z.next[c[OfQueue(r)][k]] = h.next[c[OfQueue(r)][k]]
    BY <1>9, <2>1
  <2>4. QueueHolds(h, r, c[OfQueue(r)]) /\ z.front[r] = h.front[r]
    BY <1>6, <1>11, ChainedIs
  <2> QED
    BY <2>2, <2>3, <2>4, QueueHoldsStill
<1>12. ASSUME NEW m \in Mutex PROVE MutexHolds(z, m, d[OfMutex(m)])
  <2>1. OfMutex(m) \in List /\ OfMutex(m) # l
    BY ListNames
  <2>2. d[OfMutex(m)] = c[OfMutex(m)] /\ Len(c[OfMutex(m)]) \in Nat
    BY <1>1, <1>4, <2>1, SeqIs
  <2>3. \A k \in 1 .. Len(c[OfMutex(m)]) - 1 : k \in 1 .. Len(c[OfMutex(m)])
    BY <2>2
  <2>4. \A k \in 1 .. Len(c[OfMutex(m)]) - 1 : z.next[c[OfMutex(m)][k]] = h.next[c[OfMutex(m)][k]]
    BY <1>9, <2>1, <2>3
  <2>5. MutexHolds(h, m, c[OfMutex(m)]) /\ z.wait[m] = h.wait[m]
    BY <1>7, ChainedIs
  <2> QED
    BY <2>2, <2>4, <2>5, MutexHoldsStill
<1>13. Ranked(z.next)
  <2> DEFINE f == [u \in Thread |-> IF u = t THEN NULL ELSE h.next[u]]
  <2>1. f \in [Thread -> Pointer] /\ Ranked(f)
    <3>1. f \in [Thread -> Pointer]
      BY <1>1 DEF Pointer
    <3>2. \A u \in Thread : f[u] = h.next[u] \/ f[u] = NULL
      OBVIOUS
    <3> HIDE DEF f
    <3> QED
      BY <1>1, <3>1, <3>2, RankCut
  <2>2. CASE x = << >>
    <3>1. \A u \in Thread : z.next[u] = h.next[u] \/ z.next[u] = NULL
      BY <1>6, <2>2
    <3> QED
      BY <1>1, <3>1, RankCut
  <2>3. CASE x # << >>
    <3> DEFINE w == x[Len(x)]
               S == {t}
    <3>1. w \in Thread /\ w \notin S
      BY <1>1, <1>5, <1>8, <2>3
    <3>2. t \in S /\ \A u \in Thread : u \in S => f[u] \in S \cup {NULL}
      OBVIOUS
    <3>3. \A u \in Thread : z.next[u] = IF u = w THEN t ELSE f[u]
      BY <1>6, <2>3
    <3> HIDE DEF f, S, w
    <3> QED
      BY <2>1, <3>1, <3>2, <3>3, RankAdd
  <2> QED
    BY <2>2, <2>3
<1>14. Linked(z, d)
  BY <1>10, <1>11, <1>12 DEF Linked
<1>15. Chained(z, d)
  BY <1>2, <1>3, <1>13, <1>14 DEF Chained
<1>16. ASSUME NEW u \in Thread, u # t, ~ Among(c, u) PROVE z.next[u] = h.next[u]
  <2>1. x # << >> => u # x[Len(x)]
    BY <1>1, <1>5, <1>8, <1>16
  <2> QED
    BY <1>6, <1>16, <2>1
<1> QED
  BY <1>6, <1>15, <1>16 DEF z, d

\* The head of a queue is taken, by dequeue or by unlink.
LEMMA TakeChained ==
  ASSUME NEW h, NEW c, Chained(h, c), NEW q \in Queue, NEW x, x = c[OfQueue(q)], x # << >>,
         NEW z, z = [h EXCEPT !.front[q] = h.next[h.front[q]]]
  PROVE  /\ Chained(z, Without(c, OfQueue(q)))
         /\ z.next = h.next /\ z.rear = h.rear
         /\ h.front[q] = x[1] /\ x[1] \in Thread
         /\ h.next[x[1]] = IF Len(x) = 1 THEN NULL ELSE x[2]
<1> DEFINE l == OfQueue(q)
           d == Without(c, l)
<1>1. /\ h \in Heap /\ h.next \in [Thread -> Pointer] /\ Ranked(h.next)
      /\ c \in [List -> Seq(Thread)] /\ Once(c) /\ l \in List
      /\ x \in Seq(Thread) /\ Len(x) \in Nat /\ QueueHolds(h, q, x)
  BY ChainedIs, ListNames
<1>2. 1 \in 1 .. Len(x) /\ x[1] \in Thread /\ h.front[q] = x[1]
      /\ h.next[x[1]] = IF Len(x) = 1 THEN NULL ELSE x[2]
  <2>1. 1 \in 1 .. Len(x) /\ x[1] \in Thread
    BY <1>1, SeqIs
  <2>2. h.next[x[1]] = IF 1 = Len(x) THEN NULL ELSE x[1 + 1]
    BY <1>1, <2>1 DEF QueueHolds
  <2> QED
    BY <1>1, <2>1, <2>2 DEF QueueHolds
<1>3. /\ z \in Heap /\ z.next = h.next /\ z.rear = h.rear /\ z.wait = h.wait
      /\ \A r \in Queue : z.front[r] = IF r = q THEN h.next[x[1]] ELSE h.front[r]
  BY <1>1, <1>2 DEF Heap, Pointer
<1>4. d \in [List -> Seq(Thread)] /\ Once(d)
  BY <1>1, WithoutOnce
<1>5. d[l] = Tail(x) /\ \A r \in List : r # l => d[r] = c[r]
  BY <1>1 DEF Without
<1> HIDE DEF d
<1>6. QueueHolds(z, q, d[l])
  <2> DEFINE y == Tail(x)
  <2>1. y \in Seq(Thread) /\ Len(y) = Len(x) - 1 /\ \A k \in 1 .. Len(x) - 1 : y[k] = x[k + 1]
    BY <1>1, TailIs
  <2>2. y = << >> <=> Len(y) = 0
    BY <2>1, SeqIs
  <2> HIDE DEF y
  <2>3. z.front[q] = IF y = << >> THEN NULL ELSE y[1]
    <3>1. CASE Len(x) = 1
      BY <1>2, <1>3, <2>1, <2>2, <3>1
    <3>2. CASE Len(x) # 1
      <4>1. 1 \in 1 .. Len(x) - 1 /\ y # << >>
        BY <1>1, <1>2, <2>1, <2>2, <3>2
      <4> QED
        BY <1>2, <1>3, <2>1, <3>2, <4>1
    <3> QED
      BY <3>1, <3>2
  <2>4. ASSUME NEW k \in 1 .. Len(y) PROVE z.next[y[k]] = IF k = Len(y) THEN NULL ELSE y[k + 1]
    <3>1. k \in 1 .. Len(x) - 1 /\ k + 1 \in 1 .. Len(x)
      BY <1>1, <2>1
    <3>2. y[k] = x[k + 1]
      BY <2>1, <3>1
    <3>3. h.next[x[k + 1]] = IF k + 1 = Len(x) THEN NULL ELSE x[(k + 1) + 1]
      BY <1>1, <3>1 DEF QueueHolds
    <3>4. CASE k = Len(y)
      <4>1. k + 1 = Len(x)
        BY <1>1, <2>1, <3>4
      <4> QED
        BY <1>3, <3>2, <3>3, <3>4, <4>1
    <3>5. CASE k # Len(y)
      <4>1. k + 1 # Len(x) /\ k + 1 \in 1 .. Len(x) - 1
        BY <1>1, <2>1, <3>1, <3>5
      <4>2. y[k + 1] = x[(k + 1) + 1]
        BY <2>1, <4>1
      <4> QED
        BY <1>3, <3>2, <3>3, <3>5, <4>1, <4>2
    <3> QED
      BY <3>4, <3>5
  <2>5. d[l] = y
    BY <1>5 DEF y
  <2> QED
    BY <2>1, <2>3, <2>4, <2>5 DEF QueueHolds
<1>7. ASSUME NEW r \in Queue, r # q PROVE QueueHolds(z, r, d[OfQueue(r)])
  <2>1. OfQueue(r) \in List /\ OfQueue(r) # l
    BY <1>7, ListNames
  <2>2. QueueHolds(h, r, c[OfQueue(r)]) /\ z.front[r] = h.front[r]
    BY <1>3, <1>7, ChainedIs
  <2> QED
    BY <1>3, <1>5, <2>1, <2>2, QueueHoldsStill
<1>8. ASSUME NEW m \in Mutex PROVE MutexHolds(z, m, d[OfMutex(m)])
  <2>1. OfMutex(m) \in List /\ OfMutex(m) # l
    BY ListNames
  <2>2. MutexHolds(h, m, c[OfMutex(m)]) /\ z.wait[m] = h.wait[m]
    BY <1>3, ChainedIs
  <2> QED
    BY <1>3, <1>5, <2>1, <2>2, MutexHoldsStill
<1>9. Linked(z, d)
  BY <1>6, <1>7, <1>8 DEF Linked
<1>10. Chained(z, d)
  BY <1>1, <1>3, <1>4, <1>9 DEF Chained
<1> QED
  BY <1>2, <1>3, <1>10 DEF d

\* gen_dequeue takes the head of the queue of a mutex.
LEMMA GenDequeueChained ==
  ASSUME NEW h, NEW c, Chained(h, c), NEW m \in Mutex, NEW x, x = c[OfMutex(m)], x # << >>
  PROVE  /\ Chained(gen_dequeue(h, m), Without(c, OfMutex(m)))
         /\ gen_dequeue(h, m).next = h.next /\ gen_dequeue(h, m).rear = h.rear
         /\ h.wait[m].front = x[1] /\ x[1] \in Thread
<1> DEFINE l == OfMutex(m)
           d == Without(c, l)
           z == gen_dequeue(h, m)
<1>1. /\ h \in Heap /\ h.next \in [Thread -> Pointer] /\ Ranked(h.next)
      /\ c \in [List -> Seq(Thread)] /\ Once(c) /\ l \in List
      /\ x \in Seq(Thread) /\ Len(x) \in Nat /\ MutexHolds(h, m, x)
  BY ChainedIs, ListNames
<1>2. 1 \in 1 .. Len(x) /\ x[1] \in Thread /\ h.wait[m].front = x[1] /\ x[1] # NULL
      /\ h.wait[m].numNodes = Len(x) /\ h.wait[m].rear = x[Len(x)]
  <2>1. 1 \in 1 .. Len(x) /\ x[1] \in Thread
    BY <1>1, SeqIs
  <2> QED
    BY <1>1, <2>1, NullIsNoThread DEF MutexHolds
<1>3. z \in Heap
  BY <1>1, <1>2, GenDequeueHeap
<1>4. /\ z.next = h.next /\ z.rear = h.rear /\ z.front = h.front
      /\ \A n \in Mutex : n # m => z.wait[n] = h.wait[n]
      /\ Len(x) = 1 => z.wait[m] = [front |-> NULL, rear |-> NULL, numNodes |-> 0]
      /\ Len(x) # 1 => z.wait[m] = [front |-> h.next[x[1]], rear |-> x[Len(x)],
                                    numNodes |-> Len(x) - 1]
  <2>1. Len(x) # 0
    BY <1>1, <1>2
  <2> QED
    BY <1>1, <1>2, <2>1 DEF gen_dequeue, Heap
<1>5. d \in [List -> Seq(Thread)] /\ Once(d)
  BY <1>1, WithoutOnce
<1>6. d[l] = Tail(x) /\ \A r \in List : r # l => d[r] = c[r]
  BY <1>1 DEF Without
<1> HIDE DEF d, z
<1>7. MutexHolds(z, m, d[l])
  <2> DEFINE y == Tail(x)
  <2>1. y \in Seq(Thread) /\ Len(y) = Len(x) - 1 /\ \A k \in 1 .. Len(x) - 1 : y[k] = x[k + 1]
    BY <1>1, TailIs
  <2>2. y = << >> <=> Len(y) = 0
    BY <2>1, SeqIs
  <2> HIDE DEF y
  <2>3. d[l] = y
    BY <1>6 DEF y
  <2>4. CASE Len(x) = 1
    <3>1. Len(y) = 0 /\ y = << >>
      BY <2>1, <2>2, <2>4
    <3>2. \A k \in 1 .. Len(y) - 1 : FALSE
      BY <3>1
    <3> QED
      BY <1>4, <2>1, <2>3, <2>4, <3>1, <3>2 DEF MutexHolds
  <2>5. CASE Len(x) # 1
    <3>1. 1 \in 1 .. Len(x) - 1 /\ y # << >> /\ Len(y) \in 1 .. Len(x) - 1 /\ Len(y) + 1 = Len(x)
      BY <1>1, <1>2, <2>1, <2>2, <2>5
    <3>2. y[1] = x[1 + 1] /\ y[Len(y)] = x[Len(y) + 1]
      BY <2>1, <3>1
    <3>3. h.next[x[1]] = x[1 + 1]
      BY <1>1, <3>1 DEF MutexHolds
    <3>4. ASSUME NEW k \in 1 .. Len(y) - 1 PROVE z.next[y[k]] = y[k + 1]
      <4>1. k \in 1 .. Len(x) - 1 /\ k + 1 \in 1 .. Len(x) - 1
        BY <1>1, <2>1
      <4>2. y[k] = x[k + 1] /\ y[k + 1] = x[(k + 1) + 1]
        BY <2>1, <4>1
      <4>3. h.next[x[k + 1]] = x[(k + 1) + 1]
        BY <1>1, <4>1 DEF MutexHolds
      <4> QED
        BY <1>4, <4>2, <4>3
    <3>5. z.wait[m].front = y[1] /\ z.wait[m].rear = y[Len(y)] /\ z.wait[m].numNodes = Len(y)
      BY <1>4, <2>1, <2>5, <3>1, <3>2, <3>3
    <3> QED
      BY <2>1, <2>3, <3>1, <3>4, <3>5 DEF MutexHolds
  <2> QED
    BY <2>4, <2>5
<1>8. ASSUME NEW n \in Mutex, n # m PROVE MutexHolds(z, n, d[OfMutex(n)])
  <2>1. OfMutex(n) \in List /\ OfMutex(n) # l
    BY <1>8, ListNames
  <2>2. MutexHolds(h, n, c[OfMutex(n)]) /\ z.wait[n] = h.wait[n]
    BY <1>4, <1>8, ChainedIs
  <2> QED
    BY <1>4, <1>6, <2>1, <2>2, MutexHoldsStill
<1>9. ASSUME NEW q \in Queue PROVE QueueHolds(z, q, d[OfQueue(q)])
  <2>1. OfQueue(q) \in List /\ OfQueue(q) # l
    BY ListNames
  <2>2. QueueHolds(h, q, c[OfQueue(q)]) /\ z.front[q] = h.front[q]
    BY <1>4, ChainedIs
  <2> QED
    BY <1>4, <1>6, <2>1, <2>2, QueueHoldsStill
<1>10. Linked(z, d)
  BY <1>7, <1>8, <1>9 DEF Linked
<1>11. Chained(z, d)
  BY <1>1, <1>3, <1>4, <1>5, <1>10 DEF Chained
<1> QED
  BY <1>2, <1>4, <1>11 DEF d, z

\* gen_enqueue: next of t is not cleared, and must not lead back to the tail.
LEMMA GenEnqueueChained ==
  ASSUME NEW h, NEW c, Chained(h, c), NEW m \in Mutex, NEW t \in Thread, ~ Among(c, t),
         NextIs(h, c, t)
  PROVE  /\ Chained(gen_enqueue(h, m, t), With(c, OfMutex(m), t))
         /\ gen_enqueue(h, m, t).rear = h.rear
<1> DEFINE l == OfMutex(m)
           x == c[l]
           d == With(c, l, t)
           z == gen_enqueue(h, m, t)
<1>1. /\ h \in Heap /\ h.next \in [Thread -> Pointer] /\ Ranked(h.next)
      /\ c \in [List -> Seq(Thread)] /\ Once(c) /\ l \in List
      /\ x \in Seq(Thread) /\ Len(x) \in Nat /\ MutexHolds(h, m, x)
  BY ChainedIs, ListNames
<1>2. h.wait[m].numNodes = Len(x) /\ (x # << >> => h.wait[m].front = x[1] /\ h.wait[m].rear = x[Len(x)])
      /\ (x = << >> <=> Len(x) = 0) /\ (x # << >> => 1 \in 1 .. Len(x) /\ Len(x) \in 1 .. Len(x))
  BY <1>1, SeqIs DEF MutexHolds
<1>3. z \in Heap
  BY <1>1, GenEnqueueHeap
<1>4. /\ z.rear = h.rear /\ z.front = h.front
      /\ \A n \in Mutex : n # m => z.wait[n] = h.wait[n]
      /\ z.wait[m] = [front |-> IF x = << >> THEN t ELSE x[1], rear |-> t, numNodes |-> Len(x) + 1]
      /\ \A u \in Thread : z.next[u] = IF x # << >> /\ u = x[Len(x)] THEN t ELSE h.next[u]
  <2>1. CASE x = << >>
    BY <1>1, <1>2, <2>1 DEF gen_enqueue, Heap
  <2>2. CASE x # << >>
    <3>1. h.wait[m].numNodes # 0
      BY <1>2, <2>2
    <3> QED
      BY <1>1, <1>2, <2>2, <3>1 DEF gen_enqueue, Heap
  <2> QED
    BY <2>1, <2>2
<1>5. d \in [List -> Seq(Thread)] /\ Once(d)
  BY <1>1, WithOnce
<1>6. d[l] = Append(x, t) /\ \A r \in List : r # l => d[r] = c[r]
  BY <1>1 DEF With
<1>7. \A r \in List : \A k \in 1 .. Len(c[r]) :
        c[r][k] \in Thread /\ c[r][k] # t /\ Among(c, c[r][k])
  BY ChainedIs
<1> HIDE DEF z, d
<1>8. ASSUME NEW r \in List, NEW k \in 1 .. Len(c[r]), ~ (r = l /\ k = Len(x))
      PROVE  z.next[c[r][k]] = h.next[c[r][k]]
  <2>1. x # << >> => c[r][k] # x[Len(x)]
    <3> SUFFICES ASSUME x # << >>, c[r][k] = c[l][Len(x)] PROVE FALSE
      OBVIOUS
    <3>1. Len(x) \in 1 .. Len(c[l])
      BY <1>2
    <3> QED
      BY <1>1, <1>8, <3>1, OnceIs
  <2> QED
    BY <1>4, <1>7, <2>1
<1>9. MutexHolds(z, m, d[l])
  <2> DEFINE y == Append(x, t)
  <2>1. y \in Seq(Thread) /\ Len(y) = Len(x) + 1 /\ y # << >> /\ y[Len(x) + 1] = t
        /\ \A k \in 1 .. Len(x) : y[k] = x[k]
    BY <1>1, AppendIs
  <2> HIDE DEF y
  <2>2. d[l] = y
    BY <1>6 DEF y
  <2>3. z.wait[m].front = y[1] /\ z.wait[m].rear = y[Len(y)] /\ z.wait[m].numNodes = Len(y)
    <3>1. CASE x = << >>
      <4>1. Len(x) = 0
        BY <1>2, <3>1
      <4> QED
        BY <1>4, <2>1, <3>1, <4>1
    <3>2. CASE x # << >>
      BY <1>2, <1>4, <2>1, <3>2
    <3> QED
      BY <3>1, <3>2
  <2>4. ASSUME NEW k \in 1 .. Len(y) - 1 PROVE z.next[y[k]] = y[k + 1]
    <3>1. k \in 1 .. Len(x)
      BY <1>1, <2>1
    <3>2. CASE k = Len(x)
      <4>1. x # << >>
        BY <1>2, <3>1, <3>2
      <4>2. y[k] = x[Len(x)] /\ y[k + 1] = t /\ x[Len(x)] \in Thread
        BY <1>1, <1>7, <2>1, <3>1, <3>2
      <4> QED
        BY <1>4, <4>1, <4>2
    <3>3. CASE k # Len(x)
      <4>1. k \in 1 .. Len(x) - 1 /\ k + 1 \in 1 .. Len(x)
        BY <1>1, <3>1, <3>3
      <4>2. z.next[x[k]] = h.next[x[k]]
        BY <1>1, <1>8, <3>1, <3>3
      <4>3. h.next[x[k]] = x[k + 1]
        BY <1>1, <4>1 DEF MutexHolds
      <4> QED
        BY <2>1, <3>1, <4>1, <4>2, <4>3
    <3> QED
      BY <3>2, <3>3
  <2> QED
    BY <2>1, <2>2, <2>3, <2>4 DEF MutexHolds
<1>10. ASSUME NEW n \in Mutex, n # m PROVE MutexHolds(z, n, d[OfMutex(n)])
  <2>1. OfMutex(n) \in List /\ OfMutex(n) # l
    BY <1>10, ListNames
  <2>2. Len(c[OfMutex(n)]) \in Nat
    BY <1>1, <2>1, SeqIs
  <2>3. \A k \in 1 .. Len(c[OfMutex(n)]) - 1 : k \in 1 .. Len(c[OfMutex(n)])
    BY <2>2
  <2>4. \A k \in 1 .. Len(c[OfMutex(n)]) - 1 : z.next[c[OfMutex(n)][k]] = h.next[c[OfMutex(n)][k]]
    BY <1>8, <2>1, <2>3
  <2>5. MutexHolds(h, n, c[OfMutex(n)]) /\ z.wait[n] = h.wait[n]
    BY <1>4, <1>10, ChainedIs
  <2> QED
    BY <1>6, <2>1, <2>4, <2>5, MutexHoldsStill
<1>11. ASSUME NEW q \in Queue PROVE QueueHolds(z, q, d[OfQueue(q)])
  <2>1. OfQueue(q) \in List /\ OfQueue(q) # l
    BY ListNames
  <2>2. \A k \in 1 .. Len(c[OfQueue(q)]) : z.next[c[OfQueue(q)][k]] = h.next[c[OfQueue(q)][k]]
    BY <1>8, <2>1
  <2>3. QueueHolds(h, q, c[OfQueue(q)]) /\ z.front[q] = h.front[q]
    BY <1>4, ChainedIs
  <2> QED
    BY <1>6, <2>1, <2>2, <2>3, QueueHoldsStill
<1>12. Ranked(z.next)
  <2>1. CASE x = << >>
    <3>1. \A u \in Thread : z.next[u] = h.next[u] \/ z.next[u] = NULL
      BY <1>4, <2>1
    <3> QED
      BY <1>1, <3>1, RankCut
  <2>2. CASE x # << >>
    <3> DEFINE a == c[OfQueue(Running)]
               b == c[OfQueue(Low)]
               S == {u \in Thread : u = t \/ In(a, u) \/ In(b, u)}
               w == x[Len(x)]
    <3>1. OfQueue(Running) \in List /\ OfQueue(Low) \in List
          /\ QueueHolds(h, Running, a) /\ QueueHolds(h, Low, b)
          /\ a \in Seq(Thread) /\ b \in Seq(Thread)
      BY QueueNumbers, ListNames, ChainedIs
    <3>2. w \in Thread /\ w \notin S
      <4>1. Len(x) \in 1 .. Len(c[l]) /\ w = c[l][Len(x)]
        BY <1>2, <2>2
      <4>2. w \in Thread /\ w # t
        BY <1>1, <1>7, <4>1
      <4>3. OfQueue(Running) # l /\ OfQueue(Low) # l
        BY ListNames
      <4>4. ASSUME In(a, w) PROVE FALSE
        <5>1. PICK k \in 1 .. Len(a) : a[k] = w
          BY <4>4 DEF In
        <5>2. c[OfQueue(Running)][k] = c[l][Len(x)] /\ k \in 1 .. Len(c[OfQueue(Running)])
          BY <4>1, <5>1
        <5> QED
          BY <1>1, <3>1, <4>1, <4>3, <5>2, OnceIs
      <4>5. ASSUME In(b, w) PROVE FALSE
        <5>1. PICK k \in 1 .. Len(b) : b[k] = w
          BY <4>5 DEF In
        <5>2. c[OfQueue(Low)][k] = c[l][Len(x)] /\ k \in 1 .. Len(c[OfQueue(Low)])
          BY <4>1, <5>1
        <5> QED
          BY <1>1, <3>1, <4>1, <4>3, <5>2, OnceIs
      <4> HIDE DEF a, b, w
      <4> QED
        BY <4>2, <4>4, <4>5
    <3>3. ASSUME NEW q \in Queue, NEW y, y \in Seq(Thread), QueueHolds(h, q, y),
                 NEW u \in Thread, In(y, u), h.next[u] # NULL
          PROVE  In(y, h.next[u])
      <4>1. PICK k \in 1 .. Len(y) : y[k] = u
        BY <3>3 DEF In
      <4>2. h.next[u] = IF k = Len(y) THEN NULL ELSE y[k + 1]
        BY <3>3, <4>1 DEF QueueHolds
      <4>3. k + 1 \in 1 .. Len(y) /\ y[k + 1] = h.next[u]
        <5>1. Len(y) \in Nat /\ k # Len(y)
          BY <3>3, <4>2
        <5> QED
          BY <4>2, <5>1
      <4> QED
        BY <4>3 DEF In
    <3>4. \A u \in Thread : u \in S => h.next[u] \in S \cup {NULL}
      <4> SUFFICES ASSUME NEW u \in Thread, u \in S, h.next[u] # NULL PROVE h.next[u] \in S
        OBVIOUS
      <4>1. h.next[u] \in Thread
        BY <1>1 DEF Pointer
      <4>2. In(a, u) => In(a, h.next[u])
        BY <3>1, <3>3, QueueNumbers
      <4>3. In(b, u) => In(b, h.next[u])
        BY <3>1, <3>3, QueueNumbers
      <4>4. u = t => In(a, h.next[u]) \/ In(b, h.next[u])
        BY DEF NextIs
      <4> QED
        BY <4>1, <4>2, <4>3, <4>4
    <3>5. t \in S /\ \A u \in Thread : z.next[u] = IF u = w THEN t ELSE h.next[u]
      BY <1>4, <2>2
    <3> DEFINE f == h.next
    <3>6. /\ f \in [Thread -> Pointer] /\ Ranked(f) /\ w \in Thread /\ w \notin S /\ t \in S
          /\ \A u \in Thread : u \in S => f[u] \in S \cup {NULL}
          /\ \A u \in Thread : z.next[u] = IF u = w THEN t ELSE f[u]
      BY <1>1, <3>2, <3>4, <3>5
    <3> HIDE DEF S, w, f
    <3> QED
      BY <3>6, RankAdd
  <2> QED
    BY <2>1, <2>2
<1>13. Linked(z, d)
  BY <1>9, <1>10, <1>11 DEF Linked
<1>14. Chained(z, d)
  BY <1>3, <1>5, <1>12, <1>13 DEF Chained
<1> QED
  BY <1>4, <1>14 DEF z, d

\* What a sequence with one more at its head is.
LEMMA ConsIs ==
  ASSUME NEW T, NEW x \in Seq(T), NEW t \in T
  PROVE  /\ << t >> \o x \in Seq(T) /\ Len(<< t >> \o x) = Len(x) + 1
         /\ (<< t >> \o x)[1] = t
         /\ \A k \in 1 .. Len(x) : (<< t >> \o x)[k + 1] = x[k]
         /\ << t >> \o x # << >>
<1>1. << t >> \o x \in Seq(T) /\ Len(<< t >> \o x) = Len(x) + 1 /\ (<< t >> \o x)[1] = t
  OBVIOUS
<1>2. \A k \in 1 .. Len(x) : (<< t >> \o x)[k + 1] = x[k]
  OBVIOUS
<1>3. << t >> \o x # << >>
  <2>1. Len(x) \in Nat
    OBVIOUS
  <2> QED
    BY <1>1, <2>1, SeqIs
<1> QED
  BY <1>1, <1>2, <1>3

Ahead(c, l, t) == [c EXCEPT ![l] = << t >> \o c[l]]

\* A list l gets t as its first.
LEMMA AheadOnce ==
  ASSUME NEW c \in [List -> Seq(Thread)], Once(c), NEW l \in List, NEW t \in Thread,
         ~ Among(c, t)
  PROVE  /\ Ahead(c, l, t) \in [List -> Seq(Thread)] /\ Once(Ahead(c, l, t))
         /\ \A u : Among(Ahead(c, l, t), u) <=> Among(c, u) \/ u = t
<1> DEFINE d == Ahead(c, l, t)
<1>1. c[l] \in Seq(Thread) /\ Len(c[l]) \in Nat
  BY SeqIs
<1>2. << t >> \o c[l] \in Seq(Thread)
  BY <1>1, ConsIs
<1>3. d[l] = << t >> \o c[l] /\ \A r \in List : r # l => d[r] = c[r]
  BY DEF Ahead
<1>4. d \in [List -> Seq(Thread)]
  BY <1>2 DEF Ahead
<1> HIDE DEF d
<1>5. Len(d[l]) = Len(c[l]) + 1 /\ d[l][1] = t /\ \A j \in 1 .. Len(c[l]) : d[l][j + 1] = c[l][j]
  BY <1>1, <1>3, ConsIs
<1>6. ASSUME NEW k \in 1 .. Len(d[l]), k # 1
      PROVE  k - 1 \in 1 .. Len(c[l]) /\ d[l][k] = c[l][k - 1]
  <2>1. k - 1 \in 1 .. Len(c[l]) /\ k - 1 + 1 = k
    BY <1>1, <1>5, <1>6
  <2> QED
    BY <1>5, <2>1
<1>7. ASSUME NEW r \in List, NEW k \in 1 .. Len(d[r]), d[r][k] # t
      PROVE  \E j \in 1 .. Len(c[r]) : d[r][k] = c[r][j] /\ j = IF r = l THEN k - 1 ELSE k
  <2>1. CASE r = l
    <3>1. k # 1 /\ k \in 1 .. Len(d[l])
      BY <1>5, <1>7, <2>1
    <3> QED
      BY <1>6, <2>1, <3>1
  <2>2. CASE r # l
    BY <1>3, <2>2
  <2> QED
    BY <2>1, <2>2
<1>8. \A r \in List : \A k \in 1 .. Len(c[r]) : c[r][k] # t
  BY DEF Among, In
<1>9. ASSUME NEW r \in List, NEW k \in 1 .. Len(d[r]), d[r][k] = t PROVE r = l /\ k = 1
  <2>1. CASE r = l
    <3>1. k \in 1 .. Len(d[l]) /\ d[l][k] = t
      BY <1>9, <2>1
    <3> QED
      BY <1>6, <1>8, <2>1, <3>1
  <2>2. CASE r # l
    BY <1>3, <1>8, <1>9, <2>2
  <2> QED
    BY <2>1, <2>2
<1>10. Once(d)
  <2> SUFFICES ASSUME NEW q \in List, NEW r \in List, NEW j \in 1 .. Len(d[q]),
                      NEW k \in 1 .. Len(d[r]), d[q][j] = d[r][k]
               PROVE  q = r /\ j = k
    BY DEF Once
  <2>1. CASE d[q][j] = t
    <3>1. d[r][k] = t
      BY <2>1
    <3> QED
      BY <1>9, <2>1, <3>1
  <2>2. CASE d[q][j] # t
    <3>1. PICK i \in 1 .. Len(c[q]) : d[q][j] = c[q][i] /\ i = IF q = l THEN j - 1 ELSE j
      BY <1>7, <2>2
    <3>2. d[r][k] # t
      BY <2>2
    <3>3. PICK m \in 1 .. Len(c[r]) : d[r][k] = c[r][m] /\ m = IF r = l THEN k - 1 ELSE k
      BY <1>7, <3>2
    <3>4. c[q][i] = c[r][m]
      BY <3>1, <3>3
    <3>5. q = r /\ i = m
      BY <3>4, OnceIs
    <3> QED
      BY <3>1, <3>3, <3>5
  <2> QED
    BY <2>1, <2>2
<1>11. ASSUME NEW u, Among(d, u), u # t PROVE Among(c, u)
  <2>1. PICK r \in List : \E k \in 1 .. Len(d[r]) : d[r][k] = u
    BY <1>11 DEF Among, In
  <2>2. PICK k \in 1 .. Len(d[r]) : d[r][k] = u
    BY <2>1
  <2>3. d[r][k] # t
    BY <1>11, <2>2
  <2>4. PICK j \in 1 .. Len(c[r]) : d[r][k] = c[r][j]
    BY <1>7, <2>3
  <2> QED
    BY <2>2, <2>4 DEF Among, In
<1>12. ASSUME NEW u, Among(c, u) PROVE Among(d, u)
  <2>1. PICK r \in List : \E k \in 1 .. Len(c[r]) : c[r][k] = u
    BY <1>12 DEF Among, In
  <2>2. PICK k \in 1 .. Len(c[r]) : c[r][k] = u
    BY <2>1
  <2>3. CASE r # l
    BY <1>3, <2>2, <2>3 DEF Among, In
  <2>4. CASE r = l
    <3>1. d[l][k + 1] = u /\ k + 1 \in 1 .. Len(d[l])
      BY <1>1, <1>5, <2>2, <2>4
    <3> QED
      BY <3>1 DEF Among, In
  <2> QED
    BY <2>3, <2>4
<1>13. Among(d, t)
  <2>1. 1 \in 1 .. Len(d[l])
    BY <1>1, <1>5
  <2> QED
    BY <1>5, <2>1 DEF Among, In
<1> QED
  BY <1>4, <1>10, <1>11, <1>12, <1>13 DEF d

\* What is linked to a member of a queue is in it.
LEMMA NextInQueue ==
  ASSUME NEW h, NEW q \in Queue, NEW y, y \in Seq(Thread), QueueHolds(h, q, y),
         NEW u, In(y, u), h.next[u] # NULL
  PROVE  In(y, h.next[u])
<1>1. PICK k \in 1 .. Len(y) : y[k] = u
  BY DEF In
<1>2. h.next[u] = IF k = Len(y) THEN NULL ELSE y[k + 1]
  BY <1>1 DEF QueueHolds
<1>3. k + 1 \in 1 .. Len(y) /\ y[k + 1] = h.next[u]
  <2>1. Len(y) \in Nat /\ k # Len(y)
    BY <1>2
  <2> QED
    BY <1>2, <2>1
<1> QED
  BY <1>3 DEF In

\* The insertion at the head of queue 0 that the dead thread's waiter gets.
LEMMA PushFrontChained ==
  ASSUME NEW h, NEW c, Chained(h, c), NEW t \in Thread, ~ Among(c, t)
  PROVE  /\ Chained(pushFront(h, t), Ahead(c, OfQueue(Running), t))
         /\ pushFront(h, t).rear = h.rear
<1> DEFINE q == Running
           l == OfQueue(q)
           x == c[l]
           d == Ahead(c, l, t)
           z == pushFront(h, t)
<1>1. /\ h \in Heap /\ h.next \in [Thread -> Pointer] /\ Ranked(h.next)
      /\ c \in [List -> Seq(Thread)] /\ Once(c) /\ l \in List /\ q \in Queue
      /\ x \in Seq(Thread) /\ Len(x) \in Nat /\ QueueHolds(h, q, x)
      /\ h.front[q] = NULL <=> x = << >>
  BY ChainedIs, ListNames, QueueNumbers
<1>2. z \in Heap
  BY <1>1, PushFrontHeap
<1>3. x # << >> => 1 \in 1 .. Len(x) /\ h.front[q] = x[1] /\ x[1] \in Thread /\ In(x, x[1])
  BY <1>1, SeqIs DEF QueueHolds, In
<1>4. \A r \in List : \A k \in 1 .. Len(c[r]) : c[r][k] \in Thread /\ c[r][k] # t
  BY ChainedIs
<1>5. x # << >> => t # h.front[q]
  BY <1>1, <1>3, <1>4
<1>6. /\ z.rear = h.rear /\ z.wait = h.wait
      /\ \A r \in Queue : z.front[r] = IF r = q THEN t ELSE h.front[r]
      /\ \A u \in Thread : z.next[u] = IF u = t THEN IF x = << >> THEN NULL ELSE x[1] ELSE h.next[u]
  <2>1. CASE x = << >>
    BY <1>1, <2>1 DEF pushFront, Heap
  <2>2. CASE x # << >>
    BY <1>1, <1>3, <1>5, <2>2 DEF pushFront, Heap
  <2> QED
    BY <2>1, <2>2
<1>7. d \in [List -> Seq(Thread)] /\ Once(d)
  BY <1>1, AheadOnce
<1>8. d[l] = << t >> \o x /\ \A r \in List : r # l => d[r] = c[r]
  BY <1>1 DEF Ahead
<1> HIDE DEF z, d
<1>9. \A r \in List : \A k \in 1 .. Len(c[r]) : z.next[c[r][k]] = h.next[c[r][k]]
  BY <1>4, <1>6
<1>10. QueueHolds(z, q, d[l])
  <2> DEFINE y == << t >> \o x
  <2>1. y \in Seq(Thread) /\ Len(y) = Len(x) + 1 /\ y # << >> /\ y[1] = t
        /\ \A k \in 1 .. Len(x) : y[k + 1] = x[k]
    BY <1>1, ConsIs
  <2> HIDE DEF y
  <2>2. d[l] = y
    BY <1>8 DEF y
  <2>3. z.front[q] = y[1]
    BY <1>1, <1>6, <2>1
  <2>4. ASSUME NEW k \in 1 .. Len(y) PROVE z.next[y[k]] = IF k = Len(y) THEN NULL ELSE y[k + 1]
    <3>1. CASE k = 1
      <4>1. CASE x = << >>
        <5>1. Len(y) = 1
          BY <1>1, <2>1, <4>1, SeqIs
        <5> QED
          BY <1>6, <2>1, <3>1, <4>1, <5>1
      <4>2. CASE x # << >>
        <5>1. k # Len(y) /\ y[1 + 1] = x[1]
          BY <1>1, <1>3, <2>1, <3>1, <4>2
        <5> QED
          BY <1>6, <2>1, <3>1, <4>2, <5>1
      <4> QED
        BY <4>1, <4>2
    <3>2. CASE k # 1
      <4> DEFINE j == k - 1
      <4>1. j \in 1 .. Len(x) /\ j + 1 = k /\ (k = Len(y) <=> j = Len(x))
        BY <1>1, <2>1, <3>2
      <4> HIDE DEF j
      <4>2. y[k] = x[j]
        BY <2>1, <4>1
      <4>3. z.next[x[j]] = IF j = Len(x) THEN NULL ELSE x[j + 1]
        BY <1>1, <1>9, <4>1 DEF QueueHolds
      <4>4. j # Len(x) => y[k + 1] = x[j + 1]
        <5>1. j # Len(x) => j + 1 \in 1 .. Len(x)
          BY <1>1, <4>1
        <5> QED
          BY <2>1, <4>1, <5>1
      <4> QED
        BY <4>1, <4>2, <4>3, <4>4
    <3> QED
      BY <3>1, <3>2
  <2> QED
    BY <2>1, <2>2, <2>3, <2>4 DEF QueueHolds
<1>11. ASSUME NEW r \in Queue, r # q PROVE QueueHolds(z, r, d[OfQueue(r)])
  <2>1. OfQueue(r) \in List /\ OfQueue(r) # l
    BY <1>11, ListNames
  <2>2. QueueHolds(h, r, c[OfQueue(r)]) /\ z.front[r] = h.front[r]
    BY <1>6, <1>11, ChainedIs
  <2>3. \A k \in 1 .. Len(c[OfQueue(r)]) : z.next[c[OfQueue(r)][k]] = h.next[c[OfQueue(r)][k]]
    BY <1>9, <2>1
  <2>4. QueueHolds(z, r, c[OfQueue(r)])
    BY <2>2, <2>3, QueueHoldsStill
  <2> QED
    BY <1>8, <2>1, <2>4
<1>12. ASSUME NEW m \in Mutex PROVE MutexHolds(z, m, d[OfMutex(m)])
  <2>1. OfMutex(m) \in List /\ OfMutex(m) # l /\ Len(c[OfMutex(m)]) \in Nat
    BY ListNames, ChainedIs
  <2>2. MutexHolds(h, m, c[OfMutex(m)]) /\ z.wait[m] = h.wait[m]
    BY <1>6, ChainedIs
  <2>3. \A k \in 1 .. Len(c[OfMutex(m)]) - 1 : k \in 1 .. Len(c[OfMutex(m)])
    BY <2>1
  <2>4. \A k \in 1 .. Len(c[OfMutex(m)]) - 1 : z.next[c[OfMutex(m)][k]] = h.next[c[OfMutex(m)][k]]
    BY <1>9, <2>1, <2>3
  <2> QED
    BY <1>8, <2>1, <2>2, <2>4, MutexHoldsStill
<1>13. Ranked(z.next)
  <2>1. CASE x = << >>
    <3>1. \A u \in Thread : z.next[u] = h.next[u] \/ z.next[u] = NULL
      BY <1>6, <2>1
    <3> QED
      BY <1>1, <3>1, RankCut
  <2>2. CASE x # << >>
    <3> DEFINE S == {u \in Thread : In(x, u)}
               f == h.next
    <3>1. f \in [Thread -> Pointer] /\ Ranked(f)
      BY <1>1
    <3>2. t \notin S
      BY <1>1, <1>4 DEF In
    <3>3. x[1] \in S
      BY <1>3, <2>2
    <3>4. \A u \in Thread : u \in S => f[u] \in S \cup {NULL}
      <4> SUFFICES ASSUME NEW u \in Thread, u \in S, f[u] # NULL PROVE f[u] \in S
        OBVIOUS
      <4>1. f[u] \in Thread
        BY <3>1 DEF Pointer
      <4>2. In(x, u) /\ h.next[u] # NULL
        OBVIOUS
      <4>3. In(x, h.next[u])
        BY <1>1, <4>2, NextInQueue
      <4> QED
        BY <4>1, <4>3
    <3>5. x[1] \in Thread /\ \A u \in Thread : z.next[u] = IF u = t THEN x[1] ELSE f[u]
      BY <1>3, <1>6, <2>2
    <3> HIDE DEF S, f
    <3> QED
      BY <3>1, <3>2, <3>3, <3>4, <3>5, RankAdd
  <2> QED
    BY <2>1, <2>2
<1>14. Linked(z, d)
  BY <1>10, <1>11, <1>12 DEF Linked
<1>15. Chained(z, d)
  BY <1>2, <1>7, <1>13, <1>14 DEF Chained
<1> QED
  BY <1>6, <1>15 DEF z, d
=============================================================================
