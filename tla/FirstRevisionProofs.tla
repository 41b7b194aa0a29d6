------------------------- MODULE FirstRevisionProofs -------------------------
(***************************************************************************)
(* The first revision of the library, for all sets of threads, whoever of  *)
(* them locks, however long a second is, and with SIGALRM anywhere.        *)
(*                                                                         *)
(* Queues 0 and 1 are right although queue 2 and the mutex link threads by *)
(* the same next field, and twice: whom these link are WAITING or DEAD,    *)
(* and whom queues 0 and 1 hold are neither (LibraryInv).                  *)
(***************************************************************************)
EXTENDS FirstRevision, ThreadListsProofs

-----------------------------------------------------------------------------
(* One queue. *)

LEMMA RunQueueIs == RunQueue \subseteq Queue /\ Running \in RunQueue /\ Low \in RunQueue
  BY QueueNumbers DEF RunQueue

\* A queue stays what it is while its ends and the next of its nodes do.
LEMMA HoldsStill ==
  ASSUME NEW h, NEW q, NEW x, QueueHolds(h, q, x), RearIs(h, q, x),
         NEW z, z.front[q] = h.front[q], z.rear[q] = h.rear[q],
         \A u \in Thread : In(x, u) => z.next[u] = h.next[u]
  PROVE  QueueHolds(z, q, x) /\ RearIs(z, q, x)
<1>1. \A k \in 1 .. Len(x) : z.next[x[k]] = h.next[x[k]]
  BY SeqIs DEF QueueHolds, In
<1> QED
  BY <1>1, QueueHoldsStill DEF RearIs

\* enqueue adds t at the end.
LEMMA EnqueueHolds ==
  ASSUME NEW h \in Heap, NEW q \in Queue, NEW t \in Thread,
         NEW x, QueueHolds(h, q, x), RearIs(h, q, x), NoneTwice(x), ~ In(x, t)
  PROVE  /\ QueueHolds(enqueue(h, t, q), q, Append(x, t))
         /\ RearIs(enqueue(h, t, q), q, Append(x, t))
         /\ NoneTwice(Append(x, t)) /\ Len(Append(x, t)) = Len(x) + 1
         /\ \A u \in Thread : In(Append(x, t), u) <=> In(x, u) \/ u = t
<1> DEFINE z == enqueue(h, t, q)
           y == Append(x, t)
           n == Len(x)
<1>1. /\ x \in Seq(Thread) /\ n \in Nat /\ (x = << >> <=> n = 0)
      /\ \A k \in 1 .. n : x[k] \in Thread /\ x[k] # t
      /\ h.front[q] = IF x = << >> THEN NULL ELSE x[1]
      /\ \A k \in 1 .. n : h.next[x[k]] = IF k = n THEN NULL ELSE x[k + 1]
      /\ x # << >> => h.rear[q] = x[n]
  BY SeqIs DEF QueueHolds, RearIs, In
<1>2. /\ y \in Seq(Thread) /\ Len(y) = n + 1 /\ y # << >> /\ y[n + 1] = t
      /\ \A k \in 1 .. n : y[k] = x[k]
  BY <1>1, AppendIs
<1>3. /\ z.front[q] = IF x = << >> THEN t ELSE h.front[q]
      /\ z.rear[q] = t
      /\ \A u \in Thread : z.next[u] = IF x # << >> /\ u = x[n] THEN t
                                       ELSE IF u = t THEN NULL ELSE h.next[u]
  <2>1. CASE x = << >>
    BY <1>1, <2>1, EnqueueEmpty
  <2>2. CASE x # << >>
    <3>1. h.front[q] # NULL
      BY <1>1, <2>2, NullIsNoThread
    <3> QED
      BY <1>1, <2>2, <3>1, EnqueueBehind
  <2> QED
    BY <2>1, <2>2
<1> HIDE DEF y, z
<1>4. z.front[q] = y[1]
  <2>1. CASE x = << >>
    BY <1>1, <1>2, <1>3, <2>1
  <2>2. CASE x # << >>
    <3>1. 1 \in 1 .. n
      BY <1>1, <2>2
    <3> QED
      BY <1>1, <1>2, <1>3, <2>2, <3>1
  <2> QED
    BY <2>1, <2>2
<1>5. ASSUME NEW k \in 1 .. n + 1 PROVE z.next[y[k]] = IF k = n + 1 THEN NULL ELSE y[k + 1]
  <2>1. CASE k = n + 1
    <3>1. x # << >> => n \in 1 .. n
      BY <1>1
    <3> QED
      BY <1>1, <1>2, <1>3, <2>1, <3>1
  <2>2. CASE k = n
    <3>1. n \in 1 .. n /\ x # << >>
      BY <1>1, <2>2
    <3> QED
      BY <1>1, <1>2, <1>3, <2>2, <3>1
  <2>3. CASE k # n + 1 /\ k # n
    <3>1. k \in 1 .. n /\ n \in 1 .. n /\ k + 1 \in 1 .. n
      BY <1>1, <2>3
    <3>2. x[k] # x[n]
      BY <2>3, <3>1 DEF NoneTwice
    <3>3. z.next[x[k]] = h.next[x[k]]
      BY <1>1, <1>3, <3>1, <3>2
    <3> QED
      BY <1>1, <1>2, <2>3, <3>1, <3>3
  <2> QED
    BY <2>1, <2>2, <2>3
<1>6. QueueHolds(z, q, y) /\ RearIs(z, q, y)
  BY <1>2, <1>3, <1>4, <1>5 DEF QueueHolds, RearIs
<1>7. NoneTwice(y)
  <2> SUFFICES ASSUME NEW j \in 1 .. n + 1, NEW k \in 1 .. n + 1, y[j] = y[k] PROVE j = k
    BY <1>2 DEF NoneTwice
  <2>1. j = n + 1 \/ j \in 1 .. n
    BY <1>1
  <2>2. k = n + 1 \/ k \in 1 .. n
    BY <1>1
  <2>3. CASE j \in 1 .. n /\ k \in 1 .. n
    BY <1>2, <2>3 DEF NoneTwice
  <2> QED
    BY <1>1, <1>2, <2>1, <2>2, <2>3
<1>8. \A u \in Thread : In(y, u) <=> In(x, u) \/ u = t
  <2>1. \A k : k \in 1 .. n + 1 <=> k \in 1 .. n \/ k = n + 1
    BY <1>1
  <2> QED
    BY <1>2, <2>1 DEF In
<1> QED
  BY <1>2, <1>6, <1>7, <1>8 DEF y, z

\* dequeue, pointer by pointer.
LEMMA DequeueIs ==
  ASSUME NEW h \in Heap, NEW q \in Queue
  PROVE  /\ dequeue(h, q).next = h.next /\ dequeue(h, q).rear = h.rear
         /\ dequeue(h, q).wait = h.wait
         /\ \A r \in Queue : dequeue(h, q).front[r] =
                               IF r = q THEN h.next[h.front[q]] ELSE h.front[r]
<1> DEFINE p == h.next[h.front[q]]
<1> HIDE DEF p
<1>1. dequeue(h, q) = [h EXCEPT !.front[q] = p]
  BY DEF dequeue, p
<1>2. \A r \in Queue : dequeue(h, q).front[r] = IF r = q THEN p ELSE h.front[r]
  BY <1>1 DEF Heap
<1>3. /\ dequeue(h, q).next = h.next /\ dequeue(h, q).rear = h.rear
      /\ dequeue(h, q).wait = h.wait
  BY <1>1 DEF Heap
<1> QED
  BY <1>2, <1>3 DEF p

\* dequeue takes the first.
LEMMA DequeueHolds ==
  ASSUME NEW h \in Heap, NEW q \in Queue,
         NEW x, QueueHolds(h, q, x), RearIs(h, q, x), NoneTwice(x), x # << >>
  PROVE  /\ QueueHolds(dequeue(h, q), q, Tail(x)) /\ RearIs(dequeue(h, q), q, Tail(x))
         /\ NoneTwice(Tail(x)) /\ Len(Tail(x)) = Len(x) - 1
         /\ \A u \in Thread : In(Tail(x), u) <=> In(x, u) /\ u # h.front[q]
         /\ h.front[q] \in Thread /\ In(x, h.front[q])
<1> DEFINE z == dequeue(h, q)
           y == Tail(x)
           n == Len(x)
<1>1. /\ x \in Seq(Thread) /\ n \in Nat /\ n # 0 /\ 1 \in 1 .. n /\ n \in 1 .. n
      /\ \A k \in 1 .. n : x[k] \in Thread
      /\ h.front[q] = x[1]
      /\ \A k \in 1 .. n : h.next[x[k]] = IF k = n THEN NULL ELSE x[k + 1]
      /\ h.rear[q] = x[n]
  BY SeqIs DEF QueueHolds, RearIs
<1>2. /\ y \in Seq(Thread) /\ Len(y) = n - 1 /\ (y = << >> <=> n = 1)
      /\ \A k \in 1 .. n - 1 : y[k] = x[k + 1]
  <2>1. /\ y \in Seq(Thread) /\ Len(y) = n - 1
        /\ \A k \in 1 .. n - 1 : y[k] = x[k + 1]
    BY <1>1, TailIs
  <2> HIDE DEF y
  <2>2. y = << >> <=> Len(y) = 0
    BY <2>1, SeqIs
  <2> QED
    BY <1>1, <2>1, <2>2
<1>3. z.next = h.next /\ z.rear = h.rear /\ z.front[q] = IF n = 1 THEN NULL ELSE x[2]
  <2>1. z.next = h.next /\ z.rear = h.rear /\ z.front[q] = h.next[h.front[q]]
    BY DequeueIs
  <2>2. h.next[x[1]] = IF 1 = n THEN NULL ELSE x[1 + 1]
    BY <1>1
  <2> QED
    BY <1>1, <2>1, <2>2
<1> HIDE DEF y, z
<1>4. \A k \in 1 .. n - 1 : k \in 1 .. n /\ k + 1 \in 1 .. n /\ (k = n - 1 <=> k + 1 = n)
  BY <1>1
<1>5. y # << >> => 1 \in 1 .. n - 1 /\ n - 1 \in 1 .. n - 1 /\ (n - 1) + 1 = n
  BY <1>1, <1>2
<1>6. z.front[q] = IF y = << >> THEN NULL ELSE y[1]
  BY <1>2, <1>3, <1>5
<1>7. ASSUME NEW k \in 1 .. n - 1 PROVE z.next[y[k]] = IF k = n - 1 THEN NULL ELSE y[k + 1]
  <2>1. z.next[y[k]] = IF k + 1 = n THEN NULL ELSE x[(k + 1) + 1]
    BY <1>1, <1>2, <1>3, <1>4
  <2>2. k # n - 1 => k + 1 \in 1 .. n - 1
    BY <1>1
  <2> QED
    BY <1>2, <1>4, <2>1, <2>2
<1>8. QueueHolds(z, q, y) /\ RearIs(z, q, y)
  BY <1>1, <1>2, <1>3, <1>5, <1>6, <1>7 DEF QueueHolds, RearIs
<1>9. NoneTwice(y)
  BY <1>1, <1>2, <1>4 DEF NoneTwice
<1>10. ASSUME NEW u \in Thread PROVE In(y, u) <=> In(x, u) /\ u # x[1]
  <2>1. ASSUME In(y, u) PROVE In(x, u) /\ u # x[1]
    <3>1. PICK k \in 1 .. n - 1 : y[k] = u
      BY <1>2, <2>1 DEF In
    <3>2. x[k + 1] = u /\ k + 1 \in 1 .. n /\ k + 1 # 1
      BY <1>2, <1>4, <3>1
    <3> QED
      BY <1>1, <3>2 DEF In, NoneTwice
  <2>2. ASSUME In(x, u), u # x[1] PROVE In(y, u)
    <3>1. PICK k \in 1 .. n : x[k] = u
      BY <2>2 DEF In
    <3>2. k - 1 \in 1 .. n - 1 /\ (k - 1) + 1 = k
      BY <1>1, <2>2, <3>1
    <3>3. y[k - 1] = u
      BY <1>2, <3>1, <3>2
    <3> QED
      BY <1>2, <3>2, <3>3 DEF In
  <2> QED
    BY <2>1, <2>2
<1> QED
  BY <1>1, <1>2, <1>8, <1>9, <1>10 DEF y, z, In

-----------------------------------------------------------------------------
(* Enqueue and Dequeue, on both queues at once. *)

Put(c, q, t)  == [r \in RunQueue |-> IF r = q THEN Append(c[r], t) ELSE c[r]]
Take(c, q)    == [r \in RunQueue |-> IF r = q THEN Tail(c[r]) ELSE c[r]]

SameButLists(r, s) ==
  /\ r.activeFlag = s.activeFlag /\ r.waitingOnID = s.waitingOnID
  /\ r.lastTimeFinished = s.lastTimeFinished /\ r.currThread = s.currThread
  /\ r.firstTime = s.firstTime

\* The other fields stay when the lists are written.
SetLists(s, h, i) ==
  LET r == [s EXCEPT !.heap = h, !.numNodes = i]
  IN  r \in Lib /\ SameButLists(r, s) /\ r.heap = h /\ r.numNodes = i

LEMMA ListsSet ==
  ASSUME NEW s \in Lib, NEW h \in Heap, NEW i \in [Queue -> Nat]
  PROVE  SetLists(s, h, i)
  BY DEF SetLists, SameButLists, Lib

LEMMA EnqueueIs ==
  ASSUME NEW s \in Lib, NEW t \in Thread, NEW q \in Queue
  PROVE  /\ Enqueue(s, t, q) \in Lib /\ SameButLists(Enqueue(s, t, q), s)
         /\ Enqueue(s, t, q).heap = enqueue(s.heap, t, q)
         /\ \A r \in Queue : Enqueue(s, t, q).numNodes[r] =
                               IF r = q THEN s.numNodes[q] + 1 ELSE s.numNodes[r]
<1>1. PICK h \in Heap : h = enqueue(s.heap, t, q)
  BY EnqueueHeap DEF Lib
<1>2. PICK i \in [Queue -> Nat] : i = [s.numNodes EXCEPT ![q] = @ + 1]
  <2>1. s.numNodes \in [Queue -> Nat] /\ s.numNodes[q] + 1 \in Nat
    BY DEF Lib
  <2> QED
    BY <2>1
<1>3. Enqueue(s, t, q) = [s EXCEPT !.heap = h, !.numNodes = i]
  BY <1>1, <1>2 DEF Enqueue
<1>4. \A r \in Queue : i[r] = IF r = q THEN s.numNodes[q] + 1 ELSE s.numNodes[r]
  BY <1>2 DEF Lib
<1>5. SetLists(s, h, i)
  BY ListsSet
<1> QED
  BY <1>1, <1>3, <1>4, <1>5 DEF SetLists

LEMMA EnqueueHeld ==
  ASSUME NEW s \in Lib, NEW c, Held(s, c), NEW t \in Thread, NEW q \in Queue,
         \A r \in RunQueue : ~ In(c[r], t),
         \A r \in RunQueue \ {q} : s.heap.front[q] # NULL => ~ In(c[r], s.heap.rear[q])
  PROVE  /\ Held(Enqueue(s, t, q), Put(c, q, t))
         /\ \A r \in RunQueue, u \in Thread :
              In(Put(c, q, t)[r], u) <=> In(c[r], u) \/ (r = q /\ u = t)
<1> DEFINE z == enqueue(s.heap, t, q)
<1>1. s.heap \in Heap
  BY DEF Lib
<1>2. ASSUME NEW r \in RunQueue, r # q
      PROVE  QueueHolds(z, r, c[r]) /\ RearIs(z, r, c[r])
  <2>1. r \in Queue /\ QueueHolds(s.heap, r, c[r]) /\ RearIs(s.heap, r, c[r])
    BY RunQueueIs DEF Held
  <2>2. CASE s.heap.front[q] = NULL
    <3>1. z.front[r] = s.heap.front[r] /\ z.rear[r] = s.heap.rear[r]
      BY <1>1, <1>2, <2>1, <2>2, EnqueueEmpty
    <3>2. \A u \in Thread : In(c[r], u) => z.next[u] = s.heap.next[u]
      BY <1>1, <2>2, EnqueueEmpty
    <3> HIDE DEF z
    <3> QED
      BY <2>1, <3>1, <3>2, HoldsStill
  <2>3. CASE s.heap.front[q] # NULL
    <3>1. z.front[r] = s.heap.front[r] /\ z.rear[r] = s.heap.rear[r]
      BY <1>1, <1>2, <2>1, <2>3, EnqueueBehind
    <3>2. \A u \in Thread : In(c[r], u) => u # t /\ u # s.heap.rear[q]
      BY <1>2, <2>3
    <3>3. \A u \in Thread : In(c[r], u) => z.next[u] = s.heap.next[u]
      BY <1>1, <2>3, <3>2, EnqueueBehind
    <3> HIDE DEF z
    <3> QED
      BY <2>1, <3>1, <3>3, HoldsStill
  <2> QED
    BY <2>2, <2>3
<1>3. ASSUME NEW r \in RunQueue
      PROVE  /\ QueueHolds(z, r, Put(c, q, t)[r]) /\ RearIs(z, r, Put(c, q, t)[r])
             /\ NoneTwice(Put(c, q, t)[r])
             /\ Len(Put(c, q, t)[r]) = Enqueue(s, t, q).numNodes[r]
             /\ \A u \in Thread : In(Put(c, q, t)[r], u) <=> In(c[r], u) \/ (r = q /\ u = t)
  <2>1. /\ r \in Queue /\ QueueHolds(s.heap, r, c[r]) /\ RearIs(s.heap, r, c[r])
        /\ NoneTwice(c[r]) /\ s.numNodes[r] = Len(c[r])
    BY RunQueueIs DEF Held
  <2>2. Enqueue(s, t, q).numNodes[r] = IF r = q THEN s.numNodes[q] + 1 ELSE s.numNodes[r]
    BY <2>1, EnqueueIs
  <2>3. CASE r = q
    <3>1. Put(c, q, t)[r] = Append(c[r], t)
      BY <2>3 DEF Put
    <3>2. /\ QueueHolds(z, r, Append(c[r], t)) /\ RearIs(z, r, Append(c[r], t))
          /\ NoneTwice(Append(c[r], t)) /\ Len(Append(c[r], t)) = Len(c[r]) + 1
          /\ \A u \in Thread : In(Append(c[r], t), u) <=> In(c[r], u) \/ u = t
      BY <1>1, <2>1, <2>3, EnqueueHolds
    <3> HIDE DEF z
    <3> QED
      BY <2>1, <2>2, <2>3, <3>1, <3>2
  <2>4. CASE r # q
    <3>1. Put(c, q, t)[r] = c[r]
      BY <2>4 DEF Put
    <3> HIDE DEF z
    <3> QED
      BY <1>2, <2>1, <2>2, <2>4, <3>1
  <2> QED
    BY <2>3, <2>4
<1> QED
  BY <1>3, EnqueueIs DEF Held

LEMMA DequeueHeld ==
  ASSUME NEW s \in Lib, NEW c, Held(s, c), NEW q \in RunQueue, s.heap.front[q] # NULL
  PROVE  /\ Dequeue(s, q) \in Lib /\ SameButLists(Dequeue(s, q), s)
         /\ Dequeue(s, q).heap.rear = s.heap.rear /\ Dequeue(s, q).heap.wait = s.heap.wait
         /\ Held(Dequeue(s, q), Take(c, q))
         /\ s.heap.front[q] \in Thread /\ In(c[q], s.heap.front[q])
         /\ \A r \in RunQueue, u \in Thread :
              In(Take(c, q)[r], u) <=> In(c[r], u) /\ ~ (r = q /\ u = s.heap.front[q])
<1> DEFINE z == dequeue(s.heap, q)
           n == s.heap.front[q]
<1>1. s.heap \in Heap /\ q \in Queue
  BY RunQueueIs DEF Lib
<1>2. /\ QueueHolds(s.heap, q, c[q]) /\ RearIs(s.heap, q, c[q]) /\ NoneTwice(c[q])
      /\ s.numNodes[q] = Len(c[q])
  BY DEF Held
<1>3. c[q] # << >> /\ Len(c[q]) \in Nat /\ Len(c[q]) # 0
  <2>1. c[q] # << >> /\ c[q] \in Seq(Thread)
    BY <1>2 DEF QueueHolds
  <2> QED
    BY <2>1, SeqIs
<1>4. /\ QueueHolds(z, q, Tail(c[q])) /\ RearIs(z, q, Tail(c[q]))
      /\ NoneTwice(Tail(c[q])) /\ Len(Tail(c[q])) = Len(c[q]) - 1
      /\ \A u \in Thread : In(Tail(c[q]), u) <=> In(c[q], u) /\ u # n
      /\ n \in Thread /\ In(c[q], n)
  BY <1>1, <1>2, <1>3, DequeueHolds
<1>5. /\ z \in Heap /\ z.next = s.heap.next /\ z.rear = s.heap.rear /\ z.wait = s.heap.wait
      /\ \A r \in Queue : r # q => z.front[r] = s.heap.front[r]
  BY <1>1, DequeueHeap, DequeueIs
<1> HIDE DEF z, n
<1>6. PICK h \in Heap : h = z
  BY <1>5
<1>7. PICK i \in [Queue -> Nat] : i = [s.numNodes EXCEPT ![q] = @ - 1]
  <2>1. s.numNodes \in [Queue -> Nat] /\ s.numNodes[q] - 1 \in Nat
    BY <1>2, <1>3 DEF Lib
  <2> QED
    BY <2>1
<1>8. /\ Dequeue(s, q) = [s EXCEPT !.heap = h, !.numNodes = i]
      /\ \A r \in Queue : i[r] = IF r = q THEN s.numNodes[q] - 1 ELSE s.numNodes[r]
      /\ SetLists(s, h, i)
  <2>1. Dequeue(s, q) = [s EXCEPT !.heap = h, !.numNodes = i]
    BY <1>6, <1>7 DEF Dequeue, z
  <2>2. \A r \in Queue : i[r] = IF r = q THEN s.numNodes[q] - 1 ELSE s.numNodes[r]
    BY <1>7 DEF Lib
  <2> QED
    BY <2>1, <2>2, ListsSet
<1>9. /\ Dequeue(s, q) \in Lib /\ SameButLists(Dequeue(s, q), s)
      /\ Dequeue(s, q).heap = z
      /\ \A r \in Queue : Dequeue(s, q).numNodes[r] =
                            IF r = q THEN s.numNodes[q] - 1 ELSE s.numNodes[r]
  BY <1>6, <1>8 DEF SetLists
<1>10. ASSUME NEW r \in RunQueue
       PROVE  /\ QueueHolds(z, r, Take(c, q)[r]) /\ RearIs(z, r, Take(c, q)[r])
              /\ NoneTwice(Take(c, q)[r])
              /\ Len(Take(c, q)[r]) = Dequeue(s, q).numNodes[r]
              /\ \A u \in Thread :
                   In(Take(c, q)[r], u) <=> In(c[r], u) /\ ~ (r = q /\ u = n)
  <2>1. CASE r = q
    <3>1. Take(c, q)[r] = Tail(c[r])
      BY <2>1 DEF Take
    <3> QED
      BY <1>1, <1>2, <1>4, <1>9, <2>1, <3>1
  <2>2. CASE r # q
    <3>1. Take(c, q)[r] = c[r]
      BY <2>2 DEF Take
    <3>2. /\ r \in Queue /\ QueueHolds(s.heap, r, c[r]) /\ RearIs(s.heap, r, c[r])
          /\ NoneTwice(c[r]) /\ s.numNodes[r] = Len(c[r])
      BY RunQueueIs DEF Held
    <3>3. QueueHolds(z, r, c[r]) /\ RearIs(z, r, c[r])
      BY <1>5, <2>2, <3>2, HoldsStill
    <3> QED
      BY <1>9, <2>2, <3>1, <3>2, <3>3
  <2> QED
    BY <2>1, <2>2
<1>11. Held(Dequeue(s, q), Take(c, q))
  BY <1>9, <1>10 DEF Held
<1> QED
  BY <1>4, <1>5, <1>9, <1>10, <1>11 DEF n

-----------------------------------------------------------------------------
(* The loops over queues 1 and 2 move nobody. *)

\* The walk over a queue meets its nodes, and nothing else.
LEMMA NodesAre ==
  ASSUME NEW h \in Heap, NEW q \in Queue, NEW x, QueueHolds(h, q, x), NoneTwice(x)
  PROVE  /\ \A k \in DOMAIN Walk(h, q) : Walk(h, q)[k] # NULL =>
              Walk(h, q)[k] \in Thread /\ In(x, Walk(h, q)[k])
         /\ Nodes(Walk(h, q)) = {t \in Thread : In(x, t)}
<1> DEFINE w == Walk(h, q)
           n == Cardinality(Thread)
<1>1. /\ DOMAIN w = 0 .. n /\ n \in Nat /\ Len(x) \in 0 .. n
      /\ \A k \in 0 .. n : w[k] = IF k < Len(x) THEN x[k + 1] ELSE NULL
  BY WalkMeets
<1>2. \A k \in 1 .. Len(x) : x[k] \in Thread
  BY SeqIs DEF QueueHolds
<1> HIDE DEF w, n
<1>3. ASSUME NEW k \in 0 .. n, w[k] # NULL PROVE w[k] \in Thread /\ In(x, w[k])
  <2>1. k < Len(x) /\ w[k] = x[k + 1]
    BY <1>1, <1>3
  <2>2. k + 1 \in 1 .. Len(x)
    BY <1>1, <2>1
  <2> QED
    BY <1>2, <2>1, <2>2 DEF In
<1>4. ASSUME NEW t \in Thread, In(x, t) PROVE t \in Nodes(w)
  <2>1. PICK k \in 1 .. Len(x) : x[k] = t
    BY <1>4 DEF In
  <2>2. k - 1 \in 0 .. n /\ k - 1 < Len(x) /\ (k - 1) + 1 = k
    BY <1>1
  <2>3. w[k - 1] = t
    BY <1>1, <2>1, <2>2
  <2> QED
    BY <1>1, <2>2, <2>3, NullIsNoThread DEF Nodes
<1>5. \A t \in Nodes(w) : t \in Thread /\ In(x, t)
  BY <1>1, <1>3 DEF Nodes
<1> QED
  BY <1>1, <1>3, <1>4, <1>5 DEF w

\* No age within a second is more than a second.
LEMMA NobodyOld ==
  ASSUME NEW s \in Lib, NEW c, RunQueues(s, c), NEW now \in timeStamp
  PROVE  ~ Meets(Walk(s.heap, Low), Old(s, now))
<1> SUFFICES ASSUME NEW k \in DOMAIN Walk(s.heap, Low), Walk(s.heap, Low)[k] \in Old(s, now)
             PROVE  FALSE
  BY DEF Meets, IsFirst
<1>1. PICK t \in Thread : t = Walk(s.heap, Low)[k] /\ now - s.lastTimeFinished[t] > Second
  BY DEF Old
<1>2. Low \in Queue /\ s.heap \in Heap /\ QueueHolds(s.heap, Low, c[Low]) /\ NoneTwice(c[Low])
  BY RunQueueIs DEF RunQueues, Held, Lib
<1>3. In(c[Low], t)
  BY <1>1, <1>2, NodesAre, NullIsNoThread
<1>4. s.lastTimeFinished[t] >= 0 /\ s.lastTimeFinished[t] \in Int
  BY <1>3, SecondIsPositive DEF RunQueues, Lib, Unwritten, timeStamp
<1>5. now \in Int /\ now < Second /\ Second \in Int
  BY SecondIsPositive DEF timeStamp
<1> QED
  BY <1>1, <1>4, <1>5

LEMMA NobodyAges ==
  ASSUME NEW s \in Lib, NEW c, RunQueues(s, c), NEW now \in timeStamp
  PROVE  Promote(s, Low, Old(s, now)) = s
  BY NobodyOld DEF Promote

\* waitingOnID is not written by join: nobody is found to wait for t.
LEMMA NobodyWakes ==
  ASSUME NEW s, NEW t \in Thread, \A x \in Thread : s.waitingOnID[x] = NULL
  PROVE  Promote(s, Waiting, {x \in Thread : s.waitingOnID[x] = t}) = s
<1>1. {x \in Thread : s.waitingOnID[x] = t} = {}
  BY NullIsNoThread
<1> QED
  BY <1>1 DEF Promote, Meets, IsFirst

-----------------------------------------------------------------------------
(* A pass of scheduler(). *)

\* RunQueues but for the time of x, which is written last.
Untimed(s, c, x) ==
  /\ Held(s, c)
  /\ \A t \in Thread : In(c[Running], t) => s.activeFlag[t] = "ACTIVE"
  /\ \A t \in Thread :
       In(c[Low], t) => s.activeFlag[t] = "RUNNABLE" /\ (t # x => s.lastTimeFinished[t] >= 0)

\* The flag of a thread that a pass takes from the processor.
Later(f) == CASE f = "YIELD" -> "ACTIVE" [] f \in {"WAITING", "DEAD"} -> f [] OTHER -> "RUNNABLE"

Mark(q) == IF q = Running THEN "ACTIVE" ELSE "RUNNABLE"

\* Behind whom queue 2 and the mutex link, but for the thread that runs.
Behind(s) ==
  LET parked == s.heap.rear[Waiting]
      last   == s.heap.wait[1].rear
  IN  /\ parked # NULL => s.activeFlag[parked] = "WAITING"
      /\ last # NULL => s.activeFlag[last] \in {"WAITING", "DEAD"} /\ last \in Lockers
      /\ \A t \in Thread : s.waitingOnID[t] = NULL

\* Where a pass leaves the thread it takes from the processor.
Requeued(s, c, z, e) ==
  /\ z \in Lib /\ Untimed(z, e, s.currThread) /\ Behind(z)
  /\ z.currThread = s.currThread /\ z.firstTime = s.firstTime
  /\ \A u \in Thread :
       z.activeFlag[u] = IF u = s.currThread THEN Later(s.activeFlag[u]) ELSE s.activeFlag[u]
  /\ \A q \in RunQueue, u \in Thread :
       In(e[q], u) <=> In(c[q], u) \/ (u = s.currThread /\ z.activeFlag[u] = Mark(q))

\* rear of a run queue is one of its nodes.
LEMMA RearIn ==
  ASSUME NEW s \in Lib, NEW c, Held(s, c), NEW q \in RunQueue, s.heap.front[q] # NULL
  PROVE  s.heap.rear[q] \in Thread /\ In(c[q], s.heap.rear[q])
<1>1. QueueHolds(s.heap, q, c[q]) /\ RearIs(s.heap, q, c[q])
  BY DEF Held
<1>2. c[q] # << >> /\ c[q] \in Seq(Thread)
  BY <1>1 DEF QueueHolds
<1>3. Len(c[q]) \in 1 .. Len(c[q]) /\ c[q][Len(c[q])] \in Thread
  BY <1>2, SeqIs
<1> QED
  BY <1>1, <1>2, <1>3 DEF RearIs, In

\* Who enters queue q, its flag being set for it.
LEMMA EnterQueue ==
  ASSUME NEW s \in Lib, NEW c, RunQueues(s, c), Behind(s), NEW t \in Thread, t = s.currThread,
         \A r \in RunQueue : ~ In(c[r], t),
         NEW q \in RunQueue, NEW f \in Flag, f = Mark(q), Later(s.activeFlag[t]) = f,
         s.activeFlag[t] \notin {"WAITING", "DEAD"}
  PROVE  Requeued(s, c, Enqueue([s EXCEPT !.activeFlag[t] = f], t, q), Put(c, q, t))
<1> DEFINE y == [s EXCEPT !.activeFlag[t] = f]
           z == Enqueue(y, t, q)
           e == Put(c, q, t)
<1>1. /\ y \in Lib /\ y.heap = s.heap /\ y.numNodes = s.numNodes
      /\ y.waitingOnID = s.waitingOnID /\ y.lastTimeFinished = s.lastTimeFinished
      /\ y.currThread = s.currThread /\ y.firstTime = s.firstTime
      /\ \A u \in Thread : y.activeFlag[u] = IF u = t THEN f ELSE s.activeFlag[u]
  BY DEF Lib
<1> HIDE DEF y
<1>2. Held(y, c) /\ q \in Queue
  BY <1>1, RunQueueIs DEF RunQueues, Held
<1>3. ASSUME NEW r \in RunQueue \ {q}, y.heap.front[q] # NULL
      PROVE  ~ In(c[r], y.heap.rear[q])
  <2>1. y.heap.rear[q] \in Thread /\ In(c[q], y.heap.rear[q])
    BY <1>1, <1>2, <1>3, RearIn
  <2> QED
    BY <1>3, <2>1 DEF RunQueues, RunQueue
<1>4. /\ Held(z, e)
      /\ \A r \in RunQueue, u \in Thread : In(e[r], u) <=> In(c[r], u) \/ (r = q /\ u = t)
  BY <1>1, <1>2, <1>3, EnqueueHeld
<1>5. z \in Lib /\ SameButLists(z, y) /\ z.heap = enqueue(s.heap, t, q)
  BY <1>1, <1>2, EnqueueIs
<1>6. z.heap.rear[Waiting] = s.heap.rear[Waiting] /\ z.heap.wait = s.heap.wait
  <2>1. Waiting \in Queue /\ Waiting # q /\ s.heap \in Heap
    BY QueueNumbers DEF RunQueue, Waiting, Running, Low, Lib
  <2>2. enqueue(s.heap, t, q).wait = s.heap.wait
    BY DEF enqueue
  <2>3. enqueue(s.heap, t, q).rear[Waiting] = s.heap.rear[Waiting]
    BY <1>2, <2>1, EnqueueEmpty, EnqueueBehind
  <2> QED
    BY <1>5, <2>2, <2>3
<1> HIDE DEF z, e
<1>7. /\ \A u \in Thread : z.activeFlag[u] = IF u = t THEN f ELSE s.activeFlag[u]
      /\ z.lastTimeFinished = s.lastTimeFinished /\ z.waitingOnID = s.waitingOnID
      /\ z.currThread = t /\ z.firstTime = s.firstTime
  BY <1>1, <1>5 DEF SameButLists
<1>8. Running # Low /\ RunQueue = {Running, Low}
  BY DEF RunQueue, Running, Low
<1>9. Untimed(z, e, t)
  <2>1. \A u \in Thread : In(e[Running], u) => z.activeFlag[u] = "ACTIVE"
    BY <1>4, <1>7, <1>8 DEF RunQueues, Mark
  <2>2. \A u \in Thread :
          In(e[Low], u) => z.activeFlag[u] = "RUNNABLE" /\ (u # t => z.lastTimeFinished[u] >= 0)
    BY <1>4, <1>7, <1>8 DEF RunQueues, Mark
  <2> QED
    BY <1>4, <2>1, <2>2 DEF Untimed
<1>10. Behind(z)
  <2>1. s.heap.rear[Waiting] \in Pointer /\ s.heap.wait[1].rear \in Pointer
    BY OneMutex, QueueNumbers DEF Lib, Heap
  <2> QED
    BY <1>6, <1>7, <2>1 DEF Behind, Pointer
<1>11. \A r \in RunQueue, u \in Thread :
         In(e[r], u) <=> In(c[r], u) \/ (u = t /\ z.activeFlag[u] = Mark(r))
  BY <1>4, <1>7, <1>8 DEF Mark
<1> QED
  BY <1>5, <1>7, <1>9, <1>10, <1>11 DEF Requeued, y, z, e

\* Who waits enters queue 2.
LEMMA EnterWaiting ==
  ASSUME NEW s \in Lib, NEW c, RunQueues(s, c), Elsewhere(s), NEW t \in Thread, t = s.currThread,
         \A r \in RunQueue : ~ In(c[r], t), s.activeFlag[t] = "WAITING"
  PROVE  Requeued(s, c, Enqueue(s, t, Waiting), Put(c, Waiting, t))
<1> DEFINE z == Enqueue(s, t, Waiting)
           e == Put(c, Waiting, t)
<1>1. /\ Waiting \in Queue /\ Waiting \notin RunQueue /\ s.heap \in Heap
      /\ Running # Low /\ RunQueue = {Running, Low} /\ Held(s, c)
  BY QueueNumbers DEF RunQueue, Waiting, Running, Low, Lib, RunQueues
<1>2. ASSUME NEW r \in RunQueue PROVE ~ In(c[r], s.heap.rear[Waiting])
  <2> SUFFICES ASSUME In(c[r], s.heap.rear[Waiting]) PROVE FALSE
    OBVIOUS
  <2>1. c[r] \in Seq(Thread)
    BY <1>1 DEF Held, QueueHolds
  <2>2. s.heap.rear[Waiting] \in Thread
    BY <2>1, SeqIs DEF In
  <2>3. s.activeFlag[s.heap.rear[Waiting]] = "WAITING"
    BY <2>2, NullIsNoThread DEF Elsewhere
  <2> QED
    BY <1>1, <2>2, <2>3 DEF RunQueues
<1>3. /\ Held(z, e)
      /\ \A r \in RunQueue, u \in Thread : In(e[r], u) <=> In(c[r], u) \/ (r = Waiting /\ u = t)
  BY <1>1, <1>2, EnqueueHeld
<1>4. z \in Lib /\ SameButLists(z, s) /\ z.heap = enqueue(s.heap, t, Waiting)
  BY <1>1, EnqueueIs
<1>5. z.heap.rear[Waiting] = t /\ z.heap.wait = s.heap.wait
  <2>1. enqueue(s.heap, t, Waiting).wait = s.heap.wait
    BY DEF enqueue
  <2>2. enqueue(s.heap, t, Waiting).rear[Waiting] = t
    BY <1>1, EnqueueEmpty, EnqueueBehind
  <2> QED
    BY <1>4, <2>1, <2>2
<1> HIDE DEF z, e
<1>6. /\ z.activeFlag = s.activeFlag
      /\ z.lastTimeFinished = s.lastTimeFinished /\ z.waitingOnID = s.waitingOnID
      /\ z.currThread = t /\ z.firstTime = s.firstTime
  BY <1>4 DEF SameButLists
<1>7. \A r \in RunQueue, u \in Thread : In(e[r], u) <=> In(c[r], u)
  BY <1>1, <1>3
<1>8. Untimed(z, e, t)
  BY <1>1, <1>3, <1>6, <1>7 DEF Untimed, RunQueues
<1>9. Behind(z)
  BY <1>5, <1>6 DEF Behind, Elsewhere
<1>10. \A r \in RunQueue : z.activeFlag[t] # Mark(r)
  BY <1>6 DEF Mark
<1>11. Later(s.activeFlag[t]) = s.activeFlag[t]
  BY DEF Later
<1> QED
  BY <1>4, <1>6, <1>7, <1>8, <1>9, <1>10, <1>11 DEF Requeued, z, e

\* The current thread goes where its flag says.
LEMMA RequeueIs ==
  ASSUME NEW s \in Lib, NEW c, RunQueues(s, c), Elsewhere(s), s.currThread \in Thread,
         \A r \in RunQueue : ~ In(c[r], s.currThread)
  PROVE  \E e : Requeued(s, c, Requeue(s), e)
<1> DEFINE t == s.currThread
<1>1. Behind(s)
  BY DEF Behind, Elsewhere
<1>2. s.activeFlag[t] \in Flag
  BY DEF Lib
<1>3. Running # Low /\ Running \in RunQueue /\ Low \in RunQueue
      /\ "ACTIVE" \in Flag /\ "RUNNABLE" \in Flag
  BY RunQueueIs DEF Running, Low, Flag
<1>4. CASE s.activeFlag[t] = "WAITING"
  <2>1. Requeue(s) = Enqueue(s, t, Waiting)
    BY <1>4 DEF Requeue
  <2> QED
    BY <1>4, <2>1, EnterWaiting
<1>5. CASE s.activeFlag[t] = "DEAD"
  <2>1. Requeue(s) = s
    <3>1. Requeue(s) = Promote(s, Waiting, {x \in Thread : s.waitingOnID[x] = t})
      BY <1>5 DEF Requeue
    <3> QED
      BY <3>1, NobodyWakes DEF Elsewhere
  <2>2. Later(s.activeFlag[t]) = s.activeFlag[t] /\ \A r \in RunQueue : s.activeFlag[t] # Mark(r)
    BY <1>5 DEF Later, Mark
  <2>3. Untimed(s, c, t)
    BY DEF Untimed, RunQueues
  <2>4. Requeued(s, c, s, c)
    BY <1>1, <2>2, <2>3 DEF Requeued
  <2> QED
    BY <2>1, <2>4
<1>6. CASE s.activeFlag[t] = "YIELD"
  <2>1. Requeue(s) = Enqueue([s EXCEPT !.activeFlag[t] = "ACTIVE"], t, Running)
    BY <1>6 DEF Requeue
  <2>2. "ACTIVE" = Mark(Running) /\ Later(s.activeFlag[t]) = "ACTIVE"
    BY <1>6 DEF Mark, Later
  <2> QED
    BY <1>1, <1>3, <1>6, <2>1, <2>2, EnterQueue
<1>7. CASE s.activeFlag[t] \notin {"WAITING", "DEAD", "YIELD"}
  <2>1. Requeue(s) = Enqueue([s EXCEPT !.activeFlag[t] = "RUNNABLE"], t, Low)
    BY <1>7 DEF Requeue
  <2>2. "RUNNABLE" = Mark(Low) /\ Later(s.activeFlag[t]) = "RUNNABLE"
    BY <1>3, <1>7 DEF Mark, Later
  <2> QED
    BY <1>1, <1>3, <1>7, <2>1, <2>2, EnterQueue
<1> QED
  BY <1>4, <1>5, <1>6, <1>7

\* The next to run is taken from a queue, or there is nobody.
Picked(z, e, x, r, d) ==
  /\ r \in Lib /\ Untimed(r, d, x) /\ Behind(r)
  /\ r.activeFlag = z.activeFlag /\ r.lastTimeFinished = z.lastTimeFinished
  /\ r.firstTime = z.firstTime
  /\ \A q \in RunQueue, u \in Thread : In(d[q], u) <=> In(e[q], u) /\ u # r.currThread
  /\ IF r.currThread = NULL THEN r.heap.front[Running] = NULL /\ r.heap.front[Low] = NULL
     ELSE r.currThread \in Thread /\ \E q \in RunQueue : In(e[q], r.currThread)

LEMMA PickIs ==
  ASSUME NEW z \in Lib, NEW e, NEW x, Untimed(z, e, x), Behind(z)
  PROVE  \E d : Picked(z, e, x, Pick(z), d)
<1> DEFINE q == IF z.heap.front[Running] # NULL THEN Running ELSE Low
           n == z.heap.front[q]
<1>1. q \in RunQueue /\ Held(z, e) /\ Running # Low /\ RunQueue = {Running, Low}
  BY RunQueueIs DEF Untimed, RunQueue, Running, Low
<1>2. CASE n = NULL
  <2>1. Pick(z) = [z EXCEPT !.currThread = NULL]
    BY <1>2 DEF Pick
  <2>2. PICK r : r = Pick(z)
    OBVIOUS
  <2>3. /\ r \in Lib /\ r.currThread = NULL /\ r.heap = z.heap /\ r.numNodes = z.numNodes
        /\ r.activeFlag = z.activeFlag /\ r.lastTimeFinished = z.lastTimeFinished
        /\ r.firstTime = z.firstTime /\ r.waitingOnID = z.waitingOnID
    BY <2>1, <2>2 DEF Lib, Pointer
  <2>4. z.heap.front[Running] = NULL /\ z.heap.front[Low] = NULL
    BY <1>2
  <2>5. Untimed(r, e, x) /\ Behind(r)
    BY <2>3 DEF Untimed, Held, Behind
  <2>6. Picked(z, e, x, r, e)
    BY <2>3, <2>4, <2>5, NullIsNoThread DEF Picked
  <2> QED
    BY <2>2, <2>6
<1>3. CASE n # NULL
  <2> DEFINE y == Dequeue(z, q)
             d == Take(e, q)
  <2>1. /\ y \in Lib /\ SameButLists(y, z) /\ y.heap.rear = z.heap.rear
        /\ y.heap.wait = z.heap.wait /\ Held(y, d) /\ n \in Thread /\ In(e[q], n)
        /\ \A p \in RunQueue, u \in Thread : In(d[p], u) <=> In(e[p], u) /\ ~ (p = q /\ u = n)
    BY <1>1, <1>3, DequeueHeld
  <2>2. Pick(z) = [y EXCEPT !.currThread = n]
    BY <1>3 DEF Pick
  <2> HIDE DEF y, d, n, q
  <2>3. PICK r : r = Pick(z)
    OBVIOUS
  <2>4. /\ r \in Lib /\ r.currThread = n /\ r.heap = y.heap /\ r.numNodes = y.numNodes
        /\ r.activeFlag = y.activeFlag /\ r.lastTimeFinished = y.lastTimeFinished
        /\ r.firstTime = y.firstTime /\ r.waitingOnID = y.waitingOnID
    BY <2>1, <2>2, <2>3 DEF Lib, Pointer
  <2>5. /\ r.activeFlag = z.activeFlag /\ r.lastTimeFinished = z.lastTimeFinished
        /\ r.firstTime = z.firstTime /\ r.waitingOnID = z.waitingOnID
        /\ r.heap.rear = z.heap.rear /\ r.heap.wait = z.heap.wait
    BY <2>1, <2>4 DEF SameButLists
  <2>6. \A p \in RunQueue, u \in Thread : In(d[p], u) <=> In(e[p], u) /\ u # n
    <3>1. \A p \in RunQueue : In(e[p], n) => p = q
      BY <1>1, <2>1 DEF Untimed
    <3> QED
      BY <2>1, <3>1
  <2>7. Untimed(r, d, x)
    <3>1. Held(r, d)
      BY <2>1, <2>4 DEF Held
    <3> QED
      BY <1>1, <2>5, <2>6, <3>1 DEF Untimed
  <2>8. Behind(r)
    BY <2>5 DEF Behind
  <2>9. r.currThread # NULL /\ \E p \in RunQueue : In(e[p], r.currThread)
    BY <1>1, <1>3, <2>1, <2>4
  <2>10. Picked(z, e, x, r, d)
    BY <2>1, <2>4, <2>5, <2>6, <2>7, <2>8, <2>9 DEF Picked
  <2> QED
    BY <2>3, <2>10
<1> QED
  BY <1>2, <1>3

\* Turning queue 0 leaves everybody where he is.
LEMMA TurnIs ==
  ASSUME NEW s \in Lib, NEW c, RunQueues(s, c), Behind(s), s.heap.front[Running] # NULL
  PROVE  \E z, e :
           /\ z \in Lib /\ Untimed(z, e, NULL) /\ Behind(z) /\ Turn(s) = Pick(z)
           /\ z.activeFlag = s.activeFlag /\ z.firstTime = s.firstTime
           /\ \A q \in RunQueue, u \in Thread : In(e[q], u) <=> In(c[q], u)
<1> DEFINE m == s.heap.front[Running]
           x == Dequeue(s, Running)
           y == [x EXCEPT !.activeFlag[m] = "ACTIVE"]
           z == Enqueue(y, m, Running)
           b == Take(c, Running)
           e == Put(b, Running, m)
<1>1. /\ Running \in Queue /\ Running \in RunQueue /\ Running # Low /\ RunQueue = {Running, Low}
      /\ Held(s, c) /\ Running # Waiting /\ Waiting \in Queue
  BY QueueNumbers, RunQueueIs DEF RunQueue, Running, Low, Waiting, RunQueues
<1>2. /\ x \in Lib /\ SameButLists(x, s) /\ x.heap.rear = s.heap.rear
      /\ x.heap.wait = s.heap.wait /\ Held(x, b) /\ m \in Thread /\ In(c[Running], m)
      /\ \A p \in RunQueue, u \in Thread :
           In(b[p], u) <=> In(c[p], u) /\ ~ (p = Running /\ u = m)
  BY <1>1, DequeueHeld
<1>3. s.activeFlag[m] = "ACTIVE"
  BY <1>2 DEF RunQueues
<1> HIDE DEF m, x, b
<1>4. /\ y \in Lib /\ y.heap = x.heap /\ y.numNodes = x.numNodes
      /\ y.waitingOnID = s.waitingOnID /\ y.lastTimeFinished = s.lastTimeFinished
      /\ y.firstTime = s.firstTime /\ y.activeFlag = s.activeFlag
  <2>1. "ACTIVE" \in Flag /\ x.activeFlag = s.activeFlag
    BY <1>2 DEF Flag, SameButLists
  <2>2. [x.activeFlag EXCEPT ![m] = "ACTIVE"] = x.activeFlag
    BY <1>2, <1>3, <2>1 DEF Lib
  <2>3. PICK g \in [Thread -> Flag] : g = x.activeFlag
    BY <1>2 DEF Lib
  <2>4. y = [x EXCEPT !.activeFlag = g]
    BY <1>2, <2>2, <2>3 DEF Lib
  <2> HIDE DEF y
  <2>5. /\ y \in Lib /\ y.heap = x.heap /\ y.numNodes = x.numNodes
        /\ y.waitingOnID = x.waitingOnID /\ y.lastTimeFinished = x.lastTimeFinished
        /\ y.firstTime = x.firstTime /\ y.activeFlag = g
    BY <1>2, <2>3, <2>4 DEF Lib
  <2> QED
    BY <1>2, <2>1, <2>3, <2>5 DEF SameButLists
<1> HIDE DEF y
<1>5. Held(y, b) /\ \A p \in RunQueue : ~ In(b[p], m)
  <2>1. Held(y, b)
    BY <1>2, <1>4 DEF Held
  <2>2. ~ In(c[Low], m)
    BY <1>1, <1>2, <1>3 DEF RunQueues
  <2> QED
    BY <1>1, <1>2, <2>1, <2>2
<1>6. ASSUME NEW p \in RunQueue \ {Running}, y.heap.front[Running] # NULL
      PROVE  ~ In(b[p], y.heap.rear[Running])
  <2>1. y.heap.rear[Running] \in Thread /\ In(b[Running], y.heap.rear[Running])
    BY <1>1, <1>4, <1>5, <1>6, RearIn
  <2> QED
    BY <1>1, <1>2, <1>6, <2>1 DEF RunQueues
<1>7. /\ Held(z, e)
      /\ \A p \in RunQueue, u \in Thread : In(e[p], u) <=> In(b[p], u) \/ (p = Running /\ u = m)
  BY <1>1, <1>2, <1>4, <1>5, <1>6, EnqueueHeld
<1>8. z \in Lib /\ SameButLists(z, y) /\ z.heap = enqueue(y.heap, m, Running)
  BY <1>1, <1>2, <1>4, EnqueueIs
<1>9. z.heap.rear[Waiting] = s.heap.rear[Waiting] /\ z.heap.wait = s.heap.wait
  <2>1. y.heap \in Heap
    BY <1>4 DEF Lib
  <2>2. enqueue(y.heap, m, Running).wait = y.heap.wait
    BY DEF enqueue
  <2>3. enqueue(y.heap, m, Running).rear[Waiting] = y.heap.rear[Waiting]
    BY <1>1, <1>2, <2>1, EnqueueEmpty, EnqueueBehind
  <2> QED
    BY <1>2, <1>4, <1>8, <2>2, <2>3
<1>10. Turn(s) = Pick(z)
  BY DEF Turn, m, x, y, z
<1> HIDE DEF z, e
<1>11. /\ z.activeFlag = s.activeFlag /\ z.firstTime = s.firstTime
       /\ z.lastTimeFinished = s.lastTimeFinished /\ z.waitingOnID = s.waitingOnID
  BY <1>4, <1>8 DEF SameButLists
<1>12. \A q \in RunQueue, u \in Thread : In(e[q], u) <=> In(c[q], u)
  BY <1>2, <1>7
<1>13. Untimed(z, e, NULL)
  BY <1>1, <1>7, <1>11, <1>12 DEF Untimed, RunQueues
<1>14. Behind(z)
  BY <1>9, <1>11 DEF Behind
<1> QED
  BY <1>8, <1>10, <1>11, <1>12, <1>13, <1>14

\* What a pass does: the current thread is queued by its flag, and the next is
\* taken from a queue, or both are empty.
Passed(s, c, r, d) ==
  /\ r \in Lib /\ RunQueues(r, d) /\ Elsewhere(r) /\ r.firstTime = s.firstTime
  /\ \A u \in Thread :
       r.activeFlag[u] = IF u = s.currThread THEN Later(s.activeFlag[u]) ELSE s.activeFlag[u]
  /\ \A q \in RunQueue, u \in Thread :
       In(d[q], u) <=> u # r.currThread
                         /\ (In(c[q], u) \/ (u = s.currThread /\ r.activeFlag[u] = Mark(q)))
  /\ IF r.currThread = NULL
     THEN s.currThread # NULL /\ r.heap.front[Running] = NULL /\ r.heap.front[Low] = NULL
     ELSE /\ r.activeFlag[r.currThread] \in {"ACTIVE", "RUNNABLE"}
          /\ r.currThread = s.currThread \/ \E q \in RunQueue : In(c[q], r.currThread)

\* An empty queue has no nodes.
LEMMA NoNodes ==
  ASSUME NEW s \in Lib, NEW c, Held(s, c), NEW q \in RunQueue
  PROVE  s.heap.front[q] = NULL <=> c[q] = << >>
<1>1. QueueHolds(s.heap, q, c[q])
  BY DEF Held
<1>2. c[q] # << >> => c[q][1] \in Thread
  BY <1>1, SeqIs DEF QueueHolds
<1> QED
  BY <1>1, <1>2, NullIsNoThread DEF QueueHolds

LEMMA NobodyIn == \A t : ~ In(<< >>, t)
  BY DEF In

\* Who was taken from a queue is ready: queue 2 does not link behind it.
LEMMA PickedElsewhere ==
  ASSUME NEW z, NEW e, NEW x, NEW r, NEW d, Picked(z, e, x, r, d), Untimed(z, e, x)
  PROVE  /\ Elsewhere(r)
         /\ r.currThread # NULL => r.activeFlag[r.currThread] \in {"ACTIVE", "RUNNABLE"}
<1>1. r.currThread # NULL => r.activeFlag[r.currThread] \in {"ACTIVE", "RUNNABLE"}
  BY DEF Picked, Untimed, RunQueue
<1> QED
  BY <1>1 DEF Picked, Behind, Elsewhere

\* A pass without a current thread, ...
LEMMA TurnPasses ==
  ASSUME NEW s \in Lib, NEW c, RunQueues(s, c), Elsewhere(s), NEW now \in timeStamp,
         s.currThread = NULL, s.heap.front[Running] # NULL
  PROVE  \E d : Passed(s, c, PassOf(s, now), d)
<1>1. Behind(s)
  BY DEF Behind, Elsewhere
<1>2. PICK z, e :
        /\ z \in Lib /\ Untimed(z, e, NULL) /\ Behind(z) /\ Turn(s) = Pick(z)
        /\ z.activeFlag = s.activeFlag /\ z.firstTime = s.firstTime
        /\ \A q \in RunQueue, u \in Thread : In(e[q], u) <=> In(c[q], u)
  BY <1>1, TurnIs
<1>3. PICK d : Picked(z, e, NULL, Pick(z), d)
  BY <1>2, PickIs
<1>4. PassOf(s, now) = Pick(z)
  <2>1. PassOf(s, now) = Switch(Turn(s), NULL, now)
    BY NobodyAges DEF PassOf
  <2> QED
    BY <1>2, <2>1 DEF Switch
<1>5. PICK r : r = Pick(z)
  OBVIOUS
<1>6. /\ r \in Lib /\ Untimed(r, d, NULL)
      /\ r.activeFlag = s.activeFlag /\ r.firstTime = s.firstTime
      /\ \A q \in RunQueue, u \in Thread : In(d[q], u) <=> In(c[q], u) /\ u # r.currThread
      /\ r.currThread = NULL => r.heap.front[Running] = NULL
      /\ r.currThread # NULL => r.currThread \in Thread /\ \E q \in RunQueue : In(c[q], r.currThread)
  BY <1>2, <1>3, <1>5 DEF Picked
<1>7. RunQueues(r, d)
  BY <1>6, NullIsNoThread DEF Untimed, RunQueues
<1>8. /\ Elsewhere(r)
      /\ r.currThread # NULL => r.activeFlag[r.currThread] \in {"ACTIVE", "RUNNABLE"}
  BY <1>2, <1>3, <1>5, PickedElsewhere
<1>9. r.currThread # NULL
  <2> SUFFICES ASSUME r.currThread = NULL PROVE FALSE
    OBVIOUS
  <2>1. Held(s, c) /\ Held(r, d) /\ Running \in RunQueue
    BY <1>7, RunQueueIs DEF RunQueues
  <2>2. d[Running] = << >>
    BY <1>6, <2>1, NoNodes
  <2>3. s.heap.rear[Running] \in Thread /\ In(c[Running], s.heap.rear[Running])
    BY <2>1, RearIn
  <2>4. In(d[Running], s.heap.rear[Running])
    BY <1>6, <2>1, <2>3, NullIsNoThread
  <2> QED
    BY <2>2, <2>4, NobodyIn
<1>10. Passed(s, c, r, d)
  BY <1>6, <1>7, <1>8, <1>9, NullIsNoThread DEF Passed
<1> QED
  BY <1>4, <1>5, <1>10

\* ... and one with.
LEMMA SwitchPasses ==
  ASSUME NEW s \in Lib, NEW c, RunQueues(s, c), Elsewhere(s), NEW now \in timeStamp,
         s.currThread # NULL, \A q \in RunQueue : ~ In(c[q], s.currThread)
  PROVE  \E d : Passed(s, c, PassOf(s, now), d)
<1> DEFINE t == s.currThread
<1>1. t \in Thread
  BY DEF Lib, Pointer
<1>2. PICK e : Requeued(s, c, Requeue(s), e)
  BY <1>1, RequeueIs
<1>3. PICK z : z = Requeue(s)
  OBVIOUS
<1>4. /\ z \in Lib /\ Untimed(z, e, t) /\ Behind(z) /\ z.firstTime = s.firstTime
      /\ \A u \in Thread :
           z.activeFlag[u] = IF u = t THEN Later(s.activeFlag[u]) ELSE s.activeFlag[u]
      /\ \A q \in RunQueue, u \in Thread :
           In(e[q], u) <=> In(c[q], u) \/ (u = t /\ z.activeFlag[u] = Mark(q))
  BY <1>2, <1>3 DEF Requeued
<1>5. PICK d : Picked(z, e, t, Pick(z), d)
  BY <1>4, PickIs
<1>6. PICK y : y = Pick(z)
  OBVIOUS
<1>7. Picked(z, e, t, y, d)
  BY <1>5, <1>6
<1>8. PassOf(s, now) = Switch(y, t, now)
  BY <1>3, <1>6, NobodyAges DEF PassOf
<1>9. /\ Elsewhere(y)
      /\ y.currThread # NULL => y.activeFlag[y.currThread] \in {"ACTIVE", "RUNNABLE"}
  BY <1>4, <1>7, PickedElsewhere
<1>10. PICK r : r = Switch(y, t, now)
  OBVIOUS
<1>11. /\ y \in Lib /\ Untimed(y, d, t) /\ y.activeFlag = z.activeFlag /\ y.firstTime = z.firstTime
       /\ \A q \in RunQueue, u \in Thread : In(d[q], u) <=> In(e[q], u) /\ u # y.currThread
       /\ IF y.currThread = NULL
          THEN y.heap.front[Running] = NULL /\ y.heap.front[Low] = NULL
          ELSE y.currThread \in Thread /\ \E q \in RunQueue : In(e[q], y.currThread)
  BY <1>7 DEF Picked
<1>12. now \in Int /\ now >= 0 /\ now \in Unwritten \cup timeStamp
  BY SecondIsPositive DEF timeStamp
<1>13. /\ r \in Lib /\ r.heap = y.heap /\ r.numNodes = y.numNodes /\ r.activeFlag = y.activeFlag
       /\ r.waitingOnID = y.waitingOnID /\ r.currThread = y.currThread /\ r.firstTime = y.firstTime
       /\ y.currThread # NULL =>
            \A u \in Thread : r.lastTimeFinished[u] = IF u = t THEN now ELSE y.lastTimeFinished[u]
  <2>1. CASE y.currThread = NULL
    BY <1>10, <1>11, <2>1 DEF Switch
  <2>2. CASE y.currThread # NULL
    <3>1. PICK g \in [Thread -> Unwritten \cup timeStamp] :
            g = [y.lastTimeFinished EXCEPT ![t] = now]
      BY <1>1, <1>11, <1>12 DEF Lib
    <3>2. r = [y EXCEPT !.lastTimeFinished = g]
      BY <1>10, <1>11, <2>2, <3>1 DEF Switch
    <3>3. \A u \in Thread : g[u] = IF u = t THEN now ELSE y.lastTimeFinished[u]
      BY <1>1, <1>11, <3>1 DEF Lib
    <3> QED
      BY <1>11, <3>2, <3>3 DEF Lib
  <2> QED
    BY <2>1, <2>2
<1>14. RunQueues(r, d)
  <2>1. Held(r, d)
    BY <1>11, <1>13 DEF Held, Untimed
  <2>2. CASE y.currThread = NULL
    <3>1. d[Running] = << >> /\ d[Low] = << >>
      BY <1>11, <1>13, <2>1, <2>2, NoNodes, RunQueueIs
    <3> QED
      BY <2>1, <3>1, NobodyIn DEF RunQueues
  <2>3. CASE y.currThread # NULL
    BY <1>11, <1>12, <1>13, <2>1, <2>3 DEF Untimed, RunQueues
  <2> QED
    BY <2>2, <2>3
<1>15. Elsewhere(r)
  BY <1>9, <1>13 DEF Elsewhere
<1>16. \A q \in RunQueue, u \in Thread :
         In(d[q], u) <=> u # r.currThread
                           /\ (In(c[q], u) \/ (u = t /\ r.activeFlag[u] = Mark(q)))
  BY <1>4, <1>11, <1>13
<1>17. IF r.currThread = NULL
       THEN r.heap.front[Running] = NULL /\ r.heap.front[Low] = NULL
       ELSE /\ r.activeFlag[r.currThread] \in {"ACTIVE", "RUNNABLE"}
            /\ r.currThread = t \/ \E q \in RunQueue : In(c[q], r.currThread)
  BY <1>4, <1>9, <1>11, <1>13
<1>18. /\ r.firstTime = s.firstTime
       /\ \A u \in Thread :
            r.activeFlag[u] = IF u = t THEN Later(s.activeFlag[u]) ELSE s.activeFlag[u]
  BY <1>4, <1>11, <1>13
<1>19. Passed(s, c, r, d)
  BY <1>13, <1>14, <1>15, <1>16, <1>17, <1>18 DEF Passed
<1> QED
  BY <1>8, <1>10, <1>19

\* The thread that left the processor is where its flag says, the one that
\* entered it is in no queue.
LEMMA PassPlaces ==
  ASSUME NEW s \in Lib, NEW c, NEW r, NEW d, Passed(s, c, r, d),
         NEW places, NEW lost, Placed(s, c, places, lost), Calling(s, places)
  PROVE  Placed(r, d, places, lost) /\ Calling(r, places)
<1> USE RunQueueIs DEF Passed
<1>1. /\ r.currThread # NULL => places[r.currThread] # "unborn"
      /\ s.currThread # NULL => s.currThread \in Thread /\ places[s.currThread] # "unborn"
      /\ r.currThread \in Pointer
  BY DEF Lib, Pointer, Calling, Placed, RunQueue
<1>2. \A t \in Thread : s.activeFlag[t] \in Flag
  BY DEF Lib
<1>3. ASSUME NEW t \in Thread, In(d[Running], t) \/ In(d[Low], t)
      PROVE  t # r.currThread /\ places[t] # "unborn"
  BY <1>1, <1>3, NullIsNoThread DEF Placed
<1>4. ASSUME NEW t \in Thread, t # r.currThread, places[t] # "unborn"
      PROVE  /\ r.activeFlag[t] # "YIELD"
             /\ ~ lost /\ r.activeFlag[t] = "ACTIVE" => In(d[Running], t)
             /\ ~ lost /\ r.activeFlag[t] = "RUNNABLE" => In(d[Low], t)
  <2>1. CASE t = s.currThread
    <3>1. r.activeFlag[t] # "YIELD"
      BY <2>1 DEF Later
    <3>2. Mark(Running) = "ACTIVE" /\ Mark(Low) = "RUNNABLE"
      BY DEF Mark, Running, Low
    <3> QED
      BY <1>4, <2>1, <3>1, <3>2
  <2>2. CASE t # s.currThread
    BY <1>4, <2>2 DEF Placed
  <2> QED
    BY <2>1, <2>2
<1>5. Placed(r, d, places, lost)
  BY <1>3, <1>4 DEF Placed
<1>6. ASSUME NEW t \in Thread, places[t] = "unborn"
      PROVE  r.activeFlag[t] = "ACTIVE" /\ t # r.currThread
  BY <1>1, <1>6, NullIsNoThread DEF Calling
<1>7. ASSUME NEW t \in Thread, places[t] \in {"join", "joined", "append"}
      PROVE  r.activeFlag[t] = "WAITING"
  BY <1>7 DEF Calling, Later
<1>8. Calling(r, places)
  BY <1>6, <1>7 DEF Calling
<1> QED
  BY <1>5, <1>8

\* Who is left on the processor with nobody to run waits or has ended.
LEMMA PassProcessor ==
  ASSUME NEW s \in Lib, NEW c, NEW r, NEW d, Passed(s, c, r, d),
         NEW places, NEW lost, Placed(s, c, places, lost), Calling(s, places),
         NEW on \in Thread, s.currThread \in {on, NULL}, places[on] # "unborn",
         NEW to, to = IF r.currThread = NULL THEN on ELSE r.currThread
  PROVE  /\ to \in Thread /\ places[to] # "unborn"
         /\ \/ r.currThread = to
            \/ r.currThread = NULL /\ r.activeFlag[to] \in {"WAITING", "DEAD"}
         /\ places[to] = "joined" =>
              r.currThread = NULL /\ r.heap.front[Running] = NULL /\ r.heap.front[Low] = NULL
<1>1. r \in Lib /\ r.currThread \in Pointer
  BY DEF Passed, Lib
<1>2. Calling(r, places)
  BY PassPlaces
<1>3. CASE r.currThread = NULL
  <2>1. /\ s.currThread = on /\ to = on /\ r.activeFlag[on] = Later(s.activeFlag[on])
        /\ r.heap.front[Running] = NULL /\ r.heap.front[Low] = NULL
    BY <1>3 DEF Passed
  <2>2. Held(r, d)
    BY DEF Passed, RunQueues
  <2>3. \A q \in RunQueue : ~ In(d[q], on)
    <3>1. d[Running] = << >> /\ d[Low] = << >>
      BY <1>1, <2>1, <2>2, NoNodes, RunQueueIs
    <3> QED
      BY <3>1, NobodyIn DEF RunQueue
  <2>4. \A q \in RunQueue : r.activeFlag[on] # Mark(q)
    BY <1>3, <2>1, <2>3, NullIsNoThread DEF Passed
  <2>5. r.activeFlag[on] # "ACTIVE" /\ r.activeFlag[on] # "RUNNABLE"
    BY <2>4, RunQueueIs DEF Mark, Running, Low
  <2>6. r.activeFlag[on] \in {"WAITING", "DEAD"}
    <3>1. Later(s.activeFlag[on]) \in {"ACTIVE", "RUNNABLE", "WAITING", "DEAD"}
      BY DEF Later
    <3> QED
      BY <2>1, <2>5, <3>1
  <2> QED
    BY <1>3, <2>1, <2>6
<1>4. CASE r.currThread # NULL
  <2>1. to = r.currThread /\ to \in Thread /\ r.activeFlag[to] \in {"ACTIVE", "RUNNABLE"}
    BY <1>1, <1>4 DEF Passed, Pointer
  <2> QED
    BY <1>2, <2>1 DEF Calling
<1> QED
  BY <1>3, <1>4

-----------------------------------------------------------------------------
(* One step of each kind. *)

\* The types, and queues that are right.
Good == TypeOK /\ \E c : LibraryInv(c)

\* Who waits is not woken.
Parks == \A t \in Thread :
           t # cpu /\ lib.activeFlag[t] = "WAITING"
             => cpu' # t /\ lib'.activeFlag[t] = "WAITING"

\* A pass on s, which is lib or what the first create makes of it.
LEMMA SchedulerGood ==
  ASSUME TypeOK, process = "runs",
         NEW s \in Lib, s.activeFlag = lib.activeFlag, NEW c, RunQueues(s, c), Elsewhere(s), ~ s.firstTime,
         NEW places \in [Thread -> Places], Placed(s, c, places, wiped), Calling(s, places),
         s.currThread \in {cpu, NULL}, places[cpu] # "unborn", places[Main] # "unborn",
         s.currThread # NULL \/ s.heap.front[Running] # NULL,
         scheduler(s, places)
  PROVE  Good' /\ Parks
<1>1. PICK now \in timeStamp :
        /\ lib' = PassOf(s, now)
        /\ cpu' = IF lib'.currThread = NULL THEN cpu ELSE lib'.currThread
        /\ pc' = places
        /\ UNCHANGED << lock, wiped, process >>
  BY DEF scheduler
<1>2. PICK d : Passed(s, c, lib', d)
  <2>1. CASE s.currThread = NULL
    BY <1>1, <2>1, TurnPasses
  <2>2. CASE s.currThread # NULL
    <3>1. \A q \in RunQueue : ~ In(c[q], s.currThread)
      BY <2>2 DEF Lib, Pointer, Placed, RunQueue
    <3> QED
      BY <1>1, <2>2, <3>1, SwitchPasses
  <2> QED
    BY <2>1, <2>2
<1>3. cpu \in Thread
  BY DEF TypeOK
<1>4. Placed(lib', d, places, wiped) /\ Calling(lib', places)
  BY <1>2, PassPlaces
<1>5. /\ cpu' \in Thread /\ places[cpu'] # "unborn"
      /\ \/ lib'.currThread = cpu'
         \/ lib'.currThread = NULL /\ lib'.activeFlag[cpu'] \in {"WAITING", "DEAD"}
      /\ places[cpu'] = "joined" =>
           lib'.currThread = NULL /\ lib'.heap.front[Running] = NULL
             /\ lib'.heap.front[Low] = NULL
  BY <1>1, <1>2, <1>3, PassProcessor
<1>6. /\ lib' \in Lib /\ RunQueues(lib', d) /\ Elsewhere(lib') /\ ~ lib'.firstTime
  BY <1>2 DEF Passed
<1>7. TypeOK'
  BY <1>1, <1>5, <1>6 DEF TypeOK
<1>8. LibraryInv(d)'
  BY <1>1, <1>4, <1>5, <1>6 DEF LibraryInv, OnProcessor
<1>9. Parks
  <2> SUFFICES ASSUME NEW t \in Thread, t # cpu, s.activeFlag[t] = "WAITING"
               PROVE  cpu' # t /\ lib'.activeFlag[t] = "WAITING"
    BY DEF Parks
  <2>1. lib'.activeFlag[t] = "WAITING"
    BY <1>2, NullIsNoThread DEF Passed
  <2> QED
    BY <1>1, <1>2, <2>1 DEF Passed
<1> QED
  BY <1>7, <1>8, <1>9 DEF Good

\* What the invariant says of the thread that runs.
LEMMA GoodIs ==
  ASSUME TypeOK, NEW c, LibraryInv(c)
  PROVE  /\ lib \in Lib /\ cpu \in Thread /\ pc \in [Thread -> Places] /\ wiped \in BOOLEAN
         /\ RunQueues(lib, c) /\ Held(lib, c) /\ Elsewhere(lib) /\ Calling(lib, pc)
         /\ pc[cpu] # "unborn" /\ pc[Main] # "unborn"
         /\ lib.currThread \in {cpu, NULL}
         /\ lib.firstTime =>
              /\ lib.currThread = NULL /\ cpu = Main /\ wiped = FALSE
              /\ lib.activeFlag[Main] = "ACTIVE"
              /\ \A t \in Thread \ {Main} : pc[t] = "unborn"
              /\ lib.heap.front[Running] = NULL
         /\ ~ lib.firstTime =>
              /\ Placed(lib, c, pc, wiped)
              /\ lib.currThread = NULL => lib.activeFlag[cpu] \in {"WAITING", "DEAD"}
<1>1. lib.firstTime => lib.heap.front[Running] = NULL
  BY RunQueueIs, NoNodes DEF LibraryInv, RunQueues, TypeOK
<1>2. /\ lib \in Lib /\ cpu \in Thread /\ pc \in [Thread -> Places] /\ wiped \in BOOLEAN
      /\ RunQueues(lib, c) /\ Held(lib, c) /\ Elsewhere(lib) /\ Calling(lib, pc)
      /\ ~ lib.firstTime => Placed(lib, c, pc, wiped)
  BY DEF TypeOK, LibraryInv, RunQueues
<1>3. OnProcessor
  BY DEF LibraryInv
<1>4. lib.currThread \in {cpu, NULL}
  BY <1>3 DEF OnProcessor
<1>5. lib.firstTime => wiped = FALSE
  BY <1>2, <1>3 DEF OnProcessor
<1> QED
  BY <1>1, <1>2, <1>3, <1>4, <1>5, NullIsNoThread DEF OnProcessor

\* The library crashes or the program ends.
LEMMA StopGood ==
  ASSUME Good, process' \in {"ended", "crashed"}, UNCHANGED << lib, lock, cpu, pc, wiped >>
  PROVE  Good' /\ Parks
<1>1. Good'
  BY DEF Good, TypeOK, LibraryInv, OnProcessor
<1>2. Parks
  BY DEF Parks
<1> QED
  BY <1>1, <1>2

LEMMA CrashGood == ASSUME Good, Crash
  PROVE  Good' /\ Parks
  BY StopGood DEF Crash

\* A pass that is called, or that SIGALRM makes.
LEMMA CallSchedulerGood == ASSUME Good, process = "runs", CallScheduler(cpu)
  PROVE  Good' /\ Parks
<1> DEFINE places == [pc EXCEPT ![cpu] = After[pc[cpu]]]
<1>1. PICK c : LibraryInv(c)
  BY DEF Good
<1>2. TypeOK /\ pc[cpu] \in DOMAIN After /\ scheduler(lib, places)
  BY DEF Good, CallScheduler
<1>3. CASE lib.currThread = NULL /\ lib.heap.front[Running] = NULL
  BY <1>2, <1>3, CrashGood DEF scheduler
<1>4. CASE ~ (lib.currThread = NULL /\ lib.heap.front[Running] = NULL)
  <2>1. ~ lib.firstTime
    BY <1>1, <1>2, <1>4, GoodIs
  <2>2. /\ places \in [Thread -> Places]
        /\ \A t \in Thread : places[t] = IF t = cpu THEN After[pc[cpu]] ELSE pc[t]
    <3>1. After[pc[cpu]] \in Places
      BY <1>2 DEF After, Places
    <3> QED
      BY <1>1, <1>2, <3>1, GoodIs
  <2>3. /\ After[pc[cpu]] \in {"user", "over", "joined", "clear"}
        /\ After[pc[cpu]] = "joined" => pc[cpu] = "join"
        /\ After[pc[cpu]] = "clear" => pc[cpu] = "unlock"
    BY <1>2 DEF After
  <2> HIDE DEF places
  <2>4. \A t \in Thread : places[t] = "unborn" <=> pc[t] = "unborn"
    BY <1>1, <1>2, <2>2, <2>3, GoodIs
  <2>5. Placed(lib, c, places, wiped)
    <3>1. Placed(lib, c, pc, wiped)
      BY <1>1, <1>2, <2>1, GoodIs
    <3> QED
      BY <2>4, <3>1 DEF Placed
  <2>6. Calling(lib, places)
    <3>1. Calling(lib, pc)
      BY <1>1, <1>2, GoodIs
    <3> QED
      BY <2>2, <2>3, <2>4, <3>1 DEF Calling
  <2>7. MainIsThread /\ Main \in Thread
    BY MainIsThread
  <2> QED
    BY <1>1, <1>2, <1>4, <2>1, <2>2, <2>4, <2>5, <2>6, <2>7, GoodIs, SchedulerGood
<1> QED
  BY <1>3, <1>4

LEMMA AlarmGood == ASSUME Good, process = "runs", Alarm
  PROVE  Good' /\ Parks
<1>1. PICK c : LibraryInv(c)
  BY DEF Good
<1>2. TypeOK /\ ~ lib.firstTime /\ scheduler(lib, pc)
  BY DEF Good, Alarm
<1>3. CASE lib.currThread = NULL /\ lib.heap.front[Running] = NULL
  BY <1>2, <1>3, CrashGood DEF scheduler
<1>4. CASE ~ (lib.currThread = NULL /\ lib.heap.front[Running] = NULL)
  BY <1>1, <1>2, <1>4, GoodIs, SchedulerGood
<1> QED
  BY <1>3, <1>4

\* A thread goes from one statement to another.
Inside == {"tas", "contend", "append", "set", "critical", "unlock", "clear"}

LEMMA MoveGood ==
  ASSUME Good, NEW to \in Places, to \notin {"unborn", "joined", "join", "append"},
         to \in Inside => cpu \in Lockers,
         pc' = [pc EXCEPT ![cpu] = to], lock' \in [ready : BOOLEAN, flag : {0, 1}],
         UNCHANGED << lib, cpu, wiped, process >>
  PROVE  Good'
<1>1. PICK c : LibraryInv(c)
  BY DEF Good
<1>2. TypeOK
  BY DEF Good
<1>3. pc' \in [Thread -> Places] /\ \A t \in Thread : pc'[t] = IF t = cpu THEN to ELSE pc[t]
  BY <1>2 DEF TypeOK
<1>4. \A t \in Thread : pc'[t] = "unborn" <=> pc[t] = "unborn"
  BY <1>1, <1>2, <1>3, GoodIs
<1>5. ~ lib.firstTime => Placed(lib, c, pc', wiped)
  <2> SUFFICES ASSUME ~ lib.firstTime PROVE Placed(lib, c, pc', wiped)
    OBVIOUS
  <2>1. Placed(lib, c, pc, wiped)
    BY <1>1, <1>2, GoodIs
  <2> QED
    BY <1>4, <2>1 DEF Placed
<1>6. Calling(lib, pc')
  <2>1. Calling(lib, pc)
    BY <1>1, <1>2, GoodIs
  <2> QED
    BY <1>3, <1>4, <2>1 DEF Calling, Inside
<1>7. OnProcessor'
  BY <1>1, <1>2, <1>3, <1>4, MainIsThread, GoodIs DEF LibraryInv, OnProcessor
<1>8. LibraryInv(c)'
  BY <1>1, <1>5, <1>6, <1>7 DEF LibraryInv
<1>9. TypeOK'
  BY <1>2, <1>3 DEF TypeOK
<1> QED
  BY <1>8, <1>9 DEF Good

\* The thread that runs is marked for the pass to come.
LEMMA FlagGood ==
  ASSUME Good, NEW from, NEW f \in {"YIELD", "DEAD", "WAITING"}, NEW to \in Places,
         SetFlag(cpu, from, f, to), to \in {"yield", "exit", "join", "append"},
         to \in {"join", "append"} => f = "WAITING", to = "append" => from = "contend",
         f = "YIELD" => cpu \notin Lockers
  PROVE  Good'
<1>1. PICK c : LibraryInv(c)
  BY DEF Good
<1>2. TypeOK
  BY DEF Good
<1>3. CASE lib.currThread = NULL
  BY <1>3, CrashGood DEF SetFlag
<1>4. CASE lib.currThread # NULL
  <2>1. /\ lib.currThread = cpu /\ ~ lib.firstTime /\ pc[cpu] = from
        /\ lib' = [lib EXCEPT !.activeFlag[cpu] = f]
        /\ pc' = [pc EXCEPT ![cpu] = to]
        /\ UNCHANGED << lock, cpu, wiped, process >>
    BY <1>1, <1>2, <1>4, GoodIs DEF SetFlag
  <2>2. /\ lib' \in Lib /\ lib'.heap = lib.heap /\ lib'.numNodes = lib.numNodes
        /\ lib'.waitingOnID = lib.waitingOnID /\ lib'.lastTimeFinished = lib.lastTimeFinished
        /\ lib'.currThread = cpu /\ ~ lib'.firstTime
        /\ \A t \in Thread : lib'.activeFlag[t] = IF t = cpu THEN f ELSE lib.activeFlag[t]
    <3>1. f \in Flag /\ lib \in Lib /\ cpu \in Thread
      BY <1>2 DEF Flag, TypeOK
    <3> QED
      BY <2>1, <3>1 DEF Lib
  <2>3. /\ pc' \in [Thread -> Places]
        /\ \A t \in Thread : pc'[t] = IF t = cpu THEN to ELSE pc[t]
    BY <1>2, <2>1 DEF TypeOK
  <2>4. \A t \in Thread : pc'[t] = "unborn" <=> pc[t] = "unborn"
    BY <1>1, <1>2, <2>3, GoodIs
  <2>5. Placed(lib, c, pc, wiped) /\ Calling(lib, pc) /\ RunQueues(lib, c) /\ Elsewhere(lib)
        /\ cpu \in Thread
    BY <1>1, <1>2, <2>1, GoodIs
  <2>6. Placed(lib', c, pc', wiped')
    BY <2>1, <2>2, <2>4, <2>5 DEF Placed
  <2>7. RunQueues(lib', c)
    <3>1. Held(lib', c)
      BY <2>2, <2>5 DEF RunQueues, Held
    <3> QED
      BY <2>1, <2>2, <2>5, <3>1 DEF RunQueues, Placed
  <2>8. Elsewhere(lib')
    BY <2>1, <2>2, <2>5, OneMutex, QueueNumbers DEF Elsewhere, Lib, Heap, Pointer
  <2>9. Calling(lib', pc')
    BY <2>1, <2>2, <2>3, <2>4, <2>5 DEF Calling
  <2>10. OnProcessor'
    BY <1>1, <1>2, <2>1, <2>2, <2>3, <2>4, MainIsThread, GoodIs DEF OnProcessor
  <2>11. LibraryInv(c)'
    BY <2>2, <2>6, <2>7, <2>8, <2>9, <2>10 DEF LibraryInv
  <2>12. TypeOK'
    BY <1>2, <2>1, <2>2, <2>3 DEF TypeOK
  <2> QED
    BY <2>11, <2>12 DEF Good
<1> QED
  BY <1>3, <1>4

\* A new thread is queued.
LEMMA BornPlaces ==
  ASSUME NEW s \in Lib, NEW places, NEW lost, NEW c, Placed(s, c, places, lost),
         NEW t \in Thread, s.activeFlag[t] = "ACTIVE", t # s.currThread,
         NEW e, \A r \in RunQueue, u \in Thread :
                  In(e[r], u) <=> In(c[r], u) \/ (r = Running /\ u = t),
         NEW to, \A u \in Thread : to[u] = "unborn" <=> u # t /\ places[u] = "unborn",
         NEW z, z.activeFlag = s.activeFlag, z.currThread = s.currThread
  PROVE  Placed(z, e, to, lost)
<1>1. Running \in RunQueue /\ Low \in RunQueue /\ Running # Low
  BY RunQueueIs DEF Running, Low
<1> QED
  BY <1>1 DEF Placed

LEMMA CreateGood ==
  ASSUME Good, NEW t \in Thread, Create(t)
  PROVE  Good'
<1>1. PICK c : LibraryInv(c)
  BY DEF Good
<1>2. TypeOK
  BY DEF Good
<1>3. /\ cpu = Main /\ pc[Main] = "user" /\ pc[t] = "unborn" /\ ~ lib.firstTime
      /\ lib' = Enqueue(lib, t, Running)
      /\ pc' = [pc EXCEPT ![t] = "user", ![Main] = "create"]
      /\ UNCHANGED << lock, cpu, wiped, process >>
  BY DEF Create
<1>4. /\ lib \in Lib /\ Placed(lib, c, pc, wiped) /\ Calling(lib, pc)
      /\ RunQueues(lib, c) /\ Held(lib, c) /\ Elsewhere(lib)
      /\ lib.currThread \in {cpu, NULL}
      /\ lib.currThread = NULL => lib.activeFlag[cpu] \in {"WAITING", "DEAD"}
  BY <1>1, <1>2, <1>3, GoodIs
<1>5. lib.activeFlag[t] = "ACTIVE" /\ t # lib.currThread /\ t # Main
  BY <1>3, <1>4 DEF Calling
<1> DEFINE e == Put(c, Running, t)
<1>6. /\ Running \in RunQueue /\ Low \in RunQueue /\ Running # Low /\ Running \in Queue
      /\ RunQueue = {Running, Low} /\ Waiting \in Queue /\ Waiting # Running
  BY RunQueueIs, QueueNumbers DEF Running, Low, Waiting, RunQueue
<1>7. \A r \in RunQueue : ~ In(c[r], t)
  BY <1>3, <1>4, <1>6 DEF Placed
<1>8. ASSUME NEW r \in RunQueue \ {Running}, lib.heap.front[Running] # NULL
      PROVE  ~ In(c[r], lib.heap.rear[Running])
  <2>1. lib.heap.rear[Running] \in Thread /\ In(c[Running], lib.heap.rear[Running])
    BY <1>4, <1>6, <1>8, RearIn
  <2> QED
    BY <1>4, <1>6, <1>8, <2>1 DEF RunQueues
<1>9. /\ Held(lib', e)
      /\ \A r \in RunQueue, u \in Thread : In(e[r], u) <=> In(c[r], u) \/ (r = Running /\ u = t)
  BY <1>3, <1>4, <1>6, <1>7, <1>8, EnqueueHeld
<1> HIDE DEF e
<1>10. lib' \in Lib /\ SameButLists(lib', lib) /\ lib'.heap = enqueue(lib.heap, t, Running)
  BY <1>3, <1>4, <1>6, EnqueueIs
<1>11. lib'.heap.rear[Waiting] = lib.heap.rear[Waiting] /\ lib'.heap.wait = lib.heap.wait
  <2>1. lib.heap \in Heap
    BY <1>4 DEF Lib
  <2>2. enqueue(lib.heap, t, Running).wait = lib.heap.wait
    BY DEF enqueue
  <2>3. enqueue(lib.heap, t, Running).rear[Waiting] = lib.heap.rear[Waiting]
    BY <1>6, <2>1, EnqueueEmpty, EnqueueBehind
  <2> QED
    BY <1>10, <2>2, <2>3
<1>12. /\ lib'.activeFlag = lib.activeFlag /\ lib'.waitingOnID = lib.waitingOnID
       /\ lib'.lastTimeFinished = lib.lastTimeFinished /\ lib'.currThread = lib.currThread
       /\ lib'.firstTime = lib.firstTime
  BY <1>10 DEF SameButLists
<1>13. /\ pc' \in [Thread -> Places]
       /\ \A u \in Thread : pc'[u] = IF u = Main THEN "create" ELSE IF u = t THEN "user" ELSE pc[u]
  <2>1. "user" \in Places /\ "create" \in Places /\ pc \in [Thread -> Places]
    BY <1>2 DEF Places, After, TypeOK
  <2> QED
    BY <1>3, <1>5, <2>1, MainIsThread
<1>14. Placed(lib', e, pc', wiped')
  <2>1. \A u \in Thread : pc'[u] = "unborn" <=> u # t /\ pc[u] = "unborn"
    BY <1>3, <1>13
  <2>2. Placed(lib', e, pc', wiped)
    BY <1>4, <1>5, <1>9, <1>12, <2>1, BornPlaces
  <2> QED
    BY <1>3, <2>2
<1>15. Calling(lib', pc')
  BY <1>3, <1>4, <1>12, <1>13 DEF Calling
<1>16. RunQueues(lib', e)
  <2>1. \A u \in Thread : In(e[Running], u) => lib'.activeFlag[u] = "ACTIVE"
    BY <1>4, <1>5, <1>6, <1>9, <1>12 DEF RunQueues
  <2>2. \A u \in Thread :
          In(e[Low], u) => lib'.activeFlag[u] = "RUNNABLE" /\ lib'.lastTimeFinished[u] >= 0
    BY <1>4, <1>6, <1>9, <1>12 DEF RunQueues
  <2> QED
    BY <1>9, <2>1, <2>2 DEF RunQueues
<1>17. Elsewhere(lib')
  BY <1>4, <1>11, <1>12 DEF Elsewhere
<1>18. OnProcessor'
  BY <1>3, <1>4, <1>12, <1>13, MainIsThread DEF OnProcessor
<1>19. LibraryInv(e)'
  BY <1>3, <1>12, <1>14, <1>15, <1>16, <1>17, <1>18 DEF LibraryInv
<1>20. TypeOK'
  BY <1>2, <1>3, <1>10, <1>13 DEF TypeOK
<1> QED
  BY <1>19, <1>20 DEF Good

\* Lists that were just made hold nobody.
Nobody == [q \in RunQueue |-> << >>]

LEMMA MadeHeld ==
  ASSUME NEW s, \A q \in Queue : s.heap.front[q] = NULL /\ s.numNodes[q] = 0
  PROVE  /\ Held(s, Nobody)
         /\ \A r \in RunQueue, u \in Thread : ~ In(Nobody[r], u)
<1>1. \A q \in RunQueue : Nobody[q] = << >>
  BY DEF Nobody
<1>2. Len(<< >>) = 0 /\ << >> \in Seq(Thread)
  OBVIOUS
<1>3. ASSUME NEW q \in RunQueue
      PROVE  /\ QueueHolds(s.heap, q, << >>) /\ RearIs(s.heap, q, << >>) /\ NoneTwice(<< >>)
             /\ s.numNodes[q] = Len(<< >>)
  <2>1. q \in Queue
    BY RunQueueIs
  <2> QED
    BY <1>2, <2>1 DEF QueueHolds, RearIs, NoneTwice
<1> QED
  BY <1>1, <1>3, NobodyIn DEF Held

\* New lists, field by field.
LEMMA FreshIs ==
  /\ Fresh.heap = initQueue /\ Fresh.numNodes \in [Queue -> Nat]
  /\ Fresh.heap.front \in [Queue -> Pointer] /\ Fresh.heap.rear \in [Queue -> Pointer]
  /\ \A q \in Queue :
       Fresh.heap.front[q] = NULL /\ Fresh.heap.rear[q] = NULL /\ Fresh.numNodes[q] = 0
<1>1. Fresh.heap = initQueue /\ Fresh.numNodes = [q \in Queue |-> 0]
  BY DEF Fresh
<1>2. initQueue.front = [q \in Queue |-> NULL] /\ initQueue.rear = [q \in Queue |-> NULL]
  BY DEF initQueue
<1>3. 0 \in Nat /\ NULL \in Pointer
  BY DEF Pointer
<1> QED
  BY <1>1, <1>2, <1>3

\* The lists that initQueue makes, with Main and t in queue 0.
LEMMA TwoQueued ==
  ASSUME NEW x \in Lib, x.heap = initQueue, \A q \in Queue : x.numNodes[q] = 0,
         NEW t \in Thread, t # Main,
         NEW s, s = Enqueue(Enqueue(x, Main, Running), t, Running)
  PROVE  \E c :
           /\ s \in Lib /\ Held(s, c) /\ SameButLists(s, x)
           /\ \A r \in RunQueue, u \in Thread : In(c[r], u) <=> r = Running /\ u \in {Main, t}
           /\ s.heap.front[Running] # NULL
           /\ s.heap.rear[Waiting] = NULL /\ s.heap.wait[1].rear = NULL
<1> DEFINE y == Enqueue(x, Main, Running)
           b == Put(Nobody, Running, Main)
           c == Put(b, Running, t)
<1>1. /\ Running \in RunQueue /\ Low \in RunQueue /\ Running # Low /\ Running \in Queue
      /\ RunQueue = {Running, Low} /\ Waiting \in Queue /\ Waiting # Running /\ Main \in Thread
      /\ 1 \in Mutex
  BY RunQueueIs, QueueNumbers, MainIsThread, OneMutex DEF Running, Low, Waiting, RunQueue
<1>2. /\ \A q \in Queue : x.heap.front[q] = NULL /\ x.heap.rear[q] = NULL
      /\ x.heap.wait[1].rear = NULL
  BY <1>1 DEF initQueue
<1>3. Held(x, Nobody) /\ \A r \in RunQueue, u \in Thread : ~ In(Nobody[r], u)
  BY <1>2, MadeHeld
<1>4. /\ Held(y, b)
      /\ \A r \in RunQueue, u \in Thread :
           In(b[r], u) <=> In(Nobody[r], u) \/ (r = Running /\ u = Main)
  BY <1>1, <1>2, <1>3, EnqueueHeld
<1>5. y \in Lib /\ SameButLists(y, x) /\ y.heap = enqueue(x.heap, Main, Running)
  BY <1>1, EnqueueIs
<1>6. s = Enqueue(y, t, Running)
  OBVIOUS
<1> HIDE DEF y, b
<1>7. \A r \in RunQueue, u \in Thread : In(b[r], u) <=> r = Running /\ u = Main
  BY <1>3, <1>4
<1>8. ASSUME NEW r \in RunQueue \ {Running}, y.heap.front[Running] # NULL
      PROVE  ~ In(b[r], y.heap.rear[Running])
  <2>1. y.heap.rear[Running] \in Thread
    BY <1>1, <1>4, <1>5, <1>8, RearIn
  <2> QED
    BY <1>7, <1>8, <2>1
<1>9. /\ Held(s, c)
      /\ \A r \in RunQueue, u \in Thread : In(c[r], u) <=> In(b[r], u) \/ (r = Running /\ u = t)
  BY <1>1, <1>4, <1>5, <1>6, <1>7, <1>8, EnqueueHeld
<1>10. s \in Lib /\ SameButLists(s, y) /\ s.heap = enqueue(y.heap, t, Running)
  BY <1>1, <1>5, <1>6, EnqueueIs
<1> HIDE DEF c
<1>11. s.heap.rear[Waiting] = NULL /\ s.heap.wait[1].rear = NULL
  <2>1. y.heap \in Heap /\ x.heap \in Heap
    BY <1>5 DEF Lib
  <2>2. \A h, u : enqueue(h, u, Running).wait = h.wait
    BY DEF enqueue
  <2>3. y.heap.rear[Waiting] = NULL
    BY <1>1, <1>2, <1>5, <2>1, EnqueueEmpty
  <2>4. s.heap.rear[Waiting] = y.heap.rear[Waiting]
    BY <1>1, <1>10, <2>1, EnqueueEmpty, EnqueueBehind
  <2> QED
    BY <1>2, <1>5, <1>10, <2>2, <2>3, <2>4
<1>12. s.heap.front[Running] # NULL
  <2>1. In(c[Running], t)
    BY <1>1, <1>9
  <2> QED
    BY <1>1, <1>9, <1>10, <2>1, NoNodes, NobodyIn
<1>13. SameButLists(s, x)
  BY <1>5, <1>10 DEF SameButLists
<1>14. \A r \in RunQueue, u \in Thread : In(c[r], u) <=> r = Running /\ u \in {Main, t}
  BY <1>7, <1>9
<1> QED
  BY <1>9, <1>10, <1>11, <1>12, <1>13, <1>14

\* What the first create makes.
LEMMA MadeIs ==
  ASSUME TypeOK,
         NEW x, x = [lib EXCEPT !.heap = Fresh.heap, !.numNodes = Fresh.numNodes,
                                !.firstTime = FALSE]
  PROVE  /\ x \in Lib /\ x.heap = initQueue /\ ~ x.firstTime
         /\ \A q \in Queue : x.numNodes[q] = 0
         /\ x.activeFlag = lib.activeFlag /\ x.waitingOnID = lib.waitingOnID
         /\ x.currThread = lib.currThread
<1>1. PICK h \in Heap : h = Fresh.heap /\ h = initQueue
  BY InitHeap, FreshIs
<1>2. PICK i \in [Queue -> Nat] : i = Fresh.numNodes /\ \A q \in Queue : i[q] = 0
  BY FreshIs
<1>3. x = [lib EXCEPT !.heap = h, !.numNodes = i, !.firstTime = FALSE] /\ lib \in Lib
  BY <1>1, <1>2 DEF TypeOK
<1> QED
  BY <1>1, <1>2, <1>3 DEF Lib

LEMMA FirstCreateGood ==
  ASSUME Good, process = "runs", NEW t \in Thread, FirstCreate(t)
  PROVE  Good' /\ Parks
<1>1. PICK a : LibraryInv(a)
  BY DEF Good
<1>2. TypeOK
  BY DEF Good
<1> DEFINE made == [lib EXCEPT !.heap = Fresh.heap, !.numNodes = Fresh.numNodes,
                               !.firstTime = FALSE]
           places == [pc EXCEPT ![t] = "user"]
<1>3. PICK s : s = Enqueue(Enqueue(made, Main, Running), t, Running)
  OBVIOUS
<1>4. /\ cpu = Main /\ pc[Main] = "user" /\ pc[t] = "unborn" /\ lib.firstTime
      /\ scheduler(s, places)
  BY <1>3 DEF FirstCreate
<1>5. PICK c :
        /\ s \in Lib /\ Held(s, c) /\ ~ s.firstTime
        /\ s.activeFlag = lib.activeFlag /\ s.waitingOnID = lib.waitingOnID
        /\ s.currThread = lib.currThread
        /\ \A r \in RunQueue, u \in Thread : In(c[r], u) <=> r = Running /\ u \in {Main, t}
        /\ s.heap.front[Running] # NULL
        /\ s.heap.rear[Waiting] = NULL /\ s.heap.wait[1].rear = NULL
  <2>1. PICK x : x = made /\ s = Enqueue(Enqueue(x, Main, Running), t, Running)
    BY <1>3
  <2>2. /\ x \in Lib /\ x.heap = initQueue /\ ~ x.firstTime
        /\ \A q \in Queue : x.numNodes[q] = 0
        /\ x.activeFlag = lib.activeFlag /\ x.waitingOnID = lib.waitingOnID
        /\ x.currThread = lib.currThread
    BY <1>2, <2>1, MadeIs
  <2>3. t # Main
    BY <1>4
  <2> HIDE DEF made
  <2>4. PICK c :
          /\ s \in Lib /\ Held(s, c) /\ SameButLists(s, x)
          /\ \A r \in RunQueue, u \in Thread : In(c[r], u) <=> r = Running /\ u \in {Main, t}
          /\ s.heap.front[Running] # NULL
          /\ s.heap.rear[Waiting] = NULL /\ s.heap.wait[1].rear = NULL
    BY <2>1, <2>2, <2>3, TwoQueued
  <2> QED
    BY <2>2, <2>4 DEF SameButLists
<1>6. /\ lib.currThread = NULL /\ wiped = FALSE /\ lib.activeFlag[Main] = "ACTIVE"
      /\ \A u \in Thread \ {Main} : pc[u] = "unborn"
      /\ Calling(lib, pc) /\ Elsewhere(lib)
  BY <1>1, <1>2, <1>4, GoodIs
<1>7. /\ places \in [Thread -> Places]
      /\ \A u \in Thread : places[u] = IF u = t THEN "user" ELSE pc[u]
  BY <1>2 DEF TypeOK, Places, After
<1> HIDE DEF places, made
<1>8. /\ Running \in RunQueue /\ Low \in RunQueue /\ Running # Low /\ Main \in Thread
  BY RunQueueIs, MainIsThread DEF Running, Low
<1>9. s.activeFlag[t] = "ACTIVE" /\ s.activeFlag[Main] = "ACTIVE"
  BY <1>4, <1>5, <1>6 DEF Calling
<1>10. RunQueues(s, c)
  BY <1>5, <1>8, <1>9 DEF RunQueues
<1>11. Elsewhere(s)
  BY <1>5, <1>6 DEF Elsewhere
<1>12. Placed(s, c, places, wiped)
  BY <1>4, <1>5, <1>6, <1>7, <1>8, <1>9, NullIsNoThread DEF Placed
<1>13. Calling(s, places)
  BY <1>4, <1>5, <1>6, <1>7 DEF Calling
<1>14. places[cpu] # "unborn" /\ places[Main] # "unborn" /\ s.currThread = NULL
  BY <1>4, <1>5, <1>6, <1>7, <1>8
<1> QED
  BY <1>2, <1>4, <1>5, <1>7, <1>10, <1>11, <1>12, <1>13, <1>14, SchedulerGood

\* pthreadQueue is made anew: whoever was in it is lost.
LEMMA MutexInitGood == ASSUME Good, MutexInit PROVE Good'
<1>1. PICK c : LibraryInv(c)
  BY DEF Good
<1>2. TypeOK
  BY DEF Good
<1>3. PICK f \in [Queue -> Pointer], r \in [Queue -> Pointer], i \in [Queue -> Nat] :
        /\ f = Fresh.heap.front /\ r = Fresh.heap.rear /\ i = Fresh.numNodes
        /\ \A q \in Queue : f[q] = NULL /\ r[q] = NULL /\ i[q] = 0
  BY FreshIs
<1>4. /\ cpu = Main /\ pc[Main] = "user" /\ lock' = [ready |-> TRUE, flag |-> 0]
      /\ lib' = [lib EXCEPT !.heap.front = f, !.heap.rear = r, !.numNodes = i]
      /\ wiped' = ~ lib.firstTime
      /\ UNCHANGED << cpu, pc, process >>
  BY <1>3 DEF MutexInit
<1>5. /\ lib' \in Lib /\ lib'.heap.front = f /\ lib'.heap.rear = r /\ lib'.numNodes = i
      /\ lib'.heap.wait = lib.heap.wait
      /\ lib'.activeFlag = lib.activeFlag /\ lib'.waitingOnID = lib.waitingOnID
      /\ lib'.currThread = lib.currThread /\ lib'.firstTime = lib.firstTime
  <2> DEFINE h == [lib.heap EXCEPT !.front = f, !.rear = r]
  <2>1. h \in Heap /\ h.front = f /\ h.rear = r /\ h.wait = lib.heap.wait
    <3>1. lib.heap \in Heap
      BY <1>2 DEF TypeOK, Lib
    <3> QED
      BY <3>1 DEF Heap
  <2>2. lib' = [lib EXCEPT !.heap = h, !.numNodes = i]
    BY <1>2, <1>4, <2>1 DEF TypeOK, Lib
  <2> HIDE DEF h
  <2> QED
    BY <1>2, <2>1, <2>2 DEF TypeOK, Lib
<1>6. Held(lib', Nobody) /\ \A q \in RunQueue, u \in Thread : ~ In(Nobody[q], u)
  BY <1>3, <1>5, MadeHeld
<1>7. /\ lib.firstTime \in BOOLEAN /\ Calling(lib, pc) /\ Elsewhere(lib) /\ OnProcessor
      /\ ~ lib.firstTime => Placed(lib, c, pc, wiped)
      /\ Running \in RunQueue /\ Low \in RunQueue /\ Waiting \in Queue
      /\ Nobody[Running] = << >> /\ Nobody[Low] = << >>
  BY <1>1, <1>2, GoodIs, RunQueueIs, QueueNumbers DEF LibraryInv, Lib, Nobody
<1>8. RunQueues(lib', Nobody)
  BY <1>6, <1>7 DEF RunQueues
<1>9. Elsewhere(lib')
  BY <1>3, <1>5, <1>7 DEF Elsewhere
<1>10. ~ lib'.firstTime => Placed(lib', Nobody, pc', wiped')
  <2> SUFFICES ASSUME ~ lib'.firstTime PROVE Placed(lib', Nobody, pc', wiped')
    OBVIOUS
  <2>1. wiped' = TRUE
    BY <1>4, <1>5
  <2> QED
    BY <1>4, <1>5, <1>6, <1>7, <2>1 DEF Placed
<1>11. Calling(lib', pc')
  BY <1>4, <1>5, <1>7 DEF Calling
<1>12. OnProcessor'
  BY <1>4, <1>5, <1>7 DEF OnProcessor
<1>13. LibraryInv(Nobody)'
  BY <1>7, <1>8, <1>9, <1>10, <1>11, <1>12 DEF LibraryInv
<1>14. TypeOK'
  BY <1>2, <1>4, <1>5, <1>7 DEF TypeOK
<1> QED
  BY <1>13, <1>14 DEF Good

\* The wait queue of the mutex is set.
SetQueue(h, w) == [h EXCEPT !.wait[1] = w]

LEMMA QueueIsSet ==
  ASSUME NEW h \in Heap, NEW w \in WaitQueue
  PROVE  /\ SetQueue(h, w) \in Heap
         /\ SetQueue(h, w).next = h.next /\ SetQueue(h, w).front = h.front
         /\ SetQueue(h, w).rear = h.rear /\ SetQueue(h, w).wait[1] = w
<1>1. 1 \in Mutex /\ h.wait \in [Mutex -> WaitQueue]
  BY OneMutex DEF Heap, WaitQueue
<1>2. SetQueue(h, w) \in Heap
  BY <1>1, SetWait DEF SetQueue
<1>3. /\ SetQueue(h, w).wait = [h.wait EXCEPT ![1] = w] /\ SetQueue(h, w).next = h.next
      /\ SetQueue(h, w).front = h.front /\ SetQueue(h, w).rear = h.rear
  BY DEF Heap, SetQueue
<1> QED
  BY <1>1, <1>2, <1>3

\* gen_enqueue writes the next of the node that was last, and no other.
LEMMA GenEnqueueIs ==
  ASSUME NEW h \in Heap, NEW p \in Pointer
  PROVE  /\ gen_enqueue(h, 1, p) \in Heap
         /\ gen_enqueue(h, 1, p).front = h.front /\ gen_enqueue(h, 1, p).rear = h.rear
         /\ gen_enqueue(h, 1, p).wait[1].rear = p
         /\ \A u \in Thread : u # h.wait[1].rear => gen_enqueue(h, 1, p).next[u] = h.next[u]
<1> DEFINE w == h.wait[1]
           z == gen_enqueue(h, 1, p)
<1>1. w.front \in Pointer /\ w.numNodes \in Nat
  BY OneMutex DEF Heap
<1>2. CASE w.numNodes = 0
  <2>1. PICK v : v = [front |-> p, rear |-> p, numNodes |-> 1]
    OBVIOUS
  <2>2. z = SetQueue(h, v) /\ v \in WaitQueue /\ v.rear = p
    BY <1>2, <2>1 DEF gen_enqueue, SetQueue, WaitQueue
  <2> HIDE DEF z, w
  <2>3. z \in Heap /\ z.next = h.next /\ z.front = h.front /\ z.rear = h.rear /\ z.wait[1] = v
    BY <2>2, QueueIsSet
  <2> QED
    BY <2>2, <2>3 DEF z
<1>3. CASE w.numNodes # 0
  <2>1. PICK v : v = [front |-> w.front, rear |-> p, numNodes |-> w.numNodes + 1]
    OBVIOUS
  <2> HIDE DEF w
  <2>2. v \in WaitQueue /\ v.rear = p
    BY <1>1, <2>1 DEF WaitQueue
  <2>3. PICK y : y = [h EXCEPT !.next[w.rear] = p]
    OBVIOUS
  <2>4. /\ y \in Heap /\ y.front = h.front /\ y.rear = h.rear
        /\ \A u \in Thread : u # w.rear => y.next[u] = h.next[u]
    BY <2>3, SetNext DEF Heap
  <2>5. z = SetQueue(y, v)
    BY <1>3, <2>1, <2>3 DEF gen_enqueue, w, SetQueue
  <2> HIDE DEF z
  <2>6. z \in Heap /\ z.next = y.next /\ z.front = y.front /\ z.rear = y.rear /\ z.wait[1] = v
    BY <2>2, <2>4, <2>5, QueueIsSet
  <2> QED
    BY <2>2, <2>4, <2>6 DEF z, w
<1> QED
  BY <1>2, <1>3

\* gen_dequeue writes no next at all.
LEMMA GenDequeueIs ==
  ASSUME NEW h \in Heap, h.wait[1].front # NULL
  PROVE  /\ gen_dequeue(h, 1) \in Heap
         /\ gen_dequeue(h, 1).front = h.front /\ gen_dequeue(h, 1).rear = h.rear
         /\ gen_dequeue(h, 1).next = h.next
         /\ gen_dequeue(h, 1).wait[1].rear \in {NULL, h.wait[1].rear}
<1>1. 1 \in Mutex
  BY OneMutex
<1>2. gen_dequeue(h, 1) \in Heap
  BY <1>1, GenDequeueHeap
<1>3. /\ gen_dequeue(h, 1).front = h.front /\ gen_dequeue(h, 1).rear = h.rear
      /\ gen_dequeue(h, 1).next = h.next
  BY DEF gen_dequeue, Heap
<1>4. gen_dequeue(h, 1).wait[1].rear \in {NULL, h.wait[1].rear}
  BY <1>1 DEF gen_dequeue, Heap
<1> QED
  BY <1>2, <1>3, <1>4

\* The queue of the mutex changes, and next of nodes that no run queue holds.
LEMMA MutexQueueGood ==
  ASSUME Good, pc[cpu] \in {"append", "critical"}, NEW h \in Heap,
         h.front = lib.heap.front, h.rear = lib.heap.rear,
         \A u \in Thread : u # lib.heap.wait[1].rear => h.next[u] = lib.heap.next[u],
         \/ h.wait[1].rear \in {NULL, lib.heap.wait[1].rear}
         \/ h.wait[1].rear = lib.currThread /\ pc[cpu] = "append",
         lib' = [lib EXCEPT !.heap = h],
         NEW to \in {"tas", "unlock"}, pc' = [pc EXCEPT ![cpu] = to],
         UNCHANGED << lock, cpu, wiped, process >>
  PROVE  Good'
<1>1. PICK c : LibraryInv(c)
  BY DEF Good
<1>2. TypeOK
  BY DEF Good
<1>3. /\ lib' \in Lib /\ lib'.heap = h /\ lib'.numNodes = lib.numNodes
      /\ lib'.activeFlag = lib.activeFlag /\ lib'.waitingOnID = lib.waitingOnID
      /\ lib'.lastTimeFinished = lib.lastTimeFinished
      /\ lib'.currThread = lib.currThread /\ lib'.firstTime = lib.firstTime
  BY <1>2 DEF TypeOK, Lib
<1>4. /\ to \in Places /\ pc' \in [Thread -> Places]
      /\ \A t \in Thread : pc'[t] = IF t = cpu THEN to ELSE pc[t]
  BY <1>2 DEF TypeOK, Places, After
<1>5. \A t \in Thread : pc'[t] = "unborn" <=> pc[t] = "unborn"
  BY <1>4
<1>6. /\ RunQueues(lib, c) /\ Held(lib, c) /\ Elsewhere(lib) /\ Calling(lib, pc) /\ cpu \in Thread
      /\ lib.currThread \in {cpu, NULL} /\ lib.heap \in Heap /\ OnProcessor
  BY <1>1, <1>2, GoodIs DEF Lib, LibraryInv
<1>7. RunQueues(lib', c)
  <2>1. ASSUME NEW q \in RunQueue, NEW u \in Thread, In(c[q], u) PROVE h.next[u] = lib.heap.next[u]
    <3>1. lib.activeFlag[u] \in {"ACTIVE", "RUNNABLE"}
      BY <1>6, <2>1 DEF RunQueues, RunQueue
    <3>2. u # lib.heap.wait[1].rear
      BY <1>6, <3>1, NullIsNoThread DEF Elsewhere
    <3> QED
      BY <3>2
  <2>2. Held(lib', c)
    <3>1. ASSUME NEW q \in RunQueue PROVE QueueHolds(h, q, c[q]) /\ RearIs(h, q, c[q])
      BY <1>6, <2>1, HoldsStill DEF Held
    <3> QED
      BY <1>3, <1>6, <3>1 DEF Held
  <2> QED
    BY <1>3, <1>6, <2>2 DEF RunQueues
<1>8. Elsewhere(lib')
  <2>1. lib.currThread # NULL /\ pc[cpu] = "append" =>
          lib.activeFlag[lib.currThread] = "WAITING" /\ lib.currThread \in Lockers
    BY <1>6 DEF Calling
  <2> QED
    BY <1>3, <1>6, <2>1 DEF Elsewhere
<1>9. ~ lib'.firstTime => Placed(lib', c, pc', wiped')
  <2> SUFFICES ASSUME ~ lib'.firstTime PROVE Placed(lib', c, pc', wiped)
    OBVIOUS
  <2>1. Placed(lib, c, pc, wiped)
    BY <1>1, <1>3 DEF LibraryInv
  <2> QED
    BY <1>3, <1>5, <2>1 DEF Placed
<1>10. Calling(lib', pc')
  <2>1. cpu \in Lockers
    BY <1>6 DEF Calling
  <2> QED
    BY <1>3, <1>4, <1>5, <1>6, <2>1 DEF Calling
<1>11. OnProcessor'
  BY <1>3, <1>4, <1>5, <1>6, MainIsThread DEF OnProcessor
<1>12. LibraryInv(c)'
  BY <1>1, <1>3, <1>7, <1>8, <1>9, <1>10, <1>11 DEF LibraryInv
<1>13. TypeOK'
  BY <1>2, <1>3, <1>4 DEF TypeOK
<1> QED
  BY <1>12, <1>13 DEF Good

LEMMA AppendSelfGood == ASSUME Good, AppendSelf(cpu) PROVE Good'
<1>1. TypeOK /\ pc[cpu] = "append"
  BY DEF Good, AppendSelf
<1>2. lib \in Lib /\ lib.heap \in Heap /\ lib.currThread \in Pointer
  BY <1>1 DEF TypeOK, Lib
<1>3. CASE lib.heap.wait[1].numNodes # 0 /\ lib.heap.wait[1].rear = NULL
  BY <1>3, CrashGood DEF AppendSelf
<1>4. CASE ~ (lib.heap.wait[1].numNodes # 0 /\ lib.heap.wait[1].rear = NULL)
  <2>1. PICK h : h = gen_enqueue(lib.heap, 1, lib.currThread)
    OBVIOUS
  <2>2. /\ h \in Heap /\ h.front = lib.heap.front /\ h.rear = lib.heap.rear
        /\ h.wait[1].rear = lib.currThread
        /\ \A u \in Thread : u # lib.heap.wait[1].rear => h.next[u] = lib.heap.next[u]
    BY <1>2, <2>1, GenEnqueueIs
  <2>3. /\ lib' = [lib EXCEPT !.heap = h]
        /\ pc' = [pc EXCEPT ![cpu] = "tas"]
        /\ UNCHANGED << lock, cpu, wiped, process >>
    BY <1>4, <2>1 DEF AppendSelf, Goes, GenEnqueue
  <2> QED
    BY <1>1, <2>2, <2>3, MutexQueueGood
<1> QED
  BY <1>3, <1>4

LEMMA UnlockGood == ASSUME Good, Unlock(cpu) PROVE Good'
<1>1. TypeOK /\ pc[cpu] = "critical" /\ UNCHANGED << lock, cpu, wiped, process >>
  BY DEF Good, Unlock, Goes
<1>2. /\ lib \in Lib /\ lib.heap \in Heap /\ lib.currThread \in Pointer
      /\ lock \in [ready : BOOLEAN, flag : {0, 1}] /\ cpu \in Thread
  BY <1>1 DEF TypeOK, Lib
<1>3. CASE lib.heap.wait[1].front # NULL
  <2>1. PICK h : h = gen_dequeue(lib.heap, 1)
    OBVIOUS
  <2>2. /\ h \in Heap /\ h.front = lib.heap.front /\ h.rear = lib.heap.rear
        /\ h.wait[1].rear \in {NULL, lib.heap.wait[1].rear}
        /\ \A u \in Thread : h.next[u] = lib.heap.next[u]
    BY <1>2, <1>3, <2>1, GenDequeueIs
  <2>3. /\ lib' = [lib EXCEPT !.heap = h]
        /\ pc' = [pc EXCEPT ![cpu] = "unlock"]
    BY <1>3, <2>1 DEF Unlock, Goes, GenDequeue
  <2> QED
    BY <1>1, <2>2, <2>3, MutexQueueGood
<1>4. CASE lib.heap.wait[1].front = NULL
  <2>1. pc' = [pc EXCEPT ![cpu] = "clear"] /\ lib' = lib
    BY <1>4 DEF Unlock, Goes
  <2>2. cpu \in Lockers
    <3>1. PICK c : LibraryInv(c)
      BY DEF Good
    <3> QED
      BY <1>1, <1>2, <3>1, GoodIs DEF Calling
  <2>3. "clear" \in Places
    BY DEF Places, After
  <2> QED
    BY <1>1, <1>2, <2>1, <2>2, <2>3, MoveGood
<1> QED
  BY <1>3, <1>4

-----------------------------------------------------------------------------
(* All steps. *)

LEMMA InitGood == ASSUME Init PROVE Good
<1>1. PICK junk \in [Thread -> Unwritten] :
        lib = [heap |-> initQueue,
               numNodes |-> [q \in Queue |-> 0],
               activeFlag |-> [t \in Thread |-> "ACTIVE"],
               waitingOnID |-> [t \in Thread |-> NULL],
               lastTimeFinished |-> junk,
               currThread |-> NULL,
               firstTime |-> TRUE]
  BY DEF Init
<1>2. /\ lib.heap = initQueue /\ \A q \in Queue : lib.numNodes[q] = 0
      /\ \A t \in Thread : lib.activeFlag[t] = "ACTIVE" /\ lib.waitingOnID[t] = NULL
      /\ lib.currThread = NULL /\ lib.firstTime = TRUE
  BY <1>1
<1>3. lib \in Lib
  <2>1. initQueue \in Heap
    BY InitHeap
  <2>2. [q \in Queue |-> 0] \in [Queue -> Nat]
    OBVIOUS
  <2>3. /\ [t \in Thread |-> "ACTIVE"] \in [Thread -> Flag]
        /\ [t \in Thread |-> NULL] \in [Thread -> Pointer] /\ NULL \in Pointer
    BY DEF Flag, Pointer
  <2>4. junk \in [Thread -> Unwritten \cup timeStamp]
    OBVIOUS
  <2> QED
    BY <1>1, <2>1, <2>2, <2>3, <2>4 DEF Lib
<1>4. /\ cpu = Main /\ wiped = FALSE /\ process = "runs" /\ lock = [ready |-> FALSE, flag |-> 0]
      /\ pc \in [Thread -> Places]
      /\ \A t \in Thread : pc[t] = IF t = Main THEN "user" ELSE "unborn"
  <2>1. "user" \in Places /\ "unborn" \in Places
    BY DEF Places, After
  <2> QED
    BY <2>1 DEF Init
<1>5. TypeOK
  BY <1>3, <1>4, MainIsThread DEF TypeOK
<1>6. /\ \A q \in Queue : lib.heap.front[q] = NULL /\ lib.heap.rear[q] = NULL
      /\ lib.heap.wait[1].rear = NULL
  BY <1>2, OneMutex DEF initQueue
<1>7. Held(lib, Nobody) /\ \A q \in RunQueue, u \in Thread : ~ In(Nobody[q], u)
  BY <1>2, <1>6, MadeHeld
<1>8. RunQueues(lib, Nobody)
  BY <1>7, RunQueueIs DEF RunQueues
<1>9. Elsewhere(lib)
  BY <1>2, <1>6, QueueNumbers DEF Elsewhere
<1>10. Calling(lib, pc)
  BY <1>2, <1>4, NullIsNoThread DEF Calling
<1>11. OnProcessor
  BY <1>2, <1>4, MainIsThread DEF OnProcessor
<1>12. LibraryInv(Nobody)
  BY <1>2, <1>8, <1>9, <1>10, <1>11, RunQueueIs DEF LibraryInv, Nobody
<1> QED
  BY <1>5, <1>12 DEF Good

\* The statements that call neither the scheduler nor a list operation.
LEMMA StatementsGood ==
  ASSUME Good,
         \/ JoinReturns(cpu) \/ Lock(cpu) \/ TestAndSet(cpu) \/ SetLocked(cpu) \/ Clear(cpu)
  PROVE  Good'
<1>1. TypeOK /\ \A t \in Thread : pc[t] \in Inside => t \in Lockers
  <2>1. PICK c : LibraryInv(c)
    BY DEF Good
  <2> QED
    BY <2>1 DEF Good, LibraryInv, Calling, Inside
<1>2. /\ lock \in [ready : BOOLEAN, flag : {0, 1}] /\ cpu \in Thread
      /\ {"user", "tas", "contend", "set", "critical"} \subseteq Places
  BY <1>1 DEF TypeOK, Places, After
<1>3. [lock EXCEPT !.flag = 0] \in [ready : BOOLEAN, flag : {0, 1}]
      /\ [lock EXCEPT !.flag = 1] \in [ready : BOOLEAN, flag : {0, 1}]
  BY <1>2
<1>4. CASE JoinReturns(cpu)
  <2>1. "user" \in Places /\ "user" \notin Inside
    BY <1>2 DEF Inside
  <2> QED
    BY <1>2, <1>4, <2>1, MoveGood DEF JoinReturns, Goes
<1>5. CASE Lock(cpu)
  <2>1. "tas" \in Places /\ cpu \in Lockers
    BY <1>2, <1>5 DEF Lock
  <2> QED
    BY <1>2, <1>5, <2>1, MoveGood DEF Lock, Goes
<1>6. CASE TestAndSet(cpu)
  <2>1. PICK to : to = (IF lock.flag = 1 THEN "contend" ELSE "set")
    OBVIOUS
  <2>2. to \in {"contend", "set"} /\ to \in Places
    BY <1>2, <2>1
  <2>3. cpu \in Lockers /\ pc' = [pc EXCEPT ![cpu] = to]
    BY <1>1, <1>2, <1>6, <2>1 DEF TestAndSet, Goes, Inside
  <2>4. lock' \in [ready : BOOLEAN, flag : {0, 1}] /\ UNCHANGED << lib, cpu, wiped, process >>
    BY <1>3, <1>6 DEF TestAndSet
  <2> QED
    BY <2>2, <2>3, <2>4, MoveGood
<1>7. CASE SetLocked(cpu)
  <2>1. "critical" \in Places /\ cpu \in Lockers
    BY <1>1, <1>2, <1>7 DEF SetLocked, Goes, Inside
  <2> QED
    BY <1>3, <1>7, <2>1, MoveGood DEF SetLocked, Goes
<1>8. CASE Clear(cpu)
  <2>1. "user" \in Places /\ "user" \notin Inside
    BY <1>2 DEF Inside
  <2> QED
    BY <1>3, <1>8, <2>1, MoveGood DEF Clear, Goes
<1> QED
  BY <1>4, <1>5, <1>6, <1>7, <1>8

\* The calls that set a flag.
LEMMA FlagsGood ==
  ASSUME Good, Yield(cpu) \/ Exit(cpu) \/ Join(cpu) \/ Contend(cpu)
  PROVE  Good'
<1>1. {"yield", "exit", "join", "append"} \subseteq Places
  BY DEF Places, After
<1>2. CASE Yield(cpu)
  BY <1>1, <1>2, FlagGood DEF Yield
<1>3. CASE Exit(cpu)
  BY <1>1, <1>3, FlagGood DEF Exit
<1>4. CASE Join(cpu)
  BY <1>1, <1>4, FlagGood DEF Join
<1>5. CASE Contend(cpu)
  BY <1>1, <1>5, FlagGood DEF Contend
<1> QED
  BY <1>2, <1>3, <1>4, <1>5

LEMMA NextGood == ASSUME Good, [Next]_vars PROVE Good'
<1>1. CASE UNCHANGED vars
  BY <1>1 DEF Good, TypeOK, LibraryInv, OnProcessor, vars
<1>2. CASE process = "runs" /\ \E t \in Thread : FirstCreate(t) \/ Create(t)
  BY <1>2, FirstCreateGood, CreateGood
<1>3. CASE process = "runs" /\ MutexInit
  BY <1>3, MutexInitGood
<1>4. CASE process = "runs" /\ Call(cpu)
  <2>1. CASE Yield(cpu) \/ Exit(cpu) \/ Join(cpu)
    BY <2>1, FlagsGood
  <2>2. CASE StrayJoin(cpu)
    BY <2>2, CrashGood DEF StrayJoin
  <2>3. CASE Lock(cpu)
    BY <2>3, StatementsGood
  <2>4. CASE Return(cpu)
    BY <2>4, StopGood DEF Return
  <2> QED
    BY <1>4, <2>1, <2>2, <2>3, <2>4 DEF Call
<1>5. CASE process = "runs" /\ Body(cpu)
  <2>1. CASE CallScheduler(cpu)
    BY <1>5, <2>1, CallSchedulerGood
  <2>2. CASE JoinReturns(cpu) \/ TestAndSet(cpu) \/ SetLocked(cpu) \/ Clear(cpu)
    BY <2>2, StatementsGood
  <2>3. CASE Contend(cpu)
    BY <2>3, FlagsGood
  <2>4. CASE AppendSelf(cpu)
    BY <2>4, AppendSelfGood
  <2> QED
    BY <1>5, <2>1, <2>2, <2>3, <2>4 DEF Body
<1>6. CASE process = "runs" /\ Unlock(cpu)
  BY <1>6, UnlockGood
<1>7. CASE process = "runs" /\ Alarm
  BY <1>7, AlarmGood
<1>8. CASE Gone
  BY <1>1, <1>8 DEF Gone
<1> QED
  BY <1>1, <1>2, <1>3, <1>4, <1>5, <1>6, <1>7, <1>8 DEF Next

LEMMA GoodAlways == Spec => []Good
<1>1. Init => Good
  BY InitGood
<1>2. Good /\ [Next]_vars => Good'
  BY NextGood
<1> QED
  BY <1>1, <1>2, PTL DEF Spec

-----------------------------------------------------------------------------
(* What follows. *)

\* The nodes of a queue, on a walk and counted.
LEMMA MembersAre ==
  ASSUME TypeOK, NEW c, Held(lib, c), NEW q \in RunQueue
  PROVE  /\ Members(q) = {t \in Thread : In(c[q], t)}
         /\ Ends(Walk(lib.heap, q))
         /\ Lists[q] = c[q]
<1>1. /\ lib.heap \in Heap /\ q \in Queue /\ QueueHolds(lib.heap, q, c[q]) /\ NoneTwice(c[q])
  BY RunQueueIs DEF TypeOK, Lib, Held
<1> DEFINE x == c[q]
           w == Walk(lib.heap, q)
           n == Cardinality(Thread)
<1>2. /\ w \in [0 .. n -> Pointer] /\ n \in Nat /\ Len(x) \in 0 .. n /\ DOMAIN w = 0 .. n
      /\ \A k \in 0 .. n : w[k] = IF k < Len(x) THEN x[k + 1] ELSE NULL
  BY <1>1, WalkMeets
<1>3. Members(q) = {t \in Thread : In(x, t)}
  BY <1>1, NodesAre DEF Members
<1>4. x \in Seq(Thread) /\ \A k \in 1 .. Len(x) : x[k] \in Thread
  BY <1>1, SeqIs DEF QueueHolds
<1> HIDE DEF w, n, x
<1>5. w[n] = NULL
  BY <1>2
<1>6. FirstAt(w, {NULL}) = Len(x)
  <2>1. w[Len(x)] \in {NULL}
    BY <1>2
  <2>2. ASSUME NEW j \in 0 .. Len(x) - 1 PROVE w[j] \notin {NULL}
    <3>1. j \in 0 .. n /\ j < Len(x) /\ j + 1 \in 1 .. Len(x)
      BY <1>2
    <3> QED
      BY <1>2, <1>4, <3>1, NullIsNoThread
  <2> QED
    BY <1>2, <2>1, <2>2, FirstAtIs
<1>7. Lists[q] = [k \in 1 .. Len(x) |-> w[k - 1]]
  <2>1. Lists[q] = [k \in 1 .. FirstAt(w, {NULL}) |-> w[k - 1]]
    BY DEF Lists, w
  <2> QED
    BY <1>6, <2>1
<1>8. x = [k \in 1 .. Len(x) |-> w[k - 1]]
  <2>1. ASSUME NEW k \in 1 .. Len(x) PROVE x[k] = w[k - 1]
    <3>1. k - 1 \in 0 .. n /\ k - 1 < Len(x) /\ (k - 1) + 1 = k
      BY <1>2
    <3> QED
      BY <1>2, <3>1
  <2>2. x = [k \in 1 .. Len(x) |-> x[k]]
    BY <1>4, SeqIs
  <2> QED
    BY <2>1, <2>2
<1> QED
  BY <1>3, <1>5, <1>7, <1>8 DEF Ends, w, n, x

\* A sequence without repetitions has as many members as it is long.
LEMMA NodesCounted ==
  ASSUME NEW x \in Seq(Thread), NoneTwice(x)
  PROVE  Cardinality({t \in Thread : In(x, t)}) = Len(x)
<1> DEFINE S == {t \in Thread : In(x, t)}
           n == Len(x)
<1>1. n \in Nat /\ DOMAIN x = 1 .. n /\ x \in [1 .. n -> Thread]
  BY SeqIs
<1>2. \A k \in 1 .. n : x[k] \in S
  BY <1>1 DEF In
<1>3. \A t \in S : \E k \in 1 .. n : x[k] = t
  BY DEF In
<1> HIDE DEF S
<1>4. x \in [1 .. n -> S]
  BY <1>1, <1>2
<1>5. x \in Surjection(1 .. n, S)
  BY <1>1, <1>3, <1>4 DEF Surjection
<1>6. x \in Injection(1 .. n, S)
  BY <1>1, <1>4 DEF Injection, IsInjective, NoneTwice
<1>7. IsFiniteSet(1 .. n) /\ Cardinality(1 .. n) = n
  BY <1>1, FS_Interval
<1> QED
  BY <1>5, <1>6, <1>7, FS_Surjection DEF S

\* The invariant says the same of the lists that the pointers make.
LEMMA InvariantOfLists ==
  ASSUME TypeOK, NEW c, LibraryInv(c)
  PROVE  QueuesInv
<1>1. \A q \in RunQueue : Lists[q] = c[q]
  BY MembersAre DEF LibraryInv, RunQueues
<1>2. Running \in RunQueue /\ Low \in RunQueue
  BY RunQueueIs
<1>3. RunQueues(lib, Lists)
  <2>1. Held(lib, Lists)
    BY <1>1 DEF LibraryInv, RunQueues, Held
  <2> QED
    BY <1>1, <1>2, <2>1 DEF LibraryInv, RunQueues
<1>4. Placed(lib, c, pc, wiped) => Placed(lib, Lists, pc, wiped)
  BY <1>1, <1>2 DEF Placed
<1> QED
  BY <1>1, <1>2, <1>3, <1>4 DEF LibraryInv, QueuesInv

\* In every state each field of the library, of the mutex and of the processor
\* has its type: in particular no pointer of a list is wild.
THEOREM FirstTypes == Spec => []TypeOK
<1>1. Good => TypeOK
  BY DEF Good
<1> QED
  BY <1>1, GoodAlways, PTL

\* The queues 0 and 1 are lists without repetition, held by front, next, rear
\* and numNodes, of the threads whose flags say so; what queue 2 and the mutex
\* link are other threads.
THEOREM QueuesKept == Spec => []QueuesInv
<1>1. Good => QueuesInv
  BY InvariantOfLists DEF Good
<1> QED
  BY <1>1, GoodAlways, PTL

\* Nobody who was left ACTIVE or RUNNABLE is forgotten, and nobody else is
\* queued, as long as no mutex is initialised once threads are queued.
THEOREM ReadyQueued == Spec => []ReadyAreQueued
<1>1. ASSUME Good PROVE ReadyAreQueued
  <2>1. PICK c : LibraryInv(c)
    BY <1>1 DEF Good
  <2> SUFFICES ASSUME ~ wiped, ~ lib.firstTime
               PROVE  /\ Members(Running) = {t \in Off : lib.activeFlag[t] = "ACTIVE"}
                      /\ Members(Low)     = {t \in Off : lib.activeFlag[t] = "RUNNABLE"}
    BY DEF ReadyAreQueued
  <2>2. /\ TypeOK /\ Held(lib, c) /\ RunQueues(lib, c) /\ Placed(lib, c, pc, wiped)
        /\ lib.currThread \in {cpu, NULL}
        /\ lib.currThread = NULL => lib.activeFlag[cpu] \in {"WAITING", "DEAD"}
    BY <1>1, <2>1, GoodIs DEF Good
  <2>3. /\ Members(Running) = {t \in Thread : In(c[Running], t)}
        /\ Members(Low) = {t \in Thread : In(c[Low], t)}
    BY <2>2, MembersAre, RunQueueIs
  <2>4. ASSUME NEW t \in Thread
        PROVE  In(c[Running], t) <=> t \in Off /\ lib.activeFlag[t] = "ACTIVE"
    BY <2>2, NullIsNoThread DEF RunQueues, Placed, Off
  <2>5. ASSUME NEW t \in Thread
        PROVE  In(c[Low], t) <=> t \in Off /\ lib.activeFlag[t] = "RUNNABLE"
    BY <2>2, NullIsNoThread DEF RunQueues, Placed, Off
  <2>6. Off \subseteq Thread
    BY DEF Off
  <2> QED
    BY <2>3, <2>4, <2>5, <2>6
<1> QED
  BY <1>1, GoodAlways, PTL

\* numNodes is the length of the list, and a loop over the list ends.
THEOREM CountsRight == Spec => []CountsAreLengths
<1>1. ASSUME Good PROVE CountsAreLengths
  <2>1. PICK c : LibraryInv(c)
    BY <1>1 DEF Good
  <2>2. TypeOK /\ Held(lib, c)
    BY <1>1, <2>1, GoodIs DEF Good
  <2>3. ASSUME NEW q \in RunQueue
        PROVE  Ends(Walk(lib.heap, q)) /\ lib.numNodes[q] = Cardinality(Members(q))
    <3>1. c[q] \in Seq(Thread) /\ NoneTwice(c[q]) /\ lib.numNodes[q] = Len(c[q])
      BY <2>2 DEF Held, QueueHolds
    <3> QED
      BY <2>2, <3>1, MembersAre, NodesCounted
  <2> QED
    BY <2>3 DEF CountsAreLengths, RunQueue
<1> QED
  BY <1>1, GoodAlways, PTL

\* The aging loop of scheduler() moves nobody, however long a second is.
THEOREM NobodyPromoted == Spec => []AgeNeverPromotes
<1>1. ASSUME Good PROVE AgeNeverPromotes
  <2>1. PICK c : LibraryInv(c)
    BY <1>1 DEF Good
  <2>2. lib \in Lib /\ RunQueues(lib, c)
    BY <1>1, <2>1 DEF Good, TypeOK, LibraryInv
  <2> QED
    BY <2>2, NobodyOld DEF AgeNeverPromotes
<1> QED
  BY <1>1, GoodAlways, PTL

\* A join returns to its caller only when no other thread can ever run.
THEOREM JoinAlone == Spec => []JoinReturnsAlone
<1>1. ASSUME Good PROVE JoinReturnsAlone
  <2>1. PICK c : LibraryInv(c)
    BY <1>1 DEF Good
  <2> SUFFICES ASSUME pc[cpu] = "joined", ~ wiped, NEW t \in Off
               PROVE  lib.activeFlag[t] \in {"WAITING", "DEAD"}
    BY DEF JoinReturnsAlone
  <2>2. /\ lib.currThread = NULL /\ ~ lib.firstTime
        /\ lib.heap.front[Running] = NULL /\ lib.heap.front[Low] = NULL
    BY <2>1 DEF LibraryInv, OnProcessor
  <2>3. /\ lib \in Lib /\ Held(lib, c) /\ Placed(lib, c, pc, wiped)
        /\ t \in Thread /\ pc[t] # "unborn"
    BY <1>1, <2>1, <2>2, GoodIs DEF Good, Off
  <2>4. ~ In(c[Running], t) /\ ~ In(c[Low], t)
    BY <2>2, <2>3, NoNodes, NobodyIn, RunQueueIs
  <2>5. lib.activeFlag[t] \in Flag
    BY <2>3 DEF Lib
  <2> QED
    BY <2>2, <2>3, <2>4, <2>5, NullIsNoThread DEF Placed, Flag
<1> QED
  BY <1>1, GoodAlways, PTL


\* A step that is no pass leaves the processor where it is, and writes no flag
\* but that of the thread that runs.
LEMMA OthersPark ==
  ASSUME Good, UNCHANGED cpu,
         \/ UNCHANGED lib.activeFlag
         \/ \E f : lib.currThread # NULL
                     /\ lib' = [lib EXCEPT !.activeFlag[lib.currThread] = f]
  PROVE  Parks
<1>1. PICK c : LibraryInv(c)
  BY DEF Good
<1>2. lib \in Lib /\ cpu \in Thread /\ lib.currThread \in {cpu, NULL}
  BY <1>1, GoodIs DEF Good
<1>3. CASE UNCHANGED lib.activeFlag
  BY <1>3 DEF Parks
<1>4. ASSUME NEW f, lib.currThread # NULL, lib' = [lib EXCEPT !.activeFlag[lib.currThread] = f]
      PROVE  Parks
  <2>1. \A t \in Thread : t # cpu => lib'.activeFlag[t] = lib.activeFlag[t]
    BY <1>2, <1>4 DEF Lib
  <2> QED
    BY <2>1 DEF Parks
<1> QED
  BY <1>3, <1>4

LEMMA NextParks == ASSUME Good, [Next]_vars PROVE Parks
<1>1. TypeOK /\ lib \in Lib
  BY DEF Good, TypeOK
<1>2. CASE UNCHANGED vars \/ Gone
  BY <1>2, OthersPark DEF vars, Gone
<1>3. CASE process = "runs" /\ \E t \in Thread : FirstCreate(t)
  BY <1>3, FirstCreateGood
<1>4. CASE \E t \in Thread : Create(t)
  <2>1. PICK t \in Thread : UNCHANGED cpu /\ lib' = Enqueue(lib, t, Running)
    BY <1>4 DEF Create
  <2>2. lib'.activeFlag = lib.activeFlag
    BY <1>1, <2>1, EnqueueIs, QueueNumbers DEF SameButLists
  <2> QED
    BY <2>1, <2>2, OthersPark
<1>5. CASE MutexInit
  <2>1. UNCHANGED cpu /\ lib'.activeFlag = lib.activeFlag
    BY <1>1, <1>5 DEF MutexInit, Lib
  <2> QED
    BY <2>1, OthersPark
<1>6. CASE Yield(cpu) \/ Exit(cpu) \/ Join(cpu) \/ Contend(cpu)
  <2>1. PICK from, f, to : SetFlag(cpu, from, f, to)
    BY <1>6 DEF Yield, Exit, Join, Contend
  <2>2. CASE Crash
    BY <2>2, CrashGood
  <2>3. CASE lib.currThread # NULL
    BY <2>1, <2>3, OthersPark DEF SetFlag
  <2> QED
    BY <2>1, <2>2, <2>3 DEF SetFlag
<1>7. CASE StrayJoin(cpu)
  BY <1>7, CrashGood DEF StrayJoin
<1>8. CASE Return(cpu)
  BY <1>8, StopGood DEF Return
<1>9. CASE JoinReturns(cpu) \/ Lock(cpu) \/ TestAndSet(cpu) \/ SetLocked(cpu) \/ Clear(cpu)
  BY <1>9, OthersPark DEF JoinReturns, Lock, TestAndSet, SetLocked, Clear
<1>10. CASE AppendSelf(cpu)
  <2>1. CASE Crash
    BY <2>1, CrashGood
  <2>2. CASE UNCHANGED cpu /\ lib' = GenEnqueue(lib)
    <3>1. lib'.activeFlag = lib.activeFlag
      BY <1>1, <2>2 DEF GenEnqueue, Lib
    <3> QED
      BY <2>2, <3>1, OthersPark
  <2> QED
    BY <1>10, <2>1, <2>2 DEF AppendSelf
<1>11. CASE Unlock(cpu)
  <2>1. UNCHANGED cpu /\ lib'.activeFlag = lib.activeFlag
    BY <1>1, <1>11 DEF Unlock, GenDequeue, Lib
  <2> QED
    BY <2>1, OthersPark
<1>12. CASE process = "runs" /\ CallScheduler(cpu)
  BY <1>12, CallSchedulerGood
<1>13. CASE process = "runs" /\ Alarm
  BY <1>13, AlarmGood
<1> QED
  BY <1>2, <1>3, <1>4, <1>5, <1>6, <1>7, <1>8, <1>9, <1>10, <1>11, <1>12, <1>13
     DEF Next, Call, Body

\* Who waits, for the end of a thread or for the mutex, and has left the
\* processor never returns to it.
THEOREM ParkedStays == Spec => ParkedForever
<1>1. Good /\ [Next]_vars => Parks
  BY NextParks
<1>2. Parks => [\A t \in Thread :
                  t # cpu /\ lib.activeFlag[t] = "WAITING"
                    => cpu' # t /\ lib'.activeFlag[t] = "WAITING"]_vars
  BY DEF Parks
<1>3. Good /\ [Next]_vars =>
        [\A t \in Thread :
           t # cpu /\ lib.activeFlag[t] = "WAITING"
             => cpu' # t /\ lib'.activeFlag[t] = "WAITING"]_vars
  BY <1>1, <1>2
<1> QED
  BY <1>3, GoodAlways, PTL DEF Spec, ParkedForever
=============================================================================
