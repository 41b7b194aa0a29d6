--------------------------- MODULE FirstRevision ---------------------------
(***************************************************************************)
(* The first revision of the library, 01/my_pthread.c.  Its lists are      *)
(* those of ThreadQueues, of which it has three: 0 running, 1 low          *)
(* priority, 2 waiting.  It differs from my_pthread.c in what it does with *)
(* them: nothing leaves queue 2, the age of a thread is taken from the     *)
(* microseconds of the current second, lock exchanges a 0 where it should  *)
(* exchange a 1, and a pass that finds nobody to run returns to its caller.*)
(*                                                                         *)
(* One action per statement another thread can observe; SIGALRM falls      *)
(* between any two of them.  A pass of scheduler() and one list operation  *)
(* are atomic.  Memory is zero when it is allocated, except for the field  *)
(* lastTimeFinished and the copy of a structure that join receives, which  *)
(* my_pthread_create leaves as they were: these hold anything.             *)
(*                                                                         *)
(* Programs are like those of the test area of the file: Main creates the  *)
(* threads and initialises the mutex, nobody joins or ends inside a        *)
(* critical section, and a thread that locks does not yield.               *)
(***************************************************************************)
EXTENDS ThreadLists

CONSTANTS Main,     \* mainThread
          Lockers,  \* the threads that lock the mutex
          Second    \* the number of values tv_usec takes, 1000000

ASSUME MainIsThread == Main \in Thread
ASSUME LockersAreThreads == Lockers \subseteq Thread
ASSUME SecondIsPositive == Second \in Nat \ {0}
ASSUME OneMutex == Mutex = {1}

VARIABLES lib,      \* what a pass of scheduler() reads and writes
          lock,     \* mutex->flag, and whether the mutex was initialised
          cpu,      \* the thread whose code the processor executes
          pc,       \* where each thread is
          wiped,    \* initQueue() was called when threads were queued
          process   \* whether the process is alive

vars == << lib, lock, cpu, pc, wiped, process >>

Flag == {"ACTIVE", "YIELD", "RUNNABLE", "DEAD", "WAITING"}

\* Where a thread calls scheduler(), and where the call returns to.
After == [create |-> "user", yield |-> "user", exit |-> "over",
          join |-> "joined", unlock |-> "clear"]

\* Between two statements of lock, between unlock's call and its last
\* statement, and in the critical section.
Places == DOMAIN After \cup {"unborn", "user", "over", "joined", "clear",
                             "tas", "contend", "append", "set", "critical"}

\* What is in memory that was never written.
Unwritten == {0, 0 - 2 * Second}

Fresh == [heap |-> initQueue, numNodes |-> [q \in Queue |-> 0]]

Init ==
  /\ \E junk \in [Thread -> Unwritten] :
       lib = [heap |-> initQueue,
              numNodes |-> [q \in Queue |-> 0],
              activeFlag |-> [t \in Thread |-> "ACTIVE"],
              waitingOnID |-> [t \in Thread |-> NULL],
              lastTimeFinished |-> junk,
              currThread |-> NULL,
              firstTime |-> TRUE]
  /\ lock = [ready |-> FALSE, flag |-> 0]
  /\ cpu = Main
  /\ pc = [t \in Thread |-> IF t = Main THEN "user" ELSE "unborn"]
  /\ wiped = FALSE
  /\ process = "runs"

-----------------------------------------------------------------------------
(* The queues, with their counts. *)

\* Mutant of Enqueue: "i++" is forgotten.
Enqueue_NotCounted(s, t, q) == [s EXCEPT !.heap = enqueue(s.heap, t, q)]

Enqueue(s, t, q) ==
  [s EXCEPT !.heap = enqueue(s.heap, t, q), !.numNodes[q] = @ + 1]

\* Mutant of Dequeue: the count is stored only when it comes to zero, as in
\* the dequeue of my_pthread.c.
Dequeue_CountsLast(s, q) ==
  [s EXCEPT !.heap = dequeue(s.heap, q),
            !.numNodes[q] = IF @ - 1 <= 0 THEN @ - 1 ELSE @]

Dequeue(s, q) ==
  [s EXCEPT !.heap = dequeue(s.heap, q), !.numNodes[q] = @ - 1]

\* The loops over queues 1 and 2 make the first member of S they meet ACTIVE
\* and move it to queue 0.  As enqueue clears its next, they end there.
Promote(s, q, S) ==
  LET walk == Walk(s.heap, q)
      x    == FirstIn(walk, S)
  IN  IF ~ Meets(walk, S) THEN s
      ELSE Enqueue([s EXCEPT
                      !.heap = unlink(s.heap, q, FirstAfter(walk, S), x),
                      !.activeFlag[x] = "ACTIVE"], x, 0)

-----------------------------------------------------------------------------
(* A pass of scheduler(). *)

\* Mutant of timeStamp: seconds are not dropped.
timeStamp_Full == 0 .. 3 * Second

\* gettimeofday's tv_usec: it starts from 0 every second.
timeStamp == 0 .. Second - 1

\* More than 50000 * 20 microseconds, which make a second.
Old(s, now) == {t \in Thread : now - s.lastTimeFinished[t] > Second}

\* The current thread goes where its flag says.
Requeue(s) ==
  LET t == s.currThread
  IN  CASE s.activeFlag[t] = "WAITING" -> Enqueue(s, t, Waiting)
        [] s.activeFlag[t] = "DEAD" ->
             Promote(s, Waiting, {x \in Thread : s.waitingOnID[x] = t})
        [] s.activeFlag[t] = "YIELD" ->
             Enqueue([s EXCEPT !.activeFlag[t] = "ACTIVE"], t, Running)
        [] OTHER -> Enqueue([s EXCEPT !.activeFlag[t] = "RUNNABLE"], t, Low)

\* Mutant of Pick: nobody is taken from queue 1.
Pick_OnlyTop(s) ==
  LET n == s.heap.front[Running]
  IN  IF n = NULL THEN [s EXCEPT !.currThread = NULL]
      ELSE [Dequeue(s, Running) EXCEPT !.currThread = n]

\* The front of queue 0, or else that of queue 1, or nobody.
Pick(s) ==
  LET q == IF s.heap.front[Running] # NULL THEN Running ELSE Low
      n == s.heap.front[q]
  IN  IF n = NULL THEN [s EXCEPT !.currThread = NULL]
      ELSE [Dequeue(s, q) EXCEPT !.currThread = n]

\* Without a current thread, queue 0 is turned by one and its front taken.
Turn(s) ==
  LET m == s.heap.front[Running]
      r == Enqueue([Dequeue(s, Running) EXCEPT !.activeFlag[m] = "ACTIVE"],
                   m, Running)
  IN  Pick(r)

\* lastTimeFinished is written only when there is somebody to switch to.
Switch(s, t, now) ==
  IF s.currThread = NULL \/ t = NULL THEN s
  ELSE [s EXCEPT !.lastTimeFinished[t] = now]

PassOf(s, now) ==
  LET aged == Promote(s, Low, Old(s, now))
      t    == s.currThread
  IN  Switch(IF t = NULL THEN Turn(aged) ELSE Pick(Requeue(aged)), t, now)

\* m->activeFlag with m NULL: nobody is current and nobody is in queue 0.
Crash == process' = "crashed" /\ UNCHANGED << lib, lock, cpu, pc, wiped >>

scheduler(s, places) ==
  IF s.currThread = NULL /\ s.heap.front[Running] = NULL
  THEN Crash
  ELSE \E now \in timeStamp : \E r \in {PassOf(s, now)} :
         /\ lib' = r
         /\ cpu' = IF r.currThread = NULL THEN cpu ELSE r.currThread
         /\ pc' = places
         /\ UNCHANGED << lock, wiped, process >>

\* The call of scheduler() at the end of create, yield, exit, join, and in
\* unlock.
CallScheduler(t) ==
  /\ pc[t] \in DOMAIN After
  /\ scheduler(lib, [pc EXCEPT ![t] = After[pc[t]]])

\* SIGALRM: the timer is armed by the first pass, and scheduler() is its
\* handler.
Alarm ==
  /\ ~ lib.firstTime
  /\ scheduler(lib, pc)

-----------------------------------------------------------------------------
(* The calls of a thread. *)

\* A step of t's own code that does not call scheduler().
Goes(t, from, to) == pc[t] = from /\ pc' = [pc EXCEPT ![t] = to]

\* currThread->activeFlag = f, which is a NULL dereference when the last pass
\* found nobody.
SetFlag(t, from, f, to) ==
  /\ pc[t] = from
  /\ IF lib.currThread = NULL THEN Crash
     ELSE /\ lib' = [lib EXCEPT !.activeFlag[lib.currThread] = f]
          /\ pc' = [pc EXCEPT ![t] = to]
          /\ UNCHANGED << lock, cpu, wiped, process >>

\* The first create: the queues are made, mainThread is put into queue 0.
\* No timer runs yet.
FirstCreate(t) ==
  /\ cpu = Main
  /\ pc[Main] = "user"
  /\ pc[t] = "unborn"
  /\ lib.firstTime
  /\ LET made == [lib EXCEPT !.heap = Fresh.heap, !.numNodes = Fresh.numNodes,
                             !.firstTime = FALSE]
     IN  scheduler(Enqueue(Enqueue(made, Main, Running), t, Running),
                   [pc EXCEPT ![t] = "user"])

Create(t) ==
  /\ cpu = Main
  /\ pc[Main] = "user"
  /\ pc[t] = "unborn"
  /\ ~ lib.firstTime
  /\ lib' = Enqueue(lib, t, Running)
  /\ pc' = [pc EXCEPT ![t] = "user", ![Main] = "create"]
  /\ UNCHANGED << lock, cpu, wiped, process >>

Yield(t) == t \notin Lockers /\ SetFlag(t, "user", "YIELD", "yield")

Exit(t) == SetFlag(t, "user", "DEAD", "exit")

\* Mutant of Join: waitingOnID is set, as line 347 once did.
Join_Remembers(t) ==
  /\ pc[t] = "user"
  /\ IF lib.currThread = NULL THEN Crash
     ELSE /\ \E x \in Thread :
               lib' = [lib EXCEPT !.activeFlag[t] = "WAITING", !.waitingOnID[t] = x]
          /\ pc' = [pc EXCEPT ![t] = "join"]
          /\ UNCHANGED << lock, cpu, wiped, process >>

\* The search for the joined thread changes nothing, as line 347 is a comment.
Join(t) == SetFlag(t, "user", "WAITING", "join")

\* It may not find the id, and then reads through an uninitialised pointer.
StrayJoin(t) == pc[t] = "user" /\ Crash

JoinReturns(t) ==
  /\ Goes(t, "joined", "user")
  /\ UNCHANGED << lib, lock, cpu, wiped, process >>

\* The function of a thread, or main, returns: a context without uc_link
\* ends the process.
Return(t) ==
  /\ pc[t] \in {"user", "over"}
  /\ process' = "ended"
  /\ UNCHANGED << lib, lock, cpu, pc, wiped >>

-----------------------------------------------------------------------------
(* The mutex. *)

\* initQueue(mutex->wait) takes no argument: it makes pthreadQueue anew.
MutexInit ==
  /\ cpu = Main
  /\ pc[Main] = "user"
  /\ ~ lock.ready
  /\ lock' = [ready |-> TRUE, flag |-> 0]
  /\ lib' = [lib EXCEPT !.heap.front = Fresh.heap.front,
                        !.heap.rear = Fresh.heap.rear,
                        !.numNodes = Fresh.numNodes]
  /\ wiped' = ~ lib.firstTime
  /\ UNCHANGED << cpu, pc, process >>

Lock(t) ==
  /\ t \in Lockers
  /\ lock.ready
  /\ Goes(t, "user", "tas")
  /\ UNCHANGED << lib, lock, cpu, wiped, process >>

\* __sync_lock_test_and_set(&flag, 0).
TestAndSet(t) ==
  /\ Goes(t, "tas", IF lock.flag = 1 THEN "contend" ELSE "set")
  /\ lock' = [lock EXCEPT !.flag = 0]
  /\ UNCHANGED << lib, cpu, wiped, process >>

\* Mutant of Contend: "activeFlag = WAITING" is forgotten.
Contend_KeepsFlag(t) ==
  /\ Goes(t, "contend", "append")
  /\ UNCHANGED << lib, lock, cpu, wiped, process >>

Contend(t) == SetFlag(t, "contend", "WAITING", "append")

GenEnqueue(s) == [s EXCEPT !.heap = gen_enqueue(s.heap, 1, s.currThread)]
GenDequeue(s) == [s EXCEPT !.heap = gen_dequeue(s.heap, 1)]

\* currThread is NULL when SIGALRM has just found nobody; the next to come then
\* follows a rear that is NULL.  The loop goes on without a call of scheduler().
AppendSelf(t) ==
  LET w == lib.heap.wait[1]
  IN  /\ pc[t] = "append"
      /\ IF w.numNodes # 0 /\ w.rear = NULL THEN Crash
         ELSE /\ Goes(t, "append", "tas")
              /\ lib' = GenEnqueue(lib)
              /\ UNCHANGED << lock, cpu, wiped, process >>

SetLocked(t) ==
  /\ Goes(t, "set", "critical")
  /\ lock' = [lock EXCEPT !.flag = 1]
  /\ UNCHANGED << lib, cpu, wiped, process >>

\* The waiter that is taken from the queue is not enqueued anywhere.
Unlock(t) ==
  /\ IF lib.heap.wait[1].front # NULL
     THEN /\ Goes(t, "critical", "unlock")
          /\ lib' = GenDequeue(lib)
     ELSE Goes(t, "critical", "clear") /\ UNCHANGED lib
  /\ UNCHANGED << lock, cpu, wiped, process >>

Clear(t) ==
  /\ Goes(t, "clear", "user")
  /\ lock' = [lock EXCEPT !.flag = 0]
  /\ UNCHANGED << lib, cpu, wiped, process >>

-----------------------------------------------------------------------------
Call(t) == Yield(t) \/ Exit(t) \/ Join(t) \/ StrayJoin(t) \/ Lock(t) \/ Return(t)

\* What the library does when it is executed.
Body(t) ==
  \/ CallScheduler(t) \/ JoinReturns(t)
  \/ TestAndSet(t) \/ Contend(t) \/ AppendSelf(t) \/ SetLocked(t) \/ Clear(t)

Gone == process # "runs" /\ UNCHANGED vars

Next ==
  \/ /\ process = "runs"
     /\ \/ \E t \in Thread : FirstCreate(t) \/ Create(t)
        \/ MutexInit
        \/ Call(cpu) \/ Body(cpu) \/ Unlock(cpu)
        \/ Alarm
  \/ Gone

Spec == Init /\ [][Next]_vars

-----------------------------------------------------------------------------
(* Properties. *)

Lib == [heap             : Heap,
        numNodes         : [Queue -> Nat],
        activeFlag       : [Thread -> Flag],
        waitingOnID      : [Thread -> Pointer],
        lastTimeFinished : [Thread -> Unwritten \cup timeStamp],
        currThread       : Pointer,
        firstTime        : BOOLEAN]

\* Every pointer is a thread or NULL, and every field has its type.
TypeOK ==
  /\ lib \in Lib
  /\ lock \in [ready : BOOLEAN, flag : {0, 1}]
  /\ cpu \in Thread
  /\ pc \in [Thread -> Places]
  /\ wiped \in BOOLEAN
  /\ process \in {"runs", "ended", "crashed"}

Members(q) == Nodes(Walk(lib.heap, q))

Off == {t \in Thread : t # cpu /\ pc[t] # "unborn"}

\* Unless pthreadQueue was made anew under them, the threads that were left
\* ACTIVE are queue 0 and those left RUNNABLE are queue 1, whatever became of
\* next in the mutex's queue and in queue 2 (lines 45-100, 173-213, 393-432).
ReadyAreQueued ==
  ~ wiped /\ ~ lib.firstTime =>
    /\ Members(Running) = {t \in Off : lib.activeFlag[t] = "ACTIVE"}
    /\ Members(Low)     = {t \in Off : lib.activeFlag[t] = "RUNNABLE"}

\* numNodes, up to which join searches, is the length of the list.
CountsAreLengths ==
  \A q \in {Running, Low} :
    /\ Ends(Walk(lib.heap, q))
    /\ lib.numNodes[q] = Cardinality(Members(q))

\* Who waits for a thread to end is never woken, whoever ends (347, 186): from
\* queue 2 nobody returns to the processor.
ParkedForever ==
  [][\A t \in Thread :
       t # cpu /\ lib.activeFlag[t] = "WAITING"
         => cpu' # t /\ lib'.activeFlag[t] = "WAITING"]_vars

\* Aging moves nobody: the age of a thread, taken within a second, is never
\* more than a second (129, 154).
AgeNeverPromotes ==
  \A now \in timeStamp : ~ Meets(Walk(lib.heap, Low), Old(lib, now))

\* A join comes back in one way only: nobody else can run any more (249-267).
JoinReturnsAlone ==
  pc[cpu] = "joined" /\ process = "runs" /\ ~ wiped =>
    \A t \in Off : lib.activeFlag[t] \in {"WAITING", "DEAD"}

\* "Locks a given mutex, other threads attempting to access this mutex will
\* not run until it is unlocked" (457).
OneInside ==
  \A t, u \in Thread :
    pc[t] = "critical" /\ pc[u] = "critical" => t = u
-----------------------------------------------------------------------------
(* Why they hold: the inductive invariant.  c is the sequence of the nodes *)
(* of queue 0, and that of queue 1.                                        *)

RunQueue == {Running, Low}

Lists == [q \in RunQueue |->
            LET walk == Walk(lib.heap, q)
            IN  [k \in 1 .. FirstAt(walk, {NULL}) |-> walk[k - 1]]]

Held(s, c) ==
  \A q \in RunQueue :
    /\ QueueHolds(s.heap, q, c[q]) /\ RearIs(s.heap, q, c[q]) /\ NoneTwice(c[q])
    /\ s.numNodes[q] = Len(c[q])

\* Whoever is in queue 1 has left the processor, and has its time written.
RunQueues(s, c) ==
  /\ Held(s, c)
  /\ \A t \in Thread : In(c[Running], t) => s.activeFlag[t] = "ACTIVE"
  /\ \A t \in Thread :
       In(c[Low], t) => s.activeFlag[t] = "RUNNABLE" /\ s.lastTimeFinished[t] >= 0

\* The nodes behind which queue 2 and the mutex link are in neither of these.
Elsewhere(s) ==
  LET parked == s.heap.rear[Waiting]
      last   == s.heap.wait[1].rear
  IN  /\ parked # NULL => s.activeFlag[parked] = "WAITING" /\ parked # s.currThread
      /\ last # NULL => s.activeFlag[last] \in {"WAITING", "DEAD"} /\ last \in Lockers
      /\ \A t \in Thread : s.waitingOnID[t] = NULL

\* Whoever is not current is queued by its flag, until the queues are lost.
Placed(s, c, places, lost) ==
  \A t \in Thread :
    /\ In(c[Running], t) \/ In(c[Low], t) => t # s.currThread /\ places[t] # "unborn"
    /\ t # s.currThread /\ places[t] # "unborn" =>
         /\ s.activeFlag[t] # "YIELD"
         /\ ~ lost /\ s.activeFlag[t] = "ACTIVE" => In(c[Running], t)
         /\ ~ lost /\ s.activeFlag[t] = "RUNNABLE" => In(c[Low], t)

\* What the flag says in a call, and who makes it.
Calling(s, places) ==
  \A t \in Thread :
    /\ places[t] = "unborn" => s.activeFlag[t] = "ACTIVE" /\ t # s.currThread
    /\ places[t] \in {"join", "joined", "append"} => s.activeFlag[t] = "WAITING"
    /\ places[t] \in {"tas", "contend", "append", "set", "critical", "unlock", "clear"} =>
         t \in Lockers

\* The first pass is made by the first create; a pass that finds nobody to run
\* leaves the processor where it is.
OnProcessor ==
  /\ pc[cpu] # "unborn" /\ pc[Main] # "unborn"
  /\ lib.firstTime =>
       /\ lib.currThread = NULL /\ cpu = Main /\ ~ wiped /\ lib.activeFlag[Main] = "ACTIVE"
       /\ \A t \in Thread \ {Main} : pc[t] = "unborn"
  /\ ~ lib.firstTime =>
       \/ lib.currThread = cpu
       \/ lib.currThread = NULL /\ lib.activeFlag[cpu] \in {"WAITING", "DEAD"}
  /\ pc[cpu] = "joined" =>
       lib.currThread = NULL /\ ~ lib.firstTime
         /\ lib.heap.front[Running] = NULL /\ lib.heap.front[Low] = NULL

LibraryInv(c) ==
  /\ RunQueues(lib, c) /\ Elsewhere(lib)
  /\ Calling(lib, pc)
  /\ IF lib.firstTime THEN c[Running] = << >> /\ c[Low] = << >> ELSE Placed(lib, c, pc, wiped)
  /\ OnProcessor

QueuesInv == LibraryInv(Lists)
=============================================================================
