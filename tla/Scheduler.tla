------------------------------ MODULE Scheduler ------------------------------
(***************************************************************************)
(* The thread library of my_pthread.c: the scheduler, the calls            *)
(* my_pthread_create, yield, exit, join, mutex_lock and mutex_unlock, the  *)
(* wrapper exitChecker every thread function runs in, and the alarm that   *)
(* preempts them.                                                          *)
(*                                                                         *)
(* One thread runs at a time.  A library call is a sequence of actions,    *)
(* one per statement that another thread could observe, because SIGALRM    *)
(* invokes scheduler() between any two of them: the timer is one-shot and  *)
(* a library call does not disarm it.  One pass of scheduler() is one      *)
(* action (the list operations it makes are not interrupted), and its      *)
(* recursive call for a dead thread is an action of its own.               *)
(*                                                                         *)
(* The program above the library is any program that keeps the discipline  *)
(* of main.c and main_0.c: Main creates the threads, nested locks are      *)
(* taken in one order, a thread unlocks what it holds, and it joins or     *)
(* ends holding no lock.                                                   *)
(***************************************************************************)
EXTENDS ThreadQueues

CONSTANTS Main,           \* the thread main() runs in
          Joins,          \* the pairs <<t, x>> such that t joins x
          AgeLimit,       \* 50000*20 microseconds, in ticks of the clock
          AlarmAnywhere,  \* may SIGALRM arrive inside a library call?
          ClockAnywhere   \* may a tick fall inside a library call?

ASSUME MainIsThread == Main \in Thread
ASSUME JoinsArePairs == Joins \subseteq Thread \X Thread
ASSUME AgeLimitNat == AgeLimit \in Nat
ASSUME SwitchesBoolean == AlarmAnywhere \in BOOLEAN /\ ClockAnywhere \in BOOLEAN

VARIABLES
  heap,        \* the lists of ThreadQueues
  activeFlag,  \* t->activeFlag; "NONE" before the structure is initialised
  valueSet,    \* the threads whose valuePtr has been written
  returnList,  \* t->returnList, as the set of the ids in it
  joinValue,   \* what *value_ptr holds for t's join of x: nothing yet, the
               \* address of x's valuePtr, or that of a copy on t's stack
  flag,        \* mutex->flag
  currThread,  \* the global of that name
  sinceRun,    \* ticks since lastTimeFinished, at most AgeLimit + 1
  recursing,   \* scheduler() is about to call itself for the dead currThread
  running,     \* the thread whose code the processor executes
  pc,          \* where in the library each thread is, "user" when outside
  mutex,       \* the argument of t's lock or unlock
  target,      \* the argument of t's join
  held,        \* the mutexes t has locked
  joined,      \* the threads whose join by t has returned
  process      \* "up", "exited", "crashed" or "hung"

vars == << heap, activeFlag, valueSet, returnList, joinValue, flag, currThread,
           sinceRun, recursing, running, pc, mutex, target, held, joined,
           process >>

thread_vars  == << valueSet, returnList, joinValue >>
machine_vars == << recursing, running, process >>
program_vars == << mutex, target, held, joined >>

\* Everything but pc that a step inside a call leaves alone.
scheduling_vars == << currThread, sinceRun, machine_vars >>

Flags == {"NONE", "ACTIVE", "YIELD", "RUNNABLE", "BLOCKING", "DEAD", "WAITING"}

\* A thread in a library call that is about to invoke scheduler() ...
SchedulerPCs == {"create_sched", "yield_sched", "exit_sched", "end_sched",
                 "join_sched", "lock_sched", "unlock_sched"}

\* ... and where it resumes when scheduler() returns to it: in its own code,
\* but for lock, which goes round its loop, join and exitChecker.
AfterScheduler ==
  [p \in SchedulerPCs |-> CASE p = "lock_sched" -> "lock_tas"
                            [] p = "join_sched" -> "join_done"
                            [] p = "end_sched"  -> "end_done"
                            [] OTHER            -> "user"]

PC == {"user", "lock_tas", "lock_block", "lock_enqueue", "lock_done",
       "unlock_clear", "join_wait", "join_list", "join_done", "exit_value",
       "end_dead", "end_done"} \cup SchedulerPCs

TypeOK ==
  /\ heap \in Heap
  /\ activeFlag \in [Thread -> Flags]
  /\ valueSet \subseteq Thread
  /\ returnList \in [Thread -> SUBSET Thread]
  /\ joinValue \in [Thread -> [Thread -> {"none", "field", "copy"}]]
  /\ flag \in [Mutex -> {0, 1}]
  /\ currThread \in Pointer
  /\ sinceRun \in [Thread -> 0 .. AgeLimit + 1]
  /\ recursing \in BOOLEAN
  /\ running \in Thread
  /\ pc \in [Thread -> PC]
  /\ mutex \in [Thread -> Mutex \cup {NULL}]
  /\ target \in [Thread -> Pointer]
  /\ held \in [Thread -> SUBSET Mutex]
  /\ joined \in [Thread -> SUBSET Thread]
  /\ process \in {"up", "exited", "crashed", "hung"}

\* main() after it initialised its mutexes, before its first create.
Init ==
  /\ heap = initQueue
  /\ activeFlag = [t \in Thread |-> "NONE"]
  /\ valueSet = {}
  /\ returnList = [t \in Thread |-> {}]
  /\ joinValue = [t \in Thread |-> [x \in Thread |-> "none"]]
  /\ flag = [m \in Mutex |-> 0]
  /\ currThread = NULL
  /\ sinceRun = [t \in Thread |-> 0]
  /\ recursing = FALSE
  /\ running = Main
  /\ pc = [t \in Thread |-> "user"]
  /\ mutex = [t \in Thread |-> NULL]
  /\ target = [t \in Thread |-> NULL]
  /\ held = [t \in Thread |-> {}]
  /\ joined = [t \in Thread |-> {}]
  /\ process = "up"

\* t is executing its own code or a library call, at p; and is the current
\* thread, which it is not after a pass that found nobody to run.
Executes(t, p) ==
  /\ running = t
  /\ pc[t] = p
  /\ process = "up" /\ ~recursing

At(t, p) == Executes(t, p) /\ currThread = t

Goto(t, p) == pc' = [pc EXCEPT ![t] = p]

-----------------------------------------------------------------------------
(* scheduler() *)

\* The threads in S whose age on the clock passed the limit.
Aged == {t \in Thread : sinceRun[t] > AgeLimit}

\* Mutant of Promotes: the loop starts from the wrong queue.
Promotes_WrongQueue == Meets(Walk(heap, Waiting), Aged)

\* The loop over queue 1.  It ends with the first thread it promotes, for
\* enqueue clears the next field the loop goes on with.
Promotes == Aged # {} /\ Meets(Walk(heap, Low), Aged)
Promoted == FirstIn(Walk(heap, Low), Aged)

AgedHeap ==
  IF Promotes
  THEN enqueue(unlink(heap, Low, FirstAfter(Walk(heap, Low), Aged), Promoted),
               Promoted, Running)
  ELSE heap

AgedFlag ==
  IF Promotes THEN [activeFlag EXCEPT ![Promoted] = "ACTIVE"] ELSE activeFlag

\* Mutants of Requeue: a blocked thread is put back in queue 1 as well, and a
\* dead one falls through to the default.
Requeue_Blocking(h, f, t) ==
  CASE f = "WAITING"  -> enqueue(h, t, Waiting)
    [] f = "DEAD"     -> IF Meets(Walk(h, Dead), {t}) THEN h
                         ELSE enqueue(h, t, Dead)
    [] f = "YIELD"    -> enqueue(h, t, Running)
    [] OTHER          -> enqueue(h, t, Low)

Requeue_Dead(h, f, t) ==
  CASE f = "WAITING"  -> enqueue(h, t, Waiting)
    [] f = "BLOCKING" -> h
    [] f = "YIELD"    -> enqueue(h, t, Running)
    [] OTHER          -> enqueue(h, t, Low)

\* The switch on the flag f of the thread t that was running.
Requeue(h, f, t) ==
  CASE f = "WAITING"  -> enqueue(h, t, Waiting)
    [] f = "DEAD"     -> IF Meets(Walk(h, Dead), {t}) THEN h
                         ELSE enqueue(h, t, Dead)
    [] f = "BLOCKING" -> h
    [] f = "YIELD"    -> enqueue(h, t, Running)
    [] OTHER          -> enqueue(h, t, Low)

FlagAfter(f) ==
  CASE f \in {"WAITING", "DEAD", "BLOCKING"} -> f
    [] f = "YIELD" -> "ACTIVE"
    [] OTHER       -> "RUNNABLE"

\* The lists after the aging loop and the switch on the flag of t.  (A pass
\* takes them as the one member of a set, for TLC to compute them once.)
SwitchedHeap(t) == Requeue(AgedHeap, AgedFlag[t], t)

\* Mutant of WaitersOf: the id in the returnList is not compared.
WaitersOf_Any(t) == {w \in Thread : returnList[w] # {}}

\* The waiters in queue 2 that have the dead thread t in their returnList.
WaitersOf(t) == {w \in Thread : t \in returnList[w]}

\* Mutant of HasWaiter: waiters are sought among the dead.
HasWaiter_WrongQueue(h, t) ==
  /\ AgedFlag[t] = "DEAD"
  /\ Meets(Walk(h, Dead), WaitersOf(t))

HasWaiter(h, t) ==
  /\ AgedFlag[t] = "DEAD"
  /\ Meets(Walk(h, Waiting), WaitersOf(t))

\* The first waiter leaves queue 2 for the head of queue 0 and gets the
\* address of the value; scheduler() then calls itself.  Its entry never has
\* flag 1, so checkIfEmpty holds and the recursion is always taken.
WakeJoiner(t) ==
  \E h \in {SwitchedHeap(t)} :
    LET waiting == Walk(h, Waiting)
        w == FirstIn(waiting, WaitersOf(t))
    IN  /\ HasWaiter(h, t)
        /\ heap' = pushFront(unlink(h, Waiting, FirstAfter(waiting, WaitersOf(t)), w), w)
        /\ activeFlag' = [AgedFlag EXCEPT ![w] = "ACTIVE"]
        /\ joinValue' = [joinValue EXCEPT ![w][t] = "field"]
        /\ recursing' = TRUE
        /\ UNCHANGED << valueSet, returnList, currThread, sinceRun, running, process >>

\* The thread the lists give next: queue 1 only when queue 0 is empty.
Next_node(h) ==
  IF h.front[Running] # NULL THEN h.front[Running] ELSE h.front[Low]

Taken(h) ==
  IF h.front[Running] # NULL THEN dequeue(h, Running)
  ELSE IF h.front[Low] # NULL THEN dequeue(h, Low) ELSE h

\* t is put where its flag says and the processor goes to the next thread.
\* With none, scheduler() returns to t and currThread is left NULL.
Dispatch(t) ==
  \E h \in {SwitchedHeap(t)} :
    LET next == Next_node(h)
    IN  /\ ~ HasWaiter(h, t)
        /\ heap' = Taken(h)
        /\ activeFlag' = [AgedFlag EXCEPT ![t] = FlagAfter(@)]
        /\ currThread' = next
        /\ running' = IF next = NULL THEN t ELSE next
        /\ sinceRun' = IF next = NULL THEN sinceRun ELSE [sinceRun EXCEPT ![t] = 0]
        /\ recursing' = FALSE
        /\ UNCHANGED << valueSet, returnList, joinValue, process >>

\* The loop promotes the thread that a stale rear of queue 0 points to: enqueue
\* makes it its own successor, and the loop goes on with it for ever.
AgingCircles ==
  /\ heap.front[Running] # NULL
  /\ Promotes /\ Promoted = heap.rear[Running]

Pass(t) == ~ AgingCircles /\ (WakeJoiner(t) \/ Dispatch(t))

\* A library call invokes scheduler().
CallScheduler(t) ==
  /\ pc[t] \in SchedulerPCs
  /\ At(t, pc[t])
  /\ Pass(t)
  /\ Goto(t, AfterScheduler[pc[t]])
  /\ UNCHANGED << flag, program_vars >>

\* SIGALRM invokes scheduler(), and t resumes where it was interrupted.
Alarm(t) ==
  /\ At(t, pc[t])
  /\ pc[t] = "user" \/ AlarmAnywhere
  /\ Pass(t)
  /\ UNCHANGED << flag, pc, program_vars >>

\* scheduler() invokes scheduler(), for the same dead thread.
Recurse(t) ==
  /\ process = "up" /\ recursing /\ currThread = t
  /\ Pass(t)
  /\ UNCHANGED << flag, pc, program_vars >>

\* However scheduler() was invoked, a pass whose loop does not end hangs the
\* process.
Hang(t) ==
  /\ process = "up" /\ currThread = t
  /\ recursing \/ (running = t /\ (AlarmAnywhere \/ pc[t] \in SchedulerPCs \cup {"user"}))
  /\ AgingCircles
  /\ process' = "hung"
  /\ UNCHANGED << heap, activeFlag, thread_vars, flag, currThread, sinceRun,
                  recursing, running, pc, program_vars >>

\* The threads of queue 1, whose age is counted up to the limit.
GetsOlder(t) == t # running /\ activeFlag[t] = "RUNNABLE" /\ sinceRun[t] <= AgeLimit

\* Other threads in reach of queue 1, by stale links: their lastTimeFinished
\* is that of an earlier turn, and may be past the limit.
Strays == {t \in Nodes(Walk(heap, Low)) :
             sinceRun[t] <= AgeLimit /\ (t = running \/ activeFlag[t] # "RUNNABLE")}

\* A tick of gettimeofday.  The thread that runs gets its lastTimeFinished
\* when it is switched out.
Tick ==
  /\ process = "up"
  /\ ClockAnywhere \/ (pc[running] = "user" /\ ~recursing)
  /\ \/ /\ \E t \in Thread : GetsOlder(t)
        /\ sinceRun' = [t \in Thread |->
                          IF GetsOlder(t) THEN sinceRun[t] + 1 ELSE sinceRun[t]]
     \/ \E t \in Strays : sinceRun' = [sinceRun EXCEPT ![t] = AgeLimit + 1]
  /\ UNCHANGED << heap, activeFlag, thread_vars, flag, currThread, machine_vars,
                  pc, program_vars >>

-----------------------------------------------------------------------------
(* my_pthread_create *)

\* scheduler() without a current thread: the head of queue 0 moves behind the
\* others, and the processor goes to the head there is then.
Rotated(h) == enqueue(dequeue(h, Running), h.front[Running], Running)

StartFirst(h) ==
  /\ heap' = dequeue(Rotated(h), Running)
  /\ currThread' = Rotated(h).front[Running]
  /\ running' = Rotated(h).front[Running]

\* The first call makes the lists and Main's node.
FirstCreate(x) ==
  /\ process = "up" /\ activeFlag[Main] = "NONE" /\ x # Main
  /\ activeFlag' = [activeFlag EXCEPT ![Main] = "ACTIVE", ![x] = "ACTIVE"]
  /\ StartFirst(enqueue(enqueue(initQueue, Main, Running), x, Running))
  /\ UNCHANGED << thread_vars, flag, sinceRun, recursing, process, pc, program_vars >>

Create(x) ==
  /\ At(Main, "user")
  /\ activeFlag[x] = "NONE"
  /\ activeFlag' = [activeFlag EXCEPT ![x] = "ACTIVE"]
  /\ heap' = enqueue(heap, x, Running)
  /\ Goto(Main, "create_sched")
  /\ UNCHANGED << thread_vars, flag, scheduling_vars, program_vars >>

\* Main creates a thread after scheduler() returned to it with none to run:
\* x, alone in queue 0, is where the processor goes.
OrphanCreate(x) ==
  /\ process = "up" /\ ~recursing
  /\ running = Main /\ currThread = NULL /\ pc[Main] = "user"
  /\ activeFlag[Main] # "NONE" /\ activeFlag[x] = "NONE"
  /\ activeFlag' = [activeFlag EXCEPT ![x] = "ACTIVE"]
  /\ StartFirst(enqueue(heap, x, Running))
  /\ UNCHANGED << thread_vars, flag, sinceRun, recursing, process, pc, program_vars >>

-----------------------------------------------------------------------------
(* my_pthread_yield, my_pthread_exit, and the end of exitChecker *)

Yield(t) ==
  /\ At(t, "user")
  /\ activeFlag' = [activeFlag EXCEPT ![t] = "YIELD"]
  /\ Goto(t, "yield_sched")
  /\ UNCHANGED << heap, thread_vars, flag, scheduling_vars, program_vars >>

\* A thread that ends holds no lock, and Main does not end this way.
MayEnd(t) == t # Main /\ held[t] = {}

\* exit marks the thread dead before it stores the value, ...
Exit(t) ==
  /\ At(t, "user") /\ MayEnd(t)
  /\ activeFlag' = [activeFlag EXCEPT ![t] = "DEAD"]
  /\ Goto(t, "exit_value")
  /\ UNCHANGED << heap, thread_vars, flag, scheduling_vars, program_vars >>

\* Mutant of ExitValue: the value is not stored.
ExitValue_Lost(t) ==
  /\ At(t, "exit_value")
  /\ Goto(t, "exit_sched")
  /\ UNCHANGED << heap, activeFlag, thread_vars, flag, scheduling_vars,
                  program_vars >>

ExitValue(t) ==
  /\ At(t, "exit_value")
  /\ valueSet' = valueSet \cup {t}
  /\ Goto(t, "exit_sched")
  /\ UNCHANGED << heap, activeFlag, returnList, joinValue, flag, scheduling_vars,
                  program_vars >>

\* ... and exitChecker, when the thread function returns, after.
Return(t) ==
  /\ At(t, "user") /\ MayEnd(t)
  /\ valueSet' = valueSet \cup {t}
  /\ Goto(t, "end_dead")
  /\ UNCHANGED << heap, activeFlag, returnList, joinValue, flag, scheduling_vars,
                  program_vars >>

ReturnDead(t) ==
  /\ At(t, "end_dead")
  /\ activeFlag' = [activeFlag EXCEPT ![t] = "DEAD"]
  /\ Goto(t, "end_sched")
  /\ UNCHANGED << heap, thread_vars, flag, scheduling_vars, program_vars >>

-----------------------------------------------------------------------------
(* my_pthread_join *)

\* The joined structure is passed by value: the test reads the flag as it
\* was at the call, and the value of a dead thread is that of the copy.
Join(t, x) ==
  /\ At(t, "user") /\ held[t] = {}
  /\ << t, x >> \in Joins /\ x \notin joined[t]
  /\ activeFlag[x] # "NONE"
  /\ target' = [target EXCEPT ![t] = x]
  /\ IF activeFlag[x] = "DEAD"
     THEN /\ joinValue' = [joinValue EXCEPT ![t][x] = "copy"]
          /\ Goto(t, "join_sched")
     ELSE /\ Goto(t, "join_wait")
          /\ UNCHANGED joinValue
  /\ UNCHANGED << heap, activeFlag, valueSet, returnList, flag, scheduling_vars,
                  mutex, held, joined >>

JoinWait(t) ==
  /\ At(t, "join_wait")
  /\ activeFlag' = [activeFlag EXCEPT ![t] = "WAITING"]
  /\ Goto(t, "join_list")
  /\ UNCHANGED << heap, thread_vars, flag, scheduling_vars, program_vars >>

\* Mutant of JoinList: a list that has an entry is not appended to.
JoinList_OnlyFirst(t) ==
  /\ At(t, "join_list")
  /\ returnList' = [returnList EXCEPT ![t] = IF @ = {} THEN {target[t]} ELSE @]
  /\ Goto(t, "join_sched")
  /\ UNCHANGED << heap, activeFlag, valueSet, joinValue, flag, scheduling_vars,
                  program_vars >>

JoinList(t) ==
  /\ At(t, "join_list")
  /\ returnList' = [returnList EXCEPT ![t] = @ \cup {target[t]}]
  /\ Goto(t, "join_sched")
  /\ UNCHANGED << heap, activeFlag, valueSet, joinValue, flag, scheduling_vars,
                  program_vars >>

\* The join returns, to a thread the scheduler may have left without a
\* currThread.
JoinDone(t) ==
  /\ Executes(t, "join_done")
  /\ joined' = [joined EXCEPT ![t] = @ \cup {target[t]}]
  /\ target' = [target EXCEPT ![t] = NULL]
  /\ Goto(t, "user")
  /\ UNCHANGED << heap, activeFlag, thread_vars, flag, scheduling_vars, mutex, held >>

-----------------------------------------------------------------------------
(* my_pthread_mutex_lock *)

Lock(t, m) ==
  /\ At(t, "user")
  /\ \A n \in held[t] : n < m
  /\ mutex' = [mutex EXCEPT ![t] = m]
  /\ Goto(t, "lock_tas")
  /\ UNCHANGED << heap, activeFlag, thread_vars, flag, scheduling_vars, target,
                  held, joined >>

\* Mutants of TestAndSet: 0 is stored, as in 01/my_pthread.c, and a plain test
\* leaves it to the statement after the loop to set the flag.
TestAndSet_Zero(t) ==
  /\ Executes(t, "lock_tas")
  /\ Goto(t, IF flag[mutex[t]] = 1 THEN "lock_block" ELSE "lock_done")
  /\ flag' = [flag EXCEPT ![mutex[t]] = 0]
  /\ UNCHANGED << heap, activeFlag, thread_vars, scheduling_vars, program_vars >>

TestAndSet_Plain(t) ==
  /\ Executes(t, "lock_tas")
  /\ Goto(t, IF flag[mutex[t]] = 1 THEN "lock_block" ELSE "lock_done")
  /\ UNCHANGED << flag, heap, activeFlag, thread_vars, scheduling_vars, program_vars >>

\* __sync_lock_test_and_set(&mutex->flag, 1), the test of the loop.  Neither
\* it, nor LockDone, nor unlock up to its pass asks for currThread.
TestAndSet(t) ==
  /\ Executes(t, "lock_tas")
  /\ Goto(t, IF flag[mutex[t]] = 1 THEN "lock_block" ELSE "lock_done")
  /\ flag' = [flag EXCEPT ![mutex[t]] = 1]
  /\ UNCHANGED << heap, activeFlag, thread_vars, scheduling_vars, program_vars >>

LockBlock(t) ==
  /\ At(t, "lock_block")
  /\ activeFlag' = [activeFlag EXCEPT ![t] = "BLOCKING"]
  /\ Goto(t, "lock_enqueue")
  /\ UNCHANGED << heap, thread_vars, flag, scheduling_vars, program_vars >>

LockEnqueue(t) ==
  /\ At(t, "lock_enqueue")
  /\ heap' = gen_enqueue(heap, mutex[t], t)
  /\ Goto(t, "lock_sched")
  /\ UNCHANGED << activeFlag, thread_vars, flag, scheduling_vars, program_vars >>

\* "if (mutex->flag == 0) mutex->flag = 1", and the return.
LockDone(t) ==
  /\ Executes(t, "lock_done")
  /\ flag' = [flag EXCEPT ![mutex[t]] = 1]
  /\ held' = [held EXCEPT ![t] = @ \cup {mutex[t]}]
  /\ mutex' = [mutex EXCEPT ![t] = NULL]
  /\ Goto(t, "user")
  /\ UNCHANGED << heap, activeFlag, thread_vars, scheduling_vars, target, joined >>

-----------------------------------------------------------------------------
(* my_pthread_mutex_unlock *)

\* Mutant of Unlock: nobody is woken.
Unlock_Silent(t, m) ==
  /\ Executes(t, "user") /\ m \in held[t]
  /\ mutex' = [mutex EXCEPT ![t] = m]
  /\ Goto(t, "unlock_clear")
  /\ UNCHANGED << heap, activeFlag, thread_vars, flag, scheduling_vars, target,
                  held, joined >>

\* The head of the wait queue is made runnable; it tries the lock again.
Unlock(t, m) ==
  LET x == heap.wait[m].front
  IN  /\ Executes(t, "user") /\ m \in held[t]
      /\ IF x # NULL
         THEN /\ heap' = enqueue(gen_dequeue(heap, m), x, Running)
              /\ activeFlag' = [activeFlag EXCEPT ![x] = "ACTIVE"]
         ELSE UNCHANGED << heap, activeFlag >>
      /\ mutex' = [mutex EXCEPT ![t] = m]
      /\ Goto(t, "unlock_clear")
      /\ UNCHANGED << thread_vars, flag, scheduling_vars, target, held, joined >>

UnlockClear(t) ==
  /\ Executes(t, "unlock_clear")
  /\ flag' = [flag EXCEPT ![mutex[t]] = 0]
  /\ held' = [held EXCEPT ![t] = @ \ {mutex[t]}]
  /\ mutex' = [mutex EXCEPT ![t] = NULL]
  /\ Goto(t, "unlock_sched")
  /\ UNCHANGED << heap, activeFlag, thread_vars, scheduling_vars, target, joined >>

-----------------------------------------------------------------------------
(* The end of the process. *)

\* main() returns when its joins have.
MainReturns ==
  /\ process = "up" /\ ~recursing /\ running = Main /\ pc[Main] = "user"
  /\ held[Main] = {}
  /\ \A t \in Thread : activeFlag[t] # "NONE"
  /\ \A x \in Thread : << Main, x >> \in Joins => x \in joined[Main]
  /\ process' = "exited"
  /\ UNCHANGED << heap, activeFlag, thread_vars, flag, currThread, sinceRun,
                  recursing, running, pc, program_vars >>

\* scheduler() returned to t with no thread to run.
Orphan(t) ==
  /\ process = "up" /\ ~recursing
  /\ running = t /\ currThread = NULL
  /\ activeFlag[Main] # "NONE"

\* exitChecker returns, and the context it ends has no successor.
LastContextEnds(t) ==
  /\ Orphan(t) /\ pc[t] = "end_done"
  /\ process' = "exited"
  /\ UNCHANGED << heap, activeFlag, thread_vars, flag, currThread, sinceRun,
                  recursing, running, pc, program_vars >>

\* Where a call goes on to a statement that does not ask for currThread.
Untouched == {"lock_tas", "lock_done", "unlock_clear", "join_done", "end_done"}

\* The next alarm, or the next statement of the library, takes a field of a
\* null pointer: of currThread in lock, yield, exit and join, of the dequeued
\* thread in scheduler().  If an unlock has woken a thread, that pass finds
\* one, and saves the context of t in that of Main, where the model ends too.
NullDereference(t) ==
  /\ Orphan(t)
  /\ AlarmAnywhere \/ pc[t] \notin Untouched
  /\ process' = "crashed"
  /\ UNCHANGED << heap, activeFlag, thread_vars, flag, currThread, sinceRun,
                  recursing, running, pc, program_vars >>

\* The process is gone.
Gone == process # "up" /\ UNCHANGED vars

-----------------------------------------------------------------------------

\* The steps of a library call t has made: they go on by themselves.
Library(t) ==
  \/ CallScheduler(t) \/ Recurse(t)
  \/ ExitValue(t) \/ ReturnDead(t)
  \/ JoinWait(t) \/ JoinList(t) \/ JoinDone(t)
  \/ TestAndSet(t) \/ LockBlock(t) \/ LockEnqueue(t) \/ LockDone(t)
  \/ UnlockClear(t)

\* The calls t's own code may make.
Program(t) ==
  \/ Yield(t) \/ Exit(t) \/ Return(t)
  \/ \E x \in Thread : Join(t, x)
  \/ \E m \in Mutex : Lock(t, m) \/ Unlock(t, m)

Next ==
  \/ \E t \in Thread : Library(t) \/ Program(t) \/ Alarm(t)
  \/ \E x \in Thread : FirstCreate(x) \/ Create(x) \/ OrphanCreate(x)
  \/ Tick
  \/ MainReturns
  \/ \E t \in Thread : LastContextEnds(t) \/ NullDereference(t) \/ Hang(t)
  \/ Gone

Spec == Init /\ [][Next]_vars

\* A library call has a statement to execute.
InLibrary ==
  process = "up" /\ (recursing \/ pc[running] \in Untouched \ {"end_done"}
                       \/ (currThread = running /\ pc[running] \notin {"user", "end_done"}))

\* A thread executes its own code while another is ready.
KeepsOther ==
  /\ process = "up" /\ ~recursing /\ currThread = running /\ pc[running] = "user"
  /\ heap.front[Running] # NULL \/ heap.front[Low] # NULL

\* The processor executes the library's code, and the one-shot timer that every
\* pass of scheduler() arms goes off.  This is weak fairness of Library and of
\* Alarm, written out with a guard in place of ENABLED, whose evaluation of a
\* pass of scheduler() is slow; an alarm that finds no other thread ready is
\* not asked for.  Time goes by: a tick is due again and again, though not
\* while the library runs.  Nothing obliges a thread to make a call, but it
\* does not keep a mutex for ever.
Fairness ==
  /\ []<>~InLibrary \/ []<><<\E t \in Thread : Library(t)>>_vars
  /\ []<>~KeepsOther \/ []<><<\E t \in Thread : Alarm(t)>>_vars
  /\ SF_vars(Tick)
  /\ \A t \in Thread : SF_vars(\E m \in Mutex : Unlock(t, m))

FairSpec == Spec /\ Fairness

-----------------------------------------------------------------------------
(* What the library promises. *)

\* Two threads never hold one mutex (my_pthread_mutex_lock: "other threads
\* attempting to access this mutex will not run until it is unlocked"), nor
\* does one while another is past the test-and-set of its lock.
InCritical(t, m) == m \in held[t] \/ (pc[t] = "lock_done" /\ mutex[t] = m)

MutualExclusion ==
  \A m \in Mutex : \A t, u \in Thread :
    InCritical(t, m) /\ InCritical(u, m) => t = u

\* Why it holds, and the inductive invariant that proves it: whoever is in the
\* critical section of m has its flag set, an unlock clears the flag of a mutex
\* its caller holds, and the argument of a call under way is known.
LockPCs == {"lock_tas", "lock_block", "lock_enqueue", "lock_sched", "lock_done"}
JoinPCs == {"join_wait", "join_list", "join_sched", "join_done"}

ArgumentsInv ==
  \A t \in Thread : /\ pc[t] \in LockPCs => mutex[t] \in Mutex
                    /\ pc[t] \in JoinPCs => target[t] \in Thread

LockInv ==
  /\ \A m \in Mutex : \A t \in Thread : InCritical(t, m) => flag[m] = 1
  /\ \A t \in Thread : pc[t] = "unlock_clear" => mutex[t] \in held[t]
  /\ MutualExclusion

Inv == TypeOK /\ ArgumentsInv /\ LockInv

\* The waiters of m.  next of the last of them may be stale, and gen_dequeue
\* relies on numNodes instead.
Waiters(m) ==
  LET walk == WalkFrom(heap, heap.wait[m].front)
  IN  {walk[k] : k \in {i \in DOMAIN walk : i < heap.wait[m].numNodes}} \ {NULL}

Places(t) ==
  {<< "queue", q >> : q \in {r \in Queue : t \in Nodes(Walk(heap, r))}}
    \cup {<< "mutex", m >> : m \in {n \in Mutex : t \in Waiters(n)}}

\* The list a thread's flag says it is in, by the comments on the flags.
HomeBy(f, m) ==
  CASE f = "ACTIVE"   -> << "queue", Running >>
    [] f = "RUNNABLE" -> << "queue", Low >>
    [] f = "WAITING"  -> << "queue", Waiting >>
    [] f = "DEAD"     -> << "queue", Dead >>
    [] f = "BLOCKING" -> << "mutex", m >>
    [] OTHER          -> << "none", NULL >>

Home(t) == HomeBy(activeFlag[t], mutex[t])

\* Every thread off the processor is in the one list its flag names, so none
\* is lost or queued twice; the running thread is in none the scheduler takes
\* threads from.  enqueue, dequeue, unlink, pushFront, the switch of
\* scheduler() and the queue of a mutex share one next field per thread.
EachThreadInItsPlace ==
  \A t \in Thread :
    IF activeFlag[t] = "NONE" THEN Places(t) = {}
    ELSE IF t = running
         THEN /\ Places(t) \subseteq {Home(t)}
              /\ Places(t) # {} => activeFlag[t] \in {"BLOCKING", "DEAD"}
         ELSE Places(t) = {Home(t)}

\* Every list comes to an end, so the loops of scheduler(), and the one that
\* prints the wait queue in my_pthread_mutex_lock, do: no walk runs in a circle
\* through a stale next field.
ListsEnd ==
  /\ \A q \in Queue : Ends(Walk(heap, q))
  /\ \A m \in Mutex : Ends(WalkFrom(heap, heap.wait[m].front))

\* A free mutex with waiters has one that was woken and is about to try the
\* lock again: unlock wakes only one and wakes nobody when it finds no queue.
NoLostWakeup ==
  \A m \in Mutex :
    flag[m] = 0 /\ heap.wait[m].numNodes > 0 =>
      \E t \in Thread : /\ mutex[t] = m /\ pc[t] = "lock_tas"
                        /\ activeFlag[t] \in {"ACTIVE", "RUNNABLE"}

\* my_pthread_join: "thread is the thread that current thread wants to wait
\* till exit".  When a join has returned, its target is dead.
JoinWaitsForExit ==
  \A t \in Thread : \A x \in joined[t] : activeFlag[x] = "DEAD"

\* ... and *value_ptr is the address of a stored value.
JoinFindsValue ==
  \A t \in Thread : \A x \in joined[t] :
    joinValue[t][x] # "none" /\ x \in valueSet

\* A joiner off the processor waits for a thread that is still to come through
\* scheduler() as a dead one, and will be found by it: join reads the flag of
\* its target, marks itself and lists the target in separate steps.
NoLostJoiner ==
  \A t \in Thread :
    activeFlag[t] = "WAITING" /\ running # t =>
      /\ target[t] \in returnList[t]
      /\ activeFlag[target[t]] # "DEAD" \/ running = target[t]

\* scheduler() always finds a thread to run: it never returns to its caller
\* with currThread NULL, whatever the threads wait for, and its loops end.
SchedulerFindsThread ==
  process \notin {"crashed", "hung"} /\ (activeFlag[Main] # "NONE" => currThread # NULL)

\* A blocked thread that is off the processor is in the queue of its mutex
\* (my_pthread_mutex_lock: "this thread should be waiting in the mutex queue").
BlockedIsQueued ==
  \A t \in Thread :
    activeFlag[t] = "BLOCKING" /\ t # running => t \in Waiters(mutex[t])

\* A dead thread that left the processor never gets it back, whichever list
\* its node is left linked in.
DeadStaysDead ==
  [][\A t \in Thread : activeFlag[t] = "DEAD" /\ running # t
                         => activeFlag'[t] = "DEAD" /\ running' # t]_vars

\* A thread that can run does run.  A preempted thread of queue 1 is not
\* starved by threads that keep queue 0 full with yields, because scheduler()
\* promotes it when it has waited longer than AgeLimit.
NoStarvation ==
  \A t \in Thread :
    activeFlag[t] \in {"ACTIVE", "RUNNABLE"}
      ~> running = t \/ process # "up"

\* A thread in the queue of a mutex is woken, whoever else takes the mutex in
\* the meantime: the queue is served in turn.
BlockedIsWoken ==
  \A t \in Thread :
    activeFlag[t] = "BLOCKING" ~> activeFlag[t] # "BLOCKING" \/ process # "up"

\* A thread that waits for another that is dead returns from its join.
JoinReturns ==
  \A t, x \in Thread :
    target[t] = x /\ activeFlag[x] = "DEAD" ~> x \in joined[t] \/ process # "up"
=============================================================================
