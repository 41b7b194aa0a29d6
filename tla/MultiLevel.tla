----------------------------- MODULE MultiLevel -----------------------------
(***************************************************************************)
(* The library of 01/mutex_tests.c: a queue of threads per priority level, *)
(* demotion of a thread that has used up its quanta, and aging, which puts *)
(* old threads back on the highest level.                                  *)
(*                                                                         *)
(* A queue is head, tail and size; what it holds are the size first nodes  *)
(* from head on along nxt_pthread, which is never cleared.  Only the loop  *)
(* that ages a level follows nxt_pthread until it is NULL.                 *)
(*                                                                         *)
(* main() is no thread of the library: it creates threads until the first  *)
(* SIGALRM, which saves its context in a local variable of schedule_handler*)
(* for nobody to resume.  return_value and num_sched are never read, and   *)
(* left out.                                                               *)
(***************************************************************************)
EXTENDS Integers, FiniteSets, Sequences

CONSTANTS Thread, Mutex, NULL,
          NLEVELS,
          CHECK_FRQ,     \* how many passes there are between two agings
          AGE_THRSHLD,   \* the age from which on a thread is old, in ticks
          AlarmAnywhere, \* may SIGALRM arrive inside library calls?
          MaxAgings,     \* bound: how many agings may move a thread
          MaxSize        \* bound: the size of a queue, which aging leaves wrong

ASSUME ThreadAssumption ==
  IsFiniteSet(Thread) /\ NULL \notin Thread /\ Mutex \cap (0 .. NLEVELS) = {}
ASSUME LevelsAssumption ==
  /\ {NLEVELS, CHECK_FRQ, AGE_THRSHLD} \subseteq Nat \ {0}
  /\ {MaxAgings, MaxSize} \subseteq Nat
  /\ AlarmAnywhere \in BOOLEAN

Level   == 0 .. NLEVELS - 1
Queue   == Level \cup Mutex      \* mutex->wait goes by the name of its mutex
Pointer == Thread \cup {NULL}

\* "NEW" stands for what a thread's memory holds before it is created.
State == {"NEW", "READY", "RUNNING", "YIELD", "WAITING", "TERMINATED"}

-----------------------------------------------------------------------------
(* The scheduler's data, as a record of what a pass reads and writes:      *)
(* nxt_pthread, thread_state, priority and time_ran of every thread (the   *)
(* last in units of TIME_QUANT), and head, tail and size of every queue.   *)

create_queues ==
  [nxt |-> [t \in Thread |-> NULL], state |-> [t \in Thread |-> "NEW"],
   priority |-> [t \in Thread |-> 0], time_ran |-> [t \in Thread |-> 0],
   head |-> [q \in Queue |-> NULL], tail |-> [q \in Queue |-> NULL],
   size |-> [q \in Queue |-> 0]]

\* Mutant: the new node is put in front.
enqueue_Lifo(s, q, t) ==
  IF s.size[q] = 0
  THEN [s EXCEPT !.head[q] = t, !.tail[q] = t, !.size[q] = 1]
  ELSE [s EXCEPT !.nxt[t] = s.head[q], !.head[q] = t, !.size[q] = @ + 1]

enqueue(s, q, t) ==
  IF s.size[q] = 0
  THEN [s EXCEPT !.head[q] = t, !.tail[q] = t, !.size[q] = 1]
  ELSE [s EXCEPT !.nxt[s.tail[q]] = t, !.tail[q] = t, !.size[q] = @ + 1]

\* Mutant: the last node leaves head and tail as they were.
dequeue_NoLast(s, q) ==
  [s EXCEPT !.head[q] = s.nxt[s.head[q]], !.size[q] = @ - 1]

\* Called when head is a node: the node it returns.
dequeue(s, q) ==
  IF s.size[q] = 1
  THEN [s EXCEPT !.head[q] = NULL, !.tail[q] = NULL, !.size[q] = 0]
  ELSE [s EXCEPT !.head[q] = s.nxt[s.head[q]], !.size[q] = @ - 1]

\* Mutant: the quanta it has used stay counted.
add_mypthread_sched_KeepsTime(s, t, p) ==
  enqueue([s EXCEPT !.state[t] = "READY", !.priority[t] = p], p, t)

add_mypthread_sched(s, t, p) ==
  enqueue([s EXCEPT !.state[t] = "READY", !.priority[t] = p, !.time_ran[t] = 0],
          p, t)

-----------------------------------------------------------------------------
(* Aging.  w is where the loop stands: the data, temp and parent, and      *)
(* whether it has moved a thread.                                          *)

\* No loop over a level that ends is longer.
WalkBound == 4 * Cardinality(Thread)

unlink(s, q, parent, t) ==
  IF parent = NULL THEN [s EXCEPT !.head[q] = s.nxt[t]]
                   ELSE [s EXCEPT !.nxt[parent] = s.nxt[t]]

MoveUp(w, i) ==
  LET s == add_mypthread_sched(unlink(w.sched, i, w.parent, w.temp), w.temp, 0)
  IN  [w EXCEPT !.sched = s, !.temp = s.nxt[w.temp], !.moved = TRUE]

AgeNode(w, i, old) ==
  IF w.temp = NULL THEN w
  ELSE IF w.temp \in old THEN MoveUp(w, i)
  ELSE [w EXCEPT !.temp = w.sched.nxt[w.temp], !.parent = w.temp]

AgeLevel(w, i, old) ==
  LET at[k \in 0 .. WalkBound] ==
        IF k = 0 THEN [w EXCEPT !.temp = w.sched.head[i], !.parent = NULL]
        ELSE AgeNode(at[k - 1], i, old)
  IN  IF w.temp = NULL THEN at[WalkBound] ELSE w

\* All levels but the highest.  A temp that is not NULL at the end means that
\* the loop did not end.
Aged(s, old) ==
  LET upto[i \in Level] ==
        IF i = 0
        THEN [sched |-> s, temp |-> NULL, parent |-> NULL, moved |-> FALSE]
        ELSE AgeLevel(upto[i - 1], i, old)
  IN  upto[NLEVELS - 1]

-----------------------------------------------------------------------------
(* The pass, for the thread t that it interrupts or that called it.        *)

\* time_ran >= priority_list[priority]
Expired(s, t) == s.time_ran[t] >= s.priority[t] + 1

Stays(s, t) ==
  ~Expired(s, t) /\ s.state[t] \notin {"YIELD", "TERMINATED", "WAITING"}

Demoted(p) == IF p + 1 > NLEVELS - 1 THEN NLEVELS - 1 ELSE p + 1

\* Mutant: the case WAITING is forgotten.
Requeued_Waiting(s, t) ==
  CASE s.state[t] = "TERMINATED" -> s
    [] s.state[t] = "YIELD" -> add_mypthread_sched(s, t, s.priority[t])
    [] OTHER -> add_mypthread_sched(s, t, Demoted(s.priority[t]))

Requeued(s, t) ==
  CASE s.state[t] \in {"TERMINATED", "WAITING"} -> s
    [] s.state[t] = "YIELD" -> add_mypthread_sched(s, t, s.priority[t])
    [] OTHER -> add_mypthread_sched(s, t, Demoted(s.priority[t]))

Served(s) == {i \in Level : s.head[i] # NULL}

\* Mutant: the lowest level is served first.
Highest_Lowest(S) == CHOOSE i \in S : \A j \in S : j <= i
Highest(S) == CHOOSE i \in S : \A j \in S : i <= j

\* sched_chooseThread, and thread_state = RUNNING: who runs and what is left.
Choice(s) ==
  IF Served(s) = {} THEN [sched |-> s, thread |-> NULL]
  ELSE LET i == Highest(Served(s))
           t == s.head[i]
       IN  [sched  |-> [dequeue(s, i) EXCEPT !.state[t] = "RUNNING"],
            thread |-> t]

Charged(s, t) == [s EXCEPT !.time_ran[t] = @ + 1]

Scheduled(s, t) ==
  IF t = NULL THEN Choice(s)
  ELSE IF Stays(Charged(s, t), t) THEN [sched |-> Charged(s, t), thread |-> t]
  ELSE Choice(Requeued(Charged(s, t), t))

-----------------------------------------------------------------------------
VARIABLES
  sched,        \* the record above
  flag,         \* of every mutex
  check_flag,   \* passes since the last aging
  age,          \* time since last_exe_tt, up to AGE_THRSHLD
  thread_curr,  \* the thread that runs; NULL while main() does
  pc,           \* where in the library each thread is
  mutex,        \* the argument of the lock or unlock under way
  target,       \* the argument of the join under way
  held,         \* the mutexes each thread has locked
  agings,       \* how many agings have moved a thread
  process       \* "up", or how it ended

vars == << sched, flag, check_flag, age, thread_curr, pc, mutex, target, held,
           agings, process >>
pass_vars == << check_flag, age, thread_curr, agings, process >>
call_vars == << mutex, target, held >>

\* Between two statements of a call.
LockPC == {"lock", "lock_block", "lock_enqueue", "lock_sched"}
PC     == LockPC \cup {"user", "unlock_clear", "yield_sched", "join",
                        "exit_sched", "end_sched", "end"}

Sched ==
  [nxt : [Thread -> Pointer], state : [Thread -> State],
   priority : [Thread -> Level], time_ran : [Thread -> Nat],
   head : [Queue -> Pointer], tail : [Queue -> Pointer], size : [Queue -> Nat]]

Counted(s) ==
  \A q \in Queue : /\ s.size[q] # 0 <=> s.tail[q] # NULL
                   /\ s.head[q] # NULL => s.size[q] # 0

\* The types; and, whatever aging does to the size of a queue, one that has a
\* head is not empty, and one that is not empty has a tail: size never gets
\* below 0 (44), and enqueue follows no NULL (30).
TypeOK ==
  /\ sched \in Sched /\ Counted(sched)
  /\ flag \in [Mutex -> 0 .. 1]
  /\ check_flag \in 0 .. CHECK_FRQ
  /\ age \in [Thread -> 0 .. AGE_THRSHLD]
  /\ thread_curr \in Pointer
  /\ pc \in [Thread -> PC]
  /\ mutex \in [Thread -> Mutex \cup {NULL}]
  /\ target \in [Thread -> Pointer]
  /\ held \in [Thread -> SUBSET Mutex]
  /\ agings \in 0 .. MaxAgings
  /\ process \in {"up", "exited", "idle", "hung"}

\* init_schedule has made its first pass, which found nobody to run, and
\* mutex_init has been called.  A thread that never ran has last_exe_tt 0.
Init ==
  /\ sched = create_queues
  /\ flag = [m \in Mutex |-> 0]
  /\ check_flag = 1
  /\ age = [t \in Thread |-> AGE_THRSHLD]
  /\ thread_curr = NULL
  /\ pc = [t \in Thread |-> "user"]
  /\ mutex = [t \in Thread |-> NULL]
  /\ target = [t \in Thread |-> NULL]
  /\ held = [t \in Thread |-> {}]
  /\ agings = 0
  /\ process = "up"

At(t, p)   == process = "up" /\ thread_curr = t /\ pc[t] = p
Goto(t, p) == pc' = [pc EXCEPT ![t] = p]

-----------------------------------------------------------------------------
(* schedule_handler *)

Old == {t \in Thread : age[t] = AGE_THRSHLD}

\* "check_flag++ >= CHECK_FRQ"
AgingDue == check_flag = CHECK_FRQ

AfterAging ==
  IF AgingDue THEN Aged(sched, Old)
  ELSE [sched |-> sched, temp |-> NULL, parent |-> NULL, moved |-> FALSE]

Dispatch(next) ==
  /\ sched' = next.sched
  /\ thread_curr' = next.thread
  /\ age' = IF next.thread = NULL THEN age ELSE [age EXCEPT ![next.thread] = 0]
  /\ process' = IF next.thread = NULL /\ thread_curr # NULL THEN "idle" ELSE "up"

\* Nobody to run in place of a thread: the handler returns to it with
\* thread_curr NULL, and the model ends.
schedule_handler ==
  /\ \A q \in Queue : sched.size[q] <= MaxSize
  /\ \E w \in {AfterAging} :
       /\ w.temp = NULL
       /\ check_flag' = IF AgingDue THEN 0 ELSE check_flag + 1
       /\ agings' = IF w.moved THEN agings + 1 ELSE agings
       /\ agings' <= MaxAgings
       /\ \E next \in {Scheduled(w.sched, thread_curr)} : Dispatch(next)

InUserCode == \A t \in Thread : thread_curr = t => pc[t] = "user"

Alarm ==
  /\ process = "up"
  /\ AlarmAnywhere \/ InUserCode
  /\ schedule_handler
  /\ UNCHANGED << flag, pc, call_vars >>

\* Where a call goes on once its schedule_handler() has returned.
Return(t) ==
  CASE pc[t] = "lock_sched" -> "lock"
    [] pc[t] = "yield_sched" -> IF target[t] = NULL THEN "user" ELSE "join"
    [] pc[t] = "exit_sched" -> "user"
    [] pc[t] = "end_sched" -> "end"

CallHandler(t) ==
  /\ \E p \in {"lock_sched", "yield_sched", "exit_sched", "end_sched"} : At(t, p)
  /\ schedule_handler
  /\ Goto(t, Return(t))
  /\ UNCHANGED << flag, call_vars >>

\* The loop over a level never meets NULL.
Hang ==
  /\ process = "up" /\ AgingDue /\ AfterAging.temp # NULL
  /\ process' = "hung"
  /\ UNCHANGED << sched, flag, check_flag, age, thread_curr, agings, pc, call_vars >>

\* AGE_THRSHLD, which the repository does not define, is taken to be longer
\* than a quantum: at every pass the thread that runs is young.  A tick inside
\* a call might as well fall before it.
Tick ==
  /\ process = "up" /\ InUserCode
  /\ \E t \in Thread \ {thread_curr} : age[t] < AGE_THRSHLD
  /\ age' = [t \in Thread |->
               IF t # thread_curr /\ age[t] < AGE_THRSHLD THEN age[t] + 1 ELSE age[t]]
  /\ UNCHANGED << sched, flag, check_flag, thread_curr, agings, process, pc, call_vars >>

-----------------------------------------------------------------------------
(* main() *)

Create(t) ==
  /\ process = "up" /\ thread_curr = NULL
  /\ sched.state[t] = "NEW"
  /\ sched' = add_mypthread_sched(sched, t, 0)
  /\ UNCHANGED << flag, pass_vars, pc, call_vars >>

MainExits ==
  /\ process = "up" /\ thread_curr = NULL
  /\ \A t \in Thread : sched.state[t] # "NEW"
  /\ process' = "exited"
  /\ UNCHANGED << sched, flag, check_flag, age, thread_curr, agings, pc, call_vars >>

-----------------------------------------------------------------------------
(* The calls of the threads *)

SetState(t, st) == sched' = [sched EXCEPT !.state[t] = st]

\* my_pthread_exit, which returns to a thread that aging has brought back, or
\* the end of the function in run_mypthread.
Exit(t) ==
  /\ At(t, "user") /\ held[t] = {}
  /\ SetState(t, "TERMINATED")
  /\ Goto(t, "exit_sched") \/ Goto(t, "end_sched")
  /\ UNCHANGED << flag, pass_vars, call_vars >>

\* A thread that runs again after its function has ended leaves run_mypthread.
EndOfContext(t) ==
  /\ At(t, "end")
  /\ process' = "exited"
  /\ UNCHANGED << sched, flag, check_flag, age, thread_curr, agings, pc, call_vars >>

Yield(t) ==
  /\ At(t, "user")
  /\ SetState(t, "YIELD")
  /\ Goto(t, "yield_sched")
  /\ UNCHANGED << flag, pass_vars, call_vars >>

Join(t, x) ==
  /\ At(t, "user") /\ held[t] = {}
  /\ x # t /\ sched.state[x] # "NEW"
  /\ target' = [target EXCEPT ![t] = x]
  /\ Goto(t, "join")
  /\ UNCHANGED << sched, flag, pass_vars, mutex, held >>

\* "while(thread->thread_state != TERMINATED) my_pthread_yield();"
JoinYields(t) ==
  /\ At(t, "join") /\ sched.state[target[t]] # "TERMINATED"
  /\ SetState(t, "YIELD")
  /\ Goto(t, "yield_sched")
  /\ UNCHANGED << flag, pass_vars, call_vars >>

JoinReturns(t) ==
  /\ At(t, "join") /\ sched.state[target[t]] = "TERMINATED"
  /\ target' = [target EXCEPT ![t] = NULL]
  /\ Goto(t, "user")
  /\ UNCHANGED << sched, flag, pass_vars, mutex, held >>

Lock(t, m) ==
  /\ At(t, "user") /\ held[t] = {}
  /\ mutex' = [mutex EXCEPT ![t] = m]
  /\ Goto(t, "lock")
  /\ UNCHANGED << sched, flag, pass_vars, target, held >>

\* Mutant: a flag that is set is not seen.
Taken_Never(t) == FALSE
Taken(t) == flag[mutex[t]] = 1

\* Mutant of TestAndSet: it stores a 0, as that of 01/my_pthread.c does.
TestAndSet_Zero(t) ==
  /\ At(t, "lock")
  /\ flag' = [flag EXCEPT ![mutex[t]] = 0]
  /\ IF Taken(t)
     THEN Goto(t, "lock_block") /\ UNCHANGED << mutex, held >>
     ELSE /\ Goto(t, "user")
          /\ held' = [held EXCEPT ![t] = @ \cup {mutex[t]}]
          /\ mutex' = [mutex EXCEPT ![t] = NULL]
  /\ UNCHANGED << sched, pass_vars, target >>

TestAndSet(t) ==
  /\ At(t, "lock")
  /\ flag' = [flag EXCEPT ![mutex[t]] = 1]
  /\ IF Taken(t)
     THEN Goto(t, "lock_block") /\ UNCHANGED << mutex, held >>
     ELSE /\ Goto(t, "user")
          /\ held' = [held EXCEPT ![t] = @ \cup {mutex[t]}]
          /\ mutex' = [mutex EXCEPT ![t] = NULL]
  /\ UNCHANGED << sched, pass_vars, target >>

LockBlock(t) ==
  /\ At(t, "lock_block")
  /\ SetState(t, "WAITING")
  /\ Goto(t, "lock_enqueue")
  /\ UNCHANGED << flag, pass_vars, call_vars >>

LockEnqueue(t) ==
  /\ At(t, "lock_enqueue")
  /\ sched' = enqueue(sched, mutex[t], t)
  /\ Goto(t, "lock_sched")
  /\ UNCHANGED << flag, pass_vars, call_vars >>

\* The first waiter goes to the level it had.
Unlock(t, m) ==
  /\ At(t, "user") /\ m \in held[t]
  /\ LET x == sched.head[m]
     IN  sched' = IF x = NULL THEN sched
                  ELSE add_mypthread_sched(dequeue(sched, m), x, sched.priority[x])
  /\ mutex' = [mutex EXCEPT ![t] = m]
  /\ Goto(t, "unlock_clear")
  /\ UNCHANGED << flag, pass_vars, target, held >>

UnlockClear(t) ==
  /\ At(t, "unlock_clear")
  /\ flag' = [flag EXCEPT ![mutex[t]] = 0]
  /\ held' = [held EXCEPT ![t] = @ \ {mutex[t]}]
  /\ mutex' = [mutex EXCEPT ![t] = NULL]
  /\ Goto(t, "user")
  /\ UNCHANGED << sched, pass_vars, target >>

Call(t) ==
  \/ Exit(t) \/ EndOfContext(t) \/ Yield(t)
  \/ \E x \in Thread : Join(t, x)
  \/ JoinYields(t) \/ JoinReturns(t)
  \/ \E m \in Mutex : Lock(t, m) \/ Unlock(t, m)
  \/ TestAndSet(t) \/ LockBlock(t) \/ LockEnqueue(t) \/ UnlockClear(t)
  \/ CallHandler(t)

Next ==
  \/ Alarm \/ Hang \/ Tick \/ MainExits
  \/ \E t \in Thread : Create(t) \/ Call(t)

Spec == Init /\ [][Next]_vars

-----------------------------------------------------------------------------
(* Properties *)

\* What a queue holds.
Contents(s, q) ==
  LET at[k \in 1 .. s.size[q]] ==
        IF k = 1 THEN s.head[q]
        ELSE IF at[k - 1] = NULL THEN NULL ELSE s.nxt[at[k - 1]]
  IN  at

Lists == [q \in Queue |-> Contents(sched, q)]

\* The places of t: in which queue and how far from its head.
Places(t) ==
  UNION {{<< q, k >> : k \in {j \in DOMAIN Contents(sched, q) :
                               Contents(sched, q)[j] = t}} : q \in Queue}

\* Until a thread is moved by aging, every thread is in one queue at most, and
\* it is that of its level when it is ready (135: "the thread is already in the
\* wait queue of the mutex" when it waits, except between 359 and 360).
EachInOnePlace ==
  agings = 0 =>
    \A t \in Thread :
      Cardinality(Places(t)) =
        IF \/ sched.state[t] = "READY"
           \/ sched.state[t] = "WAITING" /\ pc[t] # "lock_enqueue"
        THEN 1 ELSE 0

\* Until aging moves a thread, whoever runs has quanta left on its level (130:
\* a thread that has had its time leaves the processor at the next pass).
InQuota ==
  agings = 0 /\ process = "up" /\ thread_curr # NULL =>
    sched.time_ran[thread_curr] <= sched.priority[thread_curr]

\* Until aging moves a thread, a level is served first in, first out: a step
\* takes its head or adds at its tail.
LevelsFifo ==
  [][agings' = 0 =>
       \A q \in Level :
         LET before == Contents(sched, q)
             after  == Contents(sched', q)
         IN  \E t \in Thread :
               after \in {before, Append(before, t)} \cup
                 (IF before = << >> THEN {}
                  ELSE {Tail(before), Append(Tail(before), t)})]_sched

\* Until aging moves a thread, the processor goes to a level only when no
\* thread of a higher one is ready, and is left idle only when none is at all
\* (229-256).
HighestFirst ==
  [][agings' = 0 /\ thread_curr' # thread_curr =>
       \A t \in Thread :
         sched'.state[t] = "READY" =>
           thread_curr' # NULL /\ sched'.priority[thread_curr'] <= sched'.priority[t]]_vars

\* Why the queues are right until aging moves a thread: the sequences c are what
\* head, tail, size and nxt_pthread say, no thread is in them twice, a level
\* holds the ready threads of its priority and a mutex threads that wait.
Holds(s, q, x) ==
  /\ x \in Seq(Thread) /\ Len(x) = s.size[q]
  /\ s.size[q] = 0 => s.head[q] = NULL /\ s.tail[q] = NULL
  /\ s.size[q] # 0 => s.head[q] = x[1] /\ s.tail[q] = x[s.size[q]]
  /\ \A k \in 1 .. s.size[q] - 1 : s.nxt[x[k]] = x[k + 1]

Linked(s, c) == \A q \in Queue : Holds(s, q, c[q])

Once(c) ==
  \A q, r \in Queue : \A j \in 1 .. Len(c[q]), k \in 1 .. Len(c[r]) :
    c[q][j] = c[r][k] => q = r /\ j = k

Waits(s, p, t) == s.state[t] = "WAITING" /\ p[t] # "lock_enqueue"

Queued(c, t) == \E q \in Queue : \E k \in 1 .. Len(c[q]) : c[q][k] = t

Members(s, p, c) ==
  /\ \A i \in Level : \A k \in 1 .. Len(c[i]) :
       s.state[c[i][k]] = "READY" /\ s.priority[c[i][k]] = i
  /\ \A m \in Mutex : \A k \in 1 .. Len(c[m]) : Waits(s, p, c[m][k])

\* A thread that waits but is not about to enqueue itself is in a queue, and so
\* is one that is ready, with all of its quanta.
InPlace(s, p, c, t) ==
  /\ s.state[t] = "READY" \/ Waits(s, p, t) => Queued(c, t)
  /\ s.state[t] = "READY" => s.time_ran[t] = 0
  /\ p[t] = "lock_enqueue" => s.state[t] = "WAITING"

QueuesHold(s, p, c) ==
  Linked(s, c) /\ Once(c) /\ Members(s, p, c) /\ \A t \in Thread : InPlace(s, p, c, t)

\* Whoever runs is in no queue, and has quanta left.
Runs(s, p, t) ==
  /\ s.state[t] # "READY"
  /\ s.state[t] = "WAITING" => p[t] \in {"lock_enqueue", "lock_sched"}
  /\ s.time_ran[t] <= s.priority[t]

\* The inductive invariant of the queues (26-61, 105-256).
QueueInv ==
  agings = 0 =>
    /\ QueuesHold(sched, pc, Lists)
    /\ process = "up" /\ thread_curr # NULL => Runs(sched, pc, thread_curr)

-----------------------------------------------------------------------------
(* The locks implement Mutexes: a thread holds m from its test-and-set to  *)
(* the first step of its unlock.                                           *)

Owners == [m \in Mutex |->
             {t \in Thread : m \in held[t] /\ ~(pc[t] = "unlock_clear" /\ mutex[t] = m)}]

Holder == [m \in Mutex |-> IF Owners[m] = {} THEN NULL
                           ELSE CHOOSE t \in Owners[m] : TRUE]

Locks == INSTANCE Mutexes WITH holder <- Holder

\* Why the locks exclude.  Whoever is in a critical section has its flag set,
\* so a test-and-set that succeeds finds nobody inside; and a thread at the
\* second step of its unlock holds what it unlocks, so it clears nobody else's
\* flag (352-384).
ArgumentsGiven ==
  \A t \in Thread :
    /\ pc[t] \in LockPC => mutex[t] \in Mutex
    /\ pc[t] = "unlock_clear" => mutex[t] \in held[t]

HeldIsFlagged == \A t \in Thread : \A m \in held[t] : flag[m] = 1

HeldOnce == \A t, u \in Thread : \A m \in held[t] \cap held[u] : t = u

LockTypes ==
  /\ flag \in [Mutex -> 0 .. 1]
  /\ pc \in [Thread -> PC]
  /\ mutex \in [Thread -> Mutex \cup {NULL}]
  /\ held \in [Thread -> SUBSET Mutex]

\* The inductive invariant of the locks.
LockInv == LockTypes /\ ArgumentsGiven /\ HeldIsFlagged /\ HeldOnce

\* Whatever aging does to the queues, and wherever the alarm strikes, a mutex
\* is given to one thread at a time, and taken from it by its own unlock only
\* (353: "other threads attempting to access this mutex will not run until it
\* is unlocked").
LocksExclude == Locks!Spec

=============================================================================
