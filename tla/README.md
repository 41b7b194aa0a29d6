# A verification project for my_pthread

The repository is a user-level thread library for one process, written on
`ucontext` and `SIGALRM`: `my_pthread.c` (scheduler, thread calls, mutexes and a
page allocator), two test programs, and in `01/` an earlier revision and the
experiments that led to it. This directory models the library in TLA+, checks
small instances with TLC and proves the central facts with TLAPS.

## 1. The system

### Components, state, operations

| Component | Code | State | Operations |
|---|---|---|---|
| thread lists | `my_pthread.c` 456-534, 959-999 | `next` of every thread; `front`, `rear` of four queues (0 running, 1 low priority, 2 waiting, 3 dead); `front`, `rear`, `numNodes` of each mutex queue | `enqueue`, `dequeue`, `gen_enqueue`, `gen_dequeue`, and the relinking `scheduler()` does in place |
| scheduler | 536-777 | `currThread`, `activeFlag`, `lastTimeFinished`, the one-shot timer | `scheduler()`: age queue 1, put the current thread where its flag says, wake the joiners of a dead one (recursively), pick the next, arm the timer, `swapcontext` |
| thread calls | 779-928 | `valuePtr`, `returnList`, `waitingOnID` | `create`, `yield`, `exit`, `join`, and `exitChecker`, the wrapper every thread function runs in |
| mutexes | 1002-1106 | `flag`, `wait` | `init`, `lock`, `unlock`, `destroy` |
| allocator | 37-437, `my_malloc.h` | 2048 pages, each with a header (owner, free flag, account, next), and the chain of chunk headers behind a thread's first page | `myallocate`, `memPush`, `mydeallocate` |
| programs | `main.c`, `main_0.c` | what their threads hold and join | create all, lock and unlock in the threads, join all |
| first revision | `01/my_pthread.c` | three queues with their counts, `waitingOnID`, the flag and the queue of a mutex | `scheduler`, `create`, `yield`, `exit`, `join`, `mutex_init`, `lock`, `unlock`, `destroy`, all of them other than above |
| multi-level scheduler | `01/mutex_tests.c` | a queue per priority level, threads with a level and used-up quanta, mutexes with a wait queue | `schedule_handler` with aging and demotion, `create`, `yield`, `exit`, `join`, `lock`, `unlock`, `destroy` |
| counting threads | `01/std_pthread_mutex.c` | a counter, a mutex and a condition variable of the system's pthread library | two threads that count in turn, and their `main` |
| sketches and notes | the rest of `01/` | none | none |

All components share the `next` field of a thread: a thread is in whatever list
reaches it. They interact by direct calls, except for one edge: `signal(SIGALRM,
scheduler)` (805) makes the scheduler its own signal handler, and a library call
does not disarm the timer that the last pass armed (752).

### What is hard

* **The alarm inside a call.** `lock`, `join` and `exit` set a flag and enter a list
  (or store a value) in separate statements; the flag alone decides what the pass
  that the alarm invokes does with the thread.
* **Stale pointers.** `rear` is not cleared when a queue empties (508 compares
  instead of assigning), `next` is not cleared when a thread enters a mutex queue,
  and a joiner becomes `front` of an empty queue without becoming `rear` (678).
* **Nested passes.** A dead thread's pass wakes one joiner and calls `scheduler()`
  again for the same thread; the clock may move in between.
* **Nobody to run.** With both queues empty, `scheduler()` returns into the call
  that was to block, with `currThread` NULL.
* **Starvation.** Queue 1 is served only when queue 0 is empty, or by age; a woken
  waiter competes for its mutex with threads that arrive later.
* **Accounts and pages.** One counter stands for what is left of pages that need not
  follow each other; a global holds the id of whoever called the allocator last.
* **Two ideas of where a queue ends.** In `01/mutex_tests.c` queues end by their size, and
  the aging loop by a NULL that nobody writes.
* **One `next` for two lists at once.** In `01/my_pthread.c` a thread that finds a mutex
  held is appended to its queue and goes on running, so that the next pass links it a
  second time.
* **A condition under an `if`.** A counting thread tests whose turn it is once, sleeps,
  and counts when it wakes.

`PROJECT.json` lists these hazards one by one, each at its line.

### What makes each part correct

* Lists: every thread off the processor is in exactly the list its flag names, and
  every list ends.
* Scheduler: it finds a thread to run, its loops end, the dead stay dead, and
  everyone who can run does.
* Calls: a join returns only when its target is dead, with the address of a stored
  value, and does return.
* Mutexes: exclusion; nobody is left behind at a free mutex; the queue is in order.
* Allocator: no byte is handed out twice, a thread's blocks lie in its own pages, a page
  with an owner keeps it, an account never promises more than there is.
* Multi-level scheduler: every thread is in one queue, its level's; the highest level is
  served first and in order; nobody runs longer than its level allows.
* First revision: the run queues hold the threads that are ready, however their links
  were reused; what wakes nobody, and what moves nobody, is known.
* Counting threads: each counts in its own turn, no signal is lost, both end.

## 2. The modules

| Module | Models |
|---|---|
| `ThreadQueues` | The heap of pointers and one operator per list operation, from heap to heap. No variables. |
| `ThreadLists` | Those lists as sequences: when a sequence is what the pointers say. |
| `Scheduler` | The library: 16 variables, one action per statement of a call that another thread can observe, one action per pass of `scheduler()`. |
| `Mutexes` | What a mutex is to its callers: one holder. |
| `QueuedMutexes` | The same with a first-in first-out queue of waiters. |
| `SchedulerRefinement` | The mapping from `Scheduler` to both. |
| `SchedulerLists` | Over `ThreadLists`, the inductive invariant of the calm library, `CalmInv`: its lists, as sequences, and what flags, calls, locks and joins have to do with them. |
| `MCScheduler` | Thread sets, joins and symmetry for TLC. |
| `ThreadListsProofs` | What the list operations do to lists that are right. |
| `SchedulerProofs` | Theorems: types, locks and dead threads, with the alarm and the clock anywhere; lists, scheduling, joins and wakeups without. |
| `RefinementProofs` | Theorems: `Mutexes` and `QueuedMutexes` are implemented. |
| `Induction` | Induction over a set of numbers, that walks exist, and that what falls or climbs in a finite set ends. |
| `Allocator` | `myallocate` and `memPush`: pages, owners, accounts and chunk headers by address. |
| `AllocatorProofs` | Theorems about it. |
| `MultiLevel`, `MCMultiLevel` | The library of `01/mutex_tests.c`. It implements `Mutexes` too. |
| `MultiLevelProofs` | Theorems about its locks and its queues. |
| `FirstRevision`, `MCFirstRevision` | The library of `01/my_pthread.c`, over the lists of `ThreadQueues`. |
| `FirstRevisionProofs` | Theorems about it, over the lemmas of `ThreadListsProofs`. |
| `CountingThreads` | `01/std_pthread_mutex.c`, over a mutex and a condition variable as POSIX has them, but without spurious wakeups, which POSIX allows and under which `InTurn` and `Terminates` would not hold. |
| `CountingProofs` | Theorems about it. |

### How the state corresponds to the code

`heap` holds `next`, `front`, `rear` and the queues of the mutexes as pointers, not
as sequences, since the errors of this code are errors in pointers. `activeFlag`,
`flag` and `currThread` are the fields of those names. `valueSet` says whose
`valuePtr` was written; `joinValue[t][x]` what `*value_ptr` of `t`'s join of `x` holds
(nothing, the address of the thread's field, or that of the copy on the stack);
`returnList` is the set of ids in the list, since the scheduler only looks for one.
`sinceRun` is the age the aging loop computes from `lastTimeFinished`, in ticks, cut at
`AgeLimit + 1`, from where on it makes no difference. Stale links may bring threads in
reach of queue 1 that are not runnable (`Strays`), with the `lastTimeFinished` of an earlier turn:
`Tick` lets any of them be past the limit. `running` is the thread whose
context the processor executes, which is not `currThread` after a pass that found
nobody. `pc` is the place in the library, `mutex` and `target` the arguments of the
call under way. `held` and `joined` are the caller's own knowledge.

| Action | Code |
|---|---|
| `CallScheduler`, `Alarm`, `Recurse` | a pass (584-777) invoked by a call, by the signal, by itself |
| `WakeJoiner` / `Dispatch` | the pass that finds a joiner and recurses (644-698) / the pass that switches (713-776) |
| `Hang` | the aging loop that runs in a circle (below) |
| `FirstCreate`, `OrphanCreate`, `Create` | 802-842, with and without a current thread |
| `Yield`, `Exit`, `ExitValue`, `Return`, `ReturnDead` | 845-873, 779-800 |
| `Join`, `JoinWait`, `JoinList`, `JoinDone` | 875-928 |
| `Lock`, `TestAndSet`, `LockBlock`, `LockEnqueue`, `LockDone` | 1025-1057 |
| `Unlock`, `UnlockClear` | 1059-1083 |
| `Tick` | `timeStamp`, read by the aging loop (605) |
| `MainReturns`, `LastContextEnds`, `NullDereference`, `Gone` | the ways the process ends |

Four constants choose the instance: `Joins` (who joins whom), `AgeLimit`,
`AlarmAnywhere` and `ClockAnywhere`. The last two say whether the signal, and a tick
of the clock, may fall between two statements of a library call; otherwise they
fall only in the threads' own code.

The program above the library is any program that keeps the discipline of `main.c`
and `main_0.c`: Main creates the threads, nested locks are taken in one order, a thread
unlocks what it holds, joins each thread once and holding nothing, passes a
`value_ptr`, and ends holding nothing.

### The allocator

`mem` holds what is in the headers: `owner`, `remaining` (the account) and `free` of pages,
and `next` of every header. A header is known by its address; a chunk header that falls on
the first byte of a page is thereby the header of that page, as in the code. `HEADER` is
`sizeof(mem_data)` (56) and `DATA` the offset of `dataPtr` (48); that they differ matters,
and the instances keep `DATA < HEADER`. `blocks` is what was handed out. Requests go through
the steps `Malloc` (`runningID` is set, 262), `FindPage` (the tests of 346 and 351), then
`UsePage` or `ClaimPage` (the writes of 353-354), both of which follow the chain of chunks
(379), and `MemPush` (399); stacks and the queues, which only Main asks for, are one step
(`CreateThread`, `initQueue`). `Switch` is a pass of the scheduler, after which the thread
that is resumed sets `runningID` to its own id (765, 771). `Faults` and `Tears` say when
memory that is not the process's own, or part of another header, is written: the model ends
there, since the bytes of headers are not modelled.

### The multi-level scheduler

`sched` is the record of what a pass reads and writes; `age` is the time since
`last_exe_tt`. `Alarm` and `CallHandler` are passes, `Aged` the aging loop, `Choice` is
`sched_chooseThread`. A thread that aging has brought back after its end goes on where it
ended: behind `my_pthread_exit` in its own code (`exit_sched`), or at the end of
`run_mypthread`, and then the process ends (`end_sched`, `EndOfContext`). main() is no
thread: it creates threads until the first alarm, which loses its context. Threads' memory
is taken to be zero when it is allocated, as fresh heap memory is; so a thread that never
ran is old. A loop over a level that does not end is the action `Hang`. After an aging that
moved a thread the queues are wrong (below), and the model goes on with them: `MaxAgings`
and `MaxSize` bound how far.

### The first revision

`lib` is the record of what a pass reads and writes: the heap of `ThreadQueues`, whose
operators are those of this file too (queue 3 stays empty), `numNodes`, `activeFlag`,
`waitingOnID`, `lastTimeFinished`, `currThread` and `firstTime`. `lock` is the mutex; `cpu`
is the thread whose code is executed, which is not `currThread` after a pass that found
nobody. `CallScheduler` and `Alarm` are passes (`PassOf`, 132-267), and the alarm falls
between any two statements of a call. `wiped` records that `initQueue(mutex->wait)` (449),
which takes no argument, has made `pthreadQueue` anew while threads were in it; what holds
of the queues is stated for executions in which the mutex was initialised first.

Fields that `my_pthread_create` does not write: flags and links are taken to be zero, as
fresh heap memory is, but `lastTimeFinished` holds anything (`Unwritten`), and so does the
structure that `join` receives by value, since `create` assigns to its own copy of the
pointer: `join` may find its thread or not, and then reads through an uninitialised pointer
(`StrayJoin`).

Three things follow from the code, and the properties say so. The assignment to
`waitingOnID` is a comment (347), so the pass of a dead thread (186) wakes nobody: who joins is
in queue 2 for good (`ParkedForever`), and a join comes back only through a pass that found
nobody to run (`JoinReturnsAlone`). That, or a thread function that returns, which ends the
process as no `uc_link` is set, is what `testing_notes.c` reports as "pthreads have joined" not
being printed "for some reason". `timeStamp` is the microsecond within the second
(129), and the age limit is a second (154): the promotion never happens (`AgeNeverPromotes`).
A contender for the mutex is WAITING, in the mutex's queue, and runs on; its next pass parks
it in queue 2, so it never ties a run queue to a mutex queue. It would if it yielded:
`YIELD` replaces `WAITING`, the thread enters queue 0, and the next contender is linked behind it
there. The programs of the model that lock (`Lockers`) do not yield, as those of the file's
test area do not.

### The counting threads

`pc` is where each thread is, `main` how many of its four calls `main()` has made. `Lock`,
`Test`, `Count`, `Signal`, `Unlock` are the statements of a round (32-43 and 52-63), `Wake`
is the return of `pthread_cond_wait`, which has to take the mutex like everyone else. A
signal wakes one waiter if there is one. Nobody wakes without a signal; POSIX allows that,
and a thread that did would count out of turn, as it does not look again.

## 3. The runs

Bounds are named in the configurations. Two threads besides Main are enough for the
interactions of the mutex queue (a holder, a waiter, a competitor) and of join
(a joiner, its target, a thread that keeps the queues busy). The number of calls
is not bounded; every instance is finite by itself. Symmetry exchanges the threads
Main makes, in the runs without liveness, where `Joins` treats them alike.

| Run | Instance | Shows |
|---|---|---|
| `sched_queues` | Main + 3 threads, 1 mutex, alarm in user code | `TypeOK`, `EachThreadInItsPlace`, `ListsEnd`, `JoinWaitsForExit`, `JoinFindsValue`, `NoLostJoiner`, and `CalmInv`, the inductive invariant of `SchedulerProofs`. Three threads, so that queues have a middle to unlink from. |
| `sched_locks` | Main + 2, 2 nested mutexes, age limit 1 | `MutualExclusion`, `NoLostWakeup`, `SchedulerFindsThread` and `LocksQueue` (implements `QueuedMutexes`). Two mutexes share one `next` field per thread. |
| `sched_preempted` | Main + 2, alarm and clock anywhere | `Inv`, the inductive invariant of the proofs, `DeadStaysDead` and `LocksExclude` (implements `Mutexes`). Here threads do get lost, the process may crash or hang, and these still hold. With two threads besides Main nobody becomes a stray of queue 1; the theorems are about any number. |
| `sched_live` | Main + 2, 1 mutex, fairness, no symmetry | `NoStarvation`, `BlockedIsWoken`, `JoinReturns`. |
| `alloc_pages` | 3 threads, 4 pages of theirs and 3 system pages of 16 units, requests of 7, 14 and 20 | `TypeOK`, `AccountsCover`, `BlocksApart`, `OwnersStay`. Requests fit into what is left of a page, fill it, or need the next one, two or none of which may be another's; pages run out, and so do system pages. |
| `levels` | 3 threads, 2 levels, 1 mutex, an aging every second pass | `TypeOK`, `InQuota`, `LockInv` and `QueueInv` (the inductive invariants of its locks and its queues), `LevelsFifo`, `HighestFirst`, `LocksExclude`. Two levels give a level to age and one to be demoted to; three threads make queues with a middle. |
| `first` | Main + 2 that lock, 1 mutex, two ticks to a second, alarm anywhere | `TypeOK`, `ReadyAreQueued`, `CountsAreLengths`, `AgeNeverPromotes`, `JoinReturnsAlone`, `ParkedForever`. Two lockers are a holder and a contender; two ticks give an age of one and a wrap. |
| `count` | `COUNT_DONE` = 200, as in the source | `Inv` (the inductive invariant), `InTurn`, `NoLostSignal`, `EndsOnePast`, `Terminates`. No bound: the program is finite. |

The allocator's properties are stated as far as they hold. `Sound` says that no account is
overdrawn and no chunk header has fallen on a page's own; the code allows both, and
`alloc_pages` reaches states past them: `remainingSpace` is reduced by `sizeof` once more
than is used (171), so it becomes negative, and then, compared as a `size_t` (86), is never
exceeded again. `SystemPagesLeft` says that every stack found a page: when none is left the
loop leaves `curr` at page 0 (308), the first thread's stack. What follows an overdrawn
account, a freed page header or a shared stack is in the model and reached by the runs, but
no property says that it is harmless: it is not. Likewise the properties of the levels are
stated up to the first aging that moves a thread (`agings = 0`), except `TypeOK`, `LockInv`
and `LocksExclude`, which hold throughout.

Every property has a mutant, a change of one definition that breaks it: a promotion
loop over the wrong queue, a wait queue that is a stack, a `dequeue` that does not know
its last node, a plain test in place of test-and-set, and so on. They stand next to
the definitions they change.

### Disagreements between the code and its comments

| Run | What TLC finds |
|---|---|
| `lock_lost_waiter` | The alarm between `activeFlag = BLOCKING` (1035) and `gen_enqueue` (1036) leaves the thread in no list. |
| `join_two_waiters` | No alarm in a call: a second joiner of one thread, `rear` stale since 678; the next enqueue builds a list that front does not reach, and a join returns early. |
| `alloc_preempted` | `BlocksApart`, with 3 threads, 3 pages of theirs and the alarm between the steps of a request. A page is tested (351) and claimed (353-354) in separate statements: after an alarm in between, a second thread finds it free too, claims it and puts a block there; then the first overwrites the owner. No account is overdrawn and system pages are left. |
| `first_lock` | The test-and-set of `01/my_pthread.c` stores 0 (462): a thread that finds the mutex held clears its flag, and the next turn of its loop takes it. Two threads are inside at once. |

With the alarm anywhere, `NoLostJoiner` and `JoinFindsValue` of `sched_queues` fail as well;
they are stated, and checked, with the alarm in the threads' own code. Between `WAITING`
(892) and the return list (901, 914) a joiner enters queue 2 that nobody will wake, and
between `DEAD` (862) and `valuePtr` (863) a thread ends whose value is never stored. They
have no run of their own.

Others have no comment to disagree with, and no run. The join of an ended thread returns the
address of a field of its own by-value parameter (888; `"copy"` in `joinValue`). Aging in
`01/mutex_tests.c` unlinks a thread and leaves `size` and `tail` of the level as they were
(110), so that the next thread that comes there is linked behind one that has left; hence
the `agings = 0` of the properties of the levels.

Two loops do not end. If a joiner is woken into an empty queue 0, whose `rear` still names a
thread that is now in queue 1, and that thread becomes too old between the two passes, the
aging loop enqueues it behind itself and then follows its own `next` for ever. `Hang` is
that step, and it fires in `sched_preempted`. The aging loop of `01/mutex_tests.c` runs past
the end of a level along a stale `nxt_pthread`; when it meets an old thread at the tail of
level 0, it enqueues that thread behind itself, too (`Hang` of `MultiLevel`, which fires in
`levels`).

### Fairness

In `CountingThreads`, fairness is weak, of `main` and of each thread: the operating system
executes them. It is enough since a thread that waits for the mutex competes with one
other only, which after one count has to wait for it.

`FairSpec` adds to `Spec`: the processor executes the library's code (weak fairness of the
steps of a call); the timer goes off (weak fairness of the alarm while another thread
is ready: every pass arms the timer, 752); time goes by (strong fairness of `Tick`, as
ticks are modelled between library steps); and a thread does not keep a mutex for
ever (strong fairness of `Unlock`, the one assumption about programs: every lock of
`main.c` and `main_0.c` is followed by its unlock). Nothing obliges a thread to make a call,
to end or to yield. The first two are written with explicit guards in place of
ENABLED, which TLC would evaluate by computing whole passes. (These are the assumptions
of `Scheduler`; the other models state no liveness.)

## 4. The proofs

Every theorem is for every finite set of threads and every set of mutexes, those of the
allocator for every size of pages, headers and requests, and is proved to the last leaf.
Assumptions on constants are the named `ASSUME`s of `ThreadQueues`, `Scheduler`,
`MultiLevel`, `CountingThreads` (finitely many threads, NULL is none of them, Main is one,
mutexes are ordered by number) and `Allocator` (there are pages of both kinds, a header is
smaller than a page and `dataPtr` is not its first field, requests are positive, a stack and
the queues each fit into a page), which TLC evaluates.

### The library, with the alarm and the clock anywhere

| Theorem | States |
|---|---|
| `Invariance` | `Spec => []Inv` |
| `TypeCorrect` | `Spec => []TypeOK` |
| `Exclusion` | `Spec => []MutualExclusion` |
| `ImplementsMutexes` | `Spec => LocksExclude`, that is, `Scheduler` implements `Mutexes` under `Holder` |
| `DeadForGood` | `Spec => DeadStaysDead` |

`MutualExclusion` is not inductive. `Inv` adds that whoever is in a critical section has
its flag set (so that a test-and-set that succeeds finds nobody inside), that an unlock
past its first step clears a flag whose mutex its caller holds (so that it clears nobody
else's), and that the arguments of calls under way are what the calls were given.
`TypeOK` needs the list operators to map heaps to heaps; the lemmas of `SchedulerProofs`
say so, one per operator, and say what `FirstIn` returns when a walk meets a set. The
delicate cases are those in which the code would follow NULL: a pass dequeues from a
queue only when its front is a thread, and `gen_dequeue` is called only when there is one.

The refinement needs the holder to be unique before and after a step, which is `Inv`
and `Inv'`. A thread holds a mutex from the test-and-set that found it free to the first
step of its unlock; all other steps leave `Holder` alone.

`DeadForGood` holds although the lists do not: with the alarm between two statements of
`lock` a thread is lost with its node still named by a `rear`, later threads are appended
behind it, and lists are cut or run into each other. So its invariant, `BuriedInv`, has no
lists. It says that there are a set `C` of threads that contains the fronts of queues 0 to
2, is closed under `next` and in which no node has two predecessors, and for each mutex a
set `Q[m]` such that

* no dead thread, no thread before its create and none about to wait is in them, nor is
  the current one, except between its `gen_enqueue` and the pass that takes it off;
* a mutex whose list is whole has as many nodes in `Q[m]`, one after the other, as it
  counts. That is all that keeps `gen_dequeue` from following the `next` of the last one,
  which is stale and may name a thread that has since died;
* a mutex whose list was cut starts in `C`, and its `rear` is out of reach: what is linked
  behind it is never found;
* the rear of the dead is dead, so that burying a thread links nothing into a live list.

A stale `rear[q]` that names a node in the middle of `Q[m]` turns the nodes up to it into
members of `C` (`CutTraced`); one that names a node of `C` extends `C`; any other loses
the thread that is appended. In all three cases no dead thread is reached, because a thread
dies as the current one, and the current one was taken from a front that nothing else led to.
TLC found `BuriedInv`, with its sets enumerated, to hold in every state of `sched_preempted`
before it was proved.

### The calm library

`Calm` is that neither the alarm nor a tick of the clock falls between two statements of a
library call, and that one thread makes all the joins, as `main()` does in `main.c` and
`main_0.c`. The code does nothing to keep the alarm out: `Calm` is the case in which the
library works, and what it takes for the properties below to hold. Without its first
part `lock_lost_waiter` loses a thread, without its last `join_two_waiters` a list. For every
such instance, whatever the age limit and however many threads and mutexes:

| Theorem | States |
|---|---|
| `CalmInvariance` | `Spec => []CalmInv`, the inductive invariant |
| `InItsPlace` | `Spec => []EachThreadInItsPlace` |
| `LoopsEnd` | `Spec => []ListsEnd` |
| `NeverIdle` | `Spec => []SchedulerFindsThread` |
| `JoinWaits`, `JoinReceives` | `Spec => []JoinWaitsForExit`, `Spec => []JoinFindsValue` |
| `JoinersAreFound` | `Spec => []NoLostJoiner` |
| `WakeupsArrive` | `Spec => []NoLostWakeup` |
| `BlockedWait` | `Spec => []BlockedIsQueued`, which is what `lock_lost_waiter` violates |
| `ImplementsQueuedMutexes` | `Spec => LocksQueue`: `Scheduler` implements `QueuedMutexes` under `Holder` and `WaitSequence` |

None of them is inductive, and none stands alone. What a join needs is that a dead
thread's pass finds the joiner in queue 2; that it is there needs the lists; that the
lists are right needs that a pass always has somebody to dequeue; and that is a matter
of locks and joins again. So there is one invariant. `CalmInv` reads the lists off the
pointers, as the sequences `Lists`, which is what TLC checks (`sched_queues`, and with two
nested mutexes by hand); `Good` of `SchedulerProofs` says that sequences exist. Its parts:

* *The lists.* Each is what the pointers say, nobody is in two or twice in one, and who is
  in which is what the flag says (`ShapeOf`). `rear` of queue 0 may be stale, but only while
  a dead thread's pass calls itself, with one node in the queue and nobody in queue 1 old
  enough to be promoted. Queue 1 is sorted by age, so aging promotes from its head, and
  never the node `rear` names unless it is the only one. A mutex queue ends by its
  count: the `next` of its last node is stale and leads into another list.
* *Walks end* although they may lead from one list into another. A rank for each thread
  falls along every `next` (`Falls`, `Ranked`); whoever writes a `next` gives a new rank. A
  walk of more steps than there are threads would fall too often (`Descends`).
* *The scheduler finds a thread.* If none could run, each would be dead, or wait in a join or
  for a mutex. The joiner's target is alive; so somebody waits for a mutex; it is held (or
  somebody has been woken for it); its holder is not dead and does not join, so it waits for
  a mutex too, and for a later one. Nobody can climb for ever in a finite set (`NoClimb`).
* *Locks.* Behind a blocked thread there is a holder that has not begun to unlock, or a
  thread that was woken (`Contended`, `Woken`): hence no wakeup is lost.
* *Joins.* The target of a waiting joiner has it in its `returnList`, and is alive or still on the
  processor; what has been joined is dead, off it, and has stored its value.

The proof first says what each list operation does to the sequence of its list (`With`,
`Without`, `Ahead`; `ThreadListsProofs`) and then follows a pass from one shape to the next:
`Mid`, when the current thread is in no list, `Requeued`, when it is in its own, and
`ShapeOf` again when the next one has been taken out. The steps of calls follow, one lemma
each.

### The allocator

| Theorem | States |
|---|---|
| `AllocatorTypes` | `Spec => []TypeOK` |
| `CallerIsKnown` | `Spec => []CallerKnown`: whoever runs inside a request, wherever it was interrupted, finds its own id in `runningID` |
| `AccountsAreCovered` | `Spec => []AccountsCover` |
| `BlocksAreApart` | `Spec => []BlocksApart` |
| `OwnersAreKept` | `Spec => OwnersStay` |

The first two hold with the alarm between the steps of a request as well (where it falls is
said in section 5); `CallerKnown` needs that whoever is not current sets `runningID` again
before it goes on. The others assume `~AlarmAnywhere`, as their run does: with the alarm
inside `myallocate`, `alloc_preempted` shows `BlocksApart` violated.

None of these three is inductive, and `PagesInv` says why they hold. The pages of the
threads below some page `b` all have owners; those of a thread follow each other, from
`home` to `end`; its chunks, whose headers climb, lead from the header of its first page to
`top`; and the account of that page promises no more than lies between `top` and `end`
(`Below`). In a `Good` state the pages from `b` on are as they were at the beginning
(`Fresh`). Two things end that.

* An account is overdrawn. Then `NoDeficit` is false for good (`DeficitStays`), as an
  account that is negative is never exceeded (86) and only falls (171); nothing more has to
  be shown.
* A chunk header falls on the header of a page. In such a state, `Spoilt`, `b` is the lowest
  such page: its header is marked free (166), so that anybody may take it, and what lies
  above is unknown. But below it, all is as in a good state, so nothing there is freed or
  unlinked: the last header of the chain before `b` is taken and leads to `b`, and stays so.
  Hence no spoilt state is `Sound`, and every `Sound` one is good.

Of the second, the account is the delicate part. A page beyond `b` may be claimed by several
threads, and may be charged by any; so what is known of a call under way is only where it
will write: at the `top` of a chain that ends below `b`, or above `b` (`Local`). The account
of a thread whose pages lie below `b` is charged by that thread alone, and `ChargeSpoilt`
says that nothing is claimed for it: the page behind its own is another thread's.

A push is proved in two halves, which are not steps of the code: what it claims and charges
(`Charged`), then the chain that grows (`Extended`). When the system pages are used up, the
account of Main's first page is charged for a stack that lies elsewhere (308, 320); it still
covers what it promises, while `SystemPagesLeft` is false and `BlocksApart` has ended. TLC
checked `PagesInv` by hand, with the witnesses computed from the state, in the instance of
`alloc_pages`.

### The multi-level scheduler

For any number of levels and any bound on aging, and with the alarm anywhere between the
statements of a call:

| Theorem | States |
|---|---|
| `LocksInvariance` | `Spec => []LockInv` |
| `LevelsImplementMutexes` | `Spec => LocksExclude`, that is, `MultiLevel` implements `Mutexes` |
| `LevelTypes` | `Spec => []TypeOK` |
| `QueueInvariance` | `Spec => []QueueInv`, the inductive invariant of the queues |
| `OnePlace`, `WithinQuota` | `Spec => []EachInOnePlace` (each thread is on the processor, in one queue, or done; it follows from `QueueInv`), `Spec => []InQuota` |
| `LevelsInOrder`, `HighestServed` | `Spec => LevelsFifo`, `Spec => HighestFirst` |

`LockInv` is the argument of `Inv` for a lock in fewer steps: it says nothing of the queues,
which aging spoils, and needs nothing of them. `LevelTypes` holds after any aging as well,
and needs that a queue that counts nodes has a head (`Counted`); the bounds on sizes come with it.

`QueueInv` is that of the queues until aging moves a thread: each is a list of `size` nodes
from `head` to `tail`, a level holds the ready threads of its priority, a mutex threads
that wait for it, and whoever runs is in no queue and has quanta left. A thread moves in two
steps of the proof: it is taken out, so that the queues are right but for it (`Rest`), and
put in. The runs have the alarm in the threads' own code; the theorems cover it in
the calls as well.

### The first revision

For every finite set of threads, whoever of them locks, any number of ticks to a second,
and with the alarm between any two statements of a call:

| Theorem | States |
|---|---|
| `FirstTypes` | `Spec => []TypeOK` |
| `QueuesKept` | `Spec => []QueuesInv`, the inductive invariant |
| `ReadyQueued` | `Spec => []ReadyAreQueued` |
| `CountsRight` | `Spec => []CountsAreLengths` |
| `NobodyPromoted` | `Spec => []AgeNeverPromotes` |
| `JoinAlone` | `Spec => []JoinReturnsAlone` |
| `ParkedStays` | `Spec => ParkedForever` |

Queue 2 and the queue of the mutex are not lists: a contender is linked into both by one
`next`, and the same thread may be linked twice. So the invariant (`LibraryInv`) says
nothing of what these two hold. It says what they write: the node behind which either links
the next thread is WAITING or DEAD (`Elsewhere`). Queue 0 holds ACTIVE threads and queue 1
RUNNABLE ones (`RunQueues`), so no such write falls on a run queue, and each of these is a
list whose sequence `front`, `next`, `rear` and `numNodes` agree on (`Held`). Flags are set
by the thread that runs and for itself, while it is in no run queue (`Placed`). It takes two
facts more: a thread that may be the last of the mutex's queue is a locker, and lockers do
not yield (else `YIELD` would bring that node into queue 0); and whoever is in queue 1 has
left the processor, so that its `lastTimeFinished` was written and its age is less than a
second. A join returns only through a pass with both queues empty, and then whoever is not
current has none of the flags that those queues stand for (`OnProcessor`, `Placed`).

A pass is proved in two halves, as in `Scheduler`: the current thread goes where its flag
says (`RequeueIs`), the next is taken from a queue (`PickIs`); a pass without a current
thread turns queue 0 first (`TurnIs`). `MutexInit` loses both queues: it keeps the
invariant, but for whom `wiped` excuses. `QueuesInv`, which reads the sequences off the
pointers, was checked with TLC by hand, in the instance of `first` and in that in which Main
locks as well.

### The counting threads

For every `COUNT_DONE` of 1 or more:

| Theorem | States |
|---|---|
| `CountingInvariance` | `Spec => []Inv` |
| `CountsInTurn` | `Spec => []InTurn` |
| `SignalsArrive` | `Spec => []NoLostSignal` |
| `EndIsOnePast` | `Spec => []EndsOnePast` |

None of the properties of the counting threads is inductive. `Inv` says who holds the mutex
(`Holds`); that the turn of a thread that is about to count or was woken is its own, and
that of one about to signal is not (`Ordered`), which is why nobody counts between a signal
and the return it causes; that a thread which sleeps through its turn is about to be
signalled; how many have counted when the count is at its end (`Ending`); and that `main` has
joined only who has ended (`Joined`). The proof goes by the parity of the count.

### Induction

The library's induction theorems take an operator as a parameter, which the provers
cannot instantiate. `Induction` states induction over a set of numbers instead, from
`WFMin`, and derives from it that a function given by recursion on a number of steps exists
(`WalkExists`), so that `Walk`, which chooses one, is what its definition says.

### Only model-checked

The liveness properties (`NoStarvation`, `BlockedIsWoken`, `JoinReturns`, `Terminates`),
which are out of the prover's reach with everything that needs ENABLED. All other properties
of the passing runs are theorems.

## 5. Not modelled, and abstractions

* A pass of `scheduler()`, a list operation and an `unlock` up to the clearing of the flag
  are atomic: the alarm that invokes `scheduler()` inside `enqueue` or inside `scheduler()`
  itself is not modelled yet.
* `numNodes` and `prev` of the four queues are written and never read, and left out, like
  `waitingOnID`, `block`, `owner_thread`, the run times and all printing. `runningID`, which
  only the allocator reads, is in `Allocator` only. The loop that prints the wait queue is
  kept as `ListsEnd`.
* `checkIfEmpty` always returns 1, as the flag of an entry is set to 0 before the entry is
  listed; the model takes that branch. `valuePlacer` is never called.
* When `scheduler()` has returned with nobody to run, the model follows what does not ask
  for `currThread` (`Executes`, against `At`): the join that returns, the test-and-set and
  the rest of a lock that takes the mutex, an unlock up to its pass, the creation of a
  thread by Main, the return of `main` and the end of a context. Any other way leads to a
  NULL dereference, at the next alarm at the latest, and the model goes there at once. It
  also ends there when an unlock of such a thread has woken another: the pass that follows
  finds somebody and saves the context in `mainThread->context` (767) over Main's, and what
  comes of that is not modelled.
* Ids are the threads themselves: only Main creates threads, one at a time (two creators
  with an alarm at 821 could hand out one id; no program of the repository has two). Stack
  overflow and the failure of an allocation inside a call are not modelled.
* `mutex_init` is in the initial state, except in `FirstRevision`. `mutex_destroy`, of all
  three libraries, changes nothing when it is called as it should be: it finds the flag 0 or
  returns `EBUSY`. It is left out, as are joins with a NULL `value_ptr`, and programs that
  unlock what they do not hold.
* The allocator does not compile as it stands (`page_data`, 229 and 304), and `main_0.c`
  does not use it; all models follow the code as written.
* `mydeallocate` subtracts `sizeof(mem_data)` from a block that begins at `dataPtr`, and so
  writes the field `size` of the header, which is only printed: it changes nothing in the
  model, and no memory is ever used again. What programs write in their blocks, and with it
  the headers inside a block of several pages, is left out, as is the branch for system
  requests of 4080 bytes and more, which the library never makes (it asks for 4000 and 96).
* A request for the next page when that is another thread's ends the loop at 98 before
  `BadFlag` is set, and the block is laid over that page. The model does so too. The account
  becomes negative by it, from where on `BlocksApart` promises nothing.
* The alarm inside `myallocate` (`AlarmAnywhere` of `Allocator`) falls between noting the
  caller, testing a page, claiming it, and `memPush`. An alarm inside `memPush`, between the
  two writes of a claim, on the walk along the chunks or in Main's requests for stacks is
  not modelled: the theorems that hold with `AlarmAnywhere` say nothing of it.
* Of `01/mutex_tests.c`, `return_value` (written by `exit` and, wrongly, by `join`, and
  never read), the second creation of `thread_list[1]` by its main, and nested locks are
  left out; the alarm falls in the threads' own code in their run. `AGE_THRSHLD`, `NLEVELS`
  and `CHECK_FRQ` are not defined in the repository; the age limit is taken to be longer
  than a quantum.
* Of `01/my_pthread.c`, `destroy`, the printed walks over the queues, `locked` and `block`,
  and the test programs at its end are left out; a pass and a list operation are atomic.
* Of `01/`, `my_pthread_t.c` is an unfinished sketch that nothing includes, `threading.c` a
  trial of two threads of the system's library that share nothing, and `testing_notes.c` a
  program of the same shape with its printed log; there is no state to model.

## 6. Plan

1. Done: lists, scheduler, calls and mutexes; their invariants; `Mutexes` implemented.
2. Open: `RunQueues`, an abstract scheduler over sequences (high, low, waiting, dead), and
   `Scheduler` shown to implement it while every list is sound.
3. Done: `Allocator` and `MultiLevel`.
4. Done: `FirstRevision` and `CountingThreads`.
5. Open: `Reentrant`, `enqueue` and the pass cut into pointer writes, with the alarm between
   them; which writes the lists survive.
6. Done: the lists of `Scheduler` as an inductive invariant over ranks, its joins and wakeups,
   and `QueuedMutexes` under `Calm`; `DeadStaysDead` wherever the alarm strikes; the queues
   of `MultiLevel`; all properties of `FirstRevision`.
7. Done: all properties of `Allocator`, with an alarm that stays out of `myallocate`.
