-------------------------- MODULE RefinementProofs --------------------------
(***************************************************************************)
(* Scheduler implements Mutexes: every step of the library, with the alarm *)
(* and the clock anywhere, gives a free mutex to one thread, takes a mutex *)
(* from the thread that unlocks it, or changes no holder.                  *)
(*                                                                         *)
(* Under Calm it also implements QueuedMutexes: the list of each mutex is a *)
(* queue that lock puts its caller in and unlock takes the first out of, and *)
(* no other step touches it.                                               *)
(***************************************************************************)
EXTENDS SchedulerRefinement, SchedulerProofs

-----------------------------------------------------------------------------
(* The holder of a mutex, before a step and after it. *)

LEMMA HolderIs ==
  ASSUME Inv, NEW t \in Thread, NEW m \in Mutex, t \in Owners[m]
  PROVE  Holder[m] = t
<1> DEFINE h == CHOOSE u \in Owners[m] : TRUE
<1>1. h \in Thread /\ h \in Owners[m]
  BY DEF Owners
<1>2. h = t
  BY <1>1 DEF Owners, Inv, LockInv, MutualExclusion, InCritical
<1> QED
  BY <1>2 DEF Holder

LEMMA HolderIsThen ==
  ASSUME Inv', NEW t \in Thread, NEW m \in Mutex, t \in Owners'[m]
  PROVE  Holder'[m] = t
<1> DEFINE h == CHOOSE u \in Owners'[m] : TRUE
<1>1. h \in Thread /\ h \in Owners'[m]
  BY DEF Owners
<1>2. h = t
  BY <1>1 DEF Owners, Inv, LockInv, MutualExclusion, InCritical
<1> QED
  BY <1>2 DEF Holder

LEMMA NoHolder ==
  ASSUME NEW m \in Mutex, \A t \in Thread : t \notin Owners[m]
  PROVE  Holder[m] = NULL
<1>1. Owners[m] = {}
  BY DEF Owners
<1> QED
  BY <1>1 DEF Holder

LEMMA NoHolderThen ==
  ASSUME NEW m \in Mutex, \A t \in Thread : t \notin Owners'[m]
  PROVE  Holder'[m] = NULL
<1>1. Owners'[m] = {}
  BY DEF Owners
<1> QED
  BY <1>1 DEF Holder

LEMMA SameHolder ==
  ASSUME Inv, Inv', NEW m \in Mutex, \A t \in Thread : t \in Owners'[m] <=> t \in Owners[m]
  PROVE  Holder'[m] = Holder[m]
<1>1. CASE \A t \in Thread : t \notin Owners[m]
  BY <1>1, NoHolder, NoHolderThen
<1>2. ASSUME NEW t \in Thread, t \in Owners[m] PROVE Holder'[m] = Holder[m]
  BY <1>2, HolderIs, HolderIsThen
<1> QED
  BY <1>1, <1>2

LEMMA SameHolders ==
  ASSUME Inv, Inv', \A t \in Thread, m \in Mutex : t \in Owners'[m] <=> t \in Owners[m]
  PROVE  Holder' = Holder
<1>1. \A m \in Mutex : Holder'[m] = Holder[m]
  BY SameHolder
<1> QED
  BY <1>1 DEF Holder

-----------------------------------------------------------------------------
(* The steps that change no holder. *)

\* Only the two points between a flag and the program's own bookkeeping count.
LEMMA PassingBy ==
  ASSUME Inv, Inv', UNCHANGED held,
         \A u \in Thread :
           \/ pc'[u] = pc[u] /\ mutex'[u] = mutex[u]
           \/ {pc[u], pc'[u]} \cap {"lock_done", "unlock_clear"} = {}
  PROVE  Holder' = Holder
<1>1. \A t \in Thread, m \in Mutex : t \in Owners'[m] <=> t \in Owners[m]
  BY DEF Owners, InCritical
<1> QED
  BY <1>1, SameHolders

LEMMA GotoPassingBy ==
  ASSUME Inv, Inv', NEW t \in Thread, NEW p, Goto(t, p), UNCHANGED << held, mutex >>,
         {pc[t], p} \cap {"lock_done", "unlock_clear"} = {}
  PROVE  Holder' = Holder
<1>1. \A u \in Thread : pc'[u] = IF u = t THEN p ELSE pc[u]
  BY DEF Goto, Inv, TypeOK
<1> QED
  BY <1>1, PassingBy

LEMMA SchedulerPassesBy ==
  ASSUME Inv, Inv', NEW t \in Thread, CallScheduler(t) \/ Alarm(t) \/ Recurse(t)
  PROVE  Holder' = Holder
<1>1. CASE CallScheduler(t)
  <2>1. /\ pc[t] \notin {"lock_done", "unlock_clear"}
        /\ AfterScheduler[pc[t]] \notin {"lock_done", "unlock_clear"}
    BY <1>1 DEF CallScheduler, SchedulerPCs, AfterScheduler
  <2> QED
    BY <1>1, <2>1, GotoPassingBy DEF CallScheduler, program_vars
<1>2. CASE Alarm(t) \/ Recurse(t)
  BY <1>2, PassingBy DEF Alarm, Recurse, program_vars
<1> QED
  BY <1>1, <1>2

LEMMA ThreadPassesBy ==
  ASSUME Inv, Inv', NEW t \in Thread,
         \/ Yield(t) \/ Exit(t) \/ ExitValue(t) \/ Return(t) \/ ReturnDead(t)
         \/ JoinWait(t) \/ JoinList(t) \/ JoinDone(t) \/ LockBlock(t) \/ LockEnqueue(t)
  PROVE  Holder' = Holder
  BY GotoPassingBy DEF Yield, Exit, ExitValue, Return, ReturnDead, JoinWait, JoinList,
     JoinDone, LockBlock, LockEnqueue, At, Executes, program_vars

LEMMA CallPassesBy ==
  ASSUME Inv, Inv', NEW t \in Thread,
         (\E x \in Thread : Join(t, x)) \/ (\E m \in Mutex : Lock(t, m))
  PROVE  Holder' = Holder
<1>1. ASSUME NEW x \in Thread, Join(t, x) PROVE Holder' = Holder
  <2>1. PICK p \in {"join_sched", "join_wait"} : Goto(t, p)
    BY <1>1 DEF Join
  <2> QED
    BY <1>1, <2>1, GotoPassingBy DEF Join, At, Executes
<1>2. ASSUME NEW m \in Mutex, Lock(t, m) PROVE Holder' = Holder
  <2>1. \A u \in Thread : /\ pc'[u] = IF u = t THEN "lock_tas" ELSE pc[u]
                          /\ u # t => mutex'[u] = mutex[u]
    BY <1>2 DEF Lock, Goto, Inv, TypeOK
  <2> QED
    BY <1>2, <2>1, PassingBy DEF Lock, At, Executes
<1> QED
  BY <1>1, <1>2

\* The flag was taken before, and is given back after.
LEMMA LockDonePassesBy ==
  ASSUME Inv, Inv', NEW t \in Thread, LockDone(t)
  PROVE  Holder' = Holder
<1>1. mutex[t] \in Mutex
  BY DEF LockDone, At, Executes, Inv, ArgumentsInv, LockPCs
<1>2. \A u \in Thread : /\ pc'[u] = IF u = t THEN "user" ELSE pc[u]
                        /\ mutex'[u] = IF u = t THEN NULL ELSE mutex[u]
                        /\ held'[u] = IF u = t THEN held[t] \cup {mutex[t]} ELSE held[u]
  BY DEF LockDone, Goto, Inv, TypeOK
<1>3. pc[t] = "lock_done"
  BY DEF LockDone, At, Executes
<1>4. \A u \in Thread, m \in Mutex : u \in Owners'[m] <=> u \in Owners[m]
  BY <1>1, <1>2, <1>3 DEF Owners, InCritical
<1> QED
  BY <1>4, SameHolders

LEMMA UnlockClearPassesBy ==
  ASSUME Inv, Inv', NEW t \in Thread, UnlockClear(t)
  PROVE  Holder' = Holder
<1>1. \A u \in Thread : /\ pc'[u] = IF u = t THEN "unlock_sched" ELSE pc[u]
                        /\ mutex'[u] = IF u = t THEN NULL ELSE mutex[u]
                        /\ held'[u] = IF u = t THEN held[t] \ {mutex[t]} ELSE held[u]
  BY DEF UnlockClear, Goto, Inv, TypeOK
<1>2. pc[t] = "unlock_clear"
  BY DEF UnlockClear, At, Executes
<1>3. \A u \in Thread, m \in Mutex : u \in Owners'[m] <=> u \in Owners[m]
  BY <1>1, <1>2 DEF Owners, InCritical
<1> QED
  BY <1>3, SameHolders

-----------------------------------------------------------------------------
(* The steps that do. *)

\* A test-and-set that finds the flag clear acquires the mutex.
LEMMA TestAndSetAcquires ==
  ASSUME Inv, Inv', NEW t \in Thread, TestAndSet(t)
  PROVE  /\ flag[mutex[t]] = 1 => Holder' = Holder
         /\ flag[mutex[t]] # 1 => mutex[t] \in Mutex /\ Locks!Acquire(t, mutex[t])
<1> DEFINE m == mutex[t]
<1>1. m \in Mutex /\ pc[t] = "lock_tas"
  BY DEF TestAndSet, At, Executes, Inv, ArgumentsInv, LockPCs
<1>2. UNCHANGED << mutex, held >>
  BY DEF TestAndSet, program_vars
<1>3. CASE flag[m] = 1
  <2>1. Goto(t, "lock_block")
    BY <1>3 DEF TestAndSet
  <2> QED
    BY <1>1, <1>2, <1>3, <2>1, GotoPassingBy
<1>4. CASE flag[m] # 1
  <2>1. \A u \in Thread : pc'[u] = IF u = t THEN "lock_done" ELSE pc[u]
    BY <1>4 DEF TestAndSet, Goto, Inv, TypeOK
  <2>2. \A u \in Thread : u \notin Owners[m]
    BY <1>1, <1>4 DEF Owners, Inv, LockInv
  <2>3. t \in Owners'[m]
    BY <1>1, <1>2, <2>1 DEF Owners, InCritical
  <2>4. \A u \in Thread, n \in Mutex : n # m => (u \in Owners'[n] <=> u \in Owners[n])
    BY <1>1, <1>2, <2>1 DEF Owners, InCritical
  <2>5. Holder[m] = NULL /\ Holder'[m] = t
    BY <1>1, <2>2, <2>3, NoHolder, HolderIsThen
  <2>6. \A n \in Mutex : n # m => Holder'[n] = Holder[n]
    BY <2>4, SameHolder
  <2>7. Holder' = [Holder EXCEPT ![m] = t]
    <3>1. Holder = [n \in Mutex |-> Holder[n]] /\ Holder' = [n \in Mutex |-> Holder'[n]]
      BY DEF Holder
    <3> QED
      BY <1>1, <2>5, <2>6, <3>1
  <2> QED
    BY <1>1, <1>4, <2>5, <2>7 DEF Locks!Acquire
<1> QED
  BY <1>3, <1>4

\* The first step of an unlock releases it.
LEMMA UnlockReleases ==
  ASSUME Inv, Inv', NEW t \in Thread, NEW m \in Mutex, Unlock(t, m)
  PROVE  Locks!Release(t, m)
<1>1. pc[t] = "user" /\ m \in held[t]
  BY DEF Unlock, At, Executes
<1>2. \A u \in Thread : /\ pc'[u] = IF u = t THEN "unlock_clear" ELSE pc[u]
                        /\ mutex'[u] = IF u = t THEN m ELSE mutex[u]
  BY DEF Unlock, Goto, Inv, TypeOK
<1>3. UNCHANGED held
  BY DEF Unlock
<1>4. t \in Owners[m]
  BY <1>1 DEF Owners, InCritical
<1>5. \A u \in Thread : u \notin Owners'[m]
  <2>1. \A u \in Thread : u \in Owners'[m] => u = t
    BY <1>1, <1>2, <1>3 DEF Owners, InCritical, Inv, LockInv, MutualExclusion
  <2>2. t \notin Owners'[m]
    BY <1>2 DEF Owners
  <2> QED
    BY <2>1, <2>2
<1>6. \A u \in Thread, n \in Mutex : n # m => (u \in Owners'[n] <=> u \in Owners[n])
  BY <1>1, <1>2, <1>3 DEF Owners, InCritical
<1>7. Holder[m] = t /\ Holder'[m] = NULL
  BY <1>4, <1>5, HolderIs, NoHolderThen
<1>8. \A n \in Mutex : n # m => Holder'[n] = Holder[n]
  BY <1>6, SameHolder
<1>9. Holder' = [Holder EXCEPT ![m] = NULL]
  BY <1>7, <1>8 DEF Holder
<1> QED
  BY <1>7, <1>9 DEF Locks!Release

-----------------------------------------------------------------------------

LEMMA InitImplements == Init => Locks!Init
<1> SUFFICES ASSUME Init PROVE Locks!Init
  OBVIOUS
<1>1. \A m \in Mutex : \A t \in Thread : t \notin Owners[m]
  BY DEF Init, Owners, InCritical
<1>2. \A m \in Mutex : Holder[m] = NULL
  BY <1>1, NoHolder
<1> QED
  BY <1>2 DEF Locks!Init, Holder

LEMMA NextImplements ==
  ASSUME Inv, Inv', [Next]_vars
  PROVE  [Locks!Next]_Holder
<1>1. ASSUME NEW t \in Thread, Library(t) PROVE [Locks!Next]_Holder
  BY <1>1, SchedulerPassesBy, ThreadPassesBy, TestAndSetAcquires, LockDonePassesBy,
     UnlockClearPassesBy DEF Library, Locks!Next
<1>2. ASSUME NEW t \in Thread, Program(t) PROVE [Locks!Next]_Holder
  BY <1>2, ThreadPassesBy, CallPassesBy, UnlockReleases DEF Program, Locks!Next
<1>3. ASSUME NEW t \in Thread, Alarm(t) PROVE Holder' = Holder
  BY <1>3, SchedulerPassesBy
<1>4. ASSUME NEW x \in Thread, FirstCreate(x) \/ OrphanCreate(x) PROVE Holder' = Holder
  BY <1>4, PassingBy DEF FirstCreate, OrphanCreate, program_vars
<1>5. ASSUME NEW x \in Thread, Create(x) PROVE Holder' = Holder
  BY <1>5, GotoPassingBy, MainIsThread DEF Create, At, Executes, program_vars
<1>6. CASE Tick \/ MainReturns \/ Gone \/ UNCHANGED vars
  BY <1>6, PassingBy DEF Tick, MainReturns, Gone, vars, program_vars
<1>7. ASSUME NEW t \in Thread, LastContextEnds(t) \/ NullDereference(t) \/ Hang(t)
      PROVE  Holder' = Holder
  BY <1>7, PassingBy DEF LastContextEnds, NullDereference, Hang, program_vars
<1> QED
  BY <1>1, <1>2, <1>3, <1>4, <1>5, <1>6, <1>7 DEF Next

\* my_pthread_mutex_lock and unlock implement the abstract mutex, however many
\* threads and mutexes there are and wherever the alarm and the clock strike.
THEOREM ImplementsMutexes == Spec => LocksExclude
<1>1. Init => Locks!Init
  BY InitImplements
<1>2. Inv /\ Inv' /\ [Next]_vars => [Locks!Next]_Holder
  BY NextImplements
<1> QED
  BY <1>1, <1>2, Invariance, PTL DEF Spec, LocksExclude, Locks!Spec

-----------------------------------------------------------------------------
(* The queues of the mutexes, as the lists of the induction have them. *)

MutexSequence(h, m) ==
  [k \in 1 .. h.wait[m].numNodes |-> WalkFrom(h, h.wait[m].front)[k - 1]]

\* WaitSequence, mutex by mutex, before a step and after it.
LEMMA SequencesAre ==
  /\ WaitSequence = [m \in Mutex |-> MutexSequence(heap, m)]
  /\ WaitSequence' = [m \in Mutex |-> MutexSequence(heap', m)]
  BY DEF WaitSequence, MutexSequence

\* It is the list of the mutex.
LEMMA MutexSequenceIs ==
  ASSUME NEW h, NEW c, Chained(h, c), NEW m \in Mutex
  PROVE  MutexSequence(h, m) = c[OfMutex(m)]
<1> DEFINE x == c[OfMutex(m)]
<1>1. h \in Heap /\ MutexHolds(h, m, x) /\ NoneTwice(x) /\ x \in Seq(Thread)
  BY ListNames, ChainedIs, OnceEach
<1>2. Len(x) = h.wait[m].numNodes /\ x \in [1 .. Len(x) -> Thread]
  BY <1>1, SeqIs DEF MutexHolds
<1>3. \A k \in 1 .. Len(x) : WalkFrom(h, h.wait[m].front)[k - 1] = x[k]
  BY <1>1, MutexWalk
<1> HIDE DEF x
<1>4. MutexSequence(h, m) = x
  BY <1>2, <1>3 DEF MutexSequence
<1> QED
  BY <1>4 DEF x

\* A step that changes no list of a mutex changes no queue, ...
LEMMA SameSequences ==
  ASSUME NEW c, Chained(heap, c), NEW d, Chained(heap', d), SameWaiters(c, d)
  PROVE  WaitSequence' = WaitSequence
<1>1. \A m \in Mutex : MutexSequence(heap', m) = MutexSequence(heap, m)
  BY MutexSequenceIs DEF SameWaiters
<1> QED
  BY <1>1, SequencesAre

\* ... nor does one that leaves the heap alone.
LEMMA SameHeap ==
  ASSUME heap' = heap
  PROVE  WaitSequence' = WaitSequence
  BY SequencesAre

\* A pass of scheduler() touches no queue of a mutex.
LEMMA PassQueues ==
  ASSUME Inv, Calm, Good, NEW t \in Thread, CallScheduler(t) \/ Alarm(t) \/ Recurse(t)
  PROVE  WaitSequence' = WaitSequence
<1>1. Moves(t) /\ Acting(t) /\ Pass(t) /\ UNCHANGED mutex
  BY PassIs DEF program_vars
<1>2. \A c : NowShaped(c) => ThenShaped(c)
  BY <1>1, PassEffect
<1>3. PICK c : NowShaped(c)
  BY DEF Good, Shaped, NowShaped
<1>4. Chained(heap, c)
  BY <1>3 DEF NowShaped, ShapeOf
<1>5. PICK d : Chained(heap', d) /\ SameWaiters(c, d)
  BY <1>2, <1>3 DEF ThenShaped, ShapeOf
<1> QED
  BY <1>4, <1>5, SameSequences

\* Who is beside the lists is not queued.
LEMMA NotQueued ==
  ASSUME NEW t \in Thread, NEW c, Beside(c, t)
  PROVE  ~ Queued!Queued(t)
<1> SUFFICES ASSUME Queued!Queued(t) PROVE FALSE
  OBVIOUS
<1>1. PICK m \in Mutex : \E k \in DOMAIN WaitSequence[m] : WaitSequence[m][k] = t
  BY DEF Queued!Queued
<1>2. /\ Chained(heap, c) /\ ~ Among(c, t)
  BY DEF Beside
<1>3. WaitSequence[m] = c[OfMutex(m)]
  BY <1>2, SequencesAre, MutexSequenceIs
<1>4. OfMutex(m) \in List /\ c[OfMutex(m)] \in Seq(Thread)
  BY <1>2, ListNames, ChainedIs
<1>5. \E k \in 1 .. Len(c[OfMutex(m)]) : c[OfMutex(m)][k] = t
  BY <1>1, <1>3, <1>4, SeqIs
<1> QED
  BY <1>2, <1>4, <1>5 DEF Among, In

\* The queue of one mutex changes.
LEMMA OtherSequence ==
  ASSUME NEW c, Chained(heap, c), NEW d, Chained(heap', d), NEW m \in Mutex, NEW s,
         d[OfMutex(m)] = s, \A n \in Mutex : n # m => d[OfMutex(n)] = c[OfMutex(n)]
  PROVE  WaitSequence' = [WaitSequence EXCEPT ![m] = s] /\ WaitSequence[m] = c[OfMutex(m)]
<1>1. \A n \in Mutex : /\ MutexSequence(heap, n) = c[OfMutex(n)]
                       /\ MutexSequence(heap', n) = d[OfMutex(n)]
  BY MutexSequenceIs
<1>2. \A n \in Mutex : MutexSequence(heap', n) = IF n = m THEN s ELSE MutexSequence(heap, n)
  BY <1>1
<1> QED
  BY <1>1, <1>2, SequencesAre

\* lock puts its caller behind the others that wait, and another thread holds
\* the mutex then.
LEMMA LockEnqueueWaits ==
  ASSUME Inv, Inv', Good, NEW t \in Thread, LockEnqueue(t)
  PROVE  mutex[t] \in Mutex /\ Queued!Wait(t, mutex[t])
<1>1. /\ At(t, "lock_enqueue") /\ Goto(t, "lock_sched") /\ heap' = gen_enqueue(heap, mutex[t], t)
  BY DEF LockEnqueue
<1>2. PICK m \in Mutex : m = mutex[t]
  BY <1>1 DEF At, Executes, Inv, ArgumentsInv, LockPCs
<1>3. PICK c : Beside(c, t)
  BY <1>1, RunningIsBeside
<1>4. /\ Chained(heap, c) /\ ~ Among(c, t) /\ NextIs(heap, c, t)
      /\ OfMutex(m) \in List /\ c \in [List -> Seq(Thread)]
  BY <1>3, ListNames DEF Beside, Chained
<1>5. PICK d : d = With(c, OfMutex(m), t)
  OBVIOUS
<1>6. Chained(heap', d)
  BY <1>1, <1>2, <1>4, <1>5, GenEnqueueChained
<1>7. /\ d[OfMutex(m)] = Append(c[OfMutex(m)], t)
      /\ \A n \in Mutex : n # m => d[OfMutex(n)] = c[OfMutex(n)]
  BY <1>4, <1>5, ListNames DEF With
<1>8. /\ WaitSequence' = [WaitSequence EXCEPT ![m] = Append(c[OfMutex(m)], t)]
      /\ WaitSequence[m] = c[OfMutex(m)]
  BY <1>4, <1>6, <1>7, OtherSequence
<1>9. ~ Queued!Queued(t)
  BY <1>3, NotQueued
<1>10. Holder[m] \notin {NULL, t}
  <2>1. /\ pc[t] = "lock_enqueue" /\ HeldOf(t) /\ TakenOf(m)
        /\ \A u \in Thread : u # t => pc[u] \in {"user", "lock_tas", "join_done", "end_done"}
    BY <1>1, StepIs
  <2>2. flag[m] = 1 /\ \A n \in held[t] : n < m
    BY <1>2, <2>1 DEF HeldOf, LockPCs
  <2>3. PICK u \in Thread : InCritical(u, m)
    BY <2>1, <2>2 DEF TakenOf
  <2>4. u # t
    BY <2>1, <2>2, <2>3, MutexesOrdered DEF InCritical
  <2>5. u \in Owners[m]
    BY <2>1, <2>3, <2>4 DEF Owners
  <2>6. Holder[m] = u
    BY <2>5, HolderIs
  <2> QED
    BY <2>4, <2>6, NullIsNoThread
<1>11. Holder' = Holder
  BY ThreadPassesBy
<1> QED
  BY <1>2, <1>8, <1>9, <1>10, <1>11 DEF Queued!Wait

\* unlock takes the head of the queue off, if there is one.
LEMMA UnlockTakesHead ==
  ASSUME Inv, Good, NEW t \in Thread, NEW m \in Mutex, Unlock(t, m)
  PROVE  WaitSequence' =
           [WaitSequence EXCEPT ![m] = IF WaitSequence[m] = << >> THEN WaitSequence[m]
                                       ELSE Tail(WaitSequence[m])]
<1>1. At(t, "user")
  BY IsCurrent DEF Unlock
<1>2. PICK c : Beside(c, t)
  BY <1>1, RunningIsBeside
<1>3. /\ Chained(heap, c) /\ ~ Among(c, t) /\ c \in [List -> Seq(Thread)]
      /\ OfMutex(m) \in List /\ OfQueue(Running) \in List /\ OfMutex(m) # OfQueue(Running)
      /\ RearIs(heap, Running, c[OfQueue(Running)]) /\ Once(c)
  BY <1>2, ListNames, QueueNumbers DEF Beside, Chained
<1>4. PICK x : x = heap.wait[m].front
  OBVIOUS
<1>5. x = NULL <=> c[OfMutex(m)] = << >>
  BY <1>1, <1>2, <1>4, UnlockHead
<1>6. WaitSequence[m] = c[OfMutex(m)]
  BY <1>3, MutexSequenceIs, SequencesAre
<1>7. CASE x = NULL
  <2>1. heap' = heap
    BY <1>4, <1>7 DEF Unlock
  <2>2. WaitSequence' = WaitSequence
    BY <2>1, SameHeap
  <2>3. WaitSequence[m] = << >>
    BY <1>5, <1>6, <1>7
  <2>4. WaitSequence = [WaitSequence EXCEPT ![m] = WaitSequence[m]]
    BY SequencesAre
  <2> QED
    BY <2>2, <2>3, <2>4
<1>8. CASE x # NULL
  <2>1. heap' = enqueue(gen_dequeue(heap, m), x, Running) /\ c[OfMutex(m)] # << >>
    BY <1>4, <1>5, <1>8 DEF Unlock
  <2>2. PICK y : y = gen_dequeue(heap, m)
    OBVIOUS
  <2>3. PICK e : e = Without(c, OfMutex(m))
    OBVIOUS
  <2>4. /\ Chained(y, e) /\ y.rear = heap.rear
        /\ x = c[OfMutex(m)][1] /\ x \in Thread
    BY <1>3, <1>4, <2>1, <2>2, <2>3, GenDequeueChained
  <2>5. e \in [List -> Seq(Thread)] /\ ~ Among(e, x)
    BY <1>3, <2>1, <2>3, <2>4, WithoutOnce
  <2>6. /\ e[OfMutex(m)] = Tail(c[OfMutex(m)]) /\ e[OfQueue(Running)] = c[OfQueue(Running)]
        /\ \A n \in Mutex : n # m => e[OfMutex(n)] = c[OfMutex(n)]
    BY <1>3, <2>3, ListNames DEF Without
  <2>7. PICK d : d = With(e, OfQueue(Running), x)
    OBVIOUS
  <2>8. Chained(heap', d)
    <3>1. RearIs(y, Running, e[OfQueue(Running)])
      BY <1>3, <2>4, <2>6 DEF RearIs
    <3>2. Chained(enqueue(y, x, Running), With(e, OfQueue(Running), x))
      BY <2>4, <2>5, <3>1, QueueNumbers, EnqueueChained
    <3> QED
      BY <2>1, <2>2, <2>7, <3>2
  <2>9. SameWaiters(e, d)
    BY <2>5, <2>7, QueueNumbers, WaitersSame
  <2>10. /\ d[OfMutex(m)] = Tail(c[OfMutex(m)])
         /\ \A n \in Mutex : n # m => d[OfMutex(n)] = c[OfMutex(n)]
    BY <2>6, <2>9 DEF SameWaiters
  <2>11. WaitSequence' = [WaitSequence EXCEPT ![m] = Tail(c[OfMutex(m)])]
    <3>1. PICK s : s = Tail(c[OfMutex(m)])
      OBVIOUS
    <3>2. d[OfMutex(m)] = s /\ Chained(heap, c) /\ Chained(heap', d)
      BY <1>3, <2>8, <2>10, <3>1
    <3>3. WaitSequence' = [WaitSequence EXCEPT ![m] = s]
      BY <2>10, <3>2, OtherSequence
    <3> QED
      BY <3>1, <3>3
  <2> QED
    BY <1>6, <2>1, <2>11
<1> QED
  BY <1>7, <1>8

\* create touches no queue of a mutex.
LEMMA CreateQueues ==
  ASSUME Inv, Good, NEW x \in Thread, Create(x)
  PROVE  WaitSequence' = WaitSequence
<1>1. At(Main, "user") /\ heap' = enqueue(heap, x, Running) /\ activeFlag[x] = "NONE"
  BY DEF Create
<1>2. PICK c : Beside(c, Main)
  BY <1>1, MainIsThread, RunningIsBeside
<1>3. /\ Chained(heap, c) /\ ~ Among(c, x) /\ c \in [List -> Seq(Thread)]
      /\ RearIs(heap, Running, c[OfQueue(Running)])
  BY <1>1, <1>2, QueueNumbers DEF Beside, Chained
<1>4. PICK d : d = With(c, OfQueue(Running), x)
  OBVIOUS
<1>5. Chained(heap', d)
  BY <1>1, <1>3, <1>4, QueueNumbers, EnqueueChained
<1>6. SameWaiters(c, d)
  BY <1>3, <1>4, QueueNumbers, WaitersSame
<1> QED
  BY <1>3, <1>5, <1>6, SameSequences

\* Before the first create nobody waits for a mutex, and after it main() is in
\* queue 0.
LEMMA FirstCreateQueues ==
  ASSUME Inv, Good, NEW x \in Thread, FirstCreate(x)
  PROVE  WaitSequence' = WaitSequence
<1> DEFINE two == enqueue(enqueue(initQueue, Main, Running), x, Running)
<1>1. activeFlag[Main] = "NONE" /\ x # Main /\ heap' = dequeue(Rotated(two), Running)
  BY DEF FirstCreate, StartFirst
<1>2. \A t \in Thread : activeFlag[t] = "NONE"
  BY <1>1, MainIsThread DEF Good, StartInv
<1>3. PICK c : ShapeOf(heap, activeFlag, mutex, sinceRun, recursing, running, pc, c)
  BY DEF Good, Shaped
<1>4. Chained(heap, c) /\ \A u \in Thread : ~ Among(c, u)
  BY <1>2, <1>3 DEF ShapeOf, ListedBy
<1>5. PICK d : /\ Chained(heap', d) /\ \A u : Among(d, u) <=> u = Main
               /\ d[OfQueue(Running)] = << Main >>
  <2>1. FirstLists(x)
    BY <1>1, FirstListsAre
  <2> QED
    BY <1>1, <2>1 DEF FirstLists
<1>6. ASSUME NEW m \in Mutex PROVE c[OfMutex(m)] = << >> /\ d[OfMutex(m)] = << >>
  <2>1. OfMutex(m) \in List /\ OfQueue(Running) \in List /\ OfMutex(m) # OfQueue(Running)
    BY ListNames, QueueNumbers
  <2>2. c[OfMutex(m)] \in Seq(Thread) /\ d[OfMutex(m)] \in Seq(Thread) /\ Once(d)
    BY <1>4, <1>5, <2>1, ChainedIs
  <2>3. ASSUME c[OfMutex(m)] # << >> PROVE FALSE
    <3>1. 1 \in 1 .. Len(c[OfMutex(m)]) /\ c[OfMutex(m)][1] \in Thread
      BY <2>2, <2>3, SeqIs
    <3> QED
      BY <1>4, <2>1, <3>1, InIs
  <2>4. ASSUME d[OfMutex(m)] # << >> PROVE FALSE
    <3>1. 1 \in 1 .. Len(d[OfMutex(m)])
      BY <2>2, <2>4, SeqIs
    <3>2. d[OfMutex(m)][1] = Main
      BY <1>5, <2>1, <3>1, InIs
    <3>3. 1 \in 1 .. Len(d[OfQueue(Running)]) /\ d[OfQueue(Running)][1] = Main
      BY <1>5
    <3> QED
      BY <2>1, <2>2, <3>1, <3>2, <3>3, OnceIs
  <2> QED
    BY <2>3, <2>4
<1>7. SameWaiters(c, d)
  BY <1>6 DEF SameWaiters
<1> QED
  BY <1>4, <1>5, <1>7, SameSequences

-----------------------------------------------------------------------------

\* Before the first lock nobody waits.
LEMMA InitQueues == Init => Queued!Init
<1> SUFFICES ASSUME Init PROVE Queued!Init
  OBVIOUS
<1>1. heap = initQueue /\ Locks!Init
  BY InitImplements DEF Init
<1>2. \A m \in Mutex : MutexSequence(heap, m) = << >>
  <2>1. \A m \in Mutex : MutexSequence(heap, m) = Nobody[OfMutex(m)] /\ OfMutex(m) \in List
    BY <1>1, NobodyChained, MutexSequenceIs, ListNames
  <2> QED
    BY <2>1, NobodyChained
<1>3. WaitSequence = [m \in Mutex |-> << >>]
  BY <1>2, SequencesAre
<1> QED
  BY <1>1, <1>3 DEF Queued!Init, Queued!M!Init, Locks!Init

\* What a step of the program or the library does to holders and queues.
QueueStep == [Queued!Next]_<< Holder, WaitSequence >>

\* The test-and-set of a thread that is in no queue.
LEMMA TestAndSetQueues ==
  ASSUME Inv, Inv', Good, NEW t \in Thread, TestAndSet(t)
  PROVE  QueueStep
<1>1. At(t, "lock_tas") /\ heap' = heap
  BY IsCurrent DEF TestAndSet
<1>2. WaitSequence' = WaitSequence
  BY <1>1, SameHeap
<1>3. PICK c : Beside(c, t)
  BY <1>1, RunningIsBeside
<1>4. ~ Queued!Queued(t)
  BY <1>3, NotQueued
<1>5. CASE flag[mutex[t]] = 1
  BY <1>2, <1>5, TestAndSetAcquires DEF QueueStep
<1>6. CASE flag[mutex[t]] # 1
  <2>1. mutex[t] \in Mutex /\ Locks!Acquire(t, mutex[t])
    BY <1>6, TestAndSetAcquires
  <2>2. Queued!Acquire(t, mutex[t])
    BY <1>2, <1>4, <2>1 DEF Queued!Acquire, Queued!M!Acquire, Locks!Acquire
  <2> QED
    BY <2>1, <2>2 DEF QueueStep, Queued!Next
<1> QED
  BY <1>5, <1>6

\* The first step of unlock gives the mutex up and wakes the head of its queue.
LEMMA UnlockQueues ==
  ASSUME Inv, Inv', Good, NEW t \in Thread, NEW m \in Mutex, Unlock(t, m)
  PROVE  QueueStep
<1>1. Locks!Release(t, m)
  BY UnlockReleases
<1>2. Queued!Release(t, m)
  BY <1>1, UnlockTakesHead DEF Queued!Release, Queued!M!Release, Locks!Release
<1> QED
  BY <1>2 DEF QueueStep, Queued!Next

\* A step that changes neither.
LEMMA StillQueues ==
  ASSUME Holder' = Holder, heap' = heap
  PROVE  QueueStep
  BY SameHeap DEF QueueStep

\* A step of a library call, ...
LEMMA LibraryQueues ==
  ASSUME Inv, Inv', Calm, Good, NEW t \in Thread, Library(t)
  PROVE  QueueStep
<1>1. CASE CallScheduler(t) \/ Recurse(t)
  BY <1>1, SchedulerPassesBy, PassQueues DEF QueueStep
<1>2. CASE ExitValue(t) \/ ReturnDead(t) \/ JoinWait(t) \/ JoinList(t) \/ JoinDone(t) \/ LockBlock(t)
  <2>1. heap' = heap
    BY <1>2 DEF ExitValue, ReturnDead, JoinWait, JoinList, JoinDone, LockBlock
  <2>2. Holder' = Holder
    BY <1>2, ThreadPassesBy
  <2> QED
    BY <2>1, <2>2, StillQueues
<1>3. CASE TestAndSet(t)
  BY <1>3, TestAndSetQueues
<1>4. CASE LockEnqueue(t)
  BY <1>4, LockEnqueueWaits DEF QueueStep, Queued!Next
<1>5. CASE LockDone(t)
  BY <1>5, LockDonePassesBy, StillQueues DEF LockDone
<1>6. CASE UnlockClear(t)
  BY <1>6, UnlockClearPassesBy, StillQueues DEF UnlockClear
<1> QED
  BY <1>1, <1>2, <1>3, <1>4, <1>5, <1>6 DEF Library

\* ... a call of a program, ...
LEMMA ProgramQueues ==
  ASSUME Inv, Inv', Good, NEW t \in Thread, Program(t)
  PROVE  QueueStep
<1>1. CASE Yield(t) \/ Exit(t) \/ Return(t)
  <2>1. heap' = heap
    BY <1>1 DEF Yield, Exit, Return
  <2>2. Holder' = Holder
    BY <1>1, ThreadPassesBy
  <2> QED
    BY <2>1, <2>2, StillQueues
<1>2. ASSUME NEW x \in Thread, Join(t, x) PROVE QueueStep
  BY <1>2, CallPassesBy, StillQueues DEF Join
<1>3. ASSUME NEW m \in Mutex, Lock(t, m) PROVE QueueStep
  BY <1>3, CallPassesBy, StillQueues DEF Lock
<1>4. ASSUME NEW m \in Mutex, Unlock(t, m) PROVE QueueStep
  BY <1>4, UnlockQueues
<1> QED
  BY <1>1, <1>2, <1>3, <1>4 DEF Program

\* ... and any other, is one of QueuedMutexes or changes nothing of it.
LEMMA NextQueues ==
  ASSUME Inv, Inv', Calm, Good, [Next]_vars
  PROVE  QueueStep
<1>1. ASSUME NEW t \in Thread, Library(t) \/ Program(t) PROVE QueueStep
  BY <1>1, LibraryQueues, ProgramQueues
<1>2. ASSUME NEW t \in Thread, Alarm(t) PROVE QueueStep
  BY <1>2, SchedulerPassesBy, PassQueues DEF QueueStep
<1>3. ASSUME NEW x \in Thread, Create(x) PROVE QueueStep
  <2>1. Holder' = Holder
    BY <1>3, GotoPassingBy, MainIsThread DEF Create, At, Executes, program_vars
  <2> QED
    BY <1>3, <2>1, CreateQueues DEF QueueStep
<1>4. ASSUME NEW x \in Thread, FirstCreate(x) PROVE QueueStep
  <2>1. Holder' = Holder
    BY <1>4, PassingBy DEF FirstCreate, program_vars
  <2> QED
    BY <1>4, <2>1, FirstCreateQueues DEF QueueStep
<1>5. CASE Tick \/ MainReturns \/ Gone \/ UNCHANGED vars
  <2>1. Holder' = Holder
    BY <1>5, PassingBy DEF Tick, MainReturns, Gone, vars, program_vars
  <2>2. heap' = heap
    BY <1>5 DEF Tick, MainReturns, Gone, vars
  <2> QED
    BY <2>1, <2>2, StillQueues
<1>6. ASSUME NEW t \in Thread,
             LastContextEnds(t) \/ NullDereference(t) \/ Hang(t) \/ OrphanCreate(t)
      PROVE  QueueStep
  BY <1>6, NeverOrphan
<1> QED
  BY <1>1, <1>2, <1>3, <1>4, <1>5, <1>6 DEF Next

\* my_pthread_mutex_lock and unlock implement the mutex with a wait queue: who
\* finds it taken gets behind those that wait, only while another holds it, and
\* each unlock takes the one that came first.
THEOREM ImplementsQueuedMutexes ==
  ASSUME Calm
  PROVE  Spec => LocksQueue
<1>1. Init => Queued!Init
  BY InitQueues
<1>2. Inv /\ Inv' /\ Good /\ [Next]_vars => QueueStep
  BY NextQueues
<1>3. Inv /\ Inv' /\ Good /\ [Next]_vars => [Queued!Next]_<< Holder, WaitSequence >>
  BY <1>2 DEF QueueStep
<1> QED
  BY <1>1, <1>3, Invariance, CallsAtRest, PTL DEF Spec, LocksQueue, Queued!Spec, Queued!vars
=============================================================================
