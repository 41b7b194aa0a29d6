-------------------------- MODULE SchedulerProofs --------------------------
(***************************************************************************)
(* What TLAPS proves of Scheduler, for all sets of threads and mutexes and *)
(* all programs that keep the discipline of Scheduler.                     *)
(*                                                                         *)
(* First, wherever the alarm strikes: its types and its locks.             *)
(*                                                                         *)
(* Then under Calm, that is, when the alarm and the clock leave library    *)
(* calls alone and one thread makes the joins, as in main.c and main_0.c:  *)
(* its lists are right, it always finds a thread to run, its joins wait    *)
(* and its wakeups arrive.  The inductive invariant is Good, which is      *)
(* CalmInv but for the sequences of nodes, which it says exist.  A pass of *)
(* scheduler() is followed from list to list: Mid before the thread that   *)
(* was running is put anywhere, Requeued then, and ShapeOf at the end.     *)
(* That a thread can run is an argument on the whole state: if none could, *)
(* each would be dead or wait, main() for a thread that is not dead, and   *)
(* each that is blocked for the holder of its mutex, which would be blocked *)
(* on a greater one: NoClimb ends that.                                    *)
(*                                                                         *)
(* Last, wherever the alarm strikes again, when threads get lost and lists *)
(* are cut or lead into each other: a dead thread does not come back.  The *)
(* inductive invariant is BuriedInv, which says what a stale rear or next  *)
(* can still lead to.                                                      *)
(***************************************************************************)
EXTENDS SchedulerLists, ThreadListsProofs

-----------------------------------------------------------------------------
(* One pass of scheduler(). *)

LEMMA RequeueHeap ==
  ASSUME NEW h \in Heap, NEW t \in Thread, NEW f
  PROVE  Requeue(h, f, t) \in Heap
  BY EnqueueHeap, QueueNumbers DEF Requeue

LEMMA FlagAfterFlag ==
  ASSUME NEW f \in Flags
  PROVE  FlagAfter(f) \in Flags
  BY DEF FlagAfter, Flags

LEMMA AgedTypes ==
  ASSUME TypeOK
  PROVE  /\ AgedHeap \in Heap
         /\ AgedFlag \in [Thread -> Flags]
<1>1. CASE Promotes
  <2>1. Promoted \in Thread
    BY <1>1, FirstInSet DEF Promotes, Promoted, Aged
  <2>2. unlink(heap, Low, FirstAfter(Walk(heap, Low), Aged), Promoted) \in Heap
    BY <2>1, UnlinkHeap, QueueNumbers DEF TypeOK
  <2>3. AgedHeap \in Heap
    BY <1>1, <2>1, <2>2, EnqueueHeap, QueueNumbers DEF AgedHeap
  <2>4. AgedFlag \in [Thread -> Flags]
    BY <1>1 DEF AgedFlag, TypeOK, Flags
  <2> QED
    BY <2>3, <2>4
<1>2. CASE ~Promotes
  BY <1>2 DEF AgedHeap, AgedFlag, TypeOK
<1> QED
  BY <1>1, <1>2

LEMMA WakeJoinerTypes ==
  ASSUME TypeOK, NEW t \in Thread, WakeJoiner(t)
  PROVE  /\ heap' \in Heap
         /\ activeFlag' \in [Thread -> Flags]
         /\ joinValue' \in [Thread -> [Thread -> {"none", "field", "copy"}]]
<1> DEFINE h == Requeue(AgedHeap, AgedFlag[t], t)
           w == FirstIn(Walk(h, Waiting), WaitersOf(t))
           p == FirstAfter(Walk(h, Waiting), WaitersOf(t))
<1>1. h \in Heap
  BY AgedTypes, RequeueHeap
<1>2. HasWaiter(h, t)
  BY DEF WakeJoiner, SwitchedHeap
<1>3. w \in Thread
  <2>1. w \in WaitersOf(t)
    BY <1>2, FirstInSet DEF HasWaiter
  <2> QED
    BY <2>1 DEF WaitersOf
<1>4. pushFront(unlink(h, Waiting, p, w), w) \in Heap
  BY <1>1, <1>3, UnlinkHeap, PushFrontHeap, QueueNumbers
<1>5. heap' = pushFront(unlink(h, Waiting, p, w), w)
  BY DEF WakeJoiner, SwitchedHeap
<1>6. activeFlag' \in [Thread -> Flags]
  <2>1. activeFlag' = [AgedFlag EXCEPT ![w] = "ACTIVE"]
    BY DEF WakeJoiner, SwitchedHeap
  <2> QED
    BY <2>1, AgedTypes DEF Flags
<1>7. joinValue' \in [Thread -> [Thread -> {"none", "field", "copy"}]]
  <2>1. joinValue' = [joinValue EXCEPT ![w][t] = "field"]
    BY DEF WakeJoiner, SwitchedHeap
  <2> QED
    BY <2>1 DEF TypeOK
<1> QED
  BY <1>4, <1>5, <1>6, <1>7

LEMMA DispatchTypes ==
  ASSUME TypeOK, NEW t \in Thread, Dispatch(t)
  PROVE  /\ heap' \in Heap
         /\ activeFlag' \in [Thread -> Flags]
         /\ currThread' \in Pointer
         /\ running' \in Thread
         /\ sinceRun' \in [Thread -> 0 .. AgeLimit + 1]
<1> DEFINE h == Requeue(AgedHeap, AgedFlag[t], t)
<1>1. h \in Heap
  BY AgedTypes, RequeueHeap
<1>2. Taken(h) \in Heap
  BY <1>1, DequeueHeap, QueueNumbers DEF Taken
<1>3. Next_node(h) \in Pointer
  BY <1>1, QueueNumbers DEF Next_node, Heap
<1>4. heap' = Taken(h) /\ currThread' = Next_node(h)
  BY DEF Dispatch, SwitchedHeap
<1>5. activeFlag' \in [Thread -> Flags]
  <2>1. activeFlag' = [AgedFlag EXCEPT ![t] = FlagAfter(AgedFlag[t])]
    BY DEF Dispatch, SwitchedHeap
  <2>2. FlagAfter(AgedFlag[t]) \in Flags
    BY AgedTypes, FlagAfterFlag
  <2> QED
    BY <2>1, <2>2, AgedTypes
<1>6. running' \in Thread
  BY <1>3 DEF Dispatch, SwitchedHeap, Pointer
<1>7. sinceRun' \in [Thread -> 0 .. AgeLimit + 1]
  BY AgeLimitNat DEF Dispatch, SwitchedHeap, TypeOK
<1> QED
  BY <1>2, <1>3, <1>4, <1>5, <1>6, <1>7

LEMMA PassTypes ==
  ASSUME TypeOK, NEW t \in Thread, Pass(t), UNCHANGED << flag, program_vars >>,
         pc' \in [Thread -> PC]
  PROVE  TypeOK'
<1>1. CASE WakeJoiner(t)
  BY <1>1, WakeJoinerTypes DEF TypeOK, WakeJoiner, program_vars
<1>2. CASE Dispatch(t)
  BY <1>2, DispatchTypes DEF TypeOK, Dispatch, program_vars
<1> QED
  BY <1>1, <1>2 DEF Pass

-----------------------------------------------------------------------------
(* The type invariant. *)

LEMMA PCNames ==
  {"user", "lock_tas", "lock_block", "lock_enqueue", "lock_done", "lock_sched",
   "unlock_clear", "unlock_sched", "yield_sched", "create_sched", "join_wait",
   "join_list", "join_done", "join_sched", "exit_value", "exit_sched",
   "end_dead", "end_done", "end_sched"} \subseteq PC
  BY DEF PC, SchedulerPCs

LEMMA InitTypeOK == Init => TypeOK
<1> SUFFICES ASSUME Init PROVE TypeOK
  OBVIOUS
<1>1. heap \in Heap
  BY InitHeap DEF Init
<1>2. pc \in [Thread -> PC]
  BY PCNames DEF Init
<1>3. joinValue \in [Thread -> [Thread -> {"none", "field", "copy"}]]
  BY DEF Init
<1>4. activeFlag \in [Thread -> Flags] /\ flag \in [Mutex -> {0, 1}]
  BY DEF Init, Flags
<1>5. sinceRun \in [Thread -> 0 .. AgeLimit + 1]
  BY AgeLimitNat DEF Init
<1> QED
  BY <1>1, <1>2, <1>3, <1>4, <1>5, MainIsThread DEF Init, TypeOK, Pointer

LEMMA GotoType ==
  ASSUME TypeOK, NEW t \in Thread, NEW p \in PC, Goto(t, p)
  PROVE  pc' \in [Thread -> PC]
  BY DEF TypeOK, Goto

LEMMA SchedulerTypeOK ==
  ASSUME TypeOK, NEW t \in Thread, CallScheduler(t) \/ Alarm(t) \/ Recurse(t)
  PROVE  TypeOK'
<1>1. CASE CallScheduler(t)
  <2>1. AfterScheduler[pc[t]] \in PC
    BY <1>1, PCNames DEF CallScheduler, AfterScheduler, SchedulerPCs
  <2>2. pc' \in [Thread -> PC]
    BY <1>1, <2>1, GotoType DEF CallScheduler
  <2> QED
    BY <1>1, <2>2, PassTypes DEF CallScheduler
<1>2. CASE Alarm(t)
  BY <1>2, PassTypes DEF Alarm, TypeOK
<1>3. CASE Recurse(t)
  BY <1>3, PassTypes DEF Recurse, TypeOK
<1> QED
  BY <1>1, <1>2, <1>3

LEMMA ThreadTypeOK ==
  ASSUME TypeOK, ArgumentsInv, NEW t \in Thread,
         \/ Yield(t) \/ Exit(t) \/ ExitValue(t) \/ Return(t) \/ ReturnDead(t)
         \/ JoinWait(t) \/ JoinList(t) \/ JoinDone(t)
         \/ \E x \in Thread : Join(t, x)
  PROVE  TypeOK'
<1>1. CASE Yield(t)
  <2>1. pc' \in [Thread -> PC]
    BY <1>1, PCNames, GotoType DEF Yield
  <2> QED
    BY <1>1, <2>1 DEF TypeOK, Yield, Flags, Pointer, scheduling_vars, machine_vars, thread_vars,
           program_vars
<1>2. CASE Exit(t)
  <2>1. pc' \in [Thread -> PC]
    BY <1>2, PCNames, GotoType DEF Exit
  <2> QED
    BY <1>2, <2>1 DEF TypeOK, Exit, Flags, Pointer, scheduling_vars, machine_vars, thread_vars,
           program_vars
<1>3. CASE ExitValue(t)
  <2>1. pc' \in [Thread -> PC]
    BY <1>3, PCNames, GotoType DEF ExitValue
  <2> QED
    BY <1>3, <2>1 DEF TypeOK, ExitValue, Flags, Pointer, scheduling_vars, machine_vars, thread_vars,
           program_vars
<1>4. CASE Return(t)
  <2>1. pc' \in [Thread -> PC]
    BY <1>4, PCNames, GotoType DEF Return
  <2> QED
    BY <1>4, <2>1 DEF TypeOK, Return, Flags, Pointer, scheduling_vars, machine_vars, thread_vars,
           program_vars
<1>5. CASE ReturnDead(t)
  <2>1. pc' \in [Thread -> PC]
    BY <1>5, PCNames, GotoType DEF ReturnDead
  <2> QED
    BY <1>5, <2>1 DEF TypeOK, ReturnDead, Flags, Pointer, scheduling_vars, machine_vars, thread_vars,
           program_vars
<1>6. CASE JoinWait(t)
  <2>1. pc' \in [Thread -> PC]
    BY <1>6, PCNames, GotoType DEF JoinWait
  <2> QED
    BY <1>6, <2>1 DEF TypeOK, JoinWait, Flags, Pointer, scheduling_vars, machine_vars, thread_vars,
           program_vars
<1>7. CASE JoinList(t)
  <2>1. pc' \in [Thread -> PC]
    BY <1>7, PCNames, GotoType DEF JoinList
  <2>2. target[t] \in Thread
    BY <1>7 DEF JoinList, At, Executes, ArgumentsInv, JoinPCs
  <2> QED
    BY <1>7, <2>1, <2>2 DEF TypeOK, JoinList, Flags, Pointer, scheduling_vars, machine_vars, thread_vars,
           program_vars
<1>8. CASE JoinDone(t)
  <2>1. pc' \in [Thread -> PC]
    BY <1>8, PCNames, GotoType DEF JoinDone, Executes
  <2>2. target[t] \in Thread
    BY <1>8 DEF JoinDone, Executes, ArgumentsInv, JoinPCs
  <2> QED
    BY <1>8, <2>1, <2>2 DEF TypeOK, JoinDone, Executes, Flags, Pointer, scheduling_vars, machine_vars, thread_vars,
           program_vars
<1>9. ASSUME NEW x \in Thread, Join(t, x) PROVE TypeOK'
  <2>1. pc' \in [Thread -> PC]
    BY <1>9, PCNames, GotoType DEF Join
  <2>2. joinValue' \in [Thread -> [Thread -> {"none", "field", "copy"}]]
    <3>1. CASE activeFlag[x] = "DEAD"
      <4>1. joinValue' = [joinValue EXCEPT ![t][x] = "copy"]
        BY <1>9, <3>1 DEF Join
      <4> QED
        BY <4>1 DEF TypeOK
    <3>2. CASE activeFlag[x] # "DEAD"
      BY <1>9, <3>2 DEF Join, TypeOK
    <3> QED
      BY <3>1, <3>2
  <2> QED
    BY <1>9, <2>1, <2>2 DEF TypeOK, Join, Flags, Pointer, scheduling_vars, machine_vars, thread_vars,
           program_vars
<1> QED
  BY <1>1, <1>2, <1>3, <1>4, <1>5, <1>6, <1>7, <1>8, <1>9

LEMMA LockTypeOK ==
  ASSUME TypeOK, ArgumentsInv, NEW t \in Thread,
         \/ TestAndSet(t) \/ LockBlock(t) \/ LockEnqueue(t) \/ LockDone(t)
         \/ UnlockClear(t)
         \/ \E m \in Mutex : Lock(t, m) \/ Unlock(t, m)
  PROVE  TypeOK'
<1>1. CASE TestAndSet(t)
  <2>1. pc' \in [Thread -> PC]
    BY <1>1, PCNames, GotoType DEF TestAndSet
  <2> QED
    BY <1>1, <2>1 DEF TypeOK, TestAndSet, Flags, Pointer, scheduling_vars, machine_vars, thread_vars,
           program_vars
<1>2. CASE LockBlock(t)
  <2>1. pc' \in [Thread -> PC]
    BY <1>2, PCNames, GotoType DEF LockBlock
  <2> QED
    BY <1>2, <2>1 DEF TypeOK, LockBlock, Flags, Pointer, scheduling_vars, machine_vars, thread_vars,
           program_vars
<1>3. CASE LockEnqueue(t)
  <2>1. pc' \in [Thread -> PC]
    BY <1>3, PCNames, GotoType DEF LockEnqueue
  <2>2. heap' \in Heap
    BY <1>3, GenEnqueueHeap DEF LockEnqueue, At, Executes, ArgumentsInv, LockPCs, TypeOK
  <2> QED
    BY <1>3, <2>1, <2>2 DEF TypeOK, LockEnqueue, Flags, Pointer, scheduling_vars, machine_vars, thread_vars,
           program_vars
<1>4. CASE LockDone(t)
  <2>1. pc' \in [Thread -> PC]
    BY <1>4, PCNames, GotoType DEF LockDone
  <2>2. mutex[t] \in Mutex
    BY <1>4 DEF LockDone, At, Executes, ArgumentsInv, LockPCs
  <2> QED
    BY <1>4, <2>1, <2>2 DEF TypeOK, LockDone, Flags, Pointer, scheduling_vars, machine_vars, thread_vars,
           program_vars
<1>5. CASE UnlockClear(t)
  <2>1. pc' \in [Thread -> PC]
    BY <1>5, PCNames, GotoType DEF UnlockClear
  <2> QED
    BY <1>5, <2>1 DEF TypeOK, UnlockClear, Flags, Pointer, scheduling_vars, machine_vars, thread_vars,
           program_vars
<1>6. ASSUME NEW m \in Mutex, Lock(t, m) PROVE TypeOK'
  <2>1. pc' \in [Thread -> PC]
    BY <1>6, PCNames, GotoType DEF Lock
  <2> QED
    BY <1>6, <2>1 DEF TypeOK, Lock, Flags, Pointer, scheduling_vars, machine_vars, thread_vars,
           program_vars
<1>7. ASSUME NEW m \in Mutex, Unlock(t, m) PROVE TypeOK'
  <2>1. pc' \in [Thread -> PC]
    BY <1>7, PCNames, GotoType DEF Unlock
  <2>2. heap' \in Heap /\ activeFlag' \in [Thread -> Flags]
    <3>1. CASE heap.wait[m].front = NULL
      BY <1>7, <3>1 DEF Unlock, TypeOK
    <3>2. CASE heap.wait[m].front # NULL
      <4>1. heap.wait[m].front \in Thread
        BY <3>2 DEF TypeOK, Heap, Pointer
      <4>2. gen_dequeue(heap, m) \in Heap
        BY <3>2, GenDequeueHeap DEF TypeOK
      <4>3. heap' = enqueue(gen_dequeue(heap, m), heap.wait[m].front, Running)
        BY <1>7, <3>2 DEF Unlock
      <4>4. activeFlag' = [activeFlag EXCEPT ![heap.wait[m].front] = "ACTIVE"]
        BY <1>7, <3>2 DEF Unlock
      <4>5. heap' \in Heap
        BY <4>1, <4>2, <4>3, EnqueueHeap, QueueNumbers
      <4>6. activeFlag' \in [Thread -> Flags]
        BY <4>1, <4>4 DEF TypeOK, Flags
      <4> QED
        BY <4>5, <4>6
    <3> QED
      BY <3>1, <3>2
  <2> QED
    BY <1>7, <2>1, <2>2 DEF TypeOK, Unlock, Flags, Pointer, scheduling_vars, machine_vars, thread_vars,
           program_vars
<1> QED
  BY <1>1, <1>2, <1>3, <1>4, <1>5, <1>6, <1>7

LEMMA EnqueueFront ==
  ASSUME NEW h \in Heap, NEW t \in Thread, NEW q \in Queue
  PROVE  enqueue(h, t, q) \in Heap /\ enqueue(h, t, q).front[q] \in Thread
<1>1. enqueue(h, t, q) \in Heap
  BY EnqueueHeap
<1>2. CASE h.front[q] = NULL
  BY <1>1, <1>2, EnqueueEmpty
<1>3. CASE h.front[q] # NULL
  <2>1. h.front[q] \in Thread
    BY <1>3 DEF Heap, Pointer
  <2> QED
    BY <1>1, <1>3, <2>1, EnqueueBehind
<1> QED
  BY <1>1, <1>2, <1>3

LEMMA StartFirstTypes ==
  ASSUME NEW h \in Heap, h.front[Running] \in Thread, StartFirst(h)
  PROVE  heap' \in Heap /\ currThread' \in Thread /\ running' \in Thread
<1>1. h.front[Running] # NULL
  BY NullIsNoThread
<1>2. dequeue(h, Running) \in Heap
  BY <1>1, DequeueHeap, QueueNumbers
<1>3. Rotated(h) \in Heap /\ Rotated(h).front[Running] \in Thread
  BY <1>2, EnqueueFront, QueueNumbers DEF Rotated
<1>4. dequeue(Rotated(h), Running) \in Heap
  BY <1>3, NullIsNoThread, DequeueHeap, QueueNumbers
<1> QED
  BY <1>3, <1>4 DEF StartFirst

LEMMA CreateTypeOK ==
  ASSUME TypeOK, NEW x \in Thread, FirstCreate(x) \/ Create(x) \/ OrphanCreate(x)
  PROVE  TypeOK'
<1>1. CASE FirstCreate(x)
  <2> DEFINE g == enqueue(initQueue, Main, Running)
  <2>1. g \in Heap
    BY InitHeap, EnqueueFront, MainIsThread, QueueNumbers
  <2>2. enqueue(g, x, Running) \in Heap /\ enqueue(g, x, Running).front[Running] \in Thread
    BY <2>1, EnqueueFront, QueueNumbers
  <2>3. heap' \in Heap /\ currThread' \in Thread /\ running' \in Thread
    BY <1>1, <2>2, StartFirstTypes DEF FirstCreate
  <2>4. activeFlag' \in [Thread -> Flags]
    BY <1>1 DEF FirstCreate, TypeOK, Flags
  <2> QED
    BY <1>1, <2>3, <2>4 DEF FirstCreate, TypeOK, Pointer, thread_vars, program_vars
<1>3. CASE OrphanCreate(x)
  <2>1. enqueue(heap, x, Running) \in Heap /\ enqueue(heap, x, Running).front[Running] \in Thread
    BY EnqueueFront, QueueNumbers DEF TypeOK
  <2>2. heap' \in Heap /\ currThread' \in Thread /\ running' \in Thread
    BY <1>3, <2>1, StartFirstTypes DEF OrphanCreate
  <2>3. activeFlag' \in [Thread -> Flags]
    BY <1>3 DEF OrphanCreate, TypeOK, Flags
  <2> QED
    BY <1>3, <2>2, <2>3 DEF OrphanCreate, TypeOK, Pointer, thread_vars, program_vars
<1>2. CASE Create(x)
  <2>1. pc' \in [Thread -> PC]
    BY <1>2, PCNames, GotoType, MainIsThread DEF Create
  <2>2. heap' \in Heap
    BY <1>2, EnqueueHeap, QueueNumbers DEF Create, TypeOK
  <2>3. activeFlag' \in [Thread -> Flags]
    BY <1>2 DEF Create, TypeOK, Flags
  <2> QED
    BY <1>2, <2>1, <2>2, <2>3 DEF Create, TypeOK, scheduling_vars, machine_vars,
       thread_vars, program_vars
<1> QED
  BY <1>1, <1>2, <1>3

LEMMA MachineTypeOK ==
  ASSUME TypeOK,
         \/ Tick \/ MainReturns \/ UNCHANGED vars
         \/ \E t \in Thread : LastContextEnds(t) \/ NullDereference(t) \/ Hang(t)
  PROVE  TypeOK'
<1>1. CASE Tick
  <2>1. sinceRun' \in [Thread -> 0 .. AgeLimit + 1]
    <3>1. sinceRun \in [Thread -> 0 .. AgeLimit + 1]
      BY DEF TypeOK
    <3>2. CASE \E t \in Strays : sinceRun' = [sinceRun EXCEPT ![t] = AgeLimit + 1]
      <4>1. AgeLimit + 1 \in 0 .. AgeLimit + 1
        BY AgeLimitNat
      <4> QED
        BY <3>1, <3>2, <4>1
    <3>3. CASE sinceRun' = [t \in Thread |->
                             IF GetsOlder(t) THEN sinceRun[t] + 1 ELSE sinceRun[t]]
      BY <3>1, <3>3, AgeLimitNat DEF GetsOlder
    <3> QED
      BY <1>1, <3>2, <3>3 DEF Tick
  <2> QED
    BY <1>1, <2>1 DEF Tick, TypeOK, machine_vars, thread_vars, program_vars
<1>2. CASE MainReturns
  BY <1>2 DEF MainReturns, TypeOK, thread_vars, program_vars
<1>3. ASSUME NEW t \in Thread, LastContextEnds(t) \/ NullDereference(t) \/ Hang(t)
      PROVE  TypeOK'
  BY <1>3 DEF LastContextEnds, NullDereference, Hang, TypeOK, thread_vars, program_vars
<1>4. CASE UNCHANGED vars
  BY <1>4 DEF vars, TypeOK
<1> QED
  BY <1>1, <1>2, <1>3, <1>4

LEMMA NextTypeOK ==
  ASSUME TypeOK, ArgumentsInv, [Next]_vars
  PROVE  TypeOK'
<1>1. ASSUME NEW t \in Thread, Library(t) PROVE TypeOK'
  BY <1>1, SchedulerTypeOK, ThreadTypeOK, LockTypeOK DEF Library
<1>2. ASSUME NEW t \in Thread, Program(t) PROVE TypeOK'
  BY <1>2, ThreadTypeOK, LockTypeOK DEF Program
<1>3. ASSUME NEW t \in Thread, Alarm(t) PROVE TypeOK'
  BY <1>3, SchedulerTypeOK
<1>4. ASSUME NEW x \in Thread, FirstCreate(x) \/ Create(x) \/ OrphanCreate(x)
      PROVE  TypeOK'
  BY <1>4, CreateTypeOK
<1>5. CASE \/ Tick \/ MainReturns \/ Gone \/ UNCHANGED vars
           \/ \E t \in Thread : LastContextEnds(t) \/ NullDereference(t) \/ Hang(t)
  BY <1>5, MachineTypeOK DEF Gone
<1> QED
  BY <1>1, <1>2, <1>3, <1>4, <1>5 DEF Next

-----------------------------------------------------------------------------
(* The arguments of the calls under way, and the locks. *)

ArgsAndLocks == ArgumentsInv /\ LockInv

LEMMA InitArgsAndLocks == Init => ArgsAndLocks
  BY DEF Init, ArgsAndLocks, ArgumentsInv, LockInv, MutualExclusion, InCritical,
         LockPCs, JoinPCs

\* A step to a point that is neither past a test-and-set nor before the
\* clearing of a flag, with the arguments it needs.
LEMMA GotoKeeps ==
  ASSUME Inv, NEW t \in Thread, NEW p, Goto(t, p),
         UNCHANGED << flag, mutex, held, target >>,
         p \notin {"lock_done", "unlock_clear"},
         p \in LockPCs => mutex[t] \in Mutex,
         p \in JoinPCs => target[t] \in Thread
  PROVE  ArgsAndLocks'
<1>1. \A u \in Thread : pc'[u] = IF u = t THEN p ELSE pc[u]
  BY DEF Goto, Inv, TypeOK
<1>2. ArgumentsInv'
  BY <1>1 DEF Inv, ArgumentsInv
<1>3. \A m \in Mutex : \A u \in Thread : InCritical(u, m)' => InCritical(u, m)
  BY <1>1 DEF InCritical
<1>4. LockInv'
  BY <1>1, <1>3 DEF Inv, LockInv, MutualExclusion
<1> QED
  BY <1>2, <1>4 DEF ArgsAndLocks

LEMMA UnchangedKeeps ==
  ASSUME Inv, UNCHANGED << flag, pc, mutex, held, target >>
  PROVE  ArgsAndLocks'
  BY DEF Inv, ArgsAndLocks, ArgumentsInv, LockInv, MutualExclusion, InCritical

LEMMA SchedulerKeeps ==
  ASSUME Inv, NEW t \in Thread, CallScheduler(t) \/ Alarm(t) \/ Recurse(t)
  PROVE  ArgsAndLocks'
<1>1. CASE CallScheduler(t)
  <2> DEFINE p == AfterScheduler[pc[t]]
  <2>1. /\ p \notin {"lock_done", "unlock_clear"}
        /\ p \in LockPCs => pc[t] \in LockPCs
        /\ p \in JoinPCs => pc[t] \in JoinPCs
    BY <1>1 DEF CallScheduler, SchedulerPCs, AfterScheduler, LockPCs, JoinPCs
  <2>2. Goto(t, p) /\ UNCHANGED << flag, mutex, held, target >>
    BY <1>1 DEF CallScheduler, program_vars
  <2>3. ArgumentsInv
    BY DEF Inv
  <2> QED
    BY <2>1, <2>2, <2>3, GotoKeeps DEF ArgumentsInv
<1>2. CASE Alarm(t) \/ Recurse(t)
  BY <1>2, UnchangedKeeps DEF Alarm, Recurse, program_vars
<1> QED
  BY <1>1, <1>2

LEMMA ThreadKeeps ==
  ASSUME Inv, NEW t \in Thread,
         \/ Yield(t) \/ Exit(t) \/ ExitValue(t) \/ Return(t) \/ ReturnDead(t)
         \/ JoinWait(t) \/ JoinList(t)
  PROVE  ArgsAndLocks'
<1>1. CASE \/ Yield(t) \/ Exit(t) \/ ExitValue(t) \/ Return(t) \/ ReturnDead(t)
  BY <1>1, GotoKeeps DEF Yield, Exit, ExitValue, Return, ReturnDead, program_vars,
     LockPCs, JoinPCs
<1>2. CASE JoinWait(t) \/ JoinList(t)
  <2>1. target[t] \in Thread
    BY <1>2 DEF JoinWait, JoinList, At, Executes, Inv, ArgumentsInv, JoinPCs
  <2> QED
    BY <1>2, <2>1, GotoKeeps DEF JoinWait, JoinList, program_vars, LockPCs
<1> QED
  BY <1>1, <1>2

LEMMA JoinKeeps ==
  ASSUME Inv, NEW t \in Thread, JoinDone(t) \/ \E x \in Thread : Join(t, x)
  PROVE  ArgsAndLocks'
<1>1. PICK p \in PC, x \in Pointer :
        /\ Goto(t, p) /\ target' = [target EXCEPT ![t] = x]
        /\ UNCHANGED << flag, mutex, held >>
        /\ \/ p \in {"join_sched", "join_wait"} /\ x \in Thread
           \/ p = "user"
  BY PCNames DEF JoinDone, Executes, Join, Pointer
<1>2. \A u \in Thread : /\ pc'[u] = IF u = t THEN p ELSE pc[u]
                        /\ target'[u] = IF u = t THEN x ELSE target[u]
  BY <1>1 DEF Goto, Inv, TypeOK
<1>3. ArgumentsInv'
  BY <1>1, <1>2 DEF Inv, ArgumentsInv, LockPCs, JoinPCs
<1>4. \A m \in Mutex : \A u \in Thread : InCritical(u, m)' => InCritical(u, m)
  BY <1>1, <1>2 DEF InCritical
<1>5. LockInv'
  BY <1>1, <1>2, <1>4 DEF Inv, LockInv, MutualExclusion
<1> QED
  BY <1>3, <1>5 DEF ArgsAndLocks

LEMMA LockKeeps ==
  ASSUME Inv, NEW t \in Thread,
         LockBlock(t) \/ LockEnqueue(t) \/ \E m \in Mutex : Lock(t, m)
  PROVE  ArgsAndLocks'
<1>1. CASE LockBlock(t) \/ LockEnqueue(t)
  <2>1. mutex[t] \in Mutex
    BY <1>1 DEF LockBlock, LockEnqueue, At, Executes, Inv, ArgumentsInv, LockPCs
  <2> QED
    BY <1>1, <2>1, GotoKeeps DEF LockBlock, LockEnqueue, program_vars, JoinPCs
<1>2. ASSUME NEW m \in Mutex, Lock(t, m) PROVE ArgsAndLocks'
  <2>1. \A u \in Thread : /\ pc'[u] = IF u = t THEN "lock_tas" ELSE pc[u]
                          /\ mutex'[u] = IF u = t THEN m ELSE mutex[u]
    BY <1>2 DEF Lock, Goto, Inv, TypeOK
  <2>2. UNCHANGED << flag, held, target >>
    BY <1>2 DEF Lock
  <2>3. ArgumentsInv'
    BY <2>1, <2>2 DEF Inv, ArgumentsInv, LockPCs, JoinPCs
  <2>4. \A n \in Mutex : \A u \in Thread : InCritical(u, n)' => InCritical(u, n)
    BY <2>1, <2>2 DEF InCritical
  <2>5. LockInv'
    BY <2>1, <2>2, <2>4 DEF Inv, LockInv, MutualExclusion
  <2> QED
    BY <2>3, <2>5 DEF ArgsAndLocks
<1> QED
  BY <1>1, <1>2

\* The test-and-set lets t past only if nobody is in the critical section.
LEMMA TestAndSetKeeps ==
  ASSUME Inv, NEW t \in Thread, TestAndSet(t)
  PROVE  ArgsAndLocks'
<1> DEFINE m == mutex[t]
           p == IF flag[m] = 1 THEN "lock_block" ELSE "lock_done"
<1>1. m \in Mutex
  BY DEF TestAndSet, At, Executes, Inv, ArgumentsInv, LockPCs
<1>2. \A u \in Thread : pc'[u] = IF u = t THEN p ELSE pc[u]
  BY DEF TestAndSet, Goto, Inv, TypeOK
<1>3. \A n \in Mutex : flag'[n] = IF n = m THEN 1 ELSE flag[n]
  BY DEF TestAndSet, Inv, TypeOK
<1>4. UNCHANGED << mutex, held, target >>
  BY DEF TestAndSet, program_vars
<1>5. ArgumentsInv'
  BY <1>1, <1>2, <1>4 DEF Inv, ArgumentsInv, LockPCs, JoinPCs
<1>6. \A n \in Mutex : \A u \in Thread :
        InCritical(u, n)' => InCritical(u, n) \/ (u = t /\ n = m /\ flag[m] # 1)
  BY <1>2, <1>4 DEF InCritical
<1>7. LockInv'
  BY <1>1, <1>2, <1>3, <1>4, <1>6 DEF Inv, LockInv, MutualExclusion
<1> QED
  BY <1>5, <1>7 DEF ArgsAndLocks

LEMMA LockDoneKeeps ==
  ASSUME Inv, NEW t \in Thread, LockDone(t)
  PROVE  ArgsAndLocks'
<1> DEFINE m == mutex[t]
<1>1. m \in Mutex /\ InCritical(t, m)
  BY DEF LockDone, At, Executes, Inv, ArgumentsInv, LockPCs, InCritical
<1>2. \A u \in Thread : /\ pc'[u] = IF u = t THEN "user" ELSE pc[u]
                        /\ mutex'[u] = IF u = t THEN NULL ELSE mutex[u]
                        /\ held'[u] = IF u = t THEN held[t] \cup {m} ELSE held[u]
  BY DEF LockDone, Goto, Inv, TypeOK
<1>3. \A n \in Mutex : flag'[n] = IF n = m THEN 1 ELSE flag[n]
  BY DEF LockDone, Inv, TypeOK
<1>4. UNCHANGED target
  BY DEF LockDone
<1>5. ArgumentsInv'
  BY <1>2, <1>4 DEF Inv, ArgumentsInv, LockPCs, JoinPCs
<1>6. \A n \in Mutex : \A u \in Thread : InCritical(u, n)' => InCritical(u, n)
  BY <1>1, <1>2 DEF InCritical
<1>7. LockInv'
  BY <1>2, <1>3, <1>6 DEF Inv, LockInv, MutualExclusion
<1> QED
  BY <1>5, <1>7 DEF ArgsAndLocks

LEMMA UnlockKeeps ==
  ASSUME Inv, NEW t \in Thread, NEW m \in Mutex, Unlock(t, m)
  PROVE  ArgsAndLocks'
<1>1. \A u \in Thread : /\ pc'[u] = IF u = t THEN "unlock_clear" ELSE pc[u]
                        /\ mutex'[u] = IF u = t THEN m ELSE mutex[u]
  BY DEF Unlock, Goto, Inv, TypeOK
<1>2. UNCHANGED << flag, held, target >> /\ m \in held[t]
  BY DEF Unlock
<1>3. ArgumentsInv'
  BY <1>1, <1>2 DEF Inv, ArgumentsInv, LockPCs, JoinPCs
<1>4. \A n \in Mutex : \A u \in Thread : InCritical(u, n)' => InCritical(u, n)
  BY <1>1, <1>2 DEF InCritical
<1>5. LockInv'
  BY <1>1, <1>2, <1>4 DEF Inv, LockInv, MutualExclusion
<1> QED
  BY <1>3, <1>5 DEF ArgsAndLocks

\* The flag cleared is that of a mutex t held, so nobody else is inside.
LEMMA UnlockClearKeeps ==
  ASSUME Inv, NEW t \in Thread, UnlockClear(t)
  PROVE  ArgsAndLocks'
<1> DEFINE m == mutex[t]
<1>1. m \in held[t] /\ m \in Mutex
  BY DEF UnlockClear, At, Executes, Inv, LockInv, TypeOK
<1>2. \A u \in Thread :
        /\ pc'[u] = IF u = t THEN "unlock_sched" ELSE pc[u]
        /\ mutex'[u] = IF u = t THEN NULL ELSE mutex[u]
        /\ held'[u] = IF u = t THEN held[t] \ {m} ELSE held[u]
  BY DEF UnlockClear, Goto, Inv, TypeOK
<1>3. \A n \in Mutex : flag'[n] = IF n = m THEN 0 ELSE flag[n]
  BY <1>1 DEF UnlockClear, Inv, TypeOK
<1>4. UNCHANGED target
  BY DEF UnlockClear
<1>5. ArgumentsInv'
  BY <1>2, <1>4 DEF Inv, ArgumentsInv, LockPCs, JoinPCs
<1>6. \A n \in Mutex : \A u \in Thread :
        InCritical(u, n)' => InCritical(u, n) /\ (u = t => n # m)
  BY <1>2 DEF InCritical
<1>7. \A u \in Thread : InCritical(u, m) => u = t
  BY <1>1 DEF Inv, LockInv, MutualExclusion, InCritical
<1>8. LockInv'
  BY <1>2, <1>3, <1>6, <1>7 DEF Inv, LockInv, MutualExclusion
<1> QED
  BY <1>5, <1>8 DEF ArgsAndLocks

LEMMA NextArgsAndLocks ==
  ASSUME Inv, [Next]_vars
  PROVE  ArgsAndLocks'
<1>1. ASSUME NEW t \in Thread, Library(t) PROVE ArgsAndLocks'
  BY <1>1, SchedulerKeeps, ThreadKeeps, JoinKeeps, LockKeeps, TestAndSetKeeps,
     LockDoneKeeps, UnlockClearKeeps DEF Library
<1>2. ASSUME NEW t \in Thread, Program(t) PROVE ArgsAndLocks'
  BY <1>2, ThreadKeeps, JoinKeeps, LockKeeps, UnlockKeeps DEF Program
<1>3. ASSUME NEW t \in Thread, Alarm(t) PROVE ArgsAndLocks'
  BY <1>3, SchedulerKeeps
<1>4. ASSUME NEW x \in Thread, FirstCreate(x) \/ OrphanCreate(x) PROVE ArgsAndLocks'
  BY <1>4, UnchangedKeeps DEF FirstCreate, OrphanCreate, program_vars
<1>5. ASSUME NEW x \in Thread, Create(x) PROVE ArgsAndLocks'
  BY <1>5, GotoKeeps, MainIsThread DEF Create, program_vars, LockPCs, JoinPCs
<1>6. CASE Tick \/ MainReturns \/ Gone \/ UNCHANGED vars
  BY <1>6, UnchangedKeeps DEF Tick, MainReturns, Gone, vars, program_vars
<1>7. ASSUME NEW t \in Thread, LastContextEnds(t) \/ NullDereference(t) \/ Hang(t)
      PROVE  ArgsAndLocks'
  BY <1>7, UnchangedKeeps DEF LastContextEnds, NullDereference, Hang, program_vars
<1> QED
  BY <1>1, <1>2, <1>3, <1>4, <1>5, <1>6, <1>7 DEF Next

-----------------------------------------------------------------------------

\* The inductive invariant of the library: types, arguments and locks.
THEOREM Invariance == Spec => []Inv
<1>1. Init => Inv
  BY InitTypeOK, InitArgsAndLocks DEF Inv, ArgsAndLocks
<1>2. Inv /\ [Next]_vars => Inv'
  BY NextTypeOK, NextArgsAndLocks DEF Inv, ArgsAndLocks
<1> QED
  BY <1>1, <1>2, PTL DEF Spec

\* Every field of every thread, queue and mutex keeps its type: whatever the
\* alarm interrupts, the lists link threads only.
THEOREM TypeCorrect == Spec => []TypeOK
<1>1. Inv => TypeOK
  BY DEF Inv
<1> QED
  BY <1>1, Invariance, PTL

\* Two threads are never both past my_pthread_mutex_lock on one mutex, however
\* many threads and mutexes there are and wherever the alarm strikes.
THEOREM Exclusion == Spec => []MutualExclusion
<1>1. Inv => MutualExclusion
  BY DEF Inv, LockInv
<1> QED
  BY <1>1, Invariance, PTL

-----------------------------------------------------------------------------
(* A pass of scheduler(), list by list. *)

PlacedBy(c, f, mx) ==
  \A l \in List : \A k \in 1 .. Len(c[l]) : HomeBy(f[c[l][k]], mx[c[l][k]]) = l

\* Queues 0 to 3 have lists, all different.
LEMMA FrontAndRear ==
  /\ OfQueue(Running) \in List /\ OfQueue(Low) \in List
  /\ OfQueue(Waiting) \in List /\ OfQueue(Dead) \in List
  /\ OfQueue(Running) # OfQueue(Low) /\ OfQueue(Running) # OfQueue(Waiting)
  /\ OfQueue(Running) # OfQueue(Dead) /\ OfQueue(Low) # OfQueue(Waiting)
  /\ OfQueue(Low) # OfQueue(Dead) /\ OfQueue(Waiting) # OfQueue(Dead)
<1>1. Running # Low /\ Running # Waiting /\ Running # Dead /\ Low # Waiting /\ Low # Dead
      /\ Waiting # Dead
  BY DEF Running, Low, Waiting, Dead
<1> QED
  BY <1>1, ListNames, QueueNumbers

\* The list a flag means.
LEMMA HomeIs ==
  ASSUME NEW f, NEW m
  PROVE  /\ HomeBy(f, m) = OfQueue(Running) <=> f = "ACTIVE"
         /\ HomeBy(f, m) = OfQueue(Low) <=> f = "RUNNABLE"
         /\ HomeBy(f, m) = OfQueue(Waiting) <=> f = "WAITING"
         /\ HomeBy(f, m) = OfQueue(Dead) <=> f = "DEAD"
         /\ \A n : HomeBy(f, m) = OfMutex(n) <=> f = "BLOCKING" /\ m = n
         /\ f \in {"NONE", "YIELD"} => HomeBy(f, m) \notin List
<1>1. << "none", NULL >> \notin List
  BY DEF List, OfQueue, OfMutex
<1>2. CASE f = "ACTIVE"
  BY <1>2, FrontAndRear, ListNames DEF HomeBy, OfQueue, OfMutex
<1>3. CASE f = "RUNNABLE"
  BY <1>3, FrontAndRear, ListNames DEF HomeBy, OfQueue, OfMutex
<1>4. CASE f = "WAITING"
  BY <1>4, FrontAndRear, ListNames DEF HomeBy, OfQueue, OfMutex
<1>5. CASE f = "DEAD"
  BY <1>5, FrontAndRear, ListNames DEF HomeBy, OfQueue, OfMutex
<1>6. CASE f = "BLOCKING"
  BY <1>6, FrontAndRear, ListNames DEF HomeBy, OfQueue, OfMutex
<1>7. CASE f \notin {"ACTIVE", "RUNNABLE", "WAITING", "DEAD", "BLOCKING"}
  <2>1. HomeBy(f, m) = << "none", NULL >>
    BY <1>7 DEF HomeBy
  <2> QED
    BY <1>1, <1>7, <2>1 DEF OfQueue, OfMutex
<1> QED
  BY <1>2, <1>3, <1>4, <1>5, <1>6, <1>7

\* A thread among the lists is in the one its flag means, ...
LEMMA AmongHome ==
  ASSUME NEW c, NEW f, NEW mx, PlacedBy(c, f, mx), NEW u, Among(c, u)
  PROVE  HomeBy(f[u], mx[u]) \in List /\ In(c[HomeBy(f[u], mx[u])], u)
<1>1. PICK l \in List : In(c[l], u)
  BY DEF Among
<1>2. PICK k \in 1 .. Len(c[l]) : c[l][k] = u
  BY <1>1 DEF In
<1>3. HomeBy(f[c[l][k]], mx[c[l][k]]) = l
  BY DEF PlacedBy
<1> QED
  BY <1>1, <1>2, <1>3

\* ... and the flag of who is in a list is that of the list.
LEMMA InHome ==
  ASSUME NEW c, NEW f, NEW mx, PlacedBy(c, f, mx), NEW l \in List, NEW u, In(c[l], u)
  PROVE  HomeBy(f[u], mx[u]) = l
  BY DEF PlacedBy, In

\* rear stays right when the head is taken off.
LEMMA RearTail ==
  ASSUME NEW h, NEW q, NEW T, NEW x \in Seq(T), x # << >>, RearIs(h, q, x)
  PROVE  RearIs(h, q, Tail(x))
<1> SUFFICES ASSUME Tail(x) # << >> PROVE h.rear[q] = Tail(x)[Len(Tail(x))]
  BY DEF RearIs
<1> DEFINE y == Tail(x)
<1>1. y \in Seq(T) /\ Len(y) = Len(x) - 1 /\ \A k \in 1 .. Len(x) - 1 : y[k] = x[k + 1]
  BY TailIs
<1>2. Len(x) \in Nat
  BY SeqIs
<1>3. y # << >>
  OBVIOUS
<1> HIDE DEF y
<1>4. Len(y) \in 1 .. Len(y) /\ Len(y) + 1 = Len(x)
  BY <1>1, <1>2, <1>3, SeqIs
<1>5. y[Len(y)] = x[Len(y) + 1]
  BY <1>1, <1>4
<1> QED
  BY <1>4, <1>5 DEF RearIs, y

\* Queue 1 stays sorted by age when its head is taken off, ...
LEMMA SortedTail ==
  ASSUME NEW x \in Seq(Thread), x # << >>, NEW since, Sorted(x, since)
  PROVE  Sorted(Tail(x), since)
<1> DEFINE y == Tail(x)
<1>1. y \in Seq(Thread) /\ Len(y) = Len(x) - 1 /\ \A k \in 1 .. Len(x) - 1 : y[k] = x[k + 1]
  BY TailIs
<1>2. Len(x) \in Nat
  BY SeqIs
<1> HIDE DEF y
<1>3. ASSUME NEW j \in 1 .. Len(y), NEW k \in 1 .. Len(y), j < k PROVE since[y[j]] >= since[y[k]]
  <2>1. /\ j \in 1 .. Len(x) - 1 /\ k \in 1 .. Len(x) - 1
        /\ j + 1 \in 1 .. Len(x) /\ k + 1 \in 1 .. Len(x) /\ j + 1 < k + 1
    BY <1>1, <1>2, <1>3
  <2>2. since[x[j + 1]] >= since[x[k + 1]]
    BY <2>1 DEF Sorted
  <2> QED
    BY <1>1, <2>1, <2>2
<1>4. Sorted(y, since)
  BY <1>3 DEF Sorted
<1> QED
  BY <1>4 DEF y

\* A thread that is switched out has waited for no time, and goes last.
LEMMA SortedAppend ==
  ASSUME NEW x \in Seq(Thread), NEW since \in [Thread -> Nat], Sorted(x, since),
         NEW t \in Thread, ~ In(x, t)
  PROVE  Sorted(Append(x, t), [since EXCEPT ![t] = 0])
<1> DEFINE y == Append(x, t)
           s == [since EXCEPT ![t] = 0]
<1>1. Len(x) \in Nat /\ x \in [1 .. Len(x) -> Thread]
  BY SeqIs
<1>2. Len(y) = Len(x) + 1 /\ y[Len(x) + 1] = t /\ \A k \in 1 .. Len(x) : y[k] = x[k]
  BY AppendIs
<1>3. s[t] = 0 /\ s \in [Thread -> Nat] /\ \A u \in Thread : u # t => s[u] = since[u]
  OBVIOUS
<1> HIDE DEF y, s
<1>4. ASSUME NEW k \in 1 .. Len(x) PROVE x[k] \in Thread /\ s[x[k]] = since[x[k]] /\ s[x[k]] \in Nat
  <2>1. x[k] \in Thread /\ x[k] # t
    BY <1>1 DEF In
  <2> QED
    BY <1>3, <2>1
<1>5. ASSUME NEW j \in 1 .. Len(y), NEW k \in 1 .. Len(y), j < k PROVE s[y[j]] >= s[y[k]]
  <2>1. j \in 1 .. Len(x) /\ (k \in 1 .. Len(x) \/ k = Len(x) + 1)
    BY <1>1, <1>2, <1>5
  <2>2. CASE k \in 1 .. Len(x)
    <3>1. since[x[j]] >= since[x[k]]
      BY <1>5, <2>1, <2>2 DEF Sorted
    <3> QED
      BY <1>2, <1>4, <2>1, <2>2, <3>1
  <2>3. CASE k = Len(x) + 1
    <3>1. s[y[k]] = 0 /\ y[j] = x[j] /\ s[x[j]] \in Nat
      BY <1>2, <1>3, <1>4, <2>1, <2>3
    <3> QED
      BY <3>1
  <2> QED
    BY <2>1, <2>2, <2>3
<1>6. Sorted(y, s)
  BY <1>5 DEF Sorted
<1> QED
  BY <1>6 DEF y, s

\* Ages that did not change leave it sorted.
LEMMA SortedSame ==
  ASSUME NEW x \in Seq(Thread), NEW since, Sorted(x, since), NEW s,
         \A u \in Thread : In(x, u) => s[u] = since[u]
  PROVE  Sorted(x, s)
<1>1. \A k \in 1 .. Len(x) : s[x[k]] = since[x[k]]
  BY SeqIs DEF In
<1> QED
  BY <1>1 DEF Sorted

-----------------------------------------------------------------------------
\* The thread that aging promotes is the head of queue 1, if there is one.
LEMMA PromotedIs ==
  ASSUME TypeOK, NEW c, Chained(heap, c), NEW x, x = c[OfQueue(Low)], Sorted(x, sinceRun)
  PROVE  /\ Promotes => /\ x # << >> /\ ~ Young(x, sinceRun)
                        /\ Promoted = x[1] /\ FirstAfter(Walk(heap, Low), Aged) = NULL
         /\ ~ Promotes => Young(x, sinceRun)
<1> DEFINE w == Walk(heap, Low)
           n == Cardinality(Thread)
<1>1. heap \in Heap /\ QueueHolds(heap, Low, x) /\ x \in Seq(Thread) /\ NoneTwice(x)
  BY ChainedIs, QueueNumbers, ListNames, OnceEach
<1>2. /\ w \in [0 .. n -> Pointer] /\ n \in Nat /\ Len(x) \in 0 .. n
      /\ \A k \in 0 .. n : w[k] = IF k < Len(x) THEN x[k + 1] ELSE NULL
  BY <1>1, QueueNumbers, WalkMeets
<1>3. x \in [1 .. Len(x) -> Thread] /\ (x = << >> <=> Len(x) = 0) /\ Aged \subseteq Thread
  BY <1>1, SeqIs DEF Aged
<1> HIDE DEF w, n
<1>4. \A u \in Thread : sinceRun[u] \in Int /\ (u \in Aged <=> sinceRun[u] > AgeLimit)
  BY AgeLimitNat DEF TypeOK, Aged
<1>5. ASSUME Promotes
      PROVE  /\ x # << >> /\ ~ Young(x, sinceRun)
             /\ Promoted = x[1] /\ FirstAfter(w, Aged) = NULL
  <2>1. PICK k \in 0 .. n : w[k] \in Aged
    <3>1. Meets(w, Aged)
      BY <1>5 DEF Promotes, w
    <3>2. PICK k \in DOMAIN w : IsFirst(w, Aged, k)
      BY <3>1 DEF Meets
    <3> QED
      BY <1>2, <3>2 DEF IsFirst
  <2>2. k < Len(x) /\ x[k + 1] \in Aged
    BY <1>2, <1>3, <2>1, NullIsNoThread
  <2>3. k + 1 \in 1 .. Len(x) /\ 1 \in 1 .. Len(x) /\ 0 \in 0 .. n /\ 0 < Len(x)
    BY <1>2, <2>2
  <2>4. x[1] \in Thread /\ x[k + 1] \in Thread
    BY <1>3, <2>3
  <2>5. sinceRun[x[1]] >= sinceRun[x[k + 1]]
    <3>1. CASE k = 0
      BY <1>4, <2>4, <3>1
    <3>2. CASE k # 0
      <4>1. 1 < k + 1
        BY <3>2
      <4> QED
        BY <2>3, <4>1 DEF Sorted
    <3> QED
      BY <3>1, <3>2
  <2>6. x[1] \in Aged
    BY <1>4, <2>2, <2>4, <2>5, AgeLimitNat
  <2>7. w[0] = x[1]
    <3>1. w[0] = x[0 + 1]
      BY <1>2, <2>3
    <3> QED
      BY <3>1
  <2>8. FirstAt(w, Aged) = 0
    <3>1. DOMAIN w = 0 .. n /\ w[0] \in Aged /\ \A j \in 0 .. 0 - 1 : w[j] \notin Aged
      BY <1>2, <2>6, <2>7
    <3> QED
      BY <1>2, <2>3, <3>1, FirstAtIs
  <2>9. FirstAfter(w, Aged) = NULL
    BY <2>8 DEF FirstAfter
  <2>10. Promoted = x[1]
    BY <2>7, <2>8 DEF Promoted, FirstIn, w
  <2>11. ~ Young(x, sinceRun)
    BY <1>4, <2>3, <2>4, <2>6, AgeLimitNat DEF Young
  <2> QED
    BY <2>9, <2>10, <2>11, <2>3, <1>3
<1>6. ASSUME ~ Promotes PROVE Young(x, sinceRun)
  <2> SUFFICES ASSUME NEW k \in 1 .. Len(x), ~ (sinceRun[x[k]] <= AgeLimit) PROVE FALSE
    BY DEF Young
  <2>1. x[k] \in Thread
    BY <1>3
  <2>2. x[k] \in Aged
    BY <1>4, <2>1, AgeLimitNat
  <2>3. k - 1 \in 0 .. n /\ k - 1 < Len(x) /\ k - 1 + 1 = k
    BY <1>2
  <2>4. w[k - 1] = x[k]
    BY <1>2, <2>3
  <2>5. DOMAIN w = 0 .. n /\ w[k - 1] \in Aged
    BY <1>2, <2>2, <2>4
  <2>6. Meets(w, Aged)
    BY <1>2, <2>3, <2>5, MeetsSome
  <2> QED
    BY <1>6, <2>2, <2>6 DEF Promotes, w
<1> QED
  BY <1>5, <1>6 DEF w

\* Flags that name the lists name those with one thread more or less.
LEMMA PlacedSame ==
  ASSUME NEW c, NEW f, NEW mx, PlacedBy(c, f, mx), NEW g, NEW ny,
         \A u : Among(c, u) => g[u] = f[u] /\ ny[u] = mx[u]
  PROVE  PlacedBy(c, g, ny)
<1> SUFFICES ASSUME NEW r \in List, NEW k \in 1 .. Len(c[r])
             PROVE  HomeBy(g[c[r][k]], ny[c[r][k]]) = r
  BY DEF PlacedBy
<1>1. Among(c, c[r][k])
  BY InIs
<1>2. HomeBy(f[c[r][k]], mx[c[r][k]]) = r
  BY DEF PlacedBy
<1> QED
  BY <1>1, <1>2

\* ... with t behind the others of its list, ...
LEMMA PlacedWith ==
  ASSUME NEW c \in [List -> Seq(Thread)], NEW f, NEW mx, PlacedBy(c, f, mx),
         NEW l \in List, NEW t \in Thread, HomeBy(f[t], mx[t]) = l
  PROVE  PlacedBy(With(c, l, t), f, mx)
<1> DEFINE d == With(c, l, t)
<1>1. c[l] \in Seq(Thread) /\ Len(c[l]) \in Nat
  BY SeqIs
<1>2. d[l] = Append(c[l], t) /\ \A r \in List : r # l => d[r] = c[r]
  BY DEF With
<1> HIDE DEF d
<1>3. Len(d[l]) = Len(c[l]) + 1 /\ d[l][Len(c[l]) + 1] = t
      /\ \A k \in 1 .. Len(c[l]) : d[l][k] = c[l][k]
  BY <1>1, <1>2, AppendIs
<1> SUFFICES ASSUME NEW r \in List, NEW k \in 1 .. Len(d[r])
             PROVE  HomeBy(f[d[r][k]], mx[d[r][k]]) = r
  BY DEF PlacedBy, d
<1>4. CASE r # l
  BY <1>2, <1>4 DEF PlacedBy
<1>5. CASE r = l
  <2>1. k \in 1 .. Len(c[l]) \/ k = Len(c[l]) + 1
    BY <1>1, <1>3, <1>5
  <2>2. CASE k \in 1 .. Len(c[l])
    <3>1. HomeBy(f[c[l][k]], mx[c[l][k]]) = l /\ d[r][k] = c[l][k]
      BY <1>3, <1>5, <2>2 DEF PlacedBy
    <3> QED
      BY <1>5, <3>1
  <2>3. CASE k = Len(c[l]) + 1
    BY <1>3, <1>5, <2>3
  <2> QED
    BY <2>1, <2>2, <2>3
<1> QED
  BY <1>4, <1>5

\* ... without the head of one, ...
LEMMA PlacedWithout ==
  ASSUME NEW c \in [List -> Seq(Thread)], NEW f, NEW mx, PlacedBy(c, f, mx),
         NEW l \in List, c[l] # << >>
  PROVE  PlacedBy(Without(c, l), f, mx)
<1> DEFINE d == Without(c, l)
<1>1. c[l] \in Seq(Thread) /\ Len(c[l]) \in Nat
  BY SeqIs
<1>2. d[l] = Tail(c[l]) /\ \A r \in List : r # l => d[r] = c[r]
  BY DEF Without
<1> HIDE DEF d
<1>3. Len(d[l]) = Len(c[l]) - 1 /\ \A k \in 1 .. Len(c[l]) - 1 : d[l][k] = c[l][k + 1]
  BY <1>1, <1>2, TailIs
<1> SUFFICES ASSUME NEW r \in List, NEW k \in 1 .. Len(d[r])
             PROVE  HomeBy(f[d[r][k]], mx[d[r][k]]) = r
  BY DEF PlacedBy, d
<1>4. CASE r # l
  BY <1>2, <1>4 DEF PlacedBy
<1>5. CASE r = l
  <2>1. k \in 1 .. Len(c[l]) - 1 /\ k + 1 \in 1 .. Len(c[l])
    BY <1>1, <1>3, <1>5
  <2>2. HomeBy(f[c[l][k + 1]], mx[c[l][k + 1]]) = l /\ d[r][k] = c[l][k + 1]
    BY <1>3, <1>5, <2>1 DEF PlacedBy
  <2> QED
    BY <1>5, <2>2
<1> QED
  BY <1>4, <1>5

\* ... and with t before the others.
LEMMA PlacedAhead ==
  ASSUME NEW c \in [List -> Seq(Thread)], NEW f, NEW mx, PlacedBy(c, f, mx),
         NEW l \in List, NEW t \in Thread, HomeBy(f[t], mx[t]) = l
  PROVE  PlacedBy(Ahead(c, l, t), f, mx)
<1> DEFINE d == Ahead(c, l, t)
<1>1. c[l] \in Seq(Thread) /\ Len(c[l]) \in Nat
  BY SeqIs
<1>2. d[l] = << t >> \o c[l] /\ \A r \in List : r # l => d[r] = c[r]
  BY DEF Ahead
<1> HIDE DEF d
<1>3. Len(d[l]) = Len(c[l]) + 1 /\ d[l][1] = t /\ \A k \in 1 .. Len(c[l]) : d[l][k + 1] = c[l][k]
  BY <1>1, <1>2, ConsIs
<1> SUFFICES ASSUME NEW r \in List, NEW k \in 1 .. Len(d[r])
             PROVE  HomeBy(f[d[r][k]], mx[d[r][k]]) = r
  BY DEF PlacedBy, d
<1>4. CASE r # l
  BY <1>2, <1>4 DEF PlacedBy
<1>5. CASE r = l /\ k = 1
  BY <1>3, <1>5
<1>6. CASE r = l /\ k # 1
  <2>1. k - 1 \in 1 .. Len(c[l]) /\ k - 1 + 1 = k
    BY <1>1, <1>3, <1>6
  <2>2. HomeBy(f[c[l][k - 1]], mx[c[l][k - 1]]) = l /\ d[r][k] = c[l][k - 1]
    BY <1>3, <1>6, <2>1 DEF PlacedBy
  <2> QED
    BY <1>6, <2>2
<1> QED
  BY <1>4, <1>5, <1>6

\* The queues of the mutexes are the same.
SameWaiters(c, d) == \A m \in Mutex : d[OfMutex(m)] = c[OfMutex(m)]

\* ... when a thread is put in a queue or taken out.
LEMMA WaitersSame ==
  ASSUME NEW c \in [List -> Seq(Thread)], NEW q \in Queue, NEW t
  PROVE  /\ SameWaiters(c, With(c, OfQueue(q), t))
         /\ SameWaiters(c, Without(c, OfQueue(q)))
         /\ SameWaiters(c, Ahead(c, OfQueue(q), t))
<1>1. \A m \in Mutex : OfMutex(m) \in List /\ OfMutex(m) # OfQueue(q)
  BY ListNames
<1> QED
  BY <1>1 DEF SameWaiters, With, Without, Ahead

\* Inside a pass for t, before t is put anywhere.
Mid(h, f, c, t) ==
  /\ Chained(h, c) /\ PlacedBy(c, f, mutex)
  /\ \A u \in Thread \ {t} : f[u] # "NONE" <=> Among(c, u)
  /\ Among(c, t) <=> recursing \/ f[t] = "BLOCKING"
  /\ Rears(h, c, recursing, sinceRun) /\ Sorted(c[OfQueue(Low)], sinceRun)
  /\ recursing => /\ f[t] = "DEAD" /\ c[OfQueue(Running)] # << >>
                  /\ c[OfQueue(Waiting)] = << >>

MidAged(h, f, c, t) ==
  Mid(h, f, c, t) /\ (c[OfQueue(Running)] = << >> => Young(c[OfQueue(Low)], sinceRun))

\* The aging loop: the head of queue 1 gets behind the others of queue 0 if it
\* has waited too long, and then nobody in queue 1 has.
LEMMA AgedMid ==
  ASSUME TypeOK, NEW t \in Thread, NEW c, Mid(heap, activeFlag, c, t)
  PROVE  /\ \E d : MidAged(AgedHeap, AgedFlag, d, t) /\ SameWaiters(c, d)
         /\ \A u \in Thread : \/ AgedFlag[u] = activeFlag[u]
                              \/ u # t /\ activeFlag[u] = "RUNNABLE" /\ AgedFlag[u] = "ACTIVE"
<1> DEFINE l == OfQueue(Low)
           x == c[l]
<1>1. /\ Chained(heap, c) /\ PlacedBy(c, activeFlag, mutex) /\ Sorted(x, sinceRun)
      /\ Among(c, t) <=> recursing \/ activeFlag[t] = "BLOCKING"
      /\ \A u \in Thread \ {t} : activeFlag[u] # "NONE" <=> Among(c, u)
      /\ Rears(heap, c, recursing, sinceRun)
      /\ recursing => activeFlag[t] = "DEAD" /\ c[OfQueue(Running)] # << >>
                      /\ c[OfQueue(Waiting)] = << >>
  BY DEF Mid
<1>2. /\ Promotes => /\ x # << >> /\ ~ Young(x, sinceRun)
                     /\ Promoted = x[1] /\ FirstAfter(Walk(heap, Low), Aged) = NULL
      /\ ~ Promotes => Young(x, sinceRun)
  BY <1>1, PromotedIs
<1>3. CASE ~ Promotes
  <2>1. AgedHeap = heap /\ AgedFlag = activeFlag
    BY <1>3 DEF AgedHeap, AgedFlag
  <2>2. MidAged(AgedHeap, AgedFlag, c, t)
    BY <1>2, <1>3, <2>1 DEF MidAged
  <2> QED
    BY <2>1, <2>2 DEF SameWaiters
<1>4. CASE Promotes
  <2> DEFINE p == x[1]
             z == [heap EXCEPT !.front[Low] = heap.next[heap.front[Low]]]
             e == Without(c, l)
             d == With(e, OfQueue(Running), p)
  <2>1. /\ x # << >> /\ Promoted = p /\ l \in List /\ x \in Seq(Thread)
        /\ heap \in Heap /\ c \in [List -> Seq(Thread)] /\ Once(c)
        /\ 1 \in 1 .. Len(x) /\ In(x, p)
    BY <1>1, <1>2, <1>4, ChainedIs, FrontAndRear, SeqIs DEF In
  <2>2. /\ Chained(z, e) /\ z.next = heap.next /\ z.rear = heap.rear
        /\ heap.front[Low] = p /\ p \in Thread
    BY <1>1, <2>1, QueueNumbers, TakeChained
  <2>3. AgedHeap = enqueue(z, p, Running)
    <3>1. unlink(heap, Low, FirstAfter(Walk(heap, Low), Aged), Promoted) = z
      BY <1>2, <1>4, <2>1, <2>2 DEF unlink
    <3> QED
      BY <1>4, <2>1, <3>1 DEF AgedHeap
  <2>4. ~ Among(e, p) /\ \A u : Among(c, u) <=> Among(e, u) \/ u = p
    BY <2>1, WithoutOnce
  <2>5. \A q \in Queue : RearIs(heap, q, c[OfQueue(q)])
    BY <1>1, <1>2, <1>4 DEF Rears
  <2>6. e[l] = Tail(x) /\ \A r \in List : r # l => e[r] = c[r]
    BY <2>1 DEF Without
  <2>7. \A q \in Queue : RearIs(z, q, e[OfQueue(q)])
    <3> TAKE q \in Queue
    <3>1. RearIs(z, q, c[OfQueue(q)]) /\ OfQueue(q) \in List
      BY <2>2, <2>5, ListNames DEF RearIs
    <3>2. CASE OfQueue(q) = l
      <4>1. RearIs(z, q, x) /\ x \in Seq(Thread) /\ x # << >>
        BY <2>1, <3>1, <3>2
      <4>2. RearIs(z, q, Tail(x))
        BY <4>1, RearTail
      <4> QED
        BY <2>6, <3>2, <4>2
    <3>3. CASE OfQueue(q) # l
      BY <2>6, <3>1, <3>3
    <3> QED
      BY <3>2, <3>3
  <2> HIDE DEF z, e
  <2>8. /\ Chained(AgedHeap, d) /\ AgedHeap.rear[Running] = p
        /\ \A r \in Queue : r # Running => AgedHeap.rear[r] = z.rear[r]
    BY <2>2, <2>3, <2>4, <2>7, QueueNumbers, EnqueueChained
  <2>9. /\ d[OfQueue(Running)] = Append(c[OfQueue(Running)], p)
        /\ d[l] = Tail(x) /\ e[OfQueue(Running)] = c[OfQueue(Running)]
        /\ \A r \in List : r # l /\ r # OfQueue(Running) => d[r] = c[r]
        /\ \A r \in List : r # OfQueue(Running) => d[r] = e[r]
        /\ e \in [List -> Seq(Thread)]
    <3>1. e \in [List -> Seq(Thread)]
      BY <2>2 DEF Chained
    <3> QED
      BY <2>6, <3>1, FrontAndRear DEF With
  <2>10. \A u : Among(d, u) <=> Among(e, u) \/ u = p
    BY <2>2, <2>9, FrontAndRear, AmongWith
  <2>11. \A u : Among(d, u) <=> Among(c, u)
    BY <2>4, <2>10
  <2>12. /\ c[OfQueue(Running)] \in Seq(Thread)
         /\ Append(c[OfQueue(Running)], p) # << >>
         /\ Append(c[OfQueue(Running)], p)[Len(Append(c[OfQueue(Running)], p))] = p
    <3>1. c[OfQueue(Running)] \in Seq(Thread)
      BY <2>1, FrontAndRear
    <3> QED
      BY <2>2, <3>1, AppendIs
  <2>13. ASSUME NEW q \in Queue PROVE RearIs(AgedHeap, q, d[OfQueue(q)])
    <3>1. CASE q = Running
      BY <2>8, <2>9, <2>12, <3>1 DEF RearIs
    <3>2. CASE q # Running
      <4>1. OfQueue(q) \in List /\ OfQueue(q) # OfQueue(Running)
        BY <3>2, ListNames
      <4> QED
        BY <2>7, <2>8, <2>9, <3>2, <4>1 DEF RearIs
    <3> QED
      BY <3>1, <3>2
  <2>14. activeFlag[p] = "RUNNABLE"
    <3>1. HomeBy(activeFlag[p], mutex[p]) = l
      BY <1>1, <2>1, InHome
    <3> QED
      BY <3>1, HomeIs
  <2>15. p # t
    BY <1>1, <2>4, <2>14
  <2>16. \A u \in Thread : AgedFlag[u] = IF u = p THEN "ACTIVE" ELSE activeFlag[u]
    BY <1>4, <2>1 DEF AgedFlag, TypeOK
  <2> HIDE DEF d
  <2>17. PlacedBy(d, AgedFlag, mutex)
    <3>1. PlacedBy(e, activeFlag, mutex)
      BY <1>1, <2>1, PlacedWithout DEF e
    <3>2. PlacedBy(e, AgedFlag, mutex)
      <4>1. \A u : Among(e, u) => AgedFlag[u] = activeFlag[u]
        <5> TAKE u
        <5>1. Among(e, u) => u \in Thread /\ u # p
          <6> HAVE Among(e, u)
          <6>1. PICK r \in List : \E k \in 1 .. Len(e[r]) : e[r][k] = u
            BY DEF Among, In
          <6>2. PICK k \in 1 .. Len(e[r]) : e[r][k] = u
            BY <6>1
          <6> QED
            BY <2>2, <2>4, <6>2, ChainedIs
        <5> QED
          BY <2>16, <5>1
      <4> QED
        BY <3>1, <4>1, PlacedSame
    <3>3. HomeBy(AgedFlag[p], mutex[p]) = OfQueue(Running)
      BY <2>2, <2>16, HomeIs
    <3> QED
      BY <2>2, <2>9, <3>2, <3>3, FrontAndRear, PlacedWith DEF d
  <2>18. \A u \in Thread \ {t} : AgedFlag[u] # "NONE" <=> Among(d, u)
    BY <1>1, <2>11, <2>14, <2>16
  <2>19. Among(d, t) <=> recursing \/ AgedFlag[t] = "BLOCKING"
    BY <1>1, <2>11, <2>15, <2>16
  <2>20. Sorted(d[l], sinceRun)
    BY <1>1, <2>1, <2>9, SortedTail
  <2>21. recursing => /\ AgedFlag[t] = "DEAD" /\ d[OfQueue(Running)] # << >>
                      /\ d[OfQueue(Waiting)] = << >>
    BY <1>1, <2>9, <2>12, <2>15, <2>16, FrontAndRear
  <2>22. Rears(AgedHeap, d, recursing, sinceRun)
    BY <2>13 DEF Rears
  <2>23. Mid(AgedHeap, AgedFlag, d, t)
    BY <2>8, <2>17, <2>18, <2>19, <2>20, <2>21, <2>22 DEF Mid
  <2>24. MidAged(AgedHeap, AgedFlag, d, t)
    BY <2>9, <2>12, <2>23 DEF MidAged
  <2>25. SameWaiters(c, d)
    <3>1. SameWaiters(c, e)
      BY <2>1, QueueNumbers, WaitersSame DEF e
    <3>2. SameWaiters(e, d)
      BY <2>9, QueueNumbers, WaitersSame DEF d
    <3> QED
      BY <3>1, <3>2 DEF SameWaiters
  <2> QED
    BY <2>14, <2>15, <2>16, <2>24, <2>25
<1> QED
  BY <1>3, <1>4

\* A walk over a queue meets S when a node of the queue is in S.
LEMMA MeetsIs ==
  ASSUME NEW h, NEW c, Chained(h, c), NEW q \in Queue, NEW S \in SUBSET Thread
  PROVE  Meets(Walk(h, q), S) <=> \E u \in S : In(c[OfQueue(q)], u)
<1> DEFINE x == c[OfQueue(q)]
           w == Walk(h, q)
           n == Cardinality(Thread)
<1>1. h \in Heap /\ QueueHolds(h, q, x) /\ NoneTwice(x) /\ x \in Seq(Thread)
  BY ChainedIs, ListNames, OnceEach
<1>2. /\ w \in [0 .. n -> Pointer] /\ n \in Nat /\ Len(x) \in 0 .. n
      /\ \A k \in 0 .. n : w[k] = IF k < Len(x) THEN x[k + 1] ELSE NULL
  BY <1>1, WalkMeets
<1> HIDE DEF w, n, x
<1>3. ASSUME Meets(w, S) PROVE \E u \in S : In(x, u)
  <2>1. PICK k \in 0 .. n : w[k] \in S
    BY <1>2, <1>3 DEF Meets, IsFirst
  <2>2. k < Len(x) /\ x[k + 1] \in S
    BY <1>2, <2>1, NullIsNoThread
  <2>3. k + 1 \in 1 .. Len(x)
    BY <1>2, <2>2
  <2> QED
    BY <2>2, <2>3 DEF In
<1>4. ASSUME NEW u \in S, In(x, u) PROVE Meets(w, S)
  <2>1. PICK k \in 1 .. Len(x) : x[k] = u
    BY <1>4 DEF In
  <2>2. k - 1 \in 0 .. n /\ k - 1 < Len(x) /\ k - 1 + 1 = k
    BY <1>2
  <2>3. w[k - 1] \in S /\ DOMAIN w = 0 .. n
    BY <1>2, <2>1, <2>2
  <2> QED
    BY <1>2, <2>2, <2>3, MeetsSome
<1> QED
  BY <1>3, <1>4 DEF x, w

\* Inside a pass for t, when t is where its flag says.
Requeued(h, f, c, t) ==
  /\ Chained(h, c) /\ PlacedBy(c, f, mutex)
  /\ \A u \in Thread : f[u] # "NONE" <=> Among(c, u)
  /\ Rears(h, c, recursing, sinceRun)
  /\ Sorted(c[OfQueue(Low)], [sinceRun EXCEPT ![t] = 0])
  /\ f[t] = "DEAD" => /\ Sorted(c[OfQueue(Low)], sinceRun)
                      /\ c[OfQueue(Running)] = << >> => Young(c[OfQueue(Low)], sinceRun)
  /\ recursing => /\ f[t] = "DEAD" /\ c[OfQueue(Running)] # << >>
                  /\ c[OfQueue(Waiting)] = << >>

\* Ages are numbers.
LEMMA SinceNat == TypeOK => sinceRun \in [Thread -> Nat]
  BY AgeLimitNat DEF TypeOK

\* A blocked thread is put nowhere, and a dead one that is in queue 3 stays, ...
LEMMA StayQueued ==
  ASSUME TypeOK, NEW t \in Thread, NEW h, NEW f \in [Thread -> Flags], NEW c,
         MidAged(h, f, c, t), recursing \/ f[t] = "BLOCKING"
  PROVE  Requeued(h, f, c, t)
<1> DEFINE x == c[OfQueue(Low)]
<1>1. /\ Mid(h, f, c, t) /\ Chained(h, c) /\ PlacedBy(c, f, mutex) /\ Among(c, t)
      /\ f[t] \in {"DEAD", "BLOCKING"} /\ x \in Seq(Thread) /\ Sorted(x, sinceRun)
  BY ChainedIs, QueueNumbers DEF MidAged, Mid
<1>2. ~ In(x, t)
  <2> SUFFICES ASSUME In(x, t) PROVE FALSE
    OBVIOUS
  <2>1. HomeBy(f[t], mutex[t]) = OfQueue(Low)
    BY <1>1, FrontAndRear, InHome
  <2> QED
    BY <1>1, <2>1, HomeIs
<1> DEFINE s == [sinceRun EXCEPT ![t] = 0]
<1>3. \A u \in Thread : In(x, u) => s[u] = sinceRun[u]
  BY <1>2, SinceNat
<1> HIDE DEF s
<1>4. Sorted(x, s)
  BY <1>1, <1>3, SortedSame
<1> QED
  BY <1>1, <1>4 DEF Requeued, Mid, MidAged, s

\* ... and others go behind those in the queue of their flag.
LEMMA PutQueued ==
  ASSUME TypeOK, NEW t \in Thread, NEW h, NEW f \in [Thread -> Flags], NEW c,
         MidAged(h, f, c, t), ~ recursing, f[t] # "BLOCKING",
         NEW q \in Queue, NEW v, v # "NONE", HomeBy(v, mutex[t]) = OfQueue(q)
  PROVE  Requeued(enqueue(h, t, q), [f EXCEPT ![t] = v], With(c, OfQueue(q), t), t)
<1> DEFINE l == OfQueue(q)
           d == With(c, l, t)
           g == [f EXCEPT ![t] = v]
           z == enqueue(h, t, q)
<1>1. /\ Chained(h, c) /\ PlacedBy(c, f, mutex) /\ ~ Among(c, t)
      /\ Sorted(c[OfQueue(Low)], sinceRun)
      /\ \A u \in Thread \ {t} : f[u] # "NONE" <=> Among(c, u)
      /\ \A r \in Queue : RearIs(h, r, c[OfQueue(r)])
      /\ c[OfQueue(Running)] = << >> => Young(c[OfQueue(Low)], sinceRun)
  BY DEF MidAged, Mid, Rears
<1>2. c \in [List -> Seq(Thread)] /\ l \in List
  BY <1>1, ListNames DEF Chained
<1>3. /\ Chained(z, d) /\ z.rear[q] = t
      /\ \A r \in Queue : r # q => z.rear[r] = h.rear[r]
  BY <1>1, EnqueueChained
<1>4. d[l] = Append(c[l], t) /\ \A r \in List : r # l => d[r] = c[r]
  BY <1>2 DEF With
<1>5. /\ c[l] \in Seq(Thread) /\ Append(c[l], t) # << >>
      /\ Append(c[l], t)[Len(Append(c[l], t))] = t
  <2>1. c[l] \in Seq(Thread)
    BY <1>2
  <2> QED
    BY <2>1, AppendIs
<1>6. g[t] = v /\ \A u \in Thread : u # t => g[u] = f[u]
  OBVIOUS
<1>7. \A u : Among(d, u) <=> Among(c, u) \/ u = t
  BY <1>2, AmongWith
<1> HIDE DEF z, g
<1>8. PlacedBy(d, g, mutex)
  <2>1. \A u : Among(c, u) => g[u] = f[u]
    <3> SUFFICES ASSUME NEW u, Among(c, u) PROVE g[u] = f[u]
      OBVIOUS
    <3>1. u \in Thread
      BY <1>1, ChainedIs DEF Among, In
    <3> QED
      BY <1>1, <1>6, <3>1
  <2>2. PlacedBy(c, g, mutex)
    BY <1>1, <2>1, PlacedSame
  <2>3. HomeBy(g[t], mutex[t]) = l
    BY <1>6
  <2> QED
    BY <1>2, <2>2, <2>3, PlacedWith
<1> HIDE DEF d
<1>9. \A u \in Thread : g[u] # "NONE" <=> Among(d, u)
  BY <1>1, <1>6, <1>7
<1>10. ASSUME NEW r \in Queue PROVE RearIs(z, r, d[OfQueue(r)])
  <2>1. CASE r = q
    BY <1>3, <1>4, <1>5, <2>1 DEF RearIs
  <2>2. CASE r # q
    <3>1. OfQueue(r) \in List /\ OfQueue(r) # l
      BY <2>2, ListNames
    <3> QED
      BY <1>1, <1>3, <1>4, <2>2, <3>1 DEF RearIs
  <2> QED
    BY <2>1, <2>2
<1>11. c[OfQueue(Low)] \in Seq(Thread) /\ ~ In(c[OfQueue(Low)], t)
  BY <1>1, <1>2, FrontAndRear DEF Among
<1>12. Sorted(d[OfQueue(Low)], [sinceRun EXCEPT ![t] = 0])
  <2>1. CASE l = OfQueue(Low)
    BY <1>1, <1>4, <1>11, <2>1, SinceNat, SortedAppend
  <2>2. CASE l # OfQueue(Low)
    <3>1. d[OfQueue(Low)] = c[OfQueue(Low)]
      BY <1>4, <2>2, FrontAndRear
    <3> DEFINE s == [sinceRun EXCEPT ![t] = 0]
    <3>2. \A u \in Thread : In(c[OfQueue(Low)], u) => s[u] = sinceRun[u]
      BY <1>11, SinceNat
    <3> HIDE DEF s
    <3>3. Sorted(c[OfQueue(Low)], s)
      BY <1>1, <1>11, <3>2, SortedSame
    <3> QED
      BY <3>1, <3>3 DEF s
  <2> QED
    BY <2>1, <2>2
<1>13. g[t] = "DEAD" => /\ Sorted(d[OfQueue(Low)], sinceRun)
                        /\ d[OfQueue(Running)] = << >> => Young(d[OfQueue(Low)], sinceRun)
  <2> SUFFICES ASSUME v = "DEAD"
               PROVE  d[OfQueue(Low)] = c[OfQueue(Low)] /\ d[OfQueue(Running)] = c[OfQueue(Running)]
    BY <1>1, <1>6
  <2>1. l = OfQueue(Dead)
    BY HomeIs
  <2> QED
    BY <1>4, <2>1, FrontAndRear
<1>14. Requeued(z, g, d, t)
  BY <1>3, <1>8, <1>9, <1>10, <1>12, <1>13 DEF Requeued, Rears
<1> QED
  BY <1>14 DEF d, g, z

\* The switch on the flag of the thread that was running puts it in its place.
LEMMA RequeueQueued ==
  ASSUME TypeOK, NEW t \in Thread, NEW h, NEW f \in [Thread -> Flags], NEW c,
         MidAged(h, f, c, t), f[t] # "NONE"
  PROVE  \E d : /\ Requeued(Requeue(h, f[t], t), [f EXCEPT ![t] = FlagAfter(f[t])], d, t)
                /\ SameWaiters(c, d)
<1>1. Mid(h, f, c, t) /\ Chained(h, c) /\ PlacedBy(c, f, mutex)
      /\ (Among(c, t) <=> recursing \/ f[t] = "BLOCKING") /\ (recursing => f[t] = "DEAD")
  BY DEF MidAged, Mid
<1>2. Meets(Walk(h, Dead), {t}) <=> In(c[OfQueue(Dead)], t)
  <2>1. {t} \in SUBSET Thread
    OBVIOUS
  <2>2. Meets(Walk(h, Dead), {t}) <=> \E u \in {t} : In(c[OfQueue(Dead)], u)
    BY <1>1, <2>1, QueueNumbers, MeetsIs
  <2> QED
    BY <2>2
<1>3. CASE recursing \/ f[t] = "BLOCKING"
  <2>1. FlagAfter(f[t]) = f[t]
    BY <1>1, <1>3 DEF FlagAfter
  <2>2. [f EXCEPT ![t] = FlagAfter(f[t])] = f
    BY <2>1
  <2>3. Requeue(h, f[t], t) = h
    <3>1. CASE f[t] = "BLOCKING"
      BY <3>1 DEF Requeue
    <3>2. CASE f[t] = "DEAD"
      <4>1. HomeBy(f[t], mutex[t]) = OfQueue(Dead)
        BY <3>2, HomeIs
      <4>2. In(c[OfQueue(Dead)], t)
        BY <1>1, <1>3, <4>1, AmongHome
      <4> QED
        BY <1>2, <3>2, <4>2 DEF Requeue
    <3> QED
      BY <1>1, <1>3, <3>1, <3>2
  <2>4. Requeued(h, f, c, t)
    BY <1>3, StayQueued
  <2> QED
    BY <2>2, <2>3, <2>4 DEF SameWaiters
<1>4. CASE ~ recursing /\ f[t] # "BLOCKING"
  <2>0. \A q \in Queue : SameWaiters(c, With(c, OfQueue(q), t))
    BY <1>1, ChainedIs, WaitersSame
  <2>1. CASE f[t] = "WAITING"
    <3>1. Requeue(h, f[t], t) = enqueue(h, t, Waiting) /\ FlagAfter(f[t]) = "WAITING"
      BY <2>1 DEF Requeue, FlagAfter
    <3>2. HomeBy("WAITING", mutex[t]) = OfQueue(Waiting)
      BY HomeIs
    <3> QED
      BY <1>4, <3>1, <3>2, <2>0, QueueNumbers, PutQueued
  <2>2. CASE f[t] = "DEAD"
    <3>1. ~ In(c[OfQueue(Dead)], t)
      BY <1>1, <1>4, FrontAndRear DEF Among
    <3>2. Requeue(h, f[t], t) = enqueue(h, t, Dead) /\ FlagAfter(f[t]) = "DEAD"
      BY <1>2, <2>2, <3>1 DEF Requeue, FlagAfter
    <3>3. HomeBy("DEAD", mutex[t]) = OfQueue(Dead)
      BY HomeIs
    <3> QED
      BY <1>4, <3>2, <3>3, <2>0, QueueNumbers, PutQueued
  <2>3. CASE f[t] = "YIELD"
    <3>1. Requeue(h, f[t], t) = enqueue(h, t, Running) /\ FlagAfter(f[t]) = "ACTIVE"
      BY <2>3 DEF Requeue, FlagAfter
    <3>2. HomeBy("ACTIVE", mutex[t]) = OfQueue(Running)
      BY HomeIs
    <3> QED
      BY <1>4, <3>1, <3>2, <2>0, QueueNumbers, PutQueued
  <2>4. CASE f[t] \notin {"WAITING", "DEAD", "YIELD", "BLOCKING"}
    <3>1. Requeue(h, f[t], t) = enqueue(h, t, Low) /\ FlagAfter(f[t]) = "RUNNABLE"
      BY <2>4 DEF Requeue, FlagAfter
    <3>2. HomeBy("RUNNABLE", mutex[t]) = OfQueue(Low)
      BY HomeIs
    <3> QED
      BY <1>4, <3>1, <3>2, <2>0, QueueNumbers, PutQueued
  <2> QED
    BY <1>4, <2>1, <2>2, <2>3, <2>4
<1> QED
  BY <1>3, <1>4

ListedBy(f, run, again, p, t) ==
  f[t] # "NONE" /\ (t # run \/ again \/ p[t] = "lock_sched")

\* The lists of a state are c.
ShapeOf(h, f, mx, since, again, run, p, c) ==
  /\ Chained(h, c) /\ PlacedBy(c, f, mx)
  /\ \A t \in Thread : ListedBy(f, run, again, p, t) <=> Among(c, t)
  /\ Rears(h, c, again, since)
  /\ Sorted(c[OfQueue(Low)], since)
  /\ again => c[OfQueue(Running)] # << >> /\ c[OfQueue(Waiting)] = << >>
  /\ ListedBy(f, run, again, p, run) \/ NextIs(h, c, run)

\* The second of a list is what its head is linked to.
LEMMA Second ==
  ASSUME NEW n \in Nat, 1 <= n, n # 1
  PROVE  2 \in 1 .. n /\ 1 \in 1 .. n - 1
  OBVIOUS

\* The first in queue 2 that is in S, and the heap once it is the head of queue 0.
FirstOf(h, S) == FirstIn(Walk(h, Waiting), S)
Moved(h, S)   == pushFront(unlink(h, Waiting, FirstAfter(Walk(h, Waiting), S), FirstOf(h, S)),
                           FirstOf(h, S))

CanWake(h, f, c, t, S) ==
  /\ Requeued(h, f, c, t) /\ f \in [Thread -> Flags] /\ f[t] = "DEAD"
  /\ S \in SUBSET Thread /\ Meets(Walk(h, Waiting), S)
  /\ \A u, v \in Thread : f[u] = "WAITING" /\ f[v] = "WAITING" => u = v

\* It was waiting, and the lists are right when it is there.
Awake(h, f, c, t, S, p) ==
  /\ FirstOf(h, S) \in S /\ f[FirstOf(h, S)] = "WAITING" /\ FirstOf(h, S) # t
  /\ ~ recursing
  /\ \E d : /\ ShapeOf(Moved(h, S), [f EXCEPT ![FirstOf(h, S)] = "ACTIVE"],
                       mutex, sinceRun, TRUE, t, p, d)
            /\ SameWaiters(c, d)

\* A waiter is moved to the head of queue 0.
LEMMA WakeShape ==
  ASSUME TypeOK, NEW t \in Thread, NEW h, NEW f, NEW c, NEW S, CanWake(h, f, c, t, S)
  PROVE  \A p : Awake(h, f, c, t, S, p)
<1> TAKE p
<1> DEFINE w == FirstOf(h, S)
           z == Moved(h, S)
<1>0. /\ Requeued(h, f, c, t) /\ f \in [Thread -> Flags] /\ f[t] = "DEAD"
      /\ S \in SUBSET Thread /\ Meets(Walk(h, Waiting), S)
      /\ \A u, v \in Thread : f[u] = "WAITING" /\ f[v] = "WAITING" => u = v
      /\ w = FirstOf(h, S) /\ z = Moved(h, S)
  BY DEF CanWake
<1> HIDE DEF w, z
<1> DEFINE l == OfQueue(Waiting)
           x == c[l]
           walk == Walk(h, Waiting)
           y == [h EXCEPT !.front[Waiting] = h.next[h.front[Waiting]]]
           e == Without(c, l)
           d == Ahead(e, OfQueue(Running), w)
           g == [f EXCEPT ![w] = "ACTIVE"]
<1>1. /\ Chained(h, c) /\ PlacedBy(c, f, mutex)
      /\ \A u \in Thread : f[u] # "NONE" <=> Among(c, u)
      /\ Rears(h, c, recursing, sinceRun) /\ Sorted(c[OfQueue(Low)], sinceRun)
      /\ c[OfQueue(Running)] = << >> => Young(c[OfQueue(Low)], sinceRun)
      /\ recursing => x = << >>
  BY <1>0 DEF Requeued
<1>2. PICK v \in S : In(x, v)
  BY <1>0, <1>1, QueueNumbers, MeetsIs
<1>3. /\ h \in Heap /\ QueueHolds(h, Waiting, x) /\ x \in Seq(Thread) /\ Len(x) \in Nat
      /\ l \in List /\ c \in [List -> Seq(Thread)] /\ Once(c) /\ NoneTwice(x)
  BY <1>0, <1>1, QueueNumbers, ListNames, ChainedIs, OnceEach
<1>4. ASSUME NEW u, In(x, u) PROVE u \in Thread /\ f[u] = "WAITING"
  <2>1. u \in Thread
    BY <1>0, <1>3, <1>4, SeqIs DEF In
  <2>2. HomeBy(f[u], mutex[u]) = l
    BY <1>0, <1>1, <1>3, <1>4, InHome
  <2> QED
    BY <1>0, <2>1, <2>2, HomeIs
<1>5. x # << >> /\ 1 \in 1 .. Len(x) /\ In(x, x[1])
  <2>1. x # << >>
    BY <1>0, <1>2, <1>3, SeqIs DEF In
  <2> QED
    BY <1>0, <1>3, <2>1, SeqIs DEF In
<1>6. x[1] = v /\ v \in Thread /\ f[v] = "WAITING" /\ v # t /\ ~ recursing
  BY <1>0, <1>1, <1>2, <1>4, <1>5
<1>7. FirstAt(walk, S) = 0 /\ walk[0] = v
  <2>1. /\ walk \in [0 .. Cardinality(Thread) -> Pointer]
        /\ Cardinality(Thread) \in Nat /\ Len(x) \in 0 .. Cardinality(Thread)
        /\ \A k \in 0 .. Cardinality(Thread) :
             walk[k] = IF k < Len(x) THEN x[k + 1] ELSE NULL
    BY <1>0, <1>3, QueueNumbers, WalkMeets
  <2>2. 0 \in 0 .. Cardinality(Thread) /\ 0 < Len(x)
    BY <1>0, <1>3, <1>5, <2>1
  <2>3. walk[0] = x[0 + 1]
    BY <1>0, <2>1, <2>2
  <2>4. walk[0] = v /\ DOMAIN walk = 0 .. Cardinality(Thread)
    BY <1>0, <1>6, <2>1, <2>3
  <2>5. walk[0] \in S /\ \A j \in 0 .. 0 - 1 : walk[j] \notin S
    BY <1>0, <2>4
  <2> HIDE DEF walk
  <2> QED
    BY <1>0, <2>1, <2>2, <2>4, <2>5, FirstAtIs
<1>8. w = v /\ FirstAfter(walk, S) = NULL
  BY <1>0, <1>7 DEF FirstIn, FirstAfter, FirstOf
<1>9. /\ Chained(y, e) /\ y.next = h.next /\ y.rear = h.rear /\ h.front[Waiting] = w
  BY <1>0, <1>1, <1>5, <1>6, <1>8, QueueNumbers, TakeChained
<1>10. z = pushFront(y, w)
  BY <1>0, <1>8, <1>9 DEF unlink, Moved
<1>11. ~ Among(e, w) /\ \A u : Among(c, u) <=> Among(e, u) \/ u = w
  BY <1>0, <1>3, <1>5, <1>6, <1>8, WithoutOnce
<1>12. e[l] = Tail(x) /\ \A r \in List : r # l => e[r] = c[r]
  BY <1>0, <1>3 DEF Without
<1>13. e[l] = << >>
  <2>1. Tail(x) \in Seq(Thread) /\ Len(Tail(x)) = Len(x) - 1
        /\ \A k \in 1 .. Len(x) - 1 : Tail(x)[k] = x[k + 1]
    BY <1>0, <1>3, <1>5, TailIs
  <2>2. Len(x) = 1
    <3> SUFFICES ASSUME Len(x) # 1 PROVE FALSE
      OBVIOUS
    <3>1. 2 \in 1 .. Len(x)
      <4>1. Len(x) \in Nat /\ 1 <= Len(x)
        BY <1>0, <1>3, <1>5
      <4> QED
        BY <1>0, <4>1, Second
    <3>2. In(x, x[2])
      BY <1>0, <3>1 DEF In
    <3>3. x[2] = x[1]
      BY <1>0, <1>4, <1>5, <3>2
    <3> QED
      BY <1>0, <1>3, <1>5, <3>1, <3>3 DEF NoneTwice
  <2>3. Len(Tail(x)) = 0
    BY <1>0, <2>1, <2>2
  <2> QED
    BY <1>0, <1>12, <2>1, <2>3, SeqIs
<1> HIDE DEF y, e
<1>14. e \in [List -> Seq(Thread)] /\ Once(e)
  BY <1>0, <1>9 DEF Chained
<1>15. Chained(z, d) /\ z.rear = y.rear
  BY <1>0, <1>6, <1>8, <1>9, <1>10, <1>11, PushFrontChained
<1>16. /\ d[OfQueue(Running)] = << w >> \o c[OfQueue(Running)]
       /\ d[l] = << >> /\ d[OfQueue(Low)] = c[OfQueue(Low)]
       /\ \A r \in List : r # OfQueue(Running) => d[r] = e[r]
  BY <1>0, <1>12, <1>13, <1>14, FrontAndRear DEF Ahead
<1>17. \A u : Among(d, u) <=> Among(c, u)
  <2>1. w \in Thread /\ OfQueue(Running) \in List
    BY <1>0, <1>6, <1>8, FrontAndRear
  <2>2. \A u : Among(d, u) <=> Among(e, u) \/ u = w
    BY <1>0, <1>11, <1>14, <2>1, AheadOnce
  <2> QED
    BY <1>0, <1>11, <2>2
<1>18. \A u \in Thread : g[u] = IF u = w THEN "ACTIVE" ELSE f[u]
  BY <1>0
<1> HIDE DEF g
<1>19. PlacedBy(d, g, mutex)
  <2>1. PlacedBy(e, f, mutex)
    BY <1>0, <1>1, <1>3, <1>5, PlacedWithout DEF e
  <2>2. \A u : Among(e, u) => g[u] = f[u]
    <3> SUFFICES ASSUME NEW u, Among(e, u) PROVE g[u] = f[u]
      OBVIOUS
    <3>1. u \in Thread
      BY <1>0, <1>9, <1>3, ChainedIs, <1>11 DEF Among, In
    <3> QED
      BY <1>0, <1>11, <1>18, <3>1
  <2>3. PlacedBy(e, g, mutex)
    BY <1>0, <2>1, <2>2, PlacedSame
  <2>4. HomeBy(g[w], mutex[w]) = OfQueue(Running)
    BY <1>0, <1>6, <1>8, <1>18, HomeIs
  <2> QED
    BY <1>0, <1>6, <1>8, <1>14, <2>3, <2>4, FrontAndRear, PlacedAhead
<1>26. SameWaiters(c, d)
  <2>1. SameWaiters(c, e)
    BY <1>3, QueueNumbers, WaitersSame DEF e
  <2>2. SameWaiters(e, d)
    BY <1>14, QueueNumbers, WaitersSame
  <2> QED
    BY <2>1, <2>2 DEF SameWaiters
<1> HIDE DEF d
<1>20. \A u \in Thread : ListedBy(g, t, TRUE, p, u) <=> Among(d, u)
  BY <1>0, <1>1, <1>6, <1>8, <1>17, <1>18 DEF ListedBy
<1>21. c[OfQueue(Running)] \in Seq(Thread)
  BY <1>0, <1>3, FrontAndRear
<1>22. Len(d[OfQueue(Running)]) = Len(c[OfQueue(Running)]) + 1 /\ d[OfQueue(Running)] # << >>
       /\ \A k \in 1 .. Len(c[OfQueue(Running)]) :
            d[OfQueue(Running)][k + 1] = c[OfQueue(Running)][k]
  BY <1>0, <1>6, <1>8, <1>16, <1>21, ConsIs
<1>23. Rears(z, d, TRUE, sinceRun)
  <2> SUFFICES ASSUME NEW q \in Queue
               PROVE  \/ RearIs(z, q, d[OfQueue(q)])
                      \/ /\ q = Running /\ Len(d[OfQueue(q)]) = 1
                         /\ Young(d[OfQueue(Low)], sinceRun)
    BY DEF Rears
  <2>1. RearIs(h, q, c[OfQueue(q)]) /\ z.rear = h.rear
    BY <1>0, <1>1, <1>6, <1>9, <1>15 DEF Rears
  <2>2. OfQueue(q) \in List /\ (OfQueue(q) = OfQueue(Running) <=> q = Running)
    BY ListNames
  <2>3. CASE q # Running /\ OfQueue(q) # l
    BY <1>0, <1>12, <1>16, <2>1, <2>2, <2>3 DEF RearIs
  <2>4. CASE OfQueue(q) = l
    BY <1>0, <1>16, <2>4 DEF RearIs
  <2>5. CASE q = Running
    <3>1. CASE c[OfQueue(Running)] = << >>
      <4>1. Len(c[OfQueue(Running)]) = 0
        BY <1>0, <1>21, <3>1, SeqIs
      <4>2. Len(d[OfQueue(Running)]) = 1
        BY <1>0, <1>22, <4>1
      <4>3. Young(d[OfQueue(Low)], sinceRun)
        BY <1>0, <1>1, <1>16, <3>1
      <4> QED
        BY <1>0, <2>5, <4>2, <4>3
    <3>2. CASE c[OfQueue(Running)] # << >>
      <4>1. Len(c[OfQueue(Running)]) \in 1 .. Len(c[OfQueue(Running)])
        BY <1>0, <1>21, <3>2, SeqIs
      <4>2. d[OfQueue(Running)][Len(d[OfQueue(Running)])]
              = c[OfQueue(Running)][Len(c[OfQueue(Running)])]
        BY <1>0, <1>22, <4>1
      <4> QED
        BY <1>0, <2>1, <2>5, <3>2, <4>2 DEF RearIs
    <3> QED
      BY <1>0, <3>1, <3>2
  <2> QED
    BY <1>0, <2>3, <2>4, <2>5
<1>24. ListedBy(g, t, TRUE, p, t)
  BY <1>0, <1>6, <1>8, <1>18 DEF ListedBy
<1>25. ShapeOf(z, g, mutex, sinceRun, TRUE, t, p, d)
  BY <1>0, <1>1, <1>15, <1>16, <1>19, <1>20, <1>22, <1>23, <1>24 DEF ShapeOf
<1> QED
  BY <1>0, <1>6, <1>8, <1>25, <1>26 DEF g, Awake

\* What is in queues 0 and 1.
LEMMA NextNodeIs ==
  ASSUME NEW t \in Thread, NEW h, NEW f, NEW c, Requeued(h, f, c, t)
  PROVE  /\ Next_node(h) = NULL => \A u \in Thread : f[u] \notin {"ACTIVE", "RUNNABLE"}
         /\ Next_node(h) # NULL => Next_node(h) \in Thread /\ f[Next_node(h)] \in {"ACTIVE", "RUNNABLE"}
<1>1. Chained(h, c) /\ PlacedBy(c, f, mutex) /\ \A u \in Thread : f[u] # "NONE" <=> Among(c, u)
  BY DEF Requeued
<1>2. ASSUME Next_node(h) = NULL, NEW u \in Thread, f[u] \in {"ACTIVE", "RUNNABLE"} PROVE FALSE
  <2>1. c[OfQueue(Running)] = << >> /\ c[OfQueue(Low)] = << >>
    BY <1>1, <1>2, QueueNumbers, ChainedIs DEF Next_node
  <2>2. HomeBy(f[u], mutex[u]) \in {OfQueue(Running), OfQueue(Low)}
    BY <1>2, HomeIs
  <2>3. Among(c, u)
    BY <1>1, <1>2
  <2>4. In(c[HomeBy(f[u], mutex[u])], u)
    BY <1>1, <2>3, AmongHome
  <2>5. In(<< >>, u)
    BY <2>1, <2>2, <2>4
  <2> QED
    BY <2>5 DEF In
<1>3. ASSUME NEW q \in {Running, Low}, h.front[q] # NULL
      PROVE  h.front[q] \in Thread /\ f[h.front[q]] \in {"ACTIVE", "RUNNABLE"}
  <2>1. /\ q \in Queue /\ OfQueue(q) \in List /\ QueueHolds(h, q, c[OfQueue(q)])
        /\ c[OfQueue(q)] \in Seq(Thread) /\ c[OfQueue(q)] # << >>
    BY <1>1, <1>3, QueueNumbers, ListNames, ChainedIs
  <2>2. 1 \in 1 .. Len(c[OfQueue(q)]) /\ c[OfQueue(q)][1] \in Thread
    BY <2>1, SeqIs
  <2>3. h.front[q] = c[OfQueue(q)][1] /\ In(c[OfQueue(q)], h.front[q])
    BY <2>1, <2>2 DEF QueueHolds, In
  <2>4. HomeBy(f[h.front[q]], mutex[h.front[q]]) = OfQueue(q)
    BY <1>1, <2>1, <2>3, InHome
  <2> QED
    BY <1>3, <2>2, <2>3, <2>4, HomeIs
<1> QED
  BY <1>2, <1>3 DEF Next_node

\* The head of queue 0, or else of queue 1, is taken to run.
LEMMA DispatchShape ==
  ASSUME TypeOK, NEW t \in Thread, NEW h, NEW f \in [Thread -> Flags], NEW c,
         Requeued(h, f, c, t), NEW n, n = Next_node(h), n # NULL,
         NEW p, p[n] # "lock_sched"
  PROVE  \E d : /\ ShapeOf(Taken(h), f, mutex, [sinceRun EXCEPT ![t] = 0], FALSE, n, p, d)
                /\ SameWaiters(c, d)
<1>1. /\ Chained(h, c) /\ PlacedBy(c, f, mutex)
      /\ \A u \in Thread : f[u] # "NONE" <=> Among(c, u)
      /\ Rears(h, c, recursing, sinceRun)
      /\ Sorted(c[OfQueue(Low)], [sinceRun EXCEPT ![t] = 0])
  BY DEF Requeued
<1> DEFINE q == IF h.front[Running] # NULL THEN Running ELSE Low
           l == OfQueue(q)
           x == c[l]
           z == [h EXCEPT !.front[q] = h.next[h.front[q]]]
           d == Without(c, l)
           s == [sinceRun EXCEPT ![t] = 0]
<1>2. q \in Queue /\ l \in List /\ (q = Low => c[OfQueue(Running)] = << >>) /\ q \in {Running, Low}
      /\ h.front[q] = n
  <2>1. q \in Queue /\ q \in {Running, Low} /\ h.front[q] = n
    BY QueueNumbers DEF Next_node
  <2>2. q = Low => c[OfQueue(Running)] = << >>
    BY <1>1, QueueNumbers, ChainedIs DEF Running, Low
  <2> QED
    BY <2>1, <2>2, ListNames
<1>3. Taken(h) = z
  BY <1>2 DEF Taken, dequeue, Next_node
<1> HIDE DEF q, s
<1>4. /\ x # << >> /\ x \in Seq(Thread) /\ c \in [List -> Seq(Thread)] /\ Once(c)
  BY <1>1, <1>2, ChainedIs
<1>5. /\ Chained(z, d) /\ z.next = h.next /\ z.rear = h.rear
      /\ n = x[1] /\ n \in Thread
      /\ h.next[n] = IF Len(x) = 1 THEN NULL ELSE x[2]
  <2>1. /\ Chained(z, d) /\ z.next = h.next /\ z.rear = h.rear
        /\ h.front[q] = x[1] /\ x[1] \in Thread
        /\ h.next[x[1]] = IF Len(x) = 1 THEN NULL ELSE x[2]
    <3>1. Chained(h, c) /\ q \in Queue /\ x = c[OfQueue(q)] /\ x # << >>
          /\ z = [h EXCEPT !.front[q] = h.next[h.front[q]]]
      BY <1>1, <1>2, <1>4
    <3> HIDE DEF x, z
    <3>2. /\ Chained(z, Without(c, OfQueue(q)))
          /\ z.next = h.next /\ z.rear = h.rear
          /\ h.front[q] = x[1] /\ x[1] \in Thread
          /\ h.next[x[1]] = IF Len(x) = 1 THEN NULL ELSE x[2]
      BY ONLY <3>1, TakeChained
    <3> QED
      BY <3>2
  <2> QED
    BY <1>2, <2>1
<1>6. ~ Among(d, n) /\ \A u : Among(c, u) <=> Among(d, u) \/ u = n
  <2>1. ~ Among(d, c[l][1]) /\ \A u : Among(c, u) <=> Among(d, u) \/ u = c[l][1]
    <3>1. l \in List /\ c[l] # << >>
      BY <1>2, <1>4
    <3>2. c \in [List -> Seq(Thread)] /\ Once(c)
      BY <1>4
    <3> HIDE DEF l, x
    <3>3. /\ ~ Among(Without(c, l), c[l][1])
          /\ \A u : Among(c, u) <=> Among(Without(c, l), u) \/ u = c[l][1]
      BY ONLY <3>1, <3>2, WithoutOnce
    <3> QED
      BY <3>3
  <2>2. c[l][1] = n
    BY <1>5
  <2> QED
    BY <2>1, <2>2
<1>7. d[l] = Tail(x) /\ \A r \in List : r # l => d[r] = c[r]
  BY <1>2, <1>4 DEF Without
<1>8. PlacedBy(d, f, mutex)
  BY <1>1, <1>2, <1>4, PlacedWithout
<1>9. /\ Tail(x) \in Seq(Thread) /\ Len(Tail(x)) = Len(x) - 1
      /\ \A k \in 1 .. Len(x) - 1 : Tail(x)[k] = x[k + 1]
  BY <1>4, TailIs
<1>15. SameWaiters(c, d)
  BY <1>2, <1>4, WaitersSame
<1> HIDE DEF z, d
<1>10. \A u \in Thread : ListedBy(f, n, FALSE, p, u) <=> Among(d, u)
  BY <1>1, <1>6 DEF ListedBy
<1>11. Rears(z, d, FALSE, s)
  <2> SUFFICES ASSUME NEW r \in Queue PROVE RearIs(z, r, d[OfQueue(r)])
    BY DEF Rears
  <2>1. OfQueue(r) \in List /\ (OfQueue(r) = l <=> r = q)
    BY ListNames
  <2>2. RearIs(h, r, c[OfQueue(r)]) \/ (r = Running /\ Len(c[OfQueue(r)]) = 1)
    BY <1>1 DEF Rears
  <2>3. CASE r = q /\ RearIs(h, r, c[OfQueue(r)])
    <3>1. RearIs(h, r, Tail(x))
      BY <1>4, <2>3, RearTail
    <3> QED
      BY <1>5, <1>7, <2>3, <3>1 DEF RearIs
  <2>4. CASE r = q /\ Len(c[OfQueue(r)]) = 1
    <3>1. Len(Tail(x)) = 0
      BY <1>9, <2>4
    <3>2. d[OfQueue(r)] = << >>
      BY <1>7, <1>9, <2>4, <3>1, SeqIs
    <3> QED
      BY <3>2 DEF RearIs
  <2>5. CASE r # q /\ RearIs(h, r, c[OfQueue(r)])
    BY <1>5, <1>7, <2>1, <2>5 DEF RearIs
  <2>6. CASE r # q /\ r = Running
    BY <1>2, <1>7, <2>1, <2>6 DEF RearIs
  <2> QED
    BY <2>2, <2>3, <2>4, <2>5, <2>6
<1>12. Sorted(d[OfQueue(Low)], s)
  <2>1. Sorted(c[OfQueue(Low)], s)
    BY <1>1 DEF s
  <2>2. CASE l = OfQueue(Low)
    BY <1>4, <1>7, <2>1, <2>2, SortedTail
  <2>3. CASE l # OfQueue(Low)
    BY <1>7, <2>1, <2>3, FrontAndRear
  <2> QED
    BY <2>2, <2>3
<1>13. NextIs(z, d, n)
  <2>1. CASE Len(x) = 1
    BY <1>5, <2>1 DEF NextIs
  <2>2. CASE Len(x) # 1
    <3>1. 1 \in 1 .. Len(x) - 1
      <4>1. Len(x) \in Nat /\ 1 \in 1 .. Len(x)
        BY <1>4, SeqIs
      <4>2. Len(x) \in Nat /\ 1 <= Len(x)
        BY <4>1
      <4> QED
        BY <2>2, <4>2, Second
    <3>2. 1 \in 1 .. Len(Tail(x)) /\ Tail(x)[1] = x[1 + 1]
      BY <1>9, <3>1
    <3>3. In(d[l], h.next[n])
      BY <1>5, <1>7, <2>2, <3>2 DEF In
    <3> QED
      BY <1>2, <1>5, <3>3 DEF NextIs
  <2> QED
    BY <2>1, <2>2
<1>14. ShapeOf(z, f, mutex, s, FALSE, n, p, d)
  BY <1>5, <1>8, <1>10, <1>11, <1>12, <1>13 DEF ShapeOf
<1> QED
  BY <1>3, <1>14, <1>15 DEF s

Shaped ==
  \E c : ShapeOf(heap, activeFlag, mutex, sinceRun, recursing, running, pc, c)

\* A pass leaves the queues of the mutexes as they are.
NowShaped(c) == ShapeOf(heap, activeFlag, mutex, sinceRun, recursing, running, pc, c)

ThenShaped(c) ==
  \E d : /\ ShapeOf(heap', activeFlag', mutex', sinceRun', recursing', running', pc', d)
         /\ SameWaiters(c, d)

\* t may be switched out.
Ready(t) ==
  /\ t = running /\ activeFlag[t] # "NONE"
  /\ recursing \/ pc[t] = "lock_sched" <=> recursing \/ activeFlag[t] = "BLOCKING"
  /\ recursing => activeFlag[t] = "DEAD"
  /\ \A u, v \in Thread : activeFlag[u] = "WAITING" /\ activeFlag[v] = "WAITING" => u = v

\* What aging may do to a flag.
Ages(f, g) == g = f \/ (f = "RUNNABLE" /\ g = "ACTIVE")

\* What a pass for t does: it wakes w, ...
Wakes(t, w) ==
  /\ w # t /\ activeFlag[w] = "WAITING" /\ t \in returnList[w]
  /\ activeFlag[t] = "DEAD" /\ ~ recursing
  /\ activeFlag'[w] = "ACTIVE" /\ activeFlag'[t] = "DEAD"
  /\ \A u \in Thread \ {w} : Ages(activeFlag[u], activeFlag'[u])
  /\ joinValue' = [joinValue EXCEPT ![w][t] = "field"]
  /\ recursing' = TRUE
  /\ UNCHANGED << valueSet, returnList, currThread, sinceRun, running, process >>

\* ... or switches to n.
Dispatches(t, n) ==
  /\ activeFlag'[n] \in {"ACTIVE", "RUNNABLE"}
  /\ activeFlag'[t] = FlagAfter(activeFlag[t])
  /\ \A u \in Thread \ {t} : Ages(activeFlag[u], activeFlag'[u])
  /\ activeFlag[t] = "DEAD" =>
       \A w \in Thread : activeFlag'[w] = "WAITING" => t \notin returnList[w]
  /\ currThread' = n /\ running' = n /\ recursing' = FALSE
  /\ UNCHANGED << valueSet, returnList, joinValue, process >>

\* With the flags g there is nobody to switch to.
Stuck(g, t) ==
  /\ g[t] = FlagAfter(activeFlag[t])
  /\ \A u \in Thread \ {t} : Ages(activeFlag[u], g[u])
  /\ \A u \in Thread : g[u] \notin {"ACTIVE", "RUNNABLE"}
  /\ activeFlag[t] = "DEAD" => \A w \in Thread : g[w] = "WAITING" => t \notin returnList[w]

\* The lists at the start of a pass.
LEMMA ReadyMid ==
  ASSUME TypeOK, NEW t \in Thread, Ready(t), NEW c, NowShaped(c)
  PROVE  Mid(heap, activeFlag, c, t)
<1>1. ShapeOf(heap, activeFlag, mutex, sinceRun, recursing, running, pc, c)
  BY DEF NowShaped
<1>2. /\ Chained(heap, c) /\ PlacedBy(c, activeFlag, mutex)
      /\ \A u \in Thread : ListedBy(activeFlag, running, recursing, pc, u) <=> Among(c, u)
      /\ Rears(heap, c, recursing, sinceRun)
      /\ Sorted(c[OfQueue(Low)], sinceRun)
      /\ recursing => c[OfQueue(Running)] # << >> /\ c[OfQueue(Waiting)] = << >>
  BY <1>1 DEF ShapeOf
<1>3. \A u \in Thread \ {t} : activeFlag[u] # "NONE" <=> Among(c, u)
  BY <1>2 DEF ListedBy, Ready
<1>4. Among(c, t) <=> recursing \/ activeFlag[t] = "BLOCKING"
  BY <1>2 DEF ListedBy, Ready
<1>5. Mid(heap, activeFlag, c, t)
  BY <1>2, <1>3, <1>4 DEF Mid, Ready
<1> QED
  BY <1>5

\* A pass as far as its switch.
LEMMA Switched ==
  ASSUME TypeOK, NEW t \in Thread, Ready(t), NEW c, NowShaped(c)
  PROVE  /\ \E d : /\ Requeued(Requeue(AgedHeap, AgedFlag[t], t),
                             [AgedFlag EXCEPT ![t] = FlagAfter(AgedFlag[t])], d, t)
                   /\ SameWaiters(c, d)
         /\ AgedFlag \in [Thread -> Flags] /\ AgedFlag[t] = activeFlag[t]
         /\ \A u \in Thread : Ages(activeFlag[u], AgedFlag[u])
<1>1. Mid(heap, activeFlag, c, t)
  BY ReadyMid
<1>2. /\ \E d : MidAged(AgedHeap, AgedFlag, d, t) /\ SameWaiters(c, d)
      /\ \A u \in Thread : \/ AgedFlag[u] = activeFlag[u]
                           \/ u # t /\ activeFlag[u] = "RUNNABLE" /\ AgedFlag[u] = "ACTIVE"
  BY <1>1, AgedMid
<1>3. PICK d : MidAged(AgedHeap, AgedFlag, d, t) /\ SameWaiters(c, d)
  BY <1>2
<1>4. AgedFlag \in [Thread -> Flags]
  BY AgedTypes
<1>5. AgedFlag[t] = activeFlag[t] /\ \A u \in Thread : Ages(activeFlag[u], AgedFlag[u])
  BY <1>2 DEF Ages
<1>6. AgedFlag[t] # "NONE"
  BY <1>5 DEF Ready
<1>7. PICK e : /\ Requeued(Requeue(AgedHeap, AgedFlag[t], t),
                         [AgedFlag EXCEPT ![t] = FlagAfter(AgedFlag[t])], e, t)
               /\ SameWaiters(d, e)
  BY <1>3, <1>4, <1>6, RequeueQueued
<1>8. SameWaiters(c, e)
  BY <1>3, <1>7 DEF SameWaiters
<1> QED
  BY <1>4, <1>5, <1>7, <1>8

\* A pass that finds a waiter of the dead thread wakes it.
LEMMA PassWakes ==
  ASSUME TypeOK, NEW t \in Thread, Ready(t), NEW c, NowShaped(c),
         WakeJoiner(t), UNCHANGED mutex
  PROVE  ThenShaped(c) /\ \E w \in Thread : Wakes(t, w)
<1> DEFINE h == Requeue(AgedHeap, AgedFlag[t], t)
           S == WaitersOf(t)
           w == FirstIn(Walk(h, Waiting), S)
<1>1. /\ AgedFlag \in [Thread -> Flags] /\ AgedFlag[t] = activeFlag[t]
      /\ \A u \in Thread : Ages(activeFlag[u], AgedFlag[u])
  BY Switched
<1>2. /\ AgedFlag[t] = "DEAD" /\ Meets(Walk(h, Waiting), S)
      /\ heap' = pushFront(unlink(h, Waiting, FirstAfter(Walk(h, Waiting), S), w), w)
      /\ activeFlag' = [AgedFlag EXCEPT ![w] = "ACTIVE"]
      /\ joinValue' = [joinValue EXCEPT ![w][t] = "field"]
      /\ recursing' = TRUE
      /\ UNCHANGED << valueSet, returnList, currThread, sinceRun, running, process >>
  BY DEF WakeJoiner, SwitchedHeap, HasWaiter
<1>3. PICK d : Requeued(h, AgedFlag, d, t) /\ SameWaiters(c, d)
  <2>1. [AgedFlag EXCEPT ![t] = FlagAfter(AgedFlag[t])] = AgedFlag
    BY <1>1, <1>2 DEF FlagAfter
  <2> HIDE DEF h
  <2> QED
    BY <2>1, Switched DEF h
<1>4. \A u, v \in Thread : AgedFlag[u] = "WAITING" /\ AgedFlag[v] = "WAITING" => u = v
  BY <1>1 DEF Ready, Ages
<1>5. S \in SUBSET Thread /\ \A u \in S : t \in returnList[u]
  BY DEF WaitersOf
<1> HIDE DEF h, S, w
<1>6. /\ w \in S /\ AgedFlag[w] = "WAITING" /\ w # t /\ ~ recursing
      /\ \E e : /\ ShapeOf(heap', [AgedFlag EXCEPT ![w] = "ACTIVE"], mutex, sinceRun, TRUE, t, pc', e)
                /\ SameWaiters(d, e)
  <2>1. CanWake(h, AgedFlag, d, t, S)
    BY <1>1, <1>2, <1>3, <1>4, <1>5 DEF CanWake
  <2>2. w = FirstOf(h, S) /\ heap' = Moved(h, S)
    BY <1>2 DEF w, FirstOf, Moved
  <2>3. Awake(h, AgedFlag, d, t, S, pc')
    BY <2>1, WakeShape
  <2> QED
    BY <2>2, <2>3 DEF Awake
<1>7. ThenShaped(c)
  <2>1. PICK e : /\ ShapeOf(heap', [AgedFlag EXCEPT ![w] = "ACTIVE"], mutex, sinceRun, TRUE, t, pc', e)
                 /\ SameWaiters(d, e)
    BY <1>6
  <2>2. ShapeOf(heap', activeFlag', mutex', sinceRun', recursing', running', pc', e)
    BY <1>2, <2>1 DEF Ready
  <2>3. SameWaiters(c, e)
    BY <1>3, <2>1 DEF SameWaiters
  <2> QED
    BY <2>2, <2>3 DEF ThenShaped
<1>8. w \in Thread /\ activeFlag[w] = "WAITING"
  BY <1>1, <1>5, <1>6 DEF Ages
<1>9. \A u \in Thread : activeFlag'[u] = IF u = w THEN "ACTIVE" ELSE AgedFlag[u]
  BY <1>1, <1>2
<1>10. Wakes(t, w)
  BY <1>1, <1>2, <1>5, <1>6, <1>8, <1>9 DEF Wakes
<1> QED
  BY <1>7, <1>8, <1>10

\* A pass that finds none goes to the next thread.
LEMMA PassDispatches ==
  ASSUME TypeOK, NEW t \in Thread, Ready(t), NEW c, NowShaped(c),
         Dispatch(t), UNCHANGED mutex,
         ~ \E g \in [Thread -> Flags] : Stuck(g, t),
         \A u \in Thread : activeFlag'[u] \in {"ACTIVE", "RUNNABLE"} => pc'[u] # "lock_sched"
  PROVE  ThenShaped(c) /\ \E n \in Thread : Dispatches(t, n)
<1> DEFINE h == Requeue(AgedHeap, AgedFlag[t], t)
           g == [AgedFlag EXCEPT ![t] = FlagAfter(AgedFlag[t])]
           n == Next_node(h)
<1>1. /\ AgedFlag \in [Thread -> Flags] /\ AgedFlag[t] = activeFlag[t]
      /\ \A u \in Thread : Ages(activeFlag[u], AgedFlag[u])
  BY Switched
<1>2. /\ ~ HasWaiter(h, t)
      /\ heap' = Taken(h)
      /\ activeFlag' = g
      /\ currThread' = n
      /\ running' = IF n = NULL THEN t ELSE n
      /\ sinceRun' = IF n = NULL THEN sinceRun ELSE [sinceRun EXCEPT ![t] = 0]
      /\ recursing' = FALSE
      /\ UNCHANGED << valueSet, returnList, joinValue, process >>
  BY DEF Dispatch, SwitchedHeap
<1>3. PICK d : Requeued(h, g, d, t) /\ SameWaiters(c, d)
  BY Switched
<1>4. /\ g \in [Thread -> Flags] /\ g[t] = FlagAfter(activeFlag[t])
      /\ \A u \in Thread : u # t => g[u] = AgedFlag[u]
  <2>1. FlagAfter(AgedFlag[t]) \in Flags
    BY <1>1, FlagAfterFlag
  <2> QED
    BY <1>1, <2>1
<1> HIDE DEF h, g, n
<1>5. ASSUME activeFlag[t] = "DEAD", NEW w \in Thread, g[w] = "WAITING", t \in returnList[w]
      PROVE  FALSE
  <2>1. Chained(h, d) /\ PlacedBy(d, g, mutex) /\ Among(d, w)
    BY <1>3, <1>5 DEF Requeued
  <2>2. HomeBy(g[w], mutex[w]) = OfQueue(Waiting)
    BY <1>5, HomeIs
  <2>3. In(d[OfQueue(Waiting)], w)
    BY <2>1, <2>2, AmongHome
  <2>4. w \in WaitersOf(t) /\ WaitersOf(t) \in SUBSET Thread
    BY <1>5 DEF WaitersOf
  <2>5. Meets(Walk(h, Waiting), WaitersOf(t))
    BY <2>1, <2>3, <2>4, QueueNumbers, MeetsIs
  <2> QED
    BY <1>1, <1>2, <1>5, <2>5 DEF HasWaiter
<1>6. n # NULL
  <2> SUFFICES ASSUME n = NULL PROVE FALSE
    OBVIOUS
  <2>1. \A u \in Thread : g[u] \notin {"ACTIVE", "RUNNABLE"}
    BY <1>3, NextNodeIs DEF n
  <2>2. Stuck(g, t)
    BY <1>1, <1>4, <1>5, <2>1 DEF Stuck
  <2> QED
    BY <1>4, <2>2
<1>7. n \in Thread /\ g[n] \in {"ACTIVE", "RUNNABLE"}
  BY <1>3, <1>6, NextNodeIs DEF n
<1>8. pc'[n] # "lock_sched"
  BY <1>2, <1>7
<1>9. \E e : /\ ShapeOf(Taken(h), g, mutex, [sinceRun EXCEPT ![t] = 0], FALSE, n, pc', e)
             /\ SameWaiters(d, e)
  BY <1>3, <1>4, <1>6, <1>8, DispatchShape DEF n
<1>10. ThenShaped(c)
  <2>1. PICK e : /\ ShapeOf(Taken(h), g, mutex, [sinceRun EXCEPT ![t] = 0], FALSE, n, pc', e)
                 /\ SameWaiters(d, e)
    BY <1>9
  <2>2. ShapeOf(heap', activeFlag', mutex', sinceRun', recursing', running', pc', e)
    BY <1>2, <1>6, <2>1
  <2>3. SameWaiters(c, e)
    BY <1>3, <2>1 DEF SameWaiters
  <2> QED
    BY <2>2, <2>3 DEF ThenShaped
<1>11. Dispatches(t, n)
  BY <1>1, <1>2, <1>4, <1>5, <1>6, <1>7 DEF Dispatches
<1> QED
  BY <1>7, <1>10, <1>11

-----------------------------------------------------------------------------
(* The inductive invariant, and who runs. *)

\* CalmInv, with the lists that a proof can name.
Good ==
  /\ Shaped /\ StartInv /\ FlagInv /\ HeldInv /\ JoinInv /\ ValueInv
  /\ process \in {"up", "exited"}

\* The processor is in a call of t, its own code, or a pass for it.
Acting(t) ==
  /\ t = running /\ currThread = t
  /\ activeFlag[Main] \notin {"NONE", "DEAD"}
  /\ pc[Main] \notin {"exit_value", "exit_sched", "end_dead", "end_sched", "end_done"}
  /\ recursing => activeFlag[t] = "DEAD"
  /\ activeFlag[t] \in IF recursing THEN OffFlags(pc[t]) ELSE OnFlags(pc[t])
  /\ \A u \in Thread : u # t => activeFlag[u] \in OffFlags(pc[u])

\* The parts of the invariant for the thread that runs.
LEMMA ActingIs ==
  ASSUME StartInv, FlagInv, NEW t \in Thread, currThread = t
  PROVE  Acting(t)
<1>1. currThread = running
  BY NullIsNoThread DEF StartInv
<1>2. activeFlag[Main] \notin {"NONE", "DEAD"}
      /\ pc[Main] \notin {"exit_value", "exit_sched", "end_dead", "end_sched", "end_done"}
      /\ (recursing => activeFlag[running] = "DEAD")
  BY NullIsNoThread DEF StartInv
<1> QED
  BY <1>1, <1>2 DEF FlagInv, Acting

\* Where a thread off the processor is, and the flags it has there.
LEMMA OffIs ==
  ASSUME NEW p, OffFlags(p) # {}
  PROVE  /\ p \in {"user", "lock_tas", "join_done", "end_done"}
         /\ p = "user" => OffFlags(p) = {"NONE", "ACTIVE", "RUNNABLE", "DEAD"}
         /\ p = "lock_tas" => OffFlags(p) = {"ACTIVE", "RUNNABLE", "BLOCKING"}
         /\ p = "join_done" => OffFlags(p) = {"ACTIVE", "RUNNABLE", "WAITING"}
         /\ p = "end_done" => OffFlags(p) = {"DEAD"}
  BY DEF OffFlags

\* The flags of the thread on the processor.
LEMMA OnIs ==
  ASSUME NEW p
  PROVE  /\ p = "yield_sched" => OnFlags(p) = {"YIELD"}
         /\ p \in {"exit_value", "exit_sched", "end_sched"} => OnFlags(p) = {"DEAD"}
         /\ p = "join_list" => OnFlags(p) = {"WAITING"}
         /\ p \in {"lock_enqueue", "lock_sched"} => OnFlags(p) = {"BLOCKING"}
         /\ p = "join_sched" => OnFlags(p) = {"WAITING", "ACTIVE", "RUNNABLE"}
         /\ p = "end_done" => OnFlags(p) = {}
         /\ p \notin {"yield_sched", "exit_value", "exit_sched", "end_sched", "join_list",
                      "lock_enqueue", "lock_sched", "join_sched", "end_done"}
              => OnFlags(p) = {"ACTIVE", "RUNNABLE"}
  BY DEF OnFlags

\* One thread makes the joins, and of others.
LEMMA OneWaits ==
  ASSUME TypeOK, Calm, JoinInv, FlagInv,
         NEW u \in Thread, pc[u] \in JoinPCs \/ activeFlag[u] = "WAITING"
  PROVE  /\ pc[u] \in JoinPCs /\ target[u] \in Thread /\ target[u] # u
         /\ << u, target[u] >> \in Joins
         /\ \A v \in Thread : pc[v] \in JoinPCs \/ activeFlag[v] = "WAITING" => v = u
         /\ \A v, x \in Thread : << v, x >> \in Joins => v = u /\ x # u
<1>1. ASSUME NEW v \in Thread, pc[v] \in JoinPCs \/ activeFlag[v] = "WAITING"
      PROVE  pc[v] \in JoinPCs
  <2> SUFFICES ASSUME activeFlag[v] = "WAITING" PROVE pc[v] \in JoinPCs
    BY <1>1
  <2>1. "WAITING" \in OnFlags(pc[v]) \/ "WAITING" \in OffFlags(pc[v])
    BY DEF FlagInv
  <2> QED
    BY <2>1, OnIs, OffIs DEF JoinPCs
<1>2. \A v \in Thread : pc[v] \in JoinPCs => target[v] # NULL /\ << v, target[v] >> \in Joins
  BY DEF JoinInv
<1>3. PICK j \in Thread : Joins \subseteq {j} \X (Thread \ {j})
  BY DEF Calm, OneJoiner
<1>4. \A v, x : << v, x >> \in Joins => v = j /\ x \in Thread /\ x # j
  BY <1>3
<1>5. pc[u] \in JoinPCs /\ << u, target[u] >> \in Joins
  BY <1>1, <1>2
<1>6. u = j /\ target[u] \in Thread /\ target[u] # j
  BY <1>4, <1>5
<1>7. \A v \in Thread : pc[v] \in JoinPCs \/ activeFlag[v] = "WAITING" => v = u
  <2> SUFFICES ASSUME NEW v \in Thread, pc[v] \in JoinPCs \/ activeFlag[v] = "WAITING" PROVE v = u
    OBVIOUS
  <2>1. pc[v] \in JoinPCs
    BY <1>1
  <2>2. << v, target[v] >> \in Joins
    BY <1>2, <2>1
  <2> QED
    BY <1>4, <1>6, <2>2
<1> QED
  BY <1>4, <1>5, <1>6, <1>7

\* Somebody can run, ...
LEMMA NotStuck ==
  ASSUME Inv, Calm, Good, NEW t \in Thread, Acting(t),
         recursing \/ pc[t] \in SchedulerPCs \cup {"user"},
         NEW g \in [Thread -> Flags], Stuck(g, t)
  PROVE  FALSE
<1>1. TypeOK /\ LockInv /\ Shaped /\ StartInv /\ FlagInv /\ HeldInv /\ JoinInv /\ ValueInv
  BY DEF Good, Inv
<1>2. \A u \in Thread : activeFlag[u] \in Flags
  BY <1>1 DEF TypeOK
<1>3. ASSUME NEW u \in Thread PROVE activeFlag[u] \in {"NONE", "BLOCKING", "DEAD", "WAITING"}
                                     /\ g[u] = activeFlag[u]
  <2>1. CASE u = t
    BY <1>2, <2>1 DEF Stuck, FlagAfter, Flags
  <2>2. CASE u # t
    <3>1. activeFlag[u] \in OffFlags(pc[u])
      BY <2>2 DEF Acting
    <3>2. activeFlag[u] # "YIELD"
      BY <3>1, OffIs
    <3>3. Ages(activeFlag[u], g[u]) /\ g[u] \notin {"ACTIVE", "RUNNABLE"}
      BY <2>2 DEF Stuck
    <3> QED
      BY <1>2, <3>2, <3>3 DEF Ages, Flags
  <2> QED
    BY <2>1, <2>2
<1> DEFINE S == {u \in Thread : activeFlag[u] = "BLOCKING"}
           r == [u \in S |-> mutex[u]]
<1>4. ASSUME NEW u \in S PROVE pc[u] \in LockPCs /\ mutex[u] \in Mutex
  <2>1. "BLOCKING" \in OnFlags(pc[u]) \/ "BLOCKING" \in OffFlags(pc[u])
    BY <1>1 DEF FlagInv
  <2>2. pc[u] \in LockPCs
    BY <2>1, OnIs, OffIs DEF LockPCs
  <2> QED
    BY <2>2 DEF Inv, ArgumentsInv
<1>5. ASSUME NEW u \in S PROVE \E v \in S : r[u] < r[v]
  <2>1. Contended(mutex[u]) \/ Woken(mutex[u])
    BY <1>1 DEF HeldInv
  <2>2. ~ Woken(mutex[u])
    BY <1>3 DEF Woken
  <2>3. flag[mutex[u]] = 1
    BY <2>1, <2>2 DEF Contended
  <2>4. PICK v \in Thread : InCritical(v, mutex[u])
    BY <1>1, <1>4, <2>3 DEF HeldInv
  <2>5. pc[v] # "lock_done"
    <3>1. activeFlag[v] \in OnFlags(pc[v]) \/ activeFlag[v] \in OffFlags(pc[v])
      BY <1>1 DEF FlagInv
    <3> QED
      BY <1>3, <3>1, OnIs, OffIs
  <2>6. mutex[u] \in held[v]
    BY <2>4, <2>5 DEF InCritical
  <2>7. activeFlag[v] \notin {"NONE", "DEAD", "WAITING"}
    BY <1>1, <2>6 DEF HeldInv
  <2>8. v \in S
    BY <1>3, <2>7
  <2>9. mutex[u] < mutex[v]
    BY <1>1, <1>4, <2>6, <2>8 DEF HeldInv
  <2> QED
    BY <2>8, <2>9
<1>6. S = {}
  <2>1. IsFiniteSet(S)
    BY ThreadsFinite, FS_Subset
  <2>2. r \in [S -> Int]
    <3>1. ASSUME NEW u \in S PROVE mutex[u] \in Int
      <4>1. mutex[u] \in Nat
        BY <1>4, MutexesOrdered
      <4> QED
        BY <4>1
    <3> HIDE DEF S
    <3> QED
      BY <3>1
  <2> HIDE DEF S, r
  <2> QED
    BY <1>5, <2>1, <2>2, NoClimb
<1>7. activeFlag[Main] = "WAITING" /\ Main \in Thread
  BY <1>3, <1>6, MainIsThread DEF Acting
<1> DEFINE x == target[Main]
<1>8. /\ pc[Main] \in JoinPCs /\ x \in Thread /\ x # Main /\ << Main, x >> \in Joins
      /\ \A v \in Thread : activeFlag[v] = "WAITING" => v = Main
  BY <1>1, <1>7, OneWaits
<1>9. pc[Main] # "join_list"
  <2>1. CASE Main = t
    BY <1>7, <2>1 DEF Acting, SchedulerPCs
  <2>2. CASE Main # t
    BY <1>7, <2>2, OffIs DEF Acting
  <2> QED
    BY <2>1, <2>2
<1>10. /\ x \in returnList[Main] /\ activeFlag[x] # "NONE"
       /\ activeFlag[x] # "DEAD" \/ (running = x /\ ~ recursing)
  <2>1. target[Main] # NULL
    BY <1>8, NullIsNoThread
  <2> QED
    BY <1>1, <1>7, <1>9, <2>1 DEF JoinInv
<1>11. x \notin S /\ activeFlag[x] # "WAITING"
  BY <1>6, <1>8
<1>12. activeFlag[x] = "DEAD"
  BY <1>3, <1>8, <1>10, <1>11
<1>13. x = t
  BY <1>10, <1>12 DEF Acting
<1>14. g[Main] = "WAITING"
  BY <1>3, <1>7
<1> QED
  BY <1>7, <1>10, <1>12, <1>13, <1>14 DEF Stuck

\* ... and no loop goes on for ever.
LEMMA NoCircles ==
  ASSUME TypeOK, Shaped
  PROVE  ~ AgingCircles
<1> SUFFICES ASSUME AgingCircles PROVE FALSE
  OBVIOUS
<1>1. PICK c : ShapeOf(heap, activeFlag, mutex, sinceRun, recursing, running, pc, c)
  BY DEF Shaped
<1> DEFINE x == c[OfQueue(Low)]
           y == c[OfQueue(Running)]
<1>2. Chained(heap, c) /\ Sorted(x, sinceRun) /\ Rears(heap, c, recursing, sinceRun)
  BY <1>1 DEF ShapeOf
<1>3. x # << >> /\ ~ Young(x, sinceRun) /\ Promoted = x[1]
  BY <1>2, PromotedIs DEF AgingCircles
<1>4. y # << >> /\ x \in Seq(Thread) /\ y \in Seq(Thread) /\ Once(c)
  BY <1>2, ChainedIs, QueueNumbers DEF AgingCircles
<1>5. heap.rear[Running] = y[Len(y)]
  BY <1>2, <1>3, <1>4, QueueNumbers DEF Rears, RearIs
<1>6. 1 \in 1 .. Len(x) /\ Len(y) \in 1 .. Len(y)
  BY <1>3, <1>4, SeqIs
<1>7. x[1] = y[Len(y)]
  BY <1>3, <1>5 DEF AgingCircles
<1>8. OfQueue(Low) \in List /\ OfQueue(Running) \in List /\ OfQueue(Low) # OfQueue(Running)
  BY FrontAndRear
<1> QED
  BY <1>4, <1>6, <1>7, <1>8, OnceIs

\* Where the caller of a pass is after it.
Moves(t) ==
  \/ /\ ~ recursing /\ pc[t] \in SchedulerPCs
     /\ pc' = [pc EXCEPT ![t] = AfterScheduler[pc[t]]]
  \/ (recursing \/ pc[t] = "user") /\ pc' = pc

\* Where a call goes on after its pass.
LEMMA AfterIs ==
  ASSUME NEW p \in SchedulerPCs
  PROVE  /\ p = "lock_sched" => AfterScheduler[p] = "lock_tas"
         /\ p = "join_sched" => AfterScheduler[p] = "join_done"
         /\ p = "end_sched" => AfterScheduler[p] = "end_done"
         /\ p \notin {"lock_sched", "join_sched", "end_sched"} => AfterScheduler[p] = "user"
  BY DEF AfterScheduler

\* Where the thread that was running is, and will go on.
LEMMA MovesIs ==
  ASSUME TypeOK, NEW t \in Thread, Moves(t), Acting(t)
  PROVE  /\ \A u \in Thread : u # t => pc'[u] = pc[u]
         /\ recursing \/ pc[t] \in SchedulerPCs \cup {"user"}
         /\ pc[t] = "lock_sched" => pc'[t] = "lock_tas"
         /\ pc[t] = "join_sched" => pc'[t] = "join_done"
         /\ pc[t] \in {"end_sched", "end_done"} => pc'[t] = "end_done"
         /\ pc[t] \in {"create_sched", "yield_sched", "exit_sched", "unlock_sched", "user"}
              => pc'[t] = "user"
         /\ pc[t] \in {"lock_sched", "join_sched", "end_sched", "end_done", "create_sched",
                       "yield_sched", "exit_sched", "unlock_sched", "user"}
<1>1. CASE ~ recursing /\ pc[t] \in SchedulerPCs
  <2>1. pc' = [pc EXCEPT ![t] = AfterScheduler[pc[t]]]
    BY <1>1 DEF Moves, SchedulerPCs
  <2>2. pc'[t] = AfterScheduler[pc[t]] /\ \A u \in Thread : u # t => pc'[u] = pc[u]
    BY <2>1 DEF TypeOK
  <2>3. pc[t] \in {"lock_sched", "join_sched", "end_sched", "create_sched",
                       "yield_sched", "exit_sched", "unlock_sched"}
    BY <1>1 DEF SchedulerPCs
  <2> QED
    BY <1>1, <2>2, <2>3, AfterIs
<1>2. CASE recursing \/ pc[t] \notin SchedulerPCs
  <2>1. pc' = pc /\ (recursing \/ pc[t] = "user")
    BY <1>2 DEF Moves
  <2>2. recursing => pc[t] \in {"user", "end_done"}
    <3> SUFFICES ASSUME recursing PROVE pc[t] \in {"user", "end_done"}
      OBVIOUS
    <3>1. activeFlag[t] \in OffFlags(pc[t]) /\ activeFlag[t] = "DEAD"
      BY DEF Acting
    <3> QED
      BY <3>1, OffIs
  <2> QED
    BY <2>1, <2>2
<1> QED
  BY <1>1, <1>2

\* Whoever calls scheduler() may be switched out.
LEMMA IsReady ==
  ASSUME Inv, Calm, Good, NEW t \in Thread, Moves(t), Acting(t)
  PROVE  Ready(t)
<1>1. TypeOK /\ JoinInv /\ FlagInv
  BY DEF Inv, Good
<1>2. \A u, v \in Thread : activeFlag[u] = "WAITING" /\ activeFlag[v] = "WAITING" => u = v
  BY <1>1, OneWaits
<1>3. recursing => activeFlag[t] = "DEAD"
  BY DEF Acting
<1>4. recursing \/ pc[t] = "lock_sched" <=> recursing \/ activeFlag[t] = "BLOCKING"
  <2> SUFFICES ASSUME ~ recursing PROVE pc[t] = "lock_sched" <=> activeFlag[t] = "BLOCKING"
    OBVIOUS
  <2>1. activeFlag[t] \in OnFlags(pc[t])
    BY DEF Acting
  <2> QED
    BY <1>1, <2>1, OnIs, MovesIs
<1>5. activeFlag[t] # "NONE"
  <2>1. ~ recursing => activeFlag[t] \in OnFlags(pc[t])
    BY DEF Acting
  <2> QED
    BY <1>3, <2>1, OnIs
<1> QED
  BY <1>2, <1>3, <1>4, <1>5 DEF Ready, Acting

\* What a pass does.
LEMMA PassEffect ==
  ASSUME Inv, Calm, Good, NEW t \in Thread, Moves(t), Acting(t), Pass(t), UNCHANGED mutex
  PROVE  /\ Shaped' /\ \A c : NowShaped(c) => ThenShaped(c)
         /\ (\E w \in Thread : Wakes(t, w)) \/ (\E n \in Thread : Dispatches(t, n))
<1>1. TypeOK /\ Shaped /\ Ready(t)
  BY IsReady DEF Inv, Good
<1>0. PICK b : NowShaped(b)
  BY <1>1 DEF Shaped, NowShaped
<1>4. (\A c : NowShaped(c) => ThenShaped(c)) => Shaped'
  BY <1>0 DEF Shaped, ThenShaped
<1>2. CASE WakeJoiner(t)
  BY <1>0, <1>1, <1>2, <1>4, PassWakes
<1>3. CASE Dispatch(t)
  <2>1. ~ \E g \in [Thread -> Flags] : Stuck(g, t)
    BY <1>1, MovesIs, NotStuck
  <2>2. ASSUME NEW u \in Thread, activeFlag'[u] \in {"ACTIVE", "RUNNABLE"}, pc'[u] = "lock_sched"
        PROVE  FALSE
    <3>1. u # t
      BY <1>1, <2>2, MovesIs
    <3>2. pc[u] = "lock_sched" /\ activeFlag[u] \in OffFlags(pc[u])
      BY <1>1, <2>2, <3>1, MovesIs DEF Acting
    <3> QED
      BY <3>2, OffIs
  <2> QED
    BY <1>0, <1>1, <1>3, <1>4, <2>1, <2>2, PassDispatches
<1> QED
  BY <1>2, <1>3 DEF Pass

-----------------------------------------------------------------------------
(* What goes with the lists, when a waiter is woken. *)

\* The state of a pass that wakes w.
WakeState(t, w) ==
  /\ activeFlag[t] = "DEAD" /\ activeFlag'[t] = "DEAD" /\ ~ recursing /\ recursing'
  /\ pc[t] \in {"exit_sched", "end_sched"}
  /\ t # Main /\ w # t /\ pc[w] = "join_done" /\ target[w] = t /\ << w, t >> \in Joins
  /\ activeFlag[w] = "WAITING" /\ activeFlag'[w] = "ACTIVE"
  /\ \A u \in Thread : u # w => activeFlag[u] # "WAITING" /\ pc[u] \notin JoinPCs
  /\ \A u \in Thread : u # w => Ages(activeFlag[u], activeFlag'[u])
  /\ running' = t /\ currThread' = t /\ running = t

\* The only joiner is woken from the join of the thread that died.
LEMMA WakesAre ==
  ASSUME Inv, Calm, Good, NEW t \in Thread, Moves(t), Acting(t), NEW w \in Thread, Wakes(t, w)
  PROVE  WakeState(t, w)
<1>1. /\ w # t /\ activeFlag[w] = "WAITING" /\ t \in returnList[w]
      /\ activeFlag[t] = "DEAD" /\ ~ recursing
      /\ activeFlag'[w] = "ACTIVE" /\ activeFlag'[t] = "DEAD"
      /\ \A u \in Thread \ {w} : Ages(activeFlag[u], activeFlag'[u])
      /\ recursing' = TRUE /\ running' = running /\ currThread' = currThread
  BY DEF Wakes
<1>2. TypeOK /\ JoinInv /\ FlagInv
  BY DEF Inv, Good
<1>3. activeFlag[w] \in OffFlags(pc[w]) /\ activeFlag[t] \in OnFlags(pc[t])
  BY <1>1 DEF Acting
<1>4. pc[w] = "join_done"
  BY <1>1, <1>3, OffIs
<1>5. pc[t] \in {"exit_sched", "end_sched"}
  BY <1>1, <1>2, <1>3, MovesIs, OnIs
<1>6. /\ target[w] \in Thread /\ << w, target[w] >> \in Joins
      /\ \A v \in Thread : pc[v] \in JoinPCs \/ activeFlag[v] = "WAITING" => v = w
  BY <1>1, <1>2, OneWaits
<1>7. t \notin joined[w]
  BY <1>2 DEF JoinInv, Acting
<1>8. target[w] = t
  BY <1>1, <1>2, <1>7 DEF JoinInv
<1> QED
  BY <1>1, <1>4, <1>5, <1>6, <1>8 DEF Acting, WakeState

\* Flags, places in the calls and stored values after it.
LEMMA WakeFlags ==
  ASSUME Inv, Calm, Good, NEW t \in Thread, Moves(t), Acting(t), NEW w \in Thread, Wakes(t, w)
  PROVE  FlagInv' /\ StartInv' /\ ValueInv'
<1>0. WakeState(t, w)
  BY WakesAre
<1>1. /\ activeFlag[t] = "DEAD" /\ activeFlag'[t] = "DEAD" /\ ~ recursing /\ recursing'
      /\ pc[t] \in {"exit_sched", "end_sched"}
      /\ t # Main /\ w # t /\ pc[w] = "join_done"
      /\ activeFlag[w] = "WAITING" /\ activeFlag'[w] = "ACTIVE"
      /\ \A u \in Thread : u # w => Ages(activeFlag[u], activeFlag'[u])
      /\ running' = t /\ currThread' = t /\ running = t
  BY <1>0 DEF WakeState
<1>2. TypeOK /\ FlagInv /\ StartInv /\ ValueInv
  BY DEF Inv, Good
<1>3. /\ \A u \in Thread : u # t => pc'[u] = pc[u]
      /\ pc'[t] \in {"user", "end_done"}
  BY <1>1, <1>2, MovesIs
<1>4. FlagInv'
  <2> SUFFICES ASSUME NEW u \in Thread PROVE activeFlag'[u] \in OffFlags(pc'[u])
    BY <1>1 DEF FlagInv
  <2>1. CASE u = t
    BY <1>1, <1>3, <2>1 DEF OffFlags
  <2>2. CASE u = w
    BY <1>1, <1>3, <2>2 DEF OffFlags
  <2>3. CASE u # t /\ u # w
    <3>1. activeFlag[u] \in OffFlags(pc[u]) /\ Ages(activeFlag[u], activeFlag'[u])
      BY <1>1, <2>3 DEF Acting
    <3>2. activeFlag'[u] \in OffFlags(pc[u])
      BY <3>1, OffIs DEF Ages
    <3> QED
      BY <1>3, <2>3, <3>2
  <2> QED
    BY <2>1, <2>2, <2>3
<1>5. StartInv'
  <2>1. activeFlag'[Main] \notin {"NONE", "DEAD"}
    BY <1>1, MainIsThread DEF Acting, Ages
  <2>2. pc'[Main] = pc[Main]
    BY <1>1, <1>3, MainIsThread
  <2> QED
    BY <1>1, <2>1, <2>2 DEF StartInv, Acting
<1>6. ValueInv'
  <2>1. valueSet' = valueSet
    BY DEF Wakes
  <2> SUFFICES ASSUME NEW u \in Thread,
                      (activeFlag'[u] = "DEAD" /\ pc'[u] # "exit_value") \/ pc'[u] = "end_dead"
               PROVE  u \in valueSet
    BY <2>1 DEF ValueInv
  <2>2. CASE u = t
    BY <1>1, <1>2, <2>2 DEF ValueInv
  <2>3. CASE u # t
    BY <1>1, <1>2, <1>3, <2>3 DEF ValueInv, Ages
  <2> QED
    BY <2>2, <2>3
<1> QED
  BY <1>4, <1>5, <1>6

\* A pass does not touch a lock: ArgsSame, and nobody becomes or stops being blocked.
LEMMA PassHeld ==
  ASSUME Inv, Calm, Good, NEW t \in Thread, Moves(t), Acting(t),
         UNCHANGED << flag, mutex, held >>,
         \A u \in Thread : activeFlag'[u] = "BLOCKING" <=> activeFlag[u] = "BLOCKING",
         \A u \in Thread : u # t /\ activeFlag[u] \in {"ACTIVE", "RUNNABLE"}
                                      => activeFlag'[u] \in {"ACTIVE", "RUNNABLE"},
         \A u \in Thread : activeFlag[u] \notin {"NONE", "DEAD", "WAITING"}
                                      => activeFlag'[u] \notin {"NONE", "DEAD", "WAITING"}
  PROVE  HeldInv'
<1>1. TypeOK /\ HeldInv
  BY DEF Inv, Good
<1>2. /\ \A u \in Thread : u # t => pc'[u] = pc[u]
      /\ pc[t] = "lock_sched" => pc'[t] = "lock_tas"
      /\ pc[t] = "join_sched" => pc'[t] = "join_done"
      /\ pc[t] \in {"end_sched", "end_done"} => pc'[t] = "end_done"
      /\ pc[t] \in {"create_sched", "yield_sched", "exit_sched", "unlock_sched", "user"}
              => pc'[t] = "user"
      /\ pc[t] \in {"lock_sched", "join_sched", "end_sched", "end_done", "create_sched",
                       "yield_sched", "exit_sched", "unlock_sched", "user"}
  BY <1>1, MovesIs
<1>3. flag' = flag /\ mutex' = mutex /\ held' = held
  OBVIOUS
<1> DEFINE ending == {"exit_value", "exit_sched", "end_dead", "end_sched", "end_done"}
<1>4. ASSUME NEW u \in Thread, held[u] # {} PROVE pc'[u] \notin JoinPCs \cup ending
  <2>1. pc[u] \notin JoinPCs \cup ending
    BY <1>1, <1>4 DEF HeldInv
  <2> QED
    BY <1>2, <2>1 DEF JoinPCs
<1>5. ASSUME NEW u \in Thread PROVE /\ pc'[u] \in LockPCs => pc[u] \in LockPCs
                                    /\ pc'[u] \in {"lock_block", "lock_enqueue"} => pc'[u] = pc[u]
                                    /\ pc'[u] = "unlock_clear" <=> pc[u] = "unlock_clear"
                                    /\ pc'[u] = "lock_done" <=> pc[u] = "lock_done"
  BY <1>2 DEF LockPCs
<1>6. ASSUME NEW m PROVE Contended(m) => flag'[m] = 1 /\ \A u \in Thread : ~ (pc'[u] = "unlock_clear" /\ mutex'[u] = m)
  BY <1>3, <1>5 DEF Contended
<1>7. ASSUME NEW m, Woken(m)
      PROVE  \E u \in Thread : mutex'[u] = m /\ pc'[u] = "lock_tas" /\ activeFlag'[u] \in {"ACTIVE", "RUNNABLE"}
  <2>1. PICK u \in Thread : mutex[u] = m /\ pc[u] = "lock_tas" /\ activeFlag[u] \in {"ACTIVE", "RUNNABLE"}
    BY <1>7 DEF Woken
  <2>2. u # t
    BY <1>2, <2>1
  <2>3. activeFlag'[u] \in {"ACTIVE", "RUNNABLE"} /\ pc'[u] = "lock_tas" /\ mutex'[u] = m
    BY <1>2, <1>3, <2>1, <2>2
  <2> QED
    BY <2>3
<1>8. ASSUME NEW u \in Thread, activeFlag'[u] = "BLOCKING"
      PROVE  \/ flag'[mutex'[u]] = 1 /\ \A v \in Thread : ~ (pc'[v] = "unlock_clear" /\ mutex'[v] = mutex'[u])
             \/ \E v \in Thread : mutex'[v] = mutex'[u] /\ pc'[v] = "lock_tas" /\ activeFlag'[v] \in {"ACTIVE", "RUNNABLE"}
  <2>1. Contended(mutex[u]) \/ Woken(mutex[u])
    BY <1>1, <1>8 DEF HeldInv
  <2>2. mutex'[u] = mutex[u]
    BY <1>3
  <2> QED
    BY <1>6, <1>7, <2>1, <2>2
<1>9. ASSUME NEW u \in Thread
      PROVE  /\ held'[u] # {} =>
                  /\ pc'[u] \notin JoinPCs \cup ending
                  /\ activeFlag'[u] \notin {"NONE", "DEAD", "WAITING"}
             /\ pc'[u] \in LockPCs => \A n \in held'[u] : n < mutex'[u]
             /\ pc'[u] \in {"lock_block", "lock_enqueue"} => flag'[mutex'[u]] = 1
  <2>1. held'[u] # {} => activeFlag'[u] \notin {"NONE", "DEAD", "WAITING"}
    BY <1>1, <1>3 DEF HeldInv
  <2>2. pc'[u] \in LockPCs => \A n \in held'[u] : n < mutex'[u]
    BY <1>1, <1>3, <1>5 DEF HeldInv
  <2>3. pc'[u] \in {"lock_block", "lock_enqueue"} => flag'[mutex'[u]] = 1
    BY <1>1, <1>3, <1>5 DEF HeldInv
  <2> QED
    BY <1>3, <1>4, <2>1, <2>2, <2>3
<1>10. ASSUME NEW m \in Mutex, flag'[m] = 1
       PROVE  \E u \in Thread : m \in held'[u] \/ (pc'[u] = "lock_done" /\ mutex'[u] = m)
  <2>1. PICK u \in Thread : InCritical(u, m)
    BY <1>1, <1>3, <1>10 DEF HeldInv
  <2> QED
    BY <1>3, <1>5, <2>1 DEF InCritical
<1> QED
  BY <1>8, <1>9, <1>10 DEF HeldInv, Contended, Woken, InCritical

\* The locks, ...
LEMMA WakeHeld ==
  ASSUME Inv, Calm, Good, NEW t \in Thread, Moves(t), Acting(t), NEW w \in Thread, Wakes(t, w),
         UNCHANGED << flag, program_vars >>
  PROVE  HeldInv'
<1>0. WakeState(t, w)
  BY WakesAre
<1>1. /\ activeFlag[w] = "WAITING" /\ activeFlag'[w] = "ACTIVE"
      /\ \A u \in Thread : u # w => Ages(activeFlag[u], activeFlag'[u])
  BY <1>0 DEF WakeState
<1>2. /\ \A u \in Thread : activeFlag'[u] = "BLOCKING" <=> activeFlag[u] = "BLOCKING"
      /\ \A u \in Thread : u # t /\ activeFlag[u] \in {"ACTIVE", "RUNNABLE"}
                                      => activeFlag'[u] \in {"ACTIVE", "RUNNABLE"}
      /\ \A u \in Thread : activeFlag[u] \notin {"NONE", "DEAD", "WAITING"}
                                      => activeFlag'[u] \notin {"NONE", "DEAD", "WAITING"}
  BY <1>1 DEF Ages
<1>3. UNCHANGED << flag, mutex, held >>
  BY DEF program_vars
<1> QED
  BY <1>2, <1>3, PassHeld

\* One thread's part of JoinInv.
JoinOf(w) ==
    /\ pc[w] \in JoinPCs <=> target[w] # NULL
    /\ target[w] # NULL => << w, target[w] >> \in Joins /\ activeFlag[target[w]] # "NONE"
    /\ returnList[w] \subseteq joined[w] \cup {target[w]}
    /\ activeFlag[w] = "WAITING" /\ pc[w] # "join_list" => target[w] \in returnList[w]
    /\ pc[w] \in {"join_wait", "join_list"} \/ activeFlag[w] = "WAITING" =>
         activeFlag[target[w]] # "DEAD" \/ (running = target[w] /\ ~ recursing)
    /\ pc[w] \in {"join_sched", "join_done"} /\ activeFlag[w] # "WAITING" =>
         Buried(target[w]) /\ joinValue[w][target[w]] # "none"
    /\ \A x \in joined[w] :
         Buried(x) /\ x # running /\ joinValue[w][x] # "none" /\ << w, x >> \in Joins

\* ... and the joins after it.
LEMMA WakeJoin ==
  ASSUME Inv, Calm, Good, NEW t \in Thread, Moves(t), Acting(t), NEW w \in Thread, Wakes(t, w),
         UNCHANGED << flag, program_vars >>
  PROVE  JoinInv'
<1>0. WakeState(t, w)
  BY WakesAre
<1>1. /\ activeFlag[t] = "DEAD" /\ activeFlag'[t] = "DEAD" /\ ~ recursing /\ recursing'
      /\ pc[t] \in {"exit_sched", "end_sched"}
      /\ t # Main /\ w # t /\ pc[w] = "join_done" /\ target[w] = t /\ << w, t >> \in Joins
      /\ activeFlag[w] = "WAITING" /\ activeFlag'[w] = "ACTIVE"
      /\ \A u \in Thread : u # w => activeFlag[u] # "WAITING" /\ pc[u] \notin JoinPCs
      /\ \A u \in Thread : u # w => Ages(activeFlag[u], activeFlag'[u])
      /\ running' = t /\ currThread' = t /\ running = t
  BY <1>0 DEF WakeState
<1>2. TypeOK /\ JoinInv /\ ValueInv
  BY DEF Inv, Good
<1>3. /\ \A u \in Thread : u # t => pc'[u] = pc[u]
      /\ pc'[t] \in {"user", "end_done"}
  BY <1>1, <1>2, MovesIs
<1>4. /\ target' = target /\ joined' = joined /\ valueSet' = valueSet /\ returnList' = returnList
      /\ joinValue' = [joinValue EXCEPT ![w][t] = "field"]
  BY DEF Wakes, program_vars
<1>5. ASSUME NEW x, Buried(x), x \in Thread PROVE activeFlag'[x] = "DEAD" /\ x \in valueSet'
  BY <1>1, <1>4, <1>5 DEF Buried, Ages
<1>6. t \in valueSet
  BY <1>1, <1>2 DEF ValueInv
<1>7. ASSUME NEW u \in Thread, NEW x \in Thread PROVE
        /\ joinValue[u][x] # "none" => joinValue'[u][x] # "none"
        /\ joinValue'[w][t] # "none"
  BY <1>2, <1>4 DEF TypeOK
<1>8. ASSUME NEW u \in Thread, NEW x \in joined[u]
      PROVE  Buried(x)' /\ x # running' /\ joinValue'[u][x] # "none" /\ << u, x >> \in Joins
  <2>1. x \in Thread
    BY <1>2 DEF TypeOK
  <2>2. Buried(x) /\ x # running /\ joinValue[u][x] # "none" /\ << u, x >> \in Joins
    BY <1>2 DEF JoinInv
  <2> QED
    BY <1>1, <1>5, <1>7, <2>1, <2>2 DEF Buried
<1>9. ASSUME NEW u \in Thread PROVE JoinOf(u)'
  <2>1. /\ pc[u] \in JoinPCs <=> target[u] # NULL
        /\ target[u] # NULL => << u, target[u] >> \in Joins /\ activeFlag[target[u]] # "NONE"
        /\ returnList[u] \subseteq joined[u] \cup {target[u]}
    BY <1>2 DEF JoinInv
  <2>2. \A x \in joined'[u] :
           Buried(x)' /\ x # running' /\ joinValue'[u][x] # "none" /\ << u, x >> \in Joins
    BY <1>4, <1>8
  <2>3. activeFlag'[u] # "WAITING"
    BY <1>1 DEF Ages
  <2>4. CASE u = w
    <3>1. pc'[u] = "join_done" /\ target'[u] = t
      BY <1>1, <1>3, <1>4, <2>4
    <3>2. Buried(t)'
      BY <1>1, <1>4, <1>6 DEF Buried
    <3>3. "join_done" \in JoinPCs /\ t # NULL
      BY NullIsNoThread DEF JoinPCs
    <3>4. joinValue'[u][t] # "none"
      BY <1>7, <2>4
    <3> QED
      BY <1>1, <1>4, <2>1, <2>2, <2>3, <2>4, <3>1, <3>2, <3>3, <3>4 DEF JoinOf
  <2>5. CASE u # w
    <3>1. pc[u] \notin JoinPCs /\ pc'[u] \notin JoinPCs /\ target[u] = NULL /\ target'[u] = NULL
      BY <1>1, <1>3, <1>4, <2>1, <2>5 DEF JoinPCs
    <3>2. pc'[u] \notin {"join_wait", "join_list", "join_sched", "join_done"}
      BY <3>1 DEF JoinPCs
    <3> QED
      BY <1>4, <2>1, <2>2, <2>3, <3>1, <3>2 DEF JoinOf
  <2> QED
    BY <2>4, <2>5
<1> QED
  BY <1>9 DEF JoinInv, JoinOf

-----------------------------------------------------------------------------
(* ... and when the processor goes to n. *)

DispatchState(t, n) ==
  /\ running' = n /\ currThread' = n /\ ~ recursing'
  /\ activeFlag'[n] \in {"ACTIVE", "RUNNABLE"}
  /\ activeFlag'[t] = FlagAfter(activeFlag[t])
  /\ \A u \in Thread : u # t => Ages(activeFlag[u], activeFlag'[u])
  /\ \A u \in Thread : activeFlag'[u] \in {"NONE", "DEAD", "WAITING", "BLOCKING"} =>
                         activeFlag'[u] = activeFlag[u]
  /\ \A u \in Thread : activeFlag[u] \in {"NONE", "DEAD", "WAITING", "BLOCKING"} =>
                         activeFlag'[u] = activeFlag[u]
  /\ \A u \in Thread : activeFlag[u] \in {"ACTIVE", "RUNNABLE"} =>
                         activeFlag'[u] \in {"ACTIVE", "RUNNABLE"}

\* What a switch does to the flags.
LEMMA DispatchesAre ==
  ASSUME Inv, Calm, Good, NEW t \in Thread, Moves(t), Acting(t), NEW n \in Thread, Dispatches(t, n)
  PROVE  DispatchState(t, n)
<1>1. /\ activeFlag'[n] \in {"ACTIVE", "RUNNABLE"}
      /\ activeFlag'[t] = FlagAfter(activeFlag[t])
      /\ \A u \in Thread \ {t} : Ages(activeFlag[u], activeFlag'[u])
      /\ currThread' = n /\ running' = n /\ recursing' = FALSE
  BY DEF Dispatches
<1>2. activeFlag[t] # "NONE" /\ activeFlag[t] \in Flags
  <2>1. Ready(t) /\ TypeOK
    BY IsReady DEF Inv
  <2> QED
    BY <2>1 DEF Ready, TypeOK
<1>3. ASSUME NEW u \in Thread
      PROVE  /\ activeFlag'[u] \in {"NONE", "DEAD", "WAITING", "BLOCKING"} => activeFlag'[u] = activeFlag[u]
             /\ activeFlag[u] \in {"NONE", "DEAD", "WAITING", "BLOCKING"} => activeFlag'[u] = activeFlag[u]
             /\ activeFlag[u] \in {"ACTIVE", "RUNNABLE"} => activeFlag'[u] \in {"ACTIVE", "RUNNABLE"}
  <2>1. CASE u = t
    BY <1>1, <1>2, <2>1 DEF FlagAfter, Flags
  <2>2. CASE u # t
    BY <1>1, <2>2 DEF Ages
  <2> QED
    BY <2>1, <2>2
<1> QED
  BY <1>1, <1>3 DEF DispatchState

\* The locks, ...
LEMMA DispatchHeld ==
  ASSUME Inv, Calm, Good, NEW t \in Thread, Moves(t), Acting(t), NEW n \in Thread, Dispatches(t, n),
         UNCHANGED << flag, program_vars >>
  PROVE  HeldInv'
<1>0. DispatchState(t, n)
  BY DispatchesAre
<1>1. /\ \A u \in Thread : activeFlag'[u] = "BLOCKING" <=> activeFlag[u] = "BLOCKING"
      /\ \A u \in Thread : u # t /\ activeFlag[u] \in {"ACTIVE", "RUNNABLE"}
                                      => activeFlag'[u] \in {"ACTIVE", "RUNNABLE"}
      /\ \A u \in Thread : activeFlag[u] \notin {"NONE", "DEAD", "WAITING"}
                                      => activeFlag'[u] \notin {"NONE", "DEAD", "WAITING"}
  BY <1>0 DEF DispatchState
<1>2. UNCHANGED << flag, mutex, held >>
  BY DEF program_vars
<1> QED
  BY <1>1, <1>2, PassHeld

\* ... flags, places in the calls and stored values, ...
LEMMA DispatchFlags ==
  ASSUME Inv, Calm, Good, NEW t \in Thread, Moves(t), Acting(t), NEW n \in Thread, Dispatches(t, n)
  PROVE  FlagInv' /\ StartInv' /\ ValueInv'
<1>0. DispatchState(t, n)
  BY DispatchesAre
<1>1. /\ running' = n /\ currThread' = n /\ ~ recursing'
      /\ activeFlag'[n] \in {"ACTIVE", "RUNNABLE"}
      /\ activeFlag'[t] = FlagAfter(activeFlag[t])
      /\ \A u \in Thread : u # t => Ages(activeFlag[u], activeFlag'[u])
      /\ \A u \in Thread : activeFlag'[u] \in {"NONE", "DEAD", "WAITING", "BLOCKING"} =>
                             activeFlag'[u] = activeFlag[u]
  BY <1>0 DEF DispatchState
<1>2. TypeOK /\ FlagInv /\ StartInv /\ ValueInv
  BY DEF Inv, Good
<1>3. /\ \A u \in Thread : u # t => pc'[u] = pc[u]
      /\ pc[t] = "lock_sched" => pc'[t] = "lock_tas"
      /\ pc[t] = "join_sched" => pc'[t] = "join_done"
      /\ pc[t] \in {"end_sched", "end_done"} => pc'[t] = "end_done"
      /\ pc[t] \in {"create_sched", "yield_sched", "exit_sched", "unlock_sched", "user"}
              => pc'[t] = "user"
      /\ pc[t] \in {"lock_sched", "join_sched", "end_sched", "end_done", "create_sched",
                       "yield_sched", "exit_sched", "unlock_sched", "user"}
  BY <1>2, MovesIs
<1>4. ASSUME NEW u \in Thread PROVE activeFlag'[u] \in OffFlags(pc'[u])
  <2>1. CASE u = t
    <3>1. CASE recursing
      <4>1. activeFlag[t] = "DEAD" /\ activeFlag[t] \in OffFlags(pc[t])
        BY <3>1 DEF Acting
      <4>2. pc[t] \in {"user", "end_done"}
        BY <4>1, OffIs
      <4>3. pc'[t] = pc[t]
        BY <1>3, <4>2
      <4>4. activeFlag'[t] = activeFlag[t]
        BY <1>1, <4>1 DEF FlagAfter
      <4> QED
        BY <2>1, <4>1, <4>3, <4>4
    <3>2. CASE ~ recursing
      <4>1. activeFlag[t] \in OnFlags(pc[t])
        BY <3>2 DEF Acting
      <4>2. CASE pc[t] = "lock_sched"
        <5>1. activeFlag'[t] = "BLOCKING" /\ pc'[t] = "lock_tas"
          BY <1>1, <1>3, <4>1, <4>2, OnIs DEF FlagAfter
        <5> QED
          BY <2>1, <5>1 DEF OffFlags
      <4>3. CASE pc[t] = "join_sched"
        <5>1. activeFlag'[t] \in {"WAITING", "RUNNABLE"} /\ pc'[t] = "join_done"
          BY <1>1, <1>3, <4>1, <4>3, OnIs DEF FlagAfter
        <5> QED
          BY <2>1, <5>1 DEF OffFlags
      <4>4. CASE pc[t] \in {"end_sched", "end_done"}
        <5>1. activeFlag'[t] = "DEAD" /\ pc'[t] = "end_done"
          BY <1>1, <1>3, <4>1, <4>4, OnIs DEF FlagAfter
        <5> QED
          BY <2>1, <5>1 DEF OffFlags
      <4>5. CASE pc[t] \in {"create_sched", "yield_sched", "exit_sched", "unlock_sched", "user"}
        <5>1. pc'[t] = "user"
          BY <1>3, <4>5
        <5>2. activeFlag[t] \in {"ACTIVE", "RUNNABLE", "YIELD", "DEAD"}
          BY <4>1, <4>5, OnIs
        <5>3. activeFlag'[t] \in {"ACTIVE", "RUNNABLE", "DEAD"}
          BY <1>1, <5>2 DEF FlagAfter
        <5> QED
          BY <2>1, <5>1, <5>3 DEF OffFlags
      <4> QED
        BY <1>3, <4>2, <4>3, <4>4, <4>5
    <3> QED
      BY <3>1, <3>2
  <2>2. CASE u # t
    <3>1. activeFlag[u] \in OffFlags(pc[u]) /\ Ages(activeFlag[u], activeFlag'[u])
      BY <1>1, <2>2 DEF Acting
    <3>2. activeFlag'[u] \in OffFlags(pc[u])
      BY <3>1, OffIs DEF Ages
    <3> QED
      BY <1>3, <2>2, <3>2
  <2> QED
    BY <2>1, <2>2
<1>5. activeFlag'[n] \in OnFlags(pc'[n])
  <2>1. pc'[n] \in {"user", "lock_tas", "join_done"}
    BY <1>1, <1>4, OffIs
  <2>2. OnFlags(pc'[n]) = {"ACTIVE", "RUNNABLE"}
    BY <2>1, OnIs
  <2> QED
    BY <1>1, <2>2
<1>6. FlagInv'
  BY <1>1, <1>4, <1>5 DEF FlagInv
<1>7. StartInv'
  <2>1. activeFlag'[Main] \notin {"NONE", "DEAD"}
    BY <1>1, MainIsThread DEF Acting
  <2>2. pc[Main] \notin {"exit_value", "exit_sched", "end_dead", "end_sched", "end_done"}
    BY DEF Acting
  <2>3. pc'[Main] \notin {"exit_value", "exit_sched", "end_dead", "end_sched", "end_done"}
    BY <1>3, <2>2, MainIsThread
  <2> QED
    BY <1>1, <2>1, <2>3 DEF StartInv
<1>8. ValueInv'
  <2>1. valueSet' = valueSet
    BY DEF Dispatches
  <2> SUFFICES ASSUME NEW u \in Thread,
                      (activeFlag'[u] = "DEAD" /\ pc'[u] # "exit_value") \/ pc'[u] = "end_dead"
               PROVE  u \in valueSet
    BY <2>1 DEF ValueInv
  <2>2. CASE u = t
    <3>1. pc'[t] # "end_dead" /\ pc[t] # "exit_value"
      BY <1>3
    <3> QED
      BY <1>1, <1>2, <2>2, <3>1 DEF ValueInv
  <2>3. CASE u # t
    BY <1>1, <1>2, <1>3, <2>3 DEF ValueInv
  <2> QED
    BY <2>2, <2>3
<1> QED
  BY <1>6, <1>7, <1>8

\* ... and the joins after it: a joiner goes on only when its thread is dead.
LEMMA DispatchJoin ==
  ASSUME Inv, Calm, Good, NEW t \in Thread, Moves(t), Acting(t), NEW n \in Thread, Dispatches(t, n),
         UNCHANGED << flag, program_vars >>
  PROVE  JoinInv'
<1>0. DispatchState(t, n)
  BY DispatchesAre
<1>1. /\ running' = n /\ currThread' = n /\ ~ recursing'
      /\ activeFlag'[n] \in {"ACTIVE", "RUNNABLE"}
      /\ \A u \in Thread : activeFlag'[u] \in {"NONE", "DEAD", "WAITING", "BLOCKING"} =>
                             activeFlag'[u] = activeFlag[u]
      /\ \A u \in Thread : activeFlag[u] \in {"NONE", "DEAD", "WAITING", "BLOCKING"} =>
                             activeFlag'[u] = activeFlag[u]
  BY <1>0 DEF DispatchState
<1>2. TypeOK /\ JoinInv /\ ValueInv /\ FlagInv
  BY DEF Inv, Good
<1>3. /\ \A u \in Thread : u # t => pc'[u] = pc[u]
      /\ pc[t] = "lock_sched" => pc'[t] = "lock_tas"
      /\ pc[t] = "join_sched" => pc'[t] = "join_done"
      /\ pc[t] \in {"end_sched", "end_done"} => pc'[t] = "end_done"
      /\ pc[t] \in {"create_sched", "yield_sched", "exit_sched", "unlock_sched", "user"}
              => pc'[t] = "user"
      /\ pc[t] \in {"lock_sched", "join_sched", "end_sched", "end_done", "create_sched",
                       "yield_sched", "exit_sched", "unlock_sched", "user"}
  BY <1>2, MovesIs
<1>4. /\ target' = target /\ joined' = joined /\ valueSet' = valueSet /\ returnList' = returnList
      /\ joinValue' = joinValue
  BY DEF Dispatches, program_vars
<1>5. activeFlag[t] = "DEAD" => \A w \in Thread : activeFlag'[w] = "WAITING" => t \notin returnList[w]
  BY DEF Dispatches
<1>6. t = running /\ \A u \in Thread : u # t => activeFlag[u] \in OffFlags(pc[u])
  BY DEF Acting
<1>7. ASSUME NEW x \in Thread, Buried(x) PROVE Buried(x)' /\ x # running'
  <2>1. activeFlag[x] = "DEAD" /\ x \in valueSet
    BY <1>7 DEF Buried
  <2>2. activeFlag'[x] = "DEAD"
    BY <1>1, <2>1
  <2> QED
    BY <1>1, <1>4, <2>1, <2>2 DEF Buried
<1>8. ASSUME NEW u \in Thread, NEW x \in joined[u]
      PROVE  Buried(x)' /\ x # running' /\ joinValue'[u][x] # "none" /\ << u, x >> \in Joins
  <2>1. x \in Thread
    BY <1>2 DEF TypeOK
  <2>2. Buried(x) /\ x # running /\ joinValue[u][x] # "none" /\ << u, x >> \in Joins
    BY <1>2 DEF JoinInv
  <2> QED
    BY <1>4, <1>7, <2>1, <2>2
<1>9. ASSUME NEW u \in Thread PROVE JoinOf(u)'
  <2>1. /\ pc[u] \in JoinPCs <=> target[u] # NULL
        /\ target[u] # NULL => << u, target[u] >> \in Joins /\ activeFlag[target[u]] # "NONE"
        /\ returnList[u] \subseteq joined[u] \cup {target[u]}
        /\ activeFlag[u] = "WAITING" /\ pc[u] # "join_list" => target[u] \in returnList[u]
        /\ pc[u] \in {"join_wait", "join_list"} \/ activeFlag[u] = "WAITING" =>
             activeFlag[target[u]] # "DEAD" \/ (running = target[u] /\ ~ recursing)
        /\ pc[u] \in {"join_sched", "join_done"} /\ activeFlag[u] # "WAITING" =>
             Buried(target[u]) /\ joinValue[u][target[u]] # "none"
    BY <1>2 DEF JoinInv
  <2>2. \A x \in joined'[u] :
           Buried(x)' /\ x # running' /\ joinValue'[u][x] # "none" /\ << u, x >> \in Joins
    BY <1>4, <1>8
  <2>3. pc'[u] \in JoinPCs <=> pc[u] \in JoinPCs
    BY <1>3 DEF JoinPCs
  <2>4. target'[u] # NULL => << u, target'[u] >> \in Joins /\ activeFlag'[target'[u]] # "NONE"
    <3> SUFFICES ASSUME target[u] # NULL
                 PROVE  << u, target[u] >> \in Joins /\ activeFlag'[target[u]] # "NONE"
      BY <1>4
    <3>1. target[u] \in Thread
      BY <1>2 DEF TypeOK, Pointer
    <3> QED
      BY <1>1, <2>1, <3>1
  <2>5. pc'[u] \notin {"join_wait", "join_list"}
    <3>1. CASE u = t
      BY <1>3, <3>1
    <3>2. CASE u # t
      <4>1. activeFlag[u] \in OffFlags(pc[u]) /\ pc'[u] = pc[u]
        BY <1>3, <1>6, <3>2
      <4> QED
        BY <4>1, OffIs
    <3> QED
      BY <3>1, <3>2
  <2>6. pc[u] \notin {"join_wait", "join_list"}
    BY <1>3, <2>5
  <2>7. ASSUME activeFlag'[u] = "WAITING"
        PROVE  /\ target'[u] \in returnList'[u]
               /\ activeFlag'[target'[u]] # "DEAD"
    <3>1. activeFlag[u] = "WAITING"
      BY <1>1, <2>7
    <3>2. target[u] \in Thread /\ target[u] \in returnList[u]
      BY <1>2, <2>1, <2>6, <3>1, OneWaits
    <3>3. activeFlag[target[u]] # "DEAD" \/ (running = target[u] /\ ~ recursing)
      BY <2>1, <3>1
    <3>4. activeFlag[target[u]] # "DEAD"
      <4> SUFFICES ASSUME activeFlag[target[u]] = "DEAD" PROVE FALSE
        OBVIOUS
      <4>1. target[u] = t
        BY <1>6, <3>3
      <4> QED
        BY <1>5, <2>7, <3>2, <4>1
    <3>5. activeFlag'[target[u]] # "DEAD"
      BY <1>1, <3>2, <3>4
    <3> QED
      BY <1>4, <3>2, <3>5
  <2>8. ASSUME pc'[u] \in {"join_sched", "join_done"}, activeFlag'[u] # "WAITING"
        PROVE  Buried(target[u])' /\ joinValue'[u][target'[u]] # "none"
    <3>1. pc[u] \in {"join_sched", "join_done"} /\ activeFlag[u] # "WAITING"
      BY <1>1, <1>3, <2>8
    <3>2. Buried(target[u]) /\ joinValue[u][target[u]] # "none"
      BY <2>1, <3>1
    <3>3. target[u] \in Thread
      BY <1>2, <3>1, OneWaits DEF JoinPCs
    <3>4. Buried(target[u]) /\ target[u] \in Thread
      BY <3>2, <3>3
    <3>x. PICK x \in Thread : x = target[u]
      BY <3>3
    <3>5. target'[u] = x /\ Buried(x) /\ x \in Thread /\ x = target[u]
      BY <1>4, <3>4, <3>x
    <3>6. Buried(x)'
      <4>1. activeFlag[x] = "DEAD" /\ x \in valueSet
        BY <3>5 DEF Buried
      <4>2. activeFlag'[x] = "DEAD"
        BY <1>1, <3>5, <4>1
      <4> QED
        BY <1>1, <1>4, <4>1, <4>2 DEF Buried
    <3> QED
      BY <1>4, <3>2, <3>5, <3>6 DEF Buried
  <2> QED
    BY <1>4, <2>1, <2>2, <2>3, <2>4, <2>5, <2>7, <2>8 DEF JoinOf, Buried
<1> QED
  BY <1>9 DEF JoinInv, JoinOf

\* A pass keeps everything.
LEMMA PassGood ==
  ASSUME Inv, Calm, Good, NEW t \in Thread, Moves(t), Acting(t), Pass(t),
         UNCHANGED << flag, program_vars >>
  PROVE  Good'
<1>1. mutex' = mutex
  BY DEF program_vars
<1>2. Shaped' /\ ((\E w \in Thread : Wakes(t, w)) \/ (\E n \in Thread : Dispatches(t, n)))
  BY <1>1, PassEffect
<1>3. ASSUME NEW w \in Thread, Wakes(t, w) PROVE Good'
  <2>1. process' = process /\ process \in {"up", "exited"}
    BY <1>3 DEF Wakes, Good
  <2>2. HeldInv'
    BY <1>3, WakeHeld
  <2>3. JoinInv'
    BY <1>3, WakeJoin
  <2>4. FlagInv' /\ StartInv' /\ ValueInv'
    BY <1>3, WakeFlags
  <2> QED
    BY <1>2, <2>1, <2>2, <2>3, <2>4 DEF Good
<1>4. ASSUME NEW n \in Thread, Dispatches(t, n) PROVE Good'
  <2>1. process' = process /\ process \in {"up", "exited"}
    BY <1>4 DEF Dispatches, Good
  <2>2. HeldInv'
    BY <1>4, DispatchHeld
  <2>3. JoinInv'
    BY <1>4, DispatchJoin
  <2>4. FlagInv' /\ StartInv' /\ ValueInv'
    BY <1>4, DispatchFlags
  <2> QED
    BY <1>2, <2>1, <2>2, <2>3, <2>4 DEF Good
<1> QED
  BY <1>2, <1>3, <1>4

\* scheduler() is invoked by a call, by SIGALRM or by itself, for the thread
\* that runs.
LEMMA PassIs ==
  ASSUME Calm, Good, NEW t \in Thread, CallScheduler(t) \/ Alarm(t) \/ Recurse(t)
  PROVE  Moves(t) /\ Acting(t) /\ Pass(t) /\ UNCHANGED << flag, program_vars >>
<1>1. /\ currThread = t /\ Moves(t) /\ Pass(t) /\ UNCHANGED << flag, program_vars >>
  <2>1. CASE CallScheduler(t)
    BY <2>1 DEF CallScheduler, At, Executes, Goto, Moves
  <2>2. CASE Alarm(t)
    BY <2>2 DEF Alarm, At, Executes, Moves, Calm
  <2>3. CASE Recurse(t)
    BY <2>3 DEF Recurse, Moves
  <2> QED
    BY <2>1, <2>2, <2>3
<1>2. StartInv /\ FlagInv
  BY DEF Good
<1> QED
  BY <1>1, <1>2, ActingIs

\* However scheduler() was invoked.
LEMMA SchedulerGood ==
  ASSUME Inv, Calm, Good, NEW t \in Thread, CallScheduler(t) \/ Alarm(t) \/ Recurse(t)
  PROVE  Good'
  BY PassIs, PassGood

-----------------------------------------------------------------------------
(* The steps of a thread that runs. *)

\* A step of t outside the lists.
LEMMA LocalShape ==
  ASSUME TypeOK, Shaped, NEW t \in Thread, t = running, ~ recursing,
         UNCHANGED << heap, sinceRun, running, recursing >>,
         \A u \in Thread : u # t =>
           activeFlag'[u] = activeFlag[u] /\ mutex'[u] = mutex[u] /\ pc'[u] = pc[u],
         activeFlag[t] # "NONE", activeFlag'[t] # "NONE",
         pc[t] # "lock_sched", pc'[t] # "lock_sched"
  PROVE  Shaped'
<1>1. PICK c : ShapeOf(heap, activeFlag, mutex, sinceRun, recursing, running, pc, c)
  BY DEF Shaped
<1>2. /\ Chained(heap, c) /\ PlacedBy(c, activeFlag, mutex)
      /\ \A u \in Thread : ListedBy(activeFlag, running, recursing, pc, u) <=> Among(c, u)
      /\ Rears(heap, c, recursing, sinceRun)
      /\ Sorted(c[OfQueue(Low)], sinceRun)
      /\ ListedBy(activeFlag, running, recursing, pc, running) \/ NextIs(heap, c, running)
  BY <1>1 DEF ShapeOf
<1>3. ~ ListedBy(activeFlag, running, recursing, pc, t)
      /\ ~ ListedBy(activeFlag', running', recursing', pc', t)
  BY DEF ListedBy
<1>4. \A u \in Thread : ListedBy(activeFlag', running', recursing', pc', u) <=> Among(c, u)
  <2> SUFFICES ASSUME NEW u \in Thread
               PROVE  ListedBy(activeFlag', running', recursing', pc', u) <=> Among(c, u)
    OBVIOUS
  <2>1. CASE u = t
    BY <1>2, <1>3, <2>1
  <2>2. CASE u # t
    <3>1. ListedBy(activeFlag', running', recursing', pc', u)
            <=> ListedBy(activeFlag, running, recursing, pc, u)
      BY <2>2 DEF ListedBy
    <3> QED
      BY <1>2, <3>1
  <2> QED
    BY <2>1, <2>2
<1>5. PlacedBy(c, activeFlag', mutex')
  <2>1. \A u : Among(c, u) => activeFlag'[u] = activeFlag[u] /\ mutex'[u] = mutex[u]
    <3> SUFFICES ASSUME NEW u, Among(c, u)
                 PROVE  activeFlag'[u] = activeFlag[u] /\ mutex'[u] = mutex[u]
      OBVIOUS
    <3>1. u \in Thread
      <4>1. PICK l \in List : In(c[l], u)
        BY DEF Among
      <4>2. \A k \in 1 .. Len(c[l]) : c[l][k] \in Thread
        BY <1>2, ChainedIs
      <4> QED
        BY <4>1, <4>2 DEF In
    <3>2. u # t
      BY <1>2, <1>3
    <3> QED
      BY <3>1, <3>2
  <2> QED
    BY <1>2, <2>1, PlacedSame
<1>6. NextIs(heap', c, running')
  BY <1>2, <1>3
<1>7. ShapeOf(heap', activeFlag', mutex', sinceRun', recursing', running', pc', c)
  BY <1>2, <1>4, <1>5, <1>6 DEF ShapeOf
<1> QED
  BY <1>7 DEF Shaped

\* The flags after a step of t.
LEMMA LocalFlags ==
  ASSUME NEW t \in Thread, Acting(t), ~ recursing,
         UNCHANGED << currThread, running, recursing >>,
         \A u \in Thread : u # t =>
           /\ pc'[u] = pc[u]
           /\ \/ activeFlag'[u] = activeFlag[u]
              \/ activeFlag'[u] = "ACTIVE" /\ activeFlag[u] = "BLOCKING"
              \/ activeFlag'[u] = "ACTIVE" /\ activeFlag[u] = "NONE",
         activeFlag'[t] \in OnFlags(pc'[t]),
         t = Main => activeFlag'[t] # "DEAD" /\ pc'[t] \notin {"exit_value", "exit_sched",
                                                  "end_dead", "end_sched", "end_done"}
  PROVE  FlagInv' /\ StartInv'
<1>1. FlagInv'
  <2> SUFFICES ASSUME NEW u \in Thread
               PROVE  activeFlag'[u] \in IF u = t THEN OnFlags(pc'[u]) ELSE OffFlags(pc'[u])
    BY DEF FlagInv, Acting
  <2>1. CASE u # t
    <3>1. activeFlag[u] \in OffFlags(pc[u])
      BY <2>1 DEF Acting
    <3>2. activeFlag'[u] \in OffFlags(pc[u])
      BY <2>1, <3>1, OffIs
    <3> QED
      BY <2>1, <3>2
  <2> QED
    BY <2>1
<1>2. StartInv'
  <2>1. activeFlag'[t] # "NONE"
    BY OnIs
  <2>2. activeFlag'[Main] \notin {"NONE", "DEAD"}
        /\ pc'[Main] \notin {"exit_value", "exit_sched", "end_dead", "end_sched", "end_done"}
    BY <2>1, MainIsThread DEF Acting
  <2> QED
    BY <2>2 DEF StartInv, Acting
<1> QED
  BY <1>1, <1>2

\* t executes a statement, at pc[t].
LEMMA AtIs ==
  ASSUME Inv, Good, NEW t \in Thread, NEW p, At(t, p)
  PROVE  /\ Acting(t) /\ pc[t] = p /\ ~ recursing /\ process = "up"
         /\ activeFlag[t] \in OnFlags(p) /\ activeFlag[t] # "NONE"
<1>1. /\ currThread = t /\ pc[t] = p /\ ~ recursing /\ process = "up"
  BY DEF At, Executes
<1>2. Acting(t)
  BY <1>1, ActingIs DEF Good
<1>3. activeFlag[t] \in OnFlags(p)
  BY <1>1, <1>2 DEF Acting
<1> QED
  BY <1>1, <1>2, <1>3, OnIs

\* Who is in a call that does not ask for currThread, or holds a mutex, is the
\* current thread all the same.
LEMMA IsCurrent ==
  ASSUME Inv, Good, NEW t \in Thread, NEW p, Executes(t, p),
         p \in {"lock_tas", "lock_done", "unlock_clear", "join_done"} \/ held[t] # {}
  PROVE  At(t, p)
<1>1. StartInv /\ FlagInv /\ HeldInv /\ running = t /\ pc[t] = p
  BY DEF Executes, Good
<1>2. CASE currThread = running
  BY <1>1, <1>2 DEF At
<1>3. CASE currThread = NULL /\ activeFlag[t] = "NONE"
  <2>1. activeFlag[t] \in OffFlags(p) /\ held[t] = {}
    BY <1>1, <1>3, NullIsNoThread DEF FlagInv, HeldInv
  <2> QED
    BY <1>3, <2>1, OffIs
<1> QED
  BY <1>1, <1>2, <1>3 DEF StartInv

\* A step of t that changes the flag and the place of t alone.
LEMMA FlagStep ==
  ASSUME Inv, Good, NEW t \in Thread, NEW p, At(t, p), NEW q \in PC, Goto(t, q),
         NEW f, activeFlag' = [activeFlag EXCEPT ![t] = f], f \in OnFlags(q),
         UNCHANGED << heap, scheduling_vars >>, p # "lock_sched", q # "lock_sched",
         \A u \in Thread : u # t => mutex'[u] = mutex[u],
         t = Main => f # "DEAD" /\ q \notin {"exit_value", "exit_sched",
                                                  "end_dead", "end_sched", "end_done"}
  PROVE  Shaped' /\ FlagInv' /\ StartInv'
<1>1. TypeOK /\ Shaped
  BY DEF Inv, Good
<1>2. /\ Acting(t) /\ pc[t] = p /\ ~ recursing /\ activeFlag[t] # "NONE" /\ t = running
  BY AtIs DEF Acting
<1>3. /\ pc'[t] = q /\ activeFlag'[t] = f
      /\ \A u \in Thread : u # t => pc'[u] = pc[u] /\ activeFlag'[u] = activeFlag[u]
                                     /\ mutex'[u] = mutex[u]
  BY <1>1 DEF TypeOK, Goto
<1>4. UNCHANGED << heap, currThread, sinceRun, running, recursing >>
  BY DEF scheduling_vars, machine_vars
<1>5. f # "NONE"
  BY OnIs
<1>6. Shaped'
  BY <1>1, <1>2, <1>3, <1>4, <1>5, LocalShape
<1>7. FlagInv' /\ StartInv'
  BY <1>2, <1>3, <1>4, LocalFlags
<1> QED
  BY <1>6, <1>7

\* A step that is no lock's.
LEMMA HeldStep ==
  ASSUME TypeOK, HeldInv, NEW t \in Thread, UNCHANGED << flag, mutex, held >>,
         \A u \in Thread : u # t =>
           /\ pc'[u] = pc[u]
           /\ activeFlag'[u] = activeFlag[u] \/ (activeFlag[u] = "NONE" /\ activeFlag'[u] = "ACTIVE"),
         pc[t] \notin LockPCs \cup {"unlock_clear"}, pc'[t] \notin LockPCs \cup {"unlock_clear"},
         activeFlag'[t] # "BLOCKING",
         held[t] # {} =>
            /\ pc'[t] \notin JoinPCs \cup
                 {"exit_value", "exit_sched", "end_dead", "end_sched", "end_done"}
            /\ activeFlag'[t] \notin {"NONE", "DEAD", "WAITING"}
  PROVE  HeldInv'
<1>1. flag' = flag /\ mutex' = mutex /\ held' = held
  OBVIOUS
<1> DEFINE ending == {"exit_value", "exit_sched", "end_dead", "end_sched", "end_done"}
<1>2. ASSUME NEW u \in Thread
      PROVE  /\ held'[u] # {} =>
                  /\ pc'[u] \notin JoinPCs \cup ending
                  /\ activeFlag'[u] \notin {"NONE", "DEAD", "WAITING"}
             /\ pc'[u] \in LockPCs => \A n \in held'[u] : n < mutex'[u]
             /\ pc'[u] \in {"lock_block", "lock_enqueue"} => flag'[mutex'[u]] = 1
  <2>1. CASE u = t
    BY <1>1, <2>1 DEF LockPCs
  <2>2. CASE u # t
    BY <1>1, <2>2 DEF HeldInv
  <2> QED
    BY <2>1, <2>2
<1>3. ASSUME NEW u \in Thread PROVE /\ pc'[u] = "unlock_clear" <=> pc[u] = "unlock_clear"
                                    /\ pc'[u] = "lock_done" <=> pc[u] = "lock_done"
                                    /\ pc'[u] = "lock_tas" <=> pc[u] = "lock_tas"
  BY DEF LockPCs
<1>4. ASSUME NEW u \in Thread, activeFlag'[u] = "BLOCKING"
      PROVE  \/ flag'[mutex'[u]] = 1 /\ \A v \in Thread : ~ (pc'[v] = "unlock_clear" /\ mutex'[v] = mutex'[u])
             \/ \E v \in Thread : mutex'[v] = mutex'[u] /\ pc'[v] = "lock_tas" /\ activeFlag'[v] \in {"ACTIVE", "RUNNABLE"}
  <2>1. Contended(mutex[u]) \/ Woken(mutex[u])
    BY <1>4 DEF HeldInv
  <2>2. CASE Contended(mutex[u])
    BY <1>1, <1>3, <2>2 DEF Contended
  <2>3. CASE Woken(mutex[u])
    <3>1. PICK v \in Thread : mutex[v] = mutex[u] /\ pc[v] = "lock_tas" /\ activeFlag[v] \in {"ACTIVE", "RUNNABLE"}
      BY <2>3 DEF Woken
    <3>2. v # t
      BY <3>1 DEF LockPCs
    <3> QED
      BY <1>1, <1>3, <3>1, <3>2
  <2> QED
    BY <2>1, <2>2, <2>3
<1>5. ASSUME NEW m \in Mutex, flag'[m] = 1
       PROVE  \E u \in Thread : m \in held'[u] \/ (pc'[u] = "lock_done" /\ mutex'[u] = m)
  <2>1. PICK u \in Thread : InCritical(u, m)
    BY <1>1, <1>5 DEF HeldInv
  <2> QED
    BY <1>1, <1>3, <2>1 DEF InCritical
<1> QED
  BY <1>2, <1>4, <1>5 DEF HeldInv, Contended, Woken, InCritical

\* What a step of t may do to the flags its joiner looks at.
FlagsMove(t) ==
  /\ t = running /\ ~ recursing /\ running' = running /\ recursing' = recursing
  /\ valueSet \subseteq valueSet'
  /\ \A u \in Thread :
       /\ activeFlag[u] = "DEAD" => activeFlag'[u] = "DEAD"
       /\ activeFlag'[u] = "DEAD" => activeFlag[u] = "DEAD" \/ u = t
       /\ activeFlag[u] # "NONE" => activeFlag'[u] # "NONE"

\* A dead thread whose value is stored stays so while nobody dies or revives.
LEMMA BuriedStays ==
  ASSUME NEW t \in Thread, FlagsMove(t), NEW x \in Thread, Buried(x)
  PROVE  Buried(x)'
  BY DEF FlagsMove, Buried

\* A step of t that is not in a join of u.
LEMMA JoinOther ==
  ASSUME TypeOK, JoinInv, NEW t \in Thread, FlagsMove(t), NEW u \in Thread,
         target'[u] = target[u], joined'[u] = joined[u], returnList'[u] = returnList[u],
         joinValue'[u] = joinValue[u],
         activeFlag'[u] = "WAITING" <=> activeFlag[u] = "WAITING",
         pc'[u] = pc[u] \/ (pc[u] \notin JoinPCs /\ pc'[u] \notin JoinPCs)
  PROVE  JoinOf(u)'
<1>1. /\ pc[u] \in JoinPCs <=> target[u] # NULL
      /\ target[u] # NULL => << u, target[u] >> \in Joins /\ activeFlag[target[u]] # "NONE"
      /\ returnList[u] \subseteq joined[u] \cup {target[u]}
      /\ activeFlag[u] = "WAITING" /\ pc[u] # "join_list" => target[u] \in returnList[u]
      /\ pc[u] \in {"join_wait", "join_list"} \/ activeFlag[u] = "WAITING" =>
           activeFlag[target[u]] # "DEAD" \/ (running = target[u] /\ ~ recursing)
      /\ pc[u] \in {"join_sched", "join_done"} /\ activeFlag[u] # "WAITING" =>
           Buried(target[u]) /\ joinValue[u][target[u]] # "none"
      /\ \A x \in joined[u] :
           Buried(x) /\ x # running /\ joinValue[u][x] # "none" /\ << u, x >> \in Joins
  BY DEF JoinInv
<1>2. joined[u] \in SUBSET Thread /\ target[u] \in Thread \cup {NULL}
  BY DEF TypeOK, Pointer
<1>3. running' = running /\ recursing' = recursing /\ t = running /\ ~ recursing
  BY DEF FlagsMove
<1>4. \A x \in joined'[u] :
        Buried(x)' /\ x # running' /\ joinValue'[u][x] # "none" /\ << u, x >> \in Joins
  <2> TAKE x \in joined'[u]
  <2>1. x \in Thread /\ Buried(x) /\ x # running /\ joinValue[u][x] # "none" /\ << u, x >> \in Joins
    BY <1>1, <1>2
  <2> QED
    BY <1>3, <2>1, BuriedStays
<1>5. pc'[u] \in JoinPCs <=> pc[u] \in JoinPCs
  OBVIOUS
<1>6. target'[u] # NULL => << u, target'[u] >> \in Joins /\ activeFlag'[target'[u]] # "NONE"
  <2> SUFFICES ASSUME target[u] # NULL
               PROVE  << u, target[u] >> \in Joins /\ activeFlag'[target[u]] # "NONE"
    OBVIOUS
  <2>1. target[u] \in Thread /\ << u, target[u] >> \in Joins /\ activeFlag[target[u]] # "NONE"
    BY <1>1, <1>2
  <2> QED
    BY <2>1 DEF FlagsMove
<1>7. pc'[u] \in {"join_wait", "join_list"} \/ activeFlag'[u] = "WAITING" =>
           activeFlag'[target'[u]] # "DEAD" \/ (running' = target'[u] /\ ~ recursing')
  <2> SUFFICES ASSUME pc'[u] \in {"join_wait", "join_list"} \/ activeFlag'[u] = "WAITING",
                      activeFlag'[target[u]] = "DEAD"
               PROVE  running = target[u]
    BY <1>3
  <2>1. pc[u] \in {"join_wait", "join_list"} \/ activeFlag[u] = "WAITING"
    BY DEF JoinPCs
  <2>2. activeFlag[target[u]] # "DEAD" \/ running = target[u]
    BY <1>1, <2>1
  <2>3. CASE target[u] = NULL
    <3>1. activeFlag[u] = "WAITING" /\ pc[u] \notin JoinPCs
      BY <1>1, <2>1, <2>3 DEF JoinPCs
    <3>2. NULL \in returnList[u] /\ returnList[u] \in SUBSET Thread
      BY <1>1, <2>3, <3>1 DEF TypeOK, JoinPCs
    <3> QED
      BY <3>2, NullIsNoThread
  <2>4. CASE target[u] # NULL
    <3>1. target[u] \in Thread
      BY <1>2, <2>4
    <3> QED
      BY <1>3, <2>2, <3>1 DEF FlagsMove
  <2> QED
    BY <2>3, <2>4
<1>8. pc'[u] \in {"join_sched", "join_done"} /\ activeFlag'[u] # "WAITING" =>
           Buried(target[u])' /\ joinValue'[u][target'[u]] # "none"
  <2> SUFFICES ASSUME pc'[u] \in {"join_sched", "join_done"}, activeFlag'[u] # "WAITING"
               PROVE  Buried(target[u])' /\ joinValue'[u][target'[u]] # "none"
    OBVIOUS
  <2>1. pc[u] \in {"join_sched", "join_done"} /\ activeFlag[u] # "WAITING"
    BY DEF JoinPCs
  <2>2. Buried(target[u]) /\ joinValue[u][target[u]] # "none" /\ target[u] \in Thread
    BY <1>1, <1>2, <2>1 DEF JoinPCs
  <2>3. PICK x \in Thread : x = target[u]
    BY <2>2
  <2>4. Buried(x)'
    BY <2>2, <2>3, BuriedStays
  <2> QED
    BY <2>2, <2>3, <2>4 DEF Buried
<1>9. activeFlag'[u] = "WAITING" /\ pc'[u] # "join_list" => target'[u] \in returnList'[u]
  <2> SUFFICES ASSUME activeFlag'[u] = "WAITING", pc'[u] # "join_list"
               PROVE  target[u] \in returnList[u]
    OBVIOUS
  <2>1. activeFlag[u] = "WAITING" /\ pc[u] # "join_list"
    BY DEF JoinPCs
  <2> QED
    BY <1>1, <2>1
<1> QED
  BY <1>1, <1>4, <1>5, <1>6, <1>7, <1>8, <1>9 DEF JoinOf, Buried

-----------------------------------------------------------------------------
(* yield, exit and the end of a thread function. *)

\* The thread that runs goes from p to q, outside of locks and joins, with flag f.
Steps(t, p, q, f) ==
  /\ At(t, p) /\ Goto(t, q) /\ q \in PC /\ p # "lock_sched"
  /\ activeFlag' = [activeFlag EXCEPT ![t] = f] /\ f \in OnFlags(q)
  /\ activeFlag[t] = "DEAD" => f = "DEAD"
  /\ UNCHANGED << heap, returnList, joinValue, flag, scheduling_vars, program_vars >>
  /\ p \notin LockPCs \cup JoinPCs \cup {"unlock_clear"}
  /\ q \notin LockPCs \cup JoinPCs \cup {"unlock_clear"}
  /\ f = "DEAD" \/ q \in {"exit_value", "exit_sched", "end_dead", "end_sched", "end_done"} =>
       t # Main /\ held[t] = {}
  /\ valueSet \subseteq valueSet'
  /\ (f = "DEAD" /\ q # "exit_value") \/ q = "end_dead" => t \in valueSet'

\* ... keeps everything.
LEMMA StepsGood ==
  ASSUME Inv, Good, NEW t \in Thread, NEW p, NEW q, NEW f, Steps(t, p, q, f)
  PROVE  Good'
<1>1. TypeOK /\ HeldInv /\ JoinInv /\ ValueInv /\ process \in {"up", "exited"}
  BY DEF Inv, Good
<1>2. /\ At(t, p) /\ Goto(t, q) /\ q \in PC
      /\ activeFlag' = [activeFlag EXCEPT ![t] = f] /\ f \in OnFlags(q)
      /\ activeFlag[t] = "DEAD" => f = "DEAD"
      /\ p \notin LockPCs \cup JoinPCs \cup {"unlock_clear"}
      /\ q \notin LockPCs \cup JoinPCs \cup {"unlock_clear"}
      /\ f = "DEAD" \/ q \in {"exit_value", "exit_sched", "end_dead", "end_sched", "end_done"} =>
           t # Main /\ held[t] = {}
      /\ valueSet \subseteq valueSet'
      /\ (f = "DEAD" /\ q # "exit_value") \/ q = "end_dead" => t \in valueSet'
  BY DEF Steps
<1>3. /\ Acting(t) /\ pc[t] = p /\ ~ recursing /\ t = running
      /\ activeFlag[t] \in OnFlags(p)
  BY <1>2, AtIs DEF Acting
<1>4. /\ pc'[t] = q /\ activeFlag'[t] = f
      /\ \A u \in Thread : u # t => pc'[u] = pc[u] /\ activeFlag'[u] = activeFlag[u]
  BY <1>1, <1>2 DEF TypeOK, Goto
<1>5. /\ UNCHANGED << heap, scheduling_vars, mutex >>
      /\ flag' = flag /\ mutex' = mutex /\ held' = held /\ target' = target /\ joined' = joined
      /\ returnList' = returnList /\ joinValue' = joinValue
      /\ running' = running /\ recursing' = recursing /\ process' = process
  BY DEF Steps, scheduling_vars, machine_vars, program_vars
<1>6. Shaped' /\ FlagInv' /\ StartInv'
  <2>1. p # "lock_sched" /\ q # "lock_sched"
    BY <1>2 DEF LockPCs
  <2> QED
    BY <1>2, <1>5, <2>1, FlagStep
<1>7. f # "NONE" /\ f # "WAITING" /\ activeFlag[t] # "WAITING" /\ f # "BLOCKING"
  BY <1>2, <1>3, OnIs DEF JoinPCs, LockPCs
<1>8. HeldInv'
  <2>1. held[t] # {} =>
            /\ pc'[t] \notin JoinPCs \cup
                 {"exit_value", "exit_sched", "end_dead", "end_sched", "end_done"}
            /\ activeFlag'[t] \notin {"NONE", "DEAD", "WAITING"}
    BY <1>2, <1>4, <1>7
  <2>2. pc[t] \notin LockPCs \cup {"unlock_clear"} /\ pc'[t] \notin LockPCs \cup {"unlock_clear"}
    BY <1>2, <1>3, <1>4
  <2>3. activeFlag'[t] # "BLOCKING" /\ UNCHANGED << flag, mutex, held >>
    BY <1>4, <1>5, <1>7
  <2> QED
    BY <1>1, <1>4, <2>1, <2>2, <2>3, HeldStep
<1>9. JoinInv'
  <2>1. FlagsMove(t)
    BY <1>2, <1>3, <1>4, <1>5, <1>7 DEF FlagsMove
  <2>2. ASSUME NEW u \in Thread PROVE JoinOf(u)'
    <3>1. activeFlag'[u] = "WAITING" <=> activeFlag[u] = "WAITING"
      BY <1>4, <1>7
    <3>2. pc'[u] = pc[u] \/ (pc[u] \notin JoinPCs /\ pc'[u] \notin JoinPCs)
      BY <1>2, <1>3, <1>4
    <3>3. /\ target'[u] = target[u] /\ joined'[u] = joined[u]
          /\ returnList'[u] = returnList[u] /\ joinValue'[u] = joinValue[u]
      BY <1>5
    <3> QED
      BY <1>1, <2>1, <3>1, <3>2, <3>3, JoinOther
  <2> QED
    BY <2>2 DEF JoinInv, JoinOf
<1>10. ValueInv'
  BY <1>1, <1>2, <1>4 DEF ValueInv
<1> QED
  BY <1>1, <1>5, <1>6, <1>8, <1>9, <1>10 DEF Good

\* A step that sets no flag sets it to what it was.
LEMMA SameFlag ==
  ASSUME TypeOK, UNCHANGED activeFlag, NEW t \in Thread
  PROVE  activeFlag' = [activeFlag EXCEPT ![t] = activeFlag[t]]
  BY DEF TypeOK

\* my_pthread_yield.
LEMMA YieldGood ==
  ASSUME Inv, Good, NEW t \in Thread, Yield(t)
  PROVE  Good'
<1>1. At(t, "user") /\ activeFlag[t] \in OnFlags("user")
  BY AtIs DEF Yield
<1>2. Steps(t, "user", "yield_sched", "YIELD")
  BY <1>1, PCNames, OnIs DEF Yield, Steps, thread_vars, LockPCs, JoinPCs
<1> QED
  BY <1>2, StepsGood

\* my_pthread_exit marks its caller dead, ...
LEMMA ExitGood ==
  ASSUME Inv, Good, NEW t \in Thread, Exit(t)
  PROVE  Good'
<1>1. At(t, "user") /\ activeFlag[t] \in OnFlags("user") /\ t # Main /\ held[t] = {}
  BY AtIs DEF Exit, MayEnd
<1>2. Steps(t, "user", "exit_value", "DEAD")
  BY <1>1, PCNames, OnIs DEF Exit, Steps, thread_vars, LockPCs, JoinPCs
<1> QED
  BY <1>2, StepsGood

\* ... and stores the value.
LEMMA ExitValueGood ==
  ASSUME Inv, Good, NEW t \in Thread, ExitValue(t)
  PROVE  Good'
<1>1. /\ At(t, "exit_value") /\ activeFlag[t] \in OnFlags("exit_value") /\ Acting(t)
      /\ pc[t] = "exit_value"
  BY AtIs DEF ExitValue
<1>2. activeFlag[t] = "DEAD" /\ t # Main
  BY <1>1, OnIs DEF Acting
<1>3. held[t] = {}
  BY <1>1 DEF Good, HeldInv
<1>4. activeFlag' = [activeFlag EXCEPT ![t] = "DEAD"]
  BY <1>2, SameFlag DEF ExitValue, Inv
<1>5. Steps(t, "exit_value", "exit_sched", "DEAD")
  BY <1>1, <1>2, <1>3, <1>4, PCNames, OnIs DEF ExitValue, Steps, LockPCs, JoinPCs
<1> QED
  BY <1>5, StepsGood

\* exitChecker stores it first, ...
LEMMA ReturnGood ==
  ASSUME Inv, Good, NEW t \in Thread, Return(t)
  PROVE  Good'
<1>1. /\ At(t, "user") /\ activeFlag[t] \in OnFlags("user") /\ t # Main /\ held[t] = {}
  BY AtIs DEF Return, MayEnd
<1>2. activeFlag' = [activeFlag EXCEPT ![t] = activeFlag[t]]
  BY SameFlag DEF Return, Inv
<1>3. activeFlag[t] \in OnFlags("end_dead") /\ activeFlag[t] # "DEAD"
  BY <1>1, OnIs
<1>4. Steps(t, "user", "end_dead", activeFlag[t])
  BY <1>1, <1>2, <1>3, PCNames DEF Return, Steps, LockPCs, JoinPCs
<1> QED
  BY <1>4, StepsGood

\* ... and then marks the thread dead.
LEMMA ReturnDeadGood ==
  ASSUME Inv, Good, NEW t \in Thread, ReturnDead(t)
  PROVE  Good'
<1>1. /\ At(t, "end_dead") /\ Acting(t) /\ pc[t] = "end_dead"
  BY AtIs DEF ReturnDead
<1>2. t # Main /\ held[t] = {} /\ t \in valueSet
  BY <1>1 DEF Good, HeldInv, ValueInv, Acting
<1>3. Steps(t, "end_dead", "end_sched", "DEAD")
  BY <1>1, <1>2, PCNames, OnIs DEF ReturnDead, Steps, thread_vars, LockPCs, JoinPCs
<1> QED
  BY <1>3, StepsGood

-----------------------------------------------------------------------------
(* my_pthread_join *)

\* The thread that runs, holding no lock, goes from p to q in a join.
JoinSteps(t, p, q, f) ==
  /\ At(t, p) /\ Goto(t, q) /\ q \in PC
  /\ activeFlag' = [activeFlag EXCEPT ![t] = f] /\ f \in OnFlags(q)
  /\ UNCHANGED << heap, valueSet, flag, scheduling_vars, mutex, held >>
  /\ p \in JoinPCs \cup {"user"} /\ q \in JoinPCs \cup {"user"}
  /\ held[t] = {}
  /\ \A u \in Thread : u # t => target'[u] = target[u] /\ joined'[u] = joined[u]
                             /\ returnList'[u] = returnList[u] /\ joinValue'[u] = joinValue[u]

\* The flags of a joiner on the processor.
LEMMA JoinFlags ==
  ASSUME NEW p \in JoinPCs \cup {"user"}
  PROVE  /\ OnFlags(p) \subseteq {"ACTIVE", "RUNNABLE", "WAITING"}
         /\ p \notin LockPCs \cup {"unlock_clear", "lock_sched", "exit_value", "exit_sched",
                                   "end_dead", "end_sched", "end_done"}
  BY OnIs DEF JoinPCs, LockPCs

\* A step in a join changes nobody else's flag.
LEMMA JoinMoves ==
  ASSUME Inv, Good, NEW t \in Thread, NEW p, NEW q, NEW f, JoinSteps(t, p, q, f)
  PROVE  FlagsMove(t)
<1>1. TypeOK
  BY DEF Inv
<1>2. /\ At(t, p)
      /\ activeFlag' = [activeFlag EXCEPT ![t] = f] /\ f \in OnFlags(q)
      /\ p \in JoinPCs \cup {"user"} /\ q \in JoinPCs \cup {"user"}
  BY DEF JoinSteps
<1>3. t = running /\ ~ recursing /\ activeFlag[t] \in OnFlags(p)
  BY <1>2, AtIs DEF Acting
<1>4. f \notin {"DEAD", "NONE"} /\ activeFlag[t] \notin {"DEAD", "NONE"}
  BY <1>2, <1>3, JoinFlags
<1>5. running' = running /\ recursing' = recursing /\ valueSet' = valueSet
  BY DEF JoinSteps, scheduling_vars, machine_vars
<1> QED
  BY <1>1, <1>2, <1>3, <1>4, <1>5 DEF FlagsMove, TypeOK

\* ... keeps everything, if it keeps the joins.
LEMMA JoinStepsGood ==
  ASSUME Inv, Good, NEW t \in Thread, NEW p, NEW q, NEW f, JoinSteps(t, p, q, f), JoinOf(t)'
  PROVE  Good'
<1>1. TypeOK /\ HeldInv /\ JoinInv /\ ValueInv /\ process \in {"up", "exited"}
  BY DEF Inv, Good
<1>2. /\ At(t, p) /\ Goto(t, q) /\ q \in PC
      /\ activeFlag' = [activeFlag EXCEPT ![t] = f] /\ f \in OnFlags(q)
      /\ p \in JoinPCs \cup {"user"} /\ q \in JoinPCs \cup {"user"}
      /\ held[t] = {}
  BY DEF JoinSteps
<1>3. /\ pc[t] = p /\ ~ recursing /\ t = running
      /\ activeFlag[t] \in OnFlags(p)
  BY <1>2, AtIs DEF Acting
<1>4. /\ pc'[t] = q /\ activeFlag'[t] = f
      /\ \A u \in Thread : u # t => pc'[u] = pc[u] /\ activeFlag'[u] = activeFlag[u]
  BY <1>1, <1>2 DEF TypeOK, Goto
<1>5. /\ UNCHANGED << heap, scheduling_vars, mutex >>
      /\ flag' = flag /\ mutex' = mutex /\ held' = held /\ process' = process
      /\ valueSet' = valueSet
  BY DEF JoinSteps, scheduling_vars, machine_vars
<1>6. /\ f \in {"ACTIVE", "RUNNABLE", "WAITING"}
      /\ p \notin LockPCs \cup {"unlock_clear", "lock_sched", "exit_value", "exit_sched",
                                   "end_dead", "end_sched", "end_done"}
      /\ q \notin LockPCs \cup {"unlock_clear", "lock_sched", "exit_value", "exit_sched",
                                   "end_dead", "end_sched", "end_done"}
  BY <1>2, JoinFlags
<1>7. Shaped' /\ FlagInv' /\ StartInv'
  BY <1>2, <1>5, <1>6, FlagStep
<1>8. HeldInv'
  <2>1. pc[t] \notin LockPCs \cup {"unlock_clear"} /\ pc'[t] \notin LockPCs \cup {"unlock_clear"}
    BY <1>3, <1>4, <1>6
  <2>2. activeFlag'[t] # "BLOCKING" /\ UNCHANGED << flag, mutex, held >>
    BY <1>4, <1>5, <1>6
  <2> QED
    BY <1>1, <1>2, <1>4, <2>1, <2>2, HeldStep
<1>9. JoinInv'
  <2>1. FlagsMove(t)
    BY JoinMoves
  <2>2. ASSUME NEW u \in Thread, u # t PROVE JoinOf(u)'
    <3>1. activeFlag'[u] = "WAITING" <=> activeFlag[u] = "WAITING"
      BY <1>4, <2>2
    <3>2. pc'[u] = pc[u]
      BY <1>4, <2>2
    <3>3. /\ target'[u] = target[u] /\ joined'[u] = joined[u]
          /\ returnList'[u] = returnList[u] /\ joinValue'[u] = joinValue[u]
      BY <2>2 DEF JoinSteps
    <3> QED
      BY <1>1, <2>1, <3>1, <3>2, <3>3, JoinOther
  <2> QED
    BY <2>2 DEF JoinInv, JoinOf
<1>10. ValueInv'
  BY <1>1, <1>4, <1>5, <1>6 DEF ValueInv
<1> QED
  BY <1>1, <1>5, <1>7, <1>8, <1>9, <1>10 DEF Good

\* A joiner that runs.
LEMMA JoinerIs ==
  ASSUME Inv, Good, NEW t \in Thread, NEW p, At(t, p), p \in JoinPCs
  PROVE  /\ target[t] \in Thread /\ << t, target[t] >> \in Joins
         /\ activeFlag[target[t]] # "NONE" /\ held[t] = {}
<1>1. TypeOK /\ JoinInv /\ HeldInv /\ pc[t] = p
  BY DEF At, Executes, Inv, Good
<1>2. target[t] # NULL /\ held[t] = {}
  BY <1>1 DEF JoinInv, HeldInv
<1> QED
  BY <1>1, <1>2 DEF JoinInv, TypeOK, Pointer

\* my_pthread_join of a thread that lives makes its caller wait, ...
LEMMA JoinWaitGood ==
  ASSUME Inv, Calm, Good, NEW t \in Thread, JoinWait(t)
  PROVE  Good'
<1>1. /\ At(t, "join_wait") /\ pc[t] = "join_wait" /\ "join_wait" \in JoinPCs
  BY DEF JoinWait, At, Executes, JoinPCs
<1>2. /\ target[t] \in Thread /\ << t, target[t] >> \in Joins
      /\ activeFlag[target[t]] # "NONE" /\ held[t] = {}
  BY <1>1, JoinerIs
<1>3. TypeOK /\ JoinInv /\ FlagInv
  BY DEF Inv, Good
<1>4. /\ target' = target /\ joined' = joined /\ returnList' = returnList /\ joinValue' = joinValue
      /\ pc'[t] = "join_list" /\ activeFlag'[t] = "WAITING"
      /\ \A u \in Thread : u # t => activeFlag'[u] = activeFlag[u]
  BY <1>3 DEF JoinWait, TypeOK, Goto, thread_vars, program_vars
<1>5. JoinSteps(t, "join_wait", "join_list", "WAITING")
  BY <1>1, <1>2, PCNames, OnIs DEF JoinWait, JoinSteps, thread_vars, program_vars, JoinPCs
<1>6. FlagsMove(t) /\ t = running /\ ~ recursing
  BY <1>1, <1>5, JoinMoves DEF FlagsMove
<1>7. JoinOf(t)'
  <2>1. /\ returnList[t] \subseteq joined[t] \cup {target[t]}
        /\ activeFlag[target[t]] # "DEAD" \/ running = target[t]
        /\ \A x \in joined[t] :
             Buried(x) /\ x # running /\ joinValue[t][x] # "none" /\ << t, x >> \in Joins
    BY <1>1, <1>3 DEF JoinInv
  <2>2. \A x \in joined'[t] :
             Buried(x)' /\ x # running' /\ joinValue'[t][x] # "none" /\ << t, x >> \in Joins
    <3> TAKE x \in joined'[t]
    <3>1. x \in Thread /\ Buried(x) /\ x # running /\ joinValue[t][x] # "none" /\ << t, x >> \in Joins
      BY <1>3, <1>4, <2>1 DEF TypeOK
    <3> QED
      BY <1>4, <1>6, <3>1, BuriedStays DEF FlagsMove
  <2>3. target[t] # t
    BY <1>1, <1>3, OneWaits
  <2>4. activeFlag'[target[t]] = activeFlag[target[t]]
    BY <1>2, <1>4, <2>3
  <2>5. activeFlag'[target'[t]] # "DEAD"
    BY <1>4, <1>6, <2>1, <2>3, <2>4
  <2>6. target[t] # NULL /\ activeFlag'[target'[t]] # "NONE"
    BY <1>2, <1>4, <2>4, NullIsNoThread
  <2> QED
    BY <1>2, <1>4, <2>1, <2>2, <2>5, <2>6 DEF JoinOf, JoinPCs
<1> QED
  BY <1>5, <1>7, JoinStepsGood

\* ... with the id of the thread in its returnList.
LEMMA JoinListGood ==
  ASSUME Inv, Calm, Good, NEW t \in Thread, JoinList(t)
  PROVE  Good'
<1>1. /\ At(t, "join_list") /\ pc[t] = "join_list" /\ "join_list" \in JoinPCs
  BY DEF JoinList, At, Executes, JoinPCs
<1>2. /\ target[t] \in Thread /\ << t, target[t] >> \in Joins
      /\ activeFlag[target[t]] # "NONE" /\ held[t] = {}
  BY <1>1, JoinerIs
<1>3. TypeOK /\ JoinInv /\ FlagInv
  BY DEF Inv, Good
<1>4. activeFlag[t] = "WAITING"
  BY <1>1, AtIs, OnIs
<1>5. /\ target' = target /\ joined' = joined /\ joinValue' = joinValue
      /\ pc'[t] = "join_sched" /\ activeFlag' = activeFlag
      /\ returnList' = [returnList EXCEPT ![t] = @ \cup {target[t]}]
      /\ returnList'[t] = returnList[t] \cup {target[t]}
  BY <1>3 DEF JoinList, TypeOK, Goto, program_vars
<1>6. JoinSteps(t, "join_list", "join_sched", "WAITING")
  <2>1. activeFlag' = [activeFlag EXCEPT ![t] = "WAITING"]
    BY <1>3, <1>4, <1>5, SameFlag
  <2>2. \A u \in Thread : u # t => returnList'[u] = returnList[u]
    BY <1>3, <1>5 DEF TypeOK
  <2>3. /\ At(t, "join_list") /\ Goto(t, "join_sched") /\ "join_sched" \in PC
        /\ "WAITING" \in OnFlags("join_sched")
    BY PCNames, OnIs DEF JoinList
  <2>4. UNCHANGED << heap, valueSet, flag, scheduling_vars, mutex, held >>
    BY DEF JoinList, program_vars
  <2>5. {"join_list", "join_sched"} \subseteq JoinPCs \cup {"user"}
    BY DEF JoinPCs
  <2> QED
    BY <1>2, <1>5, <2>1, <2>2, <2>3, <2>4, <2>5 DEF JoinSteps
<1>7. FlagsMove(t) /\ t = running /\ ~ recursing
  BY <1>6, JoinMoves DEF FlagsMove
<1>8. JoinOf(t)'
  <2>1. /\ returnList[t] \subseteq joined[t] \cup {target[t]}
        /\ activeFlag[target[t]] # "DEAD" \/ running = target[t]
        /\ \A x \in joined[t] :
             Buried(x) /\ x # running /\ joinValue[t][x] # "none" /\ << t, x >> \in Joins
    BY <1>1, <1>3 DEF JoinInv
  <2>2. \A x \in joined'[t] :
             Buried(x)' /\ x # running' /\ joinValue'[t][x] # "none" /\ << t, x >> \in Joins
    <3> TAKE x \in joined'[t]
    <3>1. x \in Thread /\ Buried(x) /\ x # running /\ joinValue[t][x] # "none" /\ << t, x >> \in Joins
      BY <1>3, <1>5, <2>1 DEF TypeOK
    <3> QED
      BY <1>5, <1>7, <3>1, BuriedStays DEF FlagsMove
  <2>3. target[t] # t
    BY <1>1, <1>3, OneWaits
  <2>4. activeFlag'[target'[t]] # "DEAD" /\ activeFlag'[target'[t]] # "NONE"
    BY <1>2, <1>5, <1>7, <2>1, <2>3
  <2>5. target[t] # NULL
    BY <1>2, NullIsNoThread
  <2> QED
    BY <1>2, <1>4, <1>5, <2>1, <2>2, <2>4, <2>5 DEF JoinOf, JoinPCs
<1> QED
  BY <1>6, <1>8, JoinStepsGood

\* my_pthread_join looks at the flag of the thread.
LEMMA JoinGood ==
  ASSUME Inv, Calm, Good, NEW t \in Thread, NEW x \in Thread, Join(t, x)
  PROVE  Good'
<1> DEFINE q == IF activeFlag[x] = "DEAD" THEN "join_sched" ELSE "join_wait"
<1>1. /\ At(t, "user") /\ pc[t] = "user" /\ held[t] = {} /\ << t, x >> \in Joins
      /\ activeFlag[x] # "NONE" /\ target' = [target EXCEPT ![t] = x]
      /\ activeFlag' = activeFlag /\ Goto(t, q)
      /\ joinValue' = IF activeFlag[x] = "DEAD" THEN [joinValue EXCEPT ![t][x] = "copy"] ELSE joinValue
      /\ UNCHANGED << heap, valueSet, flag, scheduling_vars, mutex, held >>
      /\ joined' = joined /\ returnList' = returnList
  BY DEF Join, At, Executes
<1>2. TypeOK /\ JoinInv /\ FlagInv /\ ValueInv
  BY DEF Inv, Good
<1>3. activeFlag[t] \in {"ACTIVE", "RUNNABLE"} /\ t = running /\ ~ recursing /\ Acting(t)
  BY <1>1, AtIs, OnIs DEF Acting
<1>4. target[t] = NULL
  BY <1>1, <1>2 DEF JoinInv, JoinPCs
<1>5. x # t
  <2>1. PICK j \in Thread : Joins \subseteq {j} \X (Thread \ {j})
    BY DEF Calm, OneJoiner
  <2> QED
    BY <1>1, <2>1
<1>6. /\ target'[t] = x /\ pc'[t] = q
      /\ \A u \in Thread : u # t => target'[u] = target[u] /\ joinValue'[u] = joinValue[u]
      /\ \A y \in Thread : joinValue[t][y] # "none" => joinValue'[t][y] # "none"
      /\ activeFlag[x] = "DEAD" => joinValue'[t][x] # "none"
  BY <1>1, <1>2 DEF TypeOK, Goto
<1>7. JoinSteps(t, "user", q, activeFlag[t])
  <2>1. activeFlag' = [activeFlag EXCEPT ![t] = activeFlag[t]]
    BY <1>1, <1>2, SameFlag
  <2>2. q \in {"join_sched", "join_wait"} /\ q \in PC /\ q \in JoinPCs
    BY PCNames DEF JoinPCs
  <2>3. activeFlag[t] \in OnFlags(q)
    BY <1>3, <2>2, OnIs
  <2> HIDE DEF q
  <2> QED
    BY <1>1, <1>6, <2>1, <2>2, <2>3 DEF JoinSteps
<1>8. FlagsMove(t)
  BY <1>7, JoinMoves
<1>9. JoinOf(t)'
  <2>1. /\ returnList[t] \subseteq joined[t] \cup {NULL} /\ returnList[t] \subseteq Thread
        /\ \A y \in joined[t] :
             Buried(y) /\ y # running /\ joinValue[t][y] # "none" /\ << t, y >> \in Joins
    BY <1>2, <1>4 DEF JoinInv, TypeOK
  <2>2. \A y \in joined'[t] :
             Buried(y)' /\ y # running' /\ joinValue'[t][y] # "none" /\ << t, y >> \in Joins
    <3> TAKE y \in joined'[t]
    <3>1. y \in Thread /\ Buried(y) /\ y # running /\ joinValue[t][y] # "none" /\ << t, y >> \in Joins
      BY <1>1, <1>2, <2>1 DEF TypeOK
    <3> QED
      BY <1>6, <1>8, <3>1, BuriedStays DEF FlagsMove
  <2>3. returnList[t] \subseteq joined[t]
    BY <2>1, NullIsNoThread
  <2>4. activeFlag[x] = "DEAD" => Buried(x)'
    <3> SUFFICES ASSUME activeFlag[x] = "DEAD" PROVE Buried(x)'
      OBVIOUS
    <3>1. activeFlag[x] \in OffFlags(pc[x])
      BY <1>3, <1>5 DEF Acting
    <3>2. pc[x] # "exit_value"
      BY <3>1, OffIs
    <3>3. Buried(x)
      BY <1>2, <1>3, <1>5, <3>2 DEF ValueInv, Buried
    <3> QED
      BY <1>8, <3>3, BuriedStays
  <2>5. CASE activeFlag[x] = "DEAD"
    <3>1. pc'[t] = "join_sched" /\ activeFlag'[t] # "WAITING" /\ "join_sched" \in JoinPCs /\ x # NULL
      BY <1>1, <1>3, <1>6, <2>5, NullIsNoThread DEF JoinPCs
    <3> QED
      BY <1>1, <1>6, <2>2, <2>3, <2>4, <2>5, <3>1 DEF JoinOf, Buried
  <2>6. CASE activeFlag[x] # "DEAD"
    <3>1. pc'[t] = "join_wait" /\ activeFlag'[t] # "WAITING" /\ "join_wait" \in JoinPCs /\ x # NULL
      BY <1>1, <1>3, <1>6, <2>6, NullIsNoThread DEF JoinPCs
    <3> QED
      BY <1>1, <1>6, <2>2, <2>3, <2>6, <3>1 DEF JoinOf
  <2> QED
    BY <2>5, <2>6
<1> QED
  BY <1>7, <1>9, JoinStepsGood

\* It returns when the thread is dead and its value stored.
LEMMA JoinDoneGood ==
  ASSUME Inv, Calm, Good, NEW t \in Thread, JoinDone(t)
  PROVE  Good'
<1>1. /\ process = "up" /\ ~ recursing /\ running = t /\ pc[t] = "join_done"
      /\ joined' = [joined EXCEPT ![t] = @ \cup {target[t]}]
      /\ target' = [target EXCEPT ![t] = NULL]
      /\ Goto(t, "user") /\ activeFlag' = activeFlag
      /\ UNCHANGED << heap, valueSet, flag, scheduling_vars, mutex, held >>
      /\ returnList' = returnList /\ joinValue' = joinValue
  BY DEF JoinDone, Executes, thread_vars
<1>2. TypeOK /\ JoinInv /\ FlagInv /\ StartInv
  BY DEF Inv, Good
<1>3. At(t, "join_done")
  BY <1>1, IsCurrent DEF Executes
<1>4. At(t, "join_done") /\ "join_done" \in JoinPCs
  BY <1>3 DEF JoinPCs
<1>5. activeFlag[t] \in {"ACTIVE", "RUNNABLE"}
  BY <1>4, AtIs, OnIs
<1>6. /\ target[t] \in Thread /\ << t, target[t] >> \in Joins /\ held[t] = {}
  BY <1>4, JoinerIs
<1>7. /\ target'[t] = NULL /\ pc'[t] = "user" /\ joined'[t] = joined[t] \cup {target[t]}
      /\ \A u \in Thread : u # t => target'[u] = target[u] /\ joined'[u] = joined[u]
  BY <1>1, <1>2 DEF TypeOK, Goto
<1>8. JoinSteps(t, "join_done", "user", activeFlag[t])
  <2>1. activeFlag' = [activeFlag EXCEPT ![t] = activeFlag[t]]
    BY <1>1, <1>2, SameFlag
  <2>2. activeFlag[t] \in OnFlags("user")
    BY <1>5, OnIs
  <2> QED
    BY <1>1, <1>4, <1>6, <1>7, <2>1, <2>2, PCNames DEF JoinSteps
<1>9. FlagsMove(t)
  BY <1>8, JoinMoves
<1>10. JoinOf(t)'
  <2>1. /\ returnList[t] \subseteq joined[t] \cup {target[t]}
        /\ Buried(target[t]) /\ joinValue[t][target[t]] # "none"
        /\ \A x \in joined[t] :
             Buried(x) /\ x # running /\ joinValue[t][x] # "none" /\ << t, x >> \in Joins
    BY <1>1, <1>2, <1>5 DEF JoinInv
  <2>2. target[t] # t
    BY <1>2, <1>4, <1>1, OneWaits
  <2>3. \A x \in joined'[t] :
             Buried(x)' /\ x # running' /\ joinValue'[t][x] # "none" /\ << t, x >> \in Joins
    <3> TAKE x \in joined'[t]
    <3>1. x \in Thread /\ Buried(x) /\ x # running /\ joinValue[t][x] # "none" /\ << t, x >> \in Joins
      BY <1>1, <1>2, <1>6, <1>7, <2>1, <2>2 DEF TypeOK
    <3> QED
      BY <1>1, <1>9, <3>1, BuriedStays DEF FlagsMove
  <2> QED
    BY <1>1, <1>5, <1>7, <2>1, <2>3 DEF JoinOf, JoinPCs
<1> QED
  BY <1>8, <1>10, JoinStepsGood

-----------------------------------------------------------------------------
(* my_pthread_mutex_lock *)

\* The thread that runs goes from p to q in a lock or an unlock.
LockSteps(t, p, q, f) ==
  /\ At(t, p) /\ Goto(t, q) /\ q \in PC /\ p # "lock_sched" /\ q # "lock_sched"
  /\ activeFlag' = [activeFlag EXCEPT ![t] = f] /\ f \in OnFlags(q)
  /\ UNCHANGED << heap, thread_vars, scheduling_vars, target, joined >>
  /\ p \in LockPCs \cup {"user", "unlock_clear", "unlock_sched"}
  /\ q \in LockPCs \cup {"user", "unlock_clear", "unlock_sched"}
  /\ \A u \in Thread : u # t => mutex'[u] = mutex[u]

\* The flags of a thread in a lock or an unlock.
LEMMA LockFlags ==
  ASSUME NEW p \in LockPCs \cup {"user", "unlock_clear", "unlock_sched"}
  PROVE  /\ OnFlags(p) \subseteq {"ACTIVE", "RUNNABLE", "BLOCKING"}
         /\ p \notin JoinPCs \cup {"exit_value", "exit_sched", "end_dead", "end_sched", "end_done"}
  BY OnIs DEF JoinPCs, LockPCs

\* ... keeps everything, if it keeps the locks.
LEMMA LockStepsGood ==
  ASSUME Inv, Good, NEW t \in Thread, NEW p, NEW q, NEW f, LockSteps(t, p, q, f), HeldInv'
  PROVE  Good'
<1>1. TypeOK /\ HeldInv /\ JoinInv /\ ValueInv /\ process \in {"up", "exited"}
  BY DEF Inv, Good
<1>2. /\ At(t, p) /\ Goto(t, q) /\ q \in PC /\ p # "lock_sched" /\ q # "lock_sched"
      /\ activeFlag' = [activeFlag EXCEPT ![t] = f] /\ f \in OnFlags(q)
      /\ p \in LockPCs \cup {"user", "unlock_clear", "unlock_sched"}
      /\ q \in LockPCs \cup {"user", "unlock_clear", "unlock_sched"}
      /\ \A u \in Thread : u # t => mutex'[u] = mutex[u]
  BY DEF LockSteps
<1>3. /\ pc[t] = p /\ ~ recursing /\ t = running
      /\ activeFlag[t] \in OnFlags(p)
  BY <1>2, AtIs DEF Acting
<1>4. /\ pc'[t] = q /\ activeFlag'[t] = f
      /\ \A u \in Thread : u # t => pc'[u] = pc[u] /\ activeFlag'[u] = activeFlag[u]
  BY <1>1, <1>2 DEF TypeOK, Goto
<1>5. /\ UNCHANGED << heap, scheduling_vars >>
      /\ target' = target /\ joined' = joined /\ process' = process
      /\ returnList' = returnList /\ joinValue' = joinValue /\ valueSet' = valueSet
      /\ running' = running /\ recursing' = recursing
  BY DEF LockSteps, scheduling_vars, machine_vars, thread_vars
<1>6. /\ f \in {"ACTIVE", "RUNNABLE", "BLOCKING"} /\ activeFlag[t] \in {"ACTIVE", "RUNNABLE", "BLOCKING"}
      /\ p \notin JoinPCs \cup {"exit_value", "exit_sched", "end_dead", "end_sched", "end_done"}
      /\ q \notin JoinPCs \cup {"exit_value", "exit_sched", "end_dead", "end_sched", "end_done"}
  BY <1>2, <1>3, LockFlags
<1>7. Shaped' /\ FlagInv' /\ StartInv'
  BY <1>2, <1>5, <1>6, FlagStep
<1>8. JoinInv'
  <2>1. FlagsMove(t)
    BY <1>3, <1>4, <1>5, <1>6 DEF FlagsMove
  <2>2. ASSUME NEW u \in Thread PROVE JoinOf(u)'
    <3>1. activeFlag'[u] = "WAITING" <=> activeFlag[u] = "WAITING"
      BY <1>4, <1>6
    <3>2. pc'[u] = pc[u] \/ (pc[u] \notin JoinPCs /\ pc'[u] \notin JoinPCs)
      BY <1>3, <1>4, <1>6
    <3>3. /\ target'[u] = target[u] /\ joined'[u] = joined[u]
          /\ returnList'[u] = returnList[u] /\ joinValue'[u] = joinValue[u]
      BY <1>5
    <3> QED
      BY <1>1, <2>1, <3>1, <3>2, <3>3, JoinOther
  <2> QED
    BY <2>2 DEF JoinInv, JoinOf
<1>9. ValueInv'
  BY <1>1, <1>4, <1>5, <1>6 DEF ValueInv
<1> QED
  BY <1>1, <1>5, <1>7, <1>8, <1>9 DEF Good

\* One thread's part of HeldInv.
HeldOf(t) ==
  /\ held[t] # {} =>
       /\ pc[t] \notin JoinPCs \cup
            {"exit_value", "exit_sched", "end_dead", "end_sched", "end_done"}
       /\ activeFlag[t] \notin {"NONE", "DEAD", "WAITING"}
  /\ pc[t] \in LockPCs => \A n \in held[t] : n < mutex[t]
  /\ pc[t] \in {"lock_block", "lock_enqueue"} => flag[mutex[t]] = 1
  /\ activeFlag[t] = "BLOCKING" => Contended(mutex[t]) \/ Woken(mutex[t])

\* One mutex's.
TakenOf(m) == flag[m] = 1 => \E t \in Thread : InCritical(t, m)

\* HeldInv thread by thread and mutex by mutex.
LEMMA HeldInvIs == HeldInv <=> (\A t \in Thread : HeldOf(t)) /\ (\A m \in Mutex : TakenOf(m))
  BY DEF HeldInv, HeldOf, TakenOf

\* And after a step.
LEMMA HeldInvWillBe ==
  HeldInv' <=> (\A t \in Thread : HeldOf(t)') /\ (\A m \in Mutex : TakenOf(m)')
  BY DEF HeldInv, HeldOf, TakenOf

\* A mutex another thread holds is still held, ...
LEMMA ContendedStays ==
  ASSUME NEW t \in Thread, NEW n, Contended(n), pc'[t] # "unlock_clear", flag'[n] = 1,
         \A u \in Thread : u # t => pc'[u] = pc[u] /\ mutex'[u] = mutex[u]
  PROVE  Contended(n)'
  BY DEF Contended

\* ... and a thread that was woken for it still is.
LEMMA WokenStays ==
  ASSUME NEW t \in Thread, NEW n, Woken(n), pc[t] # "lock_tas",
         \A u \in Thread : u # t => pc'[u] = pc[u] /\ mutex'[u] = mutex[u]
                                 /\ activeFlag'[u] = activeFlag[u]
  PROVE  Woken(n)'
  BY DEF Woken

\* A thread that does not take the step keeps its part, if its wait is as it was.
LEMMA HeldOther ==
  ASSUME NEW t \in Thread, NEW u \in Thread, u # t, HeldOf(u), held'[u] = held[u],
         pc'[u] = pc[u], mutex'[u] = mutex[u], activeFlag'[u] = activeFlag[u],
         pc[u] \notin {"lock_block", "lock_enqueue"},
         NEW n, n = mutex[u],
         activeFlag[u] = "BLOCKING" => Contended(n)' \/ Woken(n)'
  PROVE  HeldOf(u)'
<1>1. activeFlag'[u] = "BLOCKING" => Contended(mutex[u])' \/ Woken(mutex[u])'
  BY DEF Contended, Woken
<1> QED
  BY <1>1 DEF HeldOf, Contended, Woken

\* What the others are doing.
LEMMA OthersAre ==
  ASSUME NEW t \in Thread, Acting(t)
  PROVE  \A u \in Thread : u # t => pc[u] \in {"user", "lock_tas", "join_done", "end_done"}
  BY OffIs DEF Acting

\* The state a statement of t finds, and leaves.
LEMMA StepIs ==
  ASSUME Inv, Good, NEW t \in Thread, NEW p, NEW q, At(t, p), Goto(t, q)
  PROVE  /\ pc[t] = p /\ pc'[t] = q /\ Acting(t) /\ activeFlag[t] \in OnFlags(p)
         /\ HeldOf(t) /\ \A u \in Thread : HeldOf(u)
         /\ \A m \in Mutex : TakenOf(m)
         /\ \A u \in Thread : u # t => pc'[u] = pc[u]
         /\ \A u \in Thread : u # t => pc[u] \in {"user", "lock_tas", "join_done", "end_done"}
  BY AtIs, OthersAre, HeldInvIs DEF Inv, Good, TypeOK, Goto

\* my_pthread_mutex_lock starts: the order of nested locks is kept.
LEMMA LockGood ==
  ASSUME Inv, Good, NEW t \in Thread, NEW m \in Mutex, Lock(t, m)
  PROVE  Good'
<1>1. /\ At(t, "user") /\ (\A n \in held[t] : n < m) /\ mutex' = [mutex EXCEPT ![t] = m]
      /\ Goto(t, "lock_tas") /\ activeFlag' = activeFlag /\ flag' = flag /\ held' = held
      /\ UNCHANGED << heap, thread_vars, scheduling_vars, target, joined >>
  BY DEF Lock
<1>2. TypeOK
  BY DEF Inv
<1>3. /\ pc[t] = "user" /\ pc'[t] = "lock_tas" /\ Acting(t) /\ activeFlag[t] \in OnFlags("user")
      /\ \A u \in Thread : HeldOf(u)
      /\ \A n \in Mutex : TakenOf(n)
      /\ \A u \in Thread : u # t => pc'[u] = pc[u]
      /\ \A u \in Thread : u # t => pc[u] \in {"user", "lock_tas", "join_done", "end_done"}
  BY <1>1, StepIs
<1>4. activeFlag[t] \in {"ACTIVE", "RUNNABLE"} /\ OnFlags("lock_tas") = {"ACTIVE", "RUNNABLE"}
  BY <1>3, OnIs
<1>5. mutex'[t] = m /\ \A u \in Thread : u # t => mutex'[u] = mutex[u]
  BY <1>1, <1>2 DEF TypeOK
<1>6. LockSteps(t, "user", "lock_tas", activeFlag[t])
  BY <1>1, <1>2, <1>4, <1>5, SameFlag, PCNames DEF LockSteps, LockPCs
<1>7. HeldOf(t)'
  <2>1. "lock_tas" \notin JoinPCs \cup {"exit_value", "exit_sched", "end_dead", "end_sched", "end_done"}
    BY DEF JoinPCs
  <2> QED
    BY <1>1, <1>3, <1>4, <1>5, <2>1 DEF HeldOf
<1>8. ASSUME NEW u \in Thread, u # t PROVE HeldOf(u)'
  <2>1. PICK n : n = mutex[u]
    OBVIOUS
  <2>2. activeFlag[u] = "BLOCKING" => Contended(n)' \/ Woken(n)'
    <3> SUFFICES ASSUME activeFlag[u] = "BLOCKING" PROVE Contended(n)' \/ Woken(n)'
      OBVIOUS
    <3>1. Contended(n) \/ Woken(n)
      BY <1>3, <2>1 DEF HeldOf
    <3>2. Contended(n) => Contended(n)'
      <4>1. Contended(n) => flag'[n] = 1
        BY <1>1 DEF Contended
      <4> QED
        BY <1>3, <1>5, <4>1, ContendedStays
    <3>3. Woken(n) => Woken(n)'
      BY <1>1, <1>3, <1>5, WokenStays
    <3> QED
      BY <3>1, <3>2, <3>3
  <2>3. held'[u] = held[u] /\ pc'[u] = pc[u] /\ mutex'[u] = mutex[u] /\ activeFlag'[u] = activeFlag[u]
        /\ pc[u] \notin {"lock_block", "lock_enqueue"} /\ HeldOf(u)
    BY <1>1, <1>3, <1>5, <1>8
  <2> QED
    BY <1>8, <2>1, <2>2, <2>3, HeldOther
<1>9. ASSUME NEW n \in Mutex PROVE TakenOf(n)'
  <2> SUFFICES ASSUME flag[n] = 1 PROVE \E u \in Thread : InCritical(u, n)'
    BY <1>1 DEF TakenOf
  <2>1. PICK u \in Thread : InCritical(u, n)
    BY <1>3 DEF TakenOf
  <2> QED
    BY <1>1, <1>3, <1>5, <2>1 DEF InCritical
<1> QED
  BY <1>6, <1>7, <1>8, <1>9, HeldInvWillBe, LockStepsGood

\* The test of its loop takes a free mutex, or finds it taken.
LEMMA TestAndSetGood ==
  ASSUME Inv, Good, NEW t \in Thread, TestAndSet(t)
  PROVE  Good'
<1> DEFINE m == mutex[t]
           q == IF flag[m] = 1 THEN "lock_block" ELSE "lock_done"
<1>1. /\ At(t, "lock_tas") /\ Goto(t, q) /\ flag' = [flag EXCEPT ![m] = 1]
      /\ activeFlag' = activeFlag /\ held' = held /\ mutex' = mutex
      /\ UNCHANGED << heap, thread_vars, scheduling_vars, target, joined >>
  BY IsCurrent DEF TestAndSet, program_vars
<1>2. TypeOK
  BY DEF Inv
<1>3. /\ pc[t] = "lock_tas" /\ pc'[t] = q /\ Acting(t) /\ activeFlag[t] \in OnFlags("lock_tas")
      /\ \A u \in Thread : HeldOf(u)
      /\ \A n \in Mutex : TakenOf(n)
      /\ \A u \in Thread : u # t => pc'[u] = pc[u]
      /\ \A u \in Thread : u # t => pc[u] \in {"user", "lock_tas", "join_done", "end_done"}
  <2>1. At(t, "lock_tas") /\ Goto(t, q)
    BY <1>1
  <2> HIDE DEF q
  <2> QED
    BY <2>1, StepIs
<1>4. /\ q \in {"lock_block", "lock_done"} /\ q \in PC /\ q \in LockPCs
      /\ OnFlags(q) = {"ACTIVE", "RUNNABLE"} /\ activeFlag[t] \in {"ACTIVE", "RUNNABLE"}
      /\ q \notin JoinPCs \cup {"exit_value", "exit_sched", "end_dead", "end_sched", "end_done"}
  <2>1. q \in {"lock_block", "lock_done"}
    OBVIOUS
  <2> HIDE DEF q
  <2> QED
    BY <1>3, <2>1, OnIs, PCNames DEF LockPCs, JoinPCs
<1>5. m \in Mutex /\ flag'[m] = 1 /\ \A n \in Mutex : n # m => flag'[n] = flag[n]
  <2>1. m \in Mutex
    BY <1>3 DEF Inv, ArgumentsInv, LockPCs
  <2> QED
    BY <1>1, <1>2, <2>1 DEF TypeOK
<1>6. LockSteps(t, "lock_tas", q, activeFlag[t])
  <2> HIDE DEF q, m
  <2> QED
    BY <1>1, <1>2, <1>4, SameFlag DEF LockSteps, LockPCs
<1>7. HeldOf(t)'
  <2> HIDE DEF q
  <2> QED
    BY <1>1, <1>3, <1>4, <1>5 DEF HeldOf, LockPCs
<1>8. ASSUME NEW u \in Thread, u # t PROVE HeldOf(u)'
  <2>1. PICK n : n = mutex[u]
    OBVIOUS
  <2>2. activeFlag[u] = "BLOCKING" => Contended(n)' \/ Woken(n)'
    <3> SUFFICES ASSUME activeFlag[u] = "BLOCKING" PROVE Contended(n)' \/ Woken(n)'
      OBVIOUS
    <3>1. Contended(n) \/ Woken(n)
      BY <1>3, <2>1 DEF HeldOf
    <3>2. n \in Mutex
      <4>1. activeFlag[u] \in OffFlags(pc[u])
        BY <1>3, <1>8 DEF Acting
      <4>2. pc[u] = "lock_tas"
        BY <4>1, OffIs
      <4> QED
        BY <2>1, <4>2 DEF Inv, ArgumentsInv, LockPCs
    <3>3. CASE n = m
      <4>1. \A v \in Thread : pc'[v] # "unlock_clear"
        <5> TAKE v \in Thread
        <5>1. CASE v = t
          BY <1>3, <1>4, <5>1
        <5>2. CASE v # t
          <6>1. pc'[v] \in {"user", "lock_tas", "join_done", "end_done"}
            BY <1>3, <5>2
          <6> QED
            BY <6>1
        <5> QED
          BY <5>1, <5>2
      <4> QED
        BY <1>5, <3>3, <4>1 DEF Contended
    <3>4. CASE n # m
      <4>1. Contended(n) => Contended(n)'
        <5>1. Contended(n) => flag'[n] = 1
          BY <1>5, <3>2, <3>4 DEF Contended
        <5>2. pc'[t] # "unlock_clear" /\ \A v \in Thread : v # t => pc'[v] = pc[v] /\ mutex'[v] = mutex[v]
          BY <1>1, <1>3, <1>4
        <5> QED
          BY <5>1, <5>2, ContendedStays
      <4>2. Woken(n) => Woken(n)'
        <5> SUFFICES ASSUME Woken(n) PROVE Woken(n)'
          OBVIOUS
        <5>1. PICK v \in Thread : mutex[v] = n /\ pc[v] = "lock_tas" /\ activeFlag[v] \in {"ACTIVE", "RUNNABLE"}
          BY DEF Woken
        <5>2. v # t
          BY <3>4, <5>1
        <5> QED
          BY <1>1, <1>3, <5>1, <5>2 DEF Woken
      <4> QED
        BY <3>1, <4>1, <4>2
    <3> QED
      BY <3>3, <3>4
  <2>3. held'[u] = held[u] /\ pc'[u] = pc[u] /\ mutex'[u] = mutex[u] /\ activeFlag'[u] = activeFlag[u]
        /\ pc[u] \notin {"lock_block", "lock_enqueue"} /\ HeldOf(u)
    BY <1>1, <1>3, <1>8
  <2> QED
    BY <1>8, <2>1, <2>2, <2>3, HeldOther
<1>9. ASSUME NEW n \in Mutex PROVE TakenOf(n)'
  <2> SUFFICES ASSUME flag'[n] = 1 PROVE \E u \in Thread : InCritical(u, n)'
    BY DEF TakenOf
  <2>1. CASE flag[n] = 1
    <3>1. PICK u \in Thread : InCritical(u, n)
      BY <1>3, <2>1 DEF TakenOf
    <3> QED
      BY <1>1, <1>3, <3>1 DEF InCritical
  <2>2. CASE flag[n] # 1
    <3>1. n = m /\ q = "lock_done"
      BY <1>5, <2>2
    <3> QED
      BY <1>1, <1>3, <3>1 DEF InCritical
  <2> QED
    BY <2>1, <2>2
<1> QED
  BY <1>6, <1>7, <1>8, <1>9, HeldInvWillBe, LockStepsGood

\* It is taken: the caller is marked blocked.
LEMMA LockBlockGood ==
  ASSUME Inv, Good, NEW t \in Thread, LockBlock(t)
  PROVE  Good'
<1>1. /\ At(t, "lock_block") /\ Goto(t, "lock_enqueue") /\ flag' = flag
      /\ activeFlag' = [activeFlag EXCEPT ![t] = "BLOCKING"] /\ held' = held /\ mutex' = mutex
      /\ UNCHANGED << heap, thread_vars, scheduling_vars, target, joined >>
  BY DEF LockBlock, program_vars
<1>2. TypeOK
  BY DEF Inv
<1>3. /\ pc[t] = "lock_block" /\ pc'[t] = "lock_enqueue" /\ Acting(t)
      /\ \A u \in Thread : HeldOf(u)
      /\ \A n \in Mutex : TakenOf(n)
      /\ \A u \in Thread : u # t => pc'[u] = pc[u]
      /\ \A u \in Thread : u # t => pc[u] \in {"user", "lock_tas", "join_done", "end_done"}
  BY <1>1, StepIs
<1>4. activeFlag'[t] = "BLOCKING" /\ \A u \in Thread : u # t => activeFlag'[u] = activeFlag[u]
  BY <1>1, <1>2 DEF TypeOK
<1>5. LockSteps(t, "lock_block", "lock_enqueue", "BLOCKING")
  BY <1>1, OnIs, PCNames DEF LockSteps, LockPCs
<1>6. HeldOf(t)'
  <2>1. Contended(mutex[t])'
    <3>1. flag[mutex[t]] = 1
      BY <1>3 DEF HeldOf
    <3>2. \A u \in Thread : pc'[u] # "unlock_clear"
      <4> TAKE u \in Thread
      <4>1. CASE u = t
        BY <1>3, <4>1
      <4>2. CASE u # t
        <5>1. pc'[u] \in {"user", "lock_tas", "join_done", "end_done"}
          BY <1>3, <4>2
        <5> QED
          BY <5>1
      <4> QED
        BY <4>1, <4>2
    <3> QED
      BY <1>1, <3>1, <3>2 DEF Contended
  <2>2. "lock_enqueue" \notin JoinPCs \cup {"exit_value", "exit_sched", "end_dead", "end_sched", "end_done"}
    BY DEF JoinPCs
  <2> QED
    BY <1>1, <1>3, <1>4, <2>1, <2>2 DEF HeldOf, LockPCs
<1>7. ASSUME NEW u \in Thread, u # t PROVE HeldOf(u)'
  <2>1. PICK n : n = mutex[u]
    OBVIOUS
  <2>2. activeFlag[u] = "BLOCKING" => Contended(n)' \/ Woken(n)'
    <3> SUFFICES ASSUME activeFlag[u] = "BLOCKING" PROVE Contended(n)' \/ Woken(n)'
      OBVIOUS
    <3>1. Contended(n) \/ Woken(n)
      BY <1>3, <2>1 DEF HeldOf
    <3>2. Contended(n) => Contended(n)'
      <4>1. Contended(n) => flag'[n] = 1
        BY <1>1 DEF Contended
      <4> QED
        BY <1>1, <1>3, <4>1, ContendedStays
    <3>3. Woken(n) => Woken(n)'
      BY <1>1, <1>3, <1>4, WokenStays
    <3> QED
      BY <3>1, <3>2, <3>3
  <2>3. held'[u] = held[u] /\ pc'[u] = pc[u] /\ mutex'[u] = mutex[u] /\ activeFlag'[u] = activeFlag[u]
        /\ pc[u] \notin {"lock_block", "lock_enqueue"} /\ HeldOf(u)
    BY <1>1, <1>3, <1>4, <1>7
  <2> QED
    BY <1>7, <2>1, <2>2, <2>3, HeldOther
<1>8. ASSUME NEW n \in Mutex PROVE TakenOf(n)'
  <2> SUFFICES ASSUME flag[n] = 1 PROVE \E u \in Thread : InCritical(u, n)'
    BY <1>1 DEF TakenOf
  <2>1. PICK u \in Thread : InCritical(u, n)
    BY <1>3 DEF TakenOf
  <2> QED
    BY <1>1, <1>3, <2>1 DEF InCritical
<1> QED
  BY <1>5, <1>6, <1>7, <1>8, HeldInvWillBe, LockStepsGood

\* Who is blocked off the processor is in the loop of its lock.
LEMMA BlockedArgument ==
  ASSUME Inv, NEW t \in Thread, Acting(t), NEW u \in Thread, u # t, activeFlag[u] = "BLOCKING"
  PROVE  pc[u] = "lock_tas" /\ mutex[u] \in Mutex
<1>1. activeFlag[u] \in OffFlags(pc[u])
  BY DEF Acting
<1>2. pc[u] = "lock_tas"
  BY <1>1, OffIs
<1> QED
  BY <1>2 DEF Inv, ArgumentsInv, LockPCs

\* my_pthread_mutex_lock returns.
LEMMA LockDoneGood ==
  ASSUME Inv, Good, NEW t \in Thread, LockDone(t)
  PROVE  Good'
<1> DEFINE m == mutex[t]
<1>1. /\ At(t, "lock_done") /\ Goto(t, "user") /\ flag' = [flag EXCEPT ![m] = 1]
      /\ activeFlag' = activeFlag /\ held' = [held EXCEPT ![t] = @ \cup {m}]
      /\ mutex' = [mutex EXCEPT ![t] = NULL]
      /\ UNCHANGED << heap, thread_vars, scheduling_vars, target, joined >>
  BY IsCurrent DEF LockDone
<1>2. TypeOK
  BY DEF Inv
<1>3. /\ pc[t] = "lock_done" /\ pc'[t] = "user" /\ Acting(t) /\ activeFlag[t] \in OnFlags("lock_done")
      /\ \A u \in Thread : HeldOf(u)
      /\ \A n \in Mutex : TakenOf(n)
      /\ \A u \in Thread : u # t => pc'[u] = pc[u]
      /\ \A u \in Thread : u # t => pc[u] \in {"user", "lock_tas", "join_done", "end_done"}
  BY <1>1, StepIs
<1>4. activeFlag[t] \in {"ACTIVE", "RUNNABLE"} /\ OnFlags("user") = {"ACTIVE", "RUNNABLE"}
  BY <1>3, OnIs
<1>5. /\ m \in Mutex /\ flag'[m] = 1 /\ \A n \in Mutex : n # m => flag'[n] = flag[n]
      /\ held'[t] = held[t] \cup {m} /\ mutex'[t] = NULL
      /\ \A u \in Thread : u # t => held'[u] = held[u] /\ mutex'[u] = mutex[u]
  <2>1. m \in Mutex
    BY <1>3 DEF Inv, ArgumentsInv, LockPCs
  <2> QED
    BY <1>1, <1>2, <2>1 DEF TypeOK
<1>6. LockSteps(t, "lock_done", "user", activeFlag[t])
  BY <1>1, <1>2, <1>4, <1>5, SameFlag, PCNames DEF LockSteps, LockPCs
<1> HIDE DEF m
<1>7. HeldOf(t)'
  <2>1. "user" \notin JoinPCs \cup LockPCs \cup {"exit_value", "exit_sched", "end_dead", "end_sched", "end_done"}
    BY DEF JoinPCs, LockPCs
  <2> QED
    BY <1>1, <1>3, <1>4, <2>1 DEF HeldOf
<1>8. ASSUME NEW u \in Thread, u # t PROVE HeldOf(u)'
  <2>1. PICK n : n = mutex[u]
    OBVIOUS
  <2>2. activeFlag[u] = "BLOCKING" => Contended(n)' \/ Woken(n)'
    <3> SUFFICES ASSUME activeFlag[u] = "BLOCKING" PROVE Contended(n)' \/ Woken(n)'
      OBVIOUS
    <3>1. Contended(n) \/ Woken(n)
      BY <1>3, <2>1 DEF HeldOf
    <3>2. n \in Mutex
      BY <1>3, <1>8, <2>1, BlockedArgument
    <3>3. Contended(n) => Contended(n)'
      <4>1. Contended(n) => flag'[n] = 1
        BY <1>5, <3>2 DEF Contended
      <4> QED
        BY <1>3, <1>5, <4>1, ContendedStays
    <3>4. Woken(n) => Woken(n)'
      BY <1>1, <1>3, <1>5, WokenStays
    <3> QED
      BY <3>1, <3>3, <3>4
  <2>3. held'[u] = held[u] /\ pc'[u] = pc[u] /\ mutex'[u] = mutex[u] /\ activeFlag'[u] = activeFlag[u]
        /\ pc[u] \notin {"lock_block", "lock_enqueue"} /\ HeldOf(u)
    BY <1>1, <1>3, <1>5, <1>8
  <2> QED
    BY <1>8, <2>1, <2>2, <2>3, HeldOther
<1>9. ASSUME NEW n \in Mutex PROVE TakenOf(n)'
  <2> SUFFICES ASSUME flag'[n] = 1 PROVE \E u \in Thread : InCritical(u, n)'
    BY DEF TakenOf
  <2>1. CASE n = m
    BY <1>5, <2>1 DEF InCritical
  <2>2. CASE n # m
    <3>1. PICK u \in Thread : InCritical(u, n)
      BY <1>3, <1>5, <2>2 DEF TakenOf
    <3>2. u = t => n \in held[t]
      BY <2>2, <3>1 DEF InCritical, m
    <3> QED
      BY <1>3, <1>5, <3>1, <3>2 DEF InCritical
  <2> QED
    BY <2>1, <2>2
<1> QED
  BY <1>6, <1>7, <1>8, <1>9, HeldInvWillBe, LockStepsGood

\* my_pthread_mutex_unlock clears the flag: who waits still was woken, or will
\* be by the next holder.
LEMMA UnlockClearGood ==
  ASSUME Inv, Good, NEW t \in Thread, UnlockClear(t)
  PROVE  Good'
<1> DEFINE m == mutex[t]
<1>1. /\ At(t, "unlock_clear") /\ Goto(t, "unlock_sched") /\ flag' = [flag EXCEPT ![m] = 0]
      /\ activeFlag' = activeFlag /\ held' = [held EXCEPT ![t] = @ \ {m}]
      /\ mutex' = [mutex EXCEPT ![t] = NULL]
      /\ UNCHANGED << heap, thread_vars, scheduling_vars, target, joined >>
  BY IsCurrent DEF UnlockClear
<1>2. TypeOK
  BY DEF Inv
<1>3. /\ pc[t] = "unlock_clear" /\ pc'[t] = "unlock_sched" /\ Acting(t)
      /\ activeFlag[t] \in OnFlags("unlock_clear")
      /\ \A u \in Thread : HeldOf(u)
      /\ \A n \in Mutex : TakenOf(n)
      /\ \A u \in Thread : u # t => pc'[u] = pc[u]
      /\ \A u \in Thread : u # t => pc[u] \in {"user", "lock_tas", "join_done", "end_done"}
  BY <1>1, StepIs
<1>4. activeFlag[t] \in {"ACTIVE", "RUNNABLE"} /\ OnFlags("unlock_sched") = {"ACTIVE", "RUNNABLE"}
  BY <1>3, OnIs
<1>5. /\ m \in Mutex /\ flag'[m] = 0 /\ \A n \in Mutex : n # m => flag'[n] = flag[n]
      /\ held'[t] = held[t] \ {m} /\ mutex'[t] = NULL
      /\ \A u \in Thread : u # t => held'[u] = held[u] /\ mutex'[u] = mutex[u]
  <2>1. m \in held[t] /\ held[t] \in SUBSET Mutex
    BY <1>2, <1>3 DEF Inv, LockInv, TypeOK
  <2>2. m \in Mutex
    BY <2>1
  <2> QED
    BY <1>1, <1>2, <2>2 DEF TypeOK
<1>6. LockSteps(t, "unlock_clear", "unlock_sched", activeFlag[t])
  BY <1>1, <1>2, <1>4, <1>5, SameFlag, PCNames DEF LockSteps, LockPCs
<1>m. m = mutex[t]
  OBVIOUS
<1> HIDE DEF m
<1>7. HeldOf(t)'
  <2>1. "unlock_sched" \notin JoinPCs \cup LockPCs \cup {"exit_value", "exit_sched", "end_dead", "end_sched", "end_done"}
    BY DEF JoinPCs, LockPCs
  <2> QED
    BY <1>1, <1>3, <1>4, <2>1 DEF HeldOf
<1>8. ASSUME NEW u \in Thread, u # t PROVE HeldOf(u)'
  <2>1. PICK n : n = mutex[u]
    OBVIOUS
  <2>2. activeFlag[u] = "BLOCKING" => Contended(n)' \/ Woken(n)'
    <3> SUFFICES ASSUME activeFlag[u] = "BLOCKING" PROVE Contended(n)' \/ Woken(n)'
      OBVIOUS
    <3>1. Contended(n) \/ Woken(n)
      BY <1>3, <2>1 DEF HeldOf
    <3>2. n \in Mutex
      BY <1>3, <1>8, <2>1, BlockedArgument
    <3>3. Contended(n) => Contended(n)'
      <4> SUFFICES ASSUME Contended(n) PROVE Contended(n)'
        OBVIOUS
      <4>1. n # m
        BY <1>3, <1>m DEF Contended
      <4>2. flag'[n] = 1
        BY <1>5, <3>2, <4>1 DEF Contended
      <4> QED
        BY <1>3, <1>5, <4>2, ContendedStays
    <3>4. Woken(n) => Woken(n)'
      BY <1>1, <1>3, <1>5, WokenStays
    <3> QED
      BY <3>1, <3>3, <3>4
  <2>3. held'[u] = held[u] /\ pc'[u] = pc[u] /\ mutex'[u] = mutex[u] /\ activeFlag'[u] = activeFlag[u]
        /\ pc[u] \notin {"lock_block", "lock_enqueue"} /\ HeldOf(u)
    BY <1>1, <1>3, <1>5, <1>8
  <2> QED
    BY <1>8, <2>1, <2>2, <2>3, HeldOther
<1>9. ASSUME NEW n \in Mutex PROVE TakenOf(n)'
  <2> SUFFICES ASSUME flag'[n] = 1 PROVE \E u \in Thread : InCritical(u, n)'
    BY DEF TakenOf
  <2>1. n # m
    BY <1>5
  <2>2. PICK u \in Thread : InCritical(u, n)
    BY <1>3, <1>5, <2>1 DEF TakenOf
  <2> QED
    BY <1>3, <1>5, <2>1, <2>2 DEF InCritical
<1> QED
  BY <1>6, <1>7, <1>8, <1>9, HeldInvWillBe, LockStepsGood

\* A step of t outside of joins, which may write the lists and make another
\* thread active.
OutsideJoins(t, p, q) ==
  /\ At(t, p) /\ Goto(t, q)
  /\ p \in LockPCs \cup {"user", "unlock_clear", "create_sched"}
  /\ q \in LockPCs \cup {"user", "unlock_clear", "create_sched"}
  /\ activeFlag'[t] \in OnFlags(q)
  /\ \A u \in Thread : u # t =>
       \/ activeFlag'[u] = activeFlag[u]
       \/ activeFlag[u] \in {"BLOCKING", "NONE"} /\ activeFlag'[u] = "ACTIVE"
  /\ UNCHANGED << thread_vars, scheduling_vars, target, joined >>

\* No join goes on between p and q.
LEMMA OutsideFlags ==
  ASSUME NEW p \in LockPCs \cup {"user", "unlock_clear", "create_sched"}
  PROVE  /\ OnFlags(p) \subseteq {"ACTIVE", "RUNNABLE", "BLOCKING"}
         /\ p \notin JoinPCs \cup {"exit_value", "exit_sched", "end_dead", "end_sched", "end_done"}
  BY OnIs DEF JoinPCs, LockPCs

\* A step outside joins keeps everything, if it keeps lists and locks.
LEMMA OutsideGood ==
  ASSUME Inv, Good, NEW t \in Thread, NEW p, NEW q, OutsideJoins(t, p, q), Shaped', HeldInv'
  PROVE  Good'
<1>1. TypeOK /\ HeldInv /\ JoinInv /\ ValueInv /\ process \in {"up", "exited"}
  BY DEF Inv, Good
<1>2. /\ At(t, p) /\ Goto(t, q)
      /\ p \in LockPCs \cup {"user", "unlock_clear", "create_sched"}
      /\ q \in LockPCs \cup {"user", "unlock_clear", "create_sched"}
      /\ activeFlag'[t] \in OnFlags(q)
      /\ \A u \in Thread : u # t =>
           \/ activeFlag'[u] = activeFlag[u]
           \/ activeFlag[u] \in {"BLOCKING", "NONE"} /\ activeFlag'[u] = "ACTIVE"
  BY DEF OutsideJoins
<1>3. /\ pc[t] = p /\ ~ recursing /\ t = running /\ Acting(t)
      /\ activeFlag[t] \in OnFlags(p)
  BY <1>2, AtIs DEF Acting
<1>4. /\ pc'[t] = q /\ \A u \in Thread : u # t => pc'[u] = pc[u]
  BY <1>1, <1>2 DEF TypeOK, Goto
<1>5. /\ target' = target /\ joined' = joined /\ process' = process
      /\ returnList' = returnList /\ joinValue' = joinValue /\ valueSet' = valueSet
      /\ running' = running /\ recursing' = recursing /\ currThread' = currThread
  BY DEF OutsideJoins, scheduling_vars, machine_vars, thread_vars
<1>6. /\ activeFlag'[t] \in {"ACTIVE", "RUNNABLE", "BLOCKING"}
      /\ activeFlag[t] \in {"ACTIVE", "RUNNABLE", "BLOCKING"}
      /\ p \notin JoinPCs \cup {"exit_value", "exit_sched", "end_dead", "end_sched", "end_done"}
      /\ q \notin JoinPCs \cup {"exit_value", "exit_sched", "end_dead", "end_sched", "end_done"}
  BY <1>2, <1>3, OutsideFlags
<1>7. FlagInv' /\ StartInv'
  <2>1. \A u \in Thread : u # t =>
           /\ pc'[u] = pc[u]
           /\ \/ activeFlag'[u] = activeFlag[u]
              \/ activeFlag'[u] = "ACTIVE" /\ activeFlag[u] = "BLOCKING"
              \/ activeFlag'[u] = "ACTIVE" /\ activeFlag[u] = "NONE"
    BY <1>2, <1>4
  <2>2. activeFlag'[t] \in OnFlags(pc'[t]) /\ activeFlag'[t] # "DEAD"
        /\ pc'[t] \notin {"exit_value", "exit_sched", "end_dead", "end_sched", "end_done"}
    BY <1>2, <1>4, <1>6
  <2> QED
    BY <1>3, <1>5, <2>1, <2>2, LocalFlags
<1>8. JoinInv'
  <2>1. FlagsMove(t)
    BY <1>2, <1>3, <1>5, <1>6 DEF FlagsMove
  <2>2. ASSUME NEW u \in Thread PROVE JoinOf(u)'
    <3>1. activeFlag'[u] = "WAITING" <=> activeFlag[u] = "WAITING"
      BY <1>2, <1>6
    <3>2. pc'[u] = pc[u] \/ (pc[u] \notin JoinPCs /\ pc'[u] \notin JoinPCs)
      BY <1>3, <1>4, <1>6
    <3>3. /\ target'[u] = target[u] /\ joined'[u] = joined[u]
          /\ returnList'[u] = returnList[u] /\ joinValue'[u] = joinValue[u]
      BY <1>5
    <3> QED
      BY <1>1, <2>1, <3>1, <3>2, <3>3, JoinOther
  <2> QED
    BY <2>2 DEF JoinInv, JoinOf
<1>9. ValueInv'
  BY <1>1, <1>2, <1>4, <1>5, <1>6 DEF ValueInv
<1> QED
  BY <1>1, <1>5, <1>7, <1>8, <1>9 DEF Good

\* The lists while t, which is in none of them, runs in a call.
Beside(c, t) ==
  /\ Chained(heap, c) /\ PlacedBy(c, activeFlag, mutex)
  /\ \A u \in Thread : Among(c, u) <=> activeFlag[u] # "NONE" /\ u # t
  /\ \A q \in Queue : RearIs(heap, q, c[OfQueue(q)])
  /\ Sorted(c[OfQueue(Low)], sinceRun)
  /\ NextIs(heap, c, t)

\* They exist.
LEMMA BesideExists ==
  ASSUME Shaped, NEW t \in Thread, t = running, ~ recursing, pc[t] # "lock_sched"
  PROVE  \E c : Beside(c, t)
<1>1. PICK c : ShapeOf(heap, activeFlag, mutex, sinceRun, recursing, running, pc, c)
  BY DEF Shaped
<1>2. \A u \in Thread : Among(c, u) <=> activeFlag[u] # "NONE" /\ u # t
  BY <1>1 DEF ShapeOf, ListedBy
<1>3. \A q \in Queue : RearIs(heap, q, c[OfQueue(q)])
  BY <1>1 DEF ShapeOf, Rears
<1>4. NextIs(heap, c, t)
  BY <1>1 DEF ShapeOf, ListedBy
<1> QED
  BY <1>1, <1>2, <1>3, <1>4 DEF Beside, ShapeOf

\* Nobody who runs in a call is in a queue.
LEMMA RunningIsBeside ==
  ASSUME Inv, Good, NEW t \in Thread, NEW p, At(t, p), p # "lock_sched"
  PROVE  \E c : Beside(c, t)
<1>1. t = running /\ ~ recursing /\ pc[t] # "lock_sched" /\ Shaped
  BY AtIs DEF At, Executes, Good
<1> QED
  BY <1>1, BesideExists

\* The shape after a step in which nothing but t's place in a call, lists and
\* flags may change.
LEMMA ShapedAgain ==
  ASSUME NEW t \in Thread, t = running, ~ recursing, UNCHANGED << sinceRun, running, recursing >>,
         NEW d, Chained(heap', d), PlacedBy(d, activeFlag', mutex'),
         \A u \in Thread : Among(d, u) <=> activeFlag'[u] # "NONE" /\ (u # t \/ pc'[u] = "lock_sched"),
         \A q \in Queue : RearIs(heap', q, d[OfQueue(q)]),
         Sorted(d[OfQueue(Low)], sinceRun),
         Among(d, t) \/ NextIs(heap', d, t)
  PROVE  Shaped'
<1>1. \A u \in Thread : ListedBy(activeFlag', running', recursing', pc', u) <=> Among(d, u)
  BY DEF ListedBy
<1>2. Rears(heap', d, recursing', sinceRun')
  BY DEF Rears
<1>3. ListedBy(activeFlag', running', recursing', pc', running') \/ NextIs(heap', d, running')
  BY <1>1
<1>4. ShapeOf(heap', activeFlag', mutex', sinceRun', recursing', running', pc', d)
  BY <1>1, <1>2, <1>3 DEF ShapeOf
<1> QED
  BY <1>4 DEF Shaped

\* A thread that waits for a mutex gets in the queue of it.
LEMMA LockEnqueueShape ==
  ASSUME Inv, Good, NEW t \in Thread, LockEnqueue(t)
  PROVE  Shaped'
<1> DEFINE m == mutex[t]
           l == OfMutex(m)
<1>1. /\ At(t, "lock_enqueue") /\ Goto(t, "lock_sched") /\ heap' = gen_enqueue(heap, m, t)
      /\ UNCHANGED << activeFlag, thread_vars, flag, scheduling_vars, program_vars >>
  BY DEF LockEnqueue
<1>2. TypeOK /\ Shaped
  BY DEF Inv, Good
<1>3. /\ pc[t] = "lock_enqueue" /\ pc'[t] = "lock_sched" /\ Acting(t) /\ ~ recursing /\ t = running
      /\ activeFlag[t] = "BLOCKING" /\ \A u \in Thread : u # t => pc'[u] = pc[u]
      /\ \A u \in Thread : u # t => pc[u] \in {"user", "lock_tas", "join_done", "end_done"}
  <2>1. /\ pc[t] = "lock_enqueue" /\ pc'[t] = "lock_sched" /\ Acting(t)
        /\ activeFlag[t] \in OnFlags("lock_enqueue")
        /\ \A u \in Thread : u # t => pc'[u] = pc[u]
        /\ \A u \in Thread : u # t => pc[u] \in {"user", "lock_tas", "join_done", "end_done"}
    BY <1>1, StepIs
  <2>2. activeFlag[t] = "BLOCKING"
    BY <2>1, OnIs
  <2> QED
    BY <1>1, <2>1, <2>2 DEF At, Executes
<1>4. m \in Mutex /\ l \in List
  BY <1>3, ListNames DEF Inv, ArgumentsInv, LockPCs
<1>5. PICK c : Beside(c, t)
  BY <1>2, <1>3, BesideExists
<1>6. /\ Chained(heap, c) /\ PlacedBy(c, activeFlag, mutex) /\ c \in [List -> Seq(Thread)]
      /\ \A u \in Thread : Among(c, u) <=> activeFlag[u] # "NONE" /\ u # t
      /\ \A q \in Queue : RearIs(heap, q, c[OfQueue(q)])
      /\ Sorted(c[OfQueue(Low)], sinceRun) /\ NextIs(heap, c, t)
  BY <1>5 DEF Beside, Chained
<1>7. PICK d : d = With(c, l, t)
  OBVIOUS
<1>8. Chained(heap', d) /\ heap'.rear = heap.rear
  <2>1. ~ Among(c, t)
    BY <1>6
  <2> HIDE DEF m
  <2> QED
    BY <1>1, <1>4, <1>6, <1>7, <2>1, GenEnqueueChained
<1>9. \A u \in Thread : Among(d, u) <=> activeFlag'[u] # "NONE" /\ (u # t \/ pc'[u] = "lock_sched")
  <2>1. \A u : Among(d, u) <=> Among(c, u) \/ u = t
    BY <1>4, <1>6, <1>7, AmongWith
  <2> QED
    BY <1>1, <1>3, <1>6, <2>1
<1>10. PlacedBy(d, activeFlag', mutex')
  <2>1. HomeBy(activeFlag[t], mutex[t]) = l
    BY <1>3, HomeIs
  <2> HIDE DEF l
  <2>2. PlacedBy(d, activeFlag, mutex)
    BY <1>4, <1>6, <1>7, <2>1, PlacedWith
  <2> QED
    BY <1>1, <2>2 DEF program_vars
<1>11. \A q \in Queue : d[OfQueue(q)] = c[OfQueue(q)]
  BY <1>4, <1>6, <1>7, ListNames DEF With
<1>12. \A q \in Queue : RearIs(heap', q, d[OfQueue(q)])
  BY <1>6, <1>8, <1>11 DEF RearIs
<1>13. Sorted(d[OfQueue(Low)], sinceRun)
  BY <1>6, <1>11, QueueNumbers
<1>14. Among(d, t)
  BY <1>3, <1>9, <1>1
<1>15. UNCHANGED << sinceRun, running, recursing >>
  BY <1>1 DEF scheduling_vars, machine_vars
<1> QED
  BY <1>3, <1>8, <1>9, <1>10, <1>12, <1>13, <1>14, <1>15, ShapedAgain

\* It keeps everything.
LEMMA LockEnqueueGood ==
  ASSUME Inv, Good, NEW t \in Thread, LockEnqueue(t)
  PROVE  Good'
<1>1. /\ At(t, "lock_enqueue") /\ Goto(t, "lock_sched") /\ flag' = flag
      /\ activeFlag' = activeFlag /\ held' = held /\ mutex' = mutex
      /\ UNCHANGED << thread_vars, scheduling_vars, target, joined >>
  BY DEF LockEnqueue, program_vars
<1>2. Shaped'
  BY LockEnqueueShape
<1>3. /\ pc[t] = "lock_enqueue" /\ pc'[t] = "lock_sched" /\ Acting(t)
      /\ activeFlag[t] \in OnFlags("lock_enqueue")
      /\ \A u \in Thread : HeldOf(u)
      /\ \A n \in Mutex : TakenOf(n)
      /\ \A u \in Thread : u # t => pc'[u] = pc[u]
      /\ \A u \in Thread : u # t => pc[u] \in {"user", "lock_tas", "join_done", "end_done"}
  BY <1>1, StepIs
<1>4. activeFlag[t] = "BLOCKING"
  BY <1>3, OnIs
<1>5. ASSUME NEW u \in Thread, activeFlag[u] = "BLOCKING", NEW n, n = mutex[u]
      PROVE  Contended(n)' \/ Woken(n)'
  <2>1. Contended(n) \/ Woken(n)
    BY <1>3, <1>5 DEF HeldOf
  <2>2. Contended(n) => Contended(n)'
    <3>1. Contended(n) => flag'[n] = 1
      BY <1>1 DEF Contended
    <3> QED
      BY <1>1, <1>3, <3>1, ContendedStays
  <2>3. Woken(n) => Woken(n)'
    BY <1>1, <1>3, WokenStays
  <2> QED
    BY <2>1, <2>2, <2>3
<1>6. HeldOf(t)'
  <2>1. Contended(mutex[t])' \/ Woken(mutex[t])'
    <3>1. PICK n : n = mutex[t]
      OBVIOUS
    <3>2. Contended(n)' \/ Woken(n)'
      BY <1>4, <1>5, <3>1
    <3> QED
      BY <1>1, <3>1, <3>2 DEF Contended, Woken
  <2>2. "lock_sched" \notin JoinPCs \cup {"exit_value", "exit_sched", "end_dead", "end_sched", "end_done"}
    BY DEF JoinPCs
  <2> QED
    BY <1>1, <1>3, <1>4, <2>1, <2>2 DEF HeldOf, LockPCs
<1>7. ASSUME NEW u \in Thread, u # t PROVE HeldOf(u)'
  <2>1. PICK n : n = mutex[u]
    OBVIOUS
  <2>2. activeFlag[u] = "BLOCKING" => Contended(n)' \/ Woken(n)'
    BY <1>5, <2>1
  <2>3. held'[u] = held[u] /\ pc'[u] = pc[u] /\ mutex'[u] = mutex[u] /\ activeFlag'[u] = activeFlag[u]
        /\ pc[u] \notin {"lock_block", "lock_enqueue"} /\ HeldOf(u)
    BY <1>1, <1>3, <1>7
  <2> QED
    BY <1>7, <2>1, <2>2, <2>3, HeldOther
<1>8. ASSUME NEW n \in Mutex PROVE TakenOf(n)'
  <2> SUFFICES ASSUME flag[n] = 1 PROVE \E u \in Thread : InCritical(u, n)'
    BY <1>1 DEF TakenOf
  <2>1. PICK u \in Thread : InCritical(u, n)
    BY <1>3 DEF TakenOf
  <2> QED
    BY <1>1, <1>3, <2>1 DEF InCritical
<1>9. OutsideJoins(t, "lock_enqueue", "lock_sched")
  BY <1>1, <1>4, OnIs DEF OutsideJoins, LockPCs
<1> QED
  BY <1>2, <1>6, <1>7, <1>8, <1>9, HeldInvWillBe, OutsideGood

\* main() creates another thread.
LEMMA CreateShape ==
  ASSUME Inv, Good, NEW x \in Thread, Create(x)
  PROVE  Shaped'
<1>1. /\ At(Main, "user") /\ Goto(Main, "create_sched") /\ heap' = enqueue(heap, x, Running)
      /\ activeFlag[x] = "NONE" /\ activeFlag' = [activeFlag EXCEPT ![x] = "ACTIVE"]
      /\ UNCHANGED << thread_vars, flag, scheduling_vars, program_vars >>
  BY DEF Create
<1>2. TypeOK /\ Shaped /\ Main \in Thread
  BY MainIsThread DEF Inv, Good
<1>3. /\ pc[Main] = "user" /\ pc'[Main] = "create_sched" /\ ~ recursing /\ Main = running
      /\ activeFlag[Main] # "NONE"
  <2>1. At(Main, "user") /\ Goto(Main, "create_sched")
    BY <1>1
  <2>2. pc[Main] = "user" /\ pc'[Main] = "create_sched"
    BY <1>2, <2>1, StepIs
  <2>3. activeFlag[Main] # "NONE"
    BY <1>2, <2>1, AtIs
  <2> QED
    BY <2>1, <2>2, <2>3 DEF At, Executes
<1>4. \A u \in Thread : activeFlag'[u] = IF u = x THEN "ACTIVE" ELSE activeFlag[u]
  BY <1>1, <1>2 DEF TypeOK
<1>5. PICK c : Beside(c, Main)
  BY <1>2, <1>3, BesideExists
<1> DEFINE l == OfQueue(Running)
<1>6. /\ Chained(heap, c) /\ PlacedBy(c, activeFlag, mutex) /\ c \in [List -> Seq(Thread)]
      /\ \A u \in Thread : Among(c, u) <=> activeFlag[u] # "NONE" /\ u # Main
      /\ \A q \in Queue : RearIs(heap, q, c[OfQueue(q)])
      /\ Sorted(c[OfQueue(Low)], sinceRun) /\ NextIs(heap, c, Main)
      /\ l \in List /\ OfQueue(Low) \in List /\ l # OfQueue(Low)
  BY <1>5, FrontAndRear DEF Beside, Chained
<1>7. PICK d : d = With(c, l, x)
  OBVIOUS
<1>8. /\ Chained(heap', d) /\ heap'.rear[Running] = x
      /\ \A r \in Queue : r # Running => heap'.rear[r] = heap.rear[r]
      /\ heap'.next[Main] = heap.next[Main]
  <2>1. ~ Among(c, x) /\ ~ Among(c, Main) /\ x # Main
    BY <1>1, <1>2, <1>3, <1>6
  <2> QED
    BY <1>1, <1>2, <1>6, <1>7, <2>1, QueueNumbers, EnqueueChained
<1>9. \A u : Among(d, u) <=> Among(c, u) \/ u = x
  BY <1>6, <1>7, AmongWith
<1>10. \A u \in Thread : Among(d, u) <=> activeFlag'[u] # "NONE" /\ (u # Main \/ pc'[u] = "lock_sched")
  BY <1>1, <1>3, <1>4, <1>6, <1>9
<1>11. PlacedBy(d, activeFlag', mutex')
  <2>1. \A u : Among(c, u) => activeFlag'[u] = activeFlag[u] /\ mutex'[u] = mutex[u]
    <3> SUFFICES ASSUME NEW u, Among(c, u) PROVE activeFlag'[u] = activeFlag[u] /\ mutex'[u] = mutex[u]
      OBVIOUS
    <3>1. u \in Thread
      BY <1>6, ChainedIs DEF Among, In
    <3>2. u # x
      BY <1>1, <1>6, <3>1
    <3> QED
      BY <1>1, <1>4, <3>1, <3>2 DEF program_vars
  <2>2. PlacedBy(c, activeFlag', mutex')
    BY <1>6, <2>1, PlacedSame
  <2>3. HomeBy(activeFlag'[x], mutex'[x]) = l
    BY <1>4, HomeIs
  <2> HIDE DEF l
  <2> QED
    BY <1>6, <1>7, <2>2, <2>3, PlacedWith
<1>12. /\ d[l] = Append(c[l], x) /\ \A r \in List : r # l => d[r] = c[r]
  BY <1>6, <1>7 DEF With
<1>13. ASSUME NEW q \in Queue PROVE RearIs(heap', q, d[OfQueue(q)])
  <2>1. CASE q = Running
    <3>1. c[l] \in Seq(Thread)
      BY <1>6
    <3>2. Append(c[l], x)[Len(Append(c[l], x))] = x
      BY <3>1, AppendIs
    <3> QED
      BY <1>8, <1>12, <2>1, <3>2 DEF RearIs
  <2>2. CASE q # Running
    <3>1. OfQueue(q) \in List /\ OfQueue(q) # l
      BY <2>2, ListNames
    <3> QED
      BY <1>6, <1>8, <1>12, <2>2, <3>1 DEF RearIs
  <2> QED
    BY <2>1, <2>2
<1>14. Sorted(d[OfQueue(Low)], sinceRun)
  BY <1>6, <1>12
<1>15. NextIs(heap', d, Main)
  <2>1. c[l] \in Seq(Thread)
    BY <1>6
  <2>2. \A u : In(c[l], u) => In(d[l], u)
    BY <1>12, <2>1, AppendIs DEF In
  <2> QED
    BY <1>6, <1>8, <1>12, <2>2 DEF NextIs
<1>16. UNCHANGED << sinceRun, running, recursing >>
  BY <1>1 DEF scheduling_vars, machine_vars
<1> QED
  BY <1>2, <1>3, <1>8, <1>10, <1>11, <1>13, <1>14, <1>15, <1>16, ShapedAgain

\* It keeps everything.
LEMMA CreateGood ==
  ASSUME Inv, Good, NEW x \in Thread, Create(x)
  PROVE  Good'
<1>1. /\ At(Main, "user") /\ Goto(Main, "create_sched") /\ flag' = flag
      /\ activeFlag[x] = "NONE" /\ activeFlag' = [activeFlag EXCEPT ![x] = "ACTIVE"]
      /\ held' = held /\ mutex' = mutex
      /\ UNCHANGED << thread_vars, scheduling_vars, target, joined >>
  BY DEF Create, program_vars
<1>2. TypeOK /\ HeldInv /\ Main \in Thread
  BY MainIsThread DEF Inv, Good
<1>3. /\ pc[Main] = "user" /\ pc'[Main] = "create_sched" /\ activeFlag[Main] \in OnFlags("user")
      /\ \A u \in Thread : u # Main => pc'[u] = pc[u]
  <2>1. At(Main, "user") /\ Goto(Main, "create_sched")
    BY <1>1
  <2> QED
    BY <1>2, <2>1, StepIs
<1>4. activeFlag[Main] \in {"ACTIVE", "RUNNABLE"} /\ x # Main
  BY <1>1, <1>3, OnIs
<1>5. \A u \in Thread : activeFlag'[u] = IF u = x THEN "ACTIVE" ELSE activeFlag[u]
  BY <1>1, <1>2 DEF TypeOK
<1>6. HeldInv'
  <2>1. "user" \notin LockPCs \cup {"unlock_clear"} /\ "create_sched" \notin LockPCs \cup {"unlock_clear"}
        /\ "create_sched" \notin JoinPCs \cup {"exit_value", "exit_sched", "end_dead", "end_sched", "end_done"}
    BY DEF LockPCs, JoinPCs
  <2>2. \A u \in Thread : u # Main =>
           /\ pc'[u] = pc[u]
           /\ activeFlag'[u] = activeFlag[u] \/ (activeFlag[u] = "NONE" /\ activeFlag'[u] = "ACTIVE")
    BY <1>1, <1>3, <1>5
  <2>3. activeFlag'[Main] = activeFlag[Main]
    BY <1>2, <1>4, <1>5
  <2> QED
    BY <1>1, <1>2, <1>3, <1>4, <2>1, <2>2, <2>3, HeldStep
<1>7. OutsideJoins(Main, "user", "create_sched")
  <2>1. OnFlags("create_sched") = {"ACTIVE", "RUNNABLE"}
    BY OnIs
  <2> QED
    BY <1>1, <1>2, <1>4, <1>5, <2>1 DEF OutsideJoins
<1> QED
  BY <1>2, <1>6, <1>7, CreateShape, OutsideGood

-----------------------------------------------------------------------------
(* my_pthread_mutex_unlock *)

\* What unlock finds: x heads the queue of the mutex and waits for it.
Heads(m, x) ==
  /\ x = heap.wait[m].front
  /\ activeFlag[x] = "BLOCKING" /\ mutex[x] = m /\ pc[x] = "lock_tas"

\* The front of the wait queue is NULL when nobody waits, and else a thread
\* that is blocked on this mutex.
LEMMA UnlockHead ==
  ASSUME Inv, Good, NEW t \in Thread, NEW m \in Mutex, At(t, "user"),
         NEW c, Beside(c, t)
  PROVE  /\ heap.wait[m].front = NULL <=> c[OfMutex(m)] = << >>
         /\ heap.wait[m].front # NULL =>
              /\ heap.wait[m].front \in Thread /\ heap.wait[m].front # t
              /\ Heads(m, heap.wait[m].front)
<1> DEFINE l == OfMutex(m)
           x == c[l]
           v == heap.wait[m].front
<1>1. /\ Chained(heap, c) /\ PlacedBy(c, activeFlag, mutex)
      /\ \A u \in Thread : Among(c, u) <=> activeFlag[u] # "NONE" /\ u # t
  BY DEF Beside
<1>2. l \in List /\ MutexHolds(heap, m, x) /\ x \in Seq(Thread)
  BY <1>1, ListNames, ChainedIs
<1>3. x # << >> => 1 \in 1 .. Len(x) /\ x[1] \in Thread /\ x[1] # NULL
  BY <1>2, SeqIs, NullIsNoThread
<1>4. v = NULL <=> x = << >>
  BY <1>2, <1>3 DEF MutexHolds
<1>5. ASSUME v # NULL PROVE v \in Thread /\ v # t /\ Heads(m, v)
  <2>1. v = x[1] /\ v \in Thread
    BY <1>2, <1>3, <1>4, <1>5 DEF MutexHolds
  <2>2. In(x, v) /\ Among(c, v)
    BY <1>2, <1>3, <1>4, <1>5, <2>1, InIs
  <2>3. v # t
    BY <1>1, <2>2
  <2>4. HomeBy(activeFlag[v], mutex[v]) = l
    BY <1>1, <1>2, <2>2, InHome
  <2>5. activeFlag[v] = "BLOCKING" /\ mutex[v] = m
    BY <2>4, HomeIs
  <2>6. pc[v] = "lock_tas"
    <3>1. Acting(t)
      BY AtIs
    <3> QED
      BY <2>1, <2>3, <2>5, <3>1, BlockedArgument
  <2> QED
    BY <2>1, <2>3, <2>5, <2>6 DEF Heads
<1> QED
  BY <1>4, <1>5

\* The head of the queue of m gets behind the others in queue 0.
LEMMA UnlockShape ==
  ASSUME Inv, Good, NEW t \in Thread, NEW m \in Mutex, Unlock(t, m), heap.wait[m].front # NULL
  PROVE  Shaped'
<1> DEFINE v == heap.wait[m].front
           l == OfMutex(m)
           r == OfQueue(Running)
<1>1. /\ At(t, "user") /\ Goto(t, "unlock_clear")
      /\ heap' = enqueue(gen_dequeue(heap, m), v, Running)
      /\ activeFlag' = [activeFlag EXCEPT ![v] = "ACTIVE"]
      /\ mutex' = [mutex EXCEPT ![t] = m]
      /\ UNCHANGED << thread_vars, flag, scheduling_vars, target, held, joined >>
  BY IsCurrent DEF Unlock
<1>2. TypeOK /\ Shaped
  BY DEF Inv, Good
<1>3. /\ pc[t] = "user" /\ pc'[t] = "unlock_clear" /\ ~ recursing /\ t = running
      /\ activeFlag[t] # "NONE" /\ \A u \in Thread : u # t => pc'[u] = pc[u]
  <2>1. /\ pc[t] = "user" /\ pc'[t] = "unlock_clear" /\ \A u \in Thread : u # t => pc'[u] = pc[u]
    BY <1>1, StepIs
  <2>2. activeFlag[t] # "NONE"
    BY <1>1, AtIs
  <2> QED
    BY <1>1, <2>1, <2>2 DEF At, Executes
<1>4. PICK c : Beside(c, t)
  BY <1>2, <1>3, BesideExists
<1>5. /\ Chained(heap, c) /\ PlacedBy(c, activeFlag, mutex) /\ c \in [List -> Seq(Thread)] /\ Once(c)
      /\ \A u \in Thread : Among(c, u) <=> activeFlag[u] # "NONE" /\ u # t
      /\ \A q \in Queue : RearIs(heap, q, c[OfQueue(q)])
      /\ Sorted(c[OfQueue(Low)], sinceRun) /\ NextIs(heap, c, t)
      /\ r \in List /\ OfQueue(Low) \in List /\ r # OfQueue(Low)
      /\ l \in List /\ l # r /\ l # OfQueue(Low)
  BY <1>4, FrontAndRear, ListNames DEF Beside, Chained
<1>6. c[l] # << >> /\ v \in Thread /\ v # t /\ activeFlag[v] = "BLOCKING" /\ mutex[v] = m
  BY <1>1, <1>4, UnlockHead DEF Heads
<1>7. PICK x \in Thread : x = v
  BY <1>6
<1>8. PICK e : e = Without(c, l)
  OBVIOUS
<1>9. PICK y : y = gen_dequeue(heap, m)
  OBVIOUS
<1>10. /\ Chained(y, e) /\ y.next = heap.next /\ y.rear = heap.rear /\ x = c[l][1]
  BY <1>5, <1>6, <1>7, <1>8, <1>9, GenDequeueChained
<1>11. /\ e \in [List -> Seq(Thread)] /\ ~ Among(e, x)
       /\ \A u : Among(c, u) <=> Among(e, u) \/ u = x
  BY <1>5, <1>6, <1>8, <1>10, WithoutOnce
<1>12. \A k \in List : k # l => e[k] = c[k]
  BY <1>5, <1>8 DEF Without
<1>13. PICK d : d = With(e, r, x)
  OBVIOUS
<1>14. d[r] = Append(e[r], x) /\ \A k \in List : k # r => d[k] = e[k]
  BY <1>5, <1>11, <1>13 DEF With
<1>15. e[r] = c[r] /\ d[OfQueue(Low)] = c[OfQueue(Low)]
  BY <1>5, <1>12, <1>14
<1>16. /\ Chained(heap', d) /\ heap'.rear[Running] = x
       /\ \A q \in Queue : q # Running => heap'.rear[q] = heap.rear[q]
       /\ heap'.next[t] = heap.next[t]
  <2>1. RearIs(y, Running, e[r])
    BY <1>5, <1>10, <1>15, QueueNumbers DEF RearIs
  <2>2. ~ Among(e, t) /\ t # x
    BY <1>5, <1>6, <1>7, <1>11
  <2>3. heap' = enqueue(y, x, Running)
    BY <1>1, <1>7, <1>9
  <2> HIDE DEF r
  <2>4. /\ Chained(enqueue(y, x, Running), With(e, OfQueue(Running), x))
        /\ enqueue(y, x, Running).rear[Running] = x
        /\ \A q \in Queue : q # Running => enqueue(y, x, Running).rear[q] = y.rear[q]
        /\ \A u \in Thread : u # x /\ ~ Among(e, u) => enqueue(y, x, Running).next[u] = y.next[u]
    BY <1>10, <1>11, <2>1, QueueNumbers, EnqueueChained DEF r
  <2> QED
    BY <1>10, <1>13, <2>2, <2>3, <2>4 DEF r
<1>17. \A u : Among(d, u) <=> Among(c, u)
  <2>1. \A u : Among(d, u) <=> Among(e, u) \/ u = x
    BY <1>5, <1>11, <1>13, AmongWith
  <2> QED
    BY <1>11, <2>1
<1>18. \A u \in Thread : activeFlag'[u] = IF u = x THEN "ACTIVE" ELSE activeFlag[u]
  BY <1>1, <1>2, <1>7 DEF TypeOK
<1>19. \A u \in Thread : mutex'[u] = IF u = t THEN m ELSE mutex[u]
  BY <1>1, <1>2 DEF TypeOK
<1>20. \A u \in Thread : Among(d, u) <=> activeFlag'[u] # "NONE" /\ (u # t \/ pc'[u] = "lock_sched")
  BY <1>3, <1>5, <1>6, <1>7, <1>17, <1>18
<1>21. PlacedBy(d, activeFlag', mutex')
  <2>1. PlacedBy(e, activeFlag, mutex)
    BY <1>5, <1>6, <1>8, PlacedWithout
  <2>2. \A u : Among(e, u) => activeFlag'[u] = activeFlag[u] /\ mutex'[u] = mutex[u]
    <3> SUFFICES ASSUME NEW u, Among(e, u) PROVE activeFlag'[u] = activeFlag[u] /\ mutex'[u] = mutex[u]
      OBVIOUS
    <3>1. u \in Thread
      BY <1>10, ChainedIs DEF Among, In
    <3>2. u # x /\ u # t
      BY <1>5, <1>11, <3>1
    <3> QED
      BY <1>18, <1>19, <3>1, <3>2
  <2>3. PlacedBy(e, activeFlag', mutex')
    BY <2>1, <2>2, PlacedSame
  <2>4. HomeBy(activeFlag'[x], mutex'[x]) = r
    BY <1>18, HomeIs
  <2> HIDE DEF r
  <2> QED
    BY <1>5, <1>11, <1>13, <2>3, <2>4, PlacedWith
<1>22. ASSUME NEW q \in Queue PROVE RearIs(heap', q, d[OfQueue(q)])
  <2>1. CASE q = Running
    <3>1. e[r] \in Seq(Thread)
      BY <1>5, <1>11
    <3>2. Append(e[r], x)[Len(Append(e[r], x))] = x
      BY <3>1, AppendIs
    <3> QED
      BY <1>14, <1>16, <2>1, <3>2 DEF RearIs
  <2>2. CASE q # Running
    <3>1. OfQueue(q) \in List /\ OfQueue(q) # r /\ OfQueue(q) # l
      BY <2>2, ListNames
    <3> QED
      BY <1>5, <1>12, <1>14, <1>16, <2>2, <3>1, SMTT(30) DEF RearIs
  <2> QED
    BY <2>1, <2>2
<1>23. Sorted(d[OfQueue(Low)], sinceRun)
  BY <1>5, <1>15
<1>24. NextIs(heap', d, t)
  <2>1. c[r] \in Seq(Thread)
    BY <1>5
  <2>2. \A u : In(c[r], u) => In(d[r], u)
    BY <1>14, <1>15, <2>1, AppendIs DEF In
  <2> QED
    BY <1>5, <1>15, <1>16, <2>2 DEF NextIs
<1>25. UNCHANGED << sinceRun, running, recursing >>
  BY <1>1 DEF scheduling_vars, machine_vars
<1> QED
  BY <1>3, <1>16, <1>20, <1>21, <1>22, <1>23, <1>24, <1>25, ShapedAgain

\* When the queue is empty nobody is blocked on the mutex.
LEMMA UnlockNobodyShape ==
  ASSUME Inv, Good, NEW t \in Thread, NEW m \in Mutex, Unlock(t, m), heap.wait[m].front = NULL
  PROVE  Shaped' /\ \A u \in Thread : u # t /\ mutex[u] = m => activeFlag[u] # "BLOCKING"
<1>1. /\ At(t, "user") /\ Goto(t, "unlock_clear") /\ heap' = heap /\ activeFlag' = activeFlag
      /\ mutex' = [mutex EXCEPT ![t] = m]
      /\ UNCHANGED scheduling_vars
  BY IsCurrent DEF Unlock
<1>2. TypeOK /\ Shaped
  BY DEF Inv, Good
<1>3. /\ pc[t] = "user" /\ pc'[t] = "unlock_clear" /\ ~ recursing /\ t = running
      /\ activeFlag[t] # "NONE" /\ \A u \in Thread : u # t => pc'[u] = pc[u]
  <2>1. /\ pc[t] = "user" /\ pc'[t] = "unlock_clear" /\ \A u \in Thread : u # t => pc'[u] = pc[u]
    BY <1>1, StepIs
  <2>2. activeFlag[t] # "NONE"
    BY <1>1, AtIs
  <2> QED
    BY <1>1, <2>1, <2>2 DEF At, Executes
<1>4. \A u \in Thread : u # t => mutex'[u] = mutex[u]
  BY <1>1, <1>2 DEF TypeOK
<1>5. Shaped'
  BY <1>1, <1>2, <1>3, <1>4, LocalShape DEF scheduling_vars, machine_vars
<1>6. PICK c : Beside(c, t)
  BY <1>2, <1>3, BesideExists
<1>7. c[OfMutex(m)] = << >>
  BY <1>1, <1>6, UnlockHead
<1>8. ASSUME NEW u \in Thread, u # t, mutex[u] = m, activeFlag[u] = "BLOCKING" PROVE FALSE
  <2>1. Among(c, u) /\ PlacedBy(c, activeFlag, mutex)
    BY <1>6, <1>8 DEF Beside
  <2>2. HomeBy(activeFlag[u], mutex[u]) = OfMutex(m)
    BY <1>8, HomeIs
  <2>3. In(c[OfMutex(m)], u)
    BY <2>1, <2>2, AmongHome
  <2> QED
    BY <1>7, <2>3 DEF In
<1> QED
  BY <1>5, <1>8

\* What goes for the locks while unlock runs.
LEMMA ContendedOther ==
  ASSUME NEW t \in Thread, NEW n, Contended(n), flag' = flag, mutex'[t] # n,
         \A u \in Thread : u # t => pc'[u] = pc[u] /\ mutex'[u] = mutex[u]
  PROVE  Contended(n)'
<1> SUFFICES ASSUME NEW u \in Thread PROVE ~ (pc'[u] = "unlock_clear" /\ mutex'[u] = n)
  BY DEF Contended
<1> QED
  BY DEF Contended

\* A thread that was woken for a mutex still is.
LEMMA WokenGrows ==
  ASSUME NEW t \in Thread, NEW n, Woken(n), pc[t] # "lock_tas",
         \A u \in Thread : u # t => /\ pc'[u] = pc[u] /\ mutex'[u] = mutex[u]
                                    /\ activeFlag'[u] = activeFlag[u] \/ activeFlag'[u] = "ACTIVE"
  PROVE  Woken(n)'
  BY DEF Woken

\* my_pthread_mutex_unlock: if somebody waits one is woken, before the flag is
\* cleared.
LEMMA UnlockGood ==
  ASSUME Inv, Good, NEW t \in Thread, NEW m \in Mutex, Unlock(t, m)
  PROVE  Good'
<1> DEFINE v == heap.wait[m].front
<1>1. /\ At(t, "user") /\ Goto(t, "unlock_clear") /\ flag' = flag /\ held' = held
      /\ mutex' = [mutex EXCEPT ![t] = m] /\ m \in held[t]
      /\ v # NULL => activeFlag' = [activeFlag EXCEPT ![v] = "ACTIVE"]
      /\ v = NULL => activeFlag' = activeFlag
      /\ UNCHANGED << thread_vars, scheduling_vars, target, joined >>
  BY IsCurrent DEF Unlock
<1>2. TypeOK /\ Shaped
  BY DEF Inv, Good
<1>3. /\ pc[t] = "user" /\ pc'[t] = "unlock_clear" /\ Acting(t)
      /\ activeFlag[t] \in OnFlags("user")
      /\ \A u \in Thread : HeldOf(u)
      /\ \A n \in Mutex : TakenOf(n)
      /\ \A u \in Thread : u # t => pc'[u] = pc[u]
      /\ \A u \in Thread : u # t => pc[u] \in {"user", "lock_tas", "join_done", "end_done"}
  BY <1>1, StepIs
<1>4. activeFlag[t] \in {"ACTIVE", "RUNNABLE"} /\ OnFlags("unlock_clear") = {"ACTIVE", "RUNNABLE"}
  BY <1>3, OnIs
<1>5. \A u \in Thread : mutex'[u] = IF u = t THEN m ELSE mutex[u]
  BY <1>1, <1>2 DEF TypeOK
<1>6. v # NULL => v \in Thread /\ v # t /\ activeFlag[v] = "BLOCKING" /\ mutex[v] = m /\ pc[v] = "lock_tas"
  <2>1. ~ recursing /\ t = running
    BY <1>1 DEF At, Executes
  <2>2. PICK c : Beside(c, t)
    BY <1>2, <1>3, <2>1, BesideExists
  <2> QED
    BY <1>1, <2>2, UnlockHead DEF Heads
<1>7. /\ v # NULL => \A u \in Thread : activeFlag'[u] = IF u = v THEN "ACTIVE" ELSE activeFlag[u]
      /\ v = NULL => \A u \in Thread : activeFlag'[u] = activeFlag[u]
  BY <1>1, <1>2, <1>6 DEF TypeOK
<1>8. Shaped' /\ (v = NULL => \A u \in Thread : u # t /\ mutex[u] = m => activeFlag[u] # "BLOCKING")
  BY UnlockShape, UnlockNobodyShape
<1> HIDE DEF v
<1>9. /\ activeFlag'[t] = activeFlag[t]
      /\ \A u \in Thread :
           \/ activeFlag'[u] = activeFlag[u]
           \/ activeFlag'[u] = "ACTIVE" /\ activeFlag[u] = "BLOCKING" /\ u = v
  <2>1. CASE v # NULL
    <3>1. v # t /\ activeFlag[v] = "BLOCKING"
      BY <1>6, <2>1
    <3>2. \A u \in Thread : activeFlag'[u] = IF u = v THEN "ACTIVE" ELSE activeFlag[u]
      BY <1>7, <2>1
    <3> QED
      BY <3>1, <3>2
  <2>2. CASE v = NULL
    BY <1>7, <2>2
  <2> QED
    BY <2>1, <2>2
<1>10. HeldOf(t)'
  <2>1. "unlock_clear" \notin LockPCs \cup JoinPCs \cup {"exit_value", "exit_sched", "end_dead", "end_sched", "end_done"}
    BY DEF LockPCs, JoinPCs
  <2> QED
    BY <1>3, <1>4, <1>9, <2>1 DEF HeldOf, LockPCs
<1>11. ASSUME NEW u \in Thread, u # t PROVE HeldOf(u)'
  <2>1. /\ held'[u] = held[u] /\ pc'[u] = pc[u] /\ mutex'[u] = mutex[u]
        /\ pc[u] \notin {"lock_block", "lock_enqueue"} /\ HeldOf(u)
    BY <1>1, <1>3, <1>5, <1>11
  <2>2. CASE activeFlag'[u] # activeFlag[u]
    <3>1. activeFlag'[u] = "ACTIVE"
      BY <1>9, <2>2
    <3> QED
      BY <2>1, <3>1 DEF HeldOf, LockPCs
  <2>3. CASE activeFlag'[u] = activeFlag[u]
    <3>1. PICK n : n = mutex[u]
      OBVIOUS
    <3>2. activeFlag[u] = "BLOCKING" => Contended(n)' \/ Woken(n)'
      <4> SUFFICES ASSUME activeFlag[u] = "BLOCKING" PROVE Contended(n)' \/ Woken(n)'
        OBVIOUS
      <4>1. Contended(n) \/ Woken(n)
        BY <2>1, <3>1 DEF HeldOf
      <4>2. Woken(n) => Woken(n)'
        BY <1>3, <1>5, <1>9, WokenGrows
      <4>3. CASE n # m
        <5>1. Contended(n) => Contended(n)'
          BY <1>1, <1>3, <1>5, <4>3, ContendedOther
        <5> QED
          BY <4>1, <4>2, <5>1
      <4>4. CASE n = m
        <5>1. v # NULL
          BY <1>8, <1>11, <3>1, <4>4
        <5>2. v \in Thread /\ mutex'[v] = m /\ pc'[v] = "lock_tas" /\ activeFlag'[v] = "ACTIVE"
          BY <1>3, <1>5, <1>6, <1>7, <5>1
        <5> QED
          BY <4>4, <5>2 DEF Woken
      <4> QED
        BY <4>3, <4>4
    <3> QED
      BY <1>11, <2>1, <2>3, <3>1, <3>2, HeldOther
  <2> QED
    BY <2>2, <2>3
<1>12. ASSUME NEW n \in Mutex PROVE TakenOf(n)'
  <2> SUFFICES ASSUME flag[n] = 1 PROVE \E u \in Thread : InCritical(u, n)'
    BY <1>1 DEF TakenOf
  <2>1. PICK u \in Thread : InCritical(u, n)
    BY <1>3 DEF TakenOf
  <2> QED
    BY <1>1, <1>3, <1>5, <2>1 DEF InCritical
<1>13. OutsideJoins(t, "user", "unlock_clear")
  BY <1>1, <1>4, <1>9 DEF OutsideJoins
<1> QED
  BY <1>8, <1>10, <1>11, <1>12, <1>13, HeldInvWillBe, OutsideGood

-----------------------------------------------------------------------------
(* The clock, and the end of the process. *)

\* A step outside the lists, flags, calls, locks and joins.
LEMMA GoodKept ==
  ASSUME Good, Shaped', UNCHANGED << activeFlag, thread_vars, flag, currThread, recursing,
                                     running, pc, program_vars >>,
         process' \in {"up", "exited"}
  PROVE  Good'
<1>1. UNCHANGED << activeFlag, valueSet, returnList, joinValue, flag, currThread, recursing,
                   running, pc, mutex, target, held, joined >>
  BY DEF thread_vars, program_vars
<1>2. StartInv'
  BY <1>1 DEF Good, StartInv
<1>3. FlagInv'
  <2>1. \A t \in Thread :
          activeFlag[t] \in IF t = currThread /\ ~ recursing THEN OnFlags(pc[t]) ELSE OffFlags(pc[t])
    BY DEF Good, FlagInv
  <2> QED
    BY <1>1, <2>1 DEF FlagInv
<1>4. HeldInv'
  <2>1. (\A t \in Thread : HeldOf(t)) /\ (\A m \in Mutex : TakenOf(m))
    BY HeldInvIs DEF Good
  <2>2. ASSUME NEW t \in Thread PROVE HeldOf(t)'
    <3>1. HeldOf(t)
      BY <2>1
    <3>2. /\ Contended(mutex[t])' <=> Contended(mutex[t])
          /\ Woken(mutex[t])' <=> Woken(mutex[t])
      BY <1>1 DEF Contended, Woken
    <3> QED
      BY <1>1, <3>1, <3>2 DEF HeldOf
  <2>3. ASSUME NEW m \in Mutex PROVE TakenOf(m)'
    BY <1>1, <2>1 DEF TakenOf, InCritical
  <2> QED
    BY <2>2, <2>3, HeldInvWillBe
<1>5. JoinInv'
  <2>1. \A w \in Thread : JoinOf(w)
    BY DEF Good, JoinInv, JoinOf
  <2>2. ASSUME NEW w \in Thread PROVE JoinOf(w)'
    <3>1. JoinOf(w)
      BY <2>1
    <3>2. \A x : Buried(x)' <=> Buried(x)
      BY <1>1 DEF Buried
    <3>3. Buried(target[w])' <=> Buried(target[w])
      BY <1>1 DEF Buried
    <3> QED
      BY <1>1, <3>1, <3>2, <3>3 DEF JoinOf
  <2> QED
    BY <2>2 DEF JoinInv, JoinOf
<1>6. ValueInv'
  BY <1>1 DEF Good, ValueInv
<1> QED
  BY <1>2, <1>3, <1>4, <1>5, <1>6 DEF Good

\* A tick adds as much to all ages, up to the limit.
LEMMA OlderSorted ==
  ASSUME NEW x \in Seq(Thread), NEW since \in [Thread -> 0 .. AgeLimit + 1], Sorted(x, since),
         NEW s, \A u \in Thread : In(x, u) =>
                  s[u] = IF since[u] <= AgeLimit THEN since[u] + 1 ELSE since[u]
  PROVE  Sorted(x, s)
<1> SUFFICES ASSUME NEW j \in 1 .. Len(x), NEW k \in 1 .. Len(x), j < k
             PROVE  s[x[j]] >= s[x[k]]
  BY DEF Sorted
<1>1. x[j] \in Thread /\ In(x, x[j]) /\ x[k] \in Thread /\ In(x, x[k])
  BY SeqIs DEF In
<1>2. since[x[j]] >= since[x[k]]
  BY DEF Sorted
<1>3. PICK a \in 0 .. AgeLimit + 1 : a = since[x[j]]
  BY <1>1
<1>4. PICK b \in 0 .. AgeLimit + 1 : b = since[x[k]]
  BY <1>1
<1>5. /\ s[x[j]] = IF a <= AgeLimit THEN a + 1 ELSE a
      /\ s[x[k]] = IF b <= AgeLimit THEN b + 1 ELSE b
  BY <1>1, <1>3, <1>4
<1>6. a >= b
  BY <1>2, <1>3, <1>4
<1>7. CASE a <= AgeLimit
  BY <1>5, <1>6, <1>7, AgeLimitNat
<1>8. CASE ~ (a <= AgeLimit)
  BY <1>5, <1>6, <1>8, AgeLimitNat
<1> QED
  BY <1>7, <1>8

\* Only runnable threads off the processor are in reach of queue 1.
LEMMA NoStrays ==
  ASSUME Shaped, pc[running] = "user", ~ recursing
  PROVE  Strays = {}
<1>1. PICK c : ShapeOf(heap, activeFlag, mutex, sinceRun, recursing, running, pc, c)
  BY DEF Shaped
<1> DEFINE x == c[OfQueue(Low)]
           w == Walk(heap, Low)
<1>2. /\ Chained(heap, c) /\ PlacedBy(c, activeFlag, mutex) /\ heap \in Heap
      /\ \A t \in Thread : ListedBy(activeFlag, running, recursing, pc, t) <=> Among(c, t)
      /\ OfQueue(Low) \in List /\ x \in Seq(Thread) /\ QueueHolds(heap, Low, x) /\ NoneTwice(x)
  BY <1>1, FrontAndRear, ChainedIs, OnceEach, QueueNumbers DEF ShapeOf
<1>3. /\ w \in [0 .. Cardinality(Thread) -> Pointer] /\ Cardinality(Thread) \in Nat
      /\ \A k \in 0 .. Cardinality(Thread) : w[k] = IF k < Len(x) THEN x[k + 1] ELSE NULL
      /\ Len(x) \in Nat /\ x \in [1 .. Len(x) -> Thread]
  BY <1>2, WalkMeets, QueueNumbers, SeqIs
<1>4. ASSUME NEW t \in Nodes(w)
      PROVE  t # running /\ activeFlag[t] = "RUNNABLE"
  <2> HIDE DEF x, w
  <2>1. PICK k \in 0 .. Cardinality(Thread) : w[k] = t /\ t # NULL
    BY <1>3 DEF Nodes
  <2>2. k + 1 \in 1 .. Len(x) /\ t = x[k + 1] /\ t \in Thread
    BY <1>3, <2>1
  <2>3. In(x, t)
    BY <2>2 DEF In
  <2>4. Among(c, t) /\ HomeBy(activeFlag[t], mutex[t]) = OfQueue(Low)
    BY <1>2, <2>2, <2>3, InHome DEF Among, x
  <2> QED
    BY <1>2, <2>2, <2>4, HomeIs DEF ListedBy
<1> QED
  BY <1>4 DEF Strays

\* The clock ticks in the program's own code.
LEMMA TickGood ==
  ASSUME Inv, Calm, Good, Tick
  PROVE  Good'
<1>1. /\ process = "up" /\ pc[running] = "user" /\ ~ recursing
      /\ sinceRun' = [t \in Thread |->
                    IF t # running /\ activeFlag[t] = "RUNNABLE" /\ sinceRun[t] <= AgeLimit
                    THEN sinceRun[t] + 1 ELSE sinceRun[t]]
      /\ UNCHANGED << heap, activeFlag, thread_vars, flag, currThread, machine_vars,
                      pc, program_vars >>
  BY NoStrays DEF Tick, Calm, GetsOlder, Good
<1>2. /\ sinceRun \in [Thread -> 0 .. AgeLimit + 1] /\ running \in Thread /\ Shaped
  BY DEF Inv, TypeOK, Good
<1>3. PICK c : ShapeOf(heap, activeFlag, mutex, sinceRun, recursing, running, pc, c)
  BY <1>2 DEF Shaped
<1> DEFINE x == c[OfQueue(Low)]
<1>4. /\ Chained(heap, c) /\ PlacedBy(c, activeFlag, mutex)
      /\ \A t \in Thread : ListedBy(activeFlag, running, recursing, pc, t) <=> Among(c, t)
      /\ Rears(heap, c, recursing, sinceRun)
      /\ Sorted(x, sinceRun)
      /\ ListedBy(activeFlag, running, recursing, pc, running) \/ NextIs(heap, c, running)
      /\ OfQueue(Low) \in List /\ x \in Seq(Thread)
  BY <1>3, FrontAndRear, ChainedIs DEF ShapeOf
<1>5. ASSUME NEW u \in Thread, In(x, u)
      PROVE  sinceRun'[u] = IF sinceRun[u] <= AgeLimit THEN sinceRun[u] + 1 ELSE sinceRun[u]
  <2>1. Among(c, u)
    BY <1>4, <1>5 DEF Among
  <2>2. u # running
    BY <1>1, <1>4, <2>1 DEF ListedBy
  <2>3. HomeBy(activeFlag[u], mutex[u]) = OfQueue(Low)
    BY <1>4, <1>5, InHome
  <2>4. activeFlag[u] = "RUNNABLE"
    BY <2>3, HomeIs
  <2> QED
    BY <1>1, <2>2, <2>4
<1>6. Sorted(x, sinceRun')
  <2>1. PICK y \in Seq(Thread) : y = x
    BY <1>4
  <2>2. PICK since \in [Thread -> 0 .. AgeLimit + 1] : since = sinceRun
    BY <1>2
  <2>3. Sorted(y, since)
    BY <1>4, <2>1, <2>2
  <2>4. \A u \in Thread : In(y, u) =>
          sinceRun'[u] = IF since[u] <= AgeLimit THEN since[u] + 1 ELSE since[u]
    BY <1>5, <2>1, <2>2
  <2>5. Sorted(y, sinceRun')
    BY <2>3, <2>4, OlderSorted
  <2> QED
    BY <2>1, <2>5
<1>7. Rears(heap, c, recursing, sinceRun')
  BY <1>1, <1>4 DEF Rears
<1>8. UNCHANGED << heap, activeFlag, mutex, recursing, running, pc, process >>
  BY <1>1 DEF machine_vars, program_vars
<1>9. ShapeOf(heap', activeFlag', mutex', sinceRun', recursing', running', pc', c)
  BY <1>1, <1>4, <1>6, <1>7, <1>8 DEF ShapeOf
<1>10. Shaped'
  BY <1>9 DEF Shaped
<1> QED
  BY <1>1, <1>8, <1>10, GoodKept

\* main() returns.
LEMMA MainReturnsGood ==
  ASSUME Good, MainReturns
  PROVE  Good'
<1>1. /\ UNCHANGED << heap, activeFlag, thread_vars, flag, currThread, sinceRun, recursing, running,
                      pc, program_vars >>
      /\ process' = "exited"
  BY DEF MainReturns
<1>2. Shaped'
  BY <1>1 DEF Good, Shaped, program_vars
<1> QED
  BY <1>1, <1>2, GoodKept

\* Nothing happens.
LEMMA StutterGood ==
  ASSUME Good, UNCHANGED vars
  PROVE  Good'
<1>1. /\ UNCHANGED << heap, activeFlag, thread_vars, flag, currThread, sinceRun, recursing, running,
                      pc, program_vars >>
      /\ process' = process
  BY DEF vars, thread_vars, program_vars
<1>2. Shaped'
  BY <1>1 DEF Good, Shaped, program_vars
<1>3. process' \in {"up", "exited"}
  BY <1>1 DEF Good
<1> QED
  BY <1>1, <1>2, <1>3, GoodKept

\* scheduler() has never left currThread NULL, so no thread is an orphan, and
\* its loops end.
LEMMA NeverOrphan ==
  ASSUME Inv, Good
  PROVE  /\ activeFlag[Main] # "NONE" => currThread = running
         /\ \A t \in Thread : ~ LastContextEnds(t) /\ ~ NullDereference(t) /\ ~ OrphanCreate(t)
                              /\ ~ Hang(t)
<1>1. activeFlag[Main] # "NONE" => currThread = running
  BY MainIsThread DEF Good, StartInv
<1>2. running # NULL
  BY NullIsNoThread DEF Inv, TypeOK
<1>3. ~ AgingCircles
  BY NoCircles DEF Inv, Good
<1> QED
  BY <1>1, <1>2, <1>3 DEF LastContextEnds, NullDereference, OrphanCreate, Orphan, Hang

-----------------------------------------------------------------------------
(* The start. *)

Nobody == [l \in List |-> << >>]

\* initQueue makes empty lists.
LEMMA NobodyChained ==
  /\ Chained(initQueue, Nobody) /\ \A u : ~ Among(Nobody, u)
  /\ \A l \in List : Nobody[l] = << >>
<1>1. /\ \A l \in List : Nobody[l] = << >> /\ Len(Nobody[l]) = 0
      /\ Nobody \in [List -> Seq(Thread)]
  BY DEF Nobody
<1>2. initQueue \in Heap
  BY DEF Heap, initQueue, Pointer
<1>3. \A q \in Queue : QueueHolds(initQueue, q, Nobody[OfQueue(q)])
  BY <1>1, ListNames DEF QueueHolds, initQueue
<1>4. \A m \in Mutex : MutexHolds(initQueue, m, Nobody[OfMutex(m)])
  BY <1>1, ListNames DEF MutexHolds, initQueue
<1>5. Once(Nobody) /\ \A u : ~ Among(Nobody, u)
  BY <1>1 DEF Once, Among, In
<1>6. Ranked(initQueue.next)
  <2>1. [t \in Thread |-> 0] \in [Thread -> Nat]
    OBVIOUS
  <2>2. Falls(initQueue.next, [t \in Thread |-> 0])
    BY DEF Falls, initQueue
  <2> QED
    BY <2>1, <2>2 DEF Ranked
<1> QED
  BY <1>1, <1>2, <1>3, <1>4, <1>5, <1>6 DEF Chained, Linked

\* Before the first create all is well.
LEMMA InitGood == Init => Good
<1> SUFFICES ASSUME Init PROVE Good
  OBVIOUS
<1>1. Shaped
  <2>1. PlacedBy(Nobody, activeFlag, mutex)
    BY NobodyChained DEF PlacedBy
  <2>2. \A t \in Thread : ListedBy(activeFlag, running, recursing, pc, t) <=> Among(Nobody, t)
    BY NobodyChained DEF Init, ListedBy
  <2>3. Rears(heap, Nobody, recursing, sinceRun)
    BY NobodyChained, ListNames DEF Rears, RearIs
  <2>4. Sorted(Nobody[OfQueue(Low)], sinceRun)
    BY NobodyChained, FrontAndRear DEF Sorted
  <2>5. NextIs(heap, Nobody, running)
    BY MainIsThread DEF Init, NextIs, initQueue
  <2>6. ShapeOf(heap, activeFlag, mutex, sinceRun, recursing, running, pc, Nobody)
    BY <2>1, <2>2, <2>3, <2>4, <2>5, NobodyChained DEF ShapeOf, Init
  <2> QED
    BY <2>6 DEF Shaped
<1>2. StartInv
  BY DEF Init, StartInv
<1>3. FlagInv
  BY MainIsThread, NullIsNoThread DEF Init, FlagInv, OffFlags
<1>4. HeldInv
  <2>1. "user" \notin LockPCs
    BY DEF LockPCs
  <2> QED
    BY <2>1 DEF Init, HeldInv
<1>5. JoinInv
  <2>1. "user" \notin JoinPCs
    BY DEF JoinPCs
  <2> QED
    BY <2>1 DEF Init, JoinInv
<1>6. ValueInv
  BY DEF Init, ValueInv
<1> QED
  BY <1>1, <1>2, <1>3, <1>4, <1>5, <1>6 DEF Good, Init

\* Sequences of one and of two.
LEMMA Short ==
  ASSUME NEW a \in Thread, NEW b \in Thread
  PROVE  /\ << a >> \in Seq(Thread) /\ << a, b >> \in Seq(Thread)
         /\ Append(<< >>, a) = << a >> /\ Append(<< a >>, b) = << a, b >>
         /\ Tail(<< a, b >>) = << b >>
         /\ Len(<< a >>) = 1 /\ Len(<< a, b >>) = 2 /\ << a >>[1] = a
         /\ << a, b >>[1] = a /\ << a, b >>[2] = b /\ << a >> # << >> /\ << a, b >> # << >>
<1>1. /\ << a >> \in Seq(Thread) /\ << a, b >> \in Seq(Thread) /\ << >> \in Seq(Thread) /\ << b >> \in Seq(Thread)
  OBVIOUS
<1>2. /\ Len(<< a >>) = 1 /\ Len(<< a, b >>) = 2 /\ << a >>[1] = a
      /\ << a, b >>[1] = a /\ << a, b >>[2] = b /\ << b >>[1] = b /\ Len(<< b >>) = 1
  OBVIOUS
<1>3. /\ << a >> # << >> /\ << a, b >> # << >>
  OBVIOUS
<1>4. Append(<< >>, a) = << a >> /\ Append(<< a >>, b) = << a, b >>
  <2>1. Append(<< >>, a) = << a >>
    OBVIOUS
  <2>2. PICK y : y = Append(<< a >>, b)
    OBVIOUS
  <2>3. y \in Seq(Thread) /\ Len(y) = 2 /\ y[1] = a /\ y[2] = b
    <3>1. /\ y \in Seq(Thread) /\ Len(y) = Len(<< a >>) + 1
          /\ \A k \in 1 .. Len(<< a >>) : y[k] = << a >>[k]
          /\ y[Len(<< a >>) + 1] = b
      BY <1>1, <2>2, AppendIs
    <3> QED
      BY <1>2, <3>1
  <2>4. y = << a, b >>
    BY <2>3
  <2> QED
    BY <2>1, <2>2, <2>4
<1>5. Tail(<< a, b >>) = << b >>
  OBVIOUS
<1> QED
  BY <1>1, <1>2, <1>3, <1>4, <1>5

\* The heap after the first create: Main waits in queue 0, and x runs.
FirstLists(x) ==
  LET two == enqueue(enqueue(initQueue, Main, Running), x, Running)
  IN  /\ Rotated(two).front[Running] = x
      /\ \E d : /\ Chained(dequeue(Rotated(two), Running), d)
                /\ \A u : Among(d, u) <=> u = Main
                /\ d[OfQueue(Running)] = << Main >>
                /\ dequeue(Rotated(two), Running).rear[Running] = Main
                /\ dequeue(Rotated(two), Running).next[x] = Main

\* my_pthread_create calls scheduler() with main() and x in queue 0: main() gets
\* behind x, and x is taken to run.
LEMMA FirstListsAre ==
  ASSUME NEW x \in Thread, x # Main
  PROVE  FirstLists(x)
<1> DEFINE l == OfQueue(Running)
<1>1. /\ l \in List /\ Running \in Queue /\ Main \in Thread /\ OfQueue(Running) = l
      /\ Chained(initQueue, Nobody) /\ Nobody[l] = << >> /\ \A u : ~ Among(Nobody, u)
  BY FrontAndRear, QueueNumbers, MainIsThread, NobodyChained
<1> HIDE DEF l
<1>2. PICK h1 : h1 = enqueue(initQueue, Main, Running)
  OBVIOUS
<1>3. PICK h2 : h2 = enqueue(h1, x, Running)
  OBVIOUS
<1>4. PICK h3 : h3 = dequeue(h2, Running)
  OBVIOUS
<1>5. PICK h4 : h4 = enqueue(h3, Main, Running)
  OBVIOUS
<1>6. PICK h5 : h5 = dequeue(h4, Running)
  OBVIOUS
<1>7. PICK c1 : c1 = With(Nobody, l, Main)
  OBVIOUS
<1>8. PICK c2 : c2 = With(c1, l, x)
  OBVIOUS
<1>9. PICK c3 : c3 = Without(c2, l)
  OBVIOUS
<1>10. PICK c4 : c4 = With(c3, l, Main)
  OBVIOUS
<1>11. PICK c5 : c5 = Without(c4, l)
  OBVIOUS
<1>12. /\ Chained(h1, c1) /\ h1.rear[Running] = Main /\ c1[l] = << Main >>
       /\ \A u : Among(c1, u) <=> u = Main
  <2>1. RearIs(initQueue, Running, Nobody[OfQueue(Running)]) /\ Nobody \in [List -> Seq(Thread)]
    BY <1>1 DEF RearIs, Chained
  <2>2. Chained(h1, c1) /\ h1.rear[Running] = Main
    BY <1>1, <1>2, <1>7, <2>1, EnqueueChained
  <2>3. c1[l] = << Main >>
    BY <1>1, <1>7, <2>1, Short DEF With
  <2> QED
    BY <1>1, <1>7, <2>1, <2>2, <2>3, AmongWith
<1>13. /\ Chained(h2, c2) /\ h2.rear[Running] = x /\ c2[l] = << Main, x >>
       /\ \A u : Among(c2, u) <=> u = Main \/ u = x
  <2>0. ~ Among(c1, x)
    BY <1>1, <1>12
  <2>1. RearIs(h1, Running, c1[OfQueue(Running)]) /\ c1 \in [List -> Seq(Thread)]
    BY <1>1, <1>12, Short DEF RearIs, Chained
  <2>2. Chained(h2, c2) /\ h2.rear[Running] = x
    <3>1. Chained(h1, c1) /\ Running \in Queue /\ x \in Thread
      BY <1>1, <1>12
    <3>2. /\ Chained(enqueue(h1, x, Running), With(c1, OfQueue(Running), x))
          /\ enqueue(h1, x, Running).rear[Running] = x
      BY <2>0, <2>1, <3>1, EnqueueChained
    <3> QED
      BY <1>1, <1>3, <1>8, <3>2
  <2>3. c2[l] = << Main, x >>
    <3>1. c2[l] = Append(c1[l], x)
      BY <1>1, <1>8, <2>1 DEF With
    <3>2. c1[l] = << Main >>
      BY <1>12
    <3>3. Append(<< Main >>, x) = << Main, x >>
      BY <1>1, Short
    <3> QED
      BY <3>1, <3>2, <3>3
  <2> QED
    BY <1>1, <1>8, <1>12, <2>1, <2>2, <2>3, AmongWith
<1>14. /\ Chained(h3, c3) /\ h3.rear = h2.rear /\ c3[l] = << x >> /\ h2.front[Running] = Main
       /\ \A u : Among(c3, u) <=> u = x
  <2>1. c2 \in [List -> Seq(Thread)] /\ Once(c2) /\ c2[l] # << >> /\ c2[l][1] = Main
    BY <1>1, <1>13, Short DEF Chained
  <2>2. h3 = [h2 EXCEPT !.front[Running] = h2.next[h2.front[Running]]]
    BY <1>4 DEF dequeue
  <2>3. Chained(h3, c3) /\ h3.rear = h2.rear /\ h2.front[Running] = Main
    <3>1. PICK y : y = c2[OfQueue(Running)]
      OBVIOUS
    <3>2. y # << >> /\ y[1] = Main
      BY <1>1, <2>1, <3>1
    <3> QED
      BY <1>1, <1>9, <1>13, <2>2, <3>1, <3>2, TakeChained
  <2>4. c3[l] = << x >>
    BY <1>1, <1>9, <1>13, <2>1, Short DEF Without
  <2>5. ~ Among(c3, Main) /\ \A u : Among(c2, u) <=> Among(c3, u) \/ u = Main
    BY <1>1, <1>9, <2>1, WithoutOnce
  <2> QED
    BY <1>13, <2>3, <2>4, <2>5
<1>15. /\ Chained(h4, c4) /\ h4.rear[Running] = Main /\ c4[l] = << x, Main >>
       /\ \A u : Among(c4, u) <=> u = x \/ u = Main
  <2>0. ~ Among(c3, Main)
    BY <1>1, <1>14
  <2>1. RearIs(h3, Running, c3[OfQueue(Running)]) /\ c3 \in [List -> Seq(Thread)]
    BY <1>1, <1>13, <1>14, Short DEF RearIs, Chained
  <2>2. Chained(h4, c4) /\ h4.rear[Running] = Main
    <3>1. Chained(h3, c3) /\ Running \in Queue /\ Main \in Thread
      BY <1>1, <1>14
    <3>2. /\ Chained(enqueue(h3, Main, Running), With(c3, OfQueue(Running), Main))
          /\ enqueue(h3, Main, Running).rear[Running] = Main
      BY <2>0, <2>1, <3>1, EnqueueChained
    <3> QED
      BY <1>1, <1>5, <1>10, <3>2
  <2>3. c4[l] = << x, Main >>
    <3>1. c4[l] = Append(c3[l], Main)
      BY <1>1, <1>10, <2>1 DEF With
    <3>2. c3[l] = << x >>
      BY <1>14
    <3>3. Append(<< x >>, Main) = << x, Main >>
      BY <1>1, Short
    <3> QED
      BY <3>1, <3>2, <3>3
  <2> QED
    BY <1>1, <1>10, <1>14, <2>1, <2>2, <2>3, AmongWith
<1>16. /\ Chained(h5, c5) /\ h5.rear = h4.rear /\ h5.next = h4.next /\ c5[l] = << Main >>
       /\ h4.front[Running] = x /\ h4.next[x] = Main
       /\ \A u : Among(c5, u) <=> u = Main
  <2>1. /\ c4 \in [List -> Seq(Thread)] /\ Once(c4) /\ c4[l] # << >> /\ c4[l][1] = x
        /\ c4[l][2] = Main /\ Len(c4[l]) = 2
    BY <1>1, <1>15, Short DEF Chained
  <2>2. h5 = [h4 EXCEPT !.front[Running] = h4.next[h4.front[Running]]]
    BY <1>6 DEF dequeue
  <2>3. /\ Chained(h5, c5) /\ h5.rear = h4.rear /\ h5.next = h4.next /\ h4.front[Running] = x
        /\ h4.next[x] = Main
    <3>1. PICK y : y = c4[OfQueue(Running)]
      OBVIOUS
    <3>2. y # << >> /\ y[1] = x /\ y[2] = Main /\ Len(y) = 2
      BY <1>1, <2>1, <3>1
    <3> QED
      BY <1>1, <1>11, <1>15, <2>2, <3>1, <3>2, TakeChained
  <2>4. c5[l] = << Main >>
    BY <1>1, <1>11, <1>15, <2>1, Short DEF Without
  <2>5. ~ Among(c5, x) /\ \A u : Among(c4, u) <=> Among(c5, u) \/ u = x
    BY <1>1, <1>11, <2>1, WithoutOnce
  <2> QED
    BY <1>15, <2>3, <2>4, <2>5
<1>17. h4 = Rotated(enqueue(enqueue(initQueue, Main, Running), x, Running))
  BY <1>2, <1>3, <1>4, <1>5, <1>14 DEF Rotated
<1> QED
  BY <1>1, <1>6, <1>15, <1>16, <1>17 DEF FirstLists

\* The first create keeps everything.
LEMMA FirstCreateGood ==
  ASSUME Inv, Good, NEW x \in Thread, FirstCreate(x)
  PROVE  Good'
<1> DEFINE two == enqueue(enqueue(initQueue, Main, Running), x, Running)
<1>1. /\ process = "up" /\ activeFlag[Main] = "NONE" /\ x # Main
      /\ activeFlag' = [activeFlag EXCEPT ![Main] = "ACTIVE", ![x] = "ACTIVE"]
      /\ heap' = dequeue(Rotated(two), Running)
      /\ currThread' = Rotated(two).front[Running]
      /\ running' = Rotated(two).front[Running]
      /\ valueSet' = valueSet /\ returnList' = returnList /\ joinValue' = joinValue
      /\ flag' = flag /\ sinceRun' = sinceRun /\ recursing' = recursing /\ process' = process
      /\ pc' = pc /\ mutex' = mutex /\ target' = target /\ held' = held /\ joined' = joined
  BY DEF FirstCreate, StartFirst, thread_vars, program_vars
<1>2. TypeOK /\ Main \in Thread /\ HeldInv /\ JoinInv
  BY MainIsThread DEF Inv, Good
<1>3. /\ currThread = NULL /\ running = Main /\ ~ recursing
      /\ \A t \in Thread : activeFlag[t] = "NONE"
  BY <1>1 DEF Good, StartInv
<1>4. \A t \in Thread : pc[t] = "user"
  <2> TAKE t \in Thread
  <2>1. "NONE" \in OffFlags(pc[t])
    BY <1>3, NullIsNoThread DEF Good, FlagInv
  <2> QED
    BY <2>1, OffIs
<1>5. \A t \in Thread : activeFlag'[t] = IF t = Main \/ t = x THEN "ACTIVE" ELSE "NONE"
  BY <1>1, <1>2, <1>3 DEF TypeOK
<1>6. FirstLists(x)
  BY <1>1, FirstListsAre
<1>7. currThread' = x /\ running' = x
  BY <1>1, <1>6 DEF FirstLists
<1>a. /\ x # Main /\ ~ recursing' /\ process = "up" /\ process' = "up"
      /\ \A t \in Thread : pc'[t] = "user"
      /\ \A t \in Thread : activeFlag'[t] \in {"ACTIVE", "NONE"}
      /\ activeFlag'[Main] = "ACTIVE" /\ activeFlag'[x] = "ACTIVE"
      /\ returnList' = returnList /\ held' = held
  BY <1>1, <1>2, <1>3, <1>4, <1>5
<1>b. target' = target /\ joined' = joined /\ flag' = flag /\ pc' = pc /\ mutex' = mutex
  BY <1>1
<1>8. PICK d : /\ Chained(heap', d) /\ \A u : Among(d, u) <=> u = Main
               /\ d[OfQueue(Running)] = << Main >>
               /\ heap'.rear[Running] = Main /\ heap'.next[x] = Main
  BY <1>1, <1>6 DEF FirstLists
<1>9. Shaped'
  <2>1. /\ d \in [List -> Seq(Thread)]
        /\ \A l \in List : l # OfQueue(Running) => d[l] = << >>
    <3>1. d \in [List -> Seq(Thread)] /\ Once(d) /\ OfQueue(Running) \in List
      BY <1>8, FrontAndRear DEF Chained
    <3>2. ASSUME NEW l \in List, l # OfQueue(Running), d[l] # << >> PROVE FALSE
      <4>1. d[l] \in Seq(Thread)
        BY <3>1
      <4>2. 1 \in 1 .. Len(d[l])
        BY <3>2, <4>1, SeqIs
      <4>3. d[l][1] = Main
        BY <1>8, <3>2, <4>2, InIs
      <4>4. 1 \in 1 .. Len(d[OfQueue(Running)]) /\ d[OfQueue(Running)][1] = Main
        BY <1>2, <1>8, Short
      <4>5. d[l][1] = d[OfQueue(Running)][1]
        BY <4>3, <4>4
      <4> QED
        BY <3>1, <3>2, <4>2, <4>4, <4>5, OnceIs
    <3> QED
      BY <3>1, <3>2
  <2>2. PlacedBy(d, activeFlag', mutex')
    <3> SUFFICES ASSUME NEW l \in List, NEW k \in 1 .. Len(d[l])
                 PROVE  HomeBy(activeFlag'[d[l][k]], mutex'[d[l][k]]) = l
      BY DEF PlacedBy
    <3>1. l = OfQueue(Running)
      BY <2>1
    <3>2. d[l][k] = Main
      BY <1>8, InIs
    <3>3. activeFlag'[Main] = "ACTIVE"
      BY <1>2, <1>5
    <3> QED
      BY <3>1, <3>2, <3>3, HomeIs
  <2>3. \A t \in Thread : ListedBy(activeFlag', running', recursing', pc', t) <=> Among(d, t)
    <3> TAKE t \in Thread
    <3>1. ListedBy(activeFlag', running', recursing', pc', t) <=> activeFlag'[t] # "NONE" /\ t # x
      BY <1>7, <1>a DEF ListedBy
    <3>2. activeFlag'[t] # "NONE" /\ t # x <=> t = Main
      BY <1>5, <1>a
    <3> QED
      BY <1>8, <3>1, <3>2
  <2>4. Rears(heap', d, recursing', sinceRun')
    <3> SUFFICES ASSUME NEW q \in Queue PROVE RearIs(heap', q, d[OfQueue(q)])
      BY DEF Rears
    <3>1. CASE q = Running
      BY <1>2, <1>8, <3>1, Short DEF RearIs
    <3>2. CASE q # Running
      <4>1. OfQueue(q) \in List /\ OfQueue(q) # OfQueue(Running)
        BY <3>2, ListNames
      <4> QED
        BY <2>1, <4>1 DEF RearIs
    <3> QED
      BY <3>1, <3>2
  <2>5. Sorted(d[OfQueue(Low)], sinceRun')
    <3>1. d[OfQueue(Low)] = << >>
      BY <2>1, FrontAndRear
    <3> QED
      BY <3>1 DEF Sorted
  <2>6. NextIs(heap', d, running')
    <3>1. In(d[OfQueue(Running)], Main)
      BY <1>2, <1>8, Short DEF In
    <3> QED
      BY <1>7, <1>8, <3>1 DEF NextIs
  <2>7. ShapeOf(heap', activeFlag', mutex', sinceRun', recursing', running', pc', d)
    BY <1>8, <1>a, <2>2, <2>3, <2>4, <2>5, <2>6 DEF ShapeOf
  <2> QED
    BY <2>7 DEF Shaped
<1>10. StartInv'
  BY <1>2, <1>7, <1>a DEF StartInv
<1>11. FlagInv'
  <2>1. \A t \in Thread : activeFlag'[t] \in IF t = currThread' /\ ~ recursing'
                                             THEN OnFlags(pc'[t]) ELSE OffFlags(pc'[t])
    <3> TAKE t \in Thread
    <3>1. OnFlags(pc'[t]) = {"ACTIVE", "RUNNABLE"}
          /\ OffFlags(pc'[t]) = {"NONE", "ACTIVE", "RUNNABLE", "DEAD"}
      BY <1>a DEF OnFlags, OffFlags
    <3>2. CASE t = x
      BY <1>7, <1>a, <3>1, <3>2
    <3>3. CASE t # x
      BY <1>7, <1>a, <3>1, <3>3
    <3> QED
      BY <3>2, <3>3
  <2> QED
    BY <2>1 DEF FlagInv
<1>12. HeldInv'
  <2>1. (\A t \in Thread : HeldOf(t)) /\ (\A m \in Mutex : TakenOf(m))
    BY <1>2, HeldInvIs
  <2>2. ASSUME NEW t \in Thread PROVE HeldOf(t)'
    <3>1. held[t] = {}
      BY <1>3, <2>1 DEF HeldOf
    <3>2. "user" \notin LockPCs
      BY DEF LockPCs
    <3>3. held'[t] = {} /\ pc'[t] = "user" /\ activeFlag'[t] # "BLOCKING"
      BY <1>a, <3>1
    <3> QED
      BY <3>2, <3>3 DEF HeldOf
  <2>3. ASSUME NEW m \in Mutex PROVE TakenOf(m)'
    BY <1>a, <1>b, <2>1 DEF TakenOf, InCritical
  <2> QED
    BY <2>2, <2>3, HeldInvWillBe
<1>13. JoinInv'
  <2>1. "user" \notin JoinPCs
    BY DEF JoinPCs
  <2>2. ASSUME NEW w \in Thread PROVE JoinOf(w)'
    <3>1. JoinOf(w)
      BY <1>2 DEF JoinInv, JoinOf
    <3>2. target[w] = NULL
      BY <1>4, <2>1, <3>1 DEF JoinOf
    <3>3. joined[w] = {}
      <4>1. joined[w] \subseteq Thread
        BY <1>2 DEF TypeOK
      <4> QED
        BY <1>3, <3>1, <4>1 DEF JoinOf, Buried
    <3>4. /\ pc'[w] = "user" /\ target'[w] = NULL /\ joined'[w] = {}
          /\ returnList'[w] = returnList[w] /\ activeFlag'[w] # "WAITING"
      BY <1>a, <1>b, <3>2, <3>3
    <3>5. returnList[w] \subseteq joined[w] \cup {target[w]}
      BY <3>1 DEF JoinOf
    <3> QED
      BY <2>1, <3>2, <3>3, <3>4, <3>5 DEF JoinOf
  <2> QED
    BY <2>2 DEF JoinInv, JoinOf
<1>14. ValueInv'
  BY <1>a DEF ValueInv
<1> QED
  BY <1>a, <1>9, <1>10, <1>11, <1>12, <1>13, <1>14 DEF Good

-----------------------------------------------------------------------------
(* All steps, and what follows. *)

\* Every step of a library call, ...
LEMMA LibraryGood ==
  ASSUME Inv, Calm, Good, NEW t \in Thread, Library(t)
  PROVE  Good'
<1>1. CASE CallScheduler(t) \/ Recurse(t)
  BY <1>1, SchedulerGood
<1>2. CASE ExitValue(t)
  BY <1>2, ExitValueGood
<1>3. CASE ReturnDead(t)
  BY <1>3, ReturnDeadGood
<1>4. CASE JoinWait(t)
  BY <1>4, JoinWaitGood
<1>5. CASE JoinList(t)
  BY <1>5, JoinListGood
<1>6. CASE JoinDone(t)
  BY <1>6, JoinDoneGood
<1>7. CASE TestAndSet(t)
  BY <1>7, TestAndSetGood
<1>8. CASE LockBlock(t)
  BY <1>8, LockBlockGood
<1>9. CASE LockEnqueue(t)
  BY <1>9, LockEnqueueGood
<1>10. CASE LockDone(t)
  BY <1>10, LockDoneGood
<1>11. CASE UnlockClear(t)
  BY <1>11, UnlockClearGood
<1> QED
  BY <1>1, <1>2, <1>3, <1>4, <1>5, <1>6, <1>7, <1>8, <1>9, <1>10, <1>11 DEF Library

\* ... every call of a program, ...
LEMMA ProgramGood ==
  ASSUME Inv, Calm, Good, NEW t \in Thread, Program(t)
  PROVE  Good'
<1>1. CASE Yield(t)
  BY <1>1, YieldGood
<1>2. CASE Exit(t)
  BY <1>2, ExitGood
<1>3. CASE Return(t)
  BY <1>3, ReturnGood
<1>4. ASSUME NEW x \in Thread, Join(t, x) PROVE Good'
  BY <1>4, JoinGood
<1>5. ASSUME NEW m \in Mutex, Lock(t, m) PROVE Good'
  BY <1>5, LockGood
<1>6. ASSUME NEW m \in Mutex, Unlock(t, m) PROVE Good'
  BY <1>6, UnlockGood
<1> QED
  BY <1>1, <1>2, <1>3, <1>4, <1>5, <1>6 DEF Program

\* ... and every step keeps the invariant.
LEMMA NextGood ==
  ASSUME Inv, Calm, Good, [Next]_vars
  PROVE  Good'
<1>1. ASSUME NEW t \in Thread, Library(t) \/ Program(t) \/ Alarm(t) PROVE Good'
  BY <1>1, LibraryGood, ProgramGood, SchedulerGood
<1>2. ASSUME NEW x \in Thread, FirstCreate(x) \/ Create(x) \/ OrphanCreate(x) PROVE Good'
  BY <1>2, FirstCreateGood, CreateGood, NeverOrphan
<1>3. CASE Tick
  BY <1>3, TickGood
<1>4. CASE MainReturns
  BY <1>4, MainReturnsGood
<1>5. ASSUME NEW t \in Thread, LastContextEnds(t) \/ NullDereference(t) \/ Hang(t) PROVE Good'
  BY <1>5, NeverOrphan
<1>6. CASE UNCHANGED vars
  BY <1>6, StutterGood
<1>7. CASE Gone
  BY <1>7, StutterGood DEF Gone
<1> QED
  BY <1>1, <1>2, <1>3, <1>4, <1>5, <1>6, <1>7 DEF Next

\* Good is an invariant: in every program like main.c and main_0.c, with the
\* alarm outside library calls, the lists of my_pthread.c are right and agree
\* with flags, locks, calls and joins.
THEOREM CallsAtRest ==
  ASSUME Calm
  PROVE  Spec => []Good
<1>1. Init => Good
  BY InitGood
<1>2. Inv /\ Good /\ [Next]_vars => Good'
  BY NextGood
<1> QED
  BY <1>1, <1>2, Invariance, PTL DEF Spec

\* my_pthread_join returns only when the thread it joins is dead and has left
\* the processor.
THEOREM JoinWaits ==
  ASSUME Calm
  PROVE  Spec => []JoinWaitsForExit
<1>1. Good => JoinWaitsForExit
  BY DEF Good, JoinInv, Buried, JoinWaitsForExit
<1> QED
  BY <1>1, CallsAtRest, PTL

\* A join that returned has written *value_ptr, and the thread it joined had
\* stored its value.
THEOREM JoinReceives ==
  ASSUME Calm
  PROVE  Spec => []JoinFindsValue
<1>1. Good => JoinFindsValue
  <2> SUFFICES ASSUME Good, NEW t \in Thread, NEW x \in joined[t]
               PROVE  joinValue[t][x] # "none" /\ x \in valueSet
    BY DEF JoinFindsValue
  <2>1. JoinOf(t)
    BY DEF Good, JoinInv, JoinOf
  <2> QED
    BY <2>1 DEF JoinOf, Buried
<1> QED
  BY <1>1, CallsAtRest, PTL

\* The thread a joiner waits for is in its returnList and has not died unseen:
\* scheduler() will find the joiner when it dies.
THEOREM JoinersAreFound ==
  ASSUME Calm
  PROVE  Spec => []NoLostJoiner
<1>1. ASSUME Good PROVE NoLostJoiner
  <2> SUFFICES ASSUME NEW t \in Thread, activeFlag[t] = "WAITING", running # t
               PROVE  /\ target[t] \in returnList[t]
                      /\ activeFlag[target[t]] # "DEAD" \/ running = target[t]
    BY DEF NoLostJoiner
  <2>1. currThread = running
    BY <1>1 DEF Good, StartInv
  <2>2. activeFlag[t] \in OffFlags(pc[t])
    BY <1>1, <2>1 DEF Good, FlagInv
  <2>3. pc[t] # "join_list"
    BY <2>2, OffIs
  <2> QED
    BY <1>1, <2>3 DEF Good, JoinInv
<1> QED
  BY <1>1, CallsAtRest, PTL

\* scheduler() always finds a thread to run: it never returns with a NULL
\* currThread, so that nothing takes a field of it, and it never hangs in the
\* aging loop.
THEOREM NeverIdle ==
  ASSUME Calm
  PROVE  Spec => []SchedulerFindsThread
<1>1. Inv /\ Good => SchedulerFindsThread
  <2> SUFFICES ASSUME Inv, Good PROVE SchedulerFindsThread
    OBVIOUS
  <2>1. activeFlag[Main] # "NONE" => currThread = running
    BY NeverOrphan
  <2>2. running # NULL
    BY NullIsNoThread DEF Inv, TypeOK
  <2> QED
    BY <2>1, <2>2 DEF Good, SchedulerFindsThread
<1> QED
  BY <1>1, Invariance, CallsAtRest, PTL

-----------------------------------------------------------------------------
(* From the lists as the induction has them to those of the pointers. *)

\* The walk over the queue of a mutex meets its nodes first.
LEMMA MutexWalk ==
  ASSUME NEW h \in Heap, NEW m \in Mutex, NEW x, MutexHolds(h, m, x), NoneTwice(x)
  PROVE  \A k \in 1 .. Len(x) : WalkFrom(h, h.wait[m].front)[k - 1] = x[k]
<1> DEFINE p == h.wait[m].front
           w == WalkFrom(h, p)
           n == Cardinality(Thread)
<1>1. /\ x \in Seq(Thread) /\ Len(x) \in Nat
      /\ \A k \in 1 .. Len(x) - 1 : h.next[x[k]] = x[k + 1]
      /\ x # << >> => p = x[1]
  BY SeqIs DEF MutexHolds
<1>2. Len(x) <= n
  BY <1>1, ShortSequence
<1>3. p \in Pointer
  BY DEF Heap
<1>4. /\ n \in Nat /\ w[0] = p
      /\ \A k \in 1 .. n : w[k] = Successor(h, w[k - 1])
  BY <1>3, WalkIs
<1> HIDE DEF p, w, n
<1> DEFINE T == {k \in Nat : k + 1 \in 1 .. Len(x) => w[k] = x[k + 1]}
<1>5. 0 \in T
  <2>1. 1 \in 1 .. Len(x) => x # << >>
    BY <1>1, SeqIs
  <2> QED
    BY <1>1, <1>4, <2>1
<1>6. ASSUME NEW k \in Nat, k \in T PROVE k + 1 \in T
  <2> SUFFICES ASSUME (k + 1) + 1 \in 1 .. Len(x) PROVE w[k + 1] = x[(k + 1) + 1]
    OBVIOUS
  <2>1. k + 1 \in 1 .. Len(x) - 1 /\ k + 1 \in 1 .. Len(x) /\ k + 1 \in 1 .. n /\ (k + 1) - 1 = k
    BY <1>1, <1>2, <1>4
  <2>2. w[k] = x[k + 1] /\ x[k + 1] \in Thread
    BY <1>1, <1>6, <2>1, SeqIs
  <2>3. w[k + 1] = Successor(h, w[k])
    BY <1>4, <2>1
  <2>4. h.next[x[k + 1]] = x[(k + 1) + 1]
    BY <1>1, <2>1
  <2> QED
    BY <2>2, <2>3, <2>4, NullIsNoThread DEF Successor
<1>7. Nat \subseteq T
  <2> HIDE DEF T
  <2> QED
    BY <1>5, <1>6, SetInduction
<1>8. ASSUME NEW k \in 1 .. Len(x) PROVE w[k - 1] = x[k]
  <2>1. k - 1 \in Nat /\ (k - 1) + 1 = k
    BY <1>1
  <2>2. k - 1 \in T
    BY <1>7, <2>1
  <2> QED
    BY <2>1, <2>2
<1> QED
  BY <1>8 DEF w, p

\* A walk along next fields in which no way leads in a circle ends.
LEMMA RankedEnds ==
  ASSUME NEW h \in Heap, Ranked(h.next), NEW p \in Pointer
  PROVE  Ends(WalkFrom(h, p))
<1> DEFINE w == WalkFrom(h, p)
           n == Cardinality(Thread)
<1>1. /\ n \in Nat /\ w \in [0 .. n -> Pointer]
      /\ \A k \in 1 .. n : w[k] = Successor(h, w[k - 1])
  BY WalkIs
<1>2. PICK r \in [Thread -> Nat] : Falls(h.next, r)
  BY DEF Ranked
<1> SUFFICES ASSUME w[n] # NULL PROVE FALSE
  BY DEF Ends
<1> HIDE DEF w
<1> DEFINE T == {d \in Nat : d <= n => w[n - d] # NULL}
<1>3. Nat \subseteq T
  <2>1. 0 \in T
    BY <1>1
  <2>2. ASSUME NEW d \in Nat, d \in T PROVE d + 1 \in T
    <3> SUFFICES ASSUME d + 1 <= n PROVE w[n - (d + 1)] # NULL
      OBVIOUS
    <3>1. n - d \in 1 .. n /\ (n - d) - 1 = n - (d + 1)
      BY <1>1
    <3>2. w[n - d] # NULL /\ w[n - d] = Successor(h, w[n - (d + 1)])
      BY <1>1, <2>2, <3>1
    <3> QED
      BY <3>2 DEF Successor
  <2> HIDE DEF T
  <2> QED
    BY <2>1, <2>2, SetInduction
<1>4. \A k \in 0 .. n : w[k] \in Thread
  <2> TAKE k \in 0 .. n
  <2>1. n - k \in Nat /\ n - k <= n /\ n - (n - k) = k
    BY <1>1
  <2>2. w[k] # NULL
    BY <1>3, <2>1
  <2> QED
    BY <1>1, <2>2 DEF Pointer
<1>5. ASSUME NEW k \in 1 .. n PROVE r[w[k]] < r[w[k - 1]]
  <2>1. k \in 0 .. n /\ k - 1 \in 0 .. n
    BY <1>1
  <2>2. w[k] \in Thread /\ w[k - 1] \in Thread
    BY <1>4, <2>1
  <2>3. w[k] = h.next[w[k - 1]]
    BY <1>1, <2>2, NullIsNoThread DEF Successor
  <2> QED
    BY <1>2, <2>2, <2>3, NullIsNoThread DEF Falls
<1> DEFINE at == [k \in 1 .. n + 1 |-> w[k - 1]]
<1>6. at \in [1 .. n + 1 -> Thread] /\ n + 1 \in Nat
  <2>1. \A k \in 1 .. n + 1 : k - 1 \in 0 .. n
    BY <1>1
  <2> QED
    BY <1>1, <1>4, <2>1
<1>7. \A k \in 1 .. (n + 1) - 1 : r[at[k + 1]] < r[at[k]]
  <2> TAKE k \in 1 .. (n + 1) - 1
  <2>1. k \in 1 .. n /\ k + 1 \in 1 .. n + 1 /\ k \in 1 .. n + 1 /\ (k + 1) - 1 = k
    BY <1>1
  <2>2. at[k + 1] = w[k] /\ at[k] = w[k - 1]
    BY <2>1
  <2> QED
    BY <1>5, <2>1, <2>2
<1>8. r \in [Thread -> Int]
  OBVIOUS
<1> HIDE DEF at
<1>9. n + 1 <= n
  BY <1>6, <1>7, <1>8, ThreadsFinite, Descends DEF n
<1> QED
  BY <1>1, <1>9

\* The nodes of a list, read off the pointers.
LEMMA ListsAre ==
  ASSUME NEW c, Chained(heap, c)
  PROVE  /\ Lists = c
         /\ \A q \in Queue : \A t \in Thread : t \in Nodes(Walk(heap, q)) <=> In(c[OfQueue(q)], t)
         /\ \A m \in Mutex : \A t \in Thread : t \in Waiters(m) <=> In(c[OfMutex(m)], t)
<1>1. /\ heap \in Heap /\ c \in [List -> Seq(Thread)] /\ Once(c)
      /\ \A q \in Queue : QueueHolds(heap, q, c[OfQueue(q)]) /\ c[OfQueue(q)] \in Seq(Thread)
      /\ \A m \in Mutex : MutexHolds(heap, m, c[OfMutex(m)]) /\ c[OfMutex(m)] \in Seq(Thread)
  BY ChainedIs
<1>2. ASSUME NEW q \in Queue
      PROVE  /\ Lists[OfQueue(q)] = c[OfQueue(q)]
             /\ \A t \in Thread : t \in Nodes(Walk(heap, q)) <=> In(c[OfQueue(q)], t)
  <2> DEFINE x == c[OfQueue(q)]
             w == Walk(heap, q)
             n == Cardinality(Thread)
  <2>1. OfQueue(q) \in List /\ NoneTwice(x) /\ x \in Seq(Thread) /\ QueueHolds(heap, q, x)
    BY <1>1, ListNames, OnceEach
  <2>2. /\ w \in [0 .. n -> Pointer] /\ n \in Nat /\ Len(x) \in 0 .. n
        /\ \A k \in 0 .. n : w[k] = IF k < Len(x) THEN x[k + 1] ELSE NULL
    BY <1>1, <2>1, WalkMeets
  <2>3. x \in [1 .. Len(x) -> Thread]
    BY <2>1, SeqIs
  <2>4. Lists[OfQueue(q)] = [k \in 1 .. FirstAt(w, {NULL}) |-> w[k - 1]]
    BY <2>1 DEF Lists, OfQueue
  <2> HIDE DEF x, w, n
  <2>5. FirstAt(w, {NULL}) = Len(x)
    <3>1. w[Len(x)] \in {NULL}
      BY <2>2
    <3>2. ASSUME NEW j \in 0 .. Len(x) - 1 PROVE w[j] \notin {NULL}
      <4>1. j \in 0 .. n /\ j < Len(x) /\ j + 1 \in 1 .. Len(x)
        BY <2>2
      <4> QED
        BY <2>2, <2>3, <4>1, NullIsNoThread
    <3>3. DOMAIN w = 0 .. n
      BY <2>2
    <3> QED
      BY <2>2, <3>1, <3>2, <3>3, FirstAtIs
  <2>6. \A k \in 1 .. Len(x) : w[k - 1] = x[k]
    <3> TAKE k \in 1 .. Len(x)
    <3>1. k - 1 \in 0 .. n /\ k - 1 < Len(x) /\ (k - 1) + 1 = k
      BY <2>2
    <3> QED
      BY <2>2, <3>1
  <2>7. Lists[OfQueue(q)] = x
    BY <2>3, <2>4, <2>5, <2>6
  <2>8. ASSUME NEW t \in Thread PROVE t \in Nodes(w) <=> In(x, t)
    <3>1. ASSUME t \in Nodes(w) PROVE In(x, t)
      <4>1. PICK k \in 0 .. n : w[k] = t
        BY <2>2, <3>1 DEF Nodes
      <4>2. k < Len(x) /\ k + 1 \in 1 .. Len(x)
        BY <2>2, <4>1, NullIsNoThread
      <4> QED
        BY <2>2, <4>1, <4>2 DEF In
    <3>2. ASSUME In(x, t) PROVE t \in Nodes(w)
      <4>1. PICK k \in 1 .. Len(x) : x[k] = t
        BY <3>2 DEF In
      <4>2. k - 1 \in 0 .. n
        BY <2>2
      <4>3. w[k - 1] = t /\ t # NULL
        BY <2>6, <4>1, NullIsNoThread
      <4> QED
        BY <2>2, <4>2, <4>3 DEF Nodes
    <3> QED
      BY <3>1, <3>2
  <2> QED
    BY <2>7, <2>8 DEF x, w
<1>3. ASSUME NEW m \in Mutex
      PROVE  /\ Lists[OfMutex(m)] = c[OfMutex(m)]
             /\ \A t \in Thread : t \in Waiters(m) <=> In(c[OfMutex(m)], t)
  <2> DEFINE x == c[OfMutex(m)]
             p == heap.wait[m].front
             w == WalkFrom(heap, p)
             n == Cardinality(Thread)
  <2>1. OfMutex(m) \in List /\ NoneTwice(x) /\ x \in Seq(Thread) /\ MutexHolds(heap, m, x)
    BY <1>1, ListNames, OnceEach
  <2>2. /\ Len(x) \in Nat /\ Len(x) = heap.wait[m].numNodes /\ x \in [1 .. Len(x) -> Thread]
    BY <2>1, SeqIs DEF MutexHolds
  <2>3. \A k \in 1 .. Len(x) : w[k - 1] = x[k]
    BY <1>1, <2>1, MutexWalk
  <2>4. Lists[OfMutex(m)] = [k \in 1 .. heap.wait[m].numNodes |-> w[k - 1]]
    BY <2>1 DEF Lists, OfMutex
  <2>5. Len(x) <= n /\ n \in Nat /\ w \in [0 .. n -> Pointer]
    <3>1. p \in Pointer
      BY <1>1 DEF Heap
    <3> QED
      BY <1>1, <2>1, <3>1, ShortSequence, WalkIs
  <2>6. Waiters(m) = {w[k] : k \in {i \in DOMAIN w : i < heap.wait[m].numNodes}} \ {NULL}
    BY DEF Waiters
  <2> HIDE DEF x, w, n
  <2>7. Lists[OfMutex(m)] = x
    BY <2>2, <2>3, <2>4
  <2>8. ASSUME NEW t \in Thread PROVE t \in Waiters(m) <=> In(x, t)
    <3>1. ASSUME t \in Waiters(m) PROVE In(x, t)
      <4>1. PICK k \in 0 .. n : w[k] = t /\ k < Len(x)
        BY <2>2, <2>5, <2>6, <3>1
      <4>2. k + 1 \in 1 .. Len(x) /\ (k + 1) - 1 = k
        BY <2>2, <4>1
      <4> QED
        BY <2>3, <4>1, <4>2 DEF In
    <3>2. ASSUME In(x, t) PROVE t \in Waiters(m)
      <4>1. PICK k \in 1 .. Len(x) : x[k] = t
        BY <3>2 DEF In
      <4>2. k - 1 \in 0 .. n /\ k - 1 < Len(x)
        BY <2>2, <2>5
      <4>3. w[k - 1] = t /\ t # NULL
        BY <2>3, <4>1, NullIsNoThread
      <4> QED
        BY <2>2, <2>5, <2>6, <4>2, <4>3
    <3> QED
      BY <3>1, <3>2
  <2> QED
    BY <2>7, <2>8 DEF x
<1>4. Lists = c
  <2>1. \A l \in List : Lists[l] = c[l]
    BY <1>2, <1>3, ListNames
  <2>2. Lists = [l \in List |-> Lists[l]]
    BY DEF Lists
  <2> QED
    BY <1>1, <2>1, <2>2
<1> QED
  BY <1>2, <1>3, <1>4

\* The lists of the pointers are those of the induction.
LEMMA ShapeIsListInv ==
  ASSUME NEW c, ShapeOf(heap, activeFlag, mutex, sinceRun, recursing, running, pc, c)
  PROVE  ListInv
<1>1. /\ Chained(heap, c) /\ PlacedBy(c, activeFlag, mutex)
      /\ \A t \in Thread : ListedBy(activeFlag, running, recursing, pc, t) <=> Among(c, t)
      /\ Rears(heap, c, recursing, sinceRun)
      /\ Sorted(c[OfQueue(Low)], sinceRun)
      /\ recursing => c[OfQueue(Running)] # << >> /\ c[OfQueue(Waiting)] = << >>
      /\ ListedBy(activeFlag, running, recursing, pc, running) \/ NextIs(heap, c, running)
  BY DEF ShapeOf
<1>2. Lists = c
  BY <1>1, ListsAre
<1>3. Linked(heap, Lists) /\ Once(Lists)
  BY <1>1, <1>2 DEF Chained
<1>4. \A l \in List : \A k \in 1 .. Len(Lists[l]) : Home(Lists[l][k]) = l
  BY <1>1, <1>2 DEF PlacedBy, Home
<1>5. \A t : ListedBy(activeFlag, running, recursing, pc, t) <=> Listed(t)
  BY DEF ListedBy, Listed
<1>6. \A t \in Thread : Ends(WalkFrom(heap, t))
  BY <1>1, RankedEnds DEF Chained, Pointer
<1> HIDE DEF Lists
<1>7. \A t \in Thread : Listed(t) <=> Among(Lists, t)
  BY <1>1, <1>2, <1>5
<1>8. Listed(running) \/ NextIs(heap, Lists, running)
  BY <1>1, <1>2, <1>5
<1> QED
  BY <1>1, <1>2, <1>3, <1>4, <1>6, <1>7, <1>8 DEF ListInv

\* Good implies CalmInv.
LEMMA GoodIsCalmInv == Good => CalmInv
<1> SUFFICES ASSUME Good PROVE CalmInv
  OBVIOUS
<1>1. PICK c : ShapeOf(heap, activeFlag, mutex, sinceRun, recursing, running, pc, c)
  BY DEF Good, Shaped
<1> QED
  BY <1>1, ShapeIsListInv DEF Good, CalmInv

\* CalmInv, which the runs check, is an invariant.
THEOREM CalmInvariance ==
  ASSUME Calm
  PROVE  Spec => []CalmInv
  BY GoodIsCalmInv, CallsAtRest, PTL

\* The lists a thread is in are the one its flag names, or none.
LEMMA PlacesAre ==
  ASSUME NEW c, ShapeOf(heap, activeFlag, mutex, sinceRun, recursing, running, pc, c),
         NEW t \in Thread
  PROVE  Places(t) = IF ListedBy(activeFlag, running, recursing, pc, t) THEN {Home(t)} ELSE {}
<1>1. /\ Chained(heap, c) /\ PlacedBy(c, activeFlag, mutex)
      /\ ListedBy(activeFlag, running, recursing, pc, t) <=> Among(c, t)
  BY DEF ShapeOf
<1>2. /\ \A q \in Queue : t \in Nodes(Walk(heap, q)) <=> In(c[OfQueue(q)], t)
      /\ \A m \in Mutex : t \in Waiters(m) <=> In(c[OfMutex(m)], t)
  BY <1>1, ListsAre
<1>3. Home(t) = HomeBy(activeFlag[t], mutex[t])
  BY DEF Home
<1>4. Places(t) = {l \in List : In(c[l], t)}
  <2>1. Places(t) = {OfQueue(q) : q \in {r \in Queue : t \in Nodes(Walk(heap, r))}}
                      \cup {OfMutex(m) : m \in {n \in Mutex : t \in Waiters(n)}}
    BY DEF Places, OfQueue, OfMutex
  <2> HIDE DEF Places
  <2>2. ASSUME NEW l, l \in Places(t) PROVE l \in List /\ In(c[l], t)
    BY <1>2, <2>1, <2>2, ListNames
  <2>3. ASSUME NEW l \in List, In(c[l], t) PROVE l \in Places(t)
    BY <1>2, <2>1, <2>3, ListNames
  <2> QED
    BY <2>2, <2>3
<1>5. \A l \in List : In(c[l], t) => l = Home(t)
  BY <1>1, <1>3, InHome
<1>6. Among(c, t) => Home(t) \in List /\ In(c[Home(t)], t)
  BY <1>1, <1>3, AmongHome
<1>7. ~ Among(c, t) => \A l \in List : ~ In(c[l], t)
  BY DEF Among
<1> QED
  BY <1>1, <1>4, <1>5, <1>6, <1>7

\* A thread is in the one list its flag names, and in no other; the thread that
\* runs is in none: no interleaving of calls with passes of scheduler() loses a
\* node or links it twice.
THEOREM InItsPlace ==
  ASSUME Calm
  PROVE  Spec => []EachThreadInItsPlace
<1>1. ASSUME Inv, Good PROVE EachThreadInItsPlace
  <2>1. PICK c : ShapeOf(heap, activeFlag, mutex, sinceRun, recursing, running, pc, c)
    BY <1>1 DEF Good, Shaped
  <2> SUFFICES ASSUME NEW t \in Thread
               PROVE  IF activeFlag[t] = "NONE" THEN Places(t) = {}
                      ELSE IF t = running
                           THEN /\ Places(t) \subseteq {Home(t)}
                                /\ Places(t) # {} => activeFlag[t] \in {"BLOCKING", "DEAD"}
                           ELSE Places(t) = {Home(t)}
    BY DEF EachThreadInItsPlace
  <2>2. Places(t) = IF ListedBy(activeFlag, running, recursing, pc, t) THEN {Home(t)} ELSE {}
    BY <2>1, PlacesAre
  <2>3. CASE activeFlag[t] = "NONE"
    BY <2>2, <2>3 DEF ListedBy
  <2>4. CASE activeFlag[t] # "NONE" /\ t # running
    BY <2>2, <2>4 DEF ListedBy
  <2>5. CASE activeFlag[t] # "NONE" /\ t = running
    <3>1. currThread = t
      BY <1>1, <2>5 DEF Good, StartInv
    <3>2. Acting(t)
      BY <1>1, <3>1, ActingIs DEF Good
    <3>3. recursing => activeFlag[t] = "DEAD"
      BY <3>2 DEF Acting
    <3>4. ~ recursing /\ pc[t] = "lock_sched" => activeFlag[t] = "BLOCKING"
      BY <3>2, OnIs DEF Acting
    <3> QED
      BY <2>2, <2>5, <3>3, <3>4 DEF ListedBy
  <2> QED
    BY <2>3, <2>4, <2>5
<1>2. Inv /\ Good => EachThreadInItsPlace
  BY <1>1
<1> QED
  BY <1>2, Invariance, CallsAtRest, PTL

\* Every loop over a list ends: no sequence of calls links nodes in a circle,
\* though all lists share the one next field and few of them clear it.
THEOREM LoopsEnd ==
  ASSUME Calm
  PROVE  Spec => []ListsEnd
<1>1. ASSUME Good PROVE ListsEnd
  <2>1. PICK c : Chained(heap, c)
    BY <1>1 DEF Good, Shaped, ShapeOf
  <2>2. heap \in Heap /\ Ranked(heap.next)
    BY <2>1 DEF Chained
  <2>3. /\ \A q \in Queue : heap.front[q] \in Pointer
        /\ \A m \in Mutex : heap.wait[m].front \in Pointer
    BY <2>2 DEF Heap
  <2> QED
    BY <2>2, <2>3, RankedEnds DEF ListsEnd, Walk
<1> QED
  BY <1>1, CallsAtRest, PTL

\* When my_pthread_mutex_unlock has cleared the flag, those that still wait for
\* the mutex have one before them that was woken or holds it: no wakeup is lost.
THEOREM WakeupsArrive ==
  ASSUME Calm
  PROVE  Spec => []NoLostWakeup
<1>1. ASSUME Good PROVE NoLostWakeup
  <2> SUFFICES ASSUME NEW m \in Mutex, flag[m] = 0, heap.wait[m].numNodes > 0
               PROVE  Woken(m)
    BY DEF NoLostWakeup, Woken
  <2>1. PICK c : Chained(heap, c) /\ PlacedBy(c, activeFlag, mutex)
    BY <1>1 DEF Good, Shaped, ShapeOf
  <2>2. OfMutex(m) \in List /\ MutexHolds(heap, m, c[OfMutex(m)]) /\ c[OfMutex(m)] \in Seq(Thread)
    BY <2>1, ListNames, ChainedIs
  <2>3. 1 \in 1 .. Len(c[OfMutex(m)])
    BY <2>2, SeqIs DEF MutexHolds
  <2>4. PICK t \in Thread : t = c[OfMutex(m)][1]
    BY <2>2, <2>3, SeqIs
  <2>5. HomeBy(activeFlag[t], mutex[t]) = OfMutex(m)
    BY <2>1, <2>2, <2>3, <2>4 DEF PlacedBy
  <2>6. activeFlag[t] = "BLOCKING" /\ mutex[t] = m
    BY <2>5, HomeIs
  <2>7. Contended(m) \/ Woken(m)
    BY <1>1, <2>6 DEF Good, HeldInv
  <2> QED
    BY <2>7 DEF Contended
<1> QED
  BY <1>1, CallsAtRest, PTL

\* A blocked thread off the processor is in the queue of its mutex, where unlock
\* looks for it.  With the alarm inside lock it is not: see lock_lost_waiter.
THEOREM BlockedWait ==
  ASSUME Calm
  PROVE  Spec => []BlockedIsQueued
<1>1. ASSUME Inv, Good PROVE BlockedIsQueued
  <2> SUFFICES ASSUME NEW t \in Thread, activeFlag[t] = "BLOCKING", t # running
               PROVE  t \in Waiters(mutex[t])
    BY DEF BlockedIsQueued
  <2>1. PICK c : ShapeOf(heap, activeFlag, mutex, sinceRun, recursing, running, pc, c)
    BY <1>1 DEF Good, Shaped
  <2>2. Chained(heap, c) /\ PlacedBy(c, activeFlag, mutex) /\ Among(c, t)
    BY <2>1 DEF ShapeOf, ListedBy
  <2>3. PICK m : m = mutex[t]
    OBVIOUS
  <2>4. HomeBy(activeFlag[t], mutex[t]) = OfMutex(m)
    BY <2>3, HomeIs
  <2>5. In(c[OfMutex(m)], t)
    BY <2>2, <2>4, AmongHome
  <2>6. m \in Mutex
    <3>1. currThread = running
      BY <1>1 DEF Good, StartInv
    <3>2. activeFlag[t] \in OffFlags(pc[t])
      BY <1>1, <3>1 DEF Good, FlagInv
    <3>3. pc[t] = "lock_tas"
      BY <3>2, OffIs
    <3> QED
      BY <1>1, <2>3, <3>3 DEF Inv, ArgumentsInv, LockPCs
  <2>7. t \in Waiters(m)
    BY <2>2, <2>5, <2>6, ListsAre
  <2> QED
    BY <2>3, <2>7
<1>2. Inv /\ Good => BlockedIsQueued
  BY <1>1
<1> QED
  BY <1>2, Invariance, CallsAtRest, PTL

-----------------------------------------------------------------------------
(* What a node can still lead to, whatever the alarm left linked.  Once a thread
   is lost, a rear may name a node of another list, and what is appended there is
   appended to that list or cuts it.  So it is not said which list a node is in,
   nor that the nodes of a cut list are found again: only that whatever the fronts
   lead to is in a set of nodes that no step puts a dead thread into. *)

\* The queues scheduler() takes threads from.
Taking == {Running, Low, Waiting}

\* t is not among the nodes that the library can reach: C are those in chains
\* that end, Q[m] those of a mutex whose count is right.
Free(C, Q, t) == t \notin C /\ \A m \in Mutex : t \notin Q[m]

\* Nor will the next to wait for a mutex be linked behind t.
NoRear(h, t) == \A m \in Mutex : h.wait[m].numNodes > 0 => h.wait[m].rear # t

\* C is closed under next, and next leads into each of its nodes from one.
Follows(h, C) ==
  /\ \A x \in C : h.next[x] \in C \cup {NULL}
  /\ \A x, y \in C : h.next[x] = h.next[y] => x = y \/ h.next[x] = NULL

\* The queues start in C, at nodes of their own that no next leads to, ...
Fronts(h, C) ==
  /\ \A q \in Taking : h.front[q] \in C \cup {NULL}
  /\ \A q \in Taking, x \in C : h.next[x] = h.front[q] => h.front[q] = NULL
  /\ \A q, r \in Taking : h.front[q] = h.front[r] => q = r \/ h.front[q] = NULL

\* ... and so do the mutexes.
MutexFronts(h, C) ==
  /\ \A m \in Mutex, x \in C : h.next[x] = h.wait[m].front => h.wait[m].front = NULL
  /\ \A m \in Mutex, q \in Taking : h.wait[m].front = h.front[q] => h.front[q] = NULL
  /\ \A m, n \in Mutex : h.wait[m].front = h.wait[n].front
                            => m = n \/ h.wait[m].front = NULL

Disjoint(C, Q) ==
  \A m \in Mutex : /\ Q[m] \cap C = {}
                   /\ \A n \in Mutex : m = n \/ Q[m] \cap Q[n] = {}

\* From front to rear there are as many nodes as the mutex counts, at d[x] one
\* after the other; next of the last leads anywhere.
Counted(w, next, S, d) ==
  /\ w.front \in S /\ w.rear \in S
  /\ d[w.rear] - d[w.front] = w.numNodes - 1
  /\ \A x \in S : d[w.front] <= d[x] /\ d[x] <= d[w.rear]
  /\ \A x \in S : x # w.rear => next[x] \in S /\ d[next[x]] = d[x] + 1
  /\ \A x, y \in S : d[x] = d[y] => x = y

\* A mutex whose queue was cut starts in C, and its rear is out of reach.
Waits(h, C, Q, d) ==
  \A m \in Mutex :
    /\ h.wait[m].numNodes = 0 => h.wait[m].front = NULL /\ Q[m] = {}
    /\ Q[m] = {} => /\ h.wait[m].front \in C \cup {NULL}
                    /\ h.wait[m].numNodes > 0 => Free(C, Q, h.wait[m].rear)
    /\ Q[m] # {} => Counted(h.wait[m], h.next, Q[m], d)

\* C and Q are what the fronts can lead to.
Traced(h, C, Q, d) ==
  /\ Follows(h, C) /\ Fronts(h, C) /\ MutexFronts(h, C) /\ Disjoint(C, Q)
  /\ Waits(h, C, Q, d)

\* The types of C, Q and d, which are no part of the state.
Ghosts(C, Q, d) ==
  C \in SUBSET Thread /\ Q \in [Mutex -> SUBSET Thread] /\ d \in [Thread -> Int]

\* Whoever is out of reach stays so, but for those in S.
Keeps(C, Q, D, R, S) == \A u \in Thread \ S : Free(C, Q, u) => Free(D, R, u)

LEMMA TakingAre ==
  /\ Running \in Taking /\ Low \in Taking /\ Waiting \in Taking /\ Dead \notin Taking
  /\ Taking \subseteq Queue
  BY DEF Taking, Running, Low, Waiting, Dead, Queue

LEMMA HeapIs ==
  ASSUME NEW h \in Heap
  PROVE  /\ \A t \in Thread : h.next[t] \in Pointer
         /\ \A q \in Queue : h.front[q] \in Pointer /\ h.rear[q] \in Pointer
         /\ \A m \in Mutex : /\ h.wait[m].front \in Pointer /\ h.wait[m].rear \in Pointer
                             /\ h.wait[m].numNodes \in Nat
  BY DEF Heap

\* The next of a node out of reach, or of the last that a mutex counts, does
\* not matter.
LEMMA TracedSame ==
  ASSUME NEW h \in Heap, NEW g \in Heap, NEW C, NEW Q, NEW d, Ghosts(C, Q, d), Traced(h, C, Q, d),
         \A u \in C : g.next[u] = h.next[u],
         \A m \in Mutex : \A u \in Q[m] : u # h.wait[m].rear => g.next[u] = h.next[u],
         \A q \in Taking : g.front[q] = h.front[q],
         g.wait = h.wait
  PROVE  Traced(g, C, Q, d)
<1>1. Follows(g, C) /\ Fronts(g, C) /\ MutexFronts(g, C) /\ Disjoint(C, Q)
  BY DEF Traced, Follows, Fronts, MutexFronts, Ghosts
<1>2. Waits(g, C, Q, d)
  BY DEF Traced, Waits, Counted, Ghosts
<1> QED
  BY <1>1, <1>2 DEF Traced

\* No node of C is the last of a mutex.
LEMMA NoRearInC ==
  ASSUME NEW h \in Heap, NEW C, NEW Q, NEW d, Ghosts(C, Q, d), Traced(h, C, Q, d), NEW x \in C
  PROVE  NoRear(h, x) /\ x \in Thread /\ x # NULL /\ \A m \in Mutex : x \notin Q[m]
<1>1. x \in Thread /\ x # NULL /\ \A m \in Mutex : x \notin Q[m]
  BY NullIsNoThread DEF Ghosts, Traced, Disjoint
<1>2. ASSUME NEW m \in Mutex, h.wait[m].numNodes > 0 PROVE h.wait[m].rear # x
  BY <1>1, <1>2 DEF Traced, Waits, Counted, Free
<1> QED
  BY <1>1, <1>2 DEF NoRear

\* A new node at the front of a queue.
LEMMA FrontTraced ==
  ASSUME NEW h \in Heap, NEW g \in Heap, NEW C, NEW Q, NEW d, Ghosts(C, Q, d), Traced(h, C, Q, d),
         NEW t \in Thread, Free(C, Q, t), NoRear(h, t), NEW q \in Taking,
         \A u \in Thread : u # t => g.next[u] = h.next[u],
         g.next[t] = h.front[q],
         \A r \in Taking : g.front[r] = IF r = q THEN t ELSE h.front[r],
         g.wait = h.wait
  PROVE  Traced(g, C \cup {t}, Q, d) /\ Ghosts(C \cup {t}, Q, d) /\ Keeps(C, Q, C \cup {t}, Q, {t})
<1> DEFINE D == C \cup {t}
<1>1. Ghosts(D, Q, d) /\ Keeps(C, Q, D, Q, {t})
  BY DEF Ghosts, Keeps, Free
<1>2. t # NULL /\ C \subseteq Thread /\ t \notin C /\ \A m \in Mutex : t \notin Q[m]
  BY NullIsNoThread DEF Ghosts, Free
<1>3. \A x \in C : g.next[x] = h.next[x] /\ x # NULL
  BY <1>2, NullIsNoThread
<1>4. Follows(g, D)
  BY <1>2, <1>3 DEF Traced, Follows, Fronts
<1>5. Fronts(g, D)
  BY <1>2, <1>3 DEF Traced, Follows, Fronts
<1>6. \A m \in Mutex : h.wait[m].front # t
  BY <1>2 DEF Traced, Waits, Counted
<1>7. MutexFronts(g, D)
  BY <1>2, <1>3, <1>6 DEF Traced, Follows, Fronts, MutexFronts
<1>8. Disjoint(D, Q)
  BY <1>2 DEF Traced, Disjoint
<1>9. Waits(g, D, Q, d)
  <2> SUFFICES ASSUME NEW m \in Mutex
               PROVE  /\ g.wait[m].numNodes = 0 => g.wait[m].front = NULL /\ Q[m] = {}
                      /\ Q[m] = {} => /\ g.wait[m].front \in D \cup {NULL}
                                      /\ g.wait[m].numNodes > 0 => Free(D, Q, g.wait[m].rear)
                      /\ Q[m] # {} => Counted(g.wait[m], g.next, Q[m], d)
    BY DEF Waits
  <2>1. g.wait[m].numNodes = 0 => g.wait[m].front = NULL /\ Q[m] = {}
    BY DEF Traced, Waits
  <2>2. ASSUME Q[m] = {}
        PROVE  /\ g.wait[m].front \in D \cup {NULL}
               /\ g.wait[m].numNodes > 0 => Free(D, Q, g.wait[m].rear)
    BY <2>2 DEF Traced, Waits, Free, NoRear
  <2>3. ASSUME Q[m] # {} PROVE Counted(g.wait[m], g.next, Q[m], d)
    <3>1. Counted(h.wait[m], h.next, Q[m], d)
      BY <2>3 DEF Traced, Waits
    <3>2. \A u \in Q[m] : g.next[u] = h.next[u]
      BY <1>2 DEF Ghosts
    <3> QED
      BY <3>1, <3>2 DEF Counted
  <2> QED
    BY <2>1, <2>2, <2>3
<1> QED
  BY <1>1, <1>4, <1>5, <1>7, <1>8, <1>9 DEF Traced


\* A node leaves its chain: the front p is, or the node p leads to it.
LEMMA GoneTraced ==
  ASSUME NEW h \in Heap, NEW g \in Heap, NEW C, NEW Q, NEW d, Ghosts(C, Q, d), Traced(h, C, Q, d),
         NEW x \in C, NEW p \in C \cup {NULL},
         p # NULL => p # x /\ h.next[p] = x,
         \A u \in Thread : g.next[u] = IF u = p THEN h.next[x] ELSE h.next[u],
         \A q \in Taking : g.front[q] = IF p = NULL /\ h.front[q] = x THEN h.next[x] ELSE h.front[q],
         \A m \in Mutex : /\ g.wait[m].rear = h.wait[m].rear
                          /\ g.wait[m].numNodes = 0 <=> h.wait[m].numNodes = 0
                          /\ g.wait[m].front = IF p = NULL /\ h.wait[m].front = x
                                               THEN h.next[x] ELSE h.wait[m].front
                          /\ Q[m] # {} => g.wait[m] = h.wait[m],
         p = NULL => \/ \E q \in Taking : h.front[q] = x
                     \/ \E m \in Mutex : h.wait[m].front = x
  PROVE  /\ Traced(g, C \ {x}, Q, d) /\ Ghosts(C \ {x}, Q, d)
         /\ Keeps(C, Q, C \ {x}, Q, {}) /\ Free(C \ {x}, Q, x)
<1> DEFINE D == C \ {x}
<1>1. x \in Thread /\ x # NULL /\ \A m \in Mutex : x \notin Q[m]
  BY NoRearInC
<1>2. Ghosts(D, Q, d) /\ Keeps(C, Q, D, Q, {}) /\ Free(D, Q, x)
  BY <1>1 DEF Ghosts, Keeps, Free
<1>3. \A u \in C : u \in Thread /\ u # NULL
  BY NullIsNoThread DEF Ghosts
<1>4. h.next[x] # x
  BY <1>3 DEF Traced, Follows, Fronts, MutexFronts
<1>5. \A u \in D : u # p => h.next[u] # x
  BY <1>3 DEF Traced, Follows, Fronts, MutexFronts
<1>6. h.next[x] \in D \cup {NULL}
  BY <1>4 DEF Traced, Follows
<1>7. Follows(g, D)
  <2>1. \A u \in D : g.next[u] \in D \cup {NULL}
    BY <1>3, <1>5, <1>6 DEF Traced, Follows
  <2>2. ASSUME NEW u \in D, NEW v \in D, g.next[u] = g.next[v] PROVE u = v \/ g.next[u] = NULL
    BY <1>3, <2>2 DEF Traced, Follows
  <2> QED
    BY <2>1, <2>2 DEF Follows
<1>8. \A q \in Taking : p # NULL => h.front[q] # x
  BY <1>3 DEF Traced, Fronts
<1>9. \A m \in Mutex : p # NULL => h.wait[m].front # x
  BY <1>3 DEF Traced, MutexFronts
<1>10. Fronts(g, D)
  <2>1. \A q \in Taking : g.front[q] \in D \cup {NULL}
    BY <1>6, <1>8 DEF Traced, Fronts
  <2>2. ASSUME NEW q \in Taking, NEW u \in D, g.next[u] = g.front[q] PROVE g.front[q] = NULL
    BY <1>3, <1>8, <2>2 DEF Traced, Fronts, Follows
  <2>3. ASSUME NEW q \in Taking, NEW r \in Taking, g.front[q] = g.front[r] PROVE q = r \/ g.front[q] = NULL
    BY <1>3, <1>8, <2>3 DEF Traced, Fronts, Follows
  <2> QED
    BY <2>1, <2>2, <2>3 DEF Fronts
<1>11. MutexFronts(g, D)
  <2>1. ASSUME NEW m \in Mutex, NEW u \in D, g.next[u] = g.wait[m].front PROVE g.wait[m].front = NULL
    BY <1>3, <1>9, <2>1 DEF Traced, MutexFronts, Follows
  <2>2. ASSUME NEW m \in Mutex, NEW q \in Taking, g.wait[m].front = g.front[q] PROVE g.front[q] = NULL
    BY <1>3, <1>8, <1>9, <2>2 DEF Traced, Fronts, MutexFronts
  <2>3. ASSUME NEW m \in Mutex, NEW n \in Mutex, g.wait[m].front = g.wait[n].front
        PROVE  m = n \/ g.wait[m].front = NULL
    BY <1>3, <1>9, <2>3 DEF Traced, MutexFronts
  <2> QED
    BY <2>1, <2>2, <2>3 DEF MutexFronts
<1>12. Disjoint(D, Q)
  BY DEF Traced, Disjoint
<1>13. Waits(g, D, Q, d)
  <2> SUFFICES ASSUME NEW m \in Mutex
               PROVE  /\ g.wait[m].numNodes = 0 => g.wait[m].front = NULL /\ Q[m] = {}
                      /\ Q[m] = {} => /\ g.wait[m].front \in D \cup {NULL}
                                      /\ g.wait[m].numNodes > 0 => Free(D, Q, g.wait[m].rear)
                      /\ Q[m] # {} => Counted(g.wait[m], g.next, Q[m], d)
    BY DEF Waits
  <2>1. g.wait[m].numNodes = 0 => g.wait[m].front = NULL /\ Q[m] = {}
    BY <1>1 DEF Traced, Waits
  <2>2. ASSUME Q[m] = {}
        PROVE  /\ g.wait[m].front \in D \cup {NULL}
               /\ g.wait[m].numNodes > 0 => Free(D, Q, g.wait[m].rear)
    <3>1. g.wait[m].front \in D \cup {NULL}
      BY <1>6, <1>9, <2>2 DEF Traced, Waits
    <3>2. g.wait[m].numNodes > 0 => h.wait[m].numNodes > 0
      BY HeapIs
    <3> QED
      BY <2>2, <3>1, <3>2 DEF Traced, Waits, Free
  <2>3. ASSUME Q[m] # {} PROVE Counted(g.wait[m], g.next, Q[m], d)
    <3>1. Counted(h.wait[m], h.next, Q[m], d)
      BY <2>3 DEF Traced, Waits
    <3>2. \A u \in Q[m] : g.next[u] = h.next[u]
      BY NullIsNoThread DEF Ghosts, Traced, Disjoint
    <3> QED
      BY <2>3, <3>1, <3>2 DEF Counted
  <2> QED
    BY <2>1, <2>2, <2>3
<1> QED
  BY <1>2, <1>7, <1>10, <1>11, <1>12, <1>13 DEF Traced

\* A stale rear inside the queue of m: its nodes up to r are a chain now, and
\* the rest is out of reach.
LEMMA CutTraced ==
  ASSUME NEW h \in Heap, NEW g \in Heap, NEW C, NEW Q, NEW d, Ghosts(C, Q, d), Traced(h, C, Q, d),
         NEW t \in Thread, Free(C, Q, t), NoRear(h, t),
         NEW m \in Mutex, NEW r \in Q[m], r # h.wait[m].rear,
         \A u \in Thread : g.next[u] = IF u = r THEN t ELSE IF u = t THEN NULL ELSE h.next[u],
         \A q \in Taking : g.front[q] = h.front[q],
         g.wait = h.wait
  PROVE  \E D, R : Traced(g, D, R, d) /\ Ghosts(D, R, d) /\ Keeps(C, Q, D, R, {t})
<1> DEFINE U == {y \in Q[m] : d[y] <= d[r]}
           D == C \cup U \cup {t}
           R == [Q EXCEPT ![m] = {}]
<1>1. /\ t # NULL /\ C \subseteq Thread /\ t \notin C /\ \A n \in Mutex : t \notin Q[n] /\ Q[n] \subseteq Thread
      /\ d \in [Thread -> Int] /\ r \in Thread /\ r # t
  BY NullIsNoThread DEF Ghosts, Free
<1>2. /\ \A n \in Mutex : R[n] = IF n = m THEN {} ELSE Q[n]
      /\ R \in [Mutex -> SUBSET Thread] /\ U \subseteq Thread
  BY <1>1 DEF Ghosts
<1>3. Ghosts(D, R, d) /\ Keeps(C, Q, D, R, {t})
  BY <1>1, <1>2 DEF Ghosts, Keeps, Free
<1>4. Counted(h.wait[m], h.next, Q[m], d)
  BY DEF Traced, Waits
<1>5. \A x \in C : g.next[x] = h.next[x] /\ x # NULL /\ x \notin Q[m]
  BY <1>1, NullIsNoThread DEF Traced, Disjoint
<1>6. \A x \in U : x # r => /\ g.next[x] = h.next[x] /\ h.next[x] \in U
                            /\ d[h.next[x]] = d[x] + 1
  <2> TAKE x \in U
  <2> HAVE x # r
  <2>1. d[x] # d[r] /\ d[x] <= d[r] /\ d[r] <= d[h.wait[m].rear] /\ x \in Thread
    BY <1>1, <1>4 DEF Counted
  <2>2. x # h.wait[m].rear
    BY <1>1, <2>1
  <2>3. h.next[x] \in Q[m] /\ d[h.next[x]] = d[x] + 1 /\ h.next[x] \in Thread
    BY <1>1, <1>4, <2>2 DEF Counted
  <2>4. d[h.next[x]] <= d[r]
    BY <1>1, <2>1, <2>3
  <2> QED
    BY <1>1, <2>1, <2>3, <2>4
<1>7. g.next[r] = t /\ g.next[t] = NULL /\ r \in U /\ NULL \notin U
  BY <1>1, <1>2, NullIsNoThread
<1>8. \A x \in U, y \in U : x # r /\ y # r /\ h.next[x] = h.next[y] => x = y
  BY <1>1, <1>4, <1>6 DEF Counted
<1>9. h.wait[m].front \in U /\ \A x \in U : x # r => h.next[x] # h.wait[m].front
  <2>1. h.wait[m].front \in Q[m] /\ \A x \in Q[m] : d[h.wait[m].front] <= d[x]
    BY <1>4 DEF Counted
  <2> QED
    BY <1>1, <1>6, <2>1
<1>10. h.wait[m].rear \in Q[m] /\ h.wait[m].rear \notin U /\ h.wait[m].numNodes # 0
  <2>1. /\ h.wait[m].rear \in Q[m] /\ d[r] <= d[h.wait[m].rear] /\ d[r] # d[h.wait[m].rear]
    BY <1>4 DEF Counted
  <2> QED
    BY <1>1, <2>1 DEF Traced, Waits
<1>11. \A n \in Mutex : n # m => h.wait[n].front \notin U \cup {t}
  <2> SUFFICES ASSUME NEW n \in Mutex, n # m PROVE h.wait[n].front \notin U \cup {t}
    OBVIOUS
  <2>1. \A x \in U \cup {t} : x \notin C /\ x # NULL /\ x \notin Q[n]
    BY <1>1, NullIsNoThread DEF Traced, Disjoint
  <2>2. h.wait[n].front \in C \cup {NULL} \/ h.wait[n].front \in Q[n]
    BY DEF Traced, Waits, Counted
  <2> QED
    BY <2>1, <2>2
<1>12. \A x \in U : x \notin C
  BY DEF Traced, Disjoint
<1>13. g.wait = h.wait /\ \A q \in Taking : g.front[q] = h.front[q]
  OBVIOUS
<1>14. U \subseteq Q[m]
  OBVIOUS
<1> HIDE DEF U, R
<1>15. Follows(g, D)
  BY <1>1, <1>5, <1>6, <1>7, <1>8, <1>12 DEF Traced, Follows
<1>16. Fronts(g, D)
  BY <1>1, <1>5, <1>6, <1>7, <1>12, <1>13 DEF Traced, Fronts
<1>17. MutexFronts(g, D)
  <2>1. ASSUME NEW n \in Mutex, NEW x \in D, g.next[x] = h.wait[n].front PROVE h.wait[n].front = NULL
    <3>1. CASE x \in C
      BY <1>5, <2>1, <3>1 DEF Traced, MutexFronts
    <3>2. CASE x \in U
      BY <1>1, <1>6, <1>7, <1>9, <1>11, <2>1, <3>2
    <3>3. CASE x = t
      BY <1>7, <2>1, <3>3
    <3> QED
      BY <3>1, <3>2, <3>3
  <2> QED
    BY <1>13, <2>1 DEF Traced, MutexFronts
<1>18. Disjoint(D, R)
  BY <1>1, <1>2, <1>14 DEF Traced, Disjoint
<1>19. Waits(g, D, R, d)
  <2> SUFFICES ASSUME NEW n \in Mutex
               PROVE  /\ h.wait[n].numNodes = 0 => h.wait[n].front = NULL /\ R[n] = {}
                      /\ R[n] = {} => /\ h.wait[n].front \in D \cup {NULL}
                                      /\ h.wait[n].numNodes > 0 => Free(D, R, h.wait[n].rear)
                      /\ R[n] # {} => Counted(h.wait[n], g.next, R[n], d)
    BY <1>13 DEF Waits
  <2>1. CASE n = m
    <3>1. h.wait[m].rear # t /\ h.wait[m].rear \notin C
      BY <1>1, <1>10 DEF Traced, Disjoint
    <3>2. \A k \in Mutex : h.wait[m].rear \notin R[k]
      BY <1>2, <1>10 DEF Traced, Disjoint
    <3> QED
      BY <1>2, <1>9, <1>10, <2>1, <3>1, <3>2 DEF Free
  <2>2. CASE n # m
    <3>1. R[n] = Q[n]
      BY <1>2, <2>2
    <3>2. h.wait[n].numNodes = 0 => h.wait[n].front = NULL /\ R[n] = {}
      BY <3>1 DEF Traced, Waits
    <3>3. ASSUME R[n] = {}
          PROVE  /\ h.wait[n].front \in D \cup {NULL}
                 /\ h.wait[n].numNodes > 0 => Free(D, R, h.wait[n].rear)
      <4>1. ASSUME h.wait[n].numNodes > 0 PROVE Free(D, R, h.wait[n].rear)
        <5>1. Free(C, Q, h.wait[n].rear) /\ h.wait[n].rear # t
          BY <3>1, <3>3, <4>1 DEF Traced, Waits, NoRear
        <5> QED
          BY <1>2, <1>14, <5>1 DEF Free
      <4> QED
        BY <3>1, <3>3, <4>1 DEF Traced, Waits
    <3>4. ASSUME R[n] # {} PROVE Counted(h.wait[n], g.next, R[n], d)
      <4>1. Counted(h.wait[n], h.next, Q[n], d)
        BY <3>1, <3>4 DEF Traced, Waits
      <4>2. \A u \in Q[n] : g.next[u] = h.next[u]
        BY <1>1, <2>2 DEF Traced, Disjoint
      <4> QED
        BY <3>1, <4>1, <4>2 DEF Counted
    <3> QED
      BY <3>2, <3>3, <3>4
  <2> QED
    BY <2>1, <2>2
<1>20. Traced(g, D, R, d)
  BY <1>15, <1>16, <1>17, <1>18, <1>19 DEF Traced
<1> QED
  BY <1>3, <1>20


\* A new node behind a node of C.
LEMMA BehindTraced ==
  ASSUME NEW h \in Heap, NEW g \in Heap, NEW C, NEW Q, NEW d, Ghosts(C, Q, d), Traced(h, C, Q, d),
         NEW t \in Thread, Free(C, Q, t), NoRear(h, t), NEW r \in C,
         \A u \in Thread : g.next[u] = IF u = r THEN t ELSE IF u = t THEN NULL ELSE h.next[u],
         \A q \in Taking : g.front[q] = h.front[q],
         g.wait = h.wait
  PROVE  \E D, R : Traced(g, D, R, d) /\ Ghosts(D, R, d) /\ Keeps(C, Q, D, R, {t})
<1> DEFINE D == C \cup {t}
<1>1. Ghosts(D, Q, d) /\ Keeps(C, Q, D, Q, {t})
  BY DEF Ghosts, Keeps, Free
<1>2. t # NULL /\ C \subseteq Thread /\ t \notin C /\ t # r /\ \A m \in Mutex : t \notin Q[m] /\ r \notin Q[m]
  BY NullIsNoThread DEF Ghosts, Free, Traced, Disjoint
<1>3. /\ \A x \in C : x # r => g.next[x] = h.next[x] /\ x # NULL
      /\ g.next[r] = t /\ g.next[t] = NULL /\ NULL \notin C
  BY <1>2, NullIsNoThread
<1>4. Follows(g, D)
  BY <1>2, <1>3 DEF Traced, Follows
<1>5. Fronts(g, D)
  BY <1>2, <1>3 DEF Traced, Follows, Fronts
<1>6. \A m \in Mutex : h.wait[m].front # t
  BY <1>2 DEF Traced, Waits, Counted
<1>7. MutexFronts(g, D)
  BY <1>2, <1>3, <1>6 DEF Traced, Follows, Fronts, MutexFronts
<1>8. Disjoint(D, Q)
  BY <1>2 DEF Traced, Disjoint
<1>9. Waits(g, D, Q, d)
  <2> SUFFICES ASSUME NEW m \in Mutex
               PROVE  /\ g.wait[m].numNodes = 0 => g.wait[m].front = NULL /\ Q[m] = {}
                      /\ Q[m] = {} => /\ g.wait[m].front \in D \cup {NULL}
                                      /\ g.wait[m].numNodes > 0 => Free(D, Q, g.wait[m].rear)
                      /\ Q[m] # {} => Counted(g.wait[m], g.next, Q[m], d)
    BY DEF Waits
  <2>1. g.wait[m].numNodes = 0 => g.wait[m].front = NULL /\ Q[m] = {}
    BY DEF Traced, Waits
  <2>2. ASSUME Q[m] = {}
        PROVE  /\ g.wait[m].front \in D \cup {NULL}
               /\ g.wait[m].numNodes > 0 => Free(D, Q, g.wait[m].rear)
    BY <2>2 DEF Traced, Waits, Free, NoRear
  <2>3. ASSUME Q[m] # {} PROVE Counted(g.wait[m], g.next, Q[m], d)
    <3>1. Counted(h.wait[m], h.next, Q[m], d)
      BY <2>3 DEF Traced, Waits
    <3>2. \A u \in Q[m] : g.next[u] = h.next[u]
      BY <1>2 DEF Ghosts
    <3> QED
      BY <3>1, <3>2 DEF Counted
  <2> QED
    BY <2>1, <2>2, <2>3
<1>10. Traced(g, D, Q, d)
  BY <1>4, <1>5, <1>7, <1>8, <1>9 DEF Traced
<1> QED
  BY <1>1, <1>10


-----------------------------------------------------------------------------
(* The operations on such lists. *)

\* enqueue on a queue that scheduler() takes threads from.
LEMMA EnqueueTraced ==
  ASSUME NEW h \in Heap, NEW C, NEW Q, NEW d, Ghosts(C, Q, d), Traced(h, C, Q, d),
         NEW t \in Thread, Free(C, Q, t), NoRear(h, t), NEW q \in Taking
  PROVE  \E D, R : /\ Traced(enqueue(h, t, q), D, R, d) /\ Ghosts(D, R, d)
                   /\ Keeps(C, Q, D, R, {t})
<1> DEFINE g == enqueue(h, t, q)
<1>1. g \in Heap /\ q \in Queue /\ g.wait = h.wait
  <2>1. q \in Queue
    BY TakingAre
  <2> QED
    BY <2>1, EnqueueHeap DEF enqueue, Heap
<1>2. CASE h.front[q] = NULL
  <2>1. /\ \A u \in Thread : g.next[u] = IF u = t THEN NULL ELSE h.next[u]
        /\ \A r \in Queue : g.front[r] = IF r = q THEN t ELSE h.front[r]
    BY <1>1, <1>2, EnqueueEmpty
  <2> HIDE DEF g
  <2>2. /\ \A u \in Thread : u # t => g.next[u] = h.next[u]
        /\ g.next[t] = h.front[q]
        /\ \A r \in Taking : g.front[r] = IF r = q THEN t ELSE h.front[r]
    BY <1>2, <2>1, TakingAre
  <2>3. Traced(g, C \cup {t}, Q, d) /\ Ghosts(C \cup {t}, Q, d) /\ Keeps(C, Q, C \cup {t}, Q, {t})
    BY <1>1, <2>2, FrontTraced
  <2> QED
    BY <2>3 DEF g
<1>3. CASE h.front[q] # NULL
  <2>1. /\ \A u \in Thread : g.next[u] = IF u = h.rear[q] THEN t
                                         ELSE IF u = t THEN NULL ELSE h.next[u]
        /\ \A r \in Queue : g.front[r] = h.front[r]
    BY <1>1, <1>3, EnqueueBehind
  <2>2. PICK r : r = h.rear[q]
    OBVIOUS
  <2>3. /\ \A u \in Thread : g.next[u] = IF u = r THEN t ELSE IF u = t THEN NULL ELSE h.next[u]
        /\ \A k \in Taking : g.front[k] = h.front[k]
    BY <2>1, <2>2, TakingAre
  <2>4. /\ C \subseteq Thread /\ t \notin C
        /\ \A m \in Mutex : t \notin Q[m] /\ Q[m] \subseteq Thread
    BY DEF Ghosts, Free
  <2> HIDE DEF g
  <2>5. CASE r \in C
    BY <1>1, <2>3, <2>5, BehindTraced DEF g
  <2>6. ASSUME NEW m \in Mutex, r \in Q[m], r # h.wait[m].rear
        PROVE  \E D, R : Traced(g, D, R, d) /\ Ghosts(D, R, d) /\ Keeps(C, Q, D, R, {t})
    BY <1>1, <2>3, <2>6, CutTraced
  <2>7. CASE r \notin C /\ \A m \in Mutex : r \in Q[m] => r = h.wait[m].rear
    <3>1. /\ \A u \in C : g.next[u] = h.next[u]
          /\ \A m \in Mutex : \A u \in Q[m] : u # h.wait[m].rear => g.next[u] = h.next[u]
      BY <2>3, <2>4, <2>7
    <3>2. Traced(g, C, Q, d)
      BY <1>1, <2>3, <3>1, TracedSame
    <3> QED
      BY <3>2 DEF Keeps, g
  <2> QED
    BY <2>5, <2>6, <2>7 DEF g
<1> QED
  BY <1>2, <1>3

\* Among the dead, behind a dead thread.
LEMMA BuryTraced ==
  ASSUME NEW h \in Heap, NEW C, NEW Q, NEW d, Ghosts(C, Q, d), Traced(h, C, Q, d),
         NEW t \in Thread, Free(C, Q, t),
         h.rear[Dead] # NULL => Free(C, Q, h.rear[Dead])
  PROVE  /\ Traced(enqueue(h, t, Dead), C, Q, d)
         /\ enqueue(h, t, Dead).rear[Dead] = t
<1> DEFINE g == enqueue(h, t, Dead)
<1>1. g \in Heap /\ Dead \in Queue /\ g.wait = h.wait
  <2>1. Dead \in Queue
    BY QueueNumbers
  <2> QED
    BY <2>1, EnqueueHeap DEF enqueue, Heap
<1>2. /\ \A u \in Thread : u # t /\ u # h.rear[Dead] => g.next[u] = h.next[u]
      /\ \A r \in Queue : r # Dead => g.front[r] = h.front[r]
      /\ g.rear[Dead] = t
  <2>1. CASE h.front[Dead] = NULL
    BY <1>1, <2>1, EnqueueEmpty
  <2>2. CASE h.front[Dead] # NULL
    BY <1>1, <2>2, EnqueueBehind
  <2> QED
    BY <2>1, <2>2
<1> HIDE DEF g
<1>3. \A q \in Taking : g.front[q] = h.front[q]
  BY <1>2, TakingAre
<1>4. /\ \A u \in C : u \in Thread /\ u # t /\ u # h.rear[Dead]
      /\ \A m \in Mutex : \A u \in Q[m] : u \in Thread /\ u # t /\ u # h.rear[Dead]
  BY NullIsNoThread DEF Ghosts, Free
<1>5. Traced(g, C, Q, d)
  BY <1>1, <1>2, <1>3, <1>4, TracedSame
<1> QED
  BY <1>2, <1>5 DEF g

\* A thread in the middle of a queue is taken out, or the one at its front.
LEMMA UnlinkTraced ==
  ASSUME NEW h \in Heap, NEW C, NEW Q, NEW d, Ghosts(C, Q, d), Traced(h, C, Q, d),
         NEW q \in Taking, NEW x \in C, NEW p \in C \cup {NULL},
         p # NULL => p # x /\ h.next[p] = x,
         p = NULL => h.front[q] = x
  PROVE  /\ Traced(unlink(h, q, p, x), C \ {x}, Q, d) /\ Ghosts(C \ {x}, Q, d)
         /\ Keeps(C, Q, C \ {x}, Q, {}) /\ Free(C \ {x}, Q, x)
         /\ x \in Thread /\ NoRear(unlink(h, q, p, x), x)
         /\ unlink(h, q, p, x).wait = h.wait
         /\ unlink(h, q, p, x).rear = h.rear
<1> DEFINE g == unlink(h, q, p, x)
<1>1. q \in Queue /\ x \in Thread /\ NoRear(h, x) /\ x # NULL
  BY TakingAre, NoRearInC
<1>2. /\ g \in Heap /\ g.wait = h.wait /\ g.rear = h.rear
      /\ \A u \in Thread : g.next[u] = IF u = p THEN h.next[x] ELSE h.next[u]
      /\ \A r \in Queue : g.front[r] = IF p = NULL /\ r = q THEN h.next[x] ELSE h.front[r]
  <2>1. g \in Heap
    BY <1>1, UnlinkHeap
  <2>2. CASE p = NULL
    <3>1. g = [h EXCEPT !.front[q] = h.next[x]]
      BY <2>2 DEF unlink
    <3> QED
      BY <1>1, <2>1, <2>2, <3>1, NullIsNoThread DEF Heap
  <2>3. CASE p # NULL
    <3>1. g = [h EXCEPT !.next[p] = h.next[x]]
      BY <2>3 DEF unlink
    <3> QED
      BY <1>1, <2>1, <2>3, <3>1 DEF Heap
  <2> QED
    BY <2>2, <2>3
<1> HIDE DEF g
<1>3. \A r \in Taking : g.front[r] = IF p = NULL /\ h.front[r] = x THEN h.next[x] ELSE h.front[r]
  BY <1>1, <1>2, TakingAre DEF Traced, Fronts
<1>4. \A m \in Mutex : p = NULL => h.wait[m].front # x
  BY <1>1 DEF Traced, MutexFronts
<1>5. \A m \in Mutex : /\ g.wait[m].rear = h.wait[m].rear
                       /\ g.wait[m].numNodes = 0 <=> h.wait[m].numNodes = 0
                       /\ g.wait[m].front = IF p = NULL /\ h.wait[m].front = x
                                            THEN h.next[x] ELSE h.wait[m].front
                       /\ Q[m] # {} => g.wait[m] = h.wait[m]
  BY <1>2, <1>4
<1>6. p = NULL => \/ \E r \in Taking : h.front[r] = x
                  \/ \E m \in Mutex : h.wait[m].front = x
  OBVIOUS
<1>7. /\ Traced(g, C \ {x}, Q, d) /\ Ghosts(C \ {x}, Q, d)
      /\ Keeps(C, Q, C \ {x}, Q, {}) /\ Free(C \ {x}, Q, x)
  BY <1>2, <1>3, <1>5, <1>6, GoneTraced, SMTT(30)
<1> QED
  BY <1>1, <1>2, <1>7 DEF g, NoRear

\* The front of a queue is taken.
LEMMA DequeueTraced ==
  ASSUME NEW h \in Heap, NEW C, NEW Q, NEW d, Ghosts(C, Q, d), Traced(h, C, Q, d),
         NEW q \in Taking, NEW x, h.front[q] = x, x # NULL
  PROVE  /\ Traced(dequeue(h, q), C \ {x}, Q, d) /\ Ghosts(C \ {x}, Q, d)
         /\ Keeps(C, Q, C \ {x}, Q, {}) /\ Free(C \ {x}, Q, x)
         /\ x \in C /\ x \in Thread /\ NoRear(dequeue(h, q), x)
         /\ dequeue(h, q).wait = h.wait /\ dequeue(h, q).rear = h.rear
<1>1. x \in C
  BY DEF Traced, Fronts
<1>2. dequeue(h, q) = unlink(h, q, NULL, x)
  BY DEF dequeue, unlink
<1> QED
  BY <1>1, <1>2, UnlinkTraced

\* A woken joiner goes to the head of queue 0.
LEMMA PushFrontTraced ==
  ASSUME NEW h \in Heap, NEW C, NEW Q, NEW d, Ghosts(C, Q, d), Traced(h, C, Q, d),
         NEW x \in Thread, Free(C, Q, x), NoRear(h, x)
  PROVE  /\ Traced(pushFront(h, x), C \cup {x}, Q, d) /\ Ghosts(C \cup {x}, Q, d)
         /\ Keeps(C, Q, C \cup {x}, Q, {x})
         /\ pushFront(h, x).wait = h.wait /\ pushFront(h, x).rear = h.rear
<1> DEFINE g == pushFront(h, x)
<1>1. x # h.front[Running]
  BY NullIsNoThread, TakingAre DEF Traced, Fronts, Free
<1>2. /\ g \in Heap /\ g.wait = h.wait /\ g.rear = h.rear
      /\ \A u \in Thread : u # x => g.next[u] = h.next[u]
      /\ g.next[x] = h.front[Running]
      /\ \A r \in Taking : g.front[r] = IF r = Running THEN x ELSE h.front[r]
  <2>1. g \in Heap /\ Running \in Queue
    BY PushFrontHeap, QueueNumbers
  <2>2. CASE h.front[Running] = NULL
    <3>1. g = [h EXCEPT !.front[Running] = x, !.next[x] = NULL]
      BY <2>2 DEF pushFront
    <3> QED
      BY <2>1, <2>2, <3>1, TakingAre DEF Heap
  <2>3. CASE h.front[Running] # NULL
    <3>1. g = [h EXCEPT !.next[x] = h.front[Running], !.front[Running] = x]
      BY <1>1, <2>3 DEF pushFront
    <3> QED
      BY <2>1, <3>1, TakingAre DEF Heap
  <2> QED
    BY <2>2, <2>3
<1> HIDE DEF g
<1>3. Traced(g, C \cup {x}, Q, d) /\ Ghosts(C \cup {x}, Q, d) /\ Keeps(C, Q, C \cup {x}, Q, {x})
  BY <1>2, TakingAre, FrontTraced
<1> QED
  BY <1>2, <1>3 DEF g


\* What enqueue leaves alone.
LEMMA EnqueueLeaves ==
  ASSUME NEW h \in Heap, NEW t \in Thread, NEW q \in Taking
  PROVE  enqueue(h, t, q).wait = h.wait /\ enqueue(h, t, q).rear[Dead] = h.rear[Dead]
<1>1. q \in Queue /\ Dead \in Queue /\ q # Dead
  BY TakingAre, QueueNumbers
<1>2. enqueue(h, t, q).wait = h.wait
  BY DEF enqueue, Heap
<1>3. enqueue(h, t, q).rear[Dead] = h.rear[Dead]
  BY <1>1, EnqueueEmpty, EnqueueBehind
<1> QED
  BY <1>2, <1>3

\* A thread starts to wait for m.
LEMMA GenEnqueueTraced ==
  ASSUME NEW h \in Heap, NEW C, NEW Q, NEW d, Ghosts(C, Q, d), Traced(h, C, Q, d),
         NEW m \in Mutex, NEW t \in Thread, Free(C, Q, t), NoRear(h, t)
  PROVE  \E R, e : /\ Traced(gen_enqueue(h, m, t), C, R, e) /\ Ghosts(C, R, e)
                   /\ Keeps(C, Q, C, R, {t})
                   /\ \A u \in Thread : u # t /\ NoRear(h, u) => NoRear(gen_enqueue(h, m, t), u)
                   /\ gen_enqueue(h, m, t).rear = h.rear
<1> DEFINE g == gen_enqueue(h, m, t)
<1>1. /\ t # NULL /\ C \subseteq Thread /\ t \notin C
      /\ \A n \in Mutex : t \notin Q[n] /\ Q[n] \subseteq Thread
      /\ d \in [Thread -> Int] /\ g \in Heap
  BY NullIsNoThread, GenEnqueueHeap DEF Ghosts, Free
<1>2. PICK w : w = h.wait[m]
  OBVIOUS
<1>3. w.front \in Pointer /\ w.rear \in Pointer /\ w.numNodes \in Nat
  BY <1>2, HeapIs
<1>4. /\ g.front = h.front /\ g.rear = h.rear
      /\ \A n \in Mutex : n # m => g.wait[n] = h.wait[n]
      /\ g.wait[m].rear = t
      /\ g.wait[m].numNodes = w.numNodes + 1
      /\ g.wait[m].front = IF w.numNodes = 0 THEN t ELSE w.front
      /\ \A u \in Thread : g.next[u] = IF w.numNodes # 0 /\ u = w.rear THEN t ELSE h.next[u]
  <2>1. CASE w.numNodes = 0
    <3>1. g = [h EXCEPT !.wait[m] = [front |-> t, rear |-> t, numNodes |-> 1]]
      BY <1>2, <2>1 DEF gen_enqueue
    <3> HIDE DEF g
    <3> QED
      BY <2>1, <3>1 DEF Heap
  <2>2. CASE w.numNodes # 0
    <3>1. g = [h EXCEPT !.next[w.rear] = t,
                        !.wait[m] = [front |-> w.front, rear |-> t, numNodes |-> w.numNodes + 1]]
      BY <1>2, <2>2 DEF gen_enqueue
    <3> HIDE DEF g
    <3> QED
      BY <2>2, <3>1 DEF Heap
  <2> QED
    BY <2>1, <2>2
<1> HIDE DEF g
<1>5. ASSUME NEW u \in Thread, u # t, NoRear(h, u) PROVE NoRear(g, u)
  BY <1>4, <1>5 DEF NoRear
<1>6. \A n \in Mutex : h.wait[n].numNodes > 0 => h.wait[n].rear # t
  BY DEF NoRear
<1>7. \A x \in C : h.next[x] # t /\ x # NULL
  BY <1>1, NullIsNoThread DEF Traced, Follows
<1>8. \A q \in Taking : h.front[q] # t
  BY <1>1 DEF Traced, Fronts
<1>9. \A n \in Mutex : h.wait[n].front # t
  BY <1>1 DEF Traced, Waits, Counted
<1>10. CASE Q[m] = {} /\ w.numNodes # 0
  <2>1. Free(C, Q, w.rear) /\ w.front \in C \cup {NULL}
    BY <1>2, <1>3, <1>10 DEF Traced, Waits
  <2>2. /\ \A x \in C : g.next[x] = h.next[x]
        /\ \A n \in Mutex : \A x \in Q[n] : g.next[x] = h.next[x]
    BY <1>1, <1>4, <2>1 DEF Free
  <2>3. \A n \in Mutex : g.wait[n].front = h.wait[n].front
    BY <1>2, <1>4, <1>10
  <2>4. Follows(g, C) /\ Fronts(g, C) /\ MutexFronts(g, C) /\ Disjoint(C, Q)
    BY <1>4, <2>2, <2>3 DEF Traced, Follows, Fronts, MutexFronts
  <2>5. Waits(g, C, Q, d)
    <3> SUFFICES ASSUME NEW n \in Mutex
                 PROVE  /\ g.wait[n].numNodes = 0 => g.wait[n].front = NULL /\ Q[n] = {}
                        /\ Q[n] = {} => /\ g.wait[n].front \in C \cup {NULL}
                                        /\ g.wait[n].numNodes > 0 => Free(C, Q, g.wait[n].rear)
                        /\ Q[n] # {} => Counted(g.wait[n], g.next, Q[n], d)
      BY DEF Waits
    <3>1. CASE n = m
      BY <1>3, <1>4, <1>10, <2>1, <3>1
    <3>2. CASE n # m
      <4>1. g.wait[n] = h.wait[n]
        BY <1>4, <3>2
      <4>2. Q[n] # {} => Counted(h.wait[n], g.next, Q[n], d)
        BY <2>2 DEF Traced, Waits, Counted
      <4> QED
        BY <4>1, <4>2 DEF Traced, Waits
    <3> QED
      BY <3>1, <3>2
  <2>6. Traced(g, C, Q, d) /\ Keeps(C, Q, C, Q, {t})
    BY <2>4, <2>5 DEF Traced, Keeps
  <2> QED
    BY <1>4, <1>5, <2>6 DEF g
<1>11. CASE Q[m] # {} \/ w.numNodes = 0
  <2> DEFINE R == [Q EXCEPT ![m] = @ \cup {t}]
             e == [d EXCEPT ![t] = IF w.numNodes = 0 THEN 0 ELSE d[w.rear] + 1]
  <2>1. /\ \A n \in Mutex : R[n] = IF n = m THEN Q[m] \cup {t} ELSE Q[n]
        /\ \A u \in Thread : u # t => e[u] = d[u]
    BY <1>1 DEF Ghosts
  <2>2. Ghosts(C, R, e) /\ Keeps(C, Q, C, R, {t})
    <3>1. w.numNodes # 0 => d[w.rear] \in Int
      BY <1>1, <1>2, <1>11 DEF Traced, Waits, Counted
    <3>2. e \in [Thread -> Int]
      BY <1>1, <3>1
    <3>3. R \in [Mutex -> SUBSET Thread]
      BY <1>1 DEF Ghosts
    <3> HIDE DEF R, e
    <3> QED
      BY <2>1, <3>2, <3>3 DEF Ghosts, Keeps, Free
  <2>3. w.numNodes = 0 => Q[m] = {}
    BY <1>2 DEF Traced, Waits
  <2>4. w.numNodes # 0 => Counted(w, h.next, Q[m], d)
    BY <1>2, <1>11 DEF Traced, Waits
  <2>5. w.numNodes # 0 => e[t] = d[w.rear] + 1
    BY <1>1
  <2> HIDE DEF R, e
  <2>6. \A x \in C : g.next[x] = h.next[x]
    <3>1. w.numNodes # 0 => w.rear \in Q[m]
      BY <2>4 DEF Counted
    <3>2. w.numNodes # 0 => w.rear \notin C
      BY <3>1 DEF Traced, Disjoint
    <3> QED
      BY <1>1, <1>4, <3>2
  <2>7. Follows(g, C)
    BY <2>6 DEF Traced, Follows
  <2>8. Fronts(g, C)
    BY <1>4, <2>6 DEF Traced, Fronts
  <2>9. \A n \in Mutex : g.wait[n].front = IF n = m /\ w.numNodes = 0 THEN t ELSE h.wait[n].front
    BY <1>2, <1>4
  <2>10. MutexFronts(g, C)
    BY <1>4, <1>7, <1>8, <1>9, <2>6, <2>9 DEF Traced, MutexFronts
  <2>11. Disjoint(C, R)
    BY <1>1, <2>1 DEF Traced, Disjoint
  <2>12. Counted(g.wait[m], g.next, Q[m] \cup {t}, e)
    <3>1. CASE w.numNodes = 0
      <4>1. Q[m] \cup {t} = {t}
        BY <2>3, <3>1
      <4>2. g.wait[m].front = t /\ g.wait[m].rear = t /\ g.wait[m].numNodes = 1
        BY <1>4, <3>1
      <4>3. e[t] \in Int
        BY <2>2 DEF Ghosts
      <4> QED
        BY <4>1, <4>2, <4>3 DEF Counted
    <3>2. CASE w.numNodes # 0
      <4> DEFINE S == Q[m]
      <4>1. /\ S \subseteq Thread /\ t \notin S /\ \A x \in S : e[x] = d[x] /\ d[x] \in Int
            /\ w.front \in S /\ w.rear \in S
        BY <1>1, <2>1, <2>4, <3>2 DEF Counted
      <4>2. g.wait[m].front = w.front /\ g.wait[m].rear = t /\ g.wait[m].numNodes = w.numNodes + 1
        BY <1>4, <3>2
      <4>3. e[t] = d[w.rear] + 1 /\ d[w.rear] - d[w.front] = w.numNodes - 1
        BY <2>4, <2>5, <3>2 DEF Counted
      <4>4. \A x \in S : d[w.front] <= d[x] /\ d[x] <= d[w.rear]
        BY <2>4, <3>2 DEF Counted
      <4>5. ASSUME NEW x \in S PROVE g.next[x] \in S \cup {t} /\ e[g.next[x]] = e[x] + 1
        <5>1. CASE x = w.rear
          BY <1>4, <3>2, <4>1, <4>3, <5>1
        <5>2. CASE x # w.rear
          <6>1. h.next[x] \in S /\ d[h.next[x]] = d[x] + 1
            BY <2>4, <3>2, <5>2 DEF Counted
          <6> QED
            BY <1>4, <4>1, <5>2, <6>1
        <5> QED
          BY <5>1, <5>2
      <4>6. \A x, y \in S : d[x] = d[y] => x = y
        BY <2>4, <3>2 DEF Counted
      <4> HIDE DEF S
      <4>7. g.wait[m].front \in S \cup {t} /\ g.wait[m].rear \in S \cup {t}
        BY <4>1, <4>2
      <4>8. e[g.wait[m].rear] - e[g.wait[m].front] = g.wait[m].numNodes - 1
        BY <1>3, <4>1, <4>2, <4>3
      <4>9. \A x \in S \cup {t} : e[g.wait[m].front] <= e[x] /\ e[x] <= e[g.wait[m].rear]
        BY <4>1, <4>2, <4>3, <4>4
      <4>10. \A x \in S \cup {t} : x # g.wait[m].rear =>
               g.next[x] \in S \cup {t} /\ e[g.next[x]] = e[x] + 1
        BY <4>2, <4>5
      <4>11. \A x, y \in S \cup {t} : e[x] = e[y] => x = y
        BY <4>1, <4>3, <4>4, <4>6
      <4>12. Counted(g.wait[m], g.next, S \cup {t}, e)
        BY <4>7, <4>8, <4>9, <4>10, <4>11 DEF Counted
      <4> QED
        BY <4>12 DEF S
    <3> QED
      BY <3>1, <3>2
  <2>13. Waits(g, C, R, e)
    <3> SUFFICES ASSUME NEW n \in Mutex
                 PROVE  /\ g.wait[n].numNodes = 0 => g.wait[n].front = NULL /\ R[n] = {}
                        /\ R[n] = {} => /\ g.wait[n].front \in C \cup {NULL}
                                        /\ g.wait[n].numNodes > 0 => Free(C, R, g.wait[n].rear)
                        /\ R[n] # {} => Counted(g.wait[n], g.next, R[n], e)
      BY DEF Waits
    <3>1. CASE n = m
      BY <1>3, <1>4, <2>1, <2>12, <3>1, SMTT(30)
    <3>2. CASE n # m
      <4>1. g.wait[n] = h.wait[n] /\ R[n] = Q[n]
        BY <1>4, <2>1, <3>2
      <4>2. Q[n] # {} => Counted(h.wait[n], g.next, Q[n], e)
        <5>1. ASSUME Q[n] # {} PROVE Counted(h.wait[n], g.next, Q[n], e)
          <6>1. Counted(h.wait[n], h.next, Q[n], d)
            BY <5>1 DEF Traced, Waits
          <6>2. \A x \in Q[n] : g.next[x] = h.next[x] /\ e[x] = d[x]
            BY <1>1, <1>4, <2>1, <2>4, <3>2 DEF Counted, Traced, Disjoint
          <6> QED
            BY <6>1, <6>2 DEF Counted
        <5> QED
          BY <5>1
      <4>3. Free(C, Q, h.wait[n].rear) /\ h.wait[n].numNodes > 0 => Free(C, R, h.wait[n].rear)
        BY <1>6, <2>1 DEF Free
      <4> QED
        BY <4>1, <4>2, <4>3 DEF Traced, Waits
    <3> QED
      BY <3>1, <3>2
  <2>14. Traced(g, C, R, e)
    BY <2>7, <2>8, <2>10, <2>11, <2>13 DEF Traced
  <2> QED
    BY <1>4, <1>5, <2>2, <2>14 DEF g
<1> QED
  BY <1>10, <1>11


\* The head of the queue of m is woken.
LEMMA GenDequeueTraced ==
  ASSUME NEW h \in Heap, NEW C, NEW Q, NEW d, Ghosts(C, Q, d), Traced(h, C, Q, d),
         NEW m \in Mutex, NEW x, h.wait[m].front = x, x # NULL
  PROVE  \E D, R : /\ Traced(gen_dequeue(h, m), D, R, d) /\ Ghosts(D, R, d)
                   /\ Keeps(C, Q, D, R, {}) /\ Free(D, R, x)
                   /\ x \in Thread /\ ~ Free(C, Q, x)
                   /\ NoRear(gen_dequeue(h, m), x)
                   /\ \A u \in Thread : NoRear(h, u) => NoRear(gen_dequeue(h, m), u)
                   /\ gen_dequeue(h, m).rear = h.rear
<1> DEFINE g == gen_dequeue(h, m)
<1>1. /\ C \subseteq Thread /\ \A n \in Mutex : Q[n] \subseteq Thread
      /\ d \in [Thread -> Int] /\ g \in Heap
  BY GenDequeueHeap DEF Ghosts
<1>2. PICK w : w = h.wait[m]
  OBVIOUS
<1>3. w.front = x /\ w.rear \in Pointer /\ w.numNodes \in Nat /\ x \in Thread
  BY <1>2, HeapIs DEF Pointer
<1>4. w.numNodes # 0
  BY <1>2 DEF Traced, Waits
<1>5. /\ g.front = h.front /\ g.rear = h.rear /\ g.next = h.next
      /\ \A n \in Mutex : n # m => g.wait[n] = h.wait[n]
      /\ g.wait[m].numNodes = w.numNodes - 1
      /\ w.numNodes = 1 => g.wait[m].front = NULL
      /\ w.numNodes # 1 => g.wait[m].front = h.next[x] /\ g.wait[m].rear = w.rear
  <2>1. CASE w.numNodes = 1
    <3>1. g = [h EXCEPT !.wait[m] = [front |-> NULL, rear |-> NULL, numNodes |-> 0]]
      BY <1>2, <2>1 DEF gen_dequeue
    <3> HIDE DEF g
    <3> QED
      BY <2>1, <3>1 DEF Heap
  <2>2. CASE w.numNodes # 1
    <3>1. g = [h EXCEPT !.wait[m] = [front |-> h.next[x], rear |-> w.rear, numNodes |-> w.numNodes - 1]]
      BY <1>2, <1>3, <1>4, <2>2 DEF gen_dequeue
    <3> HIDE DEF g
    <3> QED
      BY <2>2, <3>1 DEF Heap
  <2> QED
    BY <2>1, <2>2
<1> HIDE DEF g
<1>6. \A n \in Mutex : g.wait[n].numNodes > 0 =>
        h.wait[n].numNodes > 0 /\ g.wait[n].rear = h.wait[n].rear
  BY <1>2, <1>3, <1>5
<1>7. ASSUME NEW u \in Thread, NoRear(h, u) PROVE NoRear(g, u)
  BY <1>6, <1>7 DEF NoRear
<1>8. CASE Q[m] = {}
  <2>1. x \in C /\ NoRear(h, x)
    <3>1. x \in C
      BY <1>2, <1>3, <1>8 DEF Traced, Waits
    <3> QED
      BY <3>1, NoRearInC
  <2> DEFINE D == C \ {x}
  <2>2. Ghosts(D, Q, d) /\ Keeps(C, Q, D, Q, {}) /\ Free(D, Q, x) /\ ~ Free(C, Q, x)
    <3>1. \A n \in Mutex : x \notin Q[n]
      BY <2>1 DEF Traced, Disjoint
    <3> QED
      BY <2>1, <3>1 DEF Ghosts, Keeps, Free
  <2>3. \A u \in C : u # NULL
    BY <1>1, NullIsNoThread
  <2>4. \A u \in D : h.next[u] # x
    BY <1>2, <1>3, <2>3 DEF Traced, MutexFronts
  <2>5. h.next[x] # x
    BY <1>2, <1>3, <2>1, <2>3 DEF Traced, MutexFronts
  <2>6. Follows(g, D)
    BY <1>5, <2>4 DEF Traced, Follows
  <2>7. \A q \in Taking : h.front[q] # x
    BY <1>2, <1>3, <2>1, <2>3 DEF Traced, MutexFronts
  <2>8. Fronts(g, D)
    BY <1>5, <2>7 DEF Traced, Fronts
  <2>9. \A n \in Mutex : n # m => h.wait[n].front # x
    BY <1>2, <1>3, <2>1, <2>3 DEF Traced, MutexFronts
  <2>10. g.wait[m].front = NULL \/ g.wait[m].front = h.next[x]
    BY <1>5
  <2>11. h.next[x] \in D \cup {NULL}
    BY <2>1, <2>5 DEF Traced, Follows
  <2>12. MutexFronts(g, D)
    <3>1. ASSUME NEW n \in Mutex, NEW u \in D, g.next[u] = g.wait[n].front PROVE g.wait[n].front = NULL
      <4>1. CASE n = m
        BY <1>5, <2>1, <2>10, <3>1, <4>1 DEF Traced, Follows
      <4>2. CASE n # m
        BY <1>5, <3>1, <4>2 DEF Traced, MutexFronts
      <4> QED
        BY <4>1, <4>2
    <3>2. ASSUME NEW n \in Mutex, NEW q \in Taking, g.wait[n].front = g.front[q] PROVE g.front[q] = NULL
      <4>1. CASE n = m
        BY <1>5, <2>1, <2>10, <3>2, <4>1 DEF Traced, Fronts
      <4>2. CASE n # m
        BY <1>5, <3>2, <4>2 DEF Traced, MutexFronts
      <4> QED
        BY <4>1, <4>2
    <3>3. ASSUME NEW n \in Mutex, n # m, g.wait[n].front = g.wait[m].front PROVE g.wait[n].front = NULL
      BY <1>5, <2>1, <2>10, <3>3 DEF Traced, MutexFronts
    <3>4. \A n, k \in Mutex : n # m /\ k # m /\ g.wait[n].front = g.wait[k].front
                                => n = k \/ g.wait[n].front = NULL
      BY <1>5 DEF Traced, MutexFronts
    <3> QED
      BY <3>1, <3>2, <3>3, <3>4 DEF MutexFronts
  <2>13. Disjoint(D, Q)
    BY DEF Traced, Disjoint
  <2>14. Waits(g, D, Q, d)
    <3> SUFFICES ASSUME NEW n \in Mutex
                 PROVE  /\ g.wait[n].numNodes = 0 => g.wait[n].front = NULL /\ Q[n] = {}
                        /\ Q[n] = {} => /\ g.wait[n].front \in D \cup {NULL}
                                        /\ g.wait[n].numNodes > 0 => Free(D, Q, g.wait[n].rear)
                        /\ Q[n] # {} => Counted(g.wait[n], g.next, Q[n], d)
      BY DEF Waits
    <3>1. CASE n = m
      <4>1. h.wait[m].numNodes > 0 => Free(D, Q, h.wait[m].rear)
        BY <1>8 DEF Traced, Waits, Free
      <4>2. g.wait[m].numNodes = 0 => g.wait[m].front = NULL
        BY <1>3, <1>5
      <4> QED
        BY <1>6, <1>8, <2>10, <2>11, <3>1, <4>1, <4>2
    <3>2. CASE n # m
      <4>1. g.wait[n] = h.wait[n]
        BY <1>5, <3>2
      <4>2. Q[n] = {} => h.wait[n].front \in D \cup {NULL}
        BY <2>9, <3>2 DEF Traced, Waits
      <4>3. Free(C, Q, h.wait[n].rear) => Free(D, Q, h.wait[n].rear)
        BY DEF Free
      <4> QED
        BY <1>5, <4>1, <4>2, <4>3 DEF Traced, Waits
    <3> QED
      BY <3>1, <3>2
  <2>15. Traced(g, D, Q, d)
    BY <2>6, <2>8, <2>12, <2>13, <2>14 DEF Traced
  <2>16. NoRear(g, x)
    BY <1>3, <1>7, <2>1
  <2> QED
    BY <1>3, <1>5, <1>7, <2>2, <2>15, <2>16 DEF g
<1>9. CASE Q[m] # {}
  <2>1. Counted(w, h.next, Q[m], d)
    BY <1>2, <1>9 DEF Traced, Waits
  <2>2. x \in Q[m] /\ x \notin C /\ \A n \in Mutex : n # m => x \notin Q[n]
    BY <1>3, <2>1 DEF Counted, Traced, Disjoint
  <2> DEFINE S == IF w.numNodes = 1 THEN {} ELSE Q[m] \ {x}
             R == [Q EXCEPT ![m] = S]
  <2>3. S \subseteq Q[m] /\ x \notin S
    <3>1. w.numNodes = 1 => S = {}
      OBVIOUS
    <3>2. w.numNodes # 1 => S = Q[m] \ {x}
      OBVIOUS
    <3> QED
      BY <3>1, <3>2
  <2>4. \A n \in Mutex : R[n] = IF n = m THEN S ELSE Q[n]
    BY DEF Ghosts
  <2>5. Ghosts(C, R, d)
    BY <1>1, <2>3 DEF Ghosts
  <2>6. w.numNodes = 1 => S = {}
    OBVIOUS
  <2>7. w.numNodes # 1 => S = Q[m] \ {x}
    OBVIOUS
  <2> HIDE DEF S, R
  <2>8. Keeps(C, Q, C, R, {}) /\ Free(C, R, x) /\ ~ Free(C, Q, x)
    BY <2>2, <2>3, <2>4 DEF Keeps, Free
  <2>9. w.numNodes # 1 => /\ w.rear \in S /\ x # w.rear
                          /\ h.next[x] \in S /\ d[h.next[x]] = d[x] + 1
    <3> SUFFICES ASSUME w.numNodes # 1
                 PROVE  /\ w.rear \in S /\ x # w.rear
                        /\ h.next[x] \in S /\ d[h.next[x]] = d[x] + 1
      OBVIOUS
    <3>1. d[w.rear] - d[x] = w.numNodes - 1 /\ w.rear \in Q[m]
      BY <1>3, <2>1 DEF Counted
    <3>2. x # w.rear
      BY <1>1, <1>3, <1>4, <3>1
    <3>3. h.next[x] \in Q[m] /\ d[h.next[x]] = d[x] + 1
      BY <2>1, <2>2, <3>2 DEF Counted
    <3>4. h.next[x] # x
      BY <1>1, <1>3, <3>3
    <3> QED
      BY <2>7, <3>1, <3>2, <3>3, <3>4
  <2>10. \A u \in C : h.next[u] \notin Q[m]
    BY NullIsNoThread, <1>1 DEF Traced, Follows, Disjoint
  <2>11. \A q \in Taking : h.front[q] \notin Q[m]
    BY NullIsNoThread, <1>1 DEF Traced, Fronts, Disjoint
  <2>12. \A n \in Mutex : n # m => h.wait[n].front \notin Q[m]
    <3> SUFFICES ASSUME NEW n \in Mutex, n # m PROVE h.wait[n].front \notin Q[m]
      OBVIOUS
    <3>1. \A u \in Q[m] : u \notin C /\ u # NULL /\ u \notin Q[n]
      BY NullIsNoThread, <1>1 DEF Traced, Disjoint
    <3>2. h.wait[n].front \in C \cup {NULL} \/ h.wait[n].front \in Q[n]
      BY DEF Traced, Waits, Counted
    <3> QED
      BY <3>1, <3>2
  <2>13. g.wait[m].front \in Q[m] \cup {NULL}
    BY <1>5, <2>3, <2>9
  <2>14. Follows(g, C)
    BY <1>5 DEF Traced, Follows
  <2>15. Fronts(g, C)
    BY <1>5 DEF Traced, Fronts
  <2>16. MutexFronts(g, C)
    <3>1. ASSUME NEW n \in Mutex, NEW u \in C, g.next[u] = g.wait[n].front PROVE g.wait[n].front = NULL
      BY <1>5, <2>10, <2>13, <3>1 DEF Traced, MutexFronts
    <3>2. ASSUME NEW n \in Mutex, NEW q \in Taking, g.wait[n].front = g.front[q] PROVE g.front[q] = NULL
      BY <1>5, <2>11, <2>13, <3>2 DEF Traced, MutexFronts
    <3>3. ASSUME NEW n \in Mutex, n # m, g.wait[n].front = g.wait[m].front PROVE g.wait[n].front = NULL
      BY <1>5, <2>12, <2>13, <3>3
    <3>4. \A n, k \in Mutex : n # m /\ k # m /\ g.wait[n].front = g.wait[k].front
                                => n = k \/ g.wait[n].front = NULL
      BY <1>5 DEF Traced, MutexFronts
    <3> QED
      BY <3>1, <3>2, <3>3, <3>4 DEF MutexFronts
  <2>17. Disjoint(C, R)
    BY <2>3, <2>4 DEF Traced, Disjoint
  <2>18. Waits(g, C, R, d)
    <3> SUFFICES ASSUME NEW n \in Mutex
                 PROVE  /\ g.wait[n].numNodes = 0 => g.wait[n].front = NULL /\ R[n] = {}
                        /\ R[n] = {} => /\ g.wait[n].front \in C \cup {NULL}
                                        /\ g.wait[n].numNodes > 0 => Free(C, R, g.wait[n].rear)
                        /\ R[n] # {} => Counted(g.wait[n], g.next, R[n], d)
      BY DEF Waits
    <3>1. CASE n = m /\ w.numNodes = 1
      BY <1>5, <2>4, <2>6, <3>1
    <3>2. CASE n = m /\ w.numNodes # 1
      <4>1. g.wait[m].front = h.next[x] /\ g.wait[m].rear = w.rear /\ g.wait[m].numNodes = w.numNodes - 1
        BY <1>5, <3>2
      <4>2. \A u \in S : u \in Thread /\ d[u] \in Int /\ u \in Q[m] /\ u # x
        BY <1>1, <2>3
      <4>3. d[x] \in Int
        BY <1>1, <1>3
      <4>4. \A u \in S : d[x] + 1 <= d[u] /\ d[u] <= d[w.rear]
        <5> TAKE u \in S
        <5>1. d[x] <= d[u] /\ d[u] <= d[w.rear] /\ d[u] # d[x]
          BY <1>3, <2>1, <2>2, <4>2 DEF Counted
        <5> QED
          BY <4>2, <4>3, <5>1
      <4>5. d[w.rear] - d[x] = w.numNodes - 1 /\ w.rear \in S /\ d[h.next[x]] = d[x] + 1 /\ h.next[x] \in S
        BY <1>3, <2>1, <2>9, <3>2 DEF Counted
      <4>6. \A u \in S : u # w.rear => h.next[u] \in S /\ d[h.next[u]] = d[u] + 1
        <5> TAKE u \in S
        <5> HAVE u # w.rear
        <5>1. h.next[u] \in Q[m] /\ d[h.next[u]] = d[u] + 1
          BY <2>1, <4>2 DEF Counted
        <5>2. h.next[u] # x
          BY <4>2, <4>3, <4>4, <5>1
        <5> QED
          BY <2>7, <3>2, <5>1, <5>2
      <4>7. \A u, v \in S : d[u] = d[v] => u = v
        BY <2>1, <4>2 DEF Counted
      <4>8. d[w.rear] - d[h.next[x]] = (w.numNodes - 1) - 1
        BY <1>3, <4>2, <4>3, <4>5
      <4>9. \A u \in S : d[h.next[x]] <= d[u] /\ d[u] <= d[w.rear]
        BY <4>4, <4>5
      <4>10. Counted(g.wait[m], g.next, S, d)
        BY <1>5, <4>1, <4>5, <4>6, <4>7, <4>8, <4>9 DEF Counted
      <4>11. g.wait[m].numNodes # 0 /\ S # {} /\ R[m] = S
        BY <1>3, <2>4, <3>2, <4>1, <4>5
      <4> QED
        BY <3>2, <4>10, <4>11
    <3>3. CASE n # m
      <4>1. g.wait[n] = h.wait[n] /\ R[n] = Q[n]
        BY <1>5, <2>4, <3>3
      <4>2. Free(C, Q, h.wait[n].rear) => Free(C, R, h.wait[n].rear)
        BY <2>3, <2>4 DEF Free
      <4> QED
        BY <1>5, <4>1, <4>2 DEF Traced, Waits
    <3> QED
      BY <3>1, <3>2, <3>3
  <2>19. Traced(g, C, R, d)
    BY <2>14, <2>15, <2>16, <2>17, <2>18 DEF Traced
  <2>20. NoRear(g, x)
    <3> SUFFICES ASSUME NEW n \in Mutex, g.wait[n].numNodes > 0 PROVE g.wait[n].rear # x
      BY DEF NoRear
    <3>1. CASE n = m
      BY <1>3, <1>5, <2>9, <3>1
    <3>2. CASE n # m
      <4>1. g.wait[n] = h.wait[n]
        BY <1>5, <3>2
      <4>2. Free(C, Q, h.wait[n].rear) \/ h.wait[n].rear \in Q[n]
        BY <4>1 DEF Traced, Waits, Counted
      <4> QED
        BY <2>2, <2>8, <3>2, <4>1, <4>2
    <3> QED
      BY <3>1, <3>2
  <2> QED
    BY <1>3, <1>5, <1>7, <2>5, <2>8, <2>19, <2>20 DEF g
<1> QED
  BY <1>8, <1>9


\* A walk of scheduler() stays among the nodes it can reach.
LEMMA WalkTraced ==
  ASSUME NEW h \in Heap, NEW C, NEW Q, NEW d, Ghosts(C, Q, d), Traced(h, C, Q, d), NEW q \in Taking
  PROVE  /\ Cardinality(Thread) \in Nat /\ DOMAIN Walk(h, q) = 0 .. Cardinality(Thread)
         /\ Walk(h, q)[0] = h.front[q]
         /\ \A k \in 1 .. Cardinality(Thread) : Walk(h, q)[k] = Successor(h, Walk(h, q)[k - 1])
         /\ \A k \in 0 .. Cardinality(Thread) : Walk(h, q)[k] \in C \cup {NULL}
<1> DEFINE n == Cardinality(Thread)
           w == Walk(h, q)
<1>1. h.front[q] \in Pointer
  BY TakingAre, HeapIs
<1>2. /\ n \in Nat /\ w \in [0 .. n -> Pointer] /\ w[0] = h.front[q]
      /\ \A k \in 1 .. n : w[k] = Successor(h, w[k - 1])
  BY <1>1, WalkIs DEF Walk
<1> HIDE DEF n, w
<1> DEFINE T == {k \in Nat : k \in 0 .. n => w[k] \in C \cup {NULL}}
<1>3. 0 \in T
  BY <1>2 DEF Traced, Fronts
<1>4. ASSUME NEW k \in Nat, k \in T PROVE k + 1 \in T
  <2> SUFFICES ASSUME k + 1 \in 0 .. n PROVE w[k + 1] \in C \cup {NULL}
    OBVIOUS
  <2>1. w[k] \in C \cup {NULL} /\ w[k + 1] = Successor(h, w[k])
    BY <1>2, <1>4
  <2> HIDE DEF T
  <2> QED
    BY <2>1 DEF Successor, Traced, Follows
<1> HIDE DEF T
<1>5. Nat \subseteq T
  BY <1>3, <1>4, SetInduction
<1>6. \A k \in 0 .. n : w[k] \in C \cup {NULL}
  BY <1>2, <1>5 DEF T
<1> QED
  BY <1>2, <1>6 DEF n, w

\* The thread it finds, and the one before it.
LEMMA FoundTraced ==
  ASSUME NEW h \in Heap, NEW C, NEW Q, NEW d, Ghosts(C, Q, d), Traced(h, C, Q, d), NEW q \in Taking,
         NEW S \in SUBSET Thread, Meets(Walk(h, q), S),
         NEW x, x = FirstIn(Walk(h, q), S), NEW p, p = FirstAfter(Walk(h, q), S)
  PROVE  /\ x \in C /\ x \in S /\ p \in C \cup {NULL}
         /\ p # NULL => p # x /\ h.next[p] = x
         /\ p = NULL => h.front[q] = x
<1> DEFINE n == Cardinality(Thread)
           w == Walk(h, q)
           k == FirstAt(w, S)
<1>1. /\ n \in Nat /\ DOMAIN w = 0 .. n /\ w[0] = h.front[q]
      /\ \A j \in 1 .. n : w[j] = Successor(h, w[j - 1])
      /\ \A j \in 0 .. n : w[j] \in C \cup {NULL}
  BY WalkTraced
<1>2. k \in DOMAIN w /\ IsFirst(w, S, k)
  BY DEF Meets, FirstAt
<1>3. x = w[k] /\ p = IF k = 0 THEN NULL ELSE w[k - 1]
  BY DEF FirstIn, FirstAfter
<1> HIDE DEF n, w, k
<1>4. x \in S /\ \A j \in 0 .. k - 1 : w[j] \notin S
  BY <1>2, <1>3 DEF IsFirst
<1>5. k \in 0 .. n
  BY <1>1, <1>2
<1>6. x # NULL
  BY <1>4, NullIsNoThread
<1>7. CASE k = 0
  BY <1>1, <1>3, <1>4, <1>5, <1>6, <1>7
<1>8. CASE k # 0
  <2>1. k \in 1 .. n /\ k - 1 \in 0 .. n /\ k - 1 \in 0 .. k - 1
    BY <1>1, <1>5, <1>8
  <2>2. x = Successor(h, p) /\ p \in C \cup {NULL} /\ p \notin S
    BY <1>1, <1>3, <1>4, <1>8, <2>1
  <2>3. p # NULL /\ h.next[p] = x
    BY <1>6, <2>2 DEF Successor
  <2>4. x \in C
    BY <1>1, <1>3, <1>5, <1>6
  <2> QED
    BY <1>4, <2>2, <2>3, <2>4
<1> QED
  BY <1>7, <1>8

-----------------------------------------------------------------------------
(* Dead threads out of reach, wherever the alarm strikes. *)

\* No thread that is dead, or not created, can be reached, nor one that is about
\* to wait for a mutex.
OutOfReach(C, Q) ==
  \A t \in Thread : /\ activeFlag[t] \in {"DEAD", "NONE"} => Free(C, Q, t)
                    /\ activeFlag[t] = "NONE" => NoRear(heap, t)
                    /\ pc[t] = "lock_enqueue" => activeFlag[t] = "BLOCKING" /\ Free(C, Q, t)

\* Nor can the current thread, but for one that has put itself in the queue of
\* its mutex and is about to leave the processor.
CurrentApart(C, Q) ==
  currThread # NULL =>
    /\ currThread = running
    /\ \/ Free(C, Q, running) /\ NoRear(heap, running)
       \/ pc[running] = "lock_sched" /\ activeFlag[running] = "BLOCKING" /\ running \notin C

\* The rear of the dead is one of them, and will not run.
DeadRear ==
  heap.rear[Dead] # NULL => /\ activeFlag[heap.rear[Dead]] = "DEAD"
                            /\ heap.rear[Dead] = currThread => recursing

\* scheduler() calls itself for a dead thread only.
RecursesDead ==
  recursing => currThread = running /\ activeFlag[running] = "DEAD"

\* Before the first create there is nothing.
BeforeCreate ==
  activeFlag[Main] = "NONE" => /\ currThread = NULL /\ ~ recursing
                               /\ \A t \in Thread : activeFlag[t] = "NONE"

BuriedBy(C, Q, d) ==
  /\ Ghosts(C, Q, d) /\ Traced(heap, C, Q, d)
  /\ OutOfReach(C, Q) /\ CurrentApart(C, Q) /\ DeadRear /\ RecursesDead /\ BeforeCreate

\* The inductive invariant.
BuriedInv == \E C, Q, d : BuriedBy(C, Q, d)

\* A dead thread off the processor, and the step that leaves it so.
Off(x)  == activeFlag[x] = "DEAD" /\ running # x
Lies(x) == activeFlag'[x] = "DEAD" /\ running' # x

\* Every one of them is left so.
StaysOff == \A x \in Thread : Off(x) => Lies(x)

\* What the aging loop does.
LEMMA AgedTraced ==
  ASSUME TypeOK, NEW C, NEW Q, NEW d, Ghosts(C, Q, d), Traced(heap, C, Q, d)
  PROVE  \E D, R : /\ Ghosts(D, R, d) /\ Traced(AgedHeap, D, R, d) /\ Keeps(C, Q, D, R, {})
                   /\ AgedHeap.wait = heap.wait /\ AgedHeap.rear[Dead] = heap.rear[Dead]
                   /\ \A u \in Thread : AgedFlag[u] # activeFlag[u] =>
                        u \in C /\ AgedFlag[u] = "ACTIVE"
<1>1. heap \in Heap /\ activeFlag \in [Thread -> Flags]
  BY DEF TypeOK
<1>2. CASE Promotes
  <2>1. PICK x : x = Promoted
    OBVIOUS
  <2>2. PICK p : p = FirstAfter(Walk(heap, Low), Aged)
    OBVIOUS
  <2>3. Aged \in SUBSET Thread /\ Meets(Walk(heap, Low), Aged) /\ x = FirstIn(Walk(heap, Low), Aged)
    BY <1>2, <2>1 DEF Promotes, Promoted, Aged
  <2>4. /\ x \in C /\ p \in C \cup {NULL}
        /\ p # NULL => p # x /\ heap.next[p] = x
        /\ p = NULL => heap.front[Low] = x
    BY <1>1, <2>2, <2>3, TakingAre, FoundTraced
  <2>5. PICK g : g = unlink(heap, Low, p, x)
    OBVIOUS
  <2>6. /\ Traced(g, C \ {x}, Q, d) /\ Ghosts(C \ {x}, Q, d)
        /\ Keeps(C, Q, C \ {x}, Q, {}) /\ Free(C \ {x}, Q, x)
        /\ x \in Thread /\ NoRear(g, x) /\ g.wait = heap.wait /\ g.rear = heap.rear
    BY <1>1, <2>4, <2>5, TakingAre, UnlinkTraced
  <2>7. g \in Heap
    BY <1>1, <2>5, <2>6, TakingAre, UnlinkHeap
  <2>8. PICK D, R : /\ Traced(enqueue(g, x, Running), D, R, d) /\ Ghosts(D, R, d)
                    /\ Keeps(C \ {x}, Q, D, R, {x})
    BY <2>6, <2>7, TakingAre, EnqueueTraced
  <2>9. /\ enqueue(g, x, Running).wait = heap.wait
        /\ enqueue(g, x, Running).rear[Dead] = heap.rear[Dead]
    BY <2>6, <2>7, TakingAre, EnqueueLeaves
  <2>10. AgedHeap = enqueue(g, x, Running)
    BY <1>2, <2>1, <2>2, <2>5 DEF AgedHeap
  <2>11. AgedFlag = [activeFlag EXCEPT ![x] = "ACTIVE"]
    BY <1>2, <2>1 DEF AgedFlag
  <2>12. ~ Free(C, Q, x)
    BY <2>4 DEF Free
  <2>13. Keeps(C, Q, D, R, {})
    BY <2>6, <2>8, <2>12 DEF Keeps
  <2>14. \A u \in Thread : AgedFlag[u] # activeFlag[u] => u \in C /\ AgedFlag[u] = "ACTIVE"
    BY <1>1, <2>4, <2>6, <2>11
  <2> QED
    BY <2>8, <2>9, <2>10, <2>13, <2>14
<1>3. CASE ~ Promotes
  BY <1>3 DEF AgedHeap, AgedFlag, Keeps
<1> QED
  BY <1>2, <1>3

\* What the switch does.
LEMMA RequeueTraced ==
  ASSUME NEW h \in Heap, NEW C, NEW Q, NEW d, Ghosts(C, Q, d), Traced(h, C, Q, d),
         NEW t \in Thread, NEW f, f # "BLOCKING" => Free(C, Q, t) /\ NoRear(h, t),
         h.rear[Dead] # NULL => Free(C, Q, h.rear[Dead])
  PROVE  \E D, R : /\ Ghosts(D, R, d) /\ Traced(Requeue(h, f, t), D, R, d)
                   /\ Keeps(C, Q, D, R, {t})
                   /\ f \in {"DEAD", "BLOCKING"} => Keeps(C, Q, D, R, {})
                   /\ Requeue(h, f, t).wait = h.wait
                   /\ \/ Requeue(h, f, t).rear[Dead] = h.rear[Dead]
                      \/ f = "DEAD" /\ Requeue(h, f, t).rear[Dead] = t
<1>1. CASE f \in {"DEAD", "BLOCKING"}
  <2>1. CASE Requeue(h, f, t) = h
    BY <2>1 DEF Keeps
  <2>2. CASE Requeue(h, f, t) # h
    <3>1. f = "DEAD" /\ Requeue(h, f, t) = enqueue(h, t, Dead)
      BY <1>1, <2>2 DEF Requeue
    <3>2. /\ Traced(enqueue(h, t, Dead), C, Q, d)
          /\ enqueue(h, t, Dead).rear[Dead] = t
      BY <3>1, BuryTraced
    <3>3. enqueue(h, t, Dead).wait = h.wait
      BY DEF enqueue, Heap
    <3> QED
      BY <3>1, <3>2, <3>3 DEF Keeps
  <2> QED
    BY <2>1, <2>2
<1>2. CASE f \notin {"DEAD", "BLOCKING"}
  <2>1. PICK q \in Taking : Requeue(h, f, t) = enqueue(h, t, q)
    BY <1>2, TakingAre DEF Requeue
  <2>2. PICK D, R : /\ Traced(enqueue(h, t, q), D, R, d) /\ Ghosts(D, R, d)
                    /\ Keeps(C, Q, D, R, {t})
    BY <1>2, EnqueueTraced
  <2> QED
    BY <1>2, <2>1, <2>2, EnqueueLeaves
<1> QED
  BY <1>1, <1>2

\* What the choice of the next thread does.
LEMMA TakenTraced ==
  ASSUME NEW h \in Heap, NEW C, NEW Q, NEW d, Ghosts(C, Q, d), Traced(h, C, Q, d),
         NEW n, n = Next_node(h)
  PROVE  \E D : /\ Ghosts(D, Q, d) /\ Traced(Taken(h), D, Q, d) /\ Keeps(C, Q, D, Q, {})
                /\ Taken(h).wait = h.wait /\ Taken(h).rear = h.rear
                /\ n # NULL => /\ n \in Thread /\ ~ Free(C, Q, n) /\ Free(D, Q, n)
                               /\ NoRear(Taken(h), n)
<1>1. CASE n = NULL
  <2>1. Taken(h) = h
    BY <1>1 DEF Taken, Next_node
  <2> QED
    BY <1>1, <2>1 DEF Keeps
<1>2. CASE n # NULL
  <2>1. PICK q \in Taking : Taken(h) = dequeue(h, q) /\ n = h.front[q]
    BY <1>2, TakingAre DEF Taken, Next_node
  <2>2. /\ Traced(dequeue(h, q), C \ {n}, Q, d) /\ Ghosts(C \ {n}, Q, d)
        /\ Keeps(C, Q, C \ {n}, Q, {}) /\ Free(C \ {n}, Q, n)
        /\ n \in C /\ n \in Thread /\ NoRear(dequeue(h, q), n)
        /\ dequeue(h, q).wait = h.wait /\ dequeue(h, q).rear = h.rear
    BY <1>2, <2>1, DequeueTraced
  <2>3. ~ Free(C, Q, n)
    BY <2>2 DEF Free
  <2> QED
    BY <2>1, <2>2, <2>3
<1> QED
  BY <1>1, <1>2


\* The lists before scheduler() takes a thread.
LEMMA SwitchTraced ==
  ASSUME TypeOK, NEW C, NEW Q, NEW d, BuriedBy(C, Q, d), NEW t \in Thread, currThread = t,
         NEW h, h = Requeue(AgedHeap, AgedFlag[t], t)
  PROVE  \E D, R : /\ Ghosts(D, R, d) /\ Traced(h, D, R, d) /\ Keeps(C, Q, D, R, {t})
                   /\ AgedFlag[t] \in {"DEAD", "BLOCKING"} => Keeps(C, Q, D, R, {})
                   /\ h.wait = heap.wait
                   /\ \/ h.rear[Dead] = heap.rear[Dead]
                      \/ AgedFlag[t] = "DEAD" /\ h.rear[Dead] = t
                   /\ AgedFlag[t] = "BLOCKING" \/ (Free(C, Q, t) /\ NoRear(heap, t))
                   /\ \A u \in Thread : AgedFlag[u] # activeFlag[u] =>
                        u \in C /\ AgedFlag[u] = "ACTIVE"
<1>1. Ghosts(C, Q, d) /\ Traced(heap, C, Q, d)
  BY DEF BuriedBy
<1>2. PICK D, R : /\ Ghosts(D, R, d) /\ Traced(AgedHeap, D, R, d) /\ Keeps(C, Q, D, R, {})
                  /\ AgedHeap.wait = heap.wait /\ AgedHeap.rear[Dead] = heap.rear[Dead]
                  /\ \A u \in Thread : AgedFlag[u] # activeFlag[u] =>
                       u \in C /\ AgedFlag[u] = "ACTIVE"
  BY <1>1, AgedTraced
<1>3. \/ Free(C, Q, t) /\ NoRear(heap, t)
      \/ activeFlag[t] = "BLOCKING" /\ t \notin C
  BY NullIsNoThread DEF BuriedBy, CurrentApart
<1>4. AgedFlag[t] = "BLOCKING" \/ (Free(C, Q, t) /\ NoRear(heap, t))
  BY <1>2, <1>3
<1>5. AgedFlag[t] # "BLOCKING" => Free(D, R, t) /\ NoRear(AgedHeap, t)
  BY <1>2, <1>4 DEF Keeps, NoRear
<1>6. AgedHeap.rear[Dead] # NULL => Free(D, R, AgedHeap.rear[Dead])
  <2>1. heap.rear[Dead] \in Pointer
    BY QueueNumbers DEF TypeOK, Heap
  <2>2. heap.rear[Dead] # NULL => Free(C, Q, heap.rear[Dead])
    BY <2>1 DEF BuriedBy, DeadRear, OutOfReach, Pointer
  <2> QED
    BY <1>2, <2>1, <2>2 DEF Keeps, Pointer
<1>7. PICK g, f : g = AgedHeap /\ f = AgedFlag[t]
  OBVIOUS
<1>8. g \in Heap
  BY <1>7, AgedTypes
<1>9. PICK E, S : /\ Ghosts(E, S, d) /\ Traced(Requeue(g, f, t), E, S, d)
                  /\ Keeps(D, R, E, S, {t})
                  /\ f \in {"DEAD", "BLOCKING"} => Keeps(D, R, E, S, {})
                  /\ Requeue(g, f, t).wait = g.wait
                  /\ \/ Requeue(g, f, t).rear[Dead] = g.rear[Dead]
                     \/ f = "DEAD" /\ Requeue(g, f, t).rear[Dead] = t
  <2>1. /\ Ghosts(D, R, d) /\ Traced(g, D, R, d)
        /\ f # "BLOCKING" => Free(D, R, t) /\ NoRear(g, t)
        /\ g.rear[Dead] # NULL => Free(D, R, g.rear[Dead])
    BY <1>2, <1>5, <1>6, <1>7
  <2> QED
    BY ONLY <1>8, <2>1, RequeueTraced, t \in Thread
<1>10. Keeps(C, Q, E, S, {t}) /\ (f \in {"DEAD", "BLOCKING"} => Keeps(C, Q, E, S, {}))
  BY <1>2, <1>9 DEF Keeps
<1>11. Requeue(g, f, t) = h
  BY <1>7
<1> QED
  BY <1>2, <1>4, <1>7, <1>9, <1>10, <1>11

\* A pass leaves pc alone, or moves the thread that called scheduler() on.
Resumes(t) ==
  \/ pc' = pc
  \/ pc[t] \in SchedulerPCs /\ pc' = [pc EXCEPT ![t] = AfterScheduler[pc[t]]]

LEMMA ResumesIs ==
  ASSUME TypeOK, NEW t \in Thread, Resumes(t), NEW u \in Thread, pc'[u] = "lock_enqueue"
  PROVE  pc[u] = "lock_enqueue"
<1>1. CASE pc' = pc
  BY <1>1
<1>2. CASE pc[t] \in SchedulerPCs /\ pc' = [pc EXCEPT ![t] = AfterScheduler[pc[t]]]
  <2>1. AfterScheduler[pc[t]] # "lock_enqueue"
    BY <1>2 DEF AfterScheduler
  <2> QED
    BY <1>2, <2>1 DEF TypeOK
<1> QED
  BY <1>1, <1>2 DEF Resumes

LEMMA FlagsAfterPass ==
  /\ \A f : FlagAfter(f) # "NONE"
  /\ \A f : FlagAfter(f) = "DEAD" <=> f = "DEAD"
  /\ FlagAfter("BLOCKING") = "BLOCKING"
  BY DEF FlagAfter

\* A pass that gives the processor to the next thread, or to none.
LEMMA DispatchBuries ==
  ASSUME TypeOK, NEW C, NEW Q, NEW d, BuriedBy(C, Q, d), NEW t \in Thread, currThread = t,
         Dispatch(t), Resumes(t)
  PROVE  BuriedInv' /\ StaysOff
<1> DEFINE f == AgedFlag[t]
<1>1. PICK h : h = Requeue(AgedHeap, AgedFlag[t], t)
  OBVIOUS
<1>2. PICK n : n = Next_node(h)
  OBVIOUS
<1>3. h \in Heap
  BY <1>1, AgedTypes, RequeueHeap
<1>4. PICK D, R : /\ Ghosts(D, R, d) /\ Traced(h, D, R, d) /\ Keeps(C, Q, D, R, {t})
                  /\ AgedFlag[t] \in {"DEAD", "BLOCKING"} => Keeps(C, Q, D, R, {})
                  /\ h.wait = heap.wait
                  /\ \/ h.rear[Dead] = heap.rear[Dead]
                     \/ AgedFlag[t] = "DEAD" /\ h.rear[Dead] = t
                  /\ AgedFlag[t] = "BLOCKING" \/ (Free(C, Q, t) /\ NoRear(heap, t))
                  /\ \A u \in Thread : AgedFlag[u] # activeFlag[u] =>
                       u \in C /\ AgedFlag[u] = "ACTIVE"
  BY <1>1, SwitchTraced
<1>5. PICK E : /\ Ghosts(E, R, d) /\ Traced(Taken(h), E, R, d) /\ Keeps(D, R, E, R, {})
               /\ Taken(h).wait = h.wait /\ Taken(h).rear = h.rear
               /\ n # NULL => /\ n \in Thread /\ ~ Free(D, R, n) /\ Free(E, R, n)
                              /\ NoRear(Taken(h), n)
  BY <1>2, <1>3, <1>4, TakenTraced
<1>6. /\ heap' = Taken(h) /\ activeFlag' = [AgedFlag EXCEPT ![t] = FlagAfter(AgedFlag[t])]
      /\ currThread' = n /\ running' = IF n = NULL THEN t ELSE n
      /\ recursing' = FALSE
  BY <1>1, <1>2 DEF Dispatch, SwitchedHeap
<1>7. /\ \A u \in Thread : u # t => activeFlag'[u] = AgedFlag[u]
      /\ activeFlag'[t] = FlagAfter(AgedFlag[t])
  BY <1>6, AgedTypes
<1>8. /\ OutOfReach(C, Q) /\ CurrentApart(C, Q) /\ DeadRear /\ RecursesDead /\ BeforeCreate
  BY DEF BuriedBy
<1>9. \A u \in Thread : Free(C, Q, u) => AgedFlag[u] = activeFlag[u]
  BY <1>4 DEF Free
<1>10. /\ \A u \in Thread : u # t /\ Free(C, Q, u) => Free(D, R, u) /\ Free(E, R, u)
       /\ AgedFlag[t] \in {"DEAD", "BLOCKING"} /\ Free(C, Q, t) => Free(D, R, t) /\ Free(E, R, t)
  BY <1>4, <1>5 DEF Keeps
<1>11. \A u \in Thread : activeFlag'[u] = "NONE" => u # t /\ activeFlag[u] = "NONE"
  BY <1>4, <1>7, FlagsAfterPass
<1>12. \A u \in Thread : activeFlag'[u] = "DEAD" => /\ activeFlag[u] = "DEAD"
                                                   /\ Free(D, R, u) /\ Free(E, R, u)
  <2> SUFFICES ASSUME NEW u \in Thread, activeFlag'[u] = "DEAD"
               PROVE  activeFlag[u] = "DEAD" /\ Free(D, R, u) /\ Free(E, R, u)
    OBVIOUS
  <2>1. AgedFlag[u] = "DEAD"
    BY <1>7, FlagsAfterPass
  <2>2. activeFlag[u] = "DEAD"
    BY <1>4, <2>1
  <2>3. Free(C, Q, u)
    BY <1>8, <2>2 DEF OutOfReach
  <2> QED
    BY <1>10, <2>1, <2>2, <2>3
<1>13. \A u \in Thread : activeFlag[u] = "DEAD" => activeFlag'[u] = "DEAD"
  <2> SUFFICES ASSUME NEW u \in Thread, activeFlag[u] = "DEAD" PROVE activeFlag'[u] = "DEAD"
    OBVIOUS
  <2>1. AgedFlag[u] = "DEAD"
    BY <1>8, <1>9 DEF OutOfReach
  <2> QED
    BY <1>7, <2>1, FlagsAfterPass
<1>14. OutOfReach(E, R)'
  <2> SUFFICES ASSUME NEW u \in Thread
               PROVE  /\ activeFlag'[u] \in {"DEAD", "NONE"} => Free(E, R, u)
                      /\ activeFlag'[u] = "NONE" => NoRear(heap', u)
                      /\ pc'[u] = "lock_enqueue" => activeFlag'[u] = "BLOCKING" /\ Free(E, R, u)
    BY DEF OutOfReach, Free
  <2>1. activeFlag'[u] \in {"DEAD", "NONE"} => Free(E, R, u)
    BY <1>8, <1>10, <1>11, <1>12 DEF OutOfReach
  <2>2. activeFlag'[u] = "NONE" => NoRear(heap', u)
    BY <1>4, <1>5, <1>6, <1>8, <1>11 DEF OutOfReach, NoRear
  <2>3. ASSUME pc'[u] = "lock_enqueue" PROVE activeFlag'[u] = "BLOCKING" /\ Free(E, R, u)
    <3>1. activeFlag[u] = "BLOCKING" /\ Free(C, Q, u)
      BY <1>8, <2>3, ResumesIs DEF OutOfReach
    <3>2. AgedFlag[u] = "BLOCKING"
      BY <1>9, <3>1
    <3> QED
      BY <1>7, <1>10, <3>1, <3>2, FlagsAfterPass
  <2> QED
    BY <2>1, <2>2, <2>3
<1>15. CurrentApart(E, R)'
  BY <1>5, <1>6 DEF CurrentApart, Free, NoRear
<1>16. \A u \in Thread : activeFlag'[u] = "DEAD" => u # n
  BY <1>5, <1>12, NullIsNoThread
<1>17. DeadRear'
  <2>1. heap'.rear[Dead] = h.rear[Dead]
    BY <1>5, <1>6
  <2>2. h.rear[Dead] # NULL => activeFlag'[h.rear[Dead]] = "DEAD" /\ h.rear[Dead] \in Thread
    <3>1. heap.rear[Dead] \in Pointer
      BY QueueNumbers DEF TypeOK, Heap
    <3>2. CASE h.rear[Dead] = heap.rear[Dead]
      BY <1>8, <1>13, <3>1, <3>2 DEF DeadRear, Pointer
    <3>3. CASE AgedFlag[t] = "DEAD" /\ h.rear[Dead] = t
      BY <1>7, <3>3, FlagsAfterPass
    <3> QED
      BY <1>4, <3>2, <3>3
  <2> QED
    BY <1>6, <1>16, <2>1, <2>2 DEF DeadRear
<1>18. RecursesDead'
  BY <1>6 DEF RecursesDead
<1>19. BeforeCreate'
  BY <1>8, <1>11, MainIsThread, NullIsNoThread DEF BeforeCreate
<1>20. BuriedBy(E, R, d)'
  BY <1>5, <1>6, <1>14, <1>15, <1>17, <1>18, <1>19 DEF BuriedBy
<1>21. StaysOff
  <2>1. running = t
    BY <1>8, NullIsNoThread DEF CurrentApart
  <2> QED
    BY <1>6, <1>13, <1>16, <2>1 DEF StaysOff, Off, Lies
<1> QED
  BY <1>20, <1>21 DEF BuriedInv


\* A pass that wakes a joiner, for a dead thread.
LEMMA WakeBuries ==
  ASSUME TypeOK, NEW C, NEW Q, NEW d, BuriedBy(C, Q, d), NEW t \in Thread, currThread = t,
         WakeJoiner(t), Resumes(t)
  PROVE  BuriedInv' /\ StaysOff
<1>1. PICK h : h = Requeue(AgedHeap, AgedFlag[t], t)
  OBVIOUS
<1>2. PICK x : x = FirstIn(Walk(h, Waiting), WaitersOf(t))
  OBVIOUS
<1>3. PICK p : p = FirstAfter(Walk(h, Waiting), WaitersOf(t))
  OBVIOUS
<1>4. h \in Heap
  BY <1>1, AgedTypes, RequeueHeap
<1>5. /\ AgedFlag[t] = "DEAD" /\ Meets(Walk(h, Waiting), WaitersOf(t))
      /\ heap' = pushFront(unlink(h, Waiting, p, x), x)
      /\ activeFlag' = [AgedFlag EXCEPT ![x] = "ACTIVE"]
      /\ recursing' = TRUE /\ currThread' = currThread /\ running' = running
  BY <1>1, <1>2, <1>3 DEF WakeJoiner, SwitchedHeap, HasWaiter
<1>6. PICK D, R : /\ Ghosts(D, R, d) /\ Traced(h, D, R, d) /\ Keeps(C, Q, D, R, {t})
                  /\ AgedFlag[t] \in {"DEAD", "BLOCKING"} => Keeps(C, Q, D, R, {})
                  /\ h.wait = heap.wait
                  /\ \/ h.rear[Dead] = heap.rear[Dead]
                     \/ AgedFlag[t] = "DEAD" /\ h.rear[Dead] = t
                  /\ AgedFlag[t] = "BLOCKING" \/ (Free(C, Q, t) /\ NoRear(heap, t))
                  /\ \A u \in Thread : AgedFlag[u] # activeFlag[u] =>
                       u \in C /\ AgedFlag[u] = "ACTIVE"
  BY <1>1, SwitchTraced
<1>7. /\ x \in D /\ x \in WaitersOf(t) /\ p \in D \cup {NULL}
      /\ p # NULL => p # x /\ h.next[p] = x
      /\ p = NULL => h.front[Waiting] = x
  <2>1. WaitersOf(t) \in SUBSET Thread
    BY DEF WaitersOf
  <2> QED
    BY <1>2, <1>3, <1>4, <1>5, <1>6, <2>1, TakingAre, FoundTraced
<1>8. PICK g : g = unlink(h, Waiting, p, x)
  OBVIOUS
<1>9. /\ Traced(g, D \ {x}, R, d) /\ Ghosts(D \ {x}, R, d)
      /\ Keeps(D, R, D \ {x}, R, {}) /\ Free(D \ {x}, R, x)
      /\ x \in Thread /\ NoRear(g, x) /\ g.wait = h.wait /\ g.rear = h.rear
  BY <1>4, <1>6, <1>7, <1>8, TakingAre, UnlinkTraced
<1>10. g \in Heap
  BY <1>4, <1>8, <1>9, TakingAre, UnlinkHeap
<1>11. PICK E : E = (D \ {x}) \cup {x}
  OBVIOUS
<1>12. /\ Traced(heap', E, R, d) /\ Ghosts(E, R, d) /\ Keeps(D \ {x}, R, E, R, {x})
       /\ heap'.wait = g.wait /\ heap'.rear = g.rear
  BY <1>5, <1>8, <1>9, <1>10, <1>11, PushFrontTraced
<1>13. /\ OutOfReach(C, Q) /\ CurrentApart(C, Q) /\ DeadRear /\ RecursesDead /\ BeforeCreate
  BY DEF BuriedBy
<1>14. \A u \in Thread : Free(C, Q, u) => /\ AgedFlag[u] = activeFlag[u]
                                          /\ u # x /\ Free(E, R, u)
  <2> SUFFICES ASSUME NEW u \in Thread, Free(C, Q, u)
               PROVE  AgedFlag[u] = activeFlag[u] /\ u # x /\ Free(E, R, u)
    OBVIOUS
  <2>1. Free(D, R, u)
    BY <1>5, <1>6 DEF Keeps
  <2>2. u # x
    BY <1>7, <2>1 DEF Free
  <2> QED
    BY <1>6, <1>9, <1>12, <2>1, <2>2 DEF Keeps, Free
<1>15. \A u \in Thread : activeFlag'[u] = IF u = x THEN "ACTIVE" ELSE AgedFlag[u]
  BY <1>5, AgedTypes
<1>16. \A u \in Thread : activeFlag'[u] \in {"DEAD", "NONE"} => activeFlag[u] = activeFlag'[u]
  BY <1>6, <1>15
<1>17. \A u \in Thread : Free(C, Q, u) => activeFlag'[u] = activeFlag[u]
  BY <1>14, <1>15
<1>18. running = t /\ activeFlag[t] = "DEAD" /\ Free(C, Q, t) /\ NoRear(heap, t)
  BY <1>5, <1>6, <1>13, NullIsNoThread DEF CurrentApart
<1>19. \A u \in Thread : NoRear(heap, u) => NoRear(heap', u)
  BY <1>6, <1>9, <1>12 DEF NoRear
<1>20. OutOfReach(E, R)'
  <2> SUFFICES ASSUME NEW u \in Thread
               PROVE  /\ activeFlag'[u] \in {"DEAD", "NONE"} => Free(E, R, u)
                      /\ activeFlag'[u] = "NONE" => NoRear(heap', u)
                      /\ pc'[u] = "lock_enqueue" => activeFlag'[u] = "BLOCKING" /\ Free(E, R, u)
    BY DEF OutOfReach, Free
  <2>1. activeFlag'[u] \in {"DEAD", "NONE"} => Free(E, R, u)
    BY <1>13, <1>14, <1>16 DEF OutOfReach
  <2>2. activeFlag'[u] = "NONE" => NoRear(heap', u)
    BY <1>13, <1>16, <1>19 DEF OutOfReach
  <2>3. ASSUME pc'[u] = "lock_enqueue" PROVE activeFlag'[u] = "BLOCKING" /\ Free(E, R, u)
    BY <1>13, <1>14, <1>17, <2>3, ResumesIs DEF OutOfReach
  <2> QED
    BY <2>1, <2>2, <2>3
<1>21. CurrentApart(E, R)'
  BY <1>5, <1>14, <1>18, <1>19 DEF CurrentApart, Free, NoRear
<1>22. DeadRear'
  <2>1. heap'.rear[Dead] = heap.rear[Dead] \/ heap'.rear[Dead] = t
    BY <1>6, <1>9, <1>12
  <2>2. heap.rear[Dead] \in Pointer
    BY QueueNumbers DEF TypeOK, Heap
  <2>3. heap.rear[Dead] # NULL => activeFlag'[heap.rear[Dead]] = "DEAD"
    BY <1>13, <1>17, <2>2 DEF DeadRear, OutOfReach, Pointer
  <2>4. activeFlag'[t] = "DEAD"
    BY <1>17, <1>18
  <2> QED
    BY <1>5, <2>1, <2>3, <2>4 DEF DeadRear
<1>23. RecursesDead'
  BY <1>5, <1>17, <1>18 DEF RecursesDead
<1>24. BeforeCreate'
  BY <1>13, <1>16, MainIsThread, NullIsNoThread DEF BeforeCreate
<1>25. BuriedBy(E, R, d)'
  BY <1>12, <1>20, <1>21, <1>22, <1>23, <1>24 DEF BuriedBy
<1>26. StaysOff
  BY <1>5, <1>13, <1>17 DEF StaysOff, Off, Lies, OutOfReach
<1> QED
  BY <1>25, <1>26 DEF BuriedInv

\* However scheduler() was invoked.
LEMMA SchedulerBuries ==
  ASSUME TypeOK, BuriedInv, NEW t \in Thread, CallScheduler(t) \/ Alarm(t) \/ Recurse(t)
  PROVE  BuriedInv' /\ StaysOff
<1>1. PICK C, Q, d : BuriedBy(C, Q, d)
  BY DEF BuriedInv
<1>2. currThread = t /\ Pass(t) /\ Resumes(t)
  <2>1. CASE CallScheduler(t)
    BY <2>1 DEF CallScheduler, At, Executes, Goto, Resumes
  <2>2. CASE Alarm(t)
    BY <2>2 DEF Alarm, At, Executes, Resumes
  <2>3. CASE Recurse(t)
    BY <2>3 DEF Recurse, Resumes
  <2> QED
    BY <2>1, <2>2, <2>3
<1> QED
  BY <1>1, <1>2, WakeBuries, DispatchBuries DEF Pass

\* A step that changes only where a thread is in its call, ...
LEMMA IdleBuries ==
  ASSUME TypeOK, BuriedInv, UNCHANGED << heap, activeFlag, currThread, running, recursing >>,
         \/ pc' = pc
         \/ \E t \in Thread : /\ running = t /\ pc[t] # "lock_sched"
                              /\ \E p \in PC \ {"lock_enqueue"} : pc' = [pc EXCEPT ![t] = p]
  PROVE  BuriedInv' /\ StaysOff
<1>1. PICK C, Q, d : BuriedBy(C, Q, d)
  BY DEF BuriedInv
<1>2. /\ \A u \in Thread : pc'[u] = "lock_enqueue" => pc[u] = "lock_enqueue"
      /\ pc[running] = "lock_sched" => pc'[running] = "lock_sched"
  BY DEF TypeOK
<1>3. OutOfReach(C, Q)'
  BY <1>1, <1>2 DEF BuriedBy, OutOfReach, Free, NoRear
<1>4. CurrentApart(C, Q)'
  BY <1>1, <1>2 DEF BuriedBy, CurrentApart, Free, NoRear
<1>5. DeadRear' /\ RecursesDead' /\ BeforeCreate'
  BY <1>1 DEF BuriedBy, DeadRear, RecursesDead, BeforeCreate
<1>6. BuriedBy(C, Q, d)'
  BY <1>1, <1>3, <1>4, <1>5 DEF BuriedBy
<1> QED
  BY <1>6 DEF BuriedInv, StaysOff, Off, Lies

\* ... or its flag as well.
LEMMA FlagBuries ==
  ASSUME TypeOK, BuriedInv, NEW t \in Thread, At(t, pc[t]), pc[t] # "lock_sched",
         UNCHANGED << heap, currThread, running, recursing >>,
         NEW f, f # "NONE", activeFlag' = [activeFlag EXCEPT ![t] = f],
         NEW p, pc' = [pc EXCEPT ![t] = p], p = "lock_enqueue" => f = "BLOCKING"
  PROVE  BuriedInv' /\ StaysOff
<1>1. PICK C, Q, d : BuriedBy(C, Q, d)
  BY DEF BuriedInv
<1>2. currThread = t /\ running = t /\ ~ recursing /\ t # NULL
  BY NullIsNoThread DEF At, Executes
<1>3. Free(C, Q, t) /\ NoRear(heap, t)
  BY <1>1, <1>2 DEF BuriedBy, CurrentApart
<1>4. /\ \A u \in Thread : activeFlag'[u] = IF u = t THEN f ELSE activeFlag[u]
      /\ \A u \in Thread : pc'[u] = IF u = t THEN p ELSE pc[u]
  BY DEF TypeOK
<1>5. OutOfReach(C, Q)'
  BY <1>1, <1>3, <1>4 DEF BuriedBy, OutOfReach, Free, NoRear
<1>6. CurrentApart(C, Q)'
  BY <1>2, <1>3 DEF CurrentApart, Free, NoRear
<1>7. DeadRear'
  <2>1. heap.rear[Dead] \in Pointer
    BY QueueNumbers DEF TypeOK, Heap
  <2> QED
    BY <1>1, <1>2, <1>4, <2>1 DEF BuriedBy, DeadRear, Pointer
<1>8. RecursesDead' /\ BeforeCreate'
  BY <1>1, <1>2, <1>4, MainIsThread DEF BuriedBy, RecursesDead, BeforeCreate
<1>9. BuriedBy(C, Q, d)'
  BY <1>1, <1>5, <1>6, <1>7, <1>8 DEF BuriedBy
<1>10. StaysOff
  BY <1>2, <1>4 DEF StaysOff, Off, Lies
<1> QED
  BY <1>9, <1>10 DEF BuriedInv

\* A thread that waits for a mutex is linked behind the last that does, if the
\* list was not cut before it, ...
LEMMA LockEnqueueBuries ==
  ASSUME Inv, BuriedInv, NEW t \in Thread, LockEnqueue(t)
  PROVE  BuriedInv' /\ StaysOff
<1>1. PICK C, Q, d : BuriedBy(C, Q, d)
  BY DEF BuriedInv
<1>2. /\ currThread = t /\ running = t /\ ~ recursing /\ t # NULL /\ pc[t] = "lock_enqueue"
      /\ UNCHANGED << activeFlag, currThread, running, recursing >>
      /\ pc' = [pc EXCEPT ![t] = "lock_sched"]
  BY NullIsNoThread DEF LockEnqueue, At, Executes, Goto, scheduling_vars, machine_vars
<1>3. PICK m : m = mutex[t]
  OBVIOUS
<1>4. m \in Mutex /\ heap \in Heap /\ pc \in [Thread -> PC]
  BY <1>2, <1>3 DEF Inv, TypeOK, ArgumentsInv, LockPCs
<1>5. heap' = gen_enqueue(heap, m, t)
  BY <1>3 DEF LockEnqueue
<1>6. Free(C, Q, t) /\ NoRear(heap, t) /\ activeFlag[t] = "BLOCKING" /\ t \notin C
  BY <1>1, <1>2 DEF BuriedBy, CurrentApart, OutOfReach, Free
<1>7. PICK R, e : /\ Traced(heap', C, R, e) /\ Ghosts(C, R, e)
                  /\ Keeps(C, Q, C, R, {t})
                  /\ \A u \in Thread : u # t /\ NoRear(heap, u) => NoRear(heap', u)
                  /\ heap'.rear = heap.rear
  <2>1. PICK h : h = heap
    OBVIOUS
  <2>2. /\ h \in Heap /\ m \in Mutex /\ t \in Thread
        /\ Ghosts(C, Q, d) /\ Traced(h, C, Q, d) /\ Free(C, Q, t) /\ NoRear(h, t)
    BY <1>1, <1>4, <1>6, <2>1 DEF BuriedBy
  <2>3. \E R, e : /\ Traced(gen_enqueue(h, m, t), C, R, e) /\ Ghosts(C, R, e)
                  /\ Keeps(C, Q, C, R, {t})
                  /\ \A u \in Thread : u # t /\ NoRear(h, u) => NoRear(gen_enqueue(h, m, t), u)
                  /\ gen_enqueue(h, m, t).rear = h.rear
    BY ONLY <2>2, GenEnqueueTraced, SMTT(30)
  <2> QED
    BY <1>5, <2>1, <2>3
<1>8. OutOfReach(C, R)'
  <2>1. \A u \in Thread : /\ activeFlag[u] \in {"DEAD", "NONE"} => u # t
                          /\ pc'[u] = "lock_enqueue" => u # t /\ pc[u] = "lock_enqueue"
    BY <1>2, <1>4, <1>6
  <2>2. \A u \in Thread : u # t /\ Free(C, Q, u) => Free(C, R, u)
    BY <1>7 DEF Keeps
  <2>3. \A u \in Thread : /\ activeFlag[u] \in {"DEAD", "NONE"} => Free(C, R, u)
                          /\ activeFlag[u] = "NONE" => NoRear(heap', u)
                          /\ pc'[u] = "lock_enqueue" => activeFlag[u] = "BLOCKING" /\ Free(C, R, u)
    BY <1>1, <1>7, <2>1, <2>2 DEF BuriedBy, OutOfReach
  <2> QED
    BY <1>2, <2>3 DEF OutOfReach, Free, NoRear
<1>9. CurrentApart(C, R)'
  BY <1>2, <1>4, <1>6 DEF CurrentApart
<1>10. DeadRear' /\ RecursesDead' /\ BeforeCreate'
  BY <1>1, <1>2, <1>7 DEF BuriedBy, DeadRear, RecursesDead, BeforeCreate
<1>11. BuriedBy(C, R, e)'
  BY <1>7, <1>8, <1>9, <1>10 DEF BuriedBy
<1> QED
  BY <1>2, <1>11 DEF BuriedInv, StaysOff, Off, Lies

\* ... and unlock wakes the first, who is not dead.
LEMMA UnlockBuries ==
  ASSUME TypeOK, BuriedInv, NEW t \in Thread, NEW m \in Mutex, Unlock(t, m)
  PROVE  BuriedInv' /\ StaysOff
<1>1. PICK C, Q, d : BuriedBy(C, Q, d)
  BY DEF BuriedInv
<1>2. PICK x : x = heap.wait[m].front
  OBVIOUS
<1>3. /\ running = t /\ ~ recursing /\ t # NULL /\ pc[t] = "user"
      /\ UNCHANGED << currThread, running, recursing >>
      /\ pc' = [pc EXCEPT ![t] = "unlock_clear"]
  BY NullIsNoThread DEF Unlock, At, Executes, Goto, scheduling_vars, machine_vars
<1>4. heap \in Heap /\ pc \in [Thread -> PC] /\ activeFlag \in [Thread -> Flags]
  BY DEF TypeOK
<1>5. CASE x = NULL
  <2>1. UNCHANGED << heap, activeFlag >>
    BY <1>2, <1>5 DEF Unlock
  <2> QED
    BY <1>3, <2>1, IdleBuries, PCNames
<1>6. CASE x # NULL
  <2>1. heap' = enqueue(gen_dequeue(heap, m), x, Running) /\ activeFlag' = [activeFlag EXCEPT ![x] = "ACTIVE"]
    BY <1>2, <1>6 DEF Unlock
  <2>2. PICK g : g = gen_dequeue(heap, m)
    OBVIOUS
  <2>3. PICK D, R : /\ Traced(g, D, R, d) /\ Ghosts(D, R, d)
                    /\ Keeps(C, Q, D, R, {}) /\ Free(D, R, x)
                    /\ x \in Thread /\ ~ Free(C, Q, x) /\ NoRear(g, x)
                    /\ \A u \in Thread : NoRear(heap, u) => NoRear(g, u)
                    /\ g.rear = heap.rear
    BY <1>1, <1>2, <1>4, <1>6, <2>2, GenDequeueTraced DEF BuriedBy
  <2>4. g \in Heap
    BY <1>2, <1>4, <1>6, <2>2, GenDequeueHeap
  <2>5. PICK E, S : /\ Traced(heap', E, S, d) /\ Ghosts(E, S, d) /\ Keeps(D, R, E, S, {x})
    BY <2>1, <2>2, <2>3, <2>4, TakingAre, EnqueueTraced
  <2>6. heap'.wait = g.wait /\ heap'.rear[Dead] = heap.rear[Dead]
    BY <2>1, <2>2, <2>3, <2>4, TakingAre, EnqueueLeaves
  <2>7. \A u \in Thread : Free(C, Q, u) => u # x /\ Free(E, S, u)
    BY <2>3, <2>5 DEF Keeps
  <2>8. /\ \A u \in Thread : activeFlag'[u] = IF u = x THEN "ACTIVE" ELSE activeFlag[u]
        /\ \A u \in Thread : pc'[u] = "lock_enqueue" => pc[u] = "lock_enqueue"
    BY <1>3, <1>4, <2>1
  <2>9. \A u \in Thread : NoRear(heap, u) => NoRear(heap', u)
    BY <2>3, <2>6 DEF NoRear
  <2>10. OutOfReach(E, S)'
    <3>1. \A u \in Thread : /\ activeFlag'[u] \in {"DEAD", "NONE"} => Free(E, S, u)
                            /\ activeFlag'[u] = "NONE" => NoRear(heap', u)
                            /\ pc'[u] = "lock_enqueue" => activeFlag'[u] = "BLOCKING" /\ Free(E, S, u)
      BY <1>1, <2>7, <2>8, <2>9 DEF BuriedBy, OutOfReach
    <3> QED
      BY <3>1 DEF OutOfReach, Free, NoRear
  <2>11. CurrentApart(E, S)'
    <3>1. currThread # NULL => currThread = t /\ Free(C, Q, t) /\ NoRear(heap, t)
      BY <1>1, <1>3 DEF BuriedBy, CurrentApart
    <3> QED
      BY <1>3, <2>7, <2>9, <3>1 DEF CurrentApart, Free, NoRear
  <2>12. DeadRear'
    <3>1. heap.rear[Dead] \in Pointer
      BY <1>4, QueueNumbers DEF Heap
    <3>2. heap.rear[Dead] # NULL => activeFlag'[heap.rear[Dead]] = "DEAD"
      BY <1>1, <2>7, <2>8, <3>1 DEF BuriedBy, DeadRear, OutOfReach, Pointer
    <3> QED
      BY <1>1, <1>3, <2>6, <3>2 DEF BuriedBy, DeadRear
  <2>13. RecursesDead' /\ BeforeCreate'
    <3>1. activeFlag[Main] # "NONE"
      BY <1>1, <2>3 DEF BuriedBy, BeforeCreate, OutOfReach
    <3> QED
      BY <1>1, <1>3, <2>8, <3>1, MainIsThread DEF BuriedBy, RecursesDead, BeforeCreate
  <2>14. BuriedBy(E, S, d)'
    BY <2>5, <2>10, <2>11, <2>12, <2>13 DEF BuriedBy
  <2>15. StaysOff
    BY <1>1, <1>3, <2>7, <2>8 DEF StaysOff, Off, Lies, BuriedBy, OutOfReach
  <2> QED
    BY <2>14, <2>15 DEF BuriedInv
<1> QED
  BY <1>5, <1>6


\* The lists that initQueue makes.
NoQueues == [m \in Mutex |-> {}]
NoRanks == [t \in Thread |-> 0]

LEMMA InitTraced ==
  /\ Ghosts({}, NoQueues, NoRanks) /\ Traced(initQueue, {}, NoQueues, NoRanks)
  /\ \A t \in Thread : Free({}, NoQueues, t) /\ NoRear(initQueue, t)
  /\ initQueue.rear[Dead] = NULL
<1>1. Ghosts({}, NoQueues, NoRanks)
  BY DEF Ghosts, NoQueues, NoRanks
<1>2. Follows(initQueue, {}) /\ Fronts(initQueue, {}) /\ Disjoint({}, NoQueues)
  BY TakingAre DEF Follows, Fronts, Disjoint, initQueue, NoQueues
<1>3. MutexFronts(initQueue, {}) /\ Waits(initQueue, {}, NoQueues, NoRanks)
  BY TakingAre DEF MutexFronts, Waits, initQueue, NoQueues
<1>4. \A t \in Thread : Free({}, NoQueues, t) /\ NoRear(initQueue, t)
  BY DEF Free, NoRear, initQueue, NoQueues
<1> QED
  BY <1>1, <1>2, <1>3, <1>4, QueueNumbers DEF Traced, initQueue

LEMMA InitBuried == Init => BuriedInv
<1> SUFFICES ASSUME Init PROVE BuriedInv
  OBVIOUS
<1>1. /\ heap = initQueue /\ activeFlag = [t \in Thread |-> "NONE"] /\ currThread = NULL
      /\ recursing = FALSE /\ pc = [t \in Thread |-> "user"]
  BY DEF Init
<1>2. OutOfReach({}, NoQueues) /\ CurrentApart({}, NoQueues)
  BY <1>1, InitTraced DEF OutOfReach, CurrentApart
<1>3. DeadRear /\ RecursesDead /\ BeforeCreate
  BY <1>1, InitTraced DEF DeadRear, RecursesDead, BeforeCreate
<1>4. BuriedBy({}, NoQueues, NoRanks)
  BY <1>1, <1>2, <1>3, InitTraced DEF BuriedBy
<1> QED
  BY <1>4 DEF BuriedInv

\* scheduler() without a current thread.
LEMMA StartTraced ==
  ASSUME NEW h \in Heap, NEW C, NEW Q, NEW d, Ghosts(C, Q, d), Traced(h, C, Q, d),
         h.front[Running] \in Thread, StartFirst(h)
  PROVE  \E D, R : /\ Ghosts(D, R, d) /\ Traced(heap', D, R, d)
                   /\ heap'.wait = h.wait /\ heap'.rear[Dead] = h.rear[Dead]
                   /\ running' = currThread' /\ running' \in Thread
                   /\ Free(D, R, running') /\ NoRear(heap', running')
                   /\ \A u \in Thread : Free(C, Q, u) => u # running' /\ Free(D, R, u)
<1>1. PICK x : x = h.front[Running]
  OBVIOUS
<1>2. PICK g : g = dequeue(h, Running)
  OBVIOUS
<1>3. PICK k : k = Rotated(h)
  OBVIOUS
<1>4. x \in Thread /\ x # NULL /\ k = enqueue(g, x, Running)
  BY <1>1, <1>2, <1>3, NullIsNoThread DEF Rotated
<1>5. /\ Traced(g, C \ {x}, Q, d) /\ Ghosts(C \ {x}, Q, d)
      /\ Keeps(C, Q, C \ {x}, Q, {}) /\ Free(C \ {x}, Q, x)
      /\ x \in C /\ NoRear(g, x) /\ g.wait = h.wait /\ g.rear = h.rear
  BY <1>1, <1>2, <1>4, TakingAre, DequeueTraced
<1>6. g \in Heap
  BY <1>1, <1>2, <1>4, DequeueHeap, QueueNumbers
<1>7. PICK D, R : /\ Traced(k, D, R, d) /\ Ghosts(D, R, d) /\ Keeps(C \ {x}, Q, D, R, {x})
  BY <1>4, <1>5, <1>6, TakingAre, EnqueueTraced
<1>8. k.wait = g.wait /\ k.rear[Dead] = g.rear[Dead]
  BY <1>4, <1>6, TakingAre, EnqueueLeaves
<1>9. PICK n : n = k.front[Running]
  OBVIOUS
<1>10. k \in Heap /\ n \in Thread /\ n # NULL
  BY <1>4, <1>6, <1>9, EnqueueFront, QueueNumbers, NullIsNoThread
<1>11. /\ Traced(dequeue(k, Running), D \ {n}, R, d) /\ Ghosts(D \ {n}, R, d)
       /\ Keeps(D, R, D \ {n}, R, {}) /\ Free(D \ {n}, R, n)
       /\ n \in D /\ NoRear(dequeue(k, Running), n)
       /\ dequeue(k, Running).wait = k.wait /\ dequeue(k, Running).rear = k.rear
  BY <1>7, <1>9, <1>10, TakingAre, DequeueTraced
<1>12. heap' = dequeue(k, Running) /\ currThread' = n /\ running' = n
  BY <1>3, <1>9 DEF StartFirst
<1>13. \A u \in Thread : Free(C, Q, u) => u # n /\ Free(D \ {n}, R, u)
  <2> SUFFICES ASSUME NEW u \in Thread, Free(C, Q, u) PROVE u # n /\ Free(D \ {n}, R, u)
    OBVIOUS
  <2>1. u # x
    BY <1>5 DEF Free
  <2>2. Free(D, R, u)
    BY <1>5, <1>7, <2>1 DEF Keeps
  <2> QED
    BY <1>11, <2>2 DEF Keeps, Free
<1>14. PICK E : E = D \ {n}
  OBVIOUS
<1>15. /\ Ghosts(E, R, d) /\ Traced(heap', E, R, d)
       /\ heap'.wait = h.wait /\ heap'.rear[Dead] = h.rear[Dead]
       /\ Free(E, R, n) /\ NoRear(heap', n)
       /\ \A u \in Thread : Free(C, Q, u) => u # n /\ Free(E, R, u)
  BY <1>5, <1>8, <1>11, <1>12, <1>13, <1>14
<1> QED
  BY <1>10, <1>12, <1>15

\* create, with a current thread, ...
LEMMA CreateBuries ==
  ASSUME TypeOK, BuriedInv, NEW x \in Thread, Create(x)
  PROVE  BuriedInv' /\ StaysOff
<1>1. PICK C, Q, d : BuriedBy(C, Q, d)
  BY DEF BuriedInv
<1>2. /\ currThread = Main /\ running = Main /\ ~ recursing /\ Main # NULL /\ pc[Main] = "user"
      /\ UNCHANGED << currThread, running, recursing >>
      /\ pc' = [pc EXCEPT ![Main] = "create_sched"]
      /\ activeFlag[x] = "NONE" /\ activeFlag' = [activeFlag EXCEPT ![x] = "ACTIVE"]
      /\ heap' = enqueue(heap, x, Running)
  BY MainIsThread, NullIsNoThread DEF Create, At, Executes, Goto, scheduling_vars, machine_vars
<1>3. heap \in Heap /\ pc \in [Thread -> PC] /\ activeFlag \in [Thread -> Flags]
  BY DEF TypeOK
<1>4. Free(C, Q, x) /\ NoRear(heap, x) /\ x # Main
  BY <1>1, <1>2 DEF BuriedBy, OutOfReach, BeforeCreate
<1>5. PICK D, R : /\ Traced(heap', D, R, d) /\ Ghosts(D, R, d) /\ Keeps(C, Q, D, R, {x})
  BY <1>1, <1>2, <1>3, <1>4, TakingAre, EnqueueTraced DEF BuriedBy
<1>6. heap'.wait = heap.wait /\ heap'.rear[Dead] = heap.rear[Dead]
  BY <1>2, <1>3, TakingAre, EnqueueLeaves
<1>7. /\ \A u \in Thread : activeFlag'[u] = IF u = x THEN "ACTIVE" ELSE activeFlag[u]
      /\ \A u \in Thread : pc'[u] = "lock_enqueue" => pc[u] = "lock_enqueue"
  BY <1>2, <1>3
<1>8. \A u \in Thread : Free(C, Q, u) /\ u # x => Free(D, R, u)
  BY <1>5 DEF Keeps
<1>9. OutOfReach(D, R)'
  <2>1. \A u \in Thread : /\ activeFlag'[u] \in {"DEAD", "NONE"} => Free(D, R, u)
                          /\ activeFlag'[u] = "NONE" => NoRear(heap', u)
                          /\ pc'[u] = "lock_enqueue" => activeFlag'[u] = "BLOCKING" /\ Free(D, R, u)
    BY <1>1, <1>2, <1>6, <1>7, <1>8 DEF BuriedBy, OutOfReach, NoRear
  <2> QED
    BY <2>1 DEF OutOfReach, Free, NoRear
<1>10. CurrentApart(D, R)'
  <2>1. Free(C, Q, Main) /\ NoRear(heap, Main)
    BY <1>1, <1>2 DEF BuriedBy, CurrentApart
  <2> QED
    BY <1>2, <1>4, <1>6, <1>8, <2>1, MainIsThread DEF CurrentApart, Free, NoRear
<1>11. DeadRear'
  <2>1. heap.rear[Dead] \in Pointer
    BY <1>3, QueueNumbers DEF Heap
  <2>2. heap.rear[Dead] # NULL => activeFlag'[heap.rear[Dead]] = "DEAD"
    BY <1>1, <1>2, <1>7, <2>1 DEF BuriedBy, DeadRear, Pointer
  <2> QED
    BY <1>1, <1>2, <1>6, <2>2 DEF BuriedBy, DeadRear
<1>12. RecursesDead' /\ BeforeCreate'
  BY <1>1, <1>2, <1>4, <1>7, MainIsThread DEF BuriedBy, RecursesDead, BeforeCreate
<1>13. BuriedBy(D, R, d)'
  BY <1>5, <1>9, <1>10, <1>11, <1>12 DEF BuriedBy
<1>14. StaysOff
  BY <1>2, <1>7 DEF StaysOff, Off, Lies
<1> QED
  BY <1>13, <1>14 DEF BuriedInv

\* ... without one, ...
LEMMA OrphanCreateBuries ==
  ASSUME TypeOK, BuriedInv, NEW x \in Thread, OrphanCreate(x)
  PROVE  BuriedInv' /\ StaysOff
<1>1. PICK C, Q, d : BuriedBy(C, Q, d)
  BY DEF BuriedInv
<1>2. /\ ~ recursing /\ recursing' = recursing /\ pc' = pc
      /\ activeFlag[Main] # "NONE" /\ activeFlag[x] = "NONE"
      /\ activeFlag' = [activeFlag EXCEPT ![x] = "ACTIVE"]
      /\ StartFirst(enqueue(heap, x, Running))
  BY DEF OrphanCreate
<1>3. heap \in Heap /\ activeFlag \in [Thread -> Flags]
  BY DEF TypeOK
<1>4. PICK h : h = enqueue(heap, x, Running)
  OBVIOUS
<1>5. h \in Heap /\ h.front[Running] \in Thread /\ StartFirst(h)
  BY <1>2, <1>3, <1>4, EnqueueFront, QueueNumbers
<1>6. Free(C, Q, x) /\ NoRear(heap, x)
  BY <1>1, <1>2 DEF BuriedBy, OutOfReach
<1>7. PICK D, R : /\ Traced(h, D, R, d) /\ Ghosts(D, R, d) /\ Keeps(C, Q, D, R, {x})
  BY <1>1, <1>3, <1>4, <1>6, TakingAre, EnqueueTraced DEF BuriedBy
<1>8. h.wait = heap.wait /\ h.rear[Dead] = heap.rear[Dead]
  BY <1>3, <1>4, TakingAre, EnqueueLeaves
<1>9. PICK E, S : /\ Ghosts(E, S, d) /\ Traced(heap', E, S, d)
                  /\ heap'.wait = h.wait /\ heap'.rear[Dead] = h.rear[Dead]
                  /\ running' = currThread' /\ running' \in Thread
                  /\ Free(E, S, running') /\ NoRear(heap', running')
                  /\ \A u \in Thread : Free(D, R, u) => u # running' /\ Free(E, S, u)
  BY <1>5, <1>7, StartTraced
<1>10. \A u \in Thread : Free(C, Q, u) /\ u # x => u # running' /\ Free(E, S, u)
  BY <1>7, <1>9 DEF Keeps
<1>11. \A u \in Thread : activeFlag'[u] = IF u = x THEN "ACTIVE" ELSE activeFlag[u]
  BY <1>2, <1>3
<1>12. OutOfReach(E, S)'
  <2>1. \A u \in Thread : /\ activeFlag'[u] \in {"DEAD", "NONE"} => Free(E, S, u)
                          /\ activeFlag'[u] = "NONE" => NoRear(heap', u)
                          /\ pc'[u] = "lock_enqueue" => activeFlag'[u] = "BLOCKING" /\ Free(E, S, u)
    BY <1>1, <1>2, <1>8, <1>9, <1>10, <1>11 DEF BuriedBy, OutOfReach, NoRear
  <2> QED
    BY <2>1 DEF OutOfReach, Free, NoRear
<1>13. CurrentApart(E, S)'
  BY <1>9 DEF CurrentApart, Free, NoRear
<1>14. DeadRear'
  <2>1. heap.rear[Dead] \in Pointer
    BY <1>3, QueueNumbers DEF Heap
  <2>2. heap.rear[Dead] # NULL => /\ activeFlag'[heap.rear[Dead]] = "DEAD"
                                  /\ heap.rear[Dead] # running'
    BY <1>1, <1>2, <1>10, <1>11, <2>1 DEF BuriedBy, DeadRear, OutOfReach, Pointer
  <2> QED
    BY <1>8, <1>9, <2>2 DEF DeadRear
<1>15. RecursesDead' /\ BeforeCreate'
  BY <1>2, <1>11, MainIsThread DEF RecursesDead, BeforeCreate
<1>16. BuriedBy(E, S, d)'
  BY <1>9, <1>12, <1>13, <1>14, <1>15 DEF BuriedBy
<1>17. StaysOff
  BY <1>1, <1>2, <1>10, <1>11 DEF StaysOff, Off, Lies, BuriedBy, OutOfReach
<1> QED
  BY <1>16, <1>17 DEF BuriedInv

\* ... and the first time.
LEMMA FirstCreateBuries ==
  ASSUME TypeOK, BuriedInv, NEW x \in Thread, FirstCreate(x)
  PROVE  BuriedInv' /\ StaysOff
<1>1. PICK C, Q, d : BuriedBy(C, Q, d)
  BY DEF BuriedInv
<1>2. /\ recursing' = recursing /\ pc' = pc /\ x # Main /\ activeFlag[Main] = "NONE"
      /\ activeFlag' = [activeFlag EXCEPT ![Main] = "ACTIVE", ![x] = "ACTIVE"]
      /\ StartFirst(enqueue(enqueue(initQueue, Main, Running), x, Running))
  BY DEF FirstCreate
<1>3. /\ ~ recursing
      /\ \A u \in Thread : activeFlag[u] = "NONE" /\ pc[u] # "lock_enqueue"
  BY <1>1, <1>2 DEF BuriedBy, BeforeCreate, OutOfReach
<1>4. PICK g : g = enqueue(initQueue, Main, Running)
  OBVIOUS
<1>5. PICK h : h = enqueue(g, x, Running)
  OBVIOUS
<1>6. g \in Heap
  BY <1>4, InitHeap, EnqueueHeap, QueueNumbers, MainIsThread
<1>7. h \in Heap /\ h.front[Running] \in Thread /\ StartFirst(h)
  BY <1>2, <1>4, <1>5, <1>6, EnqueueFront, QueueNumbers
<1>8. PICK D, R : /\ Traced(g, D, R, NoRanks) /\ Ghosts(D, R, NoRanks)
                  /\ Keeps({}, NoQueues, D, R, {Main})
  BY <1>4, InitTraced, InitHeap, MainIsThread, TakingAre, EnqueueTraced
<1>9. g.wait = initQueue.wait /\ g.rear[Dead] = NULL
  BY <1>4, InitTraced, InitHeap, MainIsThread, TakingAre, EnqueueLeaves
<1>10. Free(D, R, x) /\ NoRear(g, x)
  BY <1>2, <1>8, <1>9, InitTraced DEF Keeps, NoRear
<1>11. PICK E, S : /\ Traced(h, E, S, NoRanks) /\ Ghosts(E, S, NoRanks) /\ Keeps(D, R, E, S, {x})
  BY <1>5, <1>6, <1>8, <1>10, TakingAre, EnqueueTraced
<1>12. h.wait = initQueue.wait /\ h.rear[Dead] = NULL
  BY <1>5, <1>6, <1>9, TakingAre, EnqueueLeaves
<1>13. PICK F, T : /\ Ghosts(F, T, NoRanks) /\ Traced(heap', F, T, NoRanks)
                   /\ heap'.wait = h.wait /\ heap'.rear[Dead] = h.rear[Dead]
                   /\ running' = currThread' /\ running' \in Thread
                   /\ Free(F, T, running') /\ NoRear(heap', running')
                   /\ \A u \in Thread : Free(E, S, u) => u # running' /\ Free(F, T, u)
  BY <1>7, <1>11, StartTraced
<1>14. \A u \in Thread : u # Main /\ u # x => Free(F, T, u)
  BY <1>8, <1>11, <1>13, InitTraced DEF Keeps
<1>15. \A u \in Thread : NoRear(heap', u)
  BY <1>12, <1>13, InitTraced DEF NoRear
<1>16. \A u \in Thread : activeFlag'[u] = IF u = Main \/ u = x THEN "ACTIVE" ELSE "NONE"
  BY <1>2, <1>3, MainIsThread DEF TypeOK
<1>17. OutOfReach(F, T)'
  <2>1. \A u \in Thread : activeFlag'[u] \in {"DEAD", "NONE"} => Free(F, T, u)
    BY <1>14, <1>16
  <2>2. \A u \in Thread : pc'[u] # "lock_enqueue"
    BY <1>2, <1>3
  <2> QED
    BY <1>15, <2>1, <2>2 DEF OutOfReach, Free, NoRear
<1>18. CurrentApart(F, T)'
  BY <1>13 DEF CurrentApart, Free, NoRear
<1>19. DeadRear' /\ RecursesDead' /\ BeforeCreate'
  <2>1. ~ recursing' /\ heap'.rear[Dead] = NULL /\ activeFlag'[Main] = "ACTIVE"
    BY <1>2, <1>3, <1>12, <1>13, <1>16, MainIsThread
  <2> QED
    BY <2>1 DEF DeadRear, RecursesDead, BeforeCreate
<1>20. BuriedBy(F, T, NoRanks)'
  BY <1>13, <1>17, <1>18, <1>19 DEF BuriedBy
<1>21. StaysOff
  BY <1>3 DEF StaysOff, Off
<1> QED
  BY <1>20, <1>21 DEF BuriedInv

\* Every step.
LEMMA NextBuries ==
  ASSUME Inv, BuriedInv, [Next]_vars
  PROVE  BuriedInv' /\ StaysOff
<1>0. TypeOK /\ activeFlag \in [Thread -> Flags] /\ pc \in [Thread -> PC]
  BY DEF Inv, TypeOK
<1>1. ASSUME NEW t \in Thread, Library(t) PROVE BuriedInv' /\ StaysOff
  <2>1. CASE CallScheduler(t) \/ Recurse(t)
    BY <1>0, <2>1, SchedulerBuries
  <2>2. CASE ExitValue(t) \/ JoinList(t) \/ JoinDone(t) \/ TestAndSet(t)
             \/ LockDone(t) \/ UnlockClear(t)
    <3>1. /\ UNCHANGED << heap, activeFlag, currThread, running, recursing >>
          /\ running = t /\ pc[t] # "lock_sched"
          /\ \E p \in PC \ {"lock_enqueue"} : pc' = [pc EXCEPT ![t] = p]
      BY <2>2, PCNames DEF ExitValue, JoinList, JoinDone, TestAndSet, LockDone, UnlockClear,
         At, Executes, Goto, scheduling_vars, machine_vars
    <3> QED
      BY <1>0, <3>1, IdleBuries
  <2>3. CASE ReturnDead(t) \/ JoinWait(t) \/ LockBlock(t)
    <3>1. /\ At(t, pc[t]) /\ pc[t] # "lock_sched"
          /\ UNCHANGED << heap, currThread, running, recursing >>
          /\ \E f, p : /\ f # "NONE" /\ activeFlag' = [activeFlag EXCEPT ![t] = f]
                       /\ pc' = [pc EXCEPT ![t] = p] /\ (p = "lock_enqueue" => f = "BLOCKING")
      BY <2>3 DEF ReturnDead, JoinWait, LockBlock, At, Executes, Goto, scheduling_vars, machine_vars
    <3> QED
      BY <1>0, <3>1, FlagBuries
  <2>4. CASE LockEnqueue(t)
    BY <2>4, LockEnqueueBuries
  <2> QED
    BY <1>1, <2>1, <2>2, <2>3, <2>4 DEF Library
<1>2. ASSUME NEW t \in Thread, Program(t) PROVE BuriedInv' /\ StaysOff
  <2>1. CASE Yield(t) \/ Exit(t)
    <3>1. /\ At(t, pc[t]) /\ pc[t] # "lock_sched"
          /\ UNCHANGED << heap, currThread, running, recursing >>
          /\ \E f, p : /\ f # "NONE" /\ activeFlag' = [activeFlag EXCEPT ![t] = f]
                       /\ pc' = [pc EXCEPT ![t] = p] /\ (p = "lock_enqueue" => f = "BLOCKING")
      BY <2>1 DEF Yield, Exit, At, Executes, Goto, scheduling_vars, machine_vars
    <3> QED
      BY <1>0, <3>1, FlagBuries
  <2>2. CASE Return(t) \/ (\E x \in Thread : Join(t, x)) \/ (\E m \in Mutex : Lock(t, m))
    <3>1. /\ UNCHANGED << heap, activeFlag, currThread, running, recursing >>
          /\ running = t /\ pc[t] # "lock_sched"
          /\ \E p \in PC \ {"lock_enqueue"} : pc' = [pc EXCEPT ![t] = p]
      BY <2>2, PCNames DEF Return, Join, Lock, At, Executes, Goto, scheduling_vars, machine_vars
    <3> QED
      BY <1>0, <3>1, IdleBuries
  <2>3. ASSUME NEW m \in Mutex, Unlock(t, m) PROVE BuriedInv' /\ StaysOff
    BY <1>0, <2>3, UnlockBuries
  <2> QED
    BY <1>2, <2>1, <2>2, <2>3 DEF Program
<1>3. ASSUME NEW t \in Thread, Alarm(t) PROVE BuriedInv' /\ StaysOff
  BY <1>0, <1>3, SchedulerBuries
<1>4. ASSUME NEW x \in Thread, FirstCreate(x) \/ Create(x) \/ OrphanCreate(x)
      PROVE  BuriedInv' /\ StaysOff
  BY <1>0, <1>4, FirstCreateBuries, CreateBuries, OrphanCreateBuries
<1>5. CASE \/ Tick \/ MainReturns \/ Gone \/ UNCHANGED vars
           \/ \E t \in Thread : LastContextEnds(t) \/ NullDereference(t) \/ Hang(t)
  <2>1. UNCHANGED << heap, activeFlag, currThread, running, recursing, pc >>
    BY <1>5 DEF Tick, MainReturns, Gone, LastContextEnds, NullDereference, Hang, vars, machine_vars
  <2> QED
    BY <1>0, <2>1, IdleBuries
<1> QED
  BY <1>1, <1>2, <1>3, <1>4, <1>5 DEF Next

\* A dead thread that left the processor never gets it back, nor another flag,
\* wherever the alarm strikes and whatever lists its node is left linked in.
THEOREM DeadForGood == Spec => DeadStaysDead
<1>1. Inv /\ BuriedInv /\ [Next]_vars => BuriedInv'
  BY NextBuries
<1>2. Inv /\ BuriedInv /\ [Next]_vars =>
        [\A t \in Thread : activeFlag[t] = "DEAD" /\ running # t
                              => activeFlag'[t] = "DEAD" /\ running' # t]_vars
  BY NextBuries DEF StaysOff, Off, Lies
<1> QED
  BY <1>1, <1>2, InitBuried, Invariance, PTL DEF Spec, DeadStaysDead
=============================================================================
