-------------------------- MODULE MultiLevelProofs --------------------------
(***************************************************************************)
(* The locks and the queues of 01/mutex_tests.c, for all sets of threads   *)
(* and mutexes, any number of levels and of agings, and with SIGALRM       *)
(* anywhere.                                                               *)
(*                                                                         *)
(* The locks exclude also where the queues are wrong and threads get lost. *)
(* Whatever aging does to the queues, the pointers stay pointers.  Until   *)
(* it moves a thread, the queues are the lists they are meant to be: this  *)
(* is QueueInv, and that each thread is in one place, that levels are      *)
(* served in order, and the highest first, follows from it.                *)
(*                                                                         *)
(* c, d and e are the sequences of nodes of the queues.  A thread that     *)
(* moves is first taken out (Rest: all is well but for t, which is in no   *)
(* queue), and then put in.                                                *)
(***************************************************************************)
EXTENDS MultiLevel, Induction

lock_vars == << flag, pc, mutex, held >>

-----------------------------------------------------------------------------
(* The inductive invariant. *)

LEMMA LockInvInit == Init => LockInv
  BY ThreadAssumption DEF Init, LockInv, LockTypes, ArgumentsGiven, HeldIsFlagged,
     HeldOnce, PC, LockPC

LEMMA LockInvUnchanged == LockInv /\ UNCHANGED lock_vars => LockInv'
  BY DEF lock_vars, LockInv, LockTypes, ArgumentsGiven, HeldIsFlagged, HeldOnce

\* A step that goes from one place of a call to another, with what it holds.
LEMMA LockInvMoves ==
  ASSUME LockInv, NEW t \in Thread, NEW p \in PC, Goto(t, p),
         UNCHANGED << flag, mutex, held >>,
         p \in LockPC => mutex[t] \in Mutex,
         p # "unlock_clear"
  PROVE  LockInv'
<1>1. \A u \in Thread : pc'[u] = IF u = t THEN p ELSE pc[u]
  BY DEF Goto, LockInv, LockTypes
<1>2. LockTypes'
  BY DEF Goto, LockInv, LockTypes
<1>3. ArgumentsGiven'
  BY <1>1 DEF LockInv, ArgumentsGiven
<1>4. HeldIsFlagged' /\ HeldOnce'
  BY DEF LockInv, HeldIsFlagged, HeldOnce
<1> QED
  BY <1>2, <1>3, <1>4 DEF LockInv

LEMMA LockInvHandler ==
  ASSUME LockInv, NEW t \in Thread, CallHandler(t)
  PROVE  LockInv'
<1>1. CASE pc[t] = "lock_sched"
  <2>1. Return(t) = "lock" /\ mutex[t] \in Mutex
    BY <1>1 DEF Return, LockInv, ArgumentsGiven, LockPC
  <2> QED
    BY <2>1, LockInvMoves DEF CallHandler, call_vars, PC, LockPC
<1>2. CASE pc[t] = "yield_sched"
  <2>1. Return(t) \in {"user", "join"}
    BY <1>2 DEF Return
  <2> QED
    BY <2>1, LockInvMoves DEF CallHandler, call_vars, PC, LockPC
<1>3. CASE pc[t] \in {"exit_sched", "end_sched"}
  <2>1. Return(t) \in {"user", "end"}
    BY <1>3 DEF Return
  <2> QED
    BY <2>1, LockInvMoves DEF CallHandler, call_vars, PC, LockPC
<1> QED
  BY <1>1, <1>2, <1>3 DEF CallHandler, At

LEMMA LockInvCalls ==
  ASSUME LockInv, NEW t \in Thread,
         \/ Exit(t) \/ Yield(t) \/ JoinYields(t) \/ JoinReturns(t)
         \/ \E x \in Thread : Join(t, x)
  PROVE  LockInv'
  BY LockInvMoves DEF Exit, Yield, JoinYields, JoinReturns, Join, call_vars, PC, LockPC

LEMMA LockInvBlocks ==
  ASSUME LockInv, NEW t \in Thread, LockBlock(t) \/ LockEnqueue(t)
  PROVE  LockInv'
<1>1. mutex[t] \in Mutex
  BY DEF LockBlock, LockEnqueue, At, LockInv, ArgumentsGiven, LockPC
<1> QED
  BY <1>1, LockInvMoves DEF LockBlock, LockEnqueue, call_vars, PC, LockPC

LEMMA LockInvLock ==
  ASSUME LockInv, NEW t \in Thread, NEW m \in Mutex, Lock(t, m)
  PROVE  LockInv'
<1>1. \A u \in Thread : /\ pc'[u] = IF u = t THEN "lock" ELSE pc[u]
                        /\ mutex'[u] = IF u = t THEN m ELSE mutex[u]
  BY DEF Lock, Goto, LockInv, LockTypes
<1>2. LockTypes'
  BY DEF Lock, Goto, LockInv, LockTypes, PC, LockPC
<1>3. ArgumentsGiven'
  BY <1>1 DEF Lock, LockInv, ArgumentsGiven
<1>4. HeldIsFlagged' /\ HeldOnce'
  BY DEF Lock, LockInv, HeldIsFlagged, HeldOnce
<1> QED
  BY <1>2, <1>3, <1>4 DEF LockInv

\* The flag was 0, so nobody held the mutex.
LEMMA LockInvTestAndSet ==
  ASSUME LockInv, NEW t \in Thread, TestAndSet(t)
  PROVE  LockInv'
<1>1. mutex[t] \in Mutex
  BY DEF TestAndSet, At, LockInv, ArgumentsGiven, LockPC
<1>2. \A m \in Mutex : flag'[m] = IF m = mutex[t] THEN 1 ELSE flag[m]
  BY DEF TestAndSet, LockInv, LockTypes
<1>3. CASE Taken(t)
  <2>1. \A u \in Thread : pc'[u] = IF u = t THEN "lock_block" ELSE pc[u]
    BY <1>3 DEF TestAndSet, Goto, LockInv, LockTypes
  <2>2. UNCHANGED << mutex, held >>
    BY <1>3 DEF TestAndSet
  <2>3. LockTypes'
    <3>1. flag' \in [Mutex -> 0 .. 1]
      <4>1. flag' = [flag EXCEPT ![mutex[t]] = 1] /\ flag \in [Mutex -> 0 .. 1]
        BY DEF TestAndSet, LockInv, LockTypes
      <4>2. 1 \in 0 .. 1
        OBVIOUS
      <4> QED
        BY <4>1, <4>2, Zenon
    <3>2. pc' \in [Thread -> PC]
      BY <1>3 DEF TestAndSet, Goto, LockInv, LockTypes, PC, LockPC
    <3> QED
      BY <2>2, <3>1, <3>2 DEF LockInv, LockTypes
  <2>4. ArgumentsGiven'
    BY <1>1, <2>1, <2>2 DEF LockInv, ArgumentsGiven
  <2>5. HeldIsFlagged' /\ HeldOnce'
    BY <1>2, <2>2 DEF LockInv, LockTypes, HeldIsFlagged, HeldOnce
  <2> QED
    BY <2>3, <2>4, <2>5 DEF LockInv
<1>4. CASE ~ Taken(t)
  <2>1. \A u \in Thread :
          /\ pc'[u] = IF u = t THEN "user" ELSE pc[u]
          /\ mutex'[u] = IF u = t THEN NULL ELSE mutex[u]
          /\ held'[u] = IF u = t THEN held[t] \cup {mutex[t]} ELSE held[u]
    BY <1>4 DEF TestAndSet, Goto, LockInv, LockTypes
  <2>2. \A u \in Thread : mutex[t] \notin held[u]
    BY <1>4 DEF Taken, LockInv, HeldIsFlagged
  <2>3. LockTypes'
    BY <1>1, <1>4 DEF TestAndSet, Goto, LockInv, LockTypes, PC, LockPC
  <2>4. ArgumentsGiven'
    BY <2>1 DEF LockInv, ArgumentsGiven, LockPC
  <2>5. HeldIsFlagged'
    BY <1>1, <1>2, <2>1 DEF LockInv, LockTypes, HeldIsFlagged
  <2>6. HeldOnce'
    BY <2>1, <2>2 DEF LockInv, HeldOnce
  <2> QED
    BY <2>3, <2>4, <2>5, <2>6 DEF LockInv
<1> QED
  BY <1>3, <1>4

LEMMA LockInvUnlock ==
  ASSUME LockInv, NEW t \in Thread, NEW m \in Mutex, Unlock(t, m)
  PROVE  LockInv'
<1>1. \A u \in Thread : /\ pc'[u] = IF u = t THEN "unlock_clear" ELSE pc[u]
                        /\ mutex'[u] = IF u = t THEN m ELSE mutex[u]
  BY DEF Unlock, Goto, LockInv, LockTypes
<1>2. LockTypes'
  BY DEF Unlock, Goto, LockInv, LockTypes, PC
<1>3. ArgumentsGiven'
  BY <1>1 DEF Unlock, LockInv, ArgumentsGiven, LockPC
<1>4. HeldIsFlagged' /\ HeldOnce'
  BY DEF Unlock, LockInv, HeldIsFlagged, HeldOnce
<1> QED
  BY <1>2, <1>3, <1>4 DEF LockInv

\* The mutex is the caller's, so the flag that is cleared is nobody else's.
LEMMA LockInvUnlockClear ==
  ASSUME LockInv, NEW t \in Thread, UnlockClear(t)
  PROVE  LockInv'
<1>1. mutex[t] \in held[t] /\ mutex[t] \in Mutex
  BY DEF UnlockClear, At, LockInv, LockTypes, ArgumentsGiven
<1>2. \A u \in Thread :
        /\ pc'[u] = IF u = t THEN "user" ELSE pc[u]
        /\ mutex'[u] = IF u = t THEN NULL ELSE mutex[u]
        /\ held'[u] = IF u = t THEN held[t] \ {mutex[t]} ELSE held[u]
  BY DEF UnlockClear, Goto, LockInv, LockTypes
<1>3. \A m \in Mutex : flag'[m] = IF m = mutex[t] THEN 0 ELSE flag[m]
  BY DEF UnlockClear, LockInv, LockTypes
<1>4. LockTypes'
  BY <1>1 DEF UnlockClear, Goto, LockInv, LockTypes, PC
<1>5. ArgumentsGiven'
  BY <1>2 DEF LockInv, ArgumentsGiven, LockPC
<1>6. HeldIsFlagged'
  BY <1>1, <1>2, <1>3 DEF LockInv, LockTypes, HeldIsFlagged, HeldOnce
<1>7. HeldOnce'
  BY <1>2 DEF LockInv, HeldOnce
<1> QED
  BY <1>4, <1>5, <1>6, <1>7 DEF LockInv

\* What main(), the clock and the alarm do is no matter of the locks.
LEMMA OutsideLeavesLocks ==
  ASSUME \/ Alarm \/ Hang \/ Tick \/ MainExits
         \/ \E t \in Thread : Create(t) \/ EndOfContext(t)
  PROVE  UNCHANGED lock_vars
  BY DEF Alarm, Hang, Tick, MainExits, Create, EndOfContext, call_vars, lock_vars

\* LockInv is inductive.
THEOREM LockInvStep == LockInv /\ [Next]_vars => LockInv'
<1> SUFFICES ASSUME LockInv, [Next]_vars PROVE LockInv'
  OBVIOUS
<1>1. CASE UNCHANGED vars
  BY <1>1, LockInvUnchanged DEF vars, lock_vars
<1>2. CASE Alarm \/ Hang \/ Tick \/ MainExits
  BY <1>2, OutsideLeavesLocks, LockInvUnchanged
<1>3. ASSUME NEW t \in Thread, Create(t) \/ Call(t) PROVE LockInv'
  <2>1. CASE Create(t) \/ EndOfContext(t)
    BY <2>1, OutsideLeavesLocks, LockInvUnchanged
  <2>2. CASE \/ Exit(t) \/ Yield(t) \/ JoinYields(t) \/ JoinReturns(t)
             \/ \E x \in Thread : Join(t, x)
    BY <2>2, LockInvCalls
  <2>3. CASE \E m \in Mutex : Lock(t, m) \/ Unlock(t, m)
    BY <2>3, LockInvLock, LockInvUnlock
  <2>4. CASE LockBlock(t) \/ LockEnqueue(t)
    BY <2>4, LockInvBlocks
  <2>5. CASE TestAndSet(t)
    BY <2>5, LockInvTestAndSet
  <2>6. CASE UnlockClear(t)
    BY <2>6, LockInvUnlockClear
  <2>7. CASE CallHandler(t)
    BY <2>7, LockInvHandler
  <2> QED
    BY <1>3, <2>1, <2>2, <2>3, <2>4, <2>5, <2>6, <2>7 DEF Call
<1> QED
  BY <1>1, <1>2, <1>3 DEF Next

\* The locks of 01/mutex_tests.c: a flag is set while its mutex is held, by one
\* thread, and an unlock under way is its holder's (352-384).
THEOREM LocksInvariance == Spec => []LockInv
  BY LockInvInit, LockInvStep, PTL DEF Spec

-----------------------------------------------------------------------------
(* The refinement: the holder of a mutex, before a step and after it.      *)

LEMMA HolderIs ==
  ASSUME LockInv, NEW t \in Thread, NEW m \in Mutex, t \in Owners[m]
  PROVE  Holder[m] = t
<1> DEFINE h == CHOOSE u \in Owners[m] : TRUE
<1>1. h \in Thread /\ h \in Owners[m]
  BY DEF Owners
<1>2. h = t
  BY <1>1 DEF Owners, LockInv, HeldOnce
<1> QED
  BY <1>2 DEF Holder

LEMMA HolderIsThen ==
  ASSUME LockInv', NEW t \in Thread, NEW m \in Mutex, t \in Owners'[m]
  PROVE  Holder'[m] = t
<1> DEFINE h == CHOOSE u \in Owners'[m] : TRUE
<1>1. h \in Thread /\ h \in Owners'[m]
  BY DEF Owners
<1>2. h = t
  BY <1>1 DEF Owners, LockInv, HeldOnce
<1> QED
  BY <1>2 DEF Holder

LEMMA NoHolder ==
  ASSUME NEW m \in Mutex, \A t \in Thread : t \notin Owners[m]
  PROVE  Holder[m] = NULL
<1>1. Owners[m] = {}
  BY DEF Owners
<1> QED
  BY <1>1 DEF Holder

LEMMA NoHolderThen ==
  ASSUME NEW m \in Mutex, \A t \in Thread : t \notin Owners'[m]
  PROVE  Holder'[m] = NULL
<1>1. Owners'[m] = {}
  BY DEF Owners
<1> QED
  BY <1>1 DEF Holder

LEMMA SameHolder ==
  ASSUME LockInv, LockInv', NEW m \in Mutex,
         \A t \in Thread : t \in Owners'[m] <=> t \in Owners[m]
  PROVE  Holder'[m] = Holder[m]
<1>1. CASE \A t \in Thread : t \notin Owners[m]
  BY <1>1, NoHolder, NoHolderThen
<1>2. ASSUME NEW t \in Thread, t \in Owners[m] PROVE Holder'[m] = Holder[m]
  BY <1>2, HolderIs, HolderIsThen
<1> QED
  BY <1>1, <1>2

\* Only the step to or from the second half of an unlock counts.
LEMMA PassingBy ==
  ASSUME LockInv, LockInv', UNCHANGED held,
         \A u \in Thread :
           \/ pc'[u] = pc[u] /\ mutex'[u] = mutex[u]
           \/ pc[u] # "unlock_clear" /\ pc'[u] # "unlock_clear"
  PROVE  Holder' = Holder
<1>1. \A t \in Thread, m \in Mutex : t \in Owners'[m] <=> t \in Owners[m]
  BY DEF Owners
<1>2. \A m \in Mutex : Holder'[m] = Holder[m]
  BY <1>1, SameHolder
<1> QED
  BY <1>2 DEF Holder

LEMMA GotoPassingBy ==
  ASSUME LockInv, LockInv', NEW t \in Thread, NEW p, Goto(t, p),
         UNCHANGED << held, mutex >>, pc[t] # "unlock_clear", p # "unlock_clear"
  PROVE  Holder' = Holder
<1>1. \A u \in Thread : pc'[u] = IF u = t THEN p ELSE pc[u]
  BY DEF Goto, LockInv, LockTypes
<1> QED
  BY <1>1, PassingBy

LEMMA CallsPassBy ==
  ASSUME LockInv, LockInv', NEW t \in Thread,
         \/ Exit(t) \/ Yield(t) \/ JoinYields(t) \/ JoinReturns(t)
         \/ \E x \in Thread : Join(t, x)
         \/ LockBlock(t) \/ LockEnqueue(t)
  PROVE  Holder' = Holder
  BY GotoPassingBy DEF Exit, Yield, JoinYields, JoinReturns, Join, LockBlock,
     LockEnqueue, At, call_vars

LEMMA HandlerPassesBy ==
  ASSUME LockInv, LockInv', NEW t \in Thread, CallHandler(t)
  PROVE  Holder' = Holder
<1>1. pc[t] \in {"lock_sched", "yield_sched", "exit_sched", "end_sched"}
  BY DEF CallHandler, At
<1>2. Return(t) # "unlock_clear"
  BY <1>1 DEF Return
<1> QED
  BY <1>1, <1>2, GotoPassingBy DEF CallHandler, call_vars

LEMMA LockPassesBy ==
  ASSUME LockInv, LockInv', NEW t \in Thread, NEW m \in Mutex, Lock(t, m)
  PROVE  Holder' = Holder
<1>1. \A u \in Thread : /\ pc'[u] = IF u = t THEN "lock" ELSE pc[u]
                        /\ mutex'[u] = IF u = t THEN m ELSE mutex[u]
  BY DEF Lock, Goto, LockInv, LockTypes
<1> QED
  BY <1>1, PassingBy DEF Lock, At

\* The mutex was given back before its flag is cleared.
LEMMA UnlockClearPassesBy ==
  ASSUME LockInv, LockInv', NEW t \in Thread, UnlockClear(t)
  PROVE  Holder' = Holder
<1>1. pc[t] = "unlock_clear"
  BY DEF UnlockClear, At
<1>2. \A u \in Thread :
        /\ pc'[u] = IF u = t THEN "user" ELSE pc[u]
        /\ mutex'[u] = IF u = t THEN NULL ELSE mutex[u]
        /\ held'[u] = IF u = t THEN held[t] \ {mutex[t]} ELSE held[u]
  BY DEF UnlockClear, Goto, LockInv, LockTypes
<1>3. \A u \in Thread, m \in Mutex : u \in Owners'[m] <=> u \in Owners[m]
  BY <1>1, <1>2 DEF Owners
<1>4. \A m \in Mutex : Holder'[m] = Holder[m]
  BY <1>3, SameHolder
<1> QED
  BY <1>4 DEF Holder

\* A test-and-set that finds the flag clear acquires the mutex.
LEMMA TestAndSetAcquires ==
  ASSUME LockInv, LockInv', NEW t \in Thread, TestAndSet(t)
  PROVE  [Locks!Next]_Holder
<1> DEFINE m == mutex[t]
<1>1. m \in Mutex /\ pc[t] = "lock"
  BY DEF TestAndSet, At, LockInv, ArgumentsGiven, LockPC
<1>2. CASE Taken(t)
  BY <1>1, <1>2, GotoPassingBy DEF TestAndSet
<1>3. CASE ~ Taken(t)
  <2>1. \A u \in Thread :
          /\ pc'[u] = IF u = t THEN "user" ELSE pc[u]
          /\ mutex'[u] = IF u = t THEN NULL ELSE mutex[u]
          /\ held'[u] = IF u = t THEN held[t] \cup {m} ELSE held[u]
    BY <1>3 DEF TestAndSet, Goto, LockInv, LockTypes
  <2>2. \A u \in Thread : u \notin Owners[m]
    BY <1>1, <1>3 DEF Owners, Taken, LockInv, HeldIsFlagged
  <2>3. t \in Owners'[m]
    BY <1>1, <2>1 DEF Owners
  <2>4. \A u \in Thread, n \in Mutex : n # m => (u \in Owners'[n] <=> u \in Owners[n])
    BY <1>1, <2>1 DEF Owners
  <2>5. Holder[m] = NULL /\ Holder'[m] = t
    BY <1>1, <2>2, <2>3, NoHolder, HolderIsThen
  <2>6. \A n \in Mutex : n # m => Holder'[n] = Holder[n]
    BY <2>4, SameHolder
  <2>7. Holder' = [Holder EXCEPT ![m] = t]
    <3>1. Holder = [n \in Mutex |-> Holder[n]] /\ Holder' = [n \in Mutex |-> Holder'[n]]
      BY DEF Holder
    <3> QED
      BY <1>1, <2>5, <2>6, <3>1
  <2> QED
    BY <1>1, <2>5, <2>7 DEF Locks!Next, Locks!Acquire
<1> QED
  BY <1>2, <1>3

\* The first step of an unlock releases it.
LEMMA UnlockReleases ==
  ASSUME LockInv, LockInv', NEW t \in Thread, NEW m \in Mutex, Unlock(t, m)
  PROVE  [Locks!Next]_Holder
<1>1. pc[t] = "user" /\ m \in held[t] /\ held' = held
  BY DEF Unlock, At
<1>2. \A u \in Thread : /\ pc'[u] = IF u = t THEN "unlock_clear" ELSE pc[u]
                        /\ mutex'[u] = IF u = t THEN m ELSE mutex[u]
  BY DEF Unlock, Goto, LockInv, LockTypes
<1>3. t \in Owners[m]
  BY <1>1 DEF Owners
<1>4. \A u \in Thread : u \notin Owners'[m]
  BY <1>1, <1>2 DEF Owners, LockInv, HeldOnce
<1>5. \A u \in Thread, n \in Mutex : n # m => (u \in Owners'[n] <=> u \in Owners[n])
  BY <1>1, <1>2 DEF Owners
<1>6. Holder[m] = t /\ Holder'[m] = NULL
  BY <1>3, <1>4, HolderIs, NoHolderThen
<1>7. \A n \in Mutex : n # m => Holder'[n] = Holder[n]
  BY <1>5, SameHolder
<1>8. Holder' = [Holder EXCEPT ![m] = NULL]
  BY <1>6, <1>7 DEF Holder
<1> QED
  BY <1>6, <1>8 DEF Locks!Next, Locks!Release

LEMMA InitImplements == Init => Locks!Init
<1> SUFFICES ASSUME Init PROVE Locks!Init
  OBVIOUS
<1>1. \A m \in Mutex : \A t \in Thread : t \notin Owners[m]
  BY DEF Init, Owners
<1>2. \A m \in Mutex : Holder[m] = NULL
  BY <1>1, NoHolder
<1> QED
  BY <1>2 DEF Locks!Init, Holder

LEMMA NextImplements ==
  ASSUME LockInv, LockInv', [Next]_vars
  PROVE  [Locks!Next]_Holder
<1>1. CASE UNCHANGED lock_vars
  BY <1>1, PassingBy DEF lock_vars
<1>2. CASE Alarm \/ Hang \/ Tick \/ MainExits \/ UNCHANGED vars
  BY <1>1, <1>2, OutsideLeavesLocks DEF vars, lock_vars
<1>3. ASSUME NEW t \in Thread, Create(t) \/ Call(t) PROVE [Locks!Next]_Holder
  <2>1. CASE Create(t) \/ EndOfContext(t)
    BY <1>1, <2>1, OutsideLeavesLocks
  <2>2. CASE \E m \in Mutex : Lock(t, m) \/ Unlock(t, m)
    BY <2>2, LockPassesBy, UnlockReleases
  <2> QED
    BY <1>3, <2>1, <2>2, CallsPassBy, HandlerPassesBy, TestAndSetAcquires,
       UnlockClearPassesBy DEF Call
<1> QED
  BY <1>2, <1>3 DEF Next

\* my_pthread_mutex_lock and unlock of 01/mutex_tests.c implement the abstract
\* mutex, whatever aging does to the queues and wherever the alarm strikes (353).
THEOREM LevelsImplementMutexes == Spec => LocksExclude
<1>1. Init => Locks!Init
  BY InitImplements
<1>2. LockInv /\ LockInv' /\ [Next]_vars => [Locks!Next]_Holder
  BY NextImplements
<1> QED
  BY <1>1, <1>2, LocksInvariance, PTL DEF Spec, LocksExclude, Locks!Spec

-----------------------------------------------------------------------------
(* Sequences and queues. *)

LEMMA SeqFacts ==
  ASSUME NEW c \in Seq(Thread)
  PROVE  /\ Len(c) \in Nat /\ DOMAIN c = 1 .. Len(c) /\ c \in [1 .. Len(c) -> Thread]
         /\ c = << >> <=> Len(c) = 0
  OBVIOUS

LEMMA AppendFacts ==
  ASSUME NEW c \in Seq(Thread), NEW t \in Thread
  PROVE  /\ Append(c, t) \in Seq(Thread) /\ Len(Append(c, t)) = Len(c) + 1
         /\ \A k \in 1 .. Len(c) : Append(c, t)[k] = c[k]
         /\ Append(c, t)[Len(c) + 1] = t
  OBVIOUS

LEMMA TailFacts ==
  ASSUME NEW c \in Seq(Thread), c # << >>
  PROVE  /\ Tail(c) \in Seq(Thread) /\ Len(Tail(c)) = Len(c) - 1
         /\ \A k \in 1 .. Len(c) - 1 : Tail(c)[k] = c[k + 1]
  OBVIOUS

\* A walk from head along nxt_pthread meets the nodes of the sequence.
LEMMA ContentsAre ==
  ASSUME NEW s, NEW q, NEW x, Holds(s, q, x)
  PROVE  Contents(s, q) = x
<1> DEFINE n == s.size[q]
           turn(f) == [k \in 1 .. n |->
                         IF k = 1 THEN s.head[q]
                         ELSE IF f[k - 1] = NULL THEN NULL ELSE s.nxt[f[k - 1]]]
<1>1. /\ n \in Nat /\ x \in [1 .. n -> Thread]
      /\ n # 0 => s.head[q] = x[1]
      /\ \A k \in 1 .. n - 1 : s.nxt[x[k]] = x[k + 1]
  BY SeqFacts DEF Holds
<1>2. x = turn(x)
  <2>1. \A k \in 1 .. n : x[k] = turn(x)[k]
    <3> TAKE k \in 1 .. n
    <3>1. CASE k = 1
      BY <1>1, <3>1
    <3>2. CASE k # 1
      <4>1. k - 1 \in 1 .. n - 1 /\ k - 1 \in 1 .. n
        BY <1>1, <3>2
      <4>3. x[k - 1] \in Thread
        BY <1>1, <4>1
      <4>2. s.nxt[x[k - 1]] = x[k - 1 + 1] /\ x[k - 1] # NULL
        BY <1>1, <4>1, <4>3, ThreadAssumption
      <4> QED
        BY <3>2, <4>2
    <3> QED
      BY <3>1, <3>2
  <2> QED
    BY <1>1, <2>1
<1>3. ASSUME NEW f, f = turn(f) PROVE f = x
  <2> DEFINE T == {k \in Nat : k \in 1 .. n => f[k] = x[k]}
  <2>1. 0 \in T
    OBVIOUS
  <2>2. ASSUME NEW k \in Nat, k \in T PROVE k + 1 \in T
    <3> SUFFICES ASSUME k + 1 \in 1 .. n PROVE f[k + 1] = x[k + 1]
      OBVIOUS
    <3>1. f[k + 1] = turn(f)[k + 1]
      BY <1>3
    <3>2. CASE k = 0
      BY <1>1, <3>1, <3>2
    <3>3. CASE k # 0
      <4>1. f[k] = x[k] /\ x[k] # NULL /\ k \in 1 .. n - 1
        BY <1>1, <2>2, <3>3, ThreadAssumption
      <4> QED
        BY <1>1, <3>1, <3>3, <4>1
    <3> QED
      BY <3>2, <3>3
  <2> HIDE DEF T
  <2>3. Nat \subseteq T
    BY <2>1, <2>2, SetInduction
  <2>4. \A k \in 1 .. n : f[k] = x[k]
    BY <1>1, <2>3 DEF T
  <2>5. f = [k \in 1 .. n |-> f[k]]
    BY <1>3
  <2>6. x = [k \in 1 .. n |-> x[k]]
    BY <1>1
  <2> HIDE DEF n, turn
  <2> QED
    BY <2>4, <2>5, <2>6
<1>4. Contents(s, q) = CHOOSE f : f = turn(f)
  BY DEF Contents
<1> HIDE DEF turn
<1> QED
  BY <1>2, <1>3, <1>4

-----------------------------------------------------------------------------
(* What the operations on queues keep, whatever the queues are like. *)

LEMMA EnqueueTypes ==
  ASSUME NEW s \in Sched, Counted(s), NEW q \in Queue, NEW t \in Thread
  PROVE  /\ enqueue(s, q, t) \in Sched /\ Counted(enqueue(s, q, t))
         /\ enqueue(s, q, t).state = s.state
         /\ enqueue(s, q, t).priority = s.priority
         /\ enqueue(s, q, t).time_ran = s.time_ran
<1> DEFINE e == enqueue(s, q, t)
<1>1. CASE s.size[q] = 0
  <2>1. e = [s EXCEPT !.head[q] = t, !.tail[q] = t, !.size[q] = 1]
    BY <1>1 DEF enqueue
  <2>2. e \in Sched
    <3>1. /\ [s.head EXCEPT ![q] = t] \in [Queue -> Pointer]
          /\ [s.tail EXCEPT ![q] = t] \in [Queue -> Pointer]
          /\ [s.size EXCEPT ![q] = 1] \in [Queue -> Nat]
      BY DEF Sched, Pointer
    <3> QED
      BY <2>1, <3>1 DEF Sched
  <2>3. \A r \in Queue : /\ e.head[r] = IF r = q THEN t ELSE s.head[r]
                         /\ e.tail[r] = IF r = q THEN t ELSE s.tail[r]
                         /\ e.size[r] = IF r = q THEN 1 ELSE s.size[r]
    BY <2>1 DEF Sched
  <2>4. Counted(e)
    BY <2>3, ThreadAssumption DEF Counted
  <2> QED
    BY <2>1, <2>2, <2>4 DEF Sched
<1>2. CASE s.size[q] # 0
  <2>1. e = [s EXCEPT !.nxt[s.tail[q]] = t, !.tail[q] = t, !.size[q] = @ + 1]
    BY <1>2 DEF enqueue
  <2>2. s.tail[q] \in Thread
    BY <1>2 DEF Counted, Sched, Pointer
  <2>3. e \in Sched
    <3>1. /\ [s.nxt EXCEPT ![s.tail[q]] = t] \in [Thread -> Pointer]
          /\ [s.tail EXCEPT ![q] = t] \in [Queue -> Pointer]
          /\ [s.size EXCEPT ![q] = @ + 1] \in [Queue -> Nat]
      <4>1. t \in Pointer /\ s.size[q] + 1 \in Nat
        BY DEF Sched, Pointer
      <4> QED
        BY <4>1 DEF Sched
    <3> QED
      BY <2>1, <3>1 DEF Sched
  <2>4. \A r \in Queue : /\ e.head[r] = s.head[r]
                         /\ e.tail[r] = IF r = q THEN t ELSE s.tail[r]
                         /\ e.size[r] = IF r = q THEN s.size[q] + 1 ELSE s.size[r]
    BY <2>1 DEF Sched
  <2>5. s.size[q] + 1 # 0
    BY DEF Sched
  <2>6. Counted(e)
    BY <1>2, <2>4, <2>5, ThreadAssumption DEF Counted
  <2> QED
    BY <2>1, <2>3, <2>6 DEF Sched
<1> QED
  BY <1>1, <1>2

LEMMA DequeueTypes ==
  ASSUME NEW s \in Sched, Counted(s), NEW q \in Queue, s.head[q] # NULL
  PROVE  /\ dequeue(s, q) \in Sched /\ Counted(dequeue(s, q))
         /\ dequeue(s, q).state = s.state
         /\ dequeue(s, q).priority = s.priority
         /\ dequeue(s, q).time_ran = s.time_ran
<1> DEFINE d == dequeue(s, q)
<1>1. s.size[q] \in Nat \ {0} /\ s.head[q] \in Thread
  BY DEF Counted, Sched, Pointer
<1>2. CASE s.size[q] = 1
  <2>1. d = [s EXCEPT !.head[q] = NULL, !.tail[q] = NULL, !.size[q] = 0]
    BY <1>2 DEF dequeue
  <2>2. d \in Sched
    <3>1. /\ [s.head EXCEPT ![q] = NULL] \in [Queue -> Pointer]
          /\ [s.tail EXCEPT ![q] = NULL] \in [Queue -> Pointer]
          /\ [s.size EXCEPT ![q] = 0] \in [Queue -> Nat]
      BY DEF Sched, Pointer
    <3> QED
      BY <2>1, <3>1 DEF Sched
  <2>3. \A r \in Queue : /\ d.head[r] = IF r = q THEN NULL ELSE s.head[r]
                         /\ d.tail[r] = IF r = q THEN NULL ELSE s.tail[r]
                         /\ d.size[r] = IF r = q THEN 0 ELSE s.size[r]
    BY <2>1 DEF Sched
  <2>4. Counted(d)
    BY <2>3 DEF Counted
  <2> QED
    BY <2>1, <2>2, <2>4 DEF Sched
<1>3. CASE s.size[q] # 1
  <2>1. d = [s EXCEPT !.head[q] = s.nxt[s.head[q]], !.size[q] = @ - 1]
    BY <1>3 DEF dequeue
  <2>2. s.nxt[s.head[q]] \in Pointer /\ s.size[q] - 1 \in Nat \ {0}
    BY <1>1, <1>3 DEF Sched
  <2>3. d \in Sched
    <3>1. /\ [s.head EXCEPT ![q] = s.nxt[s.head[q]]] \in [Queue -> Pointer]
          /\ [s.size EXCEPT ![q] = @ - 1] \in [Queue -> Nat]
      BY <2>2 DEF Sched
    <3> QED
      BY <2>1, <3>1 DEF Sched
  <2>4. \A r \in Queue : /\ d.head[r] = IF r = q THEN s.nxt[s.head[q]] ELSE s.head[r]
                         /\ d.tail[r] = s.tail[r]
                         /\ d.size[r] = IF r = q THEN s.size[q] - 1 ELSE s.size[r]
    BY <2>1 DEF Sched
  <2>5. Counted(d)
    BY <1>1, <2>2, <2>4 DEF Counted
  <2> QED
    BY <2>1, <2>3, <2>5 DEF Sched
<1> QED
  BY <1>2, <1>3

LEMMA LevelsAreQueues == Level \subseteq Queue /\ Mutex \subseteq Queue /\ 0 \in Level
  BY LevelsAssumption DEF Queue, Level

LEMMA AddTypes ==
  ASSUME NEW s \in Sched, Counted(s), NEW t \in Thread, NEW p \in Level
  PROVE  /\ add_mypthread_sched(s, t, p) \in Sched
         /\ Counted(add_mypthread_sched(s, t, p))
         /\ add_mypthread_sched(s, t, p).state = [s.state EXCEPT ![t] = "READY"]
         /\ add_mypthread_sched(s, t, p).priority = [s.priority EXCEPT ![t] = p]
         /\ add_mypthread_sched(s, t, p).time_ran = [s.time_ran EXCEPT ![t] = 0]
<1> DEFINE r == [s EXCEPT !.state[t] = "READY", !.priority[t] = p, !.time_ran[t] = 0]
<1>1. r \in Sched
  BY DEF Sched, State
<1>2. Counted(r)
  BY DEF Counted, Sched
<1>3. /\ r.state = [s.state EXCEPT ![t] = "READY"]
      /\ r.priority = [s.priority EXCEPT ![t] = p]
      /\ r.time_ran = [s.time_ran EXCEPT ![t] = 0]
  BY DEF Sched
<1>4. p \in Queue
  BY LevelsAreQueues
<1> HIDE DEF r
<1>5. add_mypthread_sched(s, t, p) = enqueue(r, p, t)
  BY DEF add_mypthread_sched, r
<1> QED
  BY <1>1, <1>2, <1>3, <1>4, <1>5, EnqueueTypes

-----------------------------------------------------------------------------
(* Aging: what a turn of its loop, a level and the whole of it keep. *)

\* Where the loop over level i stands, as long as level i counts a node.
Walk(i) ==
  {w \in [sched : Sched, temp : Pointer, parent : Pointer, moved : BOOLEAN] :
     Counted(w.sched) /\ (w.temp # NULL => w.sched.size[i] # 0)}

\* What it leaves.
Left ==
  {w \in [sched : Sched, temp : Pointer, parent : Pointer, moved : BOOLEAN] :
     Counted(w.sched)}

LEMMA UnlinkTypes ==
  ASSUME NEW s \in Sched, Counted(s), NEW i \in Queue, s.size[i] # 0,
         NEW parent \in Pointer, NEW t \in Thread
  PROVE  /\ unlink(s, i, parent, t) \in Sched /\ Counted(unlink(s, i, parent, t))
         /\ unlink(s, i, parent, t).size = s.size
<1> DEFINE u == unlink(s, i, parent, t)
<1>1. s.nxt[t] \in Pointer
  BY DEF Sched
<1>2. CASE parent = NULL
  <2>1. u = [s EXCEPT !.head[i] = s.nxt[t]]
    BY <1>2 DEF unlink
  <2>2. u \in Sched
    <3>1. [s.head EXCEPT ![i] = s.nxt[t]] \in [Queue -> Pointer]
      BY <1>1 DEF Sched
    <3> QED
      BY <2>1, <3>1 DEF Sched
  <2>3. /\ \A r \in Queue : u.head[r] = IF r = i THEN s.nxt[t] ELSE s.head[r]
        /\ u.tail = s.tail /\ u.size = s.size
    BY <2>1 DEF Sched
  <2> QED
    BY <2>2, <2>3 DEF Counted
<1>3. CASE parent # NULL
  <2>1. u = [s EXCEPT !.nxt[parent] = s.nxt[t]]
    BY <1>3 DEF unlink
  <2>2. u \in Sched
    <3>1. [s.nxt EXCEPT ![parent] = s.nxt[t]] \in [Thread -> Pointer]
      BY <1>1 DEF Sched
    <3> QED
      BY <2>1, <3>1 DEF Sched
  <2>3. u.head = s.head /\ u.tail = s.tail /\ u.size = s.size
    BY <2>1 DEF Sched
  <2> QED
    BY <2>2, <2>3 DEF Counted
<1> QED
  BY <1>2, <1>3

\* Putting a thread on another level leaves the count of this one.
LEMMA AddElsewhere ==
  ASSUME NEW s \in Sched, Counted(s), NEW t \in Thread, NEW p \in Level,
         NEW i \in Queue, i # p
  PROVE  add_mypthread_sched(s, t, p).size[i] = s.size[i]
<1> DEFINE r == [s EXCEPT !.state[t] = "READY", !.priority[t] = p, !.time_ran[t] = 0]
<1>1. r.size = s.size
  BY DEF Sched
<1>2. s.size \in [Queue -> Nat]
  BY DEF Sched
<1> HIDE DEF r
<1>3. enqueue(r, p, t).size[i] = r.size[i]
  <2>1. CASE r.size[p] = 0
    BY <1>1, <1>2, <2>1 DEF enqueue
  <2>2. CASE r.size[p] # 0
    BY <1>1, <1>2, <2>2 DEF enqueue
  <2> QED
    BY <2>1, <2>2
<1>4. add_mypthread_sched(s, t, p) = enqueue(r, p, t)
  BY DEF add_mypthread_sched, r
<1> QED
  BY <1>1, <1>3, <1>4

LEMMA AgeNodeKeeps ==
  ASSUME NEW i \in Level \ {0}, NEW w \in Walk(i), NEW old
  PROVE  /\ AgeNode(w, i, old) \in Walk(i)
         /\ ~ AgeNode(w, i, old).moved =>
              ~ w.moved /\ AgeNode(w, i, old).sched = w.sched
<1> USE DEF Walk
<1>1. CASE w.temp = NULL
  BY <1>1 DEF AgeNode
<1>2. CASE w.temp # NULL /\ w.temp \in old
  <2> DEFINE u == unlink(w.sched, i, w.parent, w.temp)
             a == add_mypthread_sched(u, w.temp, 0)
  <2>1. w.temp \in Thread /\ i \in Queue /\ 0 \in Level /\ i # 0
    BY <1>2, LevelsAreQueues DEF Pointer
  <2>6. /\ w.sched \in Sched /\ Counted(w.sched) /\ w.sched.size[i] # 0
        /\ w.parent \in Pointer
    BY <1>2
  <2>2. u \in Sched /\ Counted(u) /\ u.size[i] # 0
    BY <2>1, <2>6, UnlinkTypes
  <2>5. AgeNode(w, i, old) = [w EXCEPT !.sched = a, !.temp = a.nxt[w.temp], !.moved = TRUE]
    BY <1>2 DEF AgeNode, MoveUp
  <2> HIDE DEF u
  <2>3. a \in Sched /\ Counted(a) /\ a.size[i] # 0
    <3>1. a \in Sched /\ Counted(a)
      BY <2>1, <2>2, AddTypes
    <3>2. a.size[i] = u.size[i]
      BY <2>1, <2>2, AddElsewhere
    <3> QED
      BY <2>2, <3>1, <3>2
  <2> HIDE DEF a
  <2>4. a.nxt[w.temp] \in Pointer
    BY <2>1, <2>3 DEF Sched
  <2> QED
    BY <2>3, <2>4, <2>5
<1>3. CASE w.temp # NULL /\ w.temp \notin old
  <2>1. w.temp \in Thread /\ w.sched.nxt[w.temp] \in Pointer
    BY <1>3 DEF Pointer, Sched
  <2>2. AgeNode(w, i, old) = [w EXCEPT !.temp = w.sched.nxt[w.temp], !.parent = w.temp]
    BY <1>3 DEF AgeNode
  <2> QED
    BY <1>3, <2>1, <2>2
<1> QED
  BY <1>1, <1>2, <1>3

LEMMA WalkBoundIsNat == WalkBound \in Nat
  BY ThreadAssumption, FS_CardinalityType DEF WalkBound

\* A level: it keeps the types, and if it has moved nothing it has changed nothing.
LEMMA AgeLevelKeeps ==
  ASSUME NEW i \in Level \ {0}, NEW w \in Left, NEW old
  PROVE  /\ AgeLevel(w, i, old) \in Left
         /\ ~ AgeLevel(w, i, old).moved =>
              ~ w.moved /\ AgeLevel(w, i, old).sched = w.sched
<1>1. CASE w.temp # NULL
  BY <1>1 DEF AgeLevel
<1>2. CASE w.temp = NULL
  <2> DEFINE start == [w EXCEPT !.temp = w.sched.head[i], !.parent = NULL]
             turn(f) == [k \in 0 .. WalkBound |->
                           IF k = 0 THEN start ELSE AgeNode(f[k - 1], i, old)]
             at == CHOOSE f : f = turn(f)
             next == [k \in Nat |-> [v \in Walk(i) |-> AgeNode(v, i, old)]]
  <2>1. AgeLevel(w, i, old) = at[WalkBound]
    BY <1>2 DEF AgeLevel
  <2>2. start \in Walk(i) /\ start.sched = w.sched /\ start.moved = w.moved
    <3>1. i \in Queue
      BY LevelsAreQueues
    <3>2. w.sched \in Sched /\ Counted(w.sched) /\ w.sched.head[i] \in Pointer
      BY <3>1 DEF Left, Sched
    <3>3. w.sched.head[i] # NULL => w.sched.size[i] # 0
      BY <3>1, <3>2 DEF Counted
    <3> QED
      BY <3>2, <3>3 DEF Left, Walk, Pointer
  <2>3. next \in [Nat -> [Walk(i) -> Walk(i)]]
    BY AgeNodeKeeps
  <2> HIDE DEF start
  <2>4. \E f \in [0 .. WalkBound -> Walk(i)] : f = turn(f)
    <3>4. PICK f : IsWalk(f, Walk(i), start, next, WalkBound)
      <4> HIDE DEF next
      <4> QED
        BY <2>2, <2>3, WalkBoundIsNat, WalkExists
    <3>1. /\ f \in [0 .. WalkBound -> Walk(i)]
          /\ f[0] = start /\ \A k \in 1 .. WalkBound : f[k] = next[k][f[k - 1]]
      <4> HIDE DEF next
      <4> QED
        BY <3>4 DEF IsWalk
    <3>2. \A k \in 1 .. WalkBound : next[k][f[k - 1]] = AgeNode(f[k - 1], i, old)
      <4> TAKE k \in 1 .. WalkBound
      <4>1. k \in Nat /\ f[k - 1] \in Walk(i)
        BY <3>1, WalkBoundIsNat
      <4> QED
        BY <4>1
    <3>3. f = turn(f)
      <4> HIDE DEF next
      <4> QED
        BY <3>1, <3>2, WalkBoundIsNat
    <3> HIDE DEF turn
    <3> QED
      BY <3>1, <3>3
  <2>5. at = turn(at)
    <3> HIDE DEF turn
    <3> QED
      BY <2>4
  <2> HIDE DEF at
  <2> DEFINE T == {k \in Nat : k \in 0 .. WalkBound =>
                     /\ at[k] \in Walk(i)
                     /\ ~ at[k].moved => ~ w.moved /\ at[k].sched = w.sched}
  <2>6. 0 \in T
    <3>1. 0 \in 0 .. WalkBound
      BY WalkBoundIsNat
    <3>2. at[0] = start
      BY <2>5, <3>1
    <3> QED
      BY <2>2, <3>2
  <2>7. ASSUME NEW k \in Nat, k \in T PROVE k + 1 \in T
    <3> SUFFICES ASSUME k + 1 \in 0 .. WalkBound
                 PROVE  /\ at[k + 1] \in Walk(i)
                        /\ ~ at[k + 1].moved => ~ w.moved /\ at[k + 1].sched = w.sched
      OBVIOUS
    <3>1. k \in 0 .. WalkBound
      BY WalkBoundIsNat
    <3>2. at[k + 1] = AgeNode(at[k], i, old)
      BY <2>5, <3>1
    <3> QED
      BY <2>7, <3>1, <3>2, AgeNodeKeeps
  <2> HIDE DEF T
  <2>8. WalkBound \in T
    BY <2>6, <2>7, WalkBoundIsNat, SetInduction
  <2> QED
    BY <2>1, <2>8, WalkBoundIsNat DEF T, Walk, Left
<1> QED
  BY <1>1, <1>2

\* schedule_handler's aging (95-128).
LEMMA AgedKeeps ==
  ASSUME NEW s \in Sched, Counted(s), NEW old
  PROVE  /\ Aged(s, old) \in Left
         /\ ~ Aged(s, old).moved => Aged(s, old).sched = s
<1> DEFINE start == [sched |-> s, temp |-> NULL, parent |-> NULL, moved |-> FALSE]
           top == NLEVELS - 1
           turn(f) == [i \in Level |->
                         IF i = 0 THEN start ELSE AgeLevel(f[i - 1], i, old)]
           upto == CHOOSE f : f = turn(f)
           next == [k \in Nat |->
                      [v \in Left |-> IF k \in Level \ {0} THEN AgeLevel(v, k, old) ELSE v]]
<1>1. Aged(s, old) = upto[top]
  BY DEF Aged
<1>2. start \in Left /\ top \in Nat /\ Level = 0 .. top
  BY LevelsAssumption DEF Left, Pointer, Level
<1>3. next \in [Nat -> [Left -> Left]]
  BY AgeLevelKeeps
<1> HIDE DEF top
<1>4. \E f \in [0 .. top -> Left] : f = turn(f)
  <2>4. PICK f : IsWalk(f, Left, start, next, top)
    <3> HIDE DEF next, start
    <3> QED
      BY <1>2, <1>3, WalkExists
  <2>1. /\ f \in [0 .. top -> Left]
        /\ f[0] = start /\ \A k \in 1 .. top : f[k] = next[k][f[k - 1]]
    <3> HIDE DEF next, start
    <3> QED
      BY <2>4 DEF IsWalk
  <2>2. \A k \in 1 .. top : next[k][f[k - 1]] = AgeLevel(f[k - 1], k, old)
    <3> TAKE k \in 1 .. top
    <3>1. k \in Nat /\ k \in Level \ {0} /\ f[k - 1] \in Left
      BY <1>2, <2>1
    <3> QED
      BY <3>1
  <2>3. f = turn(f)
    <3> HIDE DEF next, start
    <3> QED
      BY <1>2, <2>1, <2>2
  <2> HIDE DEF turn
  <2> QED
    BY <2>1, <2>3
<1>5. upto = turn(upto)
  <2> HIDE DEF turn
  <2> QED
    BY <1>4
<1> HIDE DEF upto
<1> DEFINE T == {k \in Nat : k \in 0 .. top =>
                   upto[k] \in Left /\ (~ upto[k].moved => upto[k].sched = s)}
<1>6. 0 \in T
  <2>1. 0 \in Level
    BY <1>2
  <2>2. upto[0] = start
    BY <1>5, <2>1
  <2> QED
    BY <1>2, <2>2
<1>7. ASSUME NEW k \in Nat, k \in T PROVE k + 1 \in T
  <2> SUFFICES ASSUME k + 1 \in 0 .. top
               PROVE  upto[k + 1] \in Left /\ (~ upto[k + 1].moved => upto[k + 1].sched = s)
    OBVIOUS
  <2>1. k \in 0 .. top /\ k + 1 \in Level \ {0} /\ k + 1 - 1 = k
    BY <1>2
  <2>3. upto[k + 1] = turn(upto)[k + 1]
    BY <1>5
  <2>2. upto[k + 1] = AgeLevel(upto[k], k + 1, old)
    <3> HIDE DEF start
    <3> QED
      BY <2>1, <2>3
  <2> QED
    BY <1>7, <2>1, <2>2, AgeLevelKeeps
<1> HIDE DEF T
<1>8. top \in T
  BY <1>2, <1>6, <1>7, SetInduction
<1> QED
  BY <1>1, <1>2, <1>8 DEF T

-----------------------------------------------------------------------------
(* What the operations on queues do to queues that hold the sequences c. *)

With(c, q, t)  == [c EXCEPT ![q] = Append(c[q], t)]
Without(c, q)  == [c EXCEPT ![q] = Tail(c[q])]
SameLinks(s, z) == s.nxt = z.nxt /\ s.head = z.head /\ s.tail = z.tail /\ s.size = z.size

LEMMA SameLinksLinked ==
  ASSUME NEW s, NEW z, NEW c, Linked(s, c), SameLinks(s, z)
  PROVE  Linked(z, c)
  BY DEF Linked, Holds, SameLinks

LEMMA HoldsFacts ==
  ASSUME NEW s, NEW q, NEW x, Holds(s, q, x)
  PROVE  /\ x \in Seq(Thread) /\ Len(x) = s.size[q] /\ s.size[q] \in Nat
         /\ x \in [1 .. s.size[q] -> Thread]
         /\ s.size[q] = 0 => s.head[q] = NULL /\ s.tail[q] = NULL
         /\ s.size[q] # 0 =>
              /\ s.head[q] = x[1] /\ s.tail[q] = x[s.size[q]]
              /\ 1 \in 1 .. s.size[q] /\ s.size[q] \in 1 .. s.size[q]
         /\ \A k \in 1 .. s.size[q] - 1 : s.nxt[x[k]] = x[k + 1]
<1>1. x \in Seq(Thread) /\ Len(x) = s.size[q]
  BY DEF Holds
<1>2. s.size[q] \in Nat /\ x \in [1 .. s.size[q] -> Thread]
  BY <1>1, SeqFacts
<1> QED
  BY <1>1, <1>2 DEF Holds

LEMMA LinkedCounts ==
  ASSUME NEW s, NEW c, Linked(s, c)
  PROVE  Counted(s)
<1> SUFFICES ASSUME NEW q \in Queue
             PROVE  (s.size[q] # 0 <=> s.tail[q] # NULL) /\ (s.head[q] # NULL => s.size[q] # 0)
  BY DEF Counted
<1>1. Holds(s, q, c[q])
  BY DEF Linked
<1>2. s.size[q] # 0 => s.tail[q] \in Thread
  BY <1>1, HoldsFacts
<1> QED
  BY <1>1, <1>2, HoldsFacts, ThreadAssumption

LEMMA OnceIs ==
  ASSUME NEW c, Once(c), NEW q \in Queue, NEW r \in Queue,
         NEW j \in 1 .. Len(c[q]), NEW k \in 1 .. Len(c[r]), c[q][j] = c[r][k]
  PROVE  q = r /\ j = k
  BY DEF Once

LEMMA WithOnce ==
  ASSUME NEW c \in [Queue -> Seq(Thread)], Once(c), NEW q \in Queue, NEW t \in Thread,
         ~ Queued(c, t)
  PROVE  With(c, q, t) \in [Queue -> Seq(Thread)] /\ Once(With(c, q, t))
<1> DEFINE a == Append(c[q], t)
           d == With(c, q, t)
<1>1. /\ a \in Seq(Thread) /\ Len(a) = Len(c[q]) + 1
      /\ \A k \in 1 .. Len(c[q]) : a[k] = c[q][k]
      /\ a[Len(c[q]) + 1] = t
  BY AppendFacts
<1>2. \A r \in Queue : Len(c[r]) \in Nat
  BY SeqFacts
<1>3. /\ \A r \in Queue : d[r] = IF r = q THEN a ELSE c[r]
      /\ a \in Seq(Thread) => d \in [Queue -> Seq(Thread)]
  BY DEF With
<1> HIDE DEF a, d
<1>4. ASSUME NEW r \in Queue, NEW k \in 1 .. Len(d[r])
      PROVE  \/ k \in 1 .. Len(c[r]) /\ d[r][k] = c[r][k]
             \/ r = q /\ k = Len(c[q]) + 1 /\ d[r][k] = t
  <2>1. CASE r # q
    BY <1>3, <2>1
  <2>2. CASE r = q
    BY <1>1, <1>2, <1>3, <2>2
  <2> QED
    BY <2>1, <2>2
<1>5. Once(d)
  <2> SUFFICES ASSUME NEW q1 \in Queue, NEW r1 \in Queue,
                      NEW j \in 1 .. Len(d[q1]), NEW k \in 1 .. Len(d[r1]),
                      d[q1][j] = d[r1][k]
               PROVE  q1 = r1 /\ j = k
    BY DEF Once
  <2>1. CASE j \in 1 .. Len(c[q1]) /\ d[q1][j] = c[q1][j]
    <3>1. k \in 1 .. Len(c[r1]) /\ d[r1][k] = c[r1][k]
      BY <1>4, <2>1 DEF Queued
    <3>2. c[q1][j] = c[r1][k]
      BY <2>1, <3>1
    <3> QED
      BY <2>1, <3>1, <3>2, OnceIs
  <2>2. CASE q1 = q /\ j = Len(c[q]) + 1 /\ d[q1][j] = t
    <3>1. r1 = q /\ k = Len(c[q]) + 1
      BY <1>4, <2>2 DEF Queued
    <3> QED
      BY <2>2, <3>1
  <2> QED
    BY <1>4, <2>1, <2>2
<1> QED
  BY <1>1, <1>3, <1>5 DEF d

\* At the queue that gets the node; nothing else links to its tail.
LEMMA EnqueueHolds ==
  ASSUME NEW s \in Sched, NEW q \in Queue, NEW x, Holds(s, q, x), NEW t \in Thread,
         \A k \in 1 .. s.size[q] - 1 : x[k] # s.tail[q]
  PROVE  Holds(enqueue(s, q, t), q, Append(x, t))
<1> DEFINE a == Append(x, t)
           e == enqueue(s, q, t)
           n == s.size[q]
<1>1. /\ x \in Seq(Thread) /\ Len(x) = n /\ n \in Nat /\ x \in [1 .. n -> Thread]
      /\ n # 0 => s.head[q] = x[1] /\ s.tail[q] = x[n] /\ 1 \in 1 .. n /\ n \in 1 .. n
      /\ \A k \in 1 .. n - 1 : s.nxt[x[k]] = x[k + 1]
  BY HoldsFacts
<1>2. /\ a \in Seq(Thread) /\ Len(a) = n + 1
      /\ \A k \in 1 .. n : a[k] = x[k]
      /\ a[n + 1] = t
  BY <1>1, AppendFacts
<1> HIDE DEF a
<1>3. CASE n = 0
  <2>1. e = [s EXCEPT !.head[q] = t, !.tail[q] = t, !.size[q] = 1]
    BY <1>3 DEF enqueue
  <2>2. e.head[q] = t /\ e.tail[q] = t /\ e.size[q] = 1
    BY <2>1 DEF Sched
  <2> HIDE DEF e
  <2>3. Holds(e, q, a)
    BY <1>2, <1>3, <2>2 DEF Holds
  <2> QED
    BY <2>3 DEF a, e
<1>4. CASE n # 0
  <2>1. e = [s EXCEPT !.nxt[s.tail[q]] = t, !.tail[q] = t, !.size[q] = @ + 1]
    BY <1>4 DEF enqueue
  <2>2. /\ e.head[q] = s.head[q] /\ e.tail[q] = t /\ e.size[q] = n + 1
        /\ \A u \in Thread : e.nxt[u] = IF u = s.tail[q] THEN t ELSE s.nxt[u]
    BY <2>1 DEF Sched
  <2> HIDE DEF e
  <2>3. ASSUME NEW k \in 1 .. n PROVE e.nxt[a[k]] = a[k + 1]
    <3>1. CASE k = n
      BY <1>1, <1>2, <1>4, <2>2, <3>1
    <3>2. CASE k # n
      <4>1. k \in 1 .. n - 1 /\ k + 1 \in 1 .. n
        BY <1>1, <3>2
      <4>2. x[k] \in Thread /\ x[k] # s.tail[q] /\ s.nxt[x[k]] = x[k + 1]
        BY <1>1, <4>1
      <4> QED
        BY <1>2, <2>2, <4>1, <4>2
    <3> QED
      BY <3>1, <3>2
  <2>4. e.size[q] - 1 = n /\ e.size[q] # 0 /\ 1 \in 1 .. n /\ e.head[q] = a[1] /\ e.tail[q] = a[e.size[q]]
    BY <1>1, <1>2, <1>4, <2>2
  <2> HIDE DEF n
  <2>5. Holds(e, q, a)
    BY <1>2, <2>2, <2>3, <2>4 DEF Holds
  <2> QED
    BY <2>5 DEF a, e
<1> QED
  BY <1>3, <1>4

LEMMA EnqueueElsewhere ==
  ASSUME NEW s \in Sched, NEW q \in Queue, NEW t \in Thread,
         NEW r \in Queue, r # q, NEW x, Holds(s, r, x),
         s.size[q] # 0 => \A k \in 1 .. s.size[r] : x[k] # s.tail[q]
  PROVE  Holds(enqueue(s, q, t), r, x)
<1> DEFINE e == enqueue(s, q, t)
<1>1. /\ x \in Seq(Thread) /\ Len(x) = s.size[r] /\ s.size[r] \in Nat
      /\ x \in [1 .. s.size[r] -> Thread]
  BY HoldsFacts
<1>2. e.head[r] = s.head[r] /\ e.tail[r] = s.tail[r] /\ e.size[r] = s.size[r]
  <2>1. CASE s.size[q] = 0
    BY <2>1 DEF enqueue, Sched
  <2>2. CASE s.size[q] # 0
    BY <2>2 DEF enqueue, Sched
  <2> QED
    BY <2>1, <2>2
<1>3. ASSUME NEW k \in 1 .. s.size[r] - 1 PROVE e.nxt[x[k]] = x[k + 1]
  <2>1. k \in 1 .. s.size[r] /\ x[k] \in Thread /\ s.nxt[x[k]] = x[k + 1]
    BY <1>1 DEF Holds
  <2>2. CASE s.size[q] = 0
    BY <2>1, <2>2 DEF enqueue, Sched
  <2>3. CASE s.size[q] # 0
    <3>1. e = [s EXCEPT !.nxt[s.tail[q]] = t, !.tail[q] = t, !.size[q] = @ + 1]
      BY <2>3 DEF enqueue
    <3>2. e.nxt = [s.nxt EXCEPT ![s.tail[q]] = t]
      BY <3>1 DEF Sched
    <3>3. x[k] # s.tail[q]
      BY <2>1, <2>3
    <3> QED
      BY <2>1, <3>2, <3>3 DEF Sched
  <2> QED
    BY <2>2, <2>3
<1> HIDE DEF e
<1>4. Holds(e, r, x)
  BY <1>2, <1>3 DEF Holds
<1> QED
  BY <1>4 DEF e

LEMMA EnqueueLinked ==
  ASSUME NEW s \in Sched, NEW c \in [Queue -> Seq(Thread)], Linked(s, c), Once(c),
         NEW q \in Queue, NEW t \in Thread
  PROVE  Linked(enqueue(s, q, t), With(c, q, t))
<1>1. \A r \in Queue : Holds(s, r, c[r]) /\ Len(c[r]) = s.size[r] /\ s.size[r] \in Nat
  BY HoldsFacts DEF Linked
<1>2. s.size[q] # 0 => s.tail[q] = c[q][s.size[q]] /\ s.size[q] \in 1 .. s.size[q]
  BY <1>1, HoldsFacts
\* No node but the last is that of the tail.
<1>3. ASSUME s.size[q] # 0, NEW r \in Queue, NEW k \in 1 .. s.size[r], c[r][k] = s.tail[q]
      PROVE  r = q /\ k = s.size[q]
  BY <1>1, <1>2, <1>3 DEF Once
<1>4. Holds(enqueue(s, q, t), q, Append(c[q], t))
  <2>1. ASSUME NEW k \in 1 .. s.size[q] - 1 PROVE c[q][k] # s.tail[q]
    <3>1. k \in 1 .. s.size[q] /\ s.size[q] # 0 /\ k # s.size[q]
      BY <1>1
    <3> QED
      BY <1>3, <3>1
  <2> QED
    BY <1>1, <2>1, EnqueueHolds
<1>5. ASSUME NEW r \in Queue, r # q PROVE Holds(enqueue(s, q, t), r, c[r])
  BY <1>1, <1>3, <1>5, EnqueueElsewhere
<1>6. \A r \in Queue : With(c, q, t)[r] = IF r = q THEN Append(c[q], t) ELSE c[r]
  BY DEF With
<1> QED
  BY <1>4, <1>5, <1>6 DEF Linked

LEMMA WithoutOnce ==
  ASSUME NEW c \in [Queue -> Seq(Thread)], Once(c), NEW q \in Queue, c[q] # << >>
  PROVE  /\ Without(c, q) \in [Queue -> Seq(Thread)] /\ Once(Without(c, q))
         /\ ~ Queued(Without(c, q), c[q][1])
<1> DEFINE a == Tail(c[q])
           d == Without(c, q)
<1>1. /\ a \in Seq(Thread) /\ Len(a) = Len(c[q]) - 1
      /\ \A k \in 1 .. Len(c[q]) - 1 : a[k] = c[q][k + 1]
  BY TailFacts
<1>9. \A r \in Queue : Len(c[r]) \in Nat
  BY SeqFacts
<1>2. \A r \in Queue : d[r] = IF r = q THEN a ELSE c[r]
  BY DEF Without
<1>3. d \in [Queue -> Seq(Thread)]
  BY <1>1 DEF Without
<1> HIDE DEF a, d
<1>4. ASSUME NEW r \in Queue, NEW k \in 1 .. Len(d[r])
      PROVE  \/ r # q /\ k \in 1 .. Len(c[r]) /\ d[r][k] = c[r][k]
             \/ r = q /\ k + 1 \in 1 .. Len(c[r]) /\ d[r][k] = c[r][k + 1]
  <2>1. CASE r # q
    BY <1>2, <2>1
  <2>2. CASE r = q
    BY <1>1, <1>2, <1>9, <2>2
  <2> QED
    BY <2>1, <2>2
<1>5. \A r \in Queue : \A k \in 1 .. Len(d[r]) : k \in Nat /\ k # 0
  BY <1>3, SeqFacts
<1>6. 1 \in 1 .. Len(c[q])
  BY SeqFacts
<1> HIDE DEF d
<1>7. Once(d)
  <2> SUFFICES ASSUME NEW q1 \in Queue, NEW r1 \in Queue,
                      NEW j \in 1 .. Len(d[q1]), NEW k \in 1 .. Len(d[r1]),
                      d[q1][j] = d[r1][k]
               PROVE  q1 = r1 /\ j = k
    BY DEF Once
  <2>1. CASE q1 # q
    <3>1. j \in 1 .. Len(c[q1]) /\ d[q1][j] = c[q1][j]
      BY <1>4, <2>1
    <3>2. CASE r1 # q
      <4>1. k \in 1 .. Len(c[r1]) /\ d[r1][k] = c[r1][k]
        BY <1>4, <3>2
      <4>2. c[q1][j] = c[r1][k]
        BY <3>1, <4>1
      <4> QED
        BY <3>1, <4>1, <4>2, OnceIs
    <3>3. CASE r1 = q
      <4>1. k + 1 \in 1 .. Len(c[r1]) /\ d[r1][k] = c[r1][k + 1]
        BY <1>4, <3>3
      <4>2. c[q1][j] = c[r1][k + 1]
        BY <3>1, <4>1
      <4>3. q1 = r1
        BY <3>1, <4>1, <4>2, OnceIs
      <4> QED
        BY <2>1, <3>3, <4>3
    <3> QED
      BY <3>2, <3>3
  <2>2. CASE q1 = q
    <3>1. j + 1 \in 1 .. Len(c[q1]) /\ d[q1][j] = c[q1][j + 1]
      BY <1>4, <2>2
    <3>2. CASE r1 # q
      <4>1. k \in 1 .. Len(c[r1]) /\ d[r1][k] = c[r1][k]
        BY <1>4, <3>2
      <4> QED
        BY <2>2, <3>1, <3>2, <4>1, OnceIs
    <3>3. CASE r1 = q
      <4>1. k + 1 \in 1 .. Len(c[r1]) /\ d[r1][k] = c[r1][k + 1]
        BY <1>4, <3>3
      <4>3. c[q1][j + 1] = c[r1][k + 1]
        BY <3>1, <4>1
      <4>2. q1 = r1 /\ j + 1 = k + 1
        BY <3>1, <4>1, <4>3, OnceIs
      <4> QED
        BY <1>5, <4>2
    <3> QED
      BY <3>2, <3>3
  <2> QED
    BY <2>1, <2>2
<1>8. ~ Queued(d, c[q][1])
  <2> SUFFICES ASSUME NEW r \in Queue, NEW k \in 1 .. Len(d[r]), d[r][k] = c[q][1]
               PROVE  FALSE
    BY DEF Queued
  <2>1. CASE r # q
    BY <1>4, <1>6, <2>1 DEF Once
  <2>2. CASE r = q
    BY <1>4, <1>5, <1>6, <2>2 DEF Once
  <2> QED
    BY <2>1, <2>2
<1> QED
  BY <1>3, <1>7, <1>8 DEF d

LEMMA DequeueHolds ==
  ASSUME NEW s \in Sched, NEW q \in Queue, s.head[q] # NULL, NEW x, Holds(s, q, x)
  PROVE  /\ Holds(dequeue(s, q), q, Tail(x))
         /\ x # << >> /\ s.head[q] = x[1]
<1> DEFINE a == Tail(x)
           e == dequeue(s, q)
           n == s.size[q]
<1>1. /\ x \in Seq(Thread) /\ Len(x) = n /\ n \in Nat
      /\ n # 0 /\ s.head[q] = x[1] /\ s.tail[q] = x[n]
      /\ \A k \in 1 .. n - 1 : s.nxt[x[k]] = x[k + 1]
  BY HoldsFacts
<1>2. x # << >>
  BY <1>1, SeqFacts
<1>3. /\ a \in Seq(Thread) /\ Len(a) = n - 1
      /\ \A k \in 1 .. n - 1 : a[k] = x[k + 1]
  BY <1>1, <1>2, TailFacts
<1> HIDE DEF a
<1>4. CASE n = 1
  <2>1. e = [s EXCEPT !.head[q] = NULL, !.tail[q] = NULL, !.size[q] = 0]
    BY <1>4 DEF dequeue
  <2>2. e.head[q] = NULL /\ e.tail[q] = NULL /\ e.size[q] = 0
    BY <2>1 DEF Sched
  <2> HIDE DEF e
  <2>3. Holds(e, q, a)
    BY <1>3, <1>4, <2>2 DEF Holds
  <2> QED
    BY <1>1, <1>2, <2>3 DEF a, e
<1>5. CASE n # 1
  <2>1. e = [s EXCEPT !.head[q] = s.nxt[s.head[q]], !.size[q] = @ - 1]
    BY <1>5 DEF dequeue
  <2>2. /\ e.head[q] = s.nxt[x[1]] /\ e.tail[q] = s.tail[q] /\ e.size[q] = n - 1
        /\ e.nxt = s.nxt
    BY <1>1, <2>1 DEF Sched
  <2> HIDE DEF e
  <2>3. 1 \in 1 .. n - 1 /\ n - 1 \in 1 .. n - 1
    BY <1>1, <1>5
  <2>4. e.head[q] = a[1] /\ e.tail[q] = a[n - 1]
    <3>1. s.nxt[x[1]] = x[1 + 1] /\ a[1] = x[1 + 1] /\ a[n - 1] = x[n - 1 + 1]
      BY <1>1, <1>3, <2>3
    <3> QED
      BY <1>1, <2>2, <3>1
  <2>5. ASSUME NEW k \in 1 .. n - 1 - 1 PROVE e.nxt[a[k]] = a[k + 1]
    <3>1. k \in 1 .. n - 1 /\ k + 1 \in 1 .. n - 1
      BY <1>1
    <3>2. a[k] = x[k + 1] /\ a[k + 1] = x[k + 1 + 1] /\ s.nxt[x[k + 1]] = x[k + 1 + 1]
      BY <1>1, <1>3, <3>1
    <3> QED
      BY <2>2, <3>2
  <2>6. n - 1 # 0
    BY <1>1, <1>5
  <2> HIDE DEF n
  <2>7. Holds(e, q, a)
    BY <1>3, <2>2, <2>4, <2>5, <2>6 DEF Holds
  <2> QED
    BY <1>1, <1>2, <2>7 DEF a, e
<1> QED
  BY <1>4, <1>5

LEMMA DequeueLinked ==
  ASSUME NEW s \in Sched, NEW c \in [Queue -> Seq(Thread)], Linked(s, c),
         NEW q \in Queue, s.head[q] # NULL
  PROVE  /\ Linked(dequeue(s, q), Without(c, q))
         /\ c[q] # << >> /\ s.head[q] = c[q][1]
<1> DEFINE e == dequeue(s, q)
<1>1. \A r \in Queue : Holds(s, r, c[r])
  BY DEF Linked
<1>2. Holds(e, q, Tail(c[q])) /\ c[q] # << >> /\ s.head[q] = c[q][1]
  BY <1>1, DequeueHolds
<1>3. ASSUME NEW r \in Queue, r # q PROVE Holds(e, r, c[r])
  <2>1. e.nxt = s.nxt /\ e.head[r] = s.head[r] /\ e.tail[r] = s.tail[r] /\ e.size[r] = s.size[r]
    BY <1>3 DEF dequeue, Sched
  <2> HIDE DEF e
  <2> QED
    BY <1>1, <2>1 DEF Holds
<1>4. \A r \in Queue : Without(c, q)[r] = IF r = q THEN Tail(c[q]) ELSE c[r]
  BY DEF Without
<1> HIDE DEF e
<1>5. Linked(e, Without(c, q))
  BY <1>2, <1>3, <1>4 DEF Linked
<1> QED
  BY <1>2, <1>5 DEF e

-----------------------------------------------------------------------------
(* A thread is taken out of the queues, or put in.  In between, everything *)
(* is right but that it is in no queue.                                    *)

Rest(s, p, c, t) ==
  /\ c \in [Queue -> Seq(Thread)] /\ Linked(s, c) /\ Once(c) /\ Members(s, p, c)
  /\ ~ Queued(c, t)
  /\ \A u \in Thread \ {t} : InPlace(s, p, c, u)

\* What t itself is like is no matter then.
LEMMA RestIsRest ==
  ASSUME NEW s, NEW p, NEW c, NEW t, Rest(s, p, c, t), NEW z, NEW r, SameLinks(s, z),
         \A u \in Thread \ {t} :
           /\ z.state[u] = s.state[u] /\ z.priority[u] = s.priority[u]
           /\ z.time_ran[u] = s.time_ran[u] /\ r[u] = p[u]
  PROVE  Rest(z, r, c, t)
<1>1. Linked(z, c)
  BY SameLinksLinked DEF Rest
<1>2. \A q \in Queue : \A k \in 1 .. Len(c[q]) : c[q][k] \in Thread \ {t}
  BY SeqFacts DEF Rest, Queued
<1>3. Members(z, r, c)
  <2>1. ASSUME NEW i \in Level, NEW k \in 1 .. Len(c[i])
        PROVE  z.state[c[i][k]] = "READY" /\ z.priority[c[i][k]] = i
    BY <1>2, LevelsAreQueues DEF Rest, Members
  <2>2. ASSUME NEW m \in Mutex, NEW k \in 1 .. Len(c[m]) PROVE Waits(z, r, c[m][k])
    BY <1>2, LevelsAreQueues DEF Rest, Members, Waits
  <2> QED
    BY <2>1, <2>2 DEF Members
<1>4. \A u \in Thread \ {t} : InPlace(z, r, c, u)
  BY DEF Rest, InPlace, Waits
<1> QED
  BY <1>1, <1>3, <1>4 DEF Rest

\* It is in no queue, and need not be.
LEMMA RestHolds ==
  ASSUME NEW s, NEW p, NEW c, NEW t, Rest(s, p, c, t),
         s.state[t] # "READY", ~ Waits(s, p, t), p[t] = "lock_enqueue" => s.state[t] = "WAITING"
  PROVE  QueuesHold(s, p, c)
<1>1. InPlace(s, p, c, t)
  BY DEF InPlace
<1> QED
  BY <1>1 DEF Rest, QueuesHold

LEMMA HoldsRest ==
  ASSUME NEW s, NEW p, NEW c \in [Queue -> Seq(Thread)], QueuesHold(s, p, c), NEW t \in Thread,
         s.state[t] # "READY", ~ Waits(s, p, t)
  PROVE  Rest(s, p, c, t)
<1>1. ASSUME Queued(c, t) PROVE FALSE
  <2>1. PICK q \in Queue : \E k \in 1 .. Len(c[q]) : c[q][k] = t
    BY <1>1 DEF Queued
  <2> QED
    BY <2>1 DEF Queue, QueuesHold, Members
<1> QED
  BY <1>1 DEF QueuesHold, Rest

LEMMA QueuedWith ==
  ASSUME NEW c \in [Queue -> Seq(Thread)], NEW q \in Queue, NEW t \in Thread
  PROVE  /\ Queued(With(c, q, t), t)
         /\ \A u : Queued(c, u) => Queued(With(c, q, t), u)
         /\ \A r \in Queue : \A k \in 1 .. Len(With(c, q, t)[r]) :
              \/ k \in 1 .. Len(c[r]) /\ With(c, q, t)[r][k] = c[r][k]
              \/ r = q /\ With(c, q, t)[r][k] = t
<1> DEFINE a == Append(c[q], t)
           d == With(c, q, t)
<1>1. /\ a \in Seq(Thread) /\ Len(a) = Len(c[q]) + 1
      /\ \A k \in 1 .. Len(c[q]) : a[k] = c[q][k]
      /\ a[Len(c[q]) + 1] = t
  BY AppendFacts
<1>2. \A r \in Queue : Len(c[r]) \in Nat
  BY SeqFacts
<1>3. \A r \in Queue : d[r] = IF r = q THEN a ELSE c[r]
  BY DEF With
<1> HIDE DEF a, d
<1>4. Len(c[q]) + 1 \in 1 .. Len(d[q]) /\ d[q][Len(c[q]) + 1] = t
  BY <1>1, <1>2, <1>3
<1>5. \A r \in Queue : \A k \in 1 .. Len(c[r]) : k \in 1 .. Len(d[r]) /\ d[r][k] = c[r][k]
  BY <1>1, <1>2, <1>3
<1>6. ASSUME NEW r \in Queue, NEW k \in 1 .. Len(d[r])
      PROVE  \/ k \in 1 .. Len(c[r]) /\ d[r][k] = c[r][k]
             \/ r = q /\ d[r][k] = t
  <2>1. CASE r # q
    BY <1>3, <2>1
  <2>2. CASE r = q
    BY <1>1, <1>2, <1>3, <2>2
  <2> QED
    BY <2>1, <2>2
<1>7. Queued(d, t)
  BY <1>4 DEF Queued
<1>8. \A u : Queued(c, u) => Queued(d, u)
  BY <1>5 DEF Queued
<1> QED
  BY <1>6, <1>7, <1>8 DEF d

\* enqueue puts it where it belongs.
LEMMA EnqueueRest ==
  ASSUME NEW s \in Sched, NEW p, NEW c, NEW t \in Thread, Rest(s, p, c, t), NEW q \in Queue,
         q \in Level => s.state[t] = "READY" /\ s.priority[t] = q /\ s.time_ran[t] = 0,
         q \in Mutex => Waits(s, p, t),
         p[t] # "lock_enqueue"
  PROVE  /\ QueuesHold(enqueue(s, q, t), p, With(c, q, t))
         /\ With(c, q, t) \in [Queue -> Seq(Thread)]
<1> DEFINE e == enqueue(s, q, t)
           d == With(c, q, t)
<1>1. /\ c \in [Queue -> Seq(Thread)] /\ Linked(s, c) /\ Once(c) /\ Members(s, p, c)
      /\ ~ Queued(c, t) /\ Counted(s)
      /\ \A u \in Thread \ {t} : InPlace(s, p, c, u)
  BY LinkedCounts DEF Rest
<1>2. Linked(e, d)
  BY <1>1, EnqueueLinked
<1>3. d \in [Queue -> Seq(Thread)] /\ Once(d)
  BY <1>1, WithOnce
<1>4. e.state = s.state /\ e.priority = s.priority /\ e.time_ran = s.time_ran
  BY <1>1, EnqueueTypes
<1>5. /\ Queued(d, t)
      /\ \A u : Queued(c, u) => Queued(d, u)
      /\ \A r \in Queue : \A k \in 1 .. Len(d[r]) :
           \/ k \in 1 .. Len(c[r]) /\ d[r][k] = c[r][k]
           \/ r = q /\ d[r][k] = t
  BY <1>1, QueuedWith
<1> HIDE DEF d, e
<1>6. Members(e, p, d)
  <2>1. ASSUME NEW i \in Level, NEW k \in 1 .. Len(d[i])
        PROVE  e.state[d[i][k]] = "READY" /\ e.priority[d[i][k]] = i
    <3>1. i \in Queue
      BY LevelsAreQueues
    <3>2. CASE k \in 1 .. Len(c[i]) /\ d[i][k] = c[i][k]
      BY <1>1, <1>4, <3>2 DEF Members
    <3>3. CASE i = q /\ d[i][k] = t
      BY <1>4, <3>3
    <3> QED
      BY <1>5, <3>1, <3>2, <3>3
  <2>2. ASSUME NEW m \in Mutex, NEW k \in 1 .. Len(d[m]) PROVE Waits(e, p, d[m][k])
    <3>1. m \in Queue
      BY LevelsAreQueues
    <3>2. CASE k \in 1 .. Len(c[m]) /\ d[m][k] = c[m][k]
      BY <1>1, <1>4, <3>2 DEF Members, Waits
    <3>3. CASE m = q /\ d[m][k] = t
      BY <1>4, <3>3 DEF Waits
    <3> QED
      BY <1>5, <3>1, <3>2, <3>3
  <2> QED
    BY <2>1, <2>2 DEF Members
<1>7. ASSUME NEW u \in Thread PROVE InPlace(e, p, d, u)
  <2>1. CASE u = t
    <3>1. s.state[t] = "READY" => s.time_ran[t] = 0
      BY DEF Queue, Waits
    <3> QED
      BY <1>4, <1>5, <2>1, <3>1 DEF InPlace
  <2>2. CASE u # t
    BY <1>1, <1>4, <1>5, <2>2 DEF InPlace, Waits
  <2> QED
    BY <2>1, <2>2
<1> QED
  BY <1>2, <1>3, <1>6, <1>7 DEF QueuesHold, d, e

\* add_mypthread_sched.
LEMMA AddRest ==
  ASSUME NEW s \in Sched, NEW p, NEW c, NEW t \in Thread, Rest(s, p, c, t),
         NEW i \in Level, p[t] # "lock_enqueue"
  PROVE  /\ QueuesHold(add_mypthread_sched(s, t, i), p, With(c, i, t))
         /\ With(c, i, t) \in [Queue -> Seq(Thread)]
<1> DEFINE r == [s EXCEPT !.state[t] = "READY", !.priority[t] = i, !.time_ran[t] = 0]
<1>1. /\ SameLinks(s, r) /\ r \in Sched
      /\ r.state[t] = "READY" /\ r.priority[t] = i /\ r.time_ran[t] = 0
      /\ \A u \in Thread \ {t} :
           /\ r.state[u] = s.state[u] /\ r.priority[u] = s.priority[u]
           /\ r.time_ran[u] = s.time_ran[u]
  BY DEF SameLinks, Sched, State
<1>2. add_mypthread_sched(s, t, i) = enqueue(r, i, t)
  BY DEF add_mypthread_sched
<1> HIDE DEF r
<1>3. Rest(r, p, c, t)
  BY <1>1, RestIsRest
<1>4. i \in Queue /\ i \notin Mutex
  BY LevelsAreQueues, ThreadAssumption, LevelsAssumption DEF Level
<1> QED
  BY <1>1, <1>2, <1>3, <1>4, EnqueueRest

\* dequeue takes out the head.
LEMMA DequeueRest ==
  ASSUME NEW s \in Sched, NEW p, NEW c \in [Queue -> Seq(Thread)], QueuesHold(s, p, c),
         NEW q \in Queue, s.head[q] # NULL
  PROVE  /\ Rest(dequeue(s, q), p, Without(c, q), s.head[q])
         /\ s.head[q] \in Thread /\ dequeue(s, q) \in Sched
         /\ dequeue(s, q).state = s.state
         /\ dequeue(s, q).priority = s.priority
         /\ dequeue(s, q).time_ran = s.time_ran
         /\ q \in Level => /\ s.state[s.head[q]] = "READY" /\ s.priority[s.head[q]] = q
                           /\ s.time_ran[s.head[q]] = 0
         /\ q \in Mutex => Waits(s, p, s.head[q])
<1> DEFINE e == dequeue(s, q)
           d == Without(c, q)
           x == s.head[q]
           a == Tail(c[q])
<1>1. Linked(s, c) /\ Once(c) /\ Members(s, p, c) /\ Counted(s)
  BY LinkedCounts DEF QueuesHold
<1>2. Linked(e, d) /\ c[q] # << >> /\ x = c[q][1]
  BY <1>1, DequeueLinked
<1>3. d \in [Queue -> Seq(Thread)] /\ Once(d) /\ ~ Queued(d, x)
  BY <1>1, <1>2, WithoutOnce
<1>4. e \in Sched /\ e.state = s.state /\ e.priority = s.priority /\ e.time_ran = s.time_ran
  BY <1>1, DequeueTypes
<1>5. \A r \in Queue : d[r] = IF r = q THEN a ELSE c[r]
  BY DEF Without
<1>6. /\ Len(a) = Len(c[q]) - 1 /\ Len(c[q]) \in Nat /\ 1 \in 1 .. Len(c[q])
      /\ \A k \in 1 .. Len(c[q]) - 1 : a[k] = c[q][k + 1]
      /\ x \in Thread
  BY <1>2, TailFacts, SeqFacts
<1> HIDE DEF a, d, e
<1>7. ASSUME NEW r \in Queue, NEW k \in 1 .. Len(d[r])
      PROVE  \E j \in 1 .. Len(c[r]) : d[r][k] = c[r][j]
  <2>1. CASE r # q
    BY <1>5, <2>1
  <2>2. CASE r = q
    <3>1. k + 1 \in 1 .. Len(c[r]) /\ d[r][k] = c[r][k + 1]
      BY <1>5, <1>6, <2>2
    <3> QED
      BY <3>1
  <2> QED
    BY <2>1, <2>2
<1>8. Members(e, p, d)
  <2>1. ASSUME NEW i \in Level, NEW k \in 1 .. Len(d[i])
        PROVE  e.state[d[i][k]] = "READY" /\ e.priority[d[i][k]] = i
    <3>1. PICK j \in 1 .. Len(c[i]) : d[i][k] = c[i][j]
      BY <1>7, LevelsAreQueues
    <3>2. s.state[c[i][j]] = "READY" /\ s.priority[c[i][j]] = i
      BY <1>1 DEF Members
    <3> QED
      BY <1>4, <3>1, <3>2
  <2>2. ASSUME NEW m \in Mutex, NEW k \in 1 .. Len(d[m]) PROVE Waits(e, p, d[m][k])
    <3>1. PICK j \in 1 .. Len(c[m]) : d[m][k] = c[m][j]
      BY <1>7, LevelsAreQueues
    <3> QED
      BY <1>1, <1>4, <3>1 DEF Members, Waits
  <2> QED
    BY <2>1, <2>2 DEF Members
<1>9. ASSUME NEW u \in Thread, u # x, Queued(c, u) PROVE Queued(d, u)
  <2>1. PICK r \in Queue : \E k \in 1 .. Len(c[r]) : c[r][k] = u
    BY <1>9 DEF Queued
  <2>2. PICK k \in 1 .. Len(c[r]) : c[r][k] = u
    BY <2>1
  <2>3. CASE r # q
    BY <1>5, <2>2, <2>3 DEF Queued
  <2>4. CASE r = q
    <3>1. k # 1
      BY <1>2, <1>9, <2>2, <2>4
    <3>2. k - 1 \in 1 .. Len(c[q]) - 1 /\ k - 1 + 1 = k
      BY <1>6, <2>4, <3>1
    <3>3. k - 1 \in 1 .. Len(d[q]) /\ d[q][k - 1] = u
      BY <1>5, <1>6, <2>2, <2>4, <3>2
    <3> QED
      BY <3>3 DEF Queued
  <2> QED
    BY <2>3, <2>4
<1>10. \A u \in Thread \ {x} : InPlace(e, p, d, u)
  BY <1>4, <1>9 DEF QueuesHold, InPlace, Waits
<1>11. Rest(e, p, d, x)
  BY <1>2, <1>3, <1>8, <1>10 DEF Rest
<1>12. /\ q \in Level => s.state[x] = "READY" /\ s.priority[x] = q
       /\ q \in Mutex => Waits(s, p, x)
  BY <1>1, <1>2, <1>6 DEF Members
<1>13. q \in Level => s.time_ran[x] = 0
  BY <1>6, <1>12 DEF QueuesHold, InPlace
<1> QED
  BY <1>4, <1>6, <1>11, <1>12, <1>13 DEF d, e

-----------------------------------------------------------------------------
(* The pass (105-160). *)

LEMMA HighestIs ==
  ASSUME NEW s, Served(s) # {}
  PROVE  /\ Highest(Served(s)) \in Level
         /\ s.head[Highest(Served(s))] # NULL
         /\ \A j \in Served(s) : Highest(Served(s)) <= j
<1>1. Served(s) \in SUBSET Nat
  BY LevelsAssumption DEF Served, Level
<1>2. \E i \in Served(s) : \A j \in Served(s) : i <= j
  BY <1>1, Least
<1>3. Highest(Served(s)) \in Served(s) /\ \A j \in Served(s) : Highest(Served(s)) <= j
  BY <1>2 DEF Highest
<1> QED
  BY <1>3 DEF Served

LEMMA ChoiceTypes ==
  ASSUME NEW s \in Sched, Counted(s)
  PROVE  /\ Choice(s).sched \in Sched /\ Counted(Choice(s).sched)
         /\ Choice(s).thread \in Pointer
<1>1. CASE Served(s) = {}
  BY <1>1 DEF Choice, Pointer
<1>2. CASE Served(s) # {}
  <2> DEFINE i == Highest(Served(s))
             d == dequeue(s, i)
             x == s.head[i]
             n == [d EXCEPT !.state[x] = "RUNNING"]
  <2>1. Choice(s) = [sched |-> n, thread |-> x]
    BY <1>2 DEF Choice
  <2>2. i \in Queue /\ x # NULL
    BY <1>2, HighestIs, LevelsAreQueues
  <2>3. x \in Thread
    BY <2>2 DEF Sched, Pointer
  <2> HIDE DEF i
  <2>4. d \in Sched /\ Counted(d)
    BY <2>2, DequeueTypes
  <2> HIDE DEF d
  <2>5. n \in Sched
    <3>1. [d.state EXCEPT ![x] = "RUNNING"] \in [Thread -> State]
      BY <2>4 DEF Sched, State
    <3> QED
      BY <2>4, <3>1 DEF Sched
  <2>6. Counted(n)
    BY <2>4 DEF Counted, Sched
  <2> QED
    BY <2>1, <2>3, <2>5, <2>6 DEF Pointer
<1> QED
  BY <1>1, <1>2

LEMMA ChargedIs ==
  ASSUME NEW s \in Sched, NEW t \in Thread
  PROVE  /\ Charged(s, t) \in Sched /\ SameLinks(s, Charged(s, t))
         /\ Charged(s, t).state = s.state /\ Charged(s, t).priority = s.priority
         /\ \A u \in Thread : u # t => Charged(s, t).time_ran[u] = s.time_ran[u]
<1>1. Charged(s, t) = [s EXCEPT !.time_ran[t] = @ + 1]
  BY DEF Charged
<1>2. [s.time_ran EXCEPT ![t] = @ + 1] \in [Thread -> Nat]
  BY DEF Sched
<1> QED
  BY <1>1, <1>2 DEF Sched, SameLinks

LEMMA DemotedIs == \A p \in Level : Demoted(p) \in Level
  BY LevelsAssumption DEF Demoted, Level

\* Where a thread that must leave goes.
LEMMA RequeuedIs ==
  ASSUME NEW s \in Sched, NEW t \in Thread
  PROVE  \/ s.state[t] \in {"TERMINATED", "WAITING"} /\ Requeued(s, t) = s
         \/ /\ s.state[t] \notin {"TERMINATED", "WAITING"}
            /\ \E i \in Level : Requeued(s, t) = add_mypthread_sched(s, t, i)
<1>1. s.priority[t] \in Level /\ Demoted(s.priority[t]) \in Level
  BY DemotedIs DEF Sched
<1>2. CASE s.state[t] \in {"TERMINATED", "WAITING"}
  BY <1>2 DEF Requeued
<1>3. CASE s.state[t] = "YIELD"
  BY <1>1, <1>3 DEF Requeued
<1>4. CASE s.state[t] \notin {"TERMINATED", "WAITING", "YIELD"}
  BY <1>1, <1>4 DEF Requeued
<1> QED
  BY <1>2, <1>3, <1>4

LEMMA ScheduledTypes ==
  ASSUME NEW s \in Sched, Counted(s), NEW t \in Pointer
  PROVE  /\ Scheduled(s, t).sched \in Sched /\ Counted(Scheduled(s, t).sched)
         /\ Scheduled(s, t).thread \in Pointer
<1>1. CASE t = NULL
  BY <1>1, ChoiceTypes DEF Scheduled
<1>2. CASE t # NULL
  <2> DEFINE z == Charged(s, t)
  <2>1. t \in Thread
    BY <1>2 DEF Pointer
  <2>2. z \in Sched /\ Counted(z)
    BY <2>1, ChargedIs DEF SameLinks, Counted
  <2>3. Scheduled(s, t) = IF Stays(z, t) THEN [sched |-> z, thread |-> t] ELSE Choice(Requeued(z, t))
    BY <1>2 DEF Scheduled
  <2> HIDE DEF z
  <2>4. Requeued(z, t) \in Sched /\ Counted(Requeued(z, t))
    <3>1. CASE Requeued(z, t) = z
      BY <2>2, <3>1
    <3>2. ASSUME NEW i \in Level, Requeued(z, t) = add_mypthread_sched(z, t, i)
          PROVE  Requeued(z, t) \in Sched /\ Counted(Requeued(z, t))
      <4>1. add_mypthread_sched(z, t, i) \in Sched /\ Counted(add_mypthread_sched(z, t, i))
        BY <2>1, <2>2, AddTypes
      <4> QED
        BY <3>2, <4>1
    <3> QED
      BY <2>1, <2>2, <3>1, <3>2, RequeuedIs
  <2>5. CASE Stays(z, t)
    BY <2>2, <2>3, <2>5
  <2>6. CASE ~ Stays(z, t)
    BY <2>3, <2>4, <2>6, ChoiceTypes
  <2> QED
    BY <2>5, <2>6
<1> QED
  BY <1>1, <1>2

\* A ready thread is on its level.
LEMMA ReadyIsServed ==
  ASSUME NEW s \in Sched, NEW p, NEW c, QueuesHold(s, p, c),
         NEW u \in Thread, s.state[u] = "READY"
  PROVE  s.priority[u] \in Served(s)
<1>1. Queued(c, u)
  BY DEF QueuesHold, InPlace
<1>2. PICK q \in Queue : \E k \in 1 .. Len(c[q]) : c[q][k] = u
  BY <1>1 DEF Queued
<1>3. PICK k \in 1 .. Len(c[q]) : c[q][k] = u
  BY <1>2
<1>4. q \in Level /\ s.priority[u] = q
  BY <1>3 DEF Queue, QueuesHold, Members, Waits
<1>5. Holds(s, q, c[q])
  BY DEF QueuesHold, Linked
<1>6. s.size[q] # 0
  BY <1>3, <1>5, HoldsFacts
<1>7. s.head[q] \in Thread
  BY <1>5, <1>6, HoldsFacts
<1> QED
  BY <1>4, <1>7, ThreadAssumption DEF Served

\* Nobody is ready, or the first of the highest level runs.
LEMMA ChoiceHolds ==
  ASSUME NEW s \in Sched, NEW p, NEW c \in [Queue -> Seq(Thread)], QueuesHold(s, p, c)
  PROVE  \/ /\ Choice(s) = [sched |-> s, thread |-> NULL]
            /\ \A u \in Thread : s.state[u] # "READY"
         \/ \E i \in Level :
              /\ c[i] # << >>
              /\ Choice(s).thread = c[i][1] /\ c[i][1] \in Thread
              /\ QueuesHold(Choice(s).sched, p, Without(c, i))
              /\ Choice(s).sched.state[c[i][1]] = "RUNNING"
              /\ Choice(s).sched.time_ran[c[i][1]] <= Choice(s).sched.priority[c[i][1]]
              /\ \A u \in Thread : Choice(s).sched.state[u] = "READY" =>
                   Choice(s).sched.priority[c[i][1]] <= Choice(s).sched.priority[u]
<1>1. CASE Served(s) = {}
  BY <1>1, ReadyIsServed DEF Choice
<1>2. CASE Served(s) # {}
  <2> DEFINE i == Highest(Served(s))
             d == dequeue(s, i)
             x == s.head[i]
             n == [d EXCEPT !.state[x] = "RUNNING"]
  <2>1. Choice(s).sched = n /\ Choice(s).thread = x
    BY <1>2 DEF Choice
  <2>2. i \in Level /\ i \in Queue /\ x # NULL /\ \A j \in Served(s) : i <= j
    BY <1>2, HighestIs, LevelsAreQueues
  <2> HIDE DEF i
  <2>3. /\ Rest(d, p, Without(c, i), x) /\ x \in Thread /\ d \in Sched
        /\ d.state = s.state /\ d.priority = s.priority /\ d.time_ran = s.time_ran
        /\ s.state[x] = "READY" /\ s.priority[x] = i /\ s.time_ran[x] = 0
    BY <2>2, DequeueRest
  <2>4. Holds(s, i, c[i])
    BY <2>2 DEF QueuesHold, Linked
  <2>5. c[i] # << >> /\ x = c[i][1]
    BY <2>2, <2>4, DequeueHolds
  <2> HIDE DEF d
  <2>6. /\ SameLinks(d, n) /\ n.priority = s.priority /\ n.time_ran = s.time_ran
        /\ n.state[x] = "RUNNING" /\ \A u \in Thread \ {x} : n.state[u] = s.state[u]
    BY <2>3 DEF Sched, SameLinks
  <2>7. p[x] # "lock_enqueue"
    BY <2>3 DEF QueuesHold, InPlace
  <2> HIDE DEF n
  <2>8. Rest(n, p, Without(c, i), x)
    BY <2>3, <2>6, RestIsRest
  <2>9. QueuesHold(n, p, Without(c, i))
    BY <2>6, <2>7, <2>8, RestHolds DEF Waits
  <2>10. n.time_ran[x] <= n.priority[x]
    BY <2>2, <2>3, <2>6 DEF Level
  <2>11. ASSUME NEW u \in Thread, n.state[u] = "READY" PROVE n.priority[x] <= n.priority[u]
    <3>1. s.state[u] = "READY"
      BY <2>6, <2>11
    <3>2. s.priority[u] \in Served(s)
      BY <3>1, ReadyIsServed
    <3> QED
      BY <2>2, <2>3, <2>6, <3>2
  <2> HIDE DEF x
  <2> QED
    BY <2>1, <2>2, <2>3, <2>5, <2>6, <2>9, <2>10, <2>11
<1> QED
  BY <1>1, <1>2

LEMMA ChargedHolds ==
  ASSUME NEW s \in Sched, NEW p, NEW c \in [Queue -> Seq(Thread)], QueuesHold(s, p, c),
         NEW t \in Thread, s.state[t] # "READY"
  PROVE  QueuesHold(Charged(s, t), p, c)
<1> DEFINE z == Charged(s, t)
<1>1. /\ SameLinks(s, z) /\ z.state = s.state /\ z.priority = s.priority
      /\ \A u \in Thread : u # t => z.time_ran[u] = s.time_ran[u]
  BY ChargedIs
<1> HIDE DEF z
<1>2. Linked(z, c)
  BY <1>1, SameLinksLinked DEF QueuesHold
<1>3. Members(z, p, c)
  BY <1>1 DEF QueuesHold, Members, Waits
<1>4. \A u \in Thread : InPlace(z, p, c, u)
  BY <1>1 DEF QueuesHold, InPlace, Waits
<1>5. QueuesHold(z, p, c)
  BY <1>2, <1>3, <1>4 DEF QueuesHold
<1> QED
  BY <1>5 DEF z

-----------------------------------------------------------------------------
(* First in, first out. *)

\* What a step may do to a level, u being the thread it adds if it adds one.
FifoStep(c, d, u) ==
  \A q \in Level :
    d[q] \in {c[q], Append(c[q], u)} \cup
               (IF c[q] = << >> THEN {} ELSE {Tail(c[q]), Append(Tail(c[q]), u)})

LEMMA FifoWith ==
  ASSUME NEW c \in [Queue -> Seq(Thread)], NEW q \in Queue, NEW u \in Thread
  PROVE  FifoStep(c, With(c, q, u), u)
  BY LevelsAreQueues DEF FifoStep, With

LEMMA FifoWithout ==
  ASSUME NEW c \in [Queue -> Seq(Thread)], NEW q \in Queue, c[q] # << >>, NEW u
  PROVE  FifoStep(c, Without(c, q), u)
  BY LevelsAreQueues DEF FifoStep, Without

LEMMA TailAppend ==
  ASSUME NEW x \in Seq(Thread), NEW u \in Thread
  PROVE  Tail(Append(x, u)) = IF x = << >> THEN << >> ELSE Append(Tail(x), u)
  OBVIOUS

LEMMA FifoWithWithout ==
  ASSUME NEW c \in [Queue -> Seq(Thread)], NEW q \in Queue, NEW u \in Thread,
         NEW r \in Queue, With(c, q, u)[r] # << >>
  PROVE  FifoStep(c, Without(With(c, q, u), r), u)
<1> DEFINE e == With(c, q, u)
           d == Without(e, r)
<1>1. \A i \in Queue : e[i] = IF i = q THEN Append(c[q], u) ELSE c[i]
  BY DEF With
<1>2. \A i \in Queue : d[i] = IF i = r THEN Tail(e[r]) ELSE e[i]
  BY DEF Without, With
<1>3. e[r] # << >>
  OBVIOUS
<1> HIDE DEF d, e
<1>4. ASSUME NEW i \in Queue
      PROVE  d[i] \in {c[i], Append(c[i], u)} \cup
               (IF c[i] = << >> THEN {} ELSE {Tail(c[i]), Append(Tail(c[i]), u)})
  <2>1. CASE i # r
    BY <1>1, <1>2, <2>1
  <2>2. CASE i = r /\ i # q
    BY <1>1, <1>2, <1>3, <2>2
  <2>3. CASE i = r /\ i = q
    <3>1. d[i] = Tail(Append(c[i], u))
      BY <1>1, <1>2, <2>3
    <3>2. c[i] \in Seq(Thread)
      OBVIOUS
    <3>3. d[i] = IF c[i] = << >> THEN << >> ELSE Append(Tail(c[i]), u)
      BY <3>1, <3>2, TailAppend
    <3> QED
      BY <3>3
  <2> QED
    BY <2>1, <2>2, <2>3
<1>5. FifoStep(c, d, u)
  BY <1>4, LevelsAreQueues DEF FifoStep
<1> QED
  BY <1>5 DEF d, e

-----------------------------------------------------------------------------
(* What a pass leaves, where the queues held c and t was running. *)

Passed(n, t, p, c, d, u) ==
  /\ d \in [Queue -> Seq(Thread)] /\ QueuesHold(n.sched, p, d) /\ FifoStep(c, d, u)
  /\ n.thread # NULL =>
       /\ n.sched.state[n.thread] \notin {"READY", "WAITING"}
       /\ n.sched.time_ran[n.thread] <= n.sched.priority[n.thread]
  /\ n.thread # t =>
       \A v \in Thread : n.sched.state[v] = "READY" =>
         n.thread # NULL /\ n.sched.priority[n.thread] <= n.sched.priority[v]

\* From c to e, and then a choice.
LEMMA ChoicePassed ==
  ASSUME NEW s \in Sched, NEW p, NEW c, NEW e \in [Queue -> Seq(Thread)],
         QueuesHold(s, p, e), NEW t, NEW u, FifoStep(c, e, u),
         \A i \in Level : e[i] # << >> => FifoStep(c, Without(e, i), u)
  PROVE  \E d : Passed(Choice(s), t, p, c, d, u)
<1> DEFINE n == Choice(s)
<1>1. CASE Choice(s) = [sched |-> s, thread |-> NULL] /\ \A v \in Thread : s.state[v] # "READY"
  <2>1. Passed(n, t, p, c, e, u)
    BY <1>1 DEF Passed
  <2> QED
    BY <2>1
<1>2. ASSUME NEW i \in Level,
             /\ e[i] # << >>
             /\ n.thread = e[i][1] /\ e[i][1] \in Thread
             /\ QueuesHold(n.sched, p, Without(e, i))
             /\ n.sched.state[e[i][1]] = "RUNNING"
             /\ n.sched.time_ran[e[i][1]] <= n.sched.priority[e[i][1]]
             /\ \A v \in Thread : n.sched.state[v] = "READY" =>
                  n.sched.priority[e[i][1]] <= n.sched.priority[v]
      PROVE  \E d : Passed(Choice(s), t, p, c, d, u)
  <2>1. i \in Queue /\ Once(e)
    BY LevelsAreQueues DEF QueuesHold
  <2>2. Without(e, i) \in [Queue -> Seq(Thread)]
    BY <1>2, <2>1, WithoutOnce
  <2> HIDE DEF n
  <2>3. Passed(n, t, p, c, Without(e, i), u)
    BY <1>2, <2>2, ThreadAssumption DEF Passed
  <2> QED
    BY <2>3 DEF n
<1> QED
  BY <1>1, <1>2, ChoiceHolds

LEMMA ScheduledPassed ==
  ASSUME NEW s \in Sched, NEW p, NEW c \in [Queue -> Seq(Thread)], QueuesHold(s, p, c),
         NEW t \in Thread, Runs(s, p, t)
  PROVE  \E d : Passed(Scheduled(s, t), t, p, c, d, t)
<1> DEFINE z == Charged(s, t)
           n == Scheduled(s, t)
<1>1. /\ z \in Sched /\ z.state = s.state
      /\ QueuesHold(z, p, c) /\ z.state[t] # "READY"
  BY ChargedIs, ChargedHolds DEF Runs
<1>2. n = IF Stays(z, t) THEN [sched |-> z, thread |-> t] ELSE Choice(Requeued(z, t))
  BY ThreadAssumption DEF Scheduled
<1> HIDE DEF z, n
<1>3. FifoStep(c, c, t) /\ \A i \in Level : c[i] # << >> => FifoStep(c, Without(c, i), t)
  BY FifoWithout, LevelsAreQueues DEF FifoStep
<1>4. CASE Stays(z, t)
  <2>1. z.time_ran[t] <= z.priority[t] /\ z.state[t] # "WAITING"
    BY <1>1, <1>4 DEF Stays, Expired, Sched, Level
  <2>2. n.sched = z /\ n.thread = t
    BY <1>2, <1>4
  <2>3. Passed(n, t, p, c, c, t)
    BY <1>1, <1>3, <2>1, <2>2 DEF Passed
  <2> QED
    BY <2>3 DEF n
<1>5. CASE ~ Stays(z, t) /\ z.state[t] \in {"TERMINATED", "WAITING"}
  <2>1. n = Choice(z)
    BY <1>1, <1>2, <1>5, RequeuedIs
  <2> QED
    BY <1>1, <1>3, <2>1, ChoicePassed DEF n
<1>6. CASE ~ Stays(z, t) /\ z.state[t] \notin {"TERMINATED", "WAITING"}
  <2>1. PICK i \in Level : Requeued(z, t) = add_mypthread_sched(z, t, i)
    BY <1>1, <1>6, RequeuedIs
  <2> DEFINE a == add_mypthread_sched(z, t, i)
  <2>2. p[t] # "lock_enqueue" /\ ~ Waits(z, p, t)
    BY <1>1, <1>6 DEF QueuesHold, InPlace, Waits
  <2>3. Rest(z, p, c, t)
    BY <1>1, <2>2, HoldsRest
  <2>4. QueuesHold(a, p, With(c, i, t)) /\ With(c, i, t) \in [Queue -> Seq(Thread)]
    BY <1>1, <2>2, <2>3, AddRest
  <2>5. a \in Sched
    BY <1>1, LinkedCounts, AddTypes DEF QueuesHold
  <2>6. FifoStep(c, With(c, i, t), t)
    BY FifoWith, LevelsAreQueues
  <2>7. \A j \in Level : With(c, i, t)[j] # << >> => FifoStep(c, Without(With(c, i, t), j), t)
    BY FifoWithWithout, LevelsAreQueues
  <2>8. n = Choice(a)
    BY <1>2, <1>6, <2>1
  <2> HIDE DEF a
  <2> QED
    BY <2>4, <2>5, <2>6, <2>7, <2>8, ChoicePassed DEF n
<1> QED
  BY <1>4, <1>5, <1>6

-----------------------------------------------------------------------------
(* The types, whatever aging does and wherever the alarm strikes. *)

LEMMA AfterAgingKeeps ==
  ASSUME TypeOK
  PROVE  /\ AfterAging.sched \in Sched /\ Counted(AfterAging.sched)
         /\ AfterAging.moved \in BOOLEAN
         /\ ~ AfterAging.moved => AfterAging.sched = sched
<1>1. sched \in Sched /\ Counted(sched)
  BY DEF TypeOK
<1>2. CASE AgingDue
  BY <1>1, <1>2, AgedKeeps DEF AfterAging, Left
<1>3. CASE ~ AgingDue
  BY <1>1, <1>3 DEF AfterAging
<1> QED
  BY <1>2, <1>3

\* schedule_handler, taken apart.
LEMMA HandlerIs ==
  ASSUME schedule_handler
  PROVE  /\ check_flag' = IF AgingDue THEN 0 ELSE check_flag + 1
         /\ agings' = IF AfterAging.moved THEN agings + 1 ELSE agings
         /\ agings' <= MaxAgings
         /\ Dispatch(Scheduled(AfterAging.sched, thread_curr))
  BY DEF schedule_handler

LEMMA HandlerTypes ==
  ASSUME TypeOK, schedule_handler
  PROVE  /\ sched' \in Sched /\ Counted(sched') /\ thread_curr' \in Pointer
         /\ check_flag' \in 0 .. CHECK_FRQ /\ agings' \in 0 .. MaxAgings
         /\ age' \in [Thread -> 0 .. AGE_THRSHLD] /\ process' \in {"up", "idle"}
<1> DEFINE n == Scheduled(AfterAging.sched, thread_curr)
<1>1. thread_curr \in Pointer
  BY DEF TypeOK
<1>2. n.sched \in Sched /\ Counted(n.sched) /\ n.thread \in Pointer
  BY <1>1, AfterAgingKeeps, ScheduledTypes
<1>3. /\ sched' = n.sched /\ thread_curr' = n.thread
      /\ age' = IF n.thread = NULL THEN age ELSE [age EXCEPT ![n.thread] = 0]
      /\ process' = IF n.thread = NULL /\ thread_curr # NULL THEN "idle" ELSE "up"
  BY HandlerIs DEF Dispatch
<1> HIDE DEF n
<1>4. check_flag' \in 0 .. CHECK_FRQ
  BY HandlerIs, LevelsAssumption DEF TypeOK, AgingDue
<1>5. agings' \in 0 .. MaxAgings
  BY HandlerIs, LevelsAssumption DEF TypeOK
<1>6. age' \in [Thread -> 0 .. AGE_THRSHLD]
  <2>1. 0 \in 0 .. AGE_THRSHLD
    BY LevelsAssumption
  <2> QED
    BY <1>3, <2>1 DEF TypeOK
<1> QED
  BY <1>2, <1>3, <1>4, <1>5, <1>6

LEMMA TypesInit == Init => TypeOK
<1> SUFFICES ASSUME Init PROVE TypeOK
  OBVIOUS
<1>1. create_queues \in Sched
  BY LevelsAssumption DEF create_queues, Sched, Pointer, State, Level
<1>2. Counted(create_queues)
  BY DEF create_queues, Counted
<1>3. age \in [Thread -> 0 .. AGE_THRSHLD] /\ check_flag \in 0 .. CHECK_FRQ /\ agings \in 0 .. MaxAgings
  BY LevelsAssumption DEF Init
<1>4. LockTypes
  BY LockInvInit DEF LockInv
<1> QED
  BY <1>1, <1>2, <1>3, <1>4 DEF Init, TypeOK, LockTypes, Pointer

\* What TypeOK says that LockInv does not.
LEMMA TypesAre ==
  ASSUME TypeOK
  PROVE  /\ sched \in Sched /\ Counted(sched)
         /\ thread_curr \in Pointer /\ target \in [Thread -> Pointer]
  BY DEF TypeOK

LEMMA SetStateTypes ==
  ASSUME TypeOK, NEW t \in Thread, NEW st \in State, SetState(t, st)
  PROVE  /\ sched' \in Sched /\ Counted(sched') /\ SameLinks(sched, sched')
         /\ sched'.priority = sched.priority /\ sched'.time_ran = sched.time_ran
         /\ sched'.state[t] = st
         /\ \A u \in Thread \ {t} : sched'.state[u] = sched.state[u]
<1>1. sched \in Sched /\ Counted(sched) /\ sched' = [sched EXCEPT !.state[t] = st]
  BY TypesAre DEF SetState
<1>2. [sched.state EXCEPT ![t] = st] \in [Thread -> State]
  BY <1>1 DEF Sched
<1> QED
  BY <1>1, <1>2 DEF Sched, Counted, SameLinks

LEMMA UnlockTypes ==
  ASSUME TypeOK, NEW t \in Thread, NEW m \in Mutex, Unlock(t, m)
  PROVE  sched' \in Sched /\ Counted(sched')
<1> DEFINE x == sched.head[m]
           d == dequeue(sched, m)
<1>1. sched \in Sched /\ Counted(sched) /\ m \in Queue /\ x \in Pointer
  BY TypesAre, LevelsAreQueues DEF Sched
<1>2. CASE x = NULL
  BY <1>1, <1>2 DEF Unlock
<1>3. CASE x # NULL
  <2>1. x \in Thread /\ sched.priority[x] \in Level
    BY <1>1, <1>3 DEF Pointer, Sched
  <2>2. d \in Sched /\ Counted(d)
    BY <1>1, <1>3, DequeueTypes
  <2>3. sched' = add_mypthread_sched(d, x, sched.priority[x])
    BY <1>3 DEF Unlock
  <2> HIDE DEF d, x
  <2>4. add_mypthread_sched(d, x, sched.priority[x]) \in Sched
        /\ Counted(add_mypthread_sched(d, x, sched.priority[x]))
    BY <2>1, <2>2, AddTypes
  <2> QED
    BY <2>3, <2>4
<1> QED
  BY <1>2, <1>3

\* Of a step that is no pass, what remains to show.
LEMMA TypesKept ==
  ASSUME TypeOK, LockInv', sched' \in Sched, Counted(sched'),
         UNCHANGED << check_flag, age, thread_curr, agings >>,
         target' \in [Thread -> Pointer],
         process' \in {"up", "exited", "idle", "hung"}
  PROVE  TypeOK'
  BY DEF TypeOK, LockInv, LockTypes

LEMMA TypesStep ==
  ASSUME TypeOK, LockInv, LockInv', [Next]_vars
  PROVE  TypeOK'
<1> USE TypesAre
<1>1. CASE UNCHANGED vars
  BY <1>1 DEF vars, TypeOK
<1>2. ASSUME schedule_handler, UNCHANGED target PROVE TypeOK'
  BY <1>2, HandlerTypes DEF TypeOK, LockInv, LockTypes
<1>3. CASE Alarm
  BY <1>2, <1>3 DEF Alarm, call_vars
<1>4. CASE Hang \/ MainExits
  BY <1>4, TypesKept DEF Hang, MainExits, call_vars
<1>5. CASE Tick
  <2>1. age' \in [Thread -> 0 .. AGE_THRSHLD]
    BY <1>5, LevelsAssumption DEF Tick, TypeOK
  <2> QED
    BY <1>5, <2>1 DEF Tick, TypeOK, LockInv, LockTypes, call_vars
<1>6. ASSUME NEW t \in Thread, Create(t) \/ Call(t) PROVE TypeOK'
  <2>1. CASE Create(t)
    <3>1. sched' \in Sched /\ Counted(sched')
      BY <2>1, AddTypes, LevelsAreQueues DEF Create
    <3> QED
      BY <2>1, <3>1, TypesKept DEF Create, pass_vars, call_vars, TypeOK
  <2>2. CASE Exit(t) \/ Yield(t) \/ JoinYields(t) \/ LockBlock(t)
    <3>1. \E st \in State : SetState(t, st)
      BY <2>2 DEF Exit, Yield, JoinYields, LockBlock, State
    <3>2. sched' \in Sched /\ Counted(sched')
      BY <3>1, SetStateTypes
    <3>3. UNCHANGED << pass_vars, target >>
      BY <2>2 DEF Exit, Yield, JoinYields, LockBlock, call_vars
    <3> QED
      BY <3>2, <3>3, TypesKept DEF pass_vars, TypeOK
  <2>3. CASE EndOfContext(t)
    BY <2>3, TypesKept DEF EndOfContext, call_vars
  <2>4. CASE JoinReturns(t) \/ \E x \in Thread : Join(t, x)
    <3>1. target' \in [Thread -> Pointer]
      BY <2>4 DEF JoinReturns, Join, Pointer
    <3> QED
      BY <2>4, <3>1, TypesKept DEF JoinReturns, Join, pass_vars, TypeOK
  <2>5. CASE TestAndSet(t) \/ UnlockClear(t) \/ \E m \in Mutex : Lock(t, m)
    BY <2>5, TypesKept DEF TestAndSet, UnlockClear, Lock, pass_vars, TypeOK
  <2>6. CASE LockEnqueue(t)
    <3>1. mutex[t] \in Queue
      BY <2>6, LevelsAreQueues DEF LockEnqueue, At, LockInv, ArgumentsGiven, LockPC
    <3>2. sched' \in Sched /\ Counted(sched')
      BY <2>6, <3>1, EnqueueTypes DEF LockEnqueue
    <3> QED
      BY <2>6, <3>2, TypesKept DEF LockEnqueue, pass_vars, call_vars, TypeOK
  <2>7. CASE \E m \in Mutex : Unlock(t, m)
    BY <2>7, UnlockTypes, TypesKept DEF Unlock, pass_vars, TypeOK
  <2>8. CASE CallHandler(t)
    BY <1>2, <2>8 DEF CallHandler, call_vars
  <2> QED
    BY <1>6, <2>1, <2>2, <2>3, <2>4, <2>5, <2>6, <2>7, <2>8 DEF Call
<1> QED
  BY <1>1, <1>3, <1>4, <1>5, <1>6 DEF Next

\* Every pointer of every queue is a thread or NULL, a queue with a head counts
\* at least one node and one that counts a node has a tail, whatever aging has
\* done to the queues and wherever the alarm strikes (26-61).
THEOREM LevelTypes == Spec => []TypeOK
  BY TypesInit, TypesStep, LocksInvariance, PTL DEF Spec

-----------------------------------------------------------------------------
(* The queues, until aging moves a thread. *)

LEMMA PcElsewhere ==
  ASSUME NEW s, NEW p, NEW r, NEW c, QueuesHold(s, p, c),
         \A u \in Thread : r[u] = "lock_enqueue" <=> p[u] = "lock_enqueue"
  PROVE  QueuesHold(s, r, c)
<1>1. Linked(s, c) /\ Once(c) /\ Members(s, p, c) /\ \A u \in Thread : InPlace(s, p, c, u)
  BY DEF QueuesHold
<1>2. \A u \in Thread : Waits(s, r, u) <=> Waits(s, p, u)
  BY DEF Waits
<1>3. \A m \in Mutex : \A k \in 1 .. Len(c[m]) : c[m][k] \in Thread
  BY <1>1, LevelsAreQueues, SeqFacts DEF Linked, Holds
<1>4. Members(s, r, c)
  BY <1>1, <1>2, <1>3 DEF Members
<1>5. \A u \in Thread : InPlace(s, r, c, u)
  BY <1>1, <1>2 DEF InPlace
<1> QED
  BY <1>1, <1>4, <1>5 DEF QueuesHold

LEMMA MutexIsNoLevel == \A m \in Mutex : m \in Queue /\ m \notin Level
<1>1. Level \subseteq 0 .. NLEVELS
  BY LevelsAssumption DEF Level
<1> QED
  BY <1>1, LevelsAreQueues, ThreadAssumption

\* What a step leaves, from the queues c: the queues d, which differ by u, and
\* a thread t that runs, if any.
Leaves(s, p, t, c, d, u) ==
  /\ d \in [Queue -> Seq(Thread)] /\ QueuesHold(s, p, d)
  /\ FifoStep(c, d, u)
  /\ t # NULL => Runs(s, p, t)

\* The thread that runs once a step is done; NULL when the process has ended.
Runner == IF process = "up" THEN thread_curr ELSE NULL

StepLeaves(s, p, t, c) ==
  \E d, u : Leaves(s, p, t, c, d, u) /\ (u \in Thread \/ s = sched)

LEMMA ListsAre ==
  ASSUME QueueInv, agings = 0
  PROVE  /\ Lists \in [Queue -> Seq(Thread)] /\ QueuesHold(sched, pc, Lists)
         /\ Runner # NULL => Runs(sched, pc, Runner)
<1>1. QueuesHold(sched, pc, Lists) /\ (Runner # NULL => Runs(sched, pc, Runner))
  BY DEF QueueInv, Runner
<1>2. \A q \in Queue : Lists[q] \in Seq(Thread)
  BY <1>1 DEF QueuesHold, Linked, Holds
<1>3. Lists = [q \in Queue |-> Lists[q]]
  BY DEF Lists
<1> HIDE DEF Lists
<1> QED
  BY <1>1, <1>2, <1>3

LEMMA HandlerLeaves ==
  ASSUME TypeOK, QueueInv, schedule_handler, agings' = 0, process = "up",
         \A u \in Thread : pc'[u] = "lock_enqueue" <=> pc[u] = "lock_enqueue"
  PROVE  /\ StepLeaves(sched', pc', Runner', Lists)
         /\ thread_curr' # thread_curr =>
              \A t \in Thread : sched'.state[t] = "READY" =>
                thread_curr' # NULL /\ sched'.priority[thread_curr'] <= sched'.priority[t]
<1> DEFINE n == Scheduled(sched, thread_curr)
           c == Lists
<1>1. agings = 0 /\ ~ AfterAging.moved
  BY HandlerIs, AfterAgingKeeps, LevelsAssumption DEF TypeOK
<1>2. sched' = n.sched /\ thread_curr' = n.thread
  BY <1>1, HandlerIs, AfterAgingKeeps DEF Dispatch
<1>3. /\ c \in [Queue -> Seq(Thread)] /\ QueuesHold(sched, pc, c)
      /\ sched \in Sched /\ thread_curr \in Pointer
      /\ thread_curr # NULL => Runs(sched, pc, thread_curr)
  BY <1>1, ListsAre, TypesAre DEF Runner
<1> HIDE DEF c
<1>4. \E d, u : Passed(n, thread_curr, pc, c, d, u) /\ (u \in Thread \/ n.sched = sched)
  <2>1. CASE thread_curr # NULL
    <3>1. thread_curr \in Thread
      BY <1>3, <2>1 DEF Pointer
    <3> QED
      BY <1>3, <2>1, <3>1, ScheduledPassed
  <2>2. CASE thread_curr = NULL
    <3>1. n = Choice(sched)
      BY <2>2 DEF Scheduled
    <3> DEFINE u == Choice(sched).thread
    <3>2. u \in Thread \/ Choice(sched).sched = sched
      BY <1>3, ChoiceHolds
    <3> HIDE DEF u
    <3>3. FifoStep(c, c, u) /\ \A i \in Level : c[i] # << >> => FifoStep(c, Without(c, i), u)
      BY <1>3, FifoWithout, LevelsAreQueues DEF FifoStep
    <3>4. \E d : Passed(Choice(sched), thread_curr, pc, c, d, u)
      BY <1>3, <3>3, ChoicePassed
    <3> QED
      BY <3>1, <3>2, <3>4
  <2> QED
    BY <2>1, <2>2
<1>5. PICK d, u : Passed(n, thread_curr, pc, c, d, u) /\ (u \in Thread \/ n.sched = sched)
  BY <1>4
<1> HIDE DEF n
<1>6. /\ d \in [Queue -> Seq(Thread)] /\ QueuesHold(sched', pc, d) /\ FifoStep(c, d, u)
      /\ thread_curr' # NULL =>
           /\ sched'.state[thread_curr'] \notin {"READY", "WAITING"}
           /\ sched'.time_ran[thread_curr'] <= sched'.priority[thread_curr']
  BY <1>2, <1>5 DEF Passed
<1>7. QueuesHold(sched', pc', d)
  BY <1>6, PcElsewhere
<1>8. Leaves(sched', pc', Runner', c, d, u)
  BY <1>6, <1>7 DEF Leaves, Runner, Runs
<1>9. StepLeaves(sched', pc', Runner', Lists)
  BY <1>2, <1>5, <1>8 DEF StepLeaves, c
<1>10. thread_curr' # thread_curr =>
              \A t \in Thread : sched'.state[t] = "READY" =>
                thread_curr' # NULL /\ sched'.priority[thread_curr'] <= sched'.priority[t]
  BY <1>2, <1>5 DEF Passed
<1> QED
  BY <1>9, <1>10

\* A step that leaves the queues alone, and moves no thread to lock_enqueue.
LEMMA QueuesAlone ==
  ASSUME QueueInv, agings = 0, UNCHANGED sched,
         \A u \in Thread : pc'[u] = "lock_enqueue" <=> pc[u] = "lock_enqueue",
         Runner' # NULL =>
           /\ Runner' = Runner
           /\ \/ pc'[Runner] = pc[Runner]
              \/ pc[Runner] \notin {"lock_enqueue", "lock_sched"}
  PROVE  StepLeaves(sched', pc', Runner', Lists)
<1>1. /\ Lists \in [Queue -> Seq(Thread)] /\ QueuesHold(sched, pc, Lists)
      /\ Runner # NULL => Runs(sched, pc, Runner)
  BY ListsAre
<1>2. QueuesHold(sched', pc', Lists)
  BY <1>1, PcElsewhere
<1>3. Runner' # NULL => Runs(sched', pc', Runner')
  BY <1>1 DEF Runs
<1>4. FifoStep(Lists, Lists, NULL)
  BY DEF FifoStep
<1>5. Leaves(sched', pc', Runner', Lists, Lists, NULL)
  BY <1>1, <1>2, <1>3, <1>4 DEF Leaves
<1> QED
  BY <1>5 DEF StepLeaves

\* What is known of the thread that calls.
LEMMA CallerIs ==
  ASSUME TypeOK, QueueInv, agings = 0, NEW t \in Thread, NEW p, At(t, p),
         UNCHANGED pass_vars
  PROVE  /\ Runner = t /\ Runner' = t /\ pc[t] = p /\ Runs(sched, pc, t)
         /\ sched.state[t] # "READY"
         /\ p # "lock_sched" => ~ Waits(sched, pc, t)
         /\ pc \in [Thread -> PC] /\ sched \in Sched
         /\ Lists \in [Queue -> Seq(Thread)] /\ QueuesHold(sched, pc, Lists)
<1>1. Runner = t /\ Runner' = t /\ pc[t] = p /\ t # NULL
  BY ThreadAssumption DEF At, Runner, pass_vars
<1>2. Runs(sched, pc, t)
  BY <1>1, ListsAre
<1> QED
  BY <1>1, <1>2, ListsAre DEF Runs, Waits, TypeOK

LEMMA SetStateLeaves ==
  ASSUME TypeOK, QueueInv, agings = 0, NEW t \in Thread, NEW p, At(t, p), p # "lock_sched",
         UNCHANGED pass_vars, NEW st \in State, SetState(t, st), NEW r \in PC, Goto(t, r),
         \/ st \notin {"READY", "WAITING"} /\ r # "lock_enqueue"
         \/ st = "WAITING" /\ r = "lock_enqueue"
  PROVE  StepLeaves(sched', pc', Runner', Lists)
<1>1. /\ Runner' = t /\ Runs(sched, pc, t) /\ pc \in [Thread -> PC] /\ sched \in Sched
      /\ Lists \in [Queue -> Seq(Thread)] /\ QueuesHold(sched, pc, Lists)
      /\ sched.state[t] # "READY" /\ ~ Waits(sched, pc, t)
  BY CallerIs
<1>2. /\ SameLinks(sched, sched') /\ sched'.state[t] = st
      /\ sched'.priority = sched.priority /\ sched'.time_ran = sched.time_ran
      /\ \A u \in Thread \ {t} : sched'.state[u] = sched.state[u]
  BY SetStateTypes
<1>3. pc'[t] = r /\ \A u \in Thread \ {t} : pc'[u] = pc[u]
  BY <1>1 DEF Goto
<1>4. Rest(sched, pc, Lists, t)
  BY <1>1, HoldsRest
<1>5. Rest(sched', pc', Lists, t)
  BY <1>2, <1>3, <1>4, RestIsRest
<1>6. QueuesHold(sched', pc', Lists)
  BY <1>2, <1>3, <1>5, RestHolds DEF Waits
<1>7. Runs(sched', pc', t)
  BY <1>1, <1>2, <1>3 DEF Runs
<1>8. FifoStep(Lists, Lists, t)
  BY DEF FifoStep
<1>9. Leaves(sched', pc', Runner', Lists, Lists, t)
  BY <1>1, <1>6, <1>7, <1>8 DEF Leaves
<1> QED
  BY <1>9 DEF StepLeaves

LEMMA EnqueueLeaves ==
  ASSUME TypeOK, LockInv, QueueInv, agings = 0, NEW t \in Thread, LockEnqueue(t)
  PROVE  StepLeaves(sched', pc', Runner', Lists)
<1> DEFINE c == Lists
           d == With(c, mutex[t], t)
<1>1. /\ Runner' = t /\ Runs(sched, pc, t) /\ pc \in [Thread -> PC] /\ sched \in Sched
      /\ c \in [Queue -> Seq(Thread)] /\ QueuesHold(sched, pc, c)
      /\ sched.state[t] # "READY" /\ ~ Waits(sched, pc, t) /\ pc[t] = "lock_enqueue"
  BY CallerIs DEF LockEnqueue
<1> HIDE DEF c
<1>2. mutex[t] \in Mutex /\ mutex[t] \in Queue /\ mutex[t] \notin Level
  BY <1>1, MutexIsNoLevel DEF LockInv, ArgumentsGiven, LockPC
<1>3. sched.state[t] = "WAITING"
  BY <1>1 DEF QueuesHold, InPlace
<1>4. pc'[t] = "lock_sched" /\ \A u \in Thread \ {t} : pc'[u] = pc[u]
  BY <1>1 DEF LockEnqueue, Goto
<1>5. Rest(sched, pc, c, t)
  BY <1>1, HoldsRest
<1>6. Rest(sched, pc', c, t)
  BY <1>4, <1>5, RestIsRest DEF SameLinks
<1>7. QueuesHold(sched', pc', d) /\ d \in [Queue -> Seq(Thread)]
  BY <1>1, <1>2, <1>3, <1>4, <1>6, EnqueueRest DEF LockEnqueue, Waits
<1>8. Runs(sched', pc', t)
  <2>1. sched'.state = sched.state /\ sched'.priority = sched.priority
        /\ sched'.time_ran = sched.time_ran
    BY <1>2, TypesAre, EnqueueTypes DEF LockEnqueue
  <2> QED
    BY <1>1, <1>4, <2>1 DEF Runs
<1>9. FifoStep(c, d, t)
  BY <1>1, <1>2, FifoWith
<1> HIDE DEF d
<1>10. Leaves(sched', pc', Runner', c, d, t)
  BY <1>1, <1>7, <1>8, <1>9 DEF Leaves
<1> QED
  BY <1>10 DEF StepLeaves, c

LEMMA UnlockLeaves ==
  ASSUME TypeOK, QueueInv, agings = 0, NEW t \in Thread, NEW m \in Mutex, Unlock(t, m)
  PROVE  StepLeaves(sched', pc', Runner', Lists)
<1> DEFINE c == Lists
           x == sched.head[m]
           e == dequeue(sched, m)
           i == sched.priority[x]
           b == Without(c, m)
           d == With(b, i, x)
<1>1. /\ Runner' = t /\ Runs(sched, pc, t) /\ pc \in [Thread -> PC] /\ sched \in Sched
      /\ c \in [Queue -> Seq(Thread)] /\ QueuesHold(sched, pc, c)
      /\ sched.state[t] # "READY" /\ ~ Waits(sched, pc, t) /\ pc[t] = "user"
  BY CallerIs DEF Unlock
<1>2. pc'[t] = "unlock_clear" /\ \A u \in Thread \ {t} : pc'[u] = pc[u]
  BY <1>1 DEF Unlock, Goto
<1>3. CASE x = NULL
  <2>1. UNCHANGED sched
    BY <1>3 DEF Unlock
  <2> QED
    BY <1>1, <1>2, <2>1, QueuesAlone, CallerIs DEF Unlock
<1>4. CASE x # NULL
  <2> HIDE DEF c
  <2>1. QueuesHold(sched, pc', c)
    BY <1>1, <1>2, PcElsewhere
  <2>2. m \in Queue /\ m \notin Level
    BY MutexIsNoLevel
  <2>3. /\ Rest(e, pc', b, x) /\ x \in Thread /\ e \in Sched /\ Waits(sched, pc', x)
        /\ e.state = sched.state /\ e.priority = sched.priority /\ e.time_ran = sched.time_ran
    <3>1. /\ sched.head[m] # NULL /\ sched \in Sched /\ m \in Queue
          /\ c \in [Queue -> Seq(Thread)] /\ QueuesHold(sched, pc', c)
      BY <1>1, <1>4, <2>1, <2>2
    <3>2. /\ Rest(dequeue(sched, m), pc', Without(c, m), sched.head[m])
          /\ sched.head[m] \in Thread /\ dequeue(sched, m) \in Sched
          /\ dequeue(sched, m).state = sched.state
          /\ dequeue(sched, m).priority = sched.priority
          /\ dequeue(sched, m).time_ran = sched.time_ran
          /\ Waits(sched, pc', sched.head[m])
      BY <3>1, DequeueRest
    <3> QED
      BY <3>2
  <2>4. sched' = add_mypthread_sched(e, x, i) /\ i \in Level
    BY <1>1, <1>4, <2>3 DEF Unlock, Sched
  <2>5. Counted(e)
    BY <1>4, <2>2, TypesAre, DequeueTypes
  <2> HIDE DEF e, i, x, b
  <2>6. QueuesHold(sched', pc', d) /\ d \in [Queue -> Seq(Thread)]
    BY <2>3, <2>4, AddRest DEF Waits
  <2>7. /\ sched'.state = [sched.state EXCEPT ![x] = "READY"]
        /\ sched'.priority = [sched.priority EXCEPT ![x] = i]
        /\ sched'.time_ran = [sched.time_ran EXCEPT ![x] = 0]
    BY <2>3, <2>4, <2>5, AddTypes
  <2>8. t # x
    BY <1>1, <1>2, <2>3 DEF Waits, Runs
  <2>9. Runs(sched', pc', t)
    BY <1>1, <1>2, <2>7, <2>8 DEF Runs, Sched
  <2>10. FifoStep(c, d, x)
    <3>1. b \in [Queue -> Seq(Thread)] /\ \A q \in Level : b[q] = c[q]
      BY <1>1, <2>2, <2>3, LevelsAreQueues DEF b, Without, Rest
    <3>2. \A q \in Level : d[q] \in {b[q], Append(b[q], x)}
      BY <3>1, LevelsAreQueues DEF With
    <3> QED
      BY <3>1, <3>2 DEF FifoStep
  <2> HIDE DEF d
  <2>11. Leaves(sched', pc', Runner', c, d, x)
    BY <1>1, <2>6, <2>9, <2>10 DEF Leaves
  <2> QED
    BY <2>3, <2>11 DEF StepLeaves, c
<1> QED
  BY <1>3, <1>4

LEMMA CreateLeaves ==
  ASSUME TypeOK, QueueInv, agings = 0, NEW t \in Thread, Create(t)
  PROVE  StepLeaves(sched', pc', Runner', Lists)
<1> DEFINE c == Lists
           d == With(c, 0, t)
<1>1. /\ Runner' = NULL /\ sched \in Sched /\ pc' = pc
      /\ c \in [Queue -> Seq(Thread)] /\ QueuesHold(sched, pc, c)
      /\ sched.state[t] = "NEW"
  BY ListsAre, TypesAre DEF Create, Runner, pass_vars
<1> HIDE DEF c
<1>2. Rest(sched, pc, c, t) /\ pc[t] # "lock_enqueue"
  BY <1>1, HoldsRest DEF QueuesHold, InPlace, Waits
<1>3. QueuesHold(sched', pc', d) /\ d \in [Queue -> Seq(Thread)]
  BY <1>1, <1>2, AddRest, LevelsAreQueues DEF Create
<1>4. FifoStep(c, d, t)
  BY <1>1, LevelsAreQueues, FifoWith
<1> HIDE DEF d
<1>5. Leaves(sched', pc', Runner', c, d, t)
  BY <1>1, <1>3, <1>4 DEF Leaves
<1> QED
  BY <1>5 DEF StepLeaves, c

\* A call that leaves the queues alone.
LEMMA CallsLeave ==
  ASSUME TypeOK, QueueInv, agings = 0, NEW t \in Thread,
         \/ EndOfContext(t) \/ JoinReturns(t) \/ TestAndSet(t) \/ UnlockClear(t)
         \/ (\E x \in Thread : Join(t, x)) \/ (\E m \in Mutex : Lock(t, m))
  PROVE  StepLeaves(sched', pc', Runner', Lists)
<1>1. CASE EndOfContext(t)
  <2>1. UNCHANGED << sched, pc >> /\ Runner' = NULL
    BY <1>1 DEF EndOfContext, Runner
  <2> QED
    BY <2>1, QueuesAlone
<1>2. CASE ~ EndOfContext(t)
  <2>1. /\ UNCHANGED << sched, pass_vars >>
        /\ \E p \in {"join", "lock", "unlock_clear", "user"} : At(t, p)
        /\ \E r \in {"join", "lock", "lock_block", "user"} : Goto(t, r)
    BY <1>2 DEF JoinReturns, TestAndSet, UnlockClear, Join, Lock
  <2>2. Runner = t /\ Runner' = t /\ pc \in [Thread -> PC]
        /\ pc[t] \in {"join", "lock", "unlock_clear", "user"}
    BY <2>1, CallerIs
  <2>3. \A u \in Thread : pc'[u] = "lock_enqueue" <=> pc[u] = "lock_enqueue"
    BY <2>1, <2>2 DEF Goto
  <2> QED
    BY <2>1, <2>2, <2>3, QueuesAlone
<1> QED
  BY <1>1, <1>2

LEMMA QueuesStep ==
  ASSUME TypeOK, LockInv, QueueInv, [Next]_vars, agings' = 0
  PROVE  StepLeaves(sched', pc', Runner', Lists)
<1>1. CASE UNCHANGED vars
  BY <1>1, QueuesAlone DEF vars, Runner
<1>2. CASE Alarm
  BY <1>2, HandlerLeaves DEF Alarm
<1>3. CASE Hang \/ MainExits
  BY <1>3, QueuesAlone DEF Hang, MainExits, Runner
<1>4. CASE Tick
  BY <1>4, QueuesAlone DEF Tick, Runner
<1>5. ASSUME NEW t \in Thread, Create(t) \/ Call(t)
      PROVE  StepLeaves(sched', pc', Runner', Lists)
  <2>1. CASE CallHandler(t)
    <3>1. pc[t] # "lock_enqueue" /\ Return(t) # "lock_enqueue" /\ process = "up"
      BY <2>1 DEF CallHandler, At, Return
    <3>2. pc \in [Thread -> PC] /\ pc' = [pc EXCEPT ![t] = Return(t)]
      BY <2>1 DEF CallHandler, Goto, TypeOK
    <3>3. \A u \in Thread : pc'[u] = "lock_enqueue" <=> pc[u] = "lock_enqueue"
      BY <3>1, <3>2
    <3> QED
      BY <2>1, <3>1, <3>3, HandlerLeaves DEF CallHandler
  <2>2. CASE ~ CallHandler(t)
    <3>1. agings = 0
      BY <1>5, <2>2 DEF Create, Call, Exit, EndOfContext, Yield, Join, JoinYields, JoinReturns,
         Lock, TestAndSet, LockBlock, LockEnqueue, Unlock, UnlockClear, pass_vars
    <3>2. CASE Create(t)
      BY <3>1, <3>2, CreateLeaves
    <3>3. CASE Exit(t) \/ Yield(t) \/ JoinYields(t) \/ LockBlock(t)
      <4>1. CASE Exit(t)
        BY <3>1, <4>1, SetStateLeaves DEF Exit, State, PC
      <4>2. CASE Yield(t)
        BY <3>1, <4>2, SetStateLeaves DEF Yield, State, PC
      <4>3. CASE JoinYields(t)
        BY <3>1, <4>3, SetStateLeaves DEF JoinYields, State, PC
      <4>4. CASE LockBlock(t)
        BY <3>1, <4>4, SetStateLeaves DEF LockBlock, State, PC, LockPC
      <4> QED
        BY <3>3, <4>1, <4>2, <4>3, <4>4
    <3>4. CASE LockEnqueue(t)
      BY <3>1, <3>4, EnqueueLeaves
    <3>5. CASE \E m \in Mutex : Unlock(t, m)
      BY <3>1, <3>5, UnlockLeaves
    <3> QED
      BY <1>5, <2>2, <3>1, <3>2, <3>3, <3>4, <3>5, CallsLeave DEF Call
  <2> QED
    BY <2>1, <2>2
<1> QED
  BY <1>1, <1>2, <1>3, <1>4, <1>5 DEF Next

\* What the sequences are once a step is done.
LEMMA LeavesLists ==
  ASSUME NEW t, NEW c, NEW d, NEW u, Leaves(sched', pc', t, c, d, u)
  PROVE  Lists' = d
<1>1. d \in [Queue -> Seq(Thread)] /\ \A q \in Queue : Holds(sched', q, d[q])
  BY DEF Leaves, QueuesHold, Linked
<1>2. \A q \in Queue : Contents(sched', q) = d[q]
  BY <1>1, ContentsAre
<1>3. Lists' = [q \in Queue |-> d[q]]
  BY <1>2 DEF Lists
<1> QED
  BY <1>1, <1>3

LEMMA QueueInvInit == Init => QueueInv
<1> SUFFICES ASSUME Init PROVE QueueInv
  OBVIOUS
<1> DEFINE c == [q \in Queue |-> << >>]
<1>1. sched = create_queues /\ thread_curr = NULL /\ pc = [t \in Thread |-> "user"]
  BY DEF Init
<1>2. \A q \in Queue : Holds(sched, q, << >>)
  BY <1>1 DEF Holds, create_queues
<1>3. \A q \in Queue : Contents(sched, q) = << >>
  BY <1>2, ContentsAre
<1>4. Lists = c
  BY <1>3 DEF Lists
<1>5. \A q \in Queue : c[q] = << >> /\ Len(c[q]) = 0
  OBVIOUS
<1> HIDE DEF c
<1>6. Linked(sched, c) /\ Once(c) /\ Members(sched, pc, c)
  BY <1>2, <1>5, LevelsAreQueues DEF Linked, Once, Members
<1>7. \A t \in Thread : InPlace(sched, pc, c, t)
  BY <1>1 DEF InPlace, Waits, create_queues
<1> QED
  BY <1>1, <1>4, <1>6, <1>7 DEF QueueInv, QueuesHold

LEMMA QueueInvStep ==
  ASSUME TypeOK, LockInv, QueueInv, [Next]_vars
  PROVE  QueueInv'
<1> SUFFICES ASSUME agings' = 0
             PROVE  /\ QueuesHold(sched', pc', Lists')
                    /\ process' = "up" /\ thread_curr' # NULL => Runs(sched', pc', thread_curr')
  BY DEF QueueInv
<1>1. PICK d, u : Leaves(sched', pc', Runner', Lists, d, u)
  BY QueuesStep DEF StepLeaves
<1>2. Lists' = d
  BY <1>1, LeavesLists
<1> QED
  BY <1>1, <1>2 DEF Leaves, Runner

\* Until aging moves a thread, every queue is a list of as many nodes as its
\* size says, no thread is in two places, a level holds the ready threads of its
\* priority and nobody else, a mutex threads that wait for it, and the thread
\* that runs is in none and has quanta left (26-61, 105-256, 352-384).
THEOREM QueueInvariance == Spec => []QueueInv
  BY QueueInvInit, QueueInvStep, LevelTypes, LocksInvariance, PTL DEF Spec

-----------------------------------------------------------------------------
(* What follows for the queues and for the pass. *)

LEMMA PlacesAre ==
  ASSUME QueueInv, agings = 0, NEW t \in Thread
  PROVE  IF Queued(Lists, t) THEN \E x : Places(t) = {x} ELSE Places(t) = {}
<1> DEFINE c == Lists
<1>1. c \in [Queue -> Seq(Thread)] /\ Once(c)
  BY ListsAre DEF QueuesHold
<1>2. \A q \in Queue : Contents(sched, q) = c[q] /\ DOMAIN c[q] = 1 .. Len(c[q])
  BY <1>1 DEF Lists
<1> HIDE DEF c
<1>3. \A x : x \in Places(t) <=>
               \E q \in Queue : \E k \in 1 .. Len(c[q]) : c[q][k] = t /\ x = << q, k >>
  BY <1>2 DEF Places
<1>4. CASE ~ Queued(c, t)
  BY <1>3, <1>4 DEF Queued, c
<1>5. CASE Queued(c, t)
  <2>1. PICK q \in Queue : \E k \in 1 .. Len(c[q]) : c[q][k] = t
    BY <1>5 DEF Queued
  <2>2. PICK k \in 1 .. Len(c[q]) : c[q][k] = t
    BY <2>1
  <2>3. ASSUME NEW r \in Queue, NEW j \in 1 .. Len(c[r]), c[r][j] = t
        PROVE  r = q /\ j = k
    <3>1. c[r][j] = c[q][k]
      BY <2>2, <2>3
    <3> QED
      BY <1>1, <3>1, OnceIs
  <2>4. \A x : x \in Places(t) <=> x = << q, k >>
    BY <1>3, <2>2, <2>3
  <2>5. Places(t) = {<< q, k >>}
    BY <2>4
  <2> QED
    BY <1>5, <2>5 DEF c
<1> QED
  BY <1>4, <1>5

LEMMA QueuedIs ==
  ASSUME QueueInv, agings = 0, NEW t \in Thread
  PROVE  Queued(Lists, t) <=> sched.state[t] = "READY" \/ Waits(sched, pc, t)
<1>1. /\ Members(sched, pc, Lists) /\ InPlace(sched, pc, Lists, t)
  BY ListsAre DEF QueuesHold
<1>2. ASSUME Queued(Lists, t) PROVE sched.state[t] = "READY" \/ Waits(sched, pc, t)
  <2>1. PICK q \in Queue : \E k \in 1 .. Len(Lists[q]) : Lists[q][k] = t
    BY <1>2 DEF Queued
  <2> HIDE DEF Lists
  <2> QED
    BY <1>1, <2>1 DEF Members, Queue
<1> QED
  BY <1>1, <1>2 DEF InPlace

LEMMA OnePlaceEach == QueueInv => EachInOnePlace
<1> SUFFICES ASSUME QueueInv, agings = 0, NEW t \in Thread
             PROVE  Cardinality(Places(t)) =
                      IF \/ sched.state[t] = "READY"
                         \/ sched.state[t] = "WAITING" /\ pc[t] # "lock_enqueue"
                      THEN 1 ELSE 0
  BY DEF EachInOnePlace
<1>1. CASE Queued(Lists, t)
  <2>1. PICK x : Places(t) = {x}
    BY <1>1, PlacesAre
  <2>2. Cardinality(Places(t)) = 1
    BY <2>1, FS_Singleton
  <2> QED
    BY <1>1, <2>2, QueuedIs DEF Waits
<1>2. CASE ~ Queued(Lists, t)
  <2>1. Cardinality(Places(t)) = 0
    BY <1>2, PlacesAre, FS_EmptySet
  <2> QED
    BY <1>2, <2>1, QueuedIs DEF Waits
<1> QED
  BY <1>1, <1>2

\* Until aging moves a thread, a thread that is ready, or waits and is not about
\* to enqueue itself, is in exactly one queue and there once; every other is in
\* none (135, 159-256, 352-384).
THEOREM OnePlace == Spec => []EachInOnePlace
  BY QueueInvariance, OnePlaceEach, PTL

LEMMA QuotaLeft == QueueInv => InQuota
  BY DEF QueueInv, Runs, InQuota

\* Until aging moves a thread, whoever runs has quanta left on its level
\* (130-157).
THEOREM WithinQuota == Spec => []InQuota
  BY QueueInvariance, QuotaLeft, PTL

LEMMA FifoKept ==
  ASSUME TypeOK, LockInv, QueueInv, [Next]_vars
  PROVE  [agings' = 0 =>
       \A q \in Level :
         LET before == Contents(sched, q)
             after  == Contents(sched', q)
         IN  \E t \in Thread :
               after \in {before, Append(before, t)} \cup
                 (IF before = << >> THEN {}
                  ELSE {Tail(before), Append(Tail(before), t)})]_sched
<1> SUFFICES ASSUME sched' # sched, agings' = 0, NEW q \in Level
             PROVE  \E t \in Thread :
                      Contents(sched', q) \in
                        {Contents(sched, q), Append(Contents(sched, q), t)} \cup
                        (IF Contents(sched, q) = << >> THEN {}
                         ELSE {Tail(Contents(sched, q)), Append(Tail(Contents(sched, q)), t)})
  OBVIOUS
<1>1. PICK d, u : Leaves(sched', pc', Runner', Lists, d, u) /\ u \in Thread
  BY QueuesStep DEF StepLeaves
<1>2. Lists' = d
  BY <1>1, LeavesLists
<1>3. q \in Queue /\ Contents(sched, q) = Lists[q] /\ Contents(sched', q) = d[q]
  BY <1>2, LevelsAreQueues DEF Lists
<1> QED
  BY <1>1, <1>3 DEF Leaves, FifoStep

\* Until aging moves a thread, a step changes a level at its ends only: it takes
\* the head, adds at the tail, or both (26-61, 105-256).
THEOREM LevelsInOrder == Spec => LevelsFifo
  BY FifoKept, QueueInvariance, LevelTypes, LocksInvariance, PTL DEF Spec, LevelsFifo

LEMMA HighestKept ==
  ASSUME TypeOK, QueueInv, [Next]_vars
  PROVE  [agings' = 0 /\ thread_curr' # thread_curr =>
            \A t \in Thread :
              sched'.state[t] = "READY" =>
                thread_curr' # NULL /\ sched'.priority[thread_curr'] <= sched'.priority[t]]_vars
<1> SUFFICES ASSUME agings' = 0, thread_curr' # thread_curr
             PROVE  \A t \in Thread :
                      sched'.state[t] = "READY" =>
                        thread_curr' # NULL /\ sched'.priority[thread_curr'] <= sched'.priority[t]
  OBVIOUS
<1>1. Alarm \/ \E t \in Thread : CallHandler(t)
  BY DEF vars, Next, Hang, Tick, MainExits, Create, Call, Exit, EndOfContext, Yield, Join,
     JoinYields, JoinReturns, Lock, TestAndSet, LockBlock, LockEnqueue, Unlock, UnlockClear,
     pass_vars
<1>2. CASE Alarm
  BY <1>2, HandlerLeaves DEF Alarm
<1>3. ASSUME NEW t \in Thread, CallHandler(t)
      PROVE  schedule_handler /\ process = "up"
             /\ \A u \in Thread : pc'[u] = "lock_enqueue" <=> pc[u] = "lock_enqueue"
  <2>1. /\ pc[t] # "lock_enqueue" /\ Return(t) # "lock_enqueue"
        /\ process = "up" /\ schedule_handler
    BY <1>3 DEF CallHandler, At, Return
  <2>2. pc \in [Thread -> PC] /\ pc' = [pc EXCEPT ![t] = Return(t)]
    BY <1>3 DEF CallHandler, Goto, TypeOK
  <2> QED
    BY <2>1, <2>2
<1> QED
  BY <1>1, <1>2, <1>3, HandlerLeaves

\* Until aging moves a thread, the pass gives the processor to a thread of the
\* highest level on which one is ready, and to nobody only when none is (229-256).
THEOREM HighestServed == Spec => HighestFirst
  BY HighestKept, QueueInvariance, LevelTypes, PTL DEF Spec, HighestFirst
=============================================================================
