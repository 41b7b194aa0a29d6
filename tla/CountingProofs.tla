--------------------------- MODULE CountingProofs ---------------------------
(***************************************************************************)
(* Theorems about CountingThreads, for every COUNT_DONE.                   *)
(***************************************************************************)
EXTENDS CountingThreads, TLAPS

\* A count is even or odd, and count++ changes which.
LEMMA TurnsAlternate ==
  ASSUME NEW n \in Nat
  PROVE  (n + 1) % 2 = 0 <=> n % 2 # 0
  OBVIOUS

LEMMA TwoThreads == \A t \in Thread : t = 1 \/ t = 2
  BY DEF Thread

\* Everything holds at the start of main.
LEMMA InitInv == Init => Inv
  <1> SUFFICES ASSUME Init PROVE Inv
    OBVIOUS
  <1>1. TypeOK /\ Holds /\ Ordered /\ NoLostSignal
    BY DEF Init, TypeOK, Holds, Ordered, NoLostSignal, Inside, NOBODY, Thread
  <1>2. Ending /\ Joined
    BY CountDoneIsPositive DEF Init, Ending, Joined, Thread
  <1> QED
    BY <1>1, <1>2 DEF Inv

\* Main hands a thread its function.
LEMMA CreateInv ==
  ASSUME Inv, NEW t \in Thread, Create(t)
  PROVE  Inv'
  <1> USE TwoThreads, CountDoneIsPositive
      DEF Inv, Create, Goes, NOBODY
  <1>1. TypeOK'
    BY DEF TypeOK, Inside, Thread
  <1>2. Holds'
    BY DEF TypeOK, Holds, Inside
  <1>3. Ordered' /\ NoLostSignal'
    BY TurnsAlternate DEF TypeOK, Holds, Ordered, NoLostSignal, Inside, Turn
  <1>4. Ending' /\ Joined'
    BY DEF TypeOK, Holds, Ending, Joined, Last, Inside
  <1> QED
    BY <1>1, <1>2, <1>3, <1>4

\* Main has seen a thread end.
LEMMA JoinInv ==
  ASSUME Inv, NEW t \in Thread, Join(t)
  PROVE  Inv'
  <1> USE TwoThreads, CountDoneIsPositive
      DEF Inv, Join, Goes, NOBODY
  <1>1. TypeOK'
    BY DEF TypeOK, Inside, Thread
  <1>2. Holds'
    BY DEF TypeOK, Holds, Inside
  <1>3. Ordered' /\ NoLostSignal'
    BY TurnsAlternate DEF TypeOK, Holds, Ordered, NoLostSignal, Inside, Turn
  <1>4. Ending' /\ Joined'
    BY DEF TypeOK, Holds, Ending, Joined, Last, Inside
  <1> QED
    BY <1>1, <1>2, <1>3, <1>4

\* The mutex is taken, or taken again.
LEMMA LockInv ==
  ASSUME Inv, NEW t \in Thread, Lock(t)
  PROVE  Inv'
  <1> USE TwoThreads, CountDoneIsPositive
      DEF Inv, Lock, Goes, NOBODY
  <1>1. TypeOK'
    BY DEF TypeOK, Inside, Thread
  <1>2. Holds'
    BY DEF TypeOK, Holds, Inside
  <1>3. Ordered' /\ NoLostSignal'
    BY TurnsAlternate DEF TypeOK, Holds, Ordered, NoLostSignal, Inside, Turn
  <1>4. Ending' /\ Joined'
    BY DEF TypeOK, Holds, Ending, Joined, Last, Inside
  <1> QED
    BY <1>1, <1>2, <1>3, <1>4

\* The if and pthread_cond_wait.
LEMMA TestInv ==
  ASSUME Inv, NEW t \in Thread, Test(t)
  PROVE  Inv'
  <1> USE TwoThreads, CountDoneIsPositive
      DEF Inv, Test, Goes, NOBODY
  <1>1. TypeOK'
    BY DEF TypeOK, Inside, Thread
  <1>2. Holds'
    BY DEF TypeOK, Holds, Inside
  <1>3. Ordered' /\ NoLostSignal'
    BY TurnsAlternate DEF TypeOK, Holds, Ordered, NoLostSignal, Inside, Turn
  <1>4. Ending' /\ Joined'
    <2>1. count' = count /\ main' = main
      OBVIOUS
    <2>2. \A u \in Thread :
            /\ pc'[u] = "done" <=> pc[u] = "done"
            /\ pc'[u] \in {"signal", "unlock", "done"}
                 <=> pc[u] \in {"signal", "unlock", "done"}
      BY DEF TypeOK
    <2> QED
      BY <2>1, <2>2 DEF Ending, Joined, Last, Thread
  <1> QED
    BY <1>1, <1>2, <1>3, <1>4

\* A signalled thread has the mutex back.
LEMMA WakeInv ==
  ASSUME Inv, NEW t \in Thread, Wake(t)
  PROVE  Inv'
  <1> USE TwoThreads, CountDoneIsPositive
      DEF Inv, Wake, Goes, NOBODY
  <1>1. TypeOK'
    BY DEF TypeOK, Inside, Thread
  <1>2. Holds'
    BY DEF TypeOK, Holds, Inside
  <1>3. Ordered' /\ NoLostSignal'
    BY TurnsAlternate DEF TypeOK, Holds, Ordered, NoLostSignal, Inside, Turn
  <1>4. Ending' /\ Joined'
    BY DEF TypeOK, Holds, Ending, Joined, Last, Inside
  <1> QED
    BY <1>1, <1>2, <1>3, <1>4

\* Count++ turns the turn.
LEMMA CountInv ==
  ASSUME Inv, NEW t \in Thread, Count(t)
  PROVE  Inv'
  <1> USE TwoThreads, CountDoneIsPositive
      DEF Inv, Count, Goes, NOBODY
  <1>1. TypeOK'
    BY DEF TypeOK, Inside, Thread
  <1>2. Holds'
    BY DEF TypeOK, Holds, Inside
  <1>3. Ordered' /\ NoLostSignal'
    BY TurnsAlternate DEF TypeOK, Holds, Ordered, NoLostSignal, Inside, Turn
  <1>4. Ending' /\ Joined'
    <2>1. count' = count + 1 /\ main' = main /\ count \in Nat
      BY DEF TypeOK
    <2>2. pc[t] = "count" /\ pc'[t] = "signal"
      BY DEF TypeOK
    <2>3. \A u \in Thread : u # t => pc'[u] = pc[u] /\ pc[u] \notin Inside
      BY DEF TypeOK, Holds, Inside
    <2>4. CASE t = 1
      BY <2>1, <2>2, <2>3, <2>4 DEF Ending, Joined, Last, Inside, Thread
    <2>5. CASE t = 2
      BY <2>1, <2>2, <2>3, <2>5 DEF Ending, Joined, Last, Inside, Thread
    <2> QED
      BY <2>4, <2>5
  <1> QED
    BY <1>1, <1>2, <1>3, <1>4

\* A signal comes after count++, so it wakes who is in turn.
LEMMA SignalInv ==
  ASSUME Inv, NEW t \in Thread, Signal(t)
  PROVE  Inv'
  <1> USE TwoThreads, CountDoneIsPositive
      DEF Inv, Signal, Goes, NOBODY
  <1>1. TypeOK'
    BY DEF TypeOK, Inside, Thread, Waiters
  <1>2. Holds'
    BY DEF TypeOK, Holds, Inside, Waiters
  <1>3. Ordered' /\ NoLostSignal'
    BY TurnsAlternate DEF TypeOK, Holds, Ordered, NoLostSignal, Inside, Turn, Waiters
  <1>4. Ending' /\ Joined'
    <2>1. count' = count /\ main' = main
      OBVIOUS
    <2>2. \A u \in Thread :
            /\ pc'[u] = "done" <=> pc[u] = "done"
            /\ pc'[u] \in {"signal", "unlock", "done"}
                 <=> pc[u] \in {"signal", "unlock", "done"}
      BY DEF TypeOK, Waiters
    <2> QED
      BY <2>1, <2>2 DEF Ending, Joined, Last, Thread
  <1> QED
    BY <1>1, <1>2, <1>3, <1>4

\* The end of a round.
LEMMA UnlockInv ==
  ASSUME Inv, NEW t \in Thread, Unlock(t)
  PROVE  Inv'
  <1> USE TwoThreads, CountDoneIsPositive
      DEF Inv, Unlock, Goes, NOBODY
  <1>1. TypeOK'
    BY DEF TypeOK, Inside, Thread
  <1>2. Holds'
    BY DEF TypeOK, Holds, Inside
  <1>3. Ordered' /\ NoLostSignal'
    BY TurnsAlternate DEF TypeOK, Holds, Ordered, NoLostSignal, Inside, Turn
  <1>4. Ending' /\ Joined'
    BY DEF TypeOK, Holds, Ending, Joined, Last, Inside
  <1> QED
    BY <1>1, <1>2, <1>3, <1>4

\* No step of main or of a thread leaves Inv.
LEMMA NextInv == Inv /\ [Next]_vars => Inv'
  <1> SUFFICES ASSUME Inv, [Next]_vars PROVE Inv'
    OBVIOUS
  <1>1. CASE UNCHANGED vars
    BY <1>1 DEF vars, Inv, TypeOK, Holds, Ordered, NoLostSignal, Ending, Joined,
                Last, Turn
  <1>2. CASE \E t \in Thread : Create(t) \/ Join(t) \/ Round(t)
    BY <1>2, CreateInv, JoinInv, LockInv, TestInv, WakeInv, CountInv, SignalInv,
       UnlockInv DEF Round
  <1> QED
    BY <1>1, <1>2 DEF Next, Exited

\* Inv holds of every execution.
THEOREM CountingInvariance == Spec => []Inv
  BY InitInv, NextInv, PTL DEF Spec

\* Each thread counts in its own turn, although it looks at the count once only.
THEOREM CountsInTurn == Spec => []InTurn
  <1>1. Inv => InTurn
    BY DEF Inv, Ordered, InTurn
  <1> QED
    BY <1>1, CountingInvariance, PTL

\* No signal is lost.
THEOREM SignalsArrive == Spec => []NoLostSignal
  <1>1. Inv => NoLostSignal
    BY DEF Inv
  <1> QED
    BY <1>1, CountingInvariance, PTL

\* The count ends one past COUNT_DONE.
THEOREM EndIsOnePast == Spec => []EndsOnePast
  <1>1. Inv => EndsOnePast
    BY CountDoneIsPositive DEF Inv, TypeOK, Ending, Joined, Last, EndsOnePast, Thread
  <1> QED
    BY <1>1, CountingInvariance, PTL
=============================================================================
