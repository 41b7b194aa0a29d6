-------------------------- MODULE CountingThreads --------------------------
(***************************************************************************)
(* 01/std_pthread_mutex.c: two threads of the standard pthread library     *)
(* count in turn, the first from even to odd and the second from odd to    *)
(* even, until COUNT_DONE.  A thread whose turn it is not waits on the     *)
(* condition variable, once, under an if.                                  *)
(*                                                                         *)
(* The mutex and the condition variable are the system's: a signal wakes   *)
(* one waiter, if there is one, which then has to take the mutex again     *)
(* like everyone else.  Nobody wakes without a signal here; POSIX allows   *)
(* it, and then the if would not do.                                       *)
(***************************************************************************)
EXTENDS Integers

CONSTANT COUNT_DONE

ASSUME CountDoneIsPositive == COUNT_DONE \in Nat \ {0}

NOBODY == 0
Thread == 1 .. 2

VARIABLES count,        \* the shared counter
          count_mutex,  \* who holds the mutex
          pc,           \* where each thread is
          main          \* how many of its four calls main has made

vars == << count, count_mutex, pc, main >>

Init ==
  /\ count = 0
  /\ count_mutex = NOBODY
  /\ pc = [t \in Thread |-> "unborn"]
  /\ main = 0

\* functionCount1 goes on when count is even, functionCount2 when it is odd.
Turn(t) == IF t = 1 THEN count % 2 = 0 ELSE count % 2 # 0

Goes(t, from, to) == pc[t] = from /\ pc' = [pc EXCEPT ![t] = to]

-----------------------------------------------------------------------------
(* main: pthread_create twice, pthread_join twice. *)

Create(t) ==
  /\ main = t - 1
  /\ main' = t
  /\ Goes(t, "unborn", "lock")
  /\ UNCHANGED << count, count_mutex >>

Join(t) ==
  /\ main = t + 1
  /\ pc[t] = "done"
  /\ main' = t + 2
  /\ UNCHANGED << count, count_mutex, pc >>

-----------------------------------------------------------------------------
(* One round of functionCount1 or functionCount2. *)

Lock(t) ==
  /\ count_mutex = NOBODY
  /\ Goes(t, "lock", "test")
  /\ count_mutex' = t
  /\ UNCHANGED << count, main >>

\* Mutant of Test: the threads do not wait for each other.
Test_NoWait(t) ==
  /\ Goes(t, "test", "count")
  /\ UNCHANGED << count, count_mutex, main >>

\* pthread_cond_wait gives the mutex back.
Test(t) ==
  /\ IF Turn(t)
     THEN Goes(t, "test", "count") /\ UNCHANGED count_mutex
     ELSE Goes(t, "test", "wait") /\ count_mutex' = NOBODY
  /\ UNCHANGED << count, main >>

\* pthread_cond_wait returns, with the mutex.
Wake(t) ==
  /\ count_mutex = NOBODY
  /\ Goes(t, "woken", "count")
  /\ count_mutex' = t
  /\ UNCHANGED << count, main >>

Count(t) ==
  /\ Goes(t, "count", "signal")
  /\ count' = count + 1
  /\ UNCHANGED << count_mutex, main >>

\* The waiters of the condition variable.
Waiters == {u \in Thread : pc[u] = "wait"}

\* Mutant of Signal: no signal in the last round.
Signal_NotLast(t) ==
  /\ pc[t] = "signal"
  /\ IF Waiters = {} \/ count >= COUNT_DONE
     THEN pc' = [pc EXCEPT ![t] = "unlock"]
     ELSE \E u \in Waiters : pc' = [pc EXCEPT ![t] = "unlock", ![u] = "woken"]
  /\ UNCHANGED << count, count_mutex, main >>

Signal(t) ==
  /\ pc[t] = "signal"
  /\ IF Waiters = {}
     THEN pc' = [pc EXCEPT ![t] = "unlock"]
     ELSE \E u \in Waiters : pc' = [pc EXCEPT ![t] = "unlock", ![u] = "woken"]
  /\ UNCHANGED << count, count_mutex, main >>

\* Mutant of Unlock: COUNT_DONE is to be passed, not reached.
Unlock_Late(t) ==
  /\ Goes(t, "unlock", IF count > COUNT_DONE THEN "done" ELSE "lock")
  /\ count_mutex' = NOBODY
  /\ UNCHANGED << count, main >>

\* Mutant of Unlock: the thread that reached COUNT_DONE is the only to end.
Unlock_Exactly(t) ==
  /\ Goes(t, "unlock", IF count = COUNT_DONE THEN "done" ELSE "lock")
  /\ count_mutex' = NOBODY
  /\ UNCHANGED << count, main >>

\* The test for the end is made before the mutex is given back.
Unlock(t) ==
  /\ Goes(t, "unlock", IF count >= COUNT_DONE THEN "done" ELSE "lock")
  /\ count_mutex' = NOBODY
  /\ UNCHANGED << count, main >>

-----------------------------------------------------------------------------
Round(t) == Lock(t) \/ Test(t) \/ Wake(t) \/ Count(t) \/ Signal(t) \/ Unlock(t)

\* exit(0)
Exited == main = 4 /\ UNCHANGED vars

Next ==
  \/ \E t \in Thread : Create(t) \/ Join(t) \/ Round(t)
  \/ Exited

Spec == Init /\ [][Next]_vars

\* The operating system executes main and the threads.
FairSpec ==
  Spec /\ \A t \in Thread : WF_vars(Create(t) \/ Join(t)) /\ WF_vars(Round(t))

-----------------------------------------------------------------------------
(* Properties. *)

Inside == {"test", "count", "signal", "unlock"}

\* Every variable has its type.
TypeOK ==
  /\ count \in Nat
  /\ count_mutex \in {NOBODY} \cup Thread
  /\ pc \in [Thread -> Inside \cup {"unborn", "lock", "wait", "woken", "done"}]
  /\ main \in 0 .. 4

\* "Print odd numbers", "print even numbers" (27, 47): who comes to count++ finds
\* the count as its turn wants it, also when it has slept in pthread_cond_wait and
\* the if is not tested again.
InTurn == \A t \in Thread : pc[t] = "count" => Turn(t)

\* No lost wakeup (38, 58): a thread sleeps through its own turn only while the
\* other is about to signal.
NoLostSignal ==
  \A t, u \in Thread :
    t # u /\ pc[t] = "wait" /\ Turn(t) => pc[u] = "signal"

\* The count ends one past COUNT_DONE (39, 59): who finds it reached has still
\* counted, and nobody counts after having found it reached.
EndsOnePast ==
  /\ count <= COUNT_DONE + 1
  /\ main = 4 => count = COUNT_DONE + 1

\* The inductive invariant: the mutex; whose turn it is before and after
\* count++; and how many have counted when the count is at its end.
Holds == \A t \in Thread : pc[t] \in Inside <=> count_mutex = t

Ordered ==
  \A t \in Thread :
    /\ pc[t] \in {"count", "woken"} => Turn(t)
    /\ pc[t] = "signal" => ~ Turn(t)

Last(t) ==
  count >= COUNT_DONE /\ pc[t] \in {"signal", "unlock", "done"}

Ending ==
  /\ count < COUNT_DONE => \A t \in Thread : pc[t] # "done"
  /\ count = COUNT_DONE => (Last(1) <=> ~ Last(2))
  /\ count > COUNT_DONE => count = COUNT_DONE + 1 /\ Last(1) /\ Last(2)

Joined ==
  /\ main >= 3 => pc[1] = "done"
  /\ main = 4 => pc[2] = "done"

\* Everything that the properties above follow from.
Inv == TypeOK /\ Holds /\ Ordered /\ NoLostSignal /\ Ending /\ Joined

\* main exits: neither thread is left waiting when the other has returned.
Terminates == <>(main = 4)
=============================================================================
