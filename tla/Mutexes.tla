------------------------------- MODULE Mutexes -------------------------------
(***************************************************************************)
(* What a mutex of the library is to its callers: at most one thread holds *)
(* it, which got it when nobody did and gives it back itself.              *)
(***************************************************************************)
CONSTANTS Thread, Mutex, NULL

VARIABLE holder  \* the thread that holds each mutex, or NULL

Init == holder = [m \in Mutex |-> NULL]

Acquire(t, m) ==
  /\ holder[m] = NULL
  /\ holder' = [holder EXCEPT ![m] = t]

Release(t, m) ==
  /\ holder[m] = t
  /\ holder' = [holder EXCEPT ![m] = NULL]

Next == \E t \in Thread, m \in Mutex : Acquire(t, m) \/ Release(t, m)

Spec == Init /\ [][Next]_holder
=============================================================================
