--------------------------- MODULE SchedulerLists ---------------------------
(***************************************************************************)
(* Why the lists of Scheduler are right, and why its scheduler always      *)
(* finds a thread to run: the inductive invariant of SchedulerProofs.      *)
(*                                                                         *)
(* It is that of calls the alarm and the clock do not interrupt, made by   *)
(* programs like main.c and main_0.c, in which one thread makes all the    *)
(* joins.  Without either the lists do get wrong: see lock_lost_waiter and *)
(* join_two_waiters.                                                       *)
(***************************************************************************)
EXTENDS Scheduler, ThreadLists

OneJoiner == \E j \in Thread : Joins \subseteq {j} \X (Thread \ {j})

Calm == ~ AlarmAnywhere /\ ~ ClockAnywhere /\ OneJoiner

-----------------------------------------------------------------------------
(* The lists. *)

\* All of the nodes of a queue; as many of a mutex as it counts.
Lists ==
  [l \in List |->
     IF l[1] = "queue"
     THEN [k \in 1 .. FirstAt(Walk(heap, l[2]), {NULL}) |-> Walk(heap, l[2])[k - 1]]
     ELSE [k \in 1 .. heap.wait[l[2]].numNodes |->
             WalkFrom(heap, heap.wait[l[2]].front)[k - 1]]]

\* Who waits longer is nearer to the head: the thread that aging promotes is
\* the first, and rear of queue 1 stays right.
Sorted(x, since) ==
  \A j, k \in 1 .. Len(x) : j < k => since[x[j]] >= since[x[k]]

Young(x, since) == \A k \in 1 .. Len(x) : since[x[k]] <= AgeLimit

\* rear of queue 0 is stale while scheduler() calls itself for a dead thread
\* whose waiter it put in an empty queue; nobody is promoted then.
Rears(h, c, again, since) ==
  \A q \in Queue :
    \/ RearIs(h, q, c[OfQueue(q)])
    \/ /\ q = Running /\ again
       /\ Len(c[OfQueue(q)]) = 1
       /\ Young(c[OfQueue(Low)], since)

Listed(t) ==
  activeFlag[t] # "NONE" /\ (t # running \/ recursing \/ pc[t] = "lock_sched")

ListInv ==
  /\ Linked(heap, Lists) /\ Once(Lists)
  /\ \A l \in List : \A k \in 1 .. Len(Lists[l]) : Home(Lists[l][k]) = l
  /\ \A t \in Thread : Listed(t) <=> Among(Lists, t)
  /\ Rears(heap, Lists, recursing, sinceRun)
  /\ Sorted(Lists[OfQueue(Low)], sinceRun)
  /\ recursing => Lists[OfQueue(Running)] # << >> /\ Lists[OfQueue(Waiting)] = << >>
  /\ Listed(running) \/ NextIs(heap, Lists, running)
  /\ \A t \in Thread : Ends(WalkFrom(heap, t))

-----------------------------------------------------------------------------
(* What goes with the lists: flags, calls, locks and joins. *)

\* Before the first create there are no lists.
StartInv ==
  \/ /\ currThread = NULL /\ running = Main /\ ~ recursing
     /\ \A t \in Thread : activeFlag[t] = "NONE"
  \/ /\ currThread = running
     /\ activeFlag[Main] \notin {"NONE", "DEAD"}
     /\ pc[Main] \notin {"exit_value", "exit_sched", "end_dead", "end_sched", "end_done"}
     /\ recursing => activeFlag[running] = "DEAD"

\* The flags of the thread that runs, and of the others.
OnFlags(p) ==
  CASE p = "yield_sched" -> {"YIELD"}
    [] p \in {"exit_value", "exit_sched", "end_sched"} -> {"DEAD"}
    [] p = "join_list" -> {"WAITING"}
    [] p \in {"lock_enqueue", "lock_sched"} -> {"BLOCKING"}
    [] p = "join_sched" -> {"WAITING", "ACTIVE", "RUNNABLE"}
    [] p = "end_done" -> {}
    [] OTHER -> {"ACTIVE", "RUNNABLE"}

OffFlags(p) ==
  CASE p = "user" -> {"NONE", "ACTIVE", "RUNNABLE", "DEAD"}
    [] p = "lock_tas" -> {"ACTIVE", "RUNNABLE", "BLOCKING"}
    [] p = "join_done" -> {"ACTIVE", "RUNNABLE", "WAITING"}
    [] p = "end_done" -> {"DEAD"}
    [] OTHER -> {}

FlagInv ==
  \A t \in Thread :
    activeFlag[t] \in IF t = currThread /\ ~ recursing
                      THEN OnFlags(pc[t]) ELSE OffFlags(pc[t])

Woken(m) ==
  \E t \in Thread :
    mutex[t] = m /\ pc[t] = "lock_tas" /\ activeFlag[t] \in {"ACTIVE", "RUNNABLE"}

Contended(m) ==
  flag[m] = 1 /\ \A t \in Thread : ~ (pc[t] = "unlock_clear" /\ mutex[t] = m)

HeldInv ==
  /\ \A t \in Thread :
       /\ held[t] # {} =>
            /\ pc[t] \notin JoinPCs \cup
                 {"exit_value", "exit_sched", "end_dead", "end_sched", "end_done"}
            /\ activeFlag[t] \notin {"NONE", "DEAD", "WAITING"}
       /\ pc[t] \in LockPCs => \A n \in held[t] : n < mutex[t]
       /\ pc[t] \in {"lock_block", "lock_enqueue"} => flag[mutex[t]] = 1
       /\ activeFlag[t] = "BLOCKING" => Contended(mutex[t]) \/ Woken(mutex[t])
  /\ \A m \in Mutex : flag[m] = 1 => \E t \in Thread : InCritical(t, m)

\* x is dead and has left the processor for good, and its value is stored.
Buried(x) ==
  activeFlag[x] = "DEAD" /\ (x = running => recursing) /\ x \in valueSet

JoinInv ==
  \A w \in Thread :
    /\ pc[w] \in JoinPCs <=> target[w] # NULL
    /\ target[w] # NULL => << w, target[w] >> \in Joins /\ activeFlag[target[w]] # "NONE"
    /\ returnList[w] \subseteq joined[w] \cup {target[w]}
    /\ activeFlag[w] = "WAITING" /\ pc[w] # "join_list" => target[w] \in returnList[w]
    /\ pc[w] \in {"join_wait", "join_list"} \/ activeFlag[w] = "WAITING" =>
         activeFlag[target[w]] # "DEAD" \/ (running = target[w] /\ ~ recursing)
    /\ pc[w] \in {"join_sched", "join_done"} /\ activeFlag[w] # "WAITING" =>
         Buried(target[w]) /\ joinValue[w][target[w]] # "none"
    /\ \A x \in joined[w] :
         Buried(x) /\ x # running /\ joinValue[w][x] # "none" /\ << w, x >> \in Joins

ValueInv ==
  \A t \in Thread :
    (activeFlag[t] = "DEAD" /\ pc[t] # "exit_value") \/ pc[t] = "end_dead" => t \in valueSet

CalmInv ==
  /\ ListInv /\ StartInv /\ FlagInv /\ HeldInv /\ JoinInv /\ ValueInv
  /\ process \in {"up", "exited"}
=============================================================================
