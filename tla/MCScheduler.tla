---------------------------- MODULE MCScheduler ----------------------------
(***************************************************************************)
(* Scheduler for TLC: the sets of threads, joins and mutexes of the runs.  *)
(***************************************************************************)
EXTENDS SchedulerRefinement, SchedulerLists, TLC

CONSTANTS T1, T2, T3

TwoThreads   == {Main, T1, T2}
ThreeThreads == {Main, T1, T2, T3}

\* main.c and main_0.c: Main joins every thread it made.
MainJoinsAll == {Main} \X (Thread \ {Main})

\* Two threads join one: Main joins the others, and T1 joins T2.
TwoJoinOne == MainJoinsAll \cup {<< T1, T2 >>}

\* Threads that never join.
NoJoins == {}

\* The threads Main makes differ in name only.
ThreadsAlike == Permutations({T1, T2, T3} \cap Thread)
=============================================================================
