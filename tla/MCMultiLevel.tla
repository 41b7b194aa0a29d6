---------------------------- MODULE MCMultiLevel ----------------------------
(***************************************************************************)
(* MultiLevel for TLC.                                                     *)
(***************************************************************************)
EXTENDS MultiLevel, TLC

CONSTANTS T1, T2, T3

ThreeThreads == {T1, T2, T3}

\* The threads differ in name only.
ThreadsAlike == Permutations(Thread)
=============================================================================
