-------------------------- MODULE MCFirstRevision --------------------------
(***************************************************************************)
(* FirstRevision for TLC.                                                  *)
(***************************************************************************)
EXTENDS FirstRevision, TLC

CONSTANTS T1, T2

TwoThreads == {Main, T1, T2}

\* As in the tests, main does not lock.
Made == {T1, T2}

\* The threads Main makes differ in name only.
ThreadsAlike == Permutations(Made)
=============================================================================
