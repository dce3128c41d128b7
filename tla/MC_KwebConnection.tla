-------------------------- MODULE MC_KwebConnection --------------------------
(***************************************************************************)
(* KwebConnection for TLC: the sending threads are interchangeable.        *)
(***************************************************************************)
EXTENDS KwebConnection, TLC

ThreadSymmetry == Permutations(Threads)
=============================================================================
