-------------------------- MODULE MCCountDownLatch --------------------------
(* Three waiting threads; the counts are given by each configuration.       *)
EXTENDS CountDownLatch, TLC

Symmetry == Permutations(Callers)
=============================================================================
