-------------------------- MODULE MCThreadedQueue --------------------------
EXTENDS ThreadedQueue, TLC

Symmetry == Permutations(Consumers)
=============================================================================
