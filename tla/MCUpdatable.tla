---------------------------- MODULE MCUpdatable ----------------------------
EXTENDS Updatable, TLC

Symmetry == Permutations(Controllers) \cup Permutations(Loops)
=============================================================================
