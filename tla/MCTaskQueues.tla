---------------------------- MODULE MCTaskQueues ----------------------------
EXTENDS TaskQueues, TLC

Symmetry == Permutations(Threads)
=============================================================================
