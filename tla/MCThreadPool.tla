---------------------------- MODULE MCThreadPool ----------------------------
EXTENDS ThreadPool, TLC
Symmetry == Permutations(Workers) \cup Permutations(Items) \cup Permutations(Producers)
=============================================================================
