--------------------------- MODULE MCSelectorBase ---------------------------
EXTENDS SelectorBase, TLC
Symmetry == Permutations(Selectables)
=============================================================================
