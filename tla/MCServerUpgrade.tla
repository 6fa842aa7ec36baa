--------------------------- MODULE MCServerUpgrade ---------------------------
EXTENDS ServerUpgrade, TLC

Symmetry == Permutations(Tasks) \cup Permutations(Temps)
=============================================================================
