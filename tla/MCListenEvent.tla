--------------------------- MODULE MCListenEvent ---------------------------
EXTENDS ListenEvent, TLC

Symmetry == Permutations(Listeners)
=============================================================================
