--------------------------- MODULE MCStreamBuffer ---------------------------
EXTENDS StreamBuffer, TLC

Symmetric == Permutations(Refs)
=============================================================================
