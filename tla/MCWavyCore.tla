----------------------------- MODULE MCWavyCore -----------------------------
EXTENDS WavyCore, TLC
Sym == Permutations(Workers)
=============================================================================
