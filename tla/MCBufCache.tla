----------------------------- MODULE MCBufCache -----------------------------
EXTENDS BufCache, TLC

CONSTANTS p1, p2, b1, b2, b3, k1, k2, k3, v0, v1

Symmetry == Permutations(Proc) \cup Permutations(Buf)
=============================================================================
