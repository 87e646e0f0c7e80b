------------------------------- MODULE MCPipe -------------------------------
EXTENDS Pipe, TLC

CONSTANTS r1, w1, w2

Symmetry == Permutations(Reader) \cup Permutations(Writer)
=============================================================================
