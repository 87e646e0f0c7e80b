------------------------------ MODULE MCAlarm -------------------------------
EXTENDS Alarm, TLC

CONSTANTS p1, p2

Symmetry == Permutations(Proc)
=============================================================================
