---------------------------- MODULE MCActionLog ----------------------------
EXTENDS ActionLog, TLC

CONSTANTS p1, p2, t1

Alike == Permutations({p1, p2})
=============================================================================
