---------------------------- MODULE MCKryLedger ----------------------------
(***************************************************************************)
(* Small instances of KryLedger for TLC.                                   *)
(***************************************************************************)
EXTENDS KryLedger, TLC

CONSTANTS p1, p2, o1, t1, t2, i1, i2

Symmetric == Permutations({p1, p2}) \cup Permutations({t1, t2})
               \cup Permutations({i1, i2})
=============================================================================
