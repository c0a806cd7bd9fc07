------------------------------- MODULE MCLease ------------------------------
(***************************************************************************)
(* Small instances of Lease for TLC: two offers that do not fit together,  *)
(* each accepted any number of times.                                      *)
(***************************************************************************)
EXTENDS Lease, TLC

CONSTANTS p1, p2, p3, o1, o2

Amounts == o1 :> 1 @@ o2 :> 2

ProcessesAlike == Permutations(Process)
=============================================================================
