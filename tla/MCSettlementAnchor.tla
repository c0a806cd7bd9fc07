------------------------- MODULE MCSettlementAnchor -------------------------
(***************************************************************************)
(* Small instances of SettlementAnchor for TLC.                            *)
(***************************************************************************)
EXTENDS MCSettlement, SettlementAnchor

\* No property of this run and no guard reads `stranded'.
SeenByHosts == <<filesVars, holder, pending, grants, seller, pc, job, moved, anchor>>
=============================================================================
