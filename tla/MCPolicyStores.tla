--------------------------- MODULE MCPolicyStores ---------------------------
EXTENDS PolicyStores, TLC

CONSTANTS w1, w2, w3, p1, p2, r1, r2, a1, c1

TwoProcesses == w1 :> p1 @@ w2 :> p1 @@ w3 :> p2

Alike == Permutations({w1, w2})
=============================================================================
