------------------------------- MODULE MCMint -------------------------------
(***************************************************************************)
(* A small instance of Pending over Mint for TLC: a host's receipt and a   *)
(* strict one share an evidence; two presentations of a generation and an  *)
(* enclave measurement verify the host's; a deferred displacement of the   *)
(* same generation earns nothing.                                          *)
(***************************************************************************)
EXTENDS Pending, TLC

CONSTANTS p1, p2, e1, e2, e3, g1, g2, i1

MakeCall(kind, evidence, gen, worth, detail) ==
  [kind |-> kind, evidence |-> evidence, gen |-> gen, worth |-> worth, detail |-> detail]

Calls == {
  MakeCall("host", e1, g1, 1, "routed"),
  MakeCall("strict", e1, g2, 1, "strict"),
  MakeCall("tlsn", e2, g1, 1, "first"),
  MakeCall("tlsn", e3, g1, 1, "second"),
  MakeCall("tee", e2, g1, 1, "enclave")}

Deferral == i1 :> MakeCall("host", e1, g1, 0, "deferred")

Details == {"routed", "strict", "first", "second", "enclave", "deferred"}

\* A host and the two presentations only.
Presentations == {c \in Calls : c.kind = "tlsn" \/ c.detail = "routed"}

ProcessesAlike == Permutations(Process)
=============================================================================
