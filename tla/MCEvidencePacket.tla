-------------------------- MODULE MCEvidencePacket --------------------------
(***************************************************************************)
(* A small instance of EvidencePacket for TLC: two metered calls and one   *)
(* that is not, and exports that do and do not account for them.           *)
(***************************************************************************)
EXTENDS EvidencePacket

CONSTANTS r1, r2, v1, v2, v3

Calls ==
  <<[hash |-> 1, tier |-> "provider_metered", id |-> r1, tokens |-> 2, ts |-> 1],
    [hash |-> 2, tier |-> "self_reported", id |-> NoId, tokens |-> 1, ts |-> 1],
    [hash |-> 3, tier |-> "provider_metered", id |-> r2, tokens |-> 1, ts |-> 2]>>

Row(id, tokens) == [id |-> id, tokens |-> tokens, uncached |-> {}]

\* In full, the first row with cache traffic; a row twice; without names.
Exported ==
  <<<<[id |-> r1, tokens |-> 4, uncached |-> {2}], Row(r2, 1)>>,
    <<Row(r1, 2), Row(r2, 1), Row(r2, 1)>>,
    <<Row(NoId, 2), Row(NoId, 1)>>>>

Window == [since |-> 1, until |-> 3]

Plans ==
  <<[corpus |-> "real", mode |-> "per-request", percent |-> 2, window |-> Window],
    [corpus |-> "real", mode |-> "aggregate", percent |-> 2, window |-> Window]>>

ReviewersAlike == Permutations(Reviewer)
=============================================================================
