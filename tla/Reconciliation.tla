--------------------------- MODULE Reconciliation ---------------------------
(***************************************************************************)
(* Provider reconciliation: the receipts of metered calls against the      *)
(* usage rows a provider exported.  Pure functions of two sequences.       *)
(*                                                                         *)
(* A receipt is [tier, id, tokens, ts], a row [id, tokens, uncached]; one  *)
(* number stands for a pair of token counts, and "uncached" holds the      *)
(* count without cache traffic, if the row reports one.                    *)
(***************************************************************************)
EXTENDS Integers, Sequences, FiniteSets, SequencesExt

CONSTANTS
  NoId,       \* the record names no request
  BadId,      \* it names several, or an unusable one
  Tolerance   \* tokens two counts of one call may differ by

ASSUME ReconciliationAssumption == NoId # BadId /\ Tolerance \in Nat

TokenSum(records) ==
  SumFunctionOnSet([i \in DOMAIN records |-> records[i].tokens], DOMAIN records)

-----------------------------------------------------------------------------
\* load_t1_receipts: the metered receipts of a half-open window.
IsT1(receipt, window) ==
  receipt.tier = "provider_metered" /\ window.since <= receipt.ts /\ receipt.ts < window.until

LoadT1(receipts, window) ==
  FoldLeft(LAMBDA loaded, r : IF IsT1(r, window) THEN Append(loaded, r) ELSE loaded,
           <<>>, receipts)

\* request_id_digest: two records join only on one exact identifier.
Named(records, id) == {i \in DOMAIN records : records[i].id = id}

ByIdentity(receipts, rows) ==
  \E record \in Range(receipts) \cup Range(rows) : record.id # NoId

CandidatesOfAny(receipts, rows, k) ==
  IF ~ByIdentity(receipts, rows) THEN DOMAIN rows
  ELSE LET id == receipts[k].id IN
       {i \in Named(rows, id) : id \notin {NoId, BadId} /\ Named(receipts, id) = {k}}

\* The rows receipt k may be matched with: an identifier that one receipt and
\* one row carry, or any row when nobody has identifiers.
Candidates(receipts, rows, k) ==
  IF ~ByIdentity(receipts, rows) THEN DOMAIN rows
  ELSE LET id == receipts[k].id IN
       {i \in Named(rows, id) : /\ id \notin {NoId, BadId}
                                /\ Named(rows, id) = {i}
                                /\ Named(receipts, id) = {k}}

Close(a, b) == a - b \in -Tolerance .. Tolerance

Exact(receipt, row) == Close(row.tokens, receipt.tokens)

\* Receipts minted before prompts counted cache traffic.
Legacy(receipt, row) == \E u \in row.uncached : Close(u, receipt.tokens)

\* The rows that fit receipt k, an exact one before a legacy one.
Hits(receipts, rows, k, matched) ==
  LET free == Candidates(receipts, rows, k) \ Range(matched)
      exact == {i \in free : Exact(receipts[k], rows[i])}
      legacy == {i \in free : Legacy(receipts[k], rows[i])}
  IN IF exact # {} THEN exact ELSE legacy

\* reconcile takes the receipts in order and gives each the first free row
\* that fits.
Matching(receipts, rows) ==
  FoldLeftDomain(
    LAMBDA matched, k :
      LET hits == Hits(receipts, rows, k, matched)
      IN IF hits = {} THEN matched
         ELSE [j \in DOMAIN matched \cup {k} |-> IF j = k THEN Min(hits) ELSE matched[j]],
    <<>>, receipts)

\* An agreement is a fraction [of, in]; 0/0 is no agreement at all.
NoAgreement == [of |-> 0, in |-> 0]

Verdict(total, agrees) ==
  IF total = 0 THEN "NO_T1_RECEIPTS" ELSE IF agrees THEN "RECONCILED" ELSE "DISCREPANCY"

PerRequest(receipts, rows) ==
  LET matched == Cardinality(DOMAIN Matching(receipts, rows))
  IN [verdict |-> Verdict(Len(receipts), matched = Len(receipts)),
      identity |-> ByIdentity(receipts, rows),
      agreement |-> [of |-> matched, in |-> Len(receipts)]]

\* aggregate_reconcile: never more metered than billed, up to a percentage.
Aggregate(receipts, rows, percent) ==
  LET ours == TokenSum(receipts)
      billed == TokenSum(rows)
  IN [verdict |-> Verdict(ours, ours * 100 <= billed * (100 + percent)),
      identity |-> TRUE,
      agreement |-> [of |-> Min({ours, billed}), in |-> ours]]

-----------------------------------------------------------------------------
\* INDEPENDENT_AGREEMENT_BAR is 0.8.
AtBar(agreement) == agreement.in > 0 /\ 10 * agreement.of >= 8 * agreement.in

\* readiness_label, for a test suite that is green and a clean self-audit.
ReadinessLabel(agreement, realCorpus) ==
  IF ~AtBar(agreement) THEN "internally_consistent"
  ELSE IF realCorpus THEN "production_ready" ELSE "research_grade"

Reconciled(t1, rows, config) ==
  IF t1 = <<>> THEN [verdict |-> "NO_T1_RECEIPTS", identity |-> FALSE, agreement |-> NoAgreement]
  ELSE IF config.mode = "aggregate" THEN Aggregate(t1, rows, config.percent)
  ELSE PerRequest(t1, rows)

\* A reconciliation counts for the grade when it is complete and, per request,
\* when it joined identifiers.
Graded(count, recon) ==
  LET eligible == recon.verdict = "RECONCILED" /\ recon.identity
  IN [verdict |-> recon.verdict, identity |-> recon.identity, agreement |-> recon.agreement,
      t1 |-> count,
      grade |-> ReadinessLabel(IF eligible THEN recon.agreement ELSE NoAgreement, FALSE)
                  # "internally_consistent"]

\* assess
Assess(receipts, rows, config) ==
  LET t1 == LoadT1(receipts, config.window)
  IN Graded(Len(t1), Reconciled(t1, rows, config))
=============================================================================
