---------------------------- MODULE Attestation ----------------------------
(***************************************************************************)
(* The mint log as others judge it: verify_chain and veracity_breakdown of *)
(* kry_mint on the private log, the public attestation kry_attest builds   *)
(* from it, its verifier, the standalone one of scripts/kry_verify.py, and *)
(* the published anchor of the chain's head.  A log holds receipts of      *)
(* every format the program ever wrote; its lines may be rewritten, minted *)
(* again or rolled back to a backup, which is what all of this is to show. *)
(*                                                                         *)
(* A hash is modelled by what it covers.  Evidence, times, events, metered *)
(* counts and rates are left out; tokens and multipliers stand for the     *)
(* published arithmetic.                                                   *)
(***************************************************************************)
EXTENDS Integers, Sequences, FiniteSetsExt, SequencesExt

CONSTANTS
  OldVersion,    \* the formats of receipts before the present one
  Tier,          \* evidence tiers in use
  SelfReported,  \* the tier nobody vouches for
  Attested,      \* the tiers a promotion can give: tlsn_attested, tee_attested
  Multiplier,    \* published price multipliers
  MaxReceipts,   \* bound: rows of a log
  MaxChanges     \* bound: rewrites, second mintings and roll-backs

ASSUME TierAssumption == SelfReported \in Tier /\ Attested \subseteq Tier \ {SelfReported}
ASSUME VersionAssumption ==
  OldVersion \subseteq 1..6 /\ Multiplier \subseteq Nat /\ MaxReceipts \in Nat

Current == 7                    \* what MintReceipt.create writes
Anchored == Tier \ {SelfReported}
NoReceipt == 0
Genesis == <<>>

VARIABLES
  log,       \* the rows of the mint log
  tip,       \* the local checkpoint, [count, chain]
  anchor,    \* the last published anchor, [count, chain]
  minted,    \* history: the rows as they were written
  pinned,    \* history: the rows the anchor was exported over
  changes    \* history: how often somebody changed the files

attestationVars == <<log, tip, anchor, minted, pinned, changes>>

-----------------------------------------------------------------------------
(* What the hashes of a row cover *)

\* The content of receipt_hash: the tier since version 2.
ReceiptOf(r) == IF r.version >= 2 THEN <<r.tokens, r.tier>> ELSE <<r.tokens>>

\* Fault: the public block of every version leaves the id out.
BlockWithoutId(r) == <<r.version, r.tokens, r.tier, r.kry, r.supersedes>>

\* The public block, in chain_hash since version 4; with the id since 6.
Block(r) ==
  <<r.version, r.tokens, r.tier, r.kry, r.supersedes>>
    \o (IF r.version >= 6 THEN <<r.id>> ELSE <<>>)

Covered(r) == IF r.version >= 4 THEN <<r.receipt, Block(r)>> ELSE <<r.receipt>>

HeadOf(rows) == IF rows = <<>> THEN Genesis ELSE Last(rows).chain

\* MintReceipt.create: a row over the last recorded chain hash.
Extended(rows, r) ==
  LET sealed == [r EXCEPT !.receipt = ReceiptOf(r)]
  IN  Append(rows, [sealed EXCEPT !.chain = Append(HeadOf(rows), Covered(sealed))])

-----------------------------------------------------------------------------
(* What every verifier asks of the rows *)

Linked(rows) ==
  \A i \in DOMAIN rows :
    rows[i].chain = Append(HeadOf(SubSeq(rows, 1, i - 1)), Covered(rows[i]))

NeverDowngraded(rows) ==
  \A i, j \in DOMAIN rows : i < j => rows[i].version <= rows[j].version

HashBound(r) == r.version >= 6

IdsUnique(rows) ==
  \A i, j \in DOMAIN rows :
    HashBound(rows[i]) /\ HashBound(rows[j]) /\ rows[i].id = rows[j].id => i = j

\* The value of a row follows from its tokens by a published multiplier.
Priced(r) ==
  IF r.tokens = 0 THEN r.kry = 0 ELSE \E m \in Multiplier : r.kry = r.tokens * m

\* The value of some of the rows.
Worth(rows, some) == SumFunctionOnSet([i \in DOMAIN rows |-> rows[i].kry], some)

Total(rows) == Worth(rows, DOMAIN rows)

-----------------------------------------------------------------------------
(* The promotion overlay *)

\* A promotion is a row of no value that names the row it upgrades.
Promotes(r) == r.tier \in Attested /\ r.supersedes # NoReceipt /\ r.kry = 0

Promotions(rows) == {i \in DOMAIN rows : Promotes(rows[i])}

\* Fault: a row stays a target after it was promoted.
Unconsumed(rows, tierOf, state, j) ==
  LET target == state.targets[rows[j].supersedes]
  IN  IF target \in 1..(j - 1) /\ rows[target].kry > 0
      THEN [state EXCEPT !.tiers[tierOf[target]] = @ - rows[target].kry,
                         !.tiers[rows[j].tier] = @ + rows[target].kry]
      ELSE state

\* One promotion: the value of an earlier row of value moves, once.
Moved(rows, tierOf, state, j) ==
  LET target == state.targets[rows[j].supersedes]
      taken == [state.tiers EXCEPT ![tierOf[target]] = @ - rows[target].kry]
  IN  IF target \in 1..(j - 1) /\ rows[target].kry > 0
      THEN [tiers   |-> [taken EXCEPT ![rows[j].tier] = @ + rows[target].kry],
            targets |-> [state.targets EXCEPT ![rows[j].supersedes] = 0]]
      ELSE state

\* The promotions are applied in the order of the rows.
Overlay(rows, tierOf, start, promotions) ==
  LET Step(state, j) == IF j \in promotions THEN Moved(rows, tierOf, state, j) ELSE state
  IN  FoldLeft(Step, start, [j \in DOMAIN rows |-> j])

Sums(rows, tierOf) ==
  [t \in Tier |-> Worth(rows, {i \in DOMAIN rows : tierOf[i] = t})]

Overlaid(rows, tierOf, targets) ==
  Overlay(rows, tierOf, [tiers |-> Sums(rows, tierOf), targets |-> targets],
          Promotions(rows)).tiers

Ids(rows) == {rows[i].id : i \in DOMAIN rows} \cup {rows[i].supersedes : i \in DOMAIN rows}

Bearers(rows, id) == {i \in DOMAIN rows : HashBound(rows[i]) /\ rows[i].id = id}

\* veracity_breakdown and build_attestation: an id that names two rows names
\* none.
Targets(rows) ==
  [id \in Ids(rows) |-> IF Cardinality(Bearers(rows, id)) = 1
                        THEN Max(Bearers(rows, id)) ELSE 0]

\* veracity_breakdown.
Breakdown(rows) == Overlaid(rows, [i \in DOMAIN rows |-> rows[i].tier], Targets(rows))

AnchoredSum(tiers) == MapThenSumSet(LAMBDA t : tiers[t], Anchored)

-----------------------------------------------------------------------------
(* The private log *)

\* The checkpoint never runs ahead of the log, nor beside it.
CheckpointHolds(rows) ==
  /\ Len(rows) >= tip.count
  /\ Len(rows) = tip.count => HeadOf(rows) = tip.chain

VerifyChain(rows) ==
  /\ \A i \in DOMAIN rows :
       /\ Priced(rows[i])
       /\ rows[i].receipt = ReceiptOf(rows[i])
       /\ rows[i].version < 2 => rows[i].tier = SelfReported
  /\ Linked(rows) /\ NeverDowngraded(rows) /\ IdsUnique(rows)
  /\ CheckpointHolds(rows)

-----------------------------------------------------------------------------
(* The public attestation *)

FloorOf(anchored, total) == IF total > 0 THEN <<anchored, total>> ELSE <<0, 1>>

\* build_attestation judges the links, the versions and the ids, no more.
Attest(rows) ==
  LET tiers == Breakdown(rows)
      anchored == AnchoredSum(tiers)
  IN  [links    |-> rows,
       receipts |-> Len(rows),
       total    |-> Total(rows),
       head     |-> HeadOf(rows),
       valid    |-> NeverDowngraded(rows) /\ Linked(rows) /\ IdsUnique(rows),
       tiers    |-> tiers,
       anchored |-> anchored,
       self     |-> tiers[SelfReported],
       floor    |-> FloorOf(anchored, Total(rows))]

\* Before version 4 a tier is not bound in public and does not count.
PublicTier(r) == IF r.version < 4 THEN SelfReported ELSE r.tier

\* The verifier's map keeps the last row of an id; two are an error anyway.
LastBearers(rows) == [id \in Ids(rows) |-> Max(Bearers(rows, id) \cup {0})]

PublicTierOf(rows) == [i \in DOMAIN rows |-> PublicTier(rows[i])]

PublicTiers(rows) == Overlaid(rows, PublicTierOf(rows), LastBearers(rows))

EnvelopeHolds(doc) == doc.receipts = Len(doc.links) /\ doc.valid

LinksHold(links) ==
  /\ \A i \in DOMAIN links :
       /\ links[i].version <= Current
       /\ links[i].tier = PublicTier(links[i])
       /\ Priced(links[i])
  /\ NeverDowngraded(links) /\ Linked(links) /\ IdsUnique(links)

TotalsHold(doc) == doc.total = Total(doc.links) /\ doc.head = HeadOf(doc.links)

VeracityHolds(doc) ==
  LET tiers == PublicTiers(doc.links)
      anchored == AnchoredSum(tiers)
  IN  /\ \A t \in Tier : tiers[t] >= 0
      /\ doc.tiers = tiers /\ doc.anchored = anchored /\ doc.self = tiers[SelfReported]
      /\ doc.floor = FloorOf(anchored, Total(doc.links))

\* kry_attest.verify_attestation.
Accepts(doc) ==
  EnvelopeHolds(doc) /\ LinksHold(doc.links) /\ TotalsHold(doc) /\ VeracityHolds(doc)

-----------------------------------------------------------------------------
(* The standalone verifier: one pass over the links, then the overlay *)

ScanStart(links) ==
  [prev |-> Genesis, version |-> 0, total |-> 0,
   tiers |-> [t \in Tier |-> 0],
   targets |-> [id \in Ids(links) |-> 0],
   promotions |-> {}, ok |-> TRUE]

\* Fault: a promotion of a row of value counts.
PromotionOfValue(scan, link, tier, i) ==
  IF tier \in Attested /\ link.supersedes # NoReceipt THEN scan.promotions \cup {i}
  ELSE scan.promotions

Noted(scan, link, tier, i) ==
  IF tier \in Attested /\ link.supersedes # NoReceipt /\ link.kry = 0
  THEN scan.promotions \cup {i} ELSE scan.promotions

\* A format the verifier does not know fails and is not summed.
ScanLink(links, scan, i) ==
  LET link == links[i]
      tier == IF link.version < 4 THEN SelfReported ELSE link.tier
      seen == link.version >= 6 /\ scan.targets[link.id] # 0
      fine == /\ link.version >= scan.version
              /\ link.chain = Append(scan.prev, Covered(link))
              /\ link.tier = tier /\ ~seen /\ Priced(link)
  IN  IF link.version > Current THEN [scan EXCEPT !.prev = link.chain, !.ok = FALSE]
      ELSE [prev |-> link.chain,
            version |-> Max({scan.version, link.version}),
            total |-> scan.total + link.kry,
            tiers |-> [scan.tiers EXCEPT ![tier] = @ + link.kry],
            targets |-> IF link.version < 6 THEN scan.targets
                        ELSE [scan.targets EXCEPT ![link.id] = i],
            promotions |-> Noted(scan, link, tier, i),
            ok |-> scan.ok /\ fine]

Scanned(links) ==
  LET Step(scan, i) == ScanLink(links, scan, i)
  IN  FoldLeft(Step, ScanStart(links), [i \in DOMAIN links |-> i])

StrangerTiers(links, scan) ==
  Overlay(links, PublicTierOf(links), [tiers |-> scan.tiers, targets |-> scan.targets],
          scan.promotions).tiers

\* scripts/kry_verify.py: verify_attestation.
StrangerAccepts(doc) ==
  LET scan == Scanned(doc.links)
      tiers == StrangerTiers(doc.links, scan)
      anchored == AnchoredSum(tiers)
  IN  /\ doc.receipts = Len(doc.links) /\ doc.valid /\ scan.ok
      /\ doc.total = scan.total /\ doc.head = HeadOf(doc.links)
      /\ \A t \in Tier : tiers[t] >= 0
      /\ doc.tiers = tiers /\ doc.anchored = anchored /\ doc.self = tiers[SelfReported]
      /\ doc.floor = FloorOf(anchored, scan.total)

-----------------------------------------------------------------------------
(* The published anchor *)

\* Fault: the anchor is compared without replaying the chain.
HeadOnly(rows) ==
  anchor.count <= Len(rows) /\ HeadOf(SubSeq(rows, 1, anchor.count)) = anchor.chain

\* verify_chain_against_anchor.
MatchesAnchor(rows) ==
  /\ VerifyChain(rows)
  /\ anchor.count <= Len(rows)
  /\ HeadOf(SubSeq(rows, 1, anchor.count)) = anchor.chain

\* verify_attestation_against_anchor; main asks for both verdicts.
StrangerAnchored(doc) ==
  /\ anchor.count <= Len(doc.links)
  /\ HeadOf(SubSeq(doc.links, 1, anchor.count)) = anchor.chain

StrangerVerdict(doc) == StrangerAccepts(doc) /\ StrangerAnchored(doc)

-----------------------------------------------------------------------------
(* The log grows *)

NextId == IF log = <<>> THEN 1 ELSE Last(log).id + 1

Row(version, tier, tokens, kry, supersedes) ==
  [version |-> version, id |-> NextId, tier |-> tier, tokens |-> tokens, kry |-> kry,
   supersedes |-> supersedes, receipt |-> <<>>, chain |-> Genesis]

\* A log of another time starts with an old row and without a checkpoint.
AttestationInit ==
  /\ tip = [count |-> 0, chain |-> Genesis]
  /\ anchor = [count |-> 0, chain |-> Genesis] /\ pinned = <<>>
  /\ changes = 0
  /\ \/ log = <<>>
     \/ \E v \in OldVersion, t \in Tier, m \in Multiplier :
          /\ v < 2 => t = SelfReported
          /\ log = Extended(<<>>, [version |-> v, id |-> 1, tier |-> t, tokens |-> 1, kry |-> m,
                                   supersedes |-> NoReceipt, receipt |-> <<>>, chain |-> Genesis])
  /\ minted = log

Write(r) ==
  /\ Len(log) < MaxReceipts
  /\ log' = Extended(log, r) /\ minted' = Extended(minted, r)
  /\ tip' = [count |-> r.id, chain |-> HeadOf(log')]
  /\ UNCHANGED <<anchor, pinned, changes>>

Mint ==
  \E t \in Tier, m \in Multiplier : Write(Row(Current, t, 1, m, NoReceipt))

Promotable(i, tiers) ==
  /\ log[i].tier \notin Attested /\ log[i].kry > 0
  /\ \A j \in DOMAIN log : ~(log[j].tier \in tiers /\ log[j].supersedes = log[i].id)

\* A receipt is promoted to one tier.
Promote ==
  \E i \in DOMAIN log, t \in Attested :
    Promotable(i, Attested) /\ Write(Row(Current, t, 0, 0, log[i].id))

\* Logs hold what the program wrote when it asked for promotions to the same
\* tier only: a receipt promoted to both.
PromoteToBoth ==
  \E i \in DOMAIN log, t \in Attested :
    Promotable(i, {t}) /\ Write(Row(Current, t, 0, 0, log[i].id))

ExportAnchor ==
  /\ anchor' = [count |-> Len(log), chain |-> HeadOf(log)]
  /\ pinned' = minted
  /\ UNCHANGED <<log, tip, minted, changes>>

-----------------------------------------------------------------------------
(* The files are changed by somebody else *)

\* One field of a row, with the hashes it had.
Altered(r) ==
  ({[r EXCEPT !.id = id] : id \in 1..MaxReceipts}
    \cup {[r EXCEPT !.tier = t] : t \in Tier}
    \cup {[r EXCEPT !.kry = k] : k \in {0} \cup Multiplier}
    \cup {[r EXCEPT !.supersedes = id] : id \in 0..MaxReceipts}
    \cup {[r EXCEPT !.version = v] : v \in OldVersion \cup {Current, Current + 1}}) \ {r}

Change == changes < MaxChanges /\ changes' = changes + 1

\* A line is rewritten in place.
Rewrite ==
  /\ Change
  /\ \E i \in DOMAIN log : \E r \in Altered(log[i]) : log' = [log EXCEPT ![i] = r]
  /\ UNCHANGED <<tip, anchor, minted, pinned>>

\* Everything from a line on is minted again, and the checkpoint with it.
MintAgain ==
  /\ Change
  /\ \E i \in DOMAIN log : \E r \in Altered(log[i]) :
       LET again == <<r>> \o SubSeq(log, i + 1, Len(log))
       IN  /\ log' = FoldLeft(Extended, SubSeq(log, 1, i - 1), again)
           /\ minted' = FoldLeft(Extended, SubSeq(minted, 1, i - 1), again)
  /\ tip' = [count |-> Len(log'), chain |-> HeadOf(log')]
  /\ UNCHANGED <<anchor, pinned>>

\* A backup of the log comes back, with its checkpoint or without.
RollBack ==
  /\ Change
  /\ \E n \in 0..(Len(log) - 1) :
       /\ log' = SubSeq(log, 1, n) /\ minted' = SubSeq(minted, 1, n)
       /\ \/ UNCHANGED tip
          \/ tip' = [count |-> n, chain |-> HeadOf(log')]
  /\ UNCHANGED <<anchor, pinned>>

AttestationNext ==
  Mint \/ Promote \/ PromoteToBoth \/ ExportAnchor \/ Rewrite \/ MintAgain \/ RollBack

AttestationSpec == AttestationInit /\ [][AttestationNext]_attestationVars

-----------------------------------------------------------------------------
(* What the project promises of the surfaces *)

\* The declared upgrade of a row: the first promotion after it, if its id is
\* bound and it has value.
FinalTier(rows, i) ==
  LET upgrades == {j \in DOMAIN rows :
                     j > i /\ Promotes(rows[j]) /\ rows[j].supersedes = rows[i].id}
  IN  IF HashBound(rows[i]) /\ rows[i].kry > 0 /\ upgrades # {}
      THEN rows[Min(upgrades)].tier ELSE rows[i].tier

\* Rows both kinds of verifier have the same rules for.  verify_chain takes
\* the tiers of versions 2 and 3 from the private receipt hash, and formats it
\* does not know; the public verifiers refuse both.
Portable(rows) ==
  \A i \in DOMAIN rows : rows[i].version <= Current /\ rows[i].tier = PublicTier(rows[i])

\* A log verify_chain passes makes an attestation that strangers accept, and
\* its tiers are the internal ones: every value once, at its final tier
\* (the safety contract of _apply_promotion_overlay).
SurfacesAgree ==
  VerifyChain(log) /\ Portable(log) =>
    /\ Accepts(Attest(log)) /\ StrangerAccepts(Attest(log))
    /\ Breakdown(log) = Sums(log, [i \in DOMAIN log |-> FinalTier(log, i)])

\* Documents an issuer might make of a log, with claims that are off by some.
Declared(rows) ==
  LET doc == Attest(rows)
  IN  {doc, [doc EXCEPT !.valid = TRUE], [doc EXCEPT !.total = @ + 1],
       [doc EXCEPT !.links = SubSeq(@, 1, Len(@) - 1)],
       [doc EXCEPT !.valid = TRUE, !.tiers = PublicTiers(rows)]}

\* The verifier of the package and the standalone one give one verdict on
\* every document, of rewritten logs too.
VerifiersAgree == \A doc \in Declared(log) : Accepts(doc) <=> StrangerAccepts(doc)

\* What an accepted document credits to the anchored tiers is fixed by its
\* head: rewriting what old formats leave unbound cannot move a value there.
HeadBindsAnchored ==
  Accepts(Attest(log)) /\ HeadOf(log) = HeadOf(minted) =>
    \A t \in Anchored : PublicTiers(log)[t] = PublicTiers(minted)[t]

\* Nobody who left the log alone fails the anchor, and a log or a document
\* that passes it has the rows it was exported over, in all their format binds.
AnchorPins ==
  /\ changes = 0 => MatchesAnchor(log) /\ StrangerAnchored(Attest(log))
  /\ MatchesAnchor(log) =>
       \A i \in 1..anchor.count :
         /\ ReceiptOf(log[i]) = ReceiptOf(pinned[i])
         /\ Covered(log[i]) = Covered(pinned[i])
  /\ StrangerVerdict(Attest(log)) => \A i \in 1..anchor.count : Covered(log[i]) = Covered(pinned[i])

=============================================================================
