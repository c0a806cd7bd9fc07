--------------------------- MODULE EvidencePacket ---------------------------
(***************************************************************************)
(* The verified-savings packet: an operator collects evidence files, asks  *)
(* three reviewers to sign them, and bundles copies with an artifact that  *)
(* says which claims they allow.  Anybody can verify the bundle, at any    *)
(* later time, by computing the artifact again from the files beside it.   *)
(*                                                                         *)
(* Contents stand for their hashes: a file that binds another by its hash  *)
(* holds the other's content.  A receipt of the mint log is one of         *)
(* Reconciliation with a hash, which stands for its receipt hash and its   *)
(* place in the chain.  Provider rows and arguments are written as their   *)
(* positions in Exports and Configs.  NoFile is a file that is not there.  *)
(***************************************************************************)
EXTENDS Reconciliation

CONSTANTS
  Reviewer,   \* people who sign
  Traffic,    \* the receipts of the mint log, in the order they are minted
  Exports,    \* rows a provider may export: those of a straight run, and others
  Configs,    \* [corpus, mode, percent, window]: arguments of the tool, likewise
  LastDay,    \* bound of the clock
  Slips,      \* bound of what departs from one straight run
  Edits,      \* bound of the changes made in the bundle directory
  NoFile

ASSUME PacketAssumption ==
  /\ LastDay \in Nat /\ Slips \in Nat /\ Edits \in Nat
  /\ Traffic \in Seq(Range(Traffic))
  /\ \A i, j \in DOMAIN Traffic : Traffic[i].hash = Traffic[j].hash => i = j
  /\ \A receipt \in Range(Traffic) : receipt.tokens \in Nat
  /\ \A rows \in Range(Exports) :
       rows \in Seq(Range(rows)) /\ \A row \in Range(rows) : row.tokens \in Nat
  /\ 1 \in DOMAIN Configs
  /\ \A c \in Range(Configs) : c.percent \in Nat /\ c.window.since < c.window.until

Evidence == {"usage_log", "attestation", "t1_manifest", "provider_export",
             "provider_export_manifest", "corpus_manifest"}
Kinds == {"outside_review", "buyer_feedback", "legal_review"}
Inputs == Evidence \cup Kinds

\* Files are first written, and always copied, in this order.
Order == <<"usage_log", "attestation", "t1_manifest", "provider_export",
           "provider_export_manifest", "corpus_manifest",
           "outside_review", "buyer_feedback", "legal_review">>

VARIABLES
  now,        \* the day
  chain,      \* receipts minted so far
  work,       \* the operator's input files
  template,   \* the inputs the reviewers were last asked to sign
  config,     \* the arguments the operator gives the tool
  packet,     \* the bundle directory
  tools,      \* version of the tool chain
  job,        \* the bundle being written
  approved,   \* history: what each reviewer approved
  sealed,     \* history: the last bundle reported as written
  slips,
  edits

vars == <<now, chain, work, template, config, packet, tools, job, approved, sealed, slips,
          edits>>

Idle == [step |-> "idle", given |-> {}, left |-> <<>>, config |-> NoFile]

Init ==
  /\ now = 1 /\ chain = 0 /\ tools = 0 /\ slips = 0 /\ edits = 0
  /\ work = [f \in Inputs |-> NoFile]
  /\ template = NoFile
  /\ config = 1
  /\ packet = [f \in Inputs \cup {"artifact", "checklist", "report", "stray"} |->
                IF f = "stray" THEN FALSE ELSE NoFile]
  /\ job = Idle
  /\ approved = {} /\ sealed = NoFile

-----------------------------------------------------------------------------
(* The gates: pure functions of the input files, the arguments, the tools  *)
(* and the day they are evaluated on.                                      *)

Failed(checks) == {name \in DOMAIN checks : ~checks[name]}

Present(files, names) == \A f \in names : files[f] # NoFile

Links(attestation) == SubSeq(Traffic, 1, attestation.chain)

Rows(export) == Exports[export.rows]

Metered(receipts) == {i \in DOMAIN receipts : receipts[i].tier = "provider_metered"}

\* _usage_log_privacy_errors, _provider_export_privacy_errors and
\* _review_evidence_privacy_errors; the other files are written by the tools.
PrivateButRows(files, f) ==
  f \in Kinds \cup {"usage_log"} /\ files[f] # NoFile /\ files[f].private

Private(files, f) ==
  f \in Kinds \cup {"usage_log", "provider_export"} /\ files[f] # NoFile /\ files[f].private

\* _artifact_binding_errors: the hashes a document recorded are those of the
\* files beside it, and all of these are there.
Bound(recorded, files) ==
  Present(files, DOMAIN recorded) /\ \A f \in DOMAIN recorded : recorded[f] = files[f]

\* _date_errors and _same_window
NotFuture(document, day) == document.date <= day

SameWindow(c, d) == Configs[c].window = Configs[d].window

\* _external_aggregate_tolerance_errors
ToleranceAllowed(args) == args.mode = "aggregate" => args.percent <= 2

\* A manifest's receipt stands for an attested link by its hashes, tokens and time; the
\* request it names is not part of any hash, and no link holds it.
SameLink(receipt, link) ==
  /\ receipt.hash = link.hash
  /\ receipt.tokens = link.tokens
  /\ receipt.ts = link.ts

ListsNone(t1, links) == TRUE

ListsAll(t1, links) == \A j \in Metered(links) : \E i \in DOMAIN t1 : t1[i].hash = links[j].hash

\* _t1_manifest_attestation_binding: the manifest lists the attested metered
\* receipts, each once.
T1Evidence(files) ==
  LET t1 == files["t1_manifest"].receipts
      links == Links(files["attestation"])
  IN IF files["t1_manifest"] = NoFile THEN {"missing"}
     ELSE IF files["attestation"] = NoFile THEN {"unattested"} ELSE Failed(
    [metered |-> \A i \in DOMAIN t1 : t1[i].tier = "provider_metered",
     attested |-> \A i \in DOMAIN t1 : \E j \in Metered(links) : SameLink(t1[i], links[j]),
     distinct |-> \A i, j \in DOMAIN t1 : t1[i].hash = t1[j].hash => i = j,
     complete |-> ListsAll(t1, links)])

\* _provider_export_manifest
ExportEvidence(files, c, day) ==
  LET m == files["provider_export_manifest"]
      export == files["provider_export"]
  IN IF m = NoFile THEN {"missing"} ELSE Failed(
    [bound |-> Bound(m.inputs, files),
     date |-> NotFuture(m, day),
     window |-> SameWindow(m.config, c),
     mode |-> Configs[m.config].mode = Configs[c].mode,
     public |-> ~Private(files, "provider_export"),
     counted |-> export # NoFile => m.count = Len(Rows(export)) /\ m.count > 0,
     tokens |-> export # NoFile => TokenSum(Rows(export)) > 0])

\* _corpus_manifest
CorpusEvidence(files, day) ==
  LET m == files["corpus_manifest"]
  IN IF m = NoFile THEN {"missing"} ELSE Failed(
    [bound |-> Bound(m.inputs, files),
     date |-> NotFuture(m, day),
     counted |-> m.records = files["usage_log"].records])

\* _validation_plan: the plan was registered before the window it is about,
\* and agrees with everything else.
PlanEvidence(files, c, research, day) ==
  LET m == files["corpus_manifest"]
      plan == Configs[m.config]
      e == files["provider_export_manifest"]
  IN IF m = NoFile THEN {"missing"} ELSE Failed(
    [date |-> NotFuture(m, day),
     beforeExport |-> e # NoFile => m.date <= e.date,
     beforeWindow |-> m.date <= plan.window.since,
     arguments |-> plan.mode = Configs[c].mode /\ plan.percent = Configs[c].percent,
     tolerance |-> ToleranceAllowed(plan),
     window |-> e # NoFile /\ SameWindow(m.config, e.config),
     agreement |-> AtBar(research.agreement)])

\* _research_assessment: a file may be named on the command line and not be there.
Research(given, files, args) ==
  LET Unassessed(verdict) ==
        [verdict |-> verdict, identity |-> FALSE, agreement |-> NoAgreement, t1 |-> 0,
         grade |-> FALSE]
      tooLoose == args.mode = "aggregate" /\ args.percent > 5
  IN IF "provider_export" \notin given THEN Unassessed("NO_ORACLE")
     ELSE IF files["t1_manifest"] = NoFile THEN Unassessed("RECONCILIATION_SOURCE_MISSING")
     ELSE IF files["provider_export"] = NoFile \/ tooLoose THEN Unassessed("ASSESSMENT_ERROR")
     ELSE Assess(files["t1_manifest"].receipts, Rows(files["provider_export"]), args)

\* What a reviewer is shown and signs: hashes of the evidence, the arguments
\* and the tools (_review_basis).
ReviewBasis(files, c, version) ==
  [files |-> [f \in Evidence |-> files[f]], config |-> c, tools |-> version]

\* The reviewer makes every statement the kind of review asks for: what was
\* checked, what the tools printed, what the buyer would save, what is limited.
Sufficient(review) == review.favourable

\* _review_evidence
ReviewEvidence(files, kind, c, version, day) ==
  LET review == files[kind]
      dated == {f \in {"corpus_manifest", "provider_export_manifest"} : files[f] # NoFile}
  IN IF review = NoFile THEN {"missing"} ELSE Failed(
    [bound |-> Present(files, {"usage_log", "attestation", "provider_export", "corpus_manifest"})
               /\ review.basis = ReviewBasis(files, c, version),
     kind |-> review.kind = kind,
     statements |-> Sufficient(review),
     public |-> ~Private(files, kind),
     date |-> NotFuture(review, day),
     afterEvidence |-> \A f \in dated : files[f].date <= review.date])

\* _review_channel_separation_errors
DistinctFromOutside(files) ==
  \A k \in Kinds \ {"outside_review"} :
    Present(files, {k, "outside_review"}) => files[k].by # files["outside_review"].by

Distinct(files) ==
  \A j, k \in Kinds : (j # k /\ Present(files, {j, k})) => files[j].by # files[k].by

\* What build_artifact judges before its gates.
Judged(given, files, c, version, day) ==
  LET research == Research(given, files, Configs[c]) IN
  [research |-> research,
   t1 |-> T1Evidence(files),
   export |-> ExportEvidence(files, c, day),
   corpus |-> CorpusEvidence(files, day),
   plan |-> PlanEvidence(files, c, research, day),
   reviews |-> [k \in Kinds |-> ReviewEvidence(files, k, c, version, day)],
   aligned |-> /\ Present(files, {"corpus_manifest", "provider_export_manifest"})
               /\ SameWindow(files["corpus_manifest"].config,
                             files["provider_export_manifest"].config)]

AttestationVerifies(files) == files["attestation"] # NoFile /\ files["attestation"].sound

\* analyze of kry_savings_report: every call of the log saved one unit.
Saved(log) == log.records

ProductGate(files) == Failed(
  [positive_savings |-> Saved(files["usage_log"]) > 0,
   attestation_verifies |-> AttestationVerifies(files),
   attestation_matches_report |->
     files["attestation"] # NoFile /\ files["attestation"].chain = files["usage_log"].records])

RealCorpus(files, c, judged) ==
  /\ Configs[c].corpus = "real" /\ judged.aligned /\ ~Private(files, "usage_log")
  /\ {} = judged.corpus \cup judged.plan \cup judged.export \cup judged.t1

\* The sample log that ships with the repository is nobody's traffic and is never exported
\* here, so real_corpus_not_bundled_sample holds and is left out.
ScienceGate(files, c, judged) == Failed(
  [corpus_declared_real |-> Configs[c].corpus = "real",
   usage_log_public_packet_safe |-> ~Private(files, "usage_log"),
   corpus_manifest_valid |-> judged.corpus = {},
   validation_plan_valid |-> judged.plan = {},
   provider_export_manifest_valid |-> judged.export = {},
   corpus_provider_windows_align |-> judged.aligned,
   aggregate_tolerance_within_threshold |-> ToleranceAllowed(Configs[c]),
   t1_manifest_matches_attestation |-> judged.t1 = {},
   provider_oracle_non_vacuous |-> judged.research.t1 > 0,
   research_grade_prerequisites |-> judged.research.grade,
   independent_agreement_at_bar |-> AtBar(judged.research.agreement),
   readiness_can_reach_production |->
     ReadinessLabel(IF judged.research.grade THEN judged.research.agreement ELSE NoAgreement,
                    RealCorpus(files, c, judged)) = "production_ready"])

ReviewGate(files, judged) == Failed(
  [reviews_valid |-> \A k \in Kinds : judged.reviews[k] = {},
   review_channels_distinct |-> Distinct(files)])

Kills(files, judged) == Failed(
  [attestation_failed |-> AttestationVerifies(files),
   no_positive_savings |-> Saved(files["usage_log"]) > 0,
   reconciliation |->
     judged.research.verdict
       \notin {"DISCREPANCY", "ASSESSMENT_ERROR", "RECONCILIATION_SOURCE_MISSING"},
   t1_manifest_not_attested |-> judged.t1 \in {{}, {"missing"}},
   independent_agreement_below_bar |->
     judged.research.agreement # NoAgreement => AtBar(judged.research.agreement)])

\* _claim_register: the claims that are allowed; one never is.
ClaimRegister(gates, judged, scope) ==
  LET shippable == gates.product \cup gates.kill = {}
      scientific == gates.science = {}
      reconciled == /\ judged.research.verdict = "RECONCILED"
                    /\ judged.research.t1 > 0 /\ judged.research.identity /\ judged.t1 = {}
  IN Failed(
    [internal_efficiency_artifact |-> ~shippable,
     external_verified_savings |-> scope # "external_verified_savings_candidate",
     provider_reconciled |-> ~reconciled,
     real_corpus |-> ~scientific,
     research_grade |-> ~(judged.research.grade /\ shippable /\ scientific),
     production_ready |-> ~(shippable /\ scientific /\ gates.review = {}),
     external_review_complete |-> gates.review # {},
     tradeable_token |-> TRUE])

Gates(files, c, judged) ==
  [product |-> ProductGate(files), science |-> ScienceGate(files, c, judged),
   review |-> ReviewGate(files, judged), kill |-> Kills(files, judged)]

Scope(gates) ==
  IF gates.kill \cup gates.product # {} THEN "do_not_ship"
  ELSE IF gates.science \cup gates.review = {} THEN "external_verified_savings_candidate"
  ELSE "internal_or_demo_only"

Artifact(given, c, version, files, judged) ==
  LET gates == Gates(files, c, judged)
  IN [given |-> given, config |-> c, tools |-> version, inputs |-> files,
      judged |-> judged, gates |-> gates, scope |-> Scope(gates),
      claims |-> ClaimRegister(gates, judged, Scope(gates)),
      hashed |-> TRUE]

\* build_artifact, in a bundle directory: the inputs "given" on its command
\* line are read there and the mint log is not among them.  There must be a
\* usage log.
Build(directory, given, c, version, day) ==
  LET files == [f \in Inputs |-> IF f \in given THEN directory[f] ELSE NoFile]
  IN Artifact(given, c, version, files, Judged(given, files, c, version, day))

\* _externally_claimable_artifact
Claimable(artifact) ==
  \/ artifact.scope = "external_verified_savings_candidate"
  \/ "external_verified_savings" \in artifact.claims

\* verify_artifact_file: the artifact equals the one computed from the files
\* beside it, today, by this version of the tools.
Recomputes(directory, version, day) ==
  LET a == directory["artifact"] IN
  /\ a # NoFile
  /\ a.hashed
  /\ directory["usage_log"] # NoFile
  /\ a = Build(directory, a.given, a.config, version, day)

\* _packet_surface_errors: nothing is in the directory that the artifact does
\* not name, and the derived files are those of this artifact.
Unbound(directory) ==
  directory.stray \/ \E f \in Inputs \ directory["artifact"].given : directory[f] # NoFile

ReportRendered(directory) == directory["report"] = directory["artifact"]

Rendered(directory) ==
  /\ directory["report"] = directory["artifact"]
  /\ directory["checklist"] = directory["artifact"]

Surfaces(directory) == ~Unbound(directory) /\ Rendered(directory)

Verifies(directory, version, day) ==
  /\ Recomputes(directory, version, day)
  /\ Claimable(directory["artifact"]) => Surfaces(directory)

\* The doctor scans what a bundle contains, whatever it claims
\* (_packet_privacy_boundary).
DoctorScans(directory) == \A f \in Inputs : ~Private(directory, f)

\* _artifact_ship_scope_status fails for one scope and warns of another.
ScopeShips(artifact) == artifact.scope # "do_not_ship"

\* run_checks of kry_doctor on a bundle, with no check failing.
DoctorClean(directory, version, day) ==
  /\ Verifies(directory, version, day)
  /\ ScopeShips(directory["artifact"])
  /\ Surfaces(directory)
  /\ DoctorScans(directory)

-----------------------------------------------------------------------------
(* Collecting the evidence.                                                *)

Slip(n) == slips + n <= Slips /\ slips' = slips + n

\* In a straight run each file is written once, after the last call.
Put(f, content, departs) ==
  /\ \A i, j \in DOMAIN Order : (Order[j] = f /\ i < j) => work[Order[i]] # NoFile
  /\ content # work[f]
  /\ Slip(IF departs \/ work[f] # NoFile \/ chain < Len(Traffic) THEN 1 ELSE 0)
  /\ work' = [work EXCEPT ![f] = content]

Tick ==
  /\ now < LastDay
  /\ now' = now + 1
  /\ UNCHANGED <<chain, work, template, config, packet, tools, job, approved, sealed, slips, edits>>

Serve ==
  /\ chain < Len(Traffic) /\ Traffic[chain + 1].ts <= now
  /\ chain' = chain + 1
  /\ UNCHANGED <<now, work, template, config, packet, tools, job, approved, sealed, slips, edits>>

\* The receipts write_t1_manifest takes from the mint log.
MintedT1(window) ==
  [source |-> chain, receipts |-> LoadT1(SubSeq(Traffic, 1, chain), window)]

Arguments == Configs[config]

Collect == UNCHANGED <<now, chain, template, config, packet, tools, job, approved, sealed, edits>>

ExportUsageLog ==
  /\ \E private \in BOOLEAN :
       Put("usage_log", [records |-> chain, private |-> private], private)
  /\ Collect

ExportAttestation ==
  /\ \E sound \in BOOLEAN : Put("attestation", [chain |-> chain, sound |-> sound], ~sound)
  /\ Collect

ExportProvider ==
  /\ \E i \in DOMAIN Exports, private \in BOOLEAN :
       Put("provider_export", [rows |-> i, private |-> private], private \/ i # 1)
  /\ Collect

\* write_t1_manifest refuses an empty one.
WriteT1Manifest ==
  /\ MintedT1(Arguments.window).receipts # <<>>
  /\ Put("t1_manifest", MintedT1(Arguments.window), FALSE)
  /\ Collect

\* The manifest is a file like any other: receipts are relabelled, lose a token or are left out.
Rewritten(t1) ==
  {[t1 EXCEPT ![i].id = t1[j].id, ![j].id = t1[i].id] : i, j \in DOMAIN t1}
  \cup {[t1 EXCEPT ![i].id = id] : i \in DOMAIN t1, id \in {NoId, BadId}}
  \cup {[t1 EXCEPT ![i].tokens = @ - 1] : i \in {i \in DOMAIN t1 : t1[i].tokens > 0}}
  \cup {RemoveAt(t1, i) : i \in DOMAIN t1}

RewriteT1Manifest ==
  /\ work["t1_manifest"] # NoFile
  /\ \E t1 \in Rewritten(work["t1_manifest"].receipts) :
       Put("t1_manifest", [source |-> work["t1_manifest"].source, receipts |-> t1], TRUE)
  /\ Collect

\* write_provider_export_manifest: scans the export and refuses an empty one.
WriteProviderExportManifest ==
  /\ ~Private(work, "provider_export")
  /\ Present(work, {"provider_export", "t1_manifest"})
  /\ TokenSum(Rows(work["provider_export"])) > 0
  /\ Put("provider_export_manifest",
         [inputs |-> [f \in {"provider_export", "t1_manifest"} |-> work[f]],
          count |-> Len(Rows(work["provider_export"])), config |-> config, date |-> now], FALSE)
  /\ Collect

\* write_corpus_manifest: the operator states one date, for the manifest and
\* for the registration of its plan.
WriteCorpusManifest ==
  /\ ~Private(work, "usage_log") /\ ~Private(work, "provider_export")
  /\ Present(work, Evidence \ {"corpus_manifest"})
  /\ ToleranceAllowed(Arguments)
  /\ \E date \in {Arguments.window.since, now} \cap 1 .. now :
       Put("corpus_manifest",
           [inputs |-> [f \in Evidence \ {"corpus_manifest", "attestation"} |-> work[f]],
            records |-> work["usage_log"].records, config |-> config, date |-> date],
           date # Arguments.window.since)
  /\ Collect

\* The hashes the request to each reviewer shows (_request_briefs).
Shown == ReviewBasis(work, config, tools)

WriteTemplates ==
  /\ Present(work, {"usage_log"})
  /\ template # Shown
  /\ Slip(IF template = NoFile /\ Present(work, Evidence) THEN 0 ELSE 1)
  /\ template' = Shown
  /\ UNCHANGED <<now, chain, work, config, packet, tools, job, approved, sealed, edits>>

\* A reviewer judges what the template shows, and signs: as it should be, or
\* with one lapse.
Review(kind) ==
  /\ template # NoFile
  /\ \E by \in Reviewer, lapse \in {"none", "private", "adverse", "postdated"} :
       /\ Put(kind, [kind |-> kind, basis |-> template, by |-> by,
                     date |-> IF lapse = "postdated" THEN now + 1 ELSE now,
                     private |-> lapse = "private", favourable |-> lapse # "adverse"],
              lapse # "none" \/ \E k \in Kinds : work[k] # NoFile /\ work[k].by = by)
       /\ approved' = IF lapse = "adverse" THEN approved
                      ELSE approved \cup {<<kind, by, template>>}
  /\ UNCHANGED <<now, chain, template, config, packet, tools, job, sealed, edits>>

ChangeArguments ==
  /\ Slip(1)
  /\ config' \in DOMAIN Configs \ {config}
  /\ UNCHANGED <<now, chain, work, template, packet, tools, job, approved, sealed, edits>>

\* The tools beside the packet are updated.
Upgrade ==
  /\ tools = 0 /\ Slip(1)
  /\ tools' = 1
  /\ UNCHANGED <<now, chain, work, template, config, packet, job, approved, sealed, edits>>

-----------------------------------------------------------------------------
(* write_bundle: one step per file it copies or writes.                    *)

World == UNCHANGED <<now, chain, work, template, config, tools, approved>>

\* The inputs are scanned where they are, before they are copied.
BeginBundle ==
  /\ job.step = "idle"
  /\ Present(work, {"usage_log", "attestation"})
  /\ \A f \in Inputs : ~Private(work, f)
  /\ Slip(IF packet["artifact"] = NoFile /\ Present(work, Inputs) THEN 0 ELSE 1)
  /\ LET given == {f \in Inputs : work[f] # NoFile} IN
     job' = [step |-> "copy", given |-> given, config |-> config,
             left |-> SelectSeq(Order, LAMBDA f : f \in given)]
  /\ World /\ UNCHANGED <<packet, sealed, edits>>

CopyFile ==
  /\ job.step = "copy" /\ job.left # <<>>
  /\ packet' = [packet EXCEPT ![Head(job.left)] = work[Head(job.left)]]
  /\ job' = [job EXCEPT !.left = Tail(@)]
  /\ World /\ UNCHANGED <<sealed, slips, edits>>

\* With no manifest given, one is made of the mint log if that has metered
\* receipts; it fails if the window leaves none.
DeriveT1Manifest ==
  /\ job.step = "copy" /\ job.left = <<>>
  /\ LET all == MintedT1([since |-> 0, until |-> LastDay + 1])
         some == MintedT1(Configs[job.config].window)
         derive == "t1_manifest" \notin job.given /\ all.receipts # <<>>
     IN /\ packet' = IF derive /\ some.receipts # <<>>
                     THEN [packet EXCEPT !["t1_manifest"] = some] ELSE packet
        /\ job' = IF derive /\ some.receipts = <<>> THEN Idle
                  ELSE [job EXCEPT !.step = "build",
                                   !.given = IF derive THEN @ \cup {"t1_manifest"} ELSE @]
  /\ World /\ UNCHANGED <<sealed, slips, edits>>

WriteArtifact ==
  /\ job.step = "build"
  /\ IF packet["usage_log"] # NoFile
     THEN /\ packet' = [packet EXCEPT !["artifact"] =
                         Build(packet, job.given, job.config, tools, now)]
          /\ job' = [job EXCEPT !.step = "checklist"]
     ELSE /\ job' = Idle
          /\ UNCHANGED packet
  /\ World /\ UNCHANGED <<sealed, slips, edits>>

WriteChecklist ==
  /\ job.step = "checklist"
  /\ packet' = [packet EXCEPT !["checklist"] = packet["artifact"]]
  /\ job' = [job EXCEPT !.step = "report"]
  /\ World /\ UNCHANGED <<sealed, slips, edits>>

\* The report is rendered from an artifact that recomputes, or not at all.
WriteReport ==
  /\ job.step = "report"
  /\ IF Recomputes(packet, tools, now)
     THEN /\ packet' = [packet EXCEPT !["report"] = packet["artifact"]]
          /\ job' = [job EXCEPT !.step = "verify"]
     ELSE /\ job' = Idle
          /\ UNCHANGED packet
  /\ World /\ UNCHANGED <<sealed, slips, edits>>

SealUnverified ==
  /\ job.step = "verify"
  /\ sealed' = [packet |-> packet, tools |-> tools]
  /\ job' = Idle
  /\ World /\ UNCHANGED <<packet, slips, edits>>

Seal ==
  /\ job.step = "verify"
  /\ sealed' = IF Verifies(packet, tools, now)
               THEN [packet |-> packet, tools |-> tools] ELSE sealed
  /\ job' = Idle
  /\ World /\ UNCHANGED <<packet, slips, edits>>

Kill ==
  /\ job.step # "idle" /\ Slip(1)
  /\ job' = Idle
  /\ World /\ UNCHANGED <<packet, sealed, edits>>

\* Somebody changes a directory that has an artifact: an input goes or is
\* replaced by the operator's present one, a derived file is spoilt, a mint log
\* is left in it, or the artifact claims more, its hash recomputed or not.
Overclaiming(artifact) ==
  {[artifact EXCEPT !.scope = "external_verified_savings_candidate"],
   [artifact EXCEPT !.claims = @ \cup {"external_verified_savings"}]}

EditPacket ==
  /\ packet["artifact"] # NoFile
  /\ edits < Edits /\ edits' = edits + 1
  /\ \/ \E f \in Inputs : packet' = [packet EXCEPT ![f] = NoFile]
     \/ \E f \in Inputs : packet' = [packet EXCEPT ![f] = work[f]]
     \/ \E f \in {"checklist", "report"} : packet' = [packet EXCEPT ![f] = NoFile]
     \/ packet' = [packet EXCEPT !["stray"] = TRUE]
     \/ \E forged \in Overclaiming(packet["artifact"]), hashed \in BOOLEAN :
          packet' = [packet EXCEPT !["artifact"] = [forged EXCEPT !.hashed = hashed]]
  /\ packet' # packet
  /\ World /\ UNCHANGED <<job, sealed, slips>>

Next ==
  \/ Tick \/ Serve \/ ChangeArguments \/ Upgrade
  \/ ExportUsageLog \/ ExportAttestation \/ ExportProvider
  \/ WriteT1Manifest \/ RewriteT1Manifest
  \/ WriteProviderExportManifest \/ WriteCorpusManifest
  \/ WriteTemplates \/ \E kind \in Kinds : Review(kind)
  \/ BeginBundle \/ CopyFile \/ DeriveT1Manifest \/ WriteArtifact \/ WriteChecklist
  \/ WriteReport \/ Seal \/ Kill \/ EditPacket

Spec == Init /\ [][Next]_vars

-----------------------------------------------------------------------------
ClaimVerifies ==
  /\ packet["artifact"] # NoFile
  /\ Claimable(packet["artifact"])
  /\ Verifies(packet, tools, now)

\* A packet that verifies and claims verified savings was signed, exactly as
\* it lies there, with these arguments and tools, by three different people,
\* each for one kind of review, and holds no private text or mint log,
\* whatever was exported, written, signed, copied or edited in between the
\* steps that looked at it (_review_evidence, _bundle_input_privacy_errors).
ClaimEarned ==
  ClaimVerifies =>
    /\ \E by \in [Kinds -> Reviewer] :
         /\ IsInjective(by)
         /\ \A k \in Kinds :
              <<k, by[k], ReviewBasis(packet, packet["artifact"].config, tools)>> \in approved
    /\ ~packet["stray"]
    /\ \A f \in Kinds \cup {"usage_log", "provider_export"} :
         packet[f] # NoFile => ~packet[f].private

\* Such a packet reconciles: every metered receipt its attestation shows in the window is in
\* the manifest beside it, and the request the manifest names for it, and for no other
\* receipt, was billed once and as the attestation metered it; or, in aggregate, no more was
\* metered than billed and two percent (reconcile, aggregate_reconcile, assess).  That the
\* request is the receipt's own is the manifest's word: no hash holds it (request_id_digest).
ClaimBacked ==
  ClaimVerifies =>
    LET args == Configs[packet["artifact"].config]
        links == LoadT1(Links(packet["attestation"]), args.window)
        t1 == LoadT1(packet["t1_manifest"].receipts, args.window)
        rows == Rows(packet["provider_export"])
    IN /\ links # <<>>
       /\ IF args.mode = "aggregate"
          THEN 100 * TokenSum(links) <= 102 * TokenSum(rows)
          ELSE \A k \in DOMAIN links : \E n \in DOMAIN t1, i \in DOMAIN rows :
                 /\ t1[n].hash = links[k].hash
                 /\ Named(t1, t1[n].id) = {n}
                 /\ Named(rows, t1[n].id) = {i}
                 /\ Exact(links[k], rows[i]) \/ Legacy(links[k], rows[i])

\* A bundle reported as written that claims verified savings verifies on any
\* later day with the tools it was written with (write_bundle,
\* verify_artifact_file): its verdict does not age.  The tools are the whole
\* checkout, more than the files whose hashes the artifact lists: the audit
\* behind readiness_label reads others.
SealedStands ==
  (sealed # NoFile /\ sealed.tools = tools /\ Claimable(sealed.packet["artifact"]))
    => Verifies(sealed.packet, tools, now)

\* A directory with the artifact of the last written bundle either holds the
\* inputs it was made of, its checklist and report and nothing else, or is
\* refused: by the doctor, and by the verifier alone when it claims verified
\* savings (_packet_surface_errors, _packet_privacy_boundary).
EditCaught ==
  (sealed # NoFile /\ packet["artifact"] = sealed.packet["artifact"]
   /\ (ClaimVerifies \/ DoctorClean(packet, tools, now)))
    => /\ ~packet["stray"]
       /\ \A f \in Inputs :
            packet[f] = IF f \in packet["artifact"].given THEN sealed.packet[f] ELSE NoFile
       /\ \A f \in {"checklist", "report"} : packet[f] = sealed.packet["artifact"]
=============================================================================
