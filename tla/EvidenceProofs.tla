--------------------------- MODULE EvidenceProofs ---------------------------
(***************************************************************************)
(* For any reviewers, receipts, exports, arguments and bounds: a packet    *)
(* that verifies and claims verified savings was signed as it lies there   *)
(* by three people, holds no private text and reconciles what it meters    *)
(* with what was billed; a bundle that was written with such a claim goes  *)
(* on verifying; and a later change of it is seen.  A verifier computes    *)
(* the gates again from the files beside the artifact, so what they ask of *)
(* those files holds of them; a favourable review, wherever it is copied,  *)
(* is one its reviewer approved; every evidence file shows a prefix of the *)
(* log; and no gate that passes on one day fails on the next.              *)
(*                                                                         *)
(* Of the attestation a packet rests on: what passes the published anchor  *)
(* has the rows the anchor was exported over.  A chain hash is what it     *)
(* covers, so a linked log spells out its rows in its head; a row that was *)
(* rewritten keeps its hashes, and rows minted again after it get those    *)
(* they would get after the row as it was written.  The standalone         *)
(* verifier's one pass asks of each link what the other verifier asks of   *)
(* all pairs; the overlay leaves every value at the tier of the first      *)
(* promotion of its row; and from a row with a bound id on, the head fixes *)
(* all the overlay looks at.                                               *)
(***************************************************************************)
EXTENDS EvidencePacket, Attestation, SumTheorems, SequenceTheorems

\* The favourable reviews among some files are those the reviewers approved.
Attributed(files) ==
  \A k \in Kinds :
    files[k] # NoFile /\ files[k].favourable =>
      /\ files[k].by \in Reviewer
      /\ <<files[k].kind, files[k].by, files[k].basis>> \in approved

PacketInvariant ==
  /\ DOMAIN work = Inputs
  /\ DOMAIN packet = Inputs \cup {"artifact", "checklist", "report", "stray"}
  /\ Attributed(work) /\ Attributed(packet)

-----------------------------------------------------------------------------
(* What a gate that passes says of the files *)

LEMMA NothingFailed ==
  ASSUME NEW checks, Failed(checks) = {}
  PROVE  \A name \in DOMAIN checks : checks[name]
BY DEF Failed

\* _review_evidence
LEMMA ReviewPassed ==
  ASSUME NEW files, NEW kind \in Kinds, NEW c, NEW version, NEW day,
         ReviewEvidence(files, kind, c, version, day) = {}
  PROVE  /\ files[kind] # NoFile
         /\ files[kind].basis = ReviewBasis(files, c, version)
         /\ files[kind].kind = kind
         /\ files[kind].favourable
         /\ ~Private(files, kind)
<1> DEFINE review == files[kind]
           dated == {f \in {"corpus_manifest", "provider_export_manifest"} : files[f] # NoFile}
           checks ==
             [bound |-> Present(files, {"usage_log", "attestation", "provider_export",
                                        "corpus_manifest"})
                        /\ review.basis = ReviewBasis(files, c, version),
              kind |-> review.kind = kind,
              statements |-> Sufficient(review),
              public |-> ~Private(files, kind),
              date |-> NotFuture(review, day),
              afterEvidence |-> \A f \in dated : files[f].date <= review.date]
<1>1. review # NoFile
  BY DEF ReviewEvidence
<1>2. Failed(checks) = {}
  BY <1>1 DEF ReviewEvidence
<1>3. \A name \in DOMAIN checks : checks[name]
  <2> HIDE DEF checks
  <2> QED BY <1>2, NothingFailed
<1>4. checks.bound /\ checks.kind /\ checks.statements /\ checks.public
  BY <1>3
<1> QED
  BY <1>1, <1>4 DEF Sufficient

\* _provider_export_manifest
LEMMA ExportPassed ==
  ASSUME NEW files, NEW c, NEW day, ExportEvidence(files, c, day) = {}
  PROVE  ~Private(files, "provider_export")
<1> DEFINE m == files["provider_export_manifest"]
           export == files["provider_export"]
           checks ==
             [bound |-> Bound(m.inputs, files),
              date |-> NotFuture(m, day),
              window |-> SameWindow(m.config, c),
              mode |-> Configs[m.config].mode = Configs[c].mode,
              public |-> ~Private(files, "provider_export"),
              counted |-> export # NoFile => m.count = Len(Rows(export)) /\ m.count > 0,
              tokens |-> export # NoFile => TokenSum(Rows(export)) > 0]
<1>1. m # NoFile
  BY DEF ExportEvidence
<1>2. Failed(checks) = {}
  BY <1>1 DEF ExportEvidence
<1>3. \A name \in DOMAIN checks : checks[name]
  <2> HIDE DEF checks
  <2> QED BY <1>2, NothingFailed
<1>4. checks.public
  BY <1>3
<1> QED
  BY <1>4

-----------------------------------------------------------------------------
LEMMA SciencePassed ==
  ASSUME NEW files, NEW c, NEW judged, ScienceGate(files, c, judged) = {}
  PROVE  /\ ~Private(files, "usage_log") /\ {} = judged.corpus \cup judged.plan \cup judged.export
         /\ judged.t1 = {} /\ judged.research.t1 > 0 /\ judged.research.grade
         /\ ToleranceAllowed(Configs[c])
<1> DEFINE checks ==
  [corpus_declared_real |-> Configs[c].corpus = "real",
   usage_log_public_packet_safe |-> ~Private(files, "usage_log"),
   corpus_manifest_valid |-> judged.corpus = {},
   validation_plan_valid |-> judged.plan = {},
   provider_export_manifest_valid |-> judged.export = {},
   corpus_provider_windows_align |-> judged.aligned,
   aggregate_tolerance_within_threshold |-> ToleranceAllowed(Configs[c]),
   t1_manifest_matches_attestation |-> judged.t1 = {},
   provider_oracle_non_vacuous |-> judged.research.t1 > 0,
   research_grade_prerequisites |-> judged.research.grade,
   independent_agreement_at_bar |-> AtBar(judged.research.agreement),
   readiness_can_reach_production |->
     ReadinessLabel(IF judged.research.grade THEN judged.research.agreement ELSE NoAgreement,
                    RealCorpus(files, c, judged)) = "production_ready"]
<1>1. Failed(checks) = {}
  BY DEF ScienceGate
<1>2. \A name \in DOMAIN checks : checks[name]
  <2> HIDE DEF checks
  <2> QED BY <1>1, NothingFailed
<1>3. /\ checks.usage_log_public_packet_safe /\ checks.provider_export_manifest_valid
      /\ checks.corpus_manifest_valid /\ checks.validation_plan_valid
      /\ checks.t1_manifest_matches_attestation /\ checks.provider_oracle_non_vacuous
      /\ checks.research_grade_prerequisites /\ checks.aggregate_tolerance_within_threshold
  BY <1>2
<1> QED
  BY <1>3

LEMMA ReviewsPassed ==
  ASSUME NEW files, NEW judged, ReviewGate(files, judged) = {}
  PROVE  (\A k \in Kinds : judged.reviews[k] = {}) /\ Distinct(files)
<1> DEFINE checks == [reviews_valid |-> \A k \in Kinds : judged.reviews[k] = {},
                      review_channels_distinct |-> Distinct(files)]
<1>1. Failed(checks) = {}
  BY DEF ReviewGate
<1>2. \A name \in DOMAIN checks : checks[name]
  <2> HIDE DEF checks
  <2> QED BY <1>1, NothingFailed
<1>3. checks.reviews_valid /\ checks.review_channels_distinct
  BY <1>2
<1> QED
  BY <1>3

LEMMA ClaimRegistered ==
  ASSUME NEW gates, NEW judged, NEW scope,
         "external_verified_savings" \in ClaimRegister(gates, judged, scope)
  PROVE  scope = "external_verified_savings_candidate"
BY DEF ClaimRegister, Failed

-----------------------------------------------------------------------------
(* What a claim that verifies says of the packet *)

\* The files the gates judge in a packet with an artifact: those it names.
Given(directory) ==
  [f \in Inputs |-> IF f \in directory["artifact"].given THEN directory[f] ELSE NoFile]

\* build_artifact: an artifact that was computed allows the claim only when
\* every gate passes on the files it was computed from.
LEMMA ClaimComputed ==
  ASSUME NEW directory, NEW given, NEW c, NEW version, NEW day,
         Claimable(Build(directory, given, c, version, day))
  PROVE  LET files == [f \in Inputs |-> IF f \in given THEN directory[f] ELSE NoFile]
         IN  /\ \A k \in Kinds : ReviewEvidence(files, k, c, version, day) = {}
             /\ Distinct(files)
             /\ ~Private(files, "usage_log")
             /\ ExportEvidence(files, c, day) = {}
             /\ Judged(given, files, c, version, day).corpus = {}
             /\ Judged(given, files, c, version, day).plan = {}
             /\ ScienceGate(files, c, Judged(given, files, c, version, day)) = {}
<1> DEFINE files == [f \in Inputs |-> IF f \in given THEN directory[f] ELSE NoFile]
           judged == Judged(given, files, c, version, day)
           gates == Gates(files, c, judged)
<1>1. Build(directory, given, c, version, day) = Artifact(given, c, version, files, judged)
  BY DEF Build
<1>2. Scope(gates) = "external_verified_savings_candidate"
  <2>1. Claimable(Artifact(given, c, version, files, judged))
    <3> HIDE DEF files, judged
    <3> QED BY <1>1
  <2>2. /\ Artifact(given, c, version, files, judged).scope = Scope(gates)
        /\ Artifact(given, c, version, files, judged).claims =
             ClaimRegister(gates, judged, Scope(gates))
    <3> HIDE DEF files, judged
    <3> QED BY DEF Artifact
  <2> HIDE DEF files, judged, gates
  <2> QED BY <2>1, <2>2, ClaimRegistered DEF Claimable
<1>3. gates.science = {} /\ gates.review = {}
  <2> HIDE DEF gates
  <2> QED BY <1>2 DEF Scope
<1>4. ScienceGate(files, c, judged) = {} /\ ReviewGate(files, judged) = {}
  <2> HIDE DEF files, judged
  <2> QED BY <1>3 DEF Gates
<1>5. ~Private(files, "usage_log") /\ judged.export = {} /\ judged.corpus = {} /\ judged.plan = {}
  <2> HIDE DEF judged, files
  <2> QED BY <1>4, SciencePassed
<1>6. (\A k \in Kinds : judged.reviews[k] = {}) /\ Distinct(files)
  <2> HIDE DEF judged, files
  <2> QED BY <1>4, ReviewsPassed
<1>7. /\ judged.export = ExportEvidence(files, c, day)
      /\ \A k \in Kinds : judged.reviews[k] = ReviewEvidence(files, k, c, version, day)
  <2> HIDE DEF files
  <2> QED BY DEF Judged
<1> QED
  BY <1>4, <1>5, <1>6, <1>7

\* verify_artifact_file: the packet is judged as a whole, by its own artifact.
LEMMA ClaimJudged ==
  ASSUME ClaimVerifies
  PROVE  /\ ~packet["stray"]
         /\ \A f \in Inputs : Given(packet)[f] = packet[f]
         /\ \A k \in Kinds :
              ReviewEvidence(Given(packet), k, packet["artifact"].config, tools, now) = {}
         /\ Distinct(Given(packet))
         /\ ~Private(Given(packet), "usage_log")
         /\ ExportEvidence(Given(packet), packet["artifact"].config, now) = {}
         /\ ScienceGate(Given(packet), packet["artifact"].config,
                        Judged(packet["artifact"].given, Given(packet),
                               packet["artifact"].config, tools, now)) = {}
<1> DEFINE a == packet["artifact"]
<1>1. Claimable(a) /\ a = Build(packet, a.given, a.config, tools, now) /\ Surfaces(packet)
  BY DEF ClaimVerifies, Verifies, Recomputes
<1>2. ~packet["stray"] /\ \A f \in Inputs \ a.given : packet[f] = NoFile
  BY <1>1 DEF Surfaces, Unbound
<1>3. Claimable(Build(packet, a.given, a.config, tools, now))
  <2> HIDE DEF a
  <2> QED BY <1>1
<1> QED
  BY <1>2, <1>3, ClaimComputed DEF Given

\* ClaimEarned follows from the invariant.
LEMMA InvariantClaimEarned == PacketInvariant => ClaimEarned
<1> SUFFICES ASSUME PacketInvariant, ClaimVerifies
             PROVE  /\ \E by \in [Kinds -> Reviewer] :
                         /\ IsInjective(by)
                         /\ \A k \in Kinds :
                              <<k, by[k], ReviewBasis(packet, packet["artifact"].config, tools)>>
                                \in approved
                    /\ ~packet["stray"]
                    /\ \A f \in Kinds \cup {"usage_log", "provider_export"} :
                         packet[f] # NoFile => ~packet[f].private
  BY DEF ClaimEarned
<1> DEFINE files == Given(packet)
           c == packet["artifact"].config
           by == [k \in Kinds |-> packet[k].by]
<1>1. \A f \in Inputs : files[f] = packet[f]
  BY ClaimJudged
<1>2. ASSUME NEW k \in Kinds
      PROVE  /\ packet[k] # NoFile
             /\ packet[k].basis = ReviewBasis(packet, c, tools)
             /\ packet[k].kind = k
             /\ packet[k].favourable
             /\ ~packet[k].private
  <2>1. /\ files[k] # NoFile
        /\ files[k].basis = ReviewBasis(files, c, tools)
        /\ files[k].kind = k
        /\ files[k].favourable
        /\ ~Private(files, k)
    <3> HIDE DEF files, c
    <3> QED BY ClaimJudged, ReviewPassed DEF files, c
  <2>2. ReviewBasis(files, c, tools) = ReviewBasis(packet, c, tools)
    <3> HIDE DEF files, c
    <3> QED BY <1>1 DEF ReviewBasis, Inputs
  <2>3. files[k] = packet[k]
    BY <1>1 DEF Inputs
  <2> HIDE DEF files, c
  <2> QED BY <2>1, <2>2, <2>3 DEF Private
<1>3. by \in [Kinds -> Reviewer]
  BY <1>2 DEF PacketInvariant, Attributed
<1>4. IsInjective(by)
  <2>1. \A j, k \in Kinds : j # k => files[j].by # files[k].by
    <3> HIDE DEF files
    <3>1. Distinct(files)
      BY ClaimJudged DEF files
    <3>2. \A k \in Kinds : files[k] # NoFile
      BY <1>1, <1>2 DEF Inputs
    <3> QED BY <3>1, <3>2 DEF Distinct, Present
  <2>2. \A j, k \in Kinds : j # k => by[j] # by[k]
    <3> HIDE DEF files
    <3> QED BY <2>1, <1>1 DEF Inputs
  <2> QED BY <2>2 DEF IsInjective
<1>5. \A k \in Kinds : <<k, by[k], ReviewBasis(packet, c, tools)>> \in approved
  <2> HIDE DEF c
  <2> QED BY <1>2 DEF PacketInvariant, Attributed
<1>6. \A f \in {"usage_log", "provider_export"} : packet[f] # NoFile => ~packet[f].private
  <2>1. ~Private(files, "usage_log") /\ ~Private(files, "provider_export")
    BY ClaimJudged, ExportPassed
  <2> HIDE DEF files
  <2> QED BY <2>1, <1>1 DEF Private, Inputs, Evidence
<1> QED
  BY <1>2, <1>3, <1>4, <1>5, <1>6, ClaimJudged

-----------------------------------------------------------------------------
(* The steps *)

LEMMA InitialPacket == Init => PacketInvariant
BY DEF Init, PacketInvariant, Attributed, Inputs, Kinds, Evidence

\* Files other than reviews are written without touching a review.
LEMMA EvidencePut ==
  ASSUME NEW f \in Evidence, NEW content, NEW departs, PacketInvariant,
         Put(f, content, departs), UNCHANGED <<packet, approved>>
  PROVE  PacketInvariant'
BY DEF PacketInvariant, Attributed, Put, Inputs, Evidence, Kinds

LEMMA CollectKeeps ==
  ASSUME PacketInvariant,
         \/ ExportUsageLog \/ ExportAttestation \/ ExportProvider
         \/ WriteT1Manifest \/ RewriteT1Manifest
         \/ WriteProviderExportManifest \/ WriteCorpusManifest
  PROVE  PacketInvariant'
<1>1. CASE ExportUsageLog
  BY <1>1, EvidencePut DEF ExportUsageLog, Collect, Evidence
<1>2. CASE ExportAttestation
  BY <1>2, EvidencePut DEF ExportAttestation, Collect, Evidence
<1>3. CASE ExportProvider
  BY <1>3, EvidencePut DEF ExportProvider, Collect, Evidence
<1>4. CASE WriteT1Manifest
  BY <1>4, EvidencePut DEF WriteT1Manifest, Collect, Evidence
<1>7. CASE RewriteT1Manifest
  BY <1>7, EvidencePut DEF RewriteT1Manifest, Collect, Evidence
<1>5. CASE WriteProviderExportManifest
  BY <1>5, EvidencePut DEF WriteProviderExportManifest, Collect, Evidence
<1>6. CASE WriteCorpusManifest
  BY <1>6, EvidencePut DEF WriteCorpusManifest, Collect, Evidence
<1> QED
  BY <1>1, <1>2, <1>3, <1>4, <1>5, <1>6, <1>7

\* A reviewer who signs favourably has approved what the review binds.
LEMMA ReviewKeeps ==
  ASSUME NEW kind \in Kinds, PacketInvariant, Review(kind)
  PROVE  PacketInvariant'
<1>1. PICK by \in Reviewer, lapse \in {"none", "private", "adverse", "postdated"} :
        /\ Put(kind, [kind |-> kind, basis |-> template, by |-> by,
                      date |-> IF lapse = "postdated" THEN now + 1 ELSE now,
                      private |-> lapse = "private", favourable |-> lapse # "adverse"],
               lapse # "none" \/ \E k \in Kinds : work[k] # NoFile /\ work[k].by = by)
        /\ approved' = IF lapse = "adverse" THEN approved
                       ELSE approved \cup {<<kind, by, template>>}
  BY DEF Review
<1> DEFINE review == [kind |-> kind, basis |-> template, by |-> by,
                      date |-> IF lapse = "postdated" THEN now + 1 ELSE now,
                      private |-> lapse = "private", favourable |-> lapse # "adverse"]
<1>2. work' = [work EXCEPT ![kind] = review]
  BY <1>1 DEF Put
<1>3. approved \subseteq approved'
  BY <1>1
<1>4. review.favourable => <<review.kind, review.by, review.basis>> \in approved'
  BY <1>1
<1>5. review.by \in Reviewer
  OBVIOUS
<1>6. packet' = packet
  BY DEF Review
<1> HIDE DEF review
<1>7. Attributed(work)'
  BY <1>2, <1>3, <1>4, <1>5 DEF PacketInvariant, Attributed
<1>8. Attributed(packet)'
  BY <1>3, <1>6 DEF PacketInvariant, Attributed
<1> QED
  BY <1>2, <1>6, <1>7, <1>8 DEF PacketInvariant

\* Nothing but a copy or a removal changes a review of the packet.
LEMMA OtherFile ==
  ASSUME PacketInvariant, UNCHANGED <<work, approved>>,
         NEW f, f \notin Kinds, NEW content,
         packet' = packet \/ packet' = [packet EXCEPT ![f] = content]
  PROVE  PacketInvariant'
<1>1. DOMAIN packet' = DOMAIN packet
  OBVIOUS
<1>2. \A k \in Kinds : packet'[k] = packet[k]
  BY DEF PacketInvariant, Inputs
<1> QED
  BY <1>1, <1>2 DEF PacketInvariant, Attributed

LEMMA CopiedFile ==
  ASSUME PacketInvariant, UNCHANGED <<work, approved>>, NEW f,
         \/ packet' = [packet EXCEPT ![f] = work[f]]
         \/ packet' = [packet EXCEPT ![f] = NoFile]
  PROVE  PacketInvariant'
BY DEF PacketInvariant, Attributed, Inputs, Kinds

\* A bundle's files are copies of the operator's.
LEMMA BundleKeeps ==
  ASSUME PacketInvariant,
         \/ BeginBundle \/ CopyFile \/ DeriveT1Manifest \/ WriteArtifact \/ WriteChecklist
         \/ WriteReport \/ Seal \/ Kill
  PROVE  PacketInvariant'
<1>1. CASE BeginBundle \/ Seal \/ Kill
  BY <1>1 DEF BeginBundle, Seal, Kill, World, PacketInvariant, Attributed
<1>2. CASE CopyFile
  BY <1>2, CopiedFile DEF CopyFile, World
<1>3. CASE DeriveT1Manifest
  <2>1. PICK t1 : packet' = packet \/ packet' = [packet EXCEPT !["t1_manifest"] = t1]
    BY <1>3 DEF DeriveT1Manifest
  <2> QED BY <1>3, <2>1, OtherFile DEF DeriveT1Manifest, World, Kinds
<1>4. CASE WriteArtifact
  <2>1. packet' = packet \/ packet' = [packet EXCEPT !["artifact"] =
                                         Build(packet, job.given, job.config, tools, now)]
    BY <1>4 DEF WriteArtifact
  <2> QED BY <1>4, <2>1, OtherFile DEF WriteArtifact, World, Kinds
<1>5. CASE WriteChecklist
  BY <1>5, OtherFile DEF WriteChecklist, World, Kinds
<1>6. CASE WriteReport
  <2>1. packet' = packet \/ packet' = [packet EXCEPT !["report"] = packet["artifact"]]
    BY <1>6 DEF WriteReport
  <2> QED BY <1>6, <2>1, OtherFile DEF WriteReport, World, Kinds
<1> QED
  BY <1>1, <1>2, <1>3, <1>4, <1>5, <1>6

\* Whoever edits the bundle has no reviews but the operator's.
LEMMA EditKeeps ==
  ASSUME PacketInvariant, EditPacket
  PROVE  PacketInvariant'
<1>1. UNCHANGED <<work, approved>>
  BY DEF EditPacket, World
<1>2. CASE \E f \in Inputs : \/ packet' = [packet EXCEPT ![f] = NoFile]
                            \/ packet' = [packet EXCEPT ![f] = work[f]]
  BY <1>1, <1>2, CopiedFile
<1>3. CASE \E f \in {"checklist", "report"} : packet' = [packet EXCEPT ![f] = NoFile]
  BY <1>1, <1>3, CopiedFile
<1>4. CASE packet' = [packet EXCEPT !["stray"] = TRUE]
  BY <1>1, <1>4, OtherFile DEF Kinds
<1>5. CASE \E forged \in Overclaiming(packet["artifact"]), hashed \in BOOLEAN :
             packet' = [packet EXCEPT !["artifact"] = [forged EXCEPT !.hashed = hashed]]
  BY <1>1, <1>5, OtherFile DEF Kinds
<1> QED
  BY <1>2, <1>3, <1>4, <1>5 DEF EditPacket

LEMMA PacketStep == PacketInvariant /\ [Next]_vars => PacketInvariant'
<1> SUFFICES ASSUME PacketInvariant, [Next]_vars
             PROVE  PacketInvariant'
  OBVIOUS
<1>1. CASE UNCHANGED vars
  BY <1>1 DEF vars, PacketInvariant, Attributed
<1>2. CASE Tick \/ Serve \/ ChangeArguments \/ Upgrade \/ WriteTemplates
  BY <1>2 DEF Tick, Serve, ChangeArguments, Upgrade, WriteTemplates, PacketInvariant, Attributed
<1> QED
  BY <1>1, <1>2, CollectKeeps, ReviewKeeps, BundleKeeps, EditKeeps DEF Next

\* A packet that verifies and claims verified savings was signed, exactly as
\* it lies there, by three different people and holds no private text or mint
\* log, whatever was written, signed, copied, killed or edited before.
THEOREM ClaimsAreEarned == Spec => []ClaimEarned
<1>1. Init => PacketInvariant
  BY InitialPacket
<1>2. PacketInvariant /\ [Next]_vars => PacketInvariant'
  BY PacketStep
<1>3. PacketInvariant => ClaimEarned
  BY InvariantClaimEarned
<1> QED
  BY <1>1, <1>2, <1>3, PTL DEF Spec

-----------------------------------------------------------------------------
(* A claim does not age *)

\* The dates in the documents of a directory are days.
Dated(directory) ==
  \A f \in Kinds \cup {"corpus_manifest", "provider_export_manifest"} :
    directory[f] # NoFile => directory[f].date \in Int

LEMMA AllPassed ==
  ASSUME NEW checks, \A name \in DOMAIN checks : checks[name]
  PROVE  Failed(checks) = {}
BY DEF Failed

\* Nothing that is not in the future today is tomorrow.
LEMMA ReviewAges ==
  ASSUME NEW files, Dated(files), NEW kind \in Kinds, NEW c, NEW version, NEW day \in Int,
         ReviewEvidence(files, kind, c, version, day) = {}
  PROVE  ReviewEvidence(files, kind, c, version, day + 1) = {}
<1> DEFINE review == files[kind]
           dated == {f \in {"corpus_manifest", "provider_export_manifest"} : files[f] # NoFile}
           shown == Present(files, {"usage_log", "attestation", "provider_export",
                                    "corpus_manifest"})
                    /\ review.basis = ReviewBasis(files, c, version)
           later == \A f \in dated : files[f].date <= review.date
           checks(d) ==
             [bound |-> shown,
              kind |-> review.kind = kind,
              statements |-> Sufficient(review),
              public |-> ~Private(files, kind),
              date |-> NotFuture(review, d),
              afterEvidence |-> later]
<1>1. review # NoFile
  BY DEF ReviewEvidence
<1>2. Failed(checks(day)) = {}
  BY <1>1 DEF ReviewEvidence
<1>3. \A name \in DOMAIN checks(day) : checks(day)[name]
  <2> HIDE DEF checks
  <2> QED BY <1>2, NothingFailed
<1>4. /\ checks(day).bound /\ checks(day).kind /\ checks(day).statements /\ checks(day).public
      /\ checks(day).date /\ checks(day).afterEvidence
  BY <1>3
<1>5. NotFuture(review, day + 1)
  <2>1. review.date \in Int
    BY <1>1 DEF Dated
  <2>2. NotFuture(review, day)
    BY <1>4
  <2> HIDE DEF review
  <2> QED BY <2>1, <2>2 DEF NotFuture
<1>6. \A name \in DOMAIN checks(day + 1) : checks(day + 1)[name]
  <2>1. /\ DOMAIN checks(day + 1) = DOMAIN checks(day)
        /\ \A name \in DOMAIN checks(day) \ {"date"} :
             checks(day + 1)[name] = checks(day)[name]
    <3> HIDE DEF shown, later
    <3> QED OBVIOUS
  <2>2. checks(day + 1)["date"]
    BY <1>5
  <2> HIDE DEF checks
  <2> QED BY <1>3, <2>1, <2>2
<1>7. Failed(checks(day + 1)) = {}
  <2> HIDE DEF checks
  <2> QED BY <1>6, AllPassed
<1> QED
  BY <1>1, <1>7 DEF ReviewEvidence

LEMMA ExportAges ==
  ASSUME NEW files, Dated(files), NEW c, NEW day \in Int, ExportEvidence(files, c, day) = {}
  PROVE  ExportEvidence(files, c, day + 1) = {}
<1> DEFINE m == files["provider_export_manifest"]
           export == files["provider_export"]
           checks(d) ==
             [bound |-> Bound(m.inputs, files),
              date |-> NotFuture(m, d),
              window |-> SameWindow(m.config, c),
              mode |-> Configs[m.config].mode = Configs[c].mode,
              public |-> ~Private(files, "provider_export"),
              counted |-> export # NoFile => m.count = Len(Rows(export)) /\ m.count > 0,
              tokens |-> export # NoFile => TokenSum(Rows(export)) > 0]
<1>1. m # NoFile
  BY DEF ExportEvidence
<1>2. Failed(checks(day)) = {}
  BY <1>1 DEF ExportEvidence
<1>3. \A name \in DOMAIN checks(day) : checks(day)[name]
  <2> HIDE DEF checks
  <2> QED BY <1>2, NothingFailed
<1>4. /\ checks(day).bound /\ checks(day).date /\ checks(day).window /\ checks(day).mode
      /\ checks(day).public /\ checks(day).counted /\ checks(day).tokens
  BY <1>3
<1>5. NotFuture(m, day + 1)
  <2>1. m.date \in Int
    BY <1>1 DEF Dated
  <2>2. NotFuture(m, day)
    BY <1>4
  <2> HIDE DEF m
  <2> QED BY <2>1, <2>2 DEF NotFuture
<1>6. \A name \in DOMAIN checks(day + 1) : checks(day + 1)[name]
  <2>1. /\ DOMAIN checks(day + 1) = DOMAIN checks(day)
        /\ \A name \in DOMAIN checks(day) \ {"date"} :
             checks(day + 1)[name] = checks(day)[name]
    OBVIOUS
  <2>2. checks(day + 1)["date"]
    BY <1>5
  <2> HIDE DEF checks
  <2> QED BY <1>3, <2>1, <2>2
<1>7. Failed(checks(day + 1)) = {}
  <2> HIDE DEF checks
  <2> QED BY <1>6, AllPassed
<1> QED
  BY <1>1, <1>7 DEF ExportEvidence

LEMMA CorpusAges ==
  ASSUME NEW files, Dated(files), NEW day \in Int, CorpusEvidence(files, day) = {}
  PROVE  CorpusEvidence(files, day + 1) = {}
<1> DEFINE m == files["corpus_manifest"]
           checks(d) ==
             [bound |-> Bound(m.inputs, files),
              date |-> NotFuture(m, d),
              counted |-> m.records = files["usage_log"].records]
<1>1. m # NoFile
  BY DEF CorpusEvidence
<1>2. Failed(checks(day)) = {}
  BY <1>1 DEF CorpusEvidence
<1>3. \A name \in DOMAIN checks(day) : checks(day)[name]
  <2> HIDE DEF checks
  <2> QED BY <1>2, NothingFailed
<1>4. checks(day).bound /\ checks(day).date /\ checks(day).counted
  BY <1>3
<1>5. NotFuture(m, day + 1)
  <2>1. m.date \in Int
    BY <1>1 DEF Dated
  <2>2. NotFuture(m, day)
    BY <1>4
  <2> HIDE DEF m
  <2> QED BY <2>1, <2>2 DEF NotFuture
<1>6. \A name \in DOMAIN checks(day + 1) : checks(day + 1)[name]
  <2>1. /\ DOMAIN checks(day + 1) = DOMAIN checks(day)
        /\ \A name \in DOMAIN checks(day) \ {"date"} :
             checks(day + 1)[name] = checks(day)[name]
    OBVIOUS
  <2>2. checks(day + 1)["date"]
    BY <1>5
  <2> HIDE DEF checks
  <2> QED BY <1>3, <2>1, <2>2
<1>7. Failed(checks(day + 1)) = {}
  <2> HIDE DEF checks
  <2> QED BY <1>6, AllPassed
<1> QED
  BY <1>1, <1>7 DEF CorpusEvidence

LEMMA PlanAges ==
  ASSUME NEW files, Dated(files), NEW c, NEW research, NEW day \in Int,
         PlanEvidence(files, c, research, day) = {}
  PROVE  PlanEvidence(files, c, research, day + 1) = {}
<1> DEFINE m == files["corpus_manifest"]
           plan == Configs[m.config]
           e == files["provider_export_manifest"]
           checks(d) ==
             [date |-> NotFuture(m, d),
              beforeExport |-> e # NoFile => m.date <= e.date,
              beforeWindow |-> m.date <= plan.window.since,
              arguments |-> plan.mode = Configs[c].mode /\ plan.percent = Configs[c].percent,
              tolerance |-> ToleranceAllowed(plan),
              window |-> e # NoFile /\ SameWindow(m.config, e.config),
              agreement |-> AtBar(research.agreement)]
<1>1. m # NoFile
  BY DEF PlanEvidence
<1>2. Failed(checks(day)) = {}
  BY <1>1 DEF PlanEvidence
<1>3. \A name \in DOMAIN checks(day) : checks(day)[name]
  <2> HIDE DEF checks
  <2> QED BY <1>2, NothingFailed
<1>4. /\ checks(day).date /\ checks(day).beforeExport /\ checks(day).beforeWindow
      /\ checks(day).arguments /\ checks(day).tolerance /\ checks(day).window
      /\ checks(day).agreement
  BY <1>3
<1>5. NotFuture(m, day + 1)
  <2>1. m.date \in Int
    BY <1>1 DEF Dated
  <2>2. NotFuture(m, day)
    BY <1>4
  <2> HIDE DEF m
  <2> QED BY <2>1, <2>2 DEF NotFuture
<1>6. \A name \in DOMAIN checks(day + 1) : checks(day + 1)[name]
  <2>1. /\ DOMAIN checks(day + 1) = DOMAIN checks(day)
        /\ \A name \in DOMAIN checks(day) \ {"date"} :
             checks(day + 1)[name] = checks(day)[name]
    OBVIOUS
  <2>2. checks(day + 1)["date"]
    BY <1>5
  <2> HIDE DEF checks
  <2> QED BY <1>3, <2>1, <2>2
<1>7. Failed(checks(day + 1)) = {}
  <2> HIDE DEF checks
  <2> QED BY <1>6, AllPassed
<1> QED
  BY <1>1, <1>7 DEF PlanEvidence

\* The whole judgement of a claimable packet is the same a day later.
LEMMA JudgedAges ==
  ASSUME NEW directory, Dated(directory), NEW given, NEW c, NEW version, NEW day \in Int,
         Claimable(Build(directory, given, c, version, day))
  PROVE  Build(directory, given, c, version, day + 1) = Build(directory, given, c, version, day)
<1> DEFINE files == [f \in Inputs |-> IF f \in given THEN directory[f] ELSE NoFile]
           research == Research(given, files, Configs[c])
<1>1. Dated(files)
  BY DEF Dated, Inputs, Evidence
<1>2. /\ \A k \in Kinds : ReviewEvidence(files, k, c, version, day) = {}
      /\ ExportEvidence(files, c, day) = {}
      /\ CorpusEvidence(files, day) = {}
      /\ PlanEvidence(files, c, research, day) = {}
  <2>1. /\ \A k \in Kinds : ReviewEvidence(files, k, c, version, day) = {}
        /\ ExportEvidence(files, c, day) = {}
        /\ Judged(given, files, c, version, day).corpus = {}
        /\ Judged(given, files, c, version, day).plan = {}
    BY ClaimComputed
  <2> HIDE DEF files
  <2> QED BY <2>1 DEF Judged
<1>3. Judged(given, files, c, version, day + 1) = Judged(given, files, c, version, day)
  <2> HIDE DEF files
  <2>1. /\ \A k \in Kinds : ReviewEvidence(files, k, c, version, day + 1)
                               = ReviewEvidence(files, k, c, version, day)
        /\ ExportEvidence(files, c, day + 1) = ExportEvidence(files, c, day)
        /\ CorpusEvidence(files, day + 1) = CorpusEvidence(files, day)
        /\ PlanEvidence(files, c, research, day + 1) = PlanEvidence(files, c, research, day)
    BY <1>1, <1>2, ReviewAges, ExportAges, CorpusAges, PlanAges
  <2> QED BY <2>1 DEF Judged
<1> QED
  BY <1>3 DEF Build

LEMMA VerdictAges ==
  ASSUME NEW directory, Dated(directory), NEW version, NEW day \in Int,
         Claimable(directory["artifact"]), Verifies(directory, version, day)
  PROVE  Verifies(directory, version, day + 1)
<1> DEFINE a == directory["artifact"]
<1>1. a = Build(directory, a.given, a.config, version, day)
  BY DEF Verifies, Recomputes
<1>2. Build(directory, a.given, a.config, version, day + 1)
        = Build(directory, a.given, a.config, version, day)
  <2>1. Claimable(Build(directory, a.given, a.config, version, day))
    <3> HIDE DEF a
    <3> QED BY <1>1 DEF a
  <2> QED BY <2>1, JudgedAges
<1> QED
  BY <1>1, <1>2 DEF Verifies, Recomputes

-----------------------------------------------------------------------------
(* What was last reported as written *)

SealInvariant ==
  /\ now \in Int
  /\ Dated(work) /\ Dated(packet)
  /\ sealed # NoFile =>
       /\ Dated(sealed.packet)
       /\ sealed.packet["artifact"].inputs = Given(sealed.packet)
       /\ Claimable(sealed.packet["artifact"]) => Verifies(sealed.packet, sealed.tools, now)

LEMMA InitialSeal == Init => SealInvariant
BY DEF Init, SealInvariant, Dated, Inputs, Kinds, Evidence

\* The artifact of a directory that recomputes holds the files beside it.
LEMMA RecomputedInputs ==
  ASSUME NEW directory, NEW version, NEW day, Recomputes(directory, version, day)
  PROVE  directory["artifact"].inputs = Given(directory)
<1> DEFINE a == directory["artifact"]
           files == Given(directory)
<1>1. a = Artifact(a.given, a.config, version, files,
                    Judged(a.given, files, a.config, version, day))
  BY DEF Recomputes, Build, Given
<1>2. \A g, c, judged : Artifact(g, c, version, files, judged).inputs = files
  <2> HIDE DEF files
  <2> QED BY DEF Artifact
<1> HIDE DEF a, files
<1> QED
  BY <1>1, <1>2 DEF a, files

\* A file the operator writes, if it has a date, has one.
LEMMA PutDated ==
  ASSUME PacketInvariant, SealInvariant, NEW f \in Inputs, NEW content, NEW departs,
         f \in Kinds \cup {"corpus_manifest", "provider_export_manifest"} => content.date \in Int,
         Put(f, content, departs), UNCHANGED <<now, packet, sealed>>
  PROVE  SealInvariant'
<1>1. work' = [work EXCEPT ![f] = content] /\ DOMAIN work = Inputs
  BY DEF Put, PacketInvariant
<1>2. Dated(work)'
  BY <1>1 DEF SealInvariant, Dated
<1> QED
  BY <1>2 DEF SealInvariant, Dated

LEMMA CollectSeal ==
  ASSUME PacketInvariant, SealInvariant,
         \/ ExportUsageLog \/ ExportAttestation \/ ExportProvider
         \/ WriteT1Manifest \/ RewriteT1Manifest
         \/ WriteProviderExportManifest \/ WriteCorpusManifest
  PROVE  SealInvariant'
<1>1. UNCHANGED <<now, packet, sealed>>
  BY DEF ExportUsageLog, ExportAttestation, ExportProvider, WriteT1Manifest,
         RewriteT1Manifest, WriteProviderExportManifest, WriteCorpusManifest, Collect
<1>2. \A f \in {"usage_log", "attestation", "t1_manifest", "provider_export"} :
        f \in Inputs /\ f \notin Kinds \cup {"corpus_manifest", "provider_export_manifest"}
  BY DEF Inputs, Evidence, Kinds
<1>3. CASE ExportUsageLog
  BY <1>1, <1>2, <1>3, PutDated DEF ExportUsageLog
<1>4. CASE ExportAttestation
  BY <1>1, <1>2, <1>4, PutDated DEF ExportAttestation
<1>5. CASE ExportProvider
  BY <1>1, <1>2, <1>5, PutDated DEF ExportProvider
<1>6. CASE WriteT1Manifest
  BY <1>1, <1>2, <1>6, PutDated DEF WriteT1Manifest
<1>9. CASE RewriteT1Manifest
  BY <1>1, <1>2, <1>9, PutDated DEF RewriteT1Manifest
<1>7. CASE WriteProviderExportManifest
  <2>1. PICK content, departs :
          content.date = now /\ Put("provider_export_manifest", content, departs)
    BY <1>7 DEF WriteProviderExportManifest
  <2> QED BY <1>1, <2>1, PutDated DEF SealInvariant, Inputs, Evidence
<1>8. CASE WriteCorpusManifest
  <2>1. PICK content, departs :
          content.date \in 1 .. now /\ Put("corpus_manifest", content, departs)
    BY <1>8 DEF WriteCorpusManifest
  <2> QED BY <1>1, <2>1, PutDated DEF SealInvariant, Inputs, Evidence
<1> QED
  BY <1>3, <1>4, <1>5, <1>6, <1>7, <1>8, <1>9

LEMMA ReviewSeal ==
  ASSUME PacketInvariant, SealInvariant, NEW kind \in Kinds, Review(kind)
  PROVE  SealInvariant'
<1>1. PICK content, departs : content.date \in {now, now + 1} /\ Put(kind, content, departs)
  BY DEF Review
<1>2. content.date \in Int
  BY <1>1 DEF SealInvariant
<1> QED
  BY <1>1, <1>2, PutDated DEF Review, Inputs

\* Whatever else happens to the packet, its dates are those of copies.
LEMMA PacketDated ==
  ASSUME PacketInvariant, SealInvariant, UNCHANGED <<now, work, sealed>>, NEW f, NEW content,
         \/ packet' = packet
         \/ /\ packet' = [packet EXCEPT ![f] = content]
            /\ \/ f \notin Inputs
               \/ f = "t1_manifest"
               \/ content = NoFile
               \/ content = work[f]
  PROVE  SealInvariant'
<1>1. DOMAIN packet = Inputs \cup {"artifact", "checklist", "report", "stray"}
  BY DEF PacketInvariant
<1>2. Dated(packet)'
  BY <1>1 DEF SealInvariant, Dated, Inputs, Evidence, Kinds
<1> QED
  BY <1>2 DEF SealInvariant, Dated

\* A bundle that was reported as written verified on that day.
LEMMA BundleSeal ==
  ASSUME PacketInvariant, SealInvariant,
         \/ BeginBundle \/ CopyFile \/ DeriveT1Manifest \/ WriteArtifact \/ WriteChecklist
         \/ WriteReport \/ Seal \/ Kill
  PROVE  SealInvariant'
<1>1. UNCHANGED <<now, work>>
  BY DEF BeginBundle, CopyFile, DeriveT1Manifest, WriteArtifact, WriteChecklist, WriteReport,
         Seal, Kill, World
<1>2. CASE BeginBundle \/ Kill
  BY <1>1, <1>2, PacketDated DEF BeginBundle, Kill
<1>3. CASE CopyFile
  BY <1>1, <1>3, PacketDated DEF CopyFile
<1>4. CASE DeriveT1Manifest
  <2>1. PICK t1 : packet' = packet \/ packet' = [packet EXCEPT !["t1_manifest"] = t1]
    BY <1>4 DEF DeriveT1Manifest
  <2> QED BY <1>1, <1>4, <2>1, PacketDated DEF DeriveT1Manifest
<1>5. CASE WriteArtifact \/ WriteChecklist \/ WriteReport
  <2>1. PICK f, content :
          /\ f \in {"artifact", "checklist", "report"}
          /\ packet' = packet \/ packet' = [packet EXCEPT ![f] = content]
    BY <1>5 DEF WriteArtifact, WriteChecklist, WriteReport
  <2>2. f \notin Inputs
    BY <2>1 DEF Inputs, Evidence, Kinds
  <2> QED BY <1>1, <1>5, <2>1, <2>2, PacketDated DEF WriteArtifact, WriteChecklist, WriteReport
<1>6. CASE Seal
  <2>1. packet' = packet /\ tools' = tools
    BY <1>6 DEF Seal, World
  <2>2. CASE Verifies(packet, tools, now)
    <3>1. sealed' = [packet |-> packet, tools |-> tools]
      BY <1>6, <2>2 DEF Seal
    <3>2. packet["artifact"].inputs = Given(packet)
      BY <2>2, RecomputedInputs DEF Verifies
    <3>3. sealed'.packet = packet /\ sealed'.tools = tools
      BY <3>1
    <3> QED BY <1>1, <2>1, <2>2, <3>2, <3>3 DEF SealInvariant, Dated, Given
  <2>3. CASE ~Verifies(packet, tools, now)
    BY <1>1, <1>6, <2>1, <2>3 DEF Seal, SealInvariant, Dated
  <2> QED BY <2>2, <2>3
<1> QED
  BY <1>2, <1>3, <1>4, <1>5, <1>6

LEMMA EditSeal ==
  ASSUME PacketInvariant, SealInvariant, EditPacket
  PROVE  SealInvariant'
<1>1. UNCHANGED <<now, work, sealed>>
  BY DEF EditPacket, World
<1>2. PICK f, content :
        /\ packet' = [packet EXCEPT ![f] = content]
        /\ f \in {"artifact", "checklist", "report", "stray"} \/ content \in {NoFile, work[f]}
  BY DEF EditPacket
<1> QED
  BY <1>1, <1>2, PacketDated DEF Inputs, Evidence, Kinds

LEMMA TickSeal ==
  ASSUME SealInvariant, Tick
  PROVE  SealInvariant'
<1>1. UNCHANGED <<work, packet, sealed>> /\ now' = now + 1
  BY DEF Tick
<1>2. sealed # NoFile /\ Claimable(sealed.packet["artifact"])
        => Verifies(sealed.packet, sealed.tools, now + 1)
  BY VerdictAges DEF SealInvariant
<1> QED
  BY <1>1, <1>2 DEF SealInvariant, Dated

LEMMA SealStep == PacketInvariant /\ SealInvariant /\ [Next]_vars => SealInvariant'
<1> SUFFICES ASSUME PacketInvariant, SealInvariant, [Next]_vars
             PROVE  SealInvariant'
  OBVIOUS
<1>1. CASE UNCHANGED vars
  BY <1>1 DEF vars, SealInvariant, Dated
<1>2. CASE Serve \/ ChangeArguments \/ Upgrade \/ WriteTemplates
  BY <1>2 DEF Serve, ChangeArguments, Upgrade, WriteTemplates, SealInvariant, Dated
<1> QED
  BY <1>1, <1>2, TickSeal, CollectSeal, ReviewSeal, BundleSeal, EditSeal DEF Next

\* A written bundle that claims verified savings goes on verifying with the
\* tools it was written with: every date it was accepted with was past, and
\* the rest of its verdict is a function of its files.
THEOREM SealedClaimsStand == Spec => []SealedStands
<1>1. Init => PacketInvariant /\ SealInvariant
  BY InitialPacket, InitialSeal
<1>2. PacketInvariant /\ SealInvariant /\ [Next]_vars => (PacketInvariant /\ SealInvariant)'
  BY PacketStep, SealStep
<1>3. SealInvariant => SealedStands
  BY DEF SealInvariant, SealedStands
<1> QED
  BY <1>1, <1>2, <1>3, PTL DEF Spec

\* EditCaught follows: two directories with one artifact that recomputes hold
\* the same inputs, and the surfaces speak for the rest.
LEMMA InvariantEditCaught == SealInvariant => EditCaught
<1> SUFFICES ASSUME SealInvariant, sealed # NoFile,
                    packet["artifact"] = sealed.packet["artifact"],
                    ClaimVerifies \/ DoctorClean(packet, tools, now)
             PROVE  /\ ~packet["stray"]
                    /\ \A f \in Inputs :
                         packet[f] = IF f \in packet["artifact"].given
                                     THEN sealed.packet[f] ELSE NoFile
                    /\ \A f \in {"checklist", "report"} : packet[f] = sealed.packet["artifact"]
  BY DEF EditCaught
<1>1. Recomputes(packet, tools, now) /\ Surfaces(packet)
  BY DEF ClaimVerifies, DoctorClean, Verifies
<1>2. Given(packet) = Given(sealed.packet)
  BY <1>1, RecomputedInputs DEF SealInvariant
<1>3. \A f \in Inputs : Given(packet)[f] = Given(sealed.packet)[f]
  BY <1>2
<1>4. \A f \in packet["artifact"].given \cap Inputs : packet[f] = sealed.packet[f]
  BY <1>3 DEF Given
<1> QED
  BY <1>1, <1>4 DEF Surfaces, Unbound, Rendered

\* A directory with the artifact of the last written bundle that is accepted,
\* as a claim or by the doctor, holds what that bundle held and nothing else.
THEOREM EditsAreCaught == Spec => []EditCaught
<1>1. Init => PacketInvariant /\ SealInvariant
  BY InitialPacket, InitialSeal
<1>2. PacketInvariant /\ SealInvariant /\ [Next]_vars => (PacketInvariant /\ SealInvariant)'
  BY PacketStep, SealStep
<1>3. SealInvariant => EditCaught
  BY InvariantEditCaught
<1> QED
  BY <1>1, <1>2, <1>3, PTL DEF Spec
-----------------------------------------------------------------------------
(* Folds over positions *)

\* The last of the first n positions is n.
LEMMA MaxOfPrefix == ASSUME NEW n \in Nat, NEW s \in SUBSET (1 .. n), n \in s PROVE Max(s) = n
<1>1. \A y \in s : n >= y
  OBVIOUS
<1>2. \A x \in s : (\A y \in s : x >= y) => x = n
  OBVIOUS
<1> QED BY <1>1, <1>2 DEF Max

\* A set of positions has a last one and a first one.
LEMMA MaxChosen ==
  ASSUME NEW n \in Nat, NEW s \in SUBSET (1 .. n), s # {}
  PROVE  Max(s) \in s /\ \A y \in s : Max(s) >= y
<1> DEFINE HasLast(u) == Max(u) \in u /\ \A y \in u : Max(u) >= y
           T == {m \in Nat : \A u \in SUBSET (1 .. m) : u # {} => HasLast(u)}
<1>1. 0 \in T
  <2>1. \A u \in SUBSET (1 .. 0) : u = {}
    OBVIOUS
  <2> QED BY <2>1
<1>2. ASSUME NEW m \in Nat, m \in T PROVE m + 1 \in T
  <2> SUFFICES ASSUME NEW u \in SUBSET (1 .. m + 1), u # {} PROVE HasLast(u)
    <3> HIDE DEF HasLast
    <3> QED OBVIOUS
  <2>1. CASE m + 1 \in u
    BY <2>1, MaxOfPrefix
  <2>2. CASE m + 1 \notin u
    <3>1. u \in SUBSET (1 .. m)
      BY <2>2
    <3> QED BY <1>2, <3>1
  <2> QED BY <2>1, <2>2
<1>3. n \in T
  <2> HIDE DEF T
  <2> QED BY <1>1, <1>2, SetInduction
<1> QED BY <1>3

LEMMA MinChosen ==
  ASSUME NEW n \in Nat, NEW s \in SUBSET (1 .. n), s # {}
  PROVE  Min(s) \in s /\ \A y \in s : Min(s) <= y
<1> DEFINE u == {n + 1 - i : i \in s}
           x == n + 1 - Max(u)
<1>1. u \in SUBSET (1 .. n) /\ u # {}
  <2>1. \A i \in s : n + 1 - i \in 1 .. n
    OBVIOUS
  <2> QED BY <2>1
<1>2. Max(u) \in u /\ \A i \in u : Max(u) >= i
  <2> HIDE DEF u
  <2> QED BY <1>1, MaxChosen
<1>3. x \in s /\ \A y \in s : x <= y
  <2>1. PICK i \in s : Max(u) = n + 1 - i
    BY <1>2
  <2>2. \A y \in s : n + 1 - i >= n + 1 - y
    BY <1>2, <2>1
  <2> QED BY <2>1, <2>2
<1> HIDE DEF x
<1> QED BY <1>3 DEF Min

\* A fold from the left: its value at a set of positions comes of that of the set without its
\* last one.
FoldsTo(g, base, step, n) ==
  \A s \in SUBSET (1 .. n) :
    g[s] = IF s = {} THEN base ELSE step[<<g[s \ {Max(s)}], Max(s)>>]

LEMMA FoldExists ==
  ASSUME NEW n \in Nat, NEW A, NEW base \in A, NEW step \in [A \X (1 .. n) -> A]
  PROVE  \E g \in [SUBSET (1 .. n) -> A] : FoldsTo(g, base, step, n)
<1> DEFINE Folds(g, s) == g[s] = IF s = {} THEN base ELSE step[<<g[s \ {Max(s)}], Max(s)>>]
           Folded(m) == \E g \in [SUBSET (1 .. m) -> A] : \A s \in SUBSET (1 .. m) : Folds(g, s)
           T == {m \in Nat : m <= n => Folded(m)}
<1>1. 0 \in T
  <2> DEFINE g == [s \in SUBSET (1 .. 0) |-> base]
  <2>1. \A s \in SUBSET (1 .. 0) : s = {}
    OBVIOUS
  <2>2. g \in [SUBSET (1 .. 0) -> A] /\ \A s \in SUBSET (1 .. 0) : Folds(g, s)
    BY <2>1
  <2> QED BY <2>2
<1>2. ASSUME NEW m \in Nat, m \in T PROVE m + 1 \in T
  <2> SUFFICES ASSUME m + 1 <= n PROVE Folded(m + 1)
    <3> HIDE DEF Folded
    <3> QED OBVIOUS
  <2>0. Folded(m)
    <3> HIDE DEF Folded
    <3> QED BY <1>2
  <2>1. PICK g \in [SUBSET (1 .. m) -> A] : \A s \in SUBSET (1 .. m) : Folds(g, s)
    <3> HIDE DEF Folds
    <3> QED BY <2>0
  <2> DEFINE h == [s \in SUBSET (1 .. m + 1) |->
                    IF s \in SUBSET (1 .. m) THEN g[s] ELSE step[<<g[s \ {m + 1}], m + 1>>]]
  <2>2. ASSUME NEW s \in SUBSET (1 .. m + 1), s \notin SUBSET (1 .. m)
        PROVE  s # {} /\ Max(s) = m + 1 /\ s \ {m + 1} \in SUBSET (1 .. m)
    <3>1. m + 1 \in s
      BY <2>2
    <3> QED BY <3>1, MaxOfPrefix
  <2>3. h \in [SUBSET (1 .. m + 1) -> A]
    <3> SUFFICES ASSUME NEW s \in SUBSET (1 .. m + 1)
                 PROVE  h[s] \in A
      OBVIOUS
    <3>1. CASE s \in SUBSET (1 .. m)
      BY <3>1
    <3>2. CASE s \notin SUBSET (1 .. m)
      <4>1. g[s \ {m + 1}] \in A /\ m + 1 \in 1 .. n
        BY <2>2, <3>2
      <4> QED BY <4>1, <3>2
    <3> QED BY <3>1, <3>2
  <2>4. ASSUME NEW s \in SUBSET (1 .. m) PROVE s \in SUBSET (1 .. m + 1) /\ h[s] = g[s]
    BY <2>4
  <2>5. ASSUME NEW s \in SUBSET (1 .. m + 1) PROVE Folds(h, s)
    <3>1. CASE s \in SUBSET (1 .. m)
      <4>1. Folds(g, s)
        BY <2>1, <3>1
      <4>2. h[s \ {Max(s)}] = g[s \ {Max(s)}] /\ h[s] = g[s]
        BY <2>4, <3>1
      <4> HIDE DEF h
      <4> QED BY <4>1, <4>2
    <3>2. CASE s \notin SUBSET (1 .. m)
      <4>1. h[s \ {m + 1}] = g[s \ {m + 1}]
        BY <2>2, <2>4, <3>2
      <4>2. h[s] = step[<<g[s \ {m + 1}], m + 1>>]
        BY <3>2
      <4> HIDE DEF h
      <4> QED BY <4>1, <4>2, <2>2, <3>2
    <3> QED BY <3>1, <3>2
  <2> HIDE DEF h, Folds
  <2> QED BY <2>3, <2>5
<1>3. n \in T
  <2> HIDE DEF T
  <2> QED BY <1>1, <1>2, SetInduction
<1>4. Folded(n)
  <2> HIDE DEF Folded
  <2> QED BY <1>3
<1> QED BY <1>4 DEF FoldsTo

-----------------------------------------------------------------------------
(* load_t1_receipts *)

\* g is the fold of LoadT1, at every set of positions.
Loads(g, receipts, window) ==
  g = [s \in SUBSET DOMAIN receipts |->
         IF s = {} THEN <<>>
         ELSE LET r == receipts[Max(s)]
                  loaded == g[s \ {Max(s)}]
              IN  IF IsT1(r, window) THEN Append(loaded, r) ELSE loaded]

LEMMA LoadIsChosen ==
  ASSUME NEW receipts, NEW window
  PROVE  LoadT1(receipts, window) =
           (CHOOSE g : Loads(g, receipts, window))[DOMAIN receipts]
BY DEF LoadT1, FoldLeft, MapThenFoldSet, Loads

\* There is such a fold.
LEMMA LoadExists ==
  ASSUME NEW receipts, receipts \in Seq(Range(receipts)), NEW window
  PROVE  \E g : Loads(g, receipts, window)
<1> DEFINE A == Seq(Range(receipts))
           n == Len(receipts)
           step == [p \in A \X (1 .. n) |->
                      IF IsT1(receipts[p[2]], window) THEN Append(p[1], receipts[p[2]]) ELSE p[1]]
<1>1. n \in Nat /\ DOMAIN receipts = 1 .. n /\ <<>> \in A
  OBVIOUS
<1>2. step \in [A \X (1 .. n) -> A]
  BY <1>1 DEF Range
<1> HIDE DEF A, n, step
<1>3. PICK g \in [SUBSET (1 .. n) -> A] : FoldsTo(g, <<>>, step, n)
  BY <1>1, <1>2, FoldExists
<1>4. ASSUME NEW s \in SUBSET (1 .. n), s # {}
      PROVE  g[s] = LET r == receipts[Max(s)]
                        loaded == g[s \ {Max(s)}]
                    IN  IF IsT1(r, window) THEN Append(loaded, r) ELSE loaded
  <2>1. Max(s) \in 1 .. n
    BY <1>1, <1>4, MaxChosen
  <2>2. g[s \ {Max(s)}] \in A
    OBVIOUS
  <2>3. g[s] = step[<<g[s \ {Max(s)}], Max(s)>>]
    BY <1>3, <1>4 DEF FoldsTo
  <2> QED BY <2>1, <2>2, <2>3 DEF step
<1>5. g = [s \in SUBSET (1 .. n) |->
             IF s = {} THEN <<>>
             ELSE LET r == receipts[Max(s)]
                      loaded == g[s \ {Max(s)}]
                  IN  IF IsT1(r, window) THEN Append(loaded, r) ELSE loaded]
  BY <1>3, <1>4 DEF FoldsTo
<1> QED BY <1>1, <1>5 DEF Loads

\* What was loaded of the first receipts.
LEMMA LoadSteps ==
  ASSUME NEW receipts, receipts \in Seq(Range(receipts)), NEW window,
         NEW g, Loads(g, receipts, window)
  PROVE  /\ g[1 .. 0] = <<>>
         /\ \A k \in 1 .. Len(receipts) :
              g[1 .. k] = IF IsT1(receipts[k], window)
                          THEN Append(g[1 .. k - 1], receipts[k]) ELSE g[1 .. k - 1]
<1>1. DOMAIN receipts = 1 .. Len(receipts) /\ Len(receipts) \in Nat
  OBVIOUS
<1>2. g[1 .. 0] = <<>>
  <2>1. 1 .. 0 = {} /\ 1 .. 0 \in SUBSET DOMAIN receipts
    OBVIOUS
  <2> QED BY <2>1 DEF Loads
<1>3. ASSUME NEW k \in 1 .. Len(receipts)
      PROVE  g[1 .. k] = IF IsT1(receipts[k], window)
                         THEN Append(g[1 .. k - 1], receipts[k]) ELSE g[1 .. k - 1]
  <2>1. /\ 1 .. k \in SUBSET DOMAIN receipts /\ 1 .. k # {}
        /\ (1 .. k) \ {k} = 1 .. k - 1
    <3>1. k \in Nat /\ 1 <= k /\ k <= Len(receipts)
      OBVIOUS
    <3>2. 1 .. k \subseteq 1 .. Len(receipts) /\ 1 \in 1 .. k
      BY <3>1, <1>1
    <3>3. \A i : i \in (1 .. k) \ {k} <=> i \in 1 .. k - 1
      BY <3>1
    <3> QED BY <1>1, <3>2, <3>3
  <2>2. Max(1 .. k) = k
    BY <2>1, MaxOfPrefix
  <2> QED BY <2>1, <2>2 DEF Loads
<1> QED BY <1>2, <1>3

\* load_t1_receipts: the metered receipts of the window and no others, each as often as it
\* was there.
LEMMA LoadedT1 ==
  ASSUME NEW receipts, receipts \in Seq(Range(receipts)), NEW window
  PROVE  LET t1 == LoadT1(receipts, window)
         IN  /\ t1 \in Seq(Range(receipts))
             /\ Range(t1) = {r \in Range(receipts) : IsT1(r, window)}
             /\ IsInjective(receipts) => IsInjective(t1)
<1> DEFINE n == Len(receipts)
<1>0. n \in Nat /\ DOMAIN receipts = 1 .. n
  OBVIOUS
<1>1. PICK g : Loads(g, receipts, window) /\ LoadT1(receipts, window) = g[1 .. n]
  <2>1. \E g : Loads(g, receipts, window)
    BY LoadExists
  <2>2. Loads(CHOOSE g : Loads(g, receipts, window), receipts, window)
    BY <2>1
  <2> QED BY <1>0, <2>2, LoadIsChosen
<1> DEFINE Taken(k) == {i \in 1 .. k : IsT1(receipts[i], window)}
           Good(t1, k) ==
             /\ t1 \in Seq(Range(receipts))
             /\ Range(t1) = {receipts[i] : i \in Taken(k)}
             /\ IsInjective(receipts) => IsInjective(t1)
           T == {k \in Nat : k <= n => Good(g[1 .. k], k)}
<1>2. 0 \in T
  <2>1. g[1 .. 0] = <<>>
    BY <1>1, LoadSteps
  <2>2. Good(<<>>, 0)
    BY DEF Range, IsInjective
  <2> QED BY <2>1, <2>2
<1>3. ASSUME NEW k \in Nat, k \in T PROVE k + 1 \in T
  <2> SUFFICES ASSUME k + 1 <= n PROVE Good(g[1 .. k + 1], k + 1)
    <3> HIDE DEF Good
    <3> QED OBVIOUS
  <2> DEFINE r == receipts[k + 1]
             t == g[1 .. k]
  <2>1. Good(t, k)
    <3> HIDE DEF Good
    <3> QED BY <1>3
  <2>2. k + 1 \in 1 .. n /\ r \in Range(receipts)
    BY DEF Range
  <2>3. g[1 .. k + 1] = IF IsT1(r, window) THEN Append(t, r) ELSE t
    <3>1. (k + 1) - 1 = k
      OBVIOUS
    <3> QED BY <1>1, <2>2, <3>1, LoadSteps
  <2> HIDE DEF r, t
  <2>4. CASE ~IsT1(r, window)
    <3>1. Taken(k + 1) = Taken(k)
      BY <2>4 DEF r
    <3> QED BY <2>1, <2>3, <2>4, <3>1
  <2>5. CASE IsT1(r, window)
    <3>1. {receipts[i] : i \in Taken(k + 1)} = {receipts[i] : i \in Taken(k)} \cup {r}
      BY <2>5 DEF r
    <3>2. g[1 .. k + 1] = Append(t, r)
      BY <2>3, <2>5
    <3>3. Append(t, r) \in Seq(Range(receipts)) /\ Len(Append(t, r)) = Len(t) + 1
      BY <2>1, <2>2
    <3>4. Range(Append(t, r)) = Range(t) \cup {r}
      <4>1. DOMAIN Append(t, r) = DOMAIN t \cup {Len(t) + 1} /\ Len(t) + 1 \notin DOMAIN t
        BY <2>1, <2>2
      <4>2. \A i \in DOMAIN t : Append(t, r)[i] = t[i]
        BY <2>1, <2>2
      <4>3. Append(t, r)[Len(t) + 1] = r
        BY <2>1, <2>2
      <4> QED BY <4>1, <4>2, <4>3 DEF Range
    <3>5. ASSUME IsInjective(receipts) PROVE IsInjective(Append(t, r))
      <4>1. r \notin Range(t)
        BY <2>1, <2>2, <3>5, <1>0 DEF IsInjective, r
      <4> QED BY <2>1, <2>2, <3>5, <4>1 DEF IsInjective, Range
    <3> QED BY <2>1, <3>1, <3>2, <3>3, <3>4, <3>5
  <2> QED BY <2>4, <2>5
<1>4. n \in T
  <2> HIDE DEF T
  <2> QED BY <1>0, <1>2, <1>3, SetInduction
<1>5. Good(g[1 .. n], n)
  <2> HIDE DEF Good
  <2> QED BY <1>0, <1>4
<1>6. {receipts[i] : i \in Taken(n)} = {r \in Range(receipts) : IsT1(r, window)}
  BY <1>0 DEF Range
<1> QED BY <1>1, <1>5, <1>6

-----------------------------------------------------------------------------
(* reconcile *)

Positions(receipts) == [i \in DOMAIN receipts |-> i]

\* What the fold of Matching makes of receipt k, and that fold.
MatchNext(receipts, rows, matched, k) ==
  LET hits == Hits(receipts, rows, k, matched)
  IN IF hits = {} THEN matched
     ELSE [j \in DOMAIN matched \cup {k} |-> IF j = k THEN Min(hits) ELSE matched[j]]

Matches(g, receipts, rows) ==
  g = [s \in SUBSET DOMAIN Positions(receipts) |->
         IF s = {} THEN <<>>
         ELSE MatchNext(receipts, rows, g[s \ {Max(s)}], Positions(receipts)[Max(s)])]

LEMMA MatchingIsChosen ==
  ASSUME NEW receipts, NEW rows
  PROVE  Matching(receipts, rows) =
           (CHOOSE g : Matches(g, receipts, rows))[DOMAIN Positions(receipts)]
BY DEF Matching, FoldLeftDomain, FoldLeft, MapThenFoldSet, Matches, Positions, MatchNext

Fits(receipts, rows, k, i) ==
  /\ i \in Candidates(receipts, rows, k)
  /\ Exact(receipts[k], rows[i]) \/ Legacy(receipts[k], rows[i])

\* A row that is taken for a receipt fits it.
LEMMA HitsFit ==
  ASSUME NEW receipts, NEW rows, rows \in Seq(Range(rows)), NEW k, NEW matched,
         Hits(receipts, rows, k, matched) # {}
  PROVE  LET i == Min(Hits(receipts, rows, k, matched))
         IN i \in DOMAIN rows /\ Fits(receipts, rows, k, i)
<1> DEFINE hits == Hits(receipts, rows, k, matched)
<1>1. hits \subseteq {i \in DOMAIN rows : Fits(receipts, rows, k, i)}
  BY DEF Hits, Fits, Candidates, Named
<1>2. DOMAIN rows = 1 .. Len(rows) /\ Len(rows) \in Nat
  OBVIOUS
<1>3. Min(hits) \in hits
  <2>1. hits # {} /\ hits \in SUBSET (1 .. Len(rows))
    BY <1>1, <1>2
  <2> HIDE DEF hits
  <2> QED BY <1>2, <2>1, MinChosen
<1> QED BY <1>1, <1>3

\* The functions from receipts to rows.
Matchings(receipts, rows) ==
  UNION {[D -> DOMAIN rows] : D \in SUBSET DOMAIN receipts}

\* There is such a fold.
LEMMA MatchingExists ==
  ASSUME NEW receipts, receipts \in Seq(Range(receipts)),
         NEW rows, rows \in Seq(Range(rows))
  PROVE  \E g : Matches(g, receipts, rows)
<1> DEFINE A == Matchings(receipts, rows)
           n == Len(receipts)
           step == [p \in A \X (1 .. n) |-> MatchNext(receipts, rows, p[1], p[2])]
<1>1. n \in Nat /\ DOMAIN receipts = 1 .. n
  OBVIOUS
<1>2. <<>> \in A
  <2>1. <<>> \in [{} -> DOMAIN rows]
    OBVIOUS
  <2> QED BY <2>1 DEF Matchings
<1>3. ASSUME NEW m \in A, NEW k \in 1 .. n PROVE MatchNext(receipts, rows, m, k) \in A
  <2> DEFINE hits == Hits(receipts, rows, k, m)
  <2>1. CASE hits = {}
    BY <2>1 DEF MatchNext
  <2>2. CASE hits # {}
    <3>1. Min(hits) \in DOMAIN rows
      BY <2>2, HitsFit
    <3>2. PICK D \in SUBSET DOMAIN receipts : m \in [D -> DOMAIN rows]
      BY DEF Matchings
    <3>3. MatchNext(receipts, rows, m, k) \in [D \cup {k} -> DOMAIN rows]
      BY <2>2, <3>1, <3>2 DEF MatchNext
    <3>4. D \cup {k} \in SUBSET DOMAIN receipts
      BY <1>1, <3>2
    <3> QED BY <3>3, <3>4 DEF Matchings
  <2> QED BY <2>1, <2>2
<1>4. step \in [A \X (1 .. n) -> A]
  BY <1>3
<1> HIDE DEF A, n, step
<1>5. PICK g \in [SUBSET (1 .. n) -> A] : FoldsTo(g, <<>>, step, n)
  BY <1>1, <1>2, <1>4, FoldExists
<1>6. ASSUME NEW s \in SUBSET (1 .. n), s # {}
      PROVE  g[s] = MatchNext(receipts, rows, g[s \ {Max(s)}], Positions(receipts)[Max(s)])
  <2>1. Max(s) \in 1 .. n
    BY <1>1, <1>6, MaxChosen
  <2>2. g[s \ {Max(s)}] \in A
    OBVIOUS
  <2>3. g[s] = step[<<g[s \ {Max(s)}], Max(s)>>]
    BY <1>5, <1>6 DEF FoldsTo
  <2>4. Positions(receipts)[Max(s)] = Max(s)
    BY <1>1, <2>1 DEF Positions
  <2> QED BY <2>1, <2>2, <2>3, <2>4 DEF step
<1>7. g = [s \in SUBSET (1 .. n) |->
             IF s = {} THEN <<>>
             ELSE MatchNext(receipts, rows, g[s \ {Max(s)}], Positions(receipts)[Max(s)])]
  BY <1>5, <1>6 DEF FoldsTo
<1>8. DOMAIN Positions(receipts) = 1 .. n
  BY <1>1 DEF Positions
<1> QED BY <1>7, <1>8 DEF Matches

\* reconcile: every receipt it matched fits the row it was given.
LEMMA MatchedFits ==
  ASSUME NEW receipts, receipts \in Seq(Range(receipts)),
         NEW rows, rows \in Seq(Range(rows))
  PROVE  LET m == Matching(receipts, rows)
         IN  /\ DOMAIN m \subseteq DOMAIN receipts
             /\ \A k \in DOMAIN m : m[k] \in DOMAIN rows /\ Fits(receipts, rows, k, m[k])
<1> DEFINE n == Len(receipts)
           Good(m, k) ==
             /\ DOMAIN m \subseteq 1 .. k
             /\ \A j \in DOMAIN m : m[j] \in DOMAIN rows /\ Fits(receipts, rows, j, m[j])
<1>0. n \in Nat /\ DOMAIN receipts = 1 .. n /\ DOMAIN Positions(receipts) = 1 .. n
  BY DEF Positions
<1>1. PICK g : Matches(g, receipts, rows) /\ Matching(receipts, rows) = g[1 .. n]
  <2>1. \E g : Matches(g, receipts, rows)
    BY MatchingExists
  <2>2. Matches(CHOOSE g : Matches(g, receipts, rows), receipts, rows)
    BY <2>1
  <2> QED BY <1>0, <2>2, MatchingIsChosen
<1> DEFINE T == {k \in Nat : k <= n => Good(g[1 .. k], k)}
<1>2. 0 \in T
  <2>1. 1 .. 0 = {} /\ 1 .. 0 \in SUBSET DOMAIN Positions(receipts)
    OBVIOUS
  <2>2. g[1 .. 0] = <<>>
    BY <1>1, <2>1 DEF Matches
  <2>3. DOMAIN <<>> = {}
    OBVIOUS
  <2>4. Good(g[1 .. 0], 0)
    BY <2>2, <2>3
  <2> HIDE DEF Good
  <2> QED BY <2>4
<1>3. ASSUME NEW k \in Nat, k \in T PROVE k + 1 \in T
  <2> SUFFICES ASSUME k + 1 <= n PROVE Good(g[1 .. k + 1], k + 1)
    <3> HIDE DEF Good
    <3> QED OBVIOUS
  <2> DEFINE m == g[1 .. k]
             hits == Hits(receipts, rows, k + 1, m)
  <2>1. Good(m, k)
    <3> HIDE DEF Good
    <3> QED BY <1>3
  <2>2. g[1 .. k + 1] = MatchNext(receipts, rows, m, k + 1)
    <3>1. /\ 1 .. k + 1 \in SUBSET DOMAIN Positions(receipts) /\ k + 1 \in 1 .. k + 1
          /\ (1 .. k + 1) \ {k + 1} = 1 .. k
      BY <1>0
    <3>2. Max(1 .. k + 1) = k + 1
      BY <3>1, MaxOfPrefix
    <3>3. Positions(receipts)[k + 1] = k + 1
      BY <1>0 DEF Positions
    <3> QED BY <1>1, <3>1, <3>2, <3>3 DEF Matches
  <2> HIDE DEF m
  <2>3. CASE hits = {}
    BY <2>1, <2>2, <2>3 DEF MatchNext
  <2>4. CASE hits # {}
    <3>1. Min(hits) \in DOMAIN rows /\ Fits(receipts, rows, k + 1, Min(hits))
      BY <2>4, HitsFit
    <3>2. g[1 .. k + 1] =
            [j \in DOMAIN m \cup {k + 1} |-> IF j = k + 1 THEN Min(hits) ELSE m[j]]
      BY <2>2, <2>4 DEF MatchNext
    <3> HIDE DEF hits
    <3> QED BY <2>1, <3>1, <3>2
  <2> QED BY <2>3, <2>4
<1>4. n \in T
  <2> HIDE DEF T
  <2> QED BY <1>0, <1>2, <1>3, SetInduction
<1>5. Good(g[1 .. n], n)
  <2> HIDE DEF Good
  <2> QED BY <1>0, <1>4
<1> QED BY <1>0, <1>1, <1>5

\* A per-request reconciliation that counts: each receipt is the only one of its request, and
\* one row is that request's.
LEMMA AllMatched ==
  ASSUME NEW receipts, receipts \in Seq(Range(receipts)),
         NEW rows, rows \in Seq(Range(rows)), receipts # <<>>,
         PerRequest(receipts, rows).verdict = "RECONCILED", PerRequest(receipts, rows).identity
  PROVE  \A k \in DOMAIN receipts :
           /\ Named(receipts, receipts[k].id) = {k}
           /\ \E i \in DOMAIN rows :
                /\ Named(rows, receipts[k].id) = {i}
                /\ Exact(receipts[k], rows[i]) \/ Legacy(receipts[k], rows[i])
<1> DEFINE m == Matching(receipts, rows)
           n == Len(receipts)
<1>1. n \in Nat /\ DOMAIN receipts = 1 .. n /\ n # 0
  OBVIOUS
<1>2. Cardinality(DOMAIN m) = n
  <2> HIDE DEF m
  <2>1. Verdict(n, Cardinality(DOMAIN m) = n) = "RECONCILED"
    BY DEF PerRequest, m
  <2> QED BY <2>1, <1>1 DEF Verdict
<1>3. ByIdentity(receipts, rows)
  <2>1. ByIdentity(receipts, rows) \in BOOLEAN
    BY DEF ByIdentity
  <2> QED BY <2>1 DEF PerRequest
<1>4. DOMAIN m \subseteq 1 .. n
      /\ \A k \in DOMAIN m : m[k] \in DOMAIN rows /\ Fits(receipts, rows, k, m[k])
  BY <1>1, MatchedFits
<1>5. DOMAIN m = 1 .. n
  <2>1. IsFiniteSet(1 .. n) /\ Cardinality(1 .. n) = n
    BY <1>1, FS_Interval
  <2> HIDE DEF m, n
  <2> QED BY <1>2, <1>4, <2>1, FS_Subset
<1> HIDE DEF m
<1> SUFFICES ASSUME NEW k \in DOMAIN receipts
             PROVE  /\ Named(receipts, receipts[k].id) = {k}
                    /\ \E i \in DOMAIN rows :
                         /\ Named(rows, receipts[k].id) = {i}
                         /\ Exact(receipts[k], rows[i]) \/ Legacy(receipts[k], rows[i])
  OBVIOUS
<1>6. m[k] \in DOMAIN rows /\ Fits(receipts, rows, k, m[k])
  BY <1>1, <1>4, <1>5
<1> QED BY <1>3, <1>6 DEF Fits, Candidates

\* What a reconciliation has to be for its grade.
LEMMA GradeNeeds ==
  ASSUME NEW t1, NEW rows, NEW args, Assess(t1, rows, args).grade
  PROVE  LET receipts == LoadT1(t1, args.window)
             recon == Reconciled(receipts, rows, args)
         IN  recon.verdict = "RECONCILED" /\ recon.identity
<1> DEFINE recon == Reconciled(LoadT1(t1, args.window), rows, args)
           eligible == recon.verdict = "RECONCILED" /\ recon.identity
<1>1. ReadinessLabel(IF eligible THEN recon.agreement ELSE NoAgreement, FALSE)
        # "internally_consistent"
  <2> HIDE DEF recon
  <2> QED BY DEF Assess, Graded, recon
<1>2. ReadinessLabel(NoAgreement, FALSE) = "internally_consistent"
  BY DEF ReadinessLabel, AtBar, NoAgreement
<1> HIDE DEF recon
<1> QED BY <1>1, <1>2 DEF recon

\* Every receipt of the one stands for a link of the other, and no two for one.
Paired(t1, links) ==
  /\ \A i, j \in DOMAIN t1 : t1[i].hash = t1[j].hash => i = j
  /\ \A i, j \in DOMAIN links : links[i].hash = links[j].hash => i = j
  /\ \A n \in DOMAIN t1 : \E k \in DOMAIN links : SameLink(t1[n], links[k])
  /\ \A k \in DOMAIN links : \E n \in DOMAIN t1 : SameLink(t1[n], links[k])

\* Paired sequences add up to the same.
LEMMA SameTokens ==
  ASSUME NEW a, NEW b, a \in Seq(Range(a)), b \in Seq(Range(b)), Paired(a, b),
         \A r \in Range(b) : r.tokens \in Nat
  PROVE  TokenSum(a) = TokenSum(b)
<1> DEFINE f == [i \in DOMAIN a |-> a[i].tokens]
           g == [i \in DOMAIN b |-> b[i].tokens]
           At(i) == CHOOSE j \in DOMAIN a : SameLink(a[j], b[i])
           to == [i \in DOMAIN b |-> At(i)]
<1>1. IsFiniteSet(DOMAIN b)
  <2>1. DOMAIN b = 1 .. Len(b) /\ Len(b) \in Nat
    OBVIOUS
  <2> QED BY <2>1, FS_Interval
<1>2. ASSUME NEW i \in DOMAIN b PROVE to[i] \in DOMAIN a /\ SameLink(a[to[i]], b[i])
  <2>1. \E j \in DOMAIN a : SameLink(a[j], b[i])
    BY DEF Paired
  <2> QED BY <2>1
<1>3. \A i \in DOMAIN b : g[i] = f[to[i]] /\ g[i] \in Int
  <2> HIDE DEF to
  <2>1. \A i \in DOMAIN b : b[i].tokens \in Nat
    BY DEF Range
  <2> QED BY <1>2, <2>1 DEF SameLink
<1>4. ASSUME NEW i \in DOMAIN b, NEW j \in DOMAIN b, to[i] = to[j] PROVE i = j
  <2> HIDE DEF to
  <2>1. a[to[i]].hash = b[i].hash /\ a[to[j]].hash = b[j].hash
    BY <1>2 DEF SameLink
  <2> QED BY <1>4, <2>1 DEF Paired
<1>5. ASSUME NEW j PROVE j \in DOMAIN a <=> \E i \in DOMAIN b : j = to[i]
  <2> HIDE DEF to
  <2>1. ASSUME j \in DOMAIN a PROVE \E i \in DOMAIN b : j = to[i]
    <3>1. PICK i \in DOMAIN b : SameLink(a[j], b[i])
      BY <2>1 DEF Paired
    <3>2. a[to[i]].hash = a[j].hash /\ to[i] \in DOMAIN a
      BY <1>2, <3>1 DEF SameLink
    <3> QED BY <2>1, <3>2 DEF Paired
  <2> QED BY <1>2, <2>1
<1>6. SumFunctionOnSet(g, DOMAIN b) = SumFunctionOnSet(f, DOMAIN a)
  <2> HIDE DEF f, g, to
  <2> DEFINE S == DOMAIN b
             D == DOMAIN a
  <2>1. IsFiniteSet(S)
    BY <1>1
  <2>2. \A x \in S : g[x] \in Int /\ g[x] = f[to[x]]
    BY <1>3
  <2>3. \A x, y \in S : to[x] = to[y] => x = y
    BY <1>4
  <2>4. \A y : y \in D <=> \E x \in S : y = to[x]
    BY <1>5
  <2>5. Renames(to, g, S, f, D)
    <3> HIDE DEF S, D
    <3> QED BY <2>1, <2>2, <2>3, <2>4 DEF Renames
  <2>6. SumFunctionOnSet(g, S) = SumFunctionOnSet(f, D)
    <3> HIDE DEF S, D
    <3> QED BY <2>5, RenamedSum
  <2> QED BY <2>6
<1> QED BY <1>6 DEF TokenSum

-----------------------------------------------------------------------------
(* Where the evidence comes from *)

\* The positions a file holds are those of receipts, rows and arguments.
SourcedAs(f, content) ==
  content # NoFile =>
    /\ f = "attestation" => content.chain \in 0 .. Len(Traffic)
    /\ f = "t1_manifest" => content.receipts \in Seq(Range(content.receipts))
    /\ f = "provider_export" => content.rows \in DOMAIN Exports
    /\ f = "corpus_manifest" => content.config \in DOMAIN Configs

Sourced(files) == \A f \in Inputs : SourcedAs(f, files[f])

SourceInvariant ==
  /\ chain \in 0 .. Len(Traffic) /\ config \in DOMAIN Configs
  /\ Sourced(work) /\ Sourced(packet)

LEMMA InitialSource == Init => SourceInvariant
BY PacketAssumption DEF Init, SourceInvariant, Sourced, SourcedAs, Inputs, Kinds, Evidence

\* The first receipts of the log.
LEMMA FirstReceipts ==
  ASSUME NEW n \in 0 .. Len(Traffic)
  PROVE  LET links == SubSeq(Traffic, 1, n)
         IN  /\ links \in Seq(Range(links)) /\ Range(links) \subseteq Range(Traffic)
             /\ \A i, j \in DOMAIN links : links[i].hash = links[j].hash => i = j
<1> DEFINE links == SubSeq(Traffic, 1, n)
<1>1. /\ Traffic \in Seq(Range(Traffic)) /\ DOMAIN Traffic = 1 .. Len(Traffic)
      /\ Len(Traffic) \in Nat
  BY PacketAssumption
<1>2. links = [i \in 1 .. n |-> Traffic[i]] /\ n \in Nat
  BY <1>1
<1>3. Range(links) \subseteq Range(Traffic)
  BY <1>1, <1>2 DEF Range
<1>4. \A i, j \in DOMAIN links : links[i].hash = links[j].hash => i = j
  BY <1>1, <1>2, PacketAssumption
<1>5. links \in Seq(Range(links))
  <2>1. \A i \in 1 .. n : Traffic[i] \in Range(links)
    BY <1>2 DEF Range
  <2> QED BY <1>2, <2>1
<1> QED BY <1>3, <1>4, <1>5

LEMMA ListsItself ==
  ASSUME NEW n \in Nat, NEW t, t = [i \in 1 .. n |-> t[i]]
  PROVE  t \in Seq(Range(t))
<1>1. \A i \in 1 .. n : t[i] \in Range(t)
  BY DEF Range
<1> QED BY <1>1

LEMMA SequenceListsItself ==
  ASSUME NEW S, NEW t \in Seq(S)
  PROVE  t \in Seq(Range(t))
BY ListsItself

\* write_t1_manifest: receipts of the log.
LEMMA MintedSourced ==
  ASSUME SourceInvariant, NEW window
  PROVE  MintedT1(window).receipts \in Seq(Range(MintedT1(window).receipts))
<1> DEFINE links == SubSeq(Traffic, 1, chain)
<1>1. links \in Seq(Range(links))
  BY FirstReceipts DEF SourceInvariant
<1>2. LoadT1(links, window) \in Seq(Range(links))
  <2> HIDE DEF links
  <2> QED BY <1>1, LoadedT1
<1> HIDE DEF links
<1>3. LoadT1(links, window) \in Seq(Range(LoadT1(links, window)))
  BY <1>2, SequenceListsItself
<1> QED BY <1>3 DEF MintedT1, links

\* A rewritten manifest lists receipts still.
LEMMA RewrittenListsItself ==
  ASSUME NEW t1, t1 \in Seq(Range(t1)), NEW t \in Rewritten(t1)
  PROVE  t \in Seq(Range(t))
<1>1. DOMAIN t1 = 1 .. Len(t1) /\ Len(t1) \in Nat
  OBVIOUS
<1>2. CASE \E i \in DOMAIN t1 : t = RemoveAt(t1, i)
  <2>1. PICK i \in 1 .. Len(t1) : t = RemoveAt(t1, i)
    BY <1>1, <1>2
  <2>2. SubSeq(t1, 1, i - 1) \in Seq(Range(t1)) /\ SubSeq(t1, i + 1, Len(t1)) \in Seq(Range(t1))
    BY <1>1
  <2>3. t \in Seq(Range(t1))
    BY <2>1, <2>2, ConcatProperties DEF RemoveAt
  <2> QED BY <2>3, SequenceListsItself
<1>3. CASE t = [i \in 1 .. Len(t1) |-> t[i]]
  BY <1>1, <1>3, ListsItself
<1>4. \/ \E i \in DOMAIN t1 : t = RemoveAt(t1, i)
      \/ t = [i \in 1 .. Len(t1) |-> t[i]]
  <2>1. t1 = [i \in 1 .. Len(t1) |-> t1[i]]
    OBVIOUS
  <2>2. CASE \E i, j \in DOMAIN t1 : t = [t1 EXCEPT ![i].id = t1[j].id, ![j].id = t1[i].id]
    BY <2>1, <2>2
  <2>3. CASE \E i \in DOMAIN t1, id \in {NoId, BadId} : t = [t1 EXCEPT ![i].id = id]
    BY <2>1, <2>3
  <2>4. CASE \E i \in DOMAIN t1 : t = [t1 EXCEPT ![i].tokens = @ - 1]
    BY <2>1, <2>4
  <2> QED BY <2>2, <2>3, <2>4 DEF Rewritten
<1> QED BY <1>2, <1>3, <1>4

\* One file is written.
LEMMA FileSourced ==
  ASSUME NEW files, Inputs \subseteq DOMAIN files, Sourced(files), NEW f, NEW content,
         SourcedAs(f, content), NEW more, more = files \/ more = [files EXCEPT ![f] = content]
  PROVE  Sourced(more)
BY DEF Sourced

\* Some files hold no positions.
LEMMA NothingSourced ==
  ASSUME NEW f, NEW content,
         \/ content = NoFile
         \/ f \notin {"attestation", "t1_manifest", "provider_export", "corpus_manifest"}
  PROVE  SourcedAs(f, content)
BY DEF SourcedAs

LEMMA CollectSource ==
  ASSUME PacketInvariant, SourceInvariant,
         \/ ExportUsageLog \/ ExportAttestation \/ ExportProvider
         \/ WriteT1Manifest \/ RewriteT1Manifest
         \/ WriteProviderExportManifest \/ WriteCorpusManifest
  PROVE  SourceInvariant'
<1>1. UNCHANGED <<chain, config, packet>>
  BY DEF ExportUsageLog, ExportAttestation, ExportProvider, WriteT1Manifest,
         RewriteT1Manifest, WriteProviderExportManifest, WriteCorpusManifest, Collect
<1>2. PICK f, content : SourcedAs(f, content) /\ work' = [work EXCEPT ![f] = content]
  <2>1. CASE ExportUsageLog
    BY <2>1, NothingSourced DEF ExportUsageLog, Put
  <2>2. CASE ExportAttestation
    <3>1. PICK content : content.chain = chain /\ work' = [work EXCEPT !["attestation"] = content]
      BY <2>2 DEF ExportAttestation, Put
    <3> QED BY <3>1 DEF SourceInvariant, SourcedAs
  <2>3. CASE ExportProvider
    <3>1. PICK content : /\ content.rows \in DOMAIN Exports
                         /\ work' = [work EXCEPT !["provider_export"] = content]
      BY <2>3 DEF ExportProvider, Put
    <3> QED BY <3>1 DEF SourcedAs
  <2>4. CASE WriteT1Manifest
    <3>1. work' = [work EXCEPT !["t1_manifest"] = MintedT1(Arguments.window)]
      BY <2>4 DEF WriteT1Manifest, Put
    <3> QED BY <3>1, MintedSourced DEF SourcedAs
  <2>7. CASE RewriteT1Manifest
    <3>1. PICK t1 \in Rewritten(work["t1_manifest"].receipts) :
            work' = [work EXCEPT !["t1_manifest"]
                       = [source |-> work["t1_manifest"].source, receipts |-> t1]]
      BY <2>7 DEF RewriteT1Manifest, Put
    <3>2. work["t1_manifest"].receipts \in Seq(Range(work["t1_manifest"].receipts))
      BY <2>7 DEF RewriteT1Manifest, SourceInvariant, Sourced, SourcedAs, Inputs, Evidence
    <3>3. t1 \in Seq(Range(t1))
      BY <3>1, <3>2, RewrittenListsItself
    <3> DEFINE content == [source |-> work["t1_manifest"].source, receipts |-> t1]
    <3>4. SourcedAs("t1_manifest", content)
      <4>1. content.receipts = t1
        OBVIOUS
      <4> QED BY <3>3, <4>1 DEF SourcedAs
    <3> QED BY <3>1, <3>4
  <2>5. CASE WriteProviderExportManifest
    BY <2>5, NothingSourced DEF WriteProviderExportManifest, Put
  <2>6. CASE WriteCorpusManifest
    <3>1. PICK content : content.config = config
                         /\ work' = [work EXCEPT !["corpus_manifest"] = content]
      BY <2>6 DEF WriteCorpusManifest, Put
    <3> QED BY <3>1 DEF SourceInvariant, SourcedAs
  <2> QED BY <2>1, <2>2, <2>3, <2>4, <2>5, <2>6, <2>7
<1>3. Sourced(work')
  BY <1>2, FileSourced DEF PacketInvariant, SourceInvariant
<1> QED BY <1>1, <1>3 DEF SourceInvariant, Sourced

LEMMA ReviewSource ==
  ASSUME PacketInvariant, SourceInvariant, NEW kind \in Kinds, Review(kind)
  PROVE  SourceInvariant'
<1>1. UNCHANGED <<chain, config, packet>>
  BY DEF Review
<1>2. PICK content : work' = [work EXCEPT ![kind] = content]
  BY DEF Review, Put
<1>3. SourcedAs(kind, content)
  BY NothingSourced DEF Kinds
<1>4. Sourced(work')
  BY <1>2, <1>3, FileSourced DEF PacketInvariant, SourceInvariant
<1> QED BY <1>1, <1>4 DEF SourceInvariant, Sourced

LEMMA BundleSource ==
  ASSUME PacketInvariant, SourceInvariant,
         \/ BeginBundle \/ CopyFile \/ DeriveT1Manifest \/ WriteArtifact \/ WriteChecklist
         \/ WriteReport \/ Seal \/ Kill \/ EditPacket
  PROVE  SourceInvariant'
<1>1. UNCHANGED <<chain, config, work>>
  BY DEF BeginBundle, CopyFile, DeriveT1Manifest, WriteArtifact, WriteChecklist, WriteReport,
         Seal, Kill, EditPacket, World
<1>2. Inputs \subseteq DOMAIN packet /\ Sourced(packet)
  BY DEF PacketInvariant, SourceInvariant
<1>3. \A f : f \notin Inputs => f \notin {"attestation", "t1_manifest", "provider_export",
                                         "corpus_manifest"}
  BY DEF Inputs, Evidence
<1>4. \A f : SourcedAs(f, NoFile) /\ SourcedAs(f, work[f])
  <2>1. \A f : SourcedAs(f, NoFile)
    BY NothingSourced
  <2>2. \A f \in Inputs : SourcedAs(f, work[f])
    BY DEF SourceInvariant, Sourced
  <2>3. \A f : f \notin Inputs => SourcedAs(f, work[f])
    BY <1>3, NothingSourced
  <2> QED BY <2>1, <2>2, <2>3
<1>5. \A f, content : f \in {"artifact", "checklist", "report", "stray"} => SourcedAs(f, content)
  BY NothingSourced
<1>6. PICK f, content : /\ SourcedAs(f, content)
                        /\ packet' = packet \/ packet' = [packet EXCEPT ![f] = content]
  <2>1. CASE BeginBundle \/ Seal \/ Kill
    BY <1>4, <2>1 DEF BeginBundle, Seal, Kill
  <2>2. CASE CopyFile
    BY <1>4, <2>2 DEF CopyFile
  <2>3. CASE DeriveT1Manifest
    <3>1. PICK window : \/ packet' = packet
                        \/ packet' = [packet EXCEPT !["t1_manifest"] = MintedT1(window)]
      BY <2>3 DEF DeriveT1Manifest
    <3>2. SourcedAs("t1_manifest", MintedT1(window))
      BY MintedSourced DEF SourcedAs
    <3> QED BY <3>1, <3>2
  <2>4. CASE WriteArtifact
    BY <1>5, <2>4 DEF WriteArtifact
  <2>5. CASE WriteChecklist
    <3>1. packet' = [packet EXCEPT !["checklist"] = packet["artifact"]]
      BY <2>5 DEF WriteChecklist
    <3>2. SourcedAs("checklist", packet["artifact"])
      BY <1>5
    <3> QED BY <3>1, <3>2
  <2>6. CASE WriteReport
    BY <1>5, <2>6 DEF WriteReport
  <2>7. CASE EditPacket
    BY <1>4, <1>5, <2>7 DEF EditPacket
  <2> QED BY <2>1, <2>2, <2>3, <2>4, <2>5, <2>6, <2>7
<1>7. Sourced(packet')
  BY <1>2, <1>6, FileSourced
<1> QED BY <1>1, <1>7 DEF SourceInvariant, Sourced

LEMMA SourceStep == PacketInvariant /\ SourceInvariant /\ [Next]_vars => SourceInvariant'
<1> SUFFICES ASSUME PacketInvariant, SourceInvariant, [Next]_vars
             PROVE  SourceInvariant'
  OBVIOUS
<1>1. CASE UNCHANGED vars
  BY <1>1 DEF vars, SourceInvariant, Sourced
<1>2. CASE Tick \/ ChangeArguments \/ Upgrade \/ WriteTemplates
  BY <1>2 DEF Tick, ChangeArguments, Upgrade, WriteTemplates, SourceInvariant, Sourced
<1>3. CASE Serve
  <2>1. chain' \in 0 .. Len(Traffic)
    <3>1. Len(Traffic) \in Nat
      BY PacketAssumption
    <3> QED BY <1>3, <3>1 DEF Serve, SourceInvariant
  <2> QED BY <1>3, <2>1 DEF Serve, SourceInvariant, Sourced
<1> QED
  BY <1>1, <1>2, <1>3, CollectSource, ReviewSource, BundleSource DEF Next
-----------------------------------------------------------------------------
(* What a claim that verifies was reconciled with *)

\* _t1_manifest_attestation_binding: in any window the receipts of the manifest and the links of
\* the attestation stand for each other.
LEMMA T1Attested ==
  ASSUME NEW files, Sourced(files), T1Evidence(files) = {}, NEW window
  PROVE  LET t1 == LoadT1(files["t1_manifest"].receipts, window)
             links == LoadT1(Links(files["attestation"]), window)
         IN  /\ t1 \in Seq(Range(t1)) /\ links \in Seq(Range(links))
             /\ Paired(t1, links) /\ Range(links) \subseteq Range(Traffic)
<1> DEFINE listed == files["t1_manifest"].receipts
           shown == Links(files["attestation"])
           checks ==
             [metered |-> \A i \in DOMAIN listed : listed[i].tier = "provider_metered",
              attested |-> \A i \in DOMAIN listed :
                             \E j \in Metered(shown) : SameLink(listed[i], shown[j]),
              distinct |-> \A i, j \in DOMAIN listed : listed[i].hash = listed[j].hash => i = j,
              complete |-> ListsAll(listed, shown)]
<1>1. files["t1_manifest"] # NoFile /\ files["attestation"] # NoFile
  BY DEF T1Evidence
<1>2. checks.metered /\ checks.attested /\ checks.distinct /\ checks.complete
  <2>1. Failed(checks) = {}
    BY <1>1 DEF T1Evidence
  <2>2. \A name \in DOMAIN checks : checks[name]
    <3> HIDE DEF checks
    <3> QED BY <2>1, NothingFailed
  <2> QED BY <2>2
<1>3. /\ shown \in Seq(Range(shown)) /\ Range(shown) \subseteq Range(Traffic)
      /\ \A i, j \in DOMAIN shown : shown[i].hash = shown[j].hash => i = j
  <2>1. files["attestation"].chain \in 0 .. Len(Traffic)
    BY <1>1 DEF Sourced, SourcedAs, Inputs, Evidence
  <2> QED BY <2>1, FirstReceipts DEF Links
<1>4. listed \in Seq(Range(listed)) /\ IsInjective(listed) /\ IsInjective(shown)
  <2>1. listed \in Seq(Range(listed))
    BY <1>1 DEF Sourced, SourcedAs, Inputs, Evidence
  <2> QED BY <2>1, <1>2, <1>3 DEF IsInjective
<1>12. /\ \A i \in DOMAIN listed : listed[i].tier = "provider_metered"
       /\ \A i \in DOMAIN listed : \E j \in Metered(shown) : SameLink(listed[i], shown[j])
       /\ \A i, j \in DOMAIN listed : listed[i].hash = listed[j].hash => i = j
       /\ \A j \in Metered(shown) : \E i \in DOMAIN listed : listed[i].hash = shown[j].hash
  BY <1>2 DEF ListsAll
<1> HIDE DEF listed, shown, checks
<1> DEFINE t1 == LoadT1(listed, window)
           links == LoadT1(shown, window)
<1>5. /\ t1 \in Seq(Range(listed)) /\ links \in Seq(Range(shown))
      /\ Range(t1) = {r \in Range(listed) : IsT1(r, window)}
      /\ Range(links) = {r \in Range(shown) : IsT1(r, window)}
      /\ IsInjective(t1) /\ IsInjective(links)
  BY <1>3, <1>4, LoadedT1
<1> HIDE DEF t1, links
<1>6. ASSUME NEW i \in DOMAIN t1, NEW j \in DOMAIN t1, t1[i].hash = t1[j].hash PROVE i = j
  <2>1. t1[i] \in Range(listed) /\ t1[j] \in Range(listed)
    BY <1>5
  <2>2. t1[i] = t1[j]
    BY <1>6, <1>12, <2>1 DEF Range
  <2> QED BY <1>5, <2>2 DEF IsInjective
<1>7. ASSUME NEW i \in DOMAIN links, NEW j \in DOMAIN links, links[i].hash = links[j].hash
      PROVE  i = j
  <2>1. links[i] \in Range(shown) /\ links[j] \in Range(shown)
    BY <1>5
  <2>2. links[i] = links[j]
    BY <1>7, <1>3, <2>1 DEF Range
  <2> QED BY <1>5, <2>2 DEF IsInjective
<1>8. ASSUME NEW n \in DOMAIN t1 PROVE \E k \in DOMAIN links : SameLink(t1[n], links[k])
  <2>1. t1[n] \in Range(listed) /\ IsT1(t1[n], window)
    BY <1>5 DEF Range
  <2>2. PICK i \in DOMAIN listed : listed[i] = t1[n]
    BY <2>1 DEF Range
  <2>3. PICK j \in Metered(shown) : SameLink(t1[n], shown[j])
    BY <1>12, <2>2
  <2>4. shown[j] \in Range(shown) /\ IsT1(shown[j], window)
    BY <2>1, <2>3 DEF Metered, SameLink, IsT1, Range
  <2> QED BY <1>5, <2>3, <2>4 DEF Range
<1>9. ASSUME NEW k \in DOMAIN links PROVE \E n \in DOMAIN t1 : SameLink(t1[n], links[k])
  <2>1. links[k] \in Range(shown) /\ IsT1(links[k], window)
    BY <1>5 DEF Range
  <2>2. PICK j \in DOMAIN shown : shown[j] = links[k]
    BY <2>1 DEF Range
  <2>3. j \in Metered(shown)
    BY <2>1, <2>2 DEF Metered, IsT1
  <2>4. PICK i \in DOMAIN listed : listed[i].hash = shown[j].hash
    BY <1>12, <2>3
  <2>5. PICK l \in Metered(shown) : SameLink(listed[i], shown[l])
    BY <1>12
  <2>6. l = j
    BY <1>3, <2>3, <2>4, <2>5 DEF SameLink, Metered
  <2>7. listed[i] \in Range(listed) /\ IsT1(listed[i], window)
    BY <1>12, <2>1, <2>2, <2>5, <2>6 DEF SameLink, IsT1, Range
  <2>8. PICK n \in DOMAIN t1 : t1[n] = listed[i]
    BY <1>5, <2>7 DEF Range
  <2> QED BY <2>2, <2>5, <2>6, <2>8
<1>10. Paired(t1, links)
  BY <1>6, <1>7, <1>8, <1>9 DEF Paired
<1>11. t1 \in Seq(Range(t1)) /\ links \in Seq(Range(links))
  BY <1>5, SequenceListsItself
<1> QED BY <1>3, <1>5, <1>10, <1>11 DEF t1, links, listed, shown

\* _validation_plan: it has the tolerance of the packet's arguments.
LEMMA PlanPassed ==
  ASSUME NEW files, NEW c, NEW research, NEW day, PlanEvidence(files, c, research, day) = {}
  PROVE  /\ files["corpus_manifest"] # NoFile
         /\ Configs[c].percent = Configs[files["corpus_manifest"].config].percent
<1> DEFINE m == files["corpus_manifest"]
           plan == Configs[m.config]
           e == files["provider_export_manifest"]
           checks ==
             [date |-> NotFuture(m, day),
              beforeExport |-> e # NoFile => m.date <= e.date,
              beforeWindow |-> m.date <= plan.window.since,
              arguments |-> plan.mode = Configs[c].mode /\ plan.percent = Configs[c].percent,
              tolerance |-> ToleranceAllowed(plan),
              window |-> e # NoFile /\ SameWindow(m.config, e.config),
              agreement |-> AtBar(research.agreement)]
<1>1. m # NoFile
  BY DEF PlanEvidence
<1>2. Failed(checks) = {}
  BY <1>1 DEF PlanEvidence
<1>3. \A name \in DOMAIN checks : checks[name]
  <2> HIDE DEF checks
  <2> QED BY <1>2, NothingFailed
<1>4. checks.arguments
  BY <1>3
<1> QED BY <1>1, <1>4

LEMMA TokensNat ==
  ASSUME NEW t, t \in Seq(Range(t)), \A r \in Range(t) : r.tokens \in Nat
  PROVE  TokenSum(t) \in Nat
<1>1. IsFiniteSet(DOMAIN t)
  <2>1. DOMAIN t = 1 .. Len(t) /\ Len(t) \in Nat
    OBVIOUS
  <2> QED BY <2>1, FS_Interval
<1>2. \A i \in DOMAIN t : [j \in DOMAIN t |-> t[j].tokens][i] \in Nat
  BY DEF Range
<1> QED BY <1>1, <1>2, SumNat DEF TokenSum

\* ClaimBacked for the receipts of the manifest, which stand for the links of the attestation.
LEMMA InvariantClaimBacked == SourceInvariant => ClaimBacked
<1> DEFINE c == packet["artifact"].config
           args == Configs[c]
           files == Given(packet)
           judged == Judged(packet["artifact"].given, files, c, tools, now)
           t1 == LoadT1(files["t1_manifest"].receipts, args.window)
           links == LoadT1(Links(packet["attestation"]), args.window)
           t == LoadT1(packet["t1_manifest"].receipts, args.window)
           rows == Rows(packet["provider_export"])
<1> SUFFICES ASSUME SourceInvariant, ClaimVerifies
             PROVE  /\ links # <<>>
                    /\ IF args.mode = "aggregate"
                       THEN 100 * TokenSum(links) <= 102 * TokenSum(rows)
                       ELSE \A k \in DOMAIN links : \E n \in DOMAIN t, i \in DOMAIN rows :
                              /\ t[n].hash = links[k].hash
                              /\ Named(t, t[n].id) = {n}
                              /\ Named(rows, t[n].id) = {i}
                              /\ Exact(links[k], rows[i]) \/ Legacy(links[k], rows[i])
  BY DEF ClaimBacked
<1>1. ScienceGate(files, c, judged) = {} /\ \A f \in Inputs : files[f] = packet[f]
  BY ClaimJudged
<1>2. /\ judged.plan = {} /\ judged.t1 = {} /\ judged.research.t1 > 0 /\ judged.research.grade
      /\ ToleranceAllowed(args)
  <2> HIDE DEF files, judged
  <2> QED BY <1>1, SciencePassed
<1>3. /\ judged.t1 = T1Evidence(files)
      /\ judged.research = Research(packet["artifact"].given, files, args)
      /\ judged.plan = PlanEvidence(files, c, judged.research, now)
  <2> HIDE DEF files
  <2> QED BY DEF Judged
<1>4. /\ files["t1_manifest"] = packet["t1_manifest"]
      /\ files["attestation"] = packet["attestation"]
      /\ files["provider_export"] = packet["provider_export"]
      /\ files["corpus_manifest"] = packet["corpus_manifest"]
      /\ Sourced(files)
  BY <1>1 DEF SourceInvariant, Sourced, Inputs, Evidence
<1> HIDE DEF files, judged
<1>5. /\ files["provider_export"] # NoFile
      /\ judged.research = Assess(files["t1_manifest"].receipts, rows, args)
  BY <1>2, <1>3, <1>4 DEF Research
<1>6. /\ t1 \in Seq(Range(t1)) /\ links \in Seq(Range(links))
      /\ Paired(t1, links) /\ Range(links) \subseteq Range(Traffic)
  BY <1>2, <1>3, <1>4, T1Attested
<1>13. t = t1
  BY <1>4
<1>14. \A r \in Range(links) : r.tokens \in Nat
  BY <1>6, PacketAssumption
<1>15. \A r \in Range(t1) : r.tokens \in Nat
  <2> HIDE DEF t1, links
  <2> SUFFICES ASSUME NEW n \in DOMAIN t1 PROVE t1[n].tokens \in Nat
    BY DEF Range
  <2>1. PICK k \in DOMAIN links : SameLink(t1[n], links[k])
    BY <1>6 DEF Paired
  <2>2. links[k].tokens \in Nat
    BY <1>14 DEF Range
  <2> QED BY <2>1, <2>2 DEF SameLink
<1>7. rows \in Seq(Range(rows)) /\ \A row \in Range(rows) : row.tokens \in Nat
  <2>1. files["provider_export"].rows \in DOMAIN Exports
    BY <1>4, <1>5 DEF Sourced, SourcedAs, Inputs, Evidence
  <2>2. rows \in Range(Exports)
    BY <1>4, <2>1 DEF Rows, Range
  <2> HIDE DEF rows
  <2> QED BY <2>2, PacketAssumption
<1>8. t1 # <<>>
  <2>1. judged.research.t1 = Len(t1)
    BY <1>5 DEF Assess, Graded
  <2> HIDE DEF t1
  <2> QED BY <1>2, <1>6, <2>1
<1>9. /\ Reconciled(t1, rows, args).verdict = "RECONCILED"
      /\ Reconciled(t1, rows, args).identity
  <2>1. Assess(files["t1_manifest"].receipts, rows, args).grade
    BY <1>2, <1>5
  <2> QED BY <2>1, GradeNeeds
<1> HIDE DEF t1, t, links, rows
<1>10. links # <<>>
  <2>1. 1 \in DOMAIN t1
    BY <1>6, <1>8
  <2>2. DOMAIN links # {}
    BY <1>6, <2>1 DEF Paired
  <2> QED BY <2>2
<1>11. CASE args.mode = "aggregate"
  <2>1. TokenSum(links) = TokenSum(t1)
    BY <1>6, <1>14, SameTokens
  <2>2. Aggregate(t1, rows, args.percent).verdict = "RECONCILED"
    BY <1>8, <1>9, <1>11 DEF Reconciled
  <2>3. TokenSum(t1) * 100 <= TokenSum(rows) * (100 + args.percent)
    <3> DEFINE agrees == TokenSum(t1) * 100 <= TokenSum(rows) * (100 + args.percent)
    <3>1. Verdict(TokenSum(t1), agrees) = "RECONCILED"
      <4> HIDE DEF agrees
      <4> QED BY <2>2 DEF Aggregate, agrees
    <3> HIDE DEF agrees
    <3>2. agrees
      BY <3>1 DEF Verdict
    <3> QED BY <3>2 DEF agrees
  <2>4. TokenSum(rows) \in Nat /\ TokenSum(t1) \in Nat
    BY <1>6, <1>7, <1>15, TokensNat
  <2>5. args.percent \in Nat /\ args.percent <= 2
    <3>1. /\ files["corpus_manifest"] # NoFile
          /\ args.percent = Configs[files["corpus_manifest"].config].percent
      BY <1>2, <1>3, PlanPassed
    <3>2. files["corpus_manifest"].config \in DOMAIN Configs
      BY <1>4, <3>1 DEF Sourced, SourcedAs, Inputs, Evidence
    <3>3. args.percent \in Nat
      BY <3>1, <3>2, PacketAssumption DEF Range
    <3> QED BY <1>2, <1>11, <3>3 DEF ToleranceAllowed
  <2>6. TokenSum(rows) * (100 + args.percent) <= TokenSum(rows) * 102
    <3> DEFINE b == TokenSum(rows)
               p == args.percent
    <3>1. b \in Nat /\ p \in {0, 1, 2}
      BY <2>4, <2>5
    <3> HIDE DEF b, p
    <3>2. b * (100 + p) <= b * 102
      BY <3>1
    <3> QED BY <3>2 DEF b, p
  <2> DEFINE x == TokenSum(t1)
             y == TokenSum(rows) * (100 + args.percent)
             z == TokenSum(rows)
  <2>7. x \in Nat /\ z \in Nat /\ y \in Int
    BY <2>4, <2>5
  <2> HIDE DEF x, y, z
  <2>8. x * 100 <= y /\ y <= z * 102
    BY <2>3, <2>6 DEF x, y, z
  <2>9. 100 * x <= 102 * z
    BY <2>7, <2>8
  <2> QED BY <1>10, <1>11, <2>1, <2>9 DEF x, z
<1>12. CASE args.mode # "aggregate"
  <2>1. \A k \in DOMAIN t1 :
          /\ Named(t1, t1[k].id) = {k}
          /\ \E i \in DOMAIN rows :
               /\ Named(rows, t1[k].id) = {i}
               /\ Exact(t1[k], rows[i]) \/ Legacy(t1[k], rows[i])
    <3>1. Reconciled(t1, rows, args) = PerRequest(t1, rows)
      BY <1>8, <1>12 DEF Reconciled
    <3> QED BY <1>6, <1>7, <1>8, <1>9, <3>1, AllMatched
  <2>2. ASSUME NEW k \in DOMAIN links
        PROVE  \E n \in DOMAIN t1, i \in DOMAIN rows :
                 /\ t1[n].hash = links[k].hash
                 /\ Named(t1, t1[n].id) = {n}
                 /\ Named(rows, t1[n].id) = {i}
                 /\ Exact(links[k], rows[i]) \/ Legacy(links[k], rows[i])
    <3>1. PICK n \in DOMAIN t1 : SameLink(t1[n], links[k])
      BY <1>6 DEF Paired
    <3>2. PICK i \in DOMAIN rows : /\ Named(rows, t1[n].id) = {i}
                                   /\ Exact(t1[n], rows[i]) \/ Legacy(t1[n], rows[i])
      BY <2>1
    <3>3. Exact(links[k], rows[i]) \/ Legacy(links[k], rows[i])
      BY <3>1, <3>2 DEF SameLink, Exact, Legacy
    <3> QED BY <2>1, <3>1, <3>2, <3>3 DEF SameLink
  <2> QED BY <1>10, <1>12, <1>13, <2>2
<1> QED BY <1>11, <1>12

\* The metered receipts an attestation shows in the window of a packet that verifies and
\* claims verified savings are in the manifest beside it and, under the requests it names, one
\* by one the provider's, or together within two percent of what it billed, in whatever order
\* they are listed, whatever else the manifest says and however the packet came about.
THEOREM ClaimsAreBacked == Spec => []ClaimBacked
<1>1. Init => PacketInvariant /\ SourceInvariant
  BY InitialPacket, InitialSource
<1>2. PacketInvariant /\ SourceInvariant /\ [Next]_vars => (PacketInvariant /\ SourceInvariant)'
  BY PacketStep, SourceStep
<1>3. SourceInvariant => ClaimBacked
  BY InvariantClaimBacked
<1> QED
  BY <1>1, <1>2, <1>3, PTL DEF Spec

-----------------------------------------------------------------------------
(* The attestation a packet rests on: the log and its published anchor *)

Cell == Nat \cup Tier
LogRow == [version : Nat, id : Nat, tier : Tier, tokens : Nat, kry : Nat, supersedes : Nat,
        receipt : Seq(Cell), chain : Seq(Seq(Seq(Cell)))]

LEMMA RowFields ==
  ASSUME NEW r \in LogRow
  PROVE  /\ r.version \in Nat /\ r.id \in Nat /\ r.tier \in Tier /\ r.tokens \in Nat
         /\ r.kry \in Nat /\ r.supersedes \in Nat
         /\ r.receipt \in Seq(Cell) /\ r.chain \in Seq(Seq(Seq(Cell)))
  BY DEF LogRow

LEMMA CoveredTyped ==
  ASSUME NEW r \in LogRow
  PROVE  ReceiptOf(r) \in Seq(Cell) /\ Covered(r) \in Seq(Seq(Cell))
  <1>1. /\ r.version \in Cell /\ r.id \in Cell /\ r.tier \in Cell /\ r.tokens \in Cell
        /\ r.kry \in Cell /\ r.supersedes \in Cell /\ r.receipt \in Seq(Cell)
    BY RowFields DEF Cell
  <1> HIDE DEF Cell
  <1>2. /\ <<r.tokens>> \in Seq(Cell) /\ <<r.tokens, r.tier>> \in Seq(Cell)
        /\ <<r.id>> \in Seq(Cell) /\ << >> \in Seq(Cell)
        /\ <<r.version, r.tokens, r.tier, r.kry, r.supersedes>> \in Seq(Cell)
    BY <1>1
  <1>3. Block(r) \in Seq(Cell)
    <2>1. ASSUME NEW a \in Seq(Cell), NEW b \in Seq(Cell) PROVE a \o b \in Seq(Cell)
      BY ConcatProperties
    <2>2. (IF r.version >= 6 THEN <<r.id>> ELSE << >>) \in Seq(Cell)
      BY <1>2
    <2> QED BY <1>2, <2>1, <2>2 DEF Block
  <1>4. \A a, b \in Seq(Cell) : <<a>> \in Seq(Seq(Cell)) /\ <<a, b>> \in Seq(Seq(Cell))
    OBVIOUS
  <1> QED BY <1>1, <1>2, <1>3, <1>4 DEF ReceiptOf, Covered

LEMMA HeadTyped ==
  ASSUME NEW rows \in Seq(LogRow)
  PROVE  /\ HeadOf(rows) = IF Len(rows) = 0 THEN << >> ELSE rows[Len(rows)].chain
         /\ HeadOf(rows) \in Seq(Seq(Seq(Cell)))
  <1>1. CASE rows = << >>
    BY <1>1 DEF HeadOf, Genesis
  <1>2. CASE rows # << >>
    <2>1. Len(rows) \in 1..Len(rows) /\ rows[Len(rows)] \in LogRow
      BY <1>2
    <2>2. rows[Len(rows)].chain \in Seq(Seq(Seq(Cell)))
      BY <2>1, RowFields
    <2> QED BY <1>2, <2>1, <2>2 DEF HeadOf, Last
  <1> QED BY <1>1, <1>2

LEMMA PrefixRows ==
  ASSUME NEW S, NEW rows \in Seq(S), NEW n \in 0..Len(rows)
  PROVE  /\ SubSeq(rows, 1, n) \in Seq(S) /\ Len(SubSeq(rows, 1, n)) = n
         /\ \A i \in 1..n : SubSeq(rows, 1, n)[i] = rows[i]
  OBVIOUS

LEMMA HeadOfPrefix ==
  ASSUME NEW rows \in Seq(LogRow), NEW n \in 0..Len(rows)
  PROVE  HeadOf(SubSeq(rows, 1, n)) = IF n = 0 THEN << >> ELSE rows[n].chain
  <1> DEFINE less == SubSeq(rows, 1, n)
  <1>1. less \in Seq(LogRow) /\ Len(less) = n /\ (n # 0 => less[n] = rows[n])
    <2>1. n # 0 => n \in 1..n
      OBVIOUS
    <2> QED BY <2>1, PrefixRows
  <1> HIDE DEF less
  <1>2. HeadOf(less) = IF n = 0 THEN << >> ELSE rows[n].chain
    BY <1>1, HeadTyped
  <1> QED BY <1>2 DEF less

-----------------------------------------------------------------------------
(* A linked log says what its hashes cover *)

LEMMA LinkedChain ==
  ASSUME NEW rows \in Seq(LogRow), Linked(rows)
  PROVE  \A n \in 1..Len(rows) : rows[n].chain = [i \in 1..n |-> Covered(rows[i])]
  <1> DEFINE Spelt(n) == [i \in 1..n |-> Covered(rows[i])]
             T == {n \in Nat : n \in 1..Len(rows) => rows[n].chain = Spelt(n)}
  <1>1. 0 \in T
    OBVIOUS
  <1>2. ASSUME NEW n \in Nat, n \in T PROVE n + 1 \in T
    <2> SUFFICES ASSUME n + 1 \in 1..Len(rows) PROVE rows[n + 1].chain = Spelt(n + 1)
      OBVIOUS
    <2>1. rows[n + 1].chain = Append(HeadOf(SubSeq(rows, 1, n)), Covered(rows[n + 1]))
      <3>1. n + 1 \in DOMAIN rows /\ (n + 1) - 1 = n
        OBVIOUS
      <3> QED BY <3>1 DEF Linked
    <2>2. HeadOf(SubSeq(rows, 1, n)) = Spelt(n)
      <3>1. n \in 0..Len(rows)
        OBVIOUS
      <3>2. HeadOf(SubSeq(rows, 1, n)) = IF n = 0 THEN << >> ELSE rows[n].chain
        BY <3>1, HeadOfPrefix
      <3>3. CASE n = 0
        BY <3>2, <3>3
      <3>4. CASE n # 0
        <4>1. n \in 1..Len(rows) /\ rows[n].chain = Spelt(n)
          BY <1>2, <3>1, <3>4
        <4> QED BY <3>2, <3>4, <4>1
      <3> QED BY <3>3, <3>4
    <2>3. Append(Spelt(n), Covered(rows[n + 1])) = Spelt(n + 1)
      <3> DEFINE B == {Covered(rows[i]) : i \in 1..(n + 1)}
      <3>1. Spelt(n) \in Seq(B) /\ Len(Spelt(n)) = n /\ Covered(rows[n + 1]) \in B
        OBVIOUS
      <3>2. /\ Append(Spelt(n), Covered(rows[n + 1])) \in Seq(B)
            /\ Len(Append(Spelt(n), Covered(rows[n + 1]))) = n + 1
            /\ Append(Spelt(n), Covered(rows[n + 1]))[n + 1] = Covered(rows[n + 1])
            /\ \A i \in 1..n :
                 Append(Spelt(n), Covered(rows[n + 1]))[i] = Covered(rows[i])
        BY <3>1
      <3> QED BY <3>2
    <2> QED BY <2>1, <2>2, <2>3
  <1>3. Nat \subseteq T
    <2> HIDE DEF T
    <2> QED BY <1>1, <1>2, SetInduction
  <1> QED BY <1>3

\* Two linked logs with one chain hash at a row cover the same up to it.
LEMMA SameHead ==
  ASSUME NEW a \in Seq(LogRow), NEW b \in Seq(LogRow), Linked(a), Linked(b),
         NEW n \in 1..Len(a), n \in 1..Len(b), a[n].chain = b[n].chain
  PROVE  \A i \in 1..n : Covered(a[i]) = Covered(b[i])
  <1>1. /\ a[n].chain = [i \in 1..n |-> Covered(a[i])]
        /\ b[n].chain = [i \in 1..n |-> Covered(b[i])]
    BY LinkedChain
  <1> SUFFICES ASSUME NEW i \in 1..n PROVE Covered(a[i]) = Covered(b[i])
    OBVIOUS
  <1>2. a[n].chain[i] = Covered(a[i]) /\ b[n].chain[i] = Covered(b[i])
    BY <1>1
  <1> QED BY <1>2

LEMMA CoversReceipt ==
  ASSUME NEW a, NEW b, Covered(a) = Covered(b)
  PROVE  a.receipt = b.receipt
  <1>1. Covered(a)[1] = a.receipt /\ Covered(b)[1] = b.receipt
    BY DEF Covered
  <1> QED BY <1>1

\* Rows as the program writes them.
Sealed(rows) ==
  /\ rows \in Seq(LogRow) /\ Linked(rows)
  /\ \A i \in 1..Len(rows) : rows[i].receipt = ReceiptOf(rows[i])

-----------------------------------------------------------------------------
(* MintReceipt.create *)

\* The row that is written for r over a head.
Written(head, r) ==
  LET stamped == [r EXCEPT !.receipt = ReceiptOf(r)]
  IN  [stamped EXCEPT !.chain = Append(head, Covered(stamped))]

LEMMA WrittenRow ==
  ASSUME NEW r \in LogRow, NEW head \in Seq(Seq(Seq(Cell)))
  PROVE  LET w == Written(head, r)
         IN  /\ w \in LogRow
             /\ w.version = r.version /\ w.id = r.id /\ w.tier = r.tier
             /\ w.tokens = r.tokens /\ w.kry = r.kry /\ w.supersedes = r.supersedes
             /\ w.receipt = ReceiptOf(w)
             /\ w.chain = Append(head, Covered(w))
  <1> DEFINE stamped == [r EXCEPT !.receipt = ReceiptOf(r)]
             w == [stamped EXCEPT !.chain = Append(head, Covered(stamped))]
  <1>1. /\ stamped \in LogRow /\ stamped.version = r.version /\ stamped.id = r.id
        /\ stamped.tier = r.tier /\ stamped.tokens = r.tokens /\ stamped.kry = r.kry
        /\ stamped.supersedes = r.supersedes /\ stamped.receipt = ReceiptOf(r)
    BY CoveredTyped DEF LogRow
  <1> HIDE DEF stamped
  <1>2. Append(head, Covered(stamped)) \in Seq(Seq(Seq(Cell)))
    BY <1>1, CoveredTyped
  <1>3. /\ w \in LogRow /\ w.version = stamped.version /\ w.id = stamped.id
        /\ w.tier = stamped.tier /\ w.tokens = stamped.tokens /\ w.kry = stamped.kry
        /\ w.supersedes = stamped.supersedes /\ w.receipt = stamped.receipt
        /\ w.chain = Append(head, Covered(stamped))
    BY <1>1, <1>2 DEF LogRow
  <1> HIDE DEF w
  <1>4. ReceiptOf(w) = ReceiptOf(r)
    BY <1>1, <1>3 DEF ReceiptOf
  <1>5. Covered(w) = Covered(stamped)
    BY <1>3 DEF Covered, Block
  <1> QED BY <1>1, <1>3, <1>4, <1>5 DEF Written, stamped, w

LEMMA ExtendedRows ==
  ASSUME NEW rows \in Seq(LogRow), NEW r \in LogRow
  PROVE  LET more == Extended(rows, r)
             w == Written(HeadOf(rows), r)
         IN  /\ more \in Seq(LogRow) /\ Len(more) = Len(rows) + 1
             /\ more[Len(rows) + 1] = w /\ w \in LogRow
             /\ \A i \in 1..Len(rows) : more[i] = rows[i]
  <1> DEFINE w == Written(HeadOf(rows), r)
  <1>1. Extended(rows, r) = Append(rows, w)
    BY DEF Extended, Written
  <1>2. w \in LogRow
    BY HeadTyped, WrittenRow
  <1> HIDE DEF w
  <1> QED BY <1>1, <1>2 DEF w

LEMMA ExtendedSealed ==
  ASSUME NEW rows, Sealed(rows), NEW r \in LogRow
  PROVE  Sealed(Extended(rows, r))
  <1> DEFINE more == Extended(rows, r)
             w == Written(HeadOf(rows), r)
             n == Len(rows)
  <1>1. /\ rows \in Seq(LogRow) /\ n \in Nat /\ more \in Seq(LogRow) /\ Len(more) = n + 1
        /\ more[n + 1] = w /\ \A i \in 1..n : more[i] = rows[i]
    BY ExtendedRows DEF Sealed
  <1>2. w.receipt = ReceiptOf(w) /\ w.chain = Append(HeadOf(rows), Covered(w))
    BY <1>1, HeadTyped, WrittenRow
  <1> HIDE DEF more, w
  <1>3. ASSUME NEW i \in 1..(n + 1)
        PROVE  more[i].chain
                 = Append(HeadOf(SubSeq(more, 1, i - 1)), Covered(more[i]))
    <2>1. i - 1 \in 0..n /\ i - 1 \in 0..Len(more)
      BY <1>1
    <2>2. HeadOf(SubSeq(more, 1, i - 1)) = IF i - 1 = 0 THEN << >> ELSE more[i - 1].chain
      BY <1>1, <2>1, HeadOfPrefix
    <2>3. HeadOf(SubSeq(rows, 1, i - 1)) = IF i - 1 = 0 THEN << >> ELSE rows[i - 1].chain
      BY <1>1, <2>1, HeadOfPrefix
    <2>4. HeadOf(SubSeq(more, 1, i - 1)) = HeadOf(SubSeq(rows, 1, i - 1))
      <3>1. i - 1 # 0 => i - 1 \in 1..n
        BY <2>1
      <3> QED BY <1>1, <2>2, <2>3, <3>1
    <2>5. CASE i = n + 1
      <3>1. HeadOf(SubSeq(rows, 1, n)) = HeadOf(rows)
        BY <1>1, <2>1, <2>3, <2>5, HeadTyped
      <3> QED BY <1>1, <1>2, <2>4, <2>5, <3>1
    <2>6. CASE i # n + 1
      <3>1. i \in 1..n /\ i \in DOMAIN rows
        BY <1>1, <2>6
      <3>2. rows[i].chain
              = Append(HeadOf(SubSeq(rows, 1, i - 1)), Covered(rows[i]))
        BY <3>1 DEF Sealed, Linked
      <3> QED BY <1>1, <2>4, <3>1, <3>2
    <2> QED BY <2>5, <2>6
  <1>4. \A i \in 1..(n + 1) : more[i].receipt = ReceiptOf(more[i])
    <2> SUFFICES ASSUME NEW i \in 1..(n + 1) PROVE more[i].receipt = ReceiptOf(more[i])
      OBVIOUS
    <2>1. i = n + 1 \/ i \in 1..n
      BY <1>1
    <2> QED BY <1>1, <1>2, <2>1 DEF Sealed
  <1>5. DOMAIN more = 1..(n + 1)
    BY <1>1
  <1>6. Linked(more)
    BY <1>3, <1>5 DEF Linked
  <1>7. Sealed(more)
    BY <1>1, <1>4, <1>6 DEF Sealed
  <1> QED BY <1>7 DEF more

\* A log and the rows as they were written: what was rewritten keeps its hashes.
Alike(rows, written) ==
  /\ rows \in Seq(LogRow) /\ Sealed(written) /\ Len(rows) = Len(written)
  /\ \A i \in 1..Len(rows) : rows[i].chain = written[i].chain

LEMMA AlikeHeads ==
  ASSUME NEW a, NEW b, Alike(a, b)
  PROVE  HeadOf(a) = HeadOf(b)
  <1>1. a \in Seq(LogRow) /\ b \in Seq(LogRow) /\ Len(a) = Len(b) /\ Len(a) \in Nat
    BY DEF Alike, Sealed
  <1>2. Len(a) # 0 => a[Len(a)].chain = b[Len(b)].chain
    BY <1>1 DEF Alike
  <1> QED BY <1>1, <1>2, HeadTyped

LEMMA AlikeExtended ==
  ASSUME NEW a, NEW b, Alike(a, b), NEW r \in LogRow
  PROVE  Alike(Extended(a, r), Extended(b, r))
  <1> DEFINE c == Extended(a, r)
             d == Extended(b, r)
             w == Written(HeadOf(a), r)
  <1>1. a \in Seq(LogRow) /\ b \in Seq(LogRow) /\ Len(a) = Len(b) /\ Len(a) \in Nat
    BY DEF Alike, Sealed
  <1>2. /\ c \in Seq(LogRow) /\ Len(c) = Len(a) + 1 /\ c[Len(a) + 1] = w
        /\ \A i \in 1..Len(a) : c[i] = a[i]
    BY <1>1, ExtendedRows
  <1>3. /\ Len(d) = Len(a) + 1 /\ d[Len(a) + 1] = w
        /\ \A i \in 1..Len(a) : d[i] = b[i]
    BY <1>1, ExtendedRows, AlikeHeads
  <1>4. Sealed(d)
    BY ExtendedSealed DEF Alike
  <1> HIDE DEF c, d, w
  <1>5. ASSUME NEW i \in 1..Len(c) PROVE c[i].chain = d[i].chain
    <2>1. i = Len(a) + 1 \/ i \in 1..Len(a)
      BY <1>1, <1>2
    <2> QED BY <1>2, <1>3, <2>1 DEF Alike
  <1>6. Alike(c, d)
    BY <1>1, <1>2, <1>3, <1>4, <1>5 DEF Alike
  <1> QED BY <1>6 DEF c, d

LEMMA SealedPrefix ==
  ASSUME NEW rows, Sealed(rows), NEW n \in 0..Len(rows)
  PROVE  Sealed(SubSeq(rows, 1, n))
  <1> DEFINE less == SubSeq(rows, 1, n)
  <1>1. rows \in Seq(LogRow) /\ Len(rows) \in Nat /\ DOMAIN rows = 1..Len(rows)
    BY DEF Sealed
  <1>2. less \in Seq(LogRow) /\ Len(less) = n /\ \A i \in 1..n : less[i] = rows[i]
    BY <1>1, PrefixRows
  <1> HIDE DEF less
  <1>3. ASSUME NEW i \in 1..n
        PROVE  less[i].chain
                 = Append(HeadOf(SubSeq(less, 1, i - 1)), Covered(less[i]))
    <2>1. i - 1 \in 0..n /\ i - 1 \in 0..Len(rows) /\ i \in DOMAIN rows
      BY <1>1
    <2>2. i - 1 # 0 => i - 1 \in 1..n
      BY <2>1
    <2>3. HeadOf(SubSeq(less, 1, i - 1)) = HeadOf(SubSeq(rows, 1, i - 1))
      <3>1. HeadOf(SubSeq(less, 1, i - 1)) = IF i - 1 = 0 THEN << >> ELSE less[i - 1].chain
        BY <1>2, <2>1, HeadOfPrefix
      <3>2. HeadOf(SubSeq(rows, 1, i - 1)) = IF i - 1 = 0 THEN << >> ELSE rows[i - 1].chain
        BY <1>1, <2>1, HeadOfPrefix
      <3> QED BY <1>2, <2>2, <3>1, <3>2
    <2>4. rows[i].chain = Append(HeadOf(SubSeq(rows, 1, i - 1)), Covered(rows[i]))
      BY <2>1 DEF Sealed, Linked
    <2> QED BY <1>2, <2>3, <2>4
  <1>4. DOMAIN less = 1..n
    BY <1>2
  <1>5. Linked(less)
    BY <1>3, <1>4 DEF Linked
  <1>6. Sealed(less)
    BY <1>1, <1>2, <1>5 DEF Sealed
  <1> QED BY <1>6 DEF less

LEMMA AlikePrefix ==
  ASSUME NEW a, NEW b, Alike(a, b), NEW n \in 0..Len(a)
  PROVE  Alike(SubSeq(a, 1, n), SubSeq(b, 1, n))
  <1>1. a \in Seq(LogRow) /\ b \in Seq(LogRow) /\ Len(a) = Len(b) /\ Len(a) \in Nat
    BY DEF Alike, Sealed
  <1>2. /\ SubSeq(a, 1, n) \in Seq(LogRow) /\ Len(SubSeq(a, 1, n)) = n
        /\ \A i \in 1..n : SubSeq(a, 1, n)[i] = a[i]
    BY <1>1, PrefixRows
  <1>3. Len(SubSeq(b, 1, n)) = n /\ \A i \in 1..n : SubSeq(b, 1, n)[i] = b[i]
    BY <1>1, PrefixRows
  <1>4. Sealed(SubSeq(b, 1, n))
    BY <1>1, SealedPrefix DEF Alike
  <1>5. \A i \in 1..n : a[i].chain = b[i].chain
    BY <1>1 DEF Alike
  <1> QED BY <1>2, <1>3, <1>4, <1>5 DEF Alike

-----------------------------------------------------------------------------
(* What is minted again *)

\* g is the fold of MintAgain, at every set of positions.
MintsOver(g, base, rows) ==
  g = [s \in SUBSET DOMAIN rows |->
         IF s = {} THEN base
         ELSE Extended(g[s \ {Max(s)}], rows[Max(s)])]

LEMMA MintsIsChosen ==
  ASSUME NEW base, NEW rows
  PROVE  FoldLeft(Extended, base, rows)
           = (CHOOSE g : MintsOver(g, base, rows))[DOMAIN rows]
BY DEF FoldLeft, MapThenFoldSet, MintsOver

LEMMA MintsExist ==
  ASSUME NEW base \in Seq(LogRow), NEW rows \in Seq(LogRow)
  PROVE  \E g : MintsOver(g, base, rows)
<1> DEFINE A == Seq(LogRow)
           n == Len(rows)
           step == [p \in A \X (1..n) |-> Extended(p[1], rows[p[2]])]
<1>1. n \in Nat /\ DOMAIN rows = 1..n /\ base \in A
  OBVIOUS
<1>2. step \in [A \X (1..n) -> A]
  <2>1. ASSUME NEW p \in A \X (1..n) PROVE Extended(p[1], rows[p[2]]) \in A
    <3>1. p[1] \in Seq(LogRow) /\ rows[p[2]] \in LogRow
      BY <1>1
    <3> QED BY <3>1, ExtendedRows
  <2> QED BY <2>1
<1> HIDE DEF A, n, step
<1>3. PICK g \in [SUBSET (1..n) -> A] : FoldsTo(g, base, step, n)
  BY <1>1, <1>2, FoldExists
<1>4. ASSUME NEW s \in SUBSET (1..n), s # {}
      PROVE  g[s] = Extended(g[s \ {Max(s)}], rows[Max(s)])
  <2>1. Max(s) \in 1..n
    BY <1>1, <1>4, MaxChosen
  <2>2. g[s \ {Max(s)}] \in A
    OBVIOUS
  <2>3. g[s] = step[<<g[s \ {Max(s)}], Max(s)>>]
    BY <1>3, <1>4 DEF FoldsTo
  <2> QED BY <2>1, <2>2, <2>3 DEF step
<1>5. g[{}] = base
  BY <1>3 DEF FoldsTo
<1>6. g = [s \in SUBSET (1..n) |->
             IF s = {} THEN base
             ELSE Extended(g[s \ {Max(s)}], rows[Max(s)])]
  BY <1>3, <1>4, <1>5
<1> QED BY <1>1, <1>6 DEF MintsOver

\* The prefixes of a sequence's positions, one by one.
LEMMA PrefixSets ==
  ASSUME NEW n \in Nat, NEW k \in 1..n
  PROVE  /\ 1..k \in SUBSET (1..n) /\ 1..k # {} /\ (1..k) \ {k} = 1..(k - 1)
         /\ Max(1..k) = k
  <1>1. k \in Nat /\ 1 <= k /\ k <= n /\ k \in 1..k
    OBVIOUS
  <1>2. Max(1..k) = k
    BY <1>1, MaxOfPrefix
  <1>3. \A i : i \in (1..k) \ {k} <=> i \in 1..(k - 1)
    BY <1>1
  <1>4. (1..k) \ {k} = 1..(k - 1)
    BY <1>3
  <1> QED BY <1>1, <1>2, <1>4

LEMMA MintSteps ==
  ASSUME NEW base \in Seq(LogRow), NEW rows \in Seq(LogRow)
  PROVE  \E g : /\ FoldLeft(Extended, base, rows) = g[1..Len(rows)]
                /\ g[1..0] = base
                /\ \A k \in 1..Len(rows) : g[1..k] = Extended(g[1..(k - 1)], rows[k])
  <1> DEFINE g == CHOOSE h : MintsOver(h, base, rows)
  <1>1. MintsOver(g, base, rows)
    BY MintsExist
  <1>2. DOMAIN rows = 1..Len(rows) /\ Len(rows) \in Nat
    OBVIOUS
  <1>3. FoldLeft(Extended, base, rows) = g[1..Len(rows)]
    BY <1>2, MintsIsChosen
  <1> HIDE DEF g
  <1>4. g[1..0] = base
    <2>1. 1..0 = {} /\ 1..0 \in SUBSET DOMAIN rows
      OBVIOUS
    <2> QED BY <1>1, <2>1 DEF MintsOver
  <1>5. ASSUME NEW k \in 1..Len(rows)
        PROVE  g[1..k] = Extended(g[1..(k - 1)], rows[k])
    <2>1. /\ 1..k \in SUBSET DOMAIN rows /\ 1..k # {} /\ (1..k) \ {k} = 1..(k - 1)
          /\ Max(1..k) = k
      BY <1>2, PrefixSets
    <2> QED BY <1>1, <2>1 DEF MintsOver
  <1> QED BY <1>3, <1>4, <1>5

\* Minted again over what was rewritten and over what was written, rows are alike.
LEMMA MintedAlike ==
  ASSUME NEW a, NEW b, Alike(a, b), NEW rows \in Seq(LogRow)
  PROVE  Alike(FoldLeft(Extended, a, rows),
               FoldLeft(Extended, b, rows))
  <1>1. a \in Seq(LogRow) /\ b \in Seq(LogRow)
    BY DEF Alike, Sealed
  <1>2. PICK g : /\ FoldLeft(Extended, a, rows) = g[1..Len(rows)]
                 /\ g[1..0] = a
                 /\ \A k \in 1..Len(rows) : g[1..k] = Extended(g[1..(k - 1)], rows[k])
    BY <1>1, MintSteps
  <1>3. PICK h : /\ FoldLeft(Extended, b, rows) = h[1..Len(rows)]
                 /\ h[1..0] = b
                 /\ \A k \in 1..Len(rows) : h[1..k] = Extended(h[1..(k - 1)], rows[k])
    BY <1>1, MintSteps
  <1> DEFINE T == {k \in Nat : k <= Len(rows) => Alike(g[1..k], h[1..k])}
  <1>4. 0 \in T
    BY <1>2, <1>3
  <1>5. ASSUME NEW k \in Nat, k \in T PROVE k + 1 \in T
    <2> SUFFICES ASSUME k + 1 <= Len(rows) PROVE Alike(g[1..(k + 1)], h[1..(k + 1)])
      OBVIOUS
    <2>1. k + 1 \in 1..Len(rows) /\ (k + 1) - 1 = k /\ rows[k + 1] \in LogRow
      OBVIOUS
    <2>2. Alike(g[1..k], h[1..k])
      BY <1>5, <2>1
    <2>3. /\ g[1..(k + 1)] = Extended(g[1..k], rows[k + 1])
          /\ h[1..(k + 1)] = Extended(h[1..k], rows[k + 1])
      BY <1>2, <1>3, <2>1
    <2> QED BY <2>1, <2>2, <2>3, AlikeExtended
  <1>6. Nat \subseteq T
    <2> HIDE DEF T
    <2> QED BY <1>4, <1>5, SetInduction
  <1>7. Alike(g[1..Len(rows)], h[1..Len(rows)])
    BY <1>6
  <1> QED BY <1>2, <1>3, <1>7

-----------------------------------------------------------------------------
(* The steps of the log *)

\* The rows nobody touched, as the program left them.
Untouched ==
  /\ log = minted
  /\ \A i \in 1..Len(log) :
       /\ log[i].id = i /\ log[i].version <= Current
       /\ i > 1 => log[i].version = Current
       /\ log[i].version < 2 => log[i].tier = SelfReported
       /\ Priced(log[i])
  /\ tip.count <= Len(log) /\ (tip.count = Len(log) => tip.chain = HeadOf(log))
  /\ Len(pinned) <= Len(log) /\ \A i \in 1..Len(pinned) : pinned[i] = log[i]

\* What the anchor says is said of the rows it was exported over.
Exported ==
  /\ Sealed(pinned)
  /\ anchor.count = Len(pinned) /\ anchor.chain = HeadOf(pinned)

LogInvariant ==
  /\ Alike(log, minted) /\ Exported
  /\ changes \in Nat /\ (changes = 0 => Untouched)

LEMMA SealedEmpty == Sealed(<< >>)
BY DEF Sealed, Linked

LEMMA SealedAlike ==
  ASSUME NEW rows, Sealed(rows)
  PROVE  Alike(rows, rows)
BY DEF Sealed, Alike

\* A row before it is written.
LEMMA DraftRow ==
  ASSUME NEW v \in Nat, NEW id \in Nat, NEW t \in Tier, NEW tokens \in Nat, NEW kry \in Nat,
         NEW supersedes \in Nat
  PROVE  [version |-> v, id |-> id, tier |-> t, tokens |-> tokens, kry |-> kry,
          supersedes |-> supersedes, receipt |-> << >>, chain |-> << >>] \in LogRow
BY DEF LogRow

LEMMA InitialLog == AttestationInit => LogInvariant
<1> SUFFICES ASSUME AttestationInit PROVE LogInvariant
  OBVIOUS
<1>1. /\ tip.count = 0 /\ tip.chain = << >> /\ anchor.count = 0 /\ anchor.chain = << >>
      /\ pinned = << >> /\ changes = 0 /\ minted = log
  BY DEF AttestationInit, Genesis
<1>2. Exported
  BY <1>1, SealedEmpty DEF Exported, HeadOf, Genesis
<1>3. CASE log = << >>
  <2>1. Alike(log, minted)
    BY <1>1, <1>3, SealedEmpty, SealedAlike
  <2>2. Untouched
    BY <1>1, <1>3 DEF Untouched, HeadOf, Genesis
  <2> QED BY <1>1, <1>2, <2>1, <2>2 DEF LogInvariant
<1>4. ASSUME NEW v \in OldVersion, NEW t \in Tier, NEW m \in Multiplier,
             v < 2 => t = SelfReported,
             log = Extended(<< >>, [version |-> v, id |-> 1, tier |-> t, tokens |-> 1,
                     kry |-> m, supersedes |-> NoReceipt, receipt |-> << >>,
                     chain |-> Genesis])
      PROVE  LogInvariant
  <2> DEFINE r == [version |-> v, id |-> 1, tier |-> t, tokens |-> 1, kry |-> m,
                   supersedes |-> 0, receipt |-> << >>, chain |-> << >>]
  <2>1. v \in Nat /\ v <= 6 /\ m \in Nat
    BY TierAssumption, VersionAssumption
  <2>2. r \in LogRow
    BY <2>1, DraftRow
  <2>3. r.version = v /\ r.id = 1 /\ r.tier = t /\ r.tokens = 1 /\ r.kry = m
    OBVIOUS
  <2>4. log = Extended(<< >>, r)
    BY <1>4 DEF NoReceipt, Genesis
  <2> HIDE DEF r
  <2>5. Sealed(log)
    BY <2>2, <2>4, SealedEmpty, ExtendedSealed
  <2>6. Len(log) = 1 /\ log[1] = Written(HeadOf(<< >>), r)
    <3> DEFINE none == << >>
    <3>1. none \in Seq(LogRow) /\ Len(none) = 0 /\ Len(none) + 1 = 1
      OBVIOUS
    <3>2. log = Extended(none, r)
      BY <2>4
    <3> HIDE DEF none
    <3>3. Len(log) = 1 /\ log[1] = Written(HeadOf(none), r)
      BY <2>2, <3>1, <3>2, ExtendedRows
    <3> QED BY <3>3 DEF none
  <2>7. /\ log[1].version = v /\ log[1].id = 1 /\ log[1].tier = t
        /\ log[1].tokens = 1 /\ log[1].kry = m
    <3>1. HeadOf(<< >>) \in Seq(Seq(Seq(Cell)))
      BY DEF HeadOf, Genesis
    <3> QED BY <2>2, <2>3, <2>6, <3>1, WrittenRow
  <2>8. Priced(log[1])
    <3>1. m = 1 * m
      BY <2>1
    <3> QED BY <2>7, <3>1 DEF Priced
  <2>9. Untouched
    <3>1. \A i \in 1..Len(log) : i = 1
      BY <2>6
    <3> QED BY <1>1, <1>4, <2>1, <2>6, <2>7, <2>8, <3>1 DEF Untouched, Current
  <2> QED BY <1>1, <1>2, <2>5, <2>9, SealedAlike DEF LogInvariant
<1> QED BY <1>3, <1>4 DEF AttestationInit

\* A row the program writes over a log.
LEMMA WriteKeeps ==
  ASSUME LogInvariant, NEW r \in LogRow, Write(r),
         r.id = NextId, r.version = Current, Priced(r)
  PROVE  LogInvariant'
<1>1. /\ log' = Extended(log, r) /\ minted' = Extended(minted, r)
      /\ tip'.count = r.id /\ tip'.chain = HeadOf(log')
      /\ anchor' = anchor /\ pinned' = pinned /\ changes' = changes
  BY DEF Write
<1>2. Alike(log, minted) /\ Exported /\ changes \in Nat
  BY DEF LogInvariant
<1>3. Alike(log', minted')
  BY <1>1, <1>2, AlikeExtended
<1>4. Exported'
  BY <1>1, <1>2 DEF Exported, Sealed, Linked, HeadOf, Last, Genesis
<1>5. ASSUME changes' = 0 PROVE Untouched'
  <2> DEFINE n == Len(log)
             w == Written(HeadOf(log), r)
  <2>1. Untouched /\ log \in Seq(LogRow) /\ n \in Nat
    BY <1>1, <1>2, <1>5 DEF LogInvariant, Alike
  <2>2. /\ log' \in Seq(LogRow) /\ Len(log') = n + 1 /\ log'[n + 1] = w
        /\ \A i \in 1..n : log'[i] = log[i]
    BY <1>1, <2>1, ExtendedRows
  <2>3. /\ w.version = r.version /\ w.id = r.id /\ w.tier = r.tier
        /\ w.tokens = r.tokens /\ w.kry = r.kry
    BY <2>1, HeadTyped, WrittenRow
  <2> HIDE DEF w
  <2>4. r.id = n + 1
    <3>1. CASE log = << >>
      BY <3>1 DEF NextId
    <3>2. CASE log # << >>
      <4>1. n \in 1..n
        BY <2>1, <3>2
      <4>2. log[n].id = n
        BY <2>1, <4>1 DEF Untouched
      <4> QED BY <3>2, <4>2 DEF NextId, Last
    <3> QED BY <3>1, <3>2
  <2>5. Priced(w)
    BY <2>3 DEF Priced
  <2>6. ASSUME NEW i \in 1..(n + 1)
        PROVE  /\ log'[i].id = i /\ log'[i].version <= Current
               /\ i > 1 => log'[i].version = Current
               /\ log'[i].version < 2 => log'[i].tier = SelfReported
               /\ Priced(log'[i])
    <3>1. CASE i = n + 1
      <4>1. w.version = Current /\ w.id = i
        BY <2>3, <2>4, <3>1
      <4>2. Current <= Current /\ ~(Current < 2)
        BY DEF Current
      <4>3. log'[i] = w
        BY <2>2, <3>1
      <4> QED BY <2>5, <4>1, <4>2, <4>3
    <3>2. CASE i # n + 1
      <4>1. i \in 1..n
        BY <2>1, <3>2
      <4>2. log'[i] = log[i]
        BY <2>2, <4>1
      <4> QED BY <2>1, <4>1, <4>2 DEF Untouched
    <3> QED BY <3>1, <3>2
  <2>7. log' = minted'
    BY <1>1, <2>1 DEF Untouched
  <2>8. tip'.count <= Len(log') /\ tip'.chain = HeadOf(log')
    BY <1>1, <2>1, <2>2, <2>4
  <2>9. Len(pinned) \in Nat
    BY <1>2 DEF Exported, Sealed
  <2>10. Len(pinned') <= Len(log') /\ \A i \in 1..Len(pinned') : pinned'[i] = log'[i]
    <3>1. Len(pinned) <= n /\ \A i \in 1..Len(pinned) : pinned[i] = log[i]
      BY <2>1 DEF Untouched
    <3> QED BY <1>1, <2>1, <2>2, <2>9, <3>1
  <2>11. Len(log') = n + 1
    BY <2>2
  <2> HIDE DEF n
  <2>12. \A i \in 1..Len(log') :
           /\ log'[i].id = i /\ log'[i].version <= Current
           /\ i > 1 => log'[i].version = Current
           /\ log'[i].version < 2 => log'[i].tier = SelfReported
           /\ Priced(log'[i])
    BY <2>6, <2>11
  <2> QED BY <2>7, <2>8, <2>10, <2>12 DEF Untouched, Priced
<1> QED BY <1>1, <1>2, <1>3, <1>4, <1>5 DEF LogInvariant

\* The rows that are there already have an id.
LEMMA NextIdTyped ==
  ASSUME log \in Seq(LogRow)
  PROVE  NextId \in Nat
<1>1. CASE log = << >>
  BY <1>1 DEF NextId
<1>2. CASE log # << >>
  <2>1. Len(log) \in 1..Len(log) /\ log[Len(log)] \in LogRow
    BY <1>2
  <2>2. log[Len(log)].id \in Nat
    BY <2>1, RowFields
  <2> QED BY <1>2, <2>2 DEF NextId, Last
<1> QED BY <1>1, <1>2

LEMMA MintKeeps ==
  ASSUME LogInvariant, Mint
  PROVE  LogInvariant'
<1>1. PICK t \in Tier, m \in Multiplier :
        Write(Row(Current, t, 1, m, NoReceipt))
  BY DEF Mint
<1> DEFINE r == [version |-> 7, id |-> NextId, tier |-> t, tokens |-> 1, kry |-> m,
                 supersedes |-> 0, receipt |-> << >>, chain |-> << >>]
<1>2. r = Row(Current, t, 1, m, NoReceipt)
  BY DEF Row, Current, NoReceipt, Genesis
<1>3. NextId \in Nat /\ m \in Nat
  BY NextIdTyped, TierAssumption, VersionAssumption DEF LogInvariant, Alike
<1>4. r \in LogRow
  BY <1>3, DraftRow
<1>5. Priced(r)
  <2>1. r.tokens = 1 /\ r.kry = m /\ m = 1 * m
    BY <1>3
  <2> HIDE DEF r
  <2> QED BY <2>1 DEF Priced
<1>6. r.id = NextId /\ r.version = Current
  BY DEF Current
<1>7. Write(r)
  <2> HIDE DEF r
  <2> QED BY <1>1, <1>2
<1> HIDE DEF r
<1> QED BY <1>4, <1>5, <1>6, <1>7, WriteKeeps

\* A promotion is a row of no value, whichever receipt it names.
LEMMA PromotionKeeps ==
  ASSUME LogInvariant, NEW i \in DOMAIN log, NEW t \in Attested,
         Write(Row(Current, t, 0, 0, log[i].id))
  PROVE  LogInvariant'
<1> DEFINE r == [version |-> 7, id |-> NextId, tier |-> t, tokens |-> 0, kry |-> 0,
                 supersedes |-> log[i].id, receipt |-> << >>, chain |-> << >>]
<1>1. log \in Seq(LogRow)
  BY DEF LogInvariant, Alike
<1>2. NextId \in Nat /\ log[i].id \in Nat /\ t \in Tier
  <2>1. log[i] \in LogRow
    BY <1>1
  <2> QED BY <1>1, <2>1, RowFields, NextIdTyped, TierAssumption, VersionAssumption
<1>3. r = Row(Current, t, 0, 0, log[i].id)
  BY DEF Row, Current, Genesis
<1>4. r \in LogRow
  BY <1>2, DraftRow
<1>5. Priced(r)
  BY DEF Priced
<1>6. r.id = NextId /\ r.version = Current
  BY DEF Current
<1>7. Write(r)
  <2> HIDE DEF r
  <2> QED BY <1>3
<1> HIDE DEF r
<1> QED BY <1>4, <1>5, <1>6, <1>7, WriteKeeps

LEMMA ExportKeeps ==
  ASSUME LogInvariant, ExportAnchor
  PROVE  LogInvariant'
<1>1. /\ anchor'.count = Len(log) /\ anchor'.chain = HeadOf(log)
      /\ pinned' = minted /\ log' = log /\ tip' = tip /\ minted' = minted
      /\ changes' = changes
  BY DEF ExportAnchor
<1>2. Alike(log, minted) /\ changes \in Nat
  BY DEF LogInvariant
<1>3. Alike(log', minted')
  BY <1>1, <1>2
<1>4. Sealed(pinned') /\ anchor'.count = Len(pinned') /\ anchor'.chain = HeadOf(pinned')
  BY <1>1, <1>2, AlikeHeads DEF Alike
<1>5. Exported'
  BY <1>4 DEF Exported, Sealed, Linked, HeadOf, Last, Genesis
<1>6. ASSUME changes = 0 PROVE Untouched'
  <2>1. Untouched /\ Len(log) \in Nat
    BY <1>2, <1>6 DEF LogInvariant, Alike
  <2>2. pinned' = log
    BY <1>1, <2>1 DEF Untouched
  <2> QED BY <1>1, <2>1, <2>2 DEF Untouched, Priced, HeadOf, Last,
                                  Genesis
<1> QED BY <1>1, <1>2, <1>3, <1>5, <1>6 DEF LogInvariant

-----------------------------------------------------------------------------
(* Somebody else's steps *)

\* A rewritten field leaves the hashes of the row.
LEMMA AlteredRow ==
  ASSUME NEW r \in LogRow, NEW a \in Altered(r)
  PROVE  a \in LogRow /\ a.chain = r.chain
<1>1. \/ \E id \in 1..MaxReceipts : a = [r EXCEPT !.id = id]
      \/ \E t \in Tier : a = [r EXCEPT !.tier = t]
      \/ \E k \in {0} \cup Multiplier : a = [r EXCEPT !.kry = k]
      \/ \E id \in 0..MaxReceipts : a = [r EXCEPT !.supersedes = id]
      \/ \E v \in OldVersion \cup {Current, Current + 1} :
           a = [r EXCEPT !.version = v]
  BY DEF Altered
<1>2. CASE \E id \in 1..MaxReceipts : a = [r EXCEPT !.id = id]
  <2>1. PICK id \in Nat : a = [r EXCEPT !.id = id]
    BY <1>2, TierAssumption, VersionAssumption
  <2> QED BY <2>1 DEF LogRow
<1>3. CASE \E t \in Tier : a = [r EXCEPT !.tier = t]
  BY <1>3 DEF LogRow
<1>4. CASE \E k \in {0} \cup Multiplier : a = [r EXCEPT !.kry = k]
  <2>1. PICK k \in Nat : a = [r EXCEPT !.kry = k]
    BY <1>4, TierAssumption, VersionAssumption
  <2> QED BY <2>1 DEF LogRow
<1>5. CASE \E id \in 0..MaxReceipts : a = [r EXCEPT !.supersedes = id]
  <2>1. PICK id \in Nat : a = [r EXCEPT !.supersedes = id]
    BY <1>5, TierAssumption, VersionAssumption
  <2> QED BY <2>1 DEF LogRow
<1>6. CASE \E v \in OldVersion \cup {Current, Current + 1} :
             a = [r EXCEPT !.version = v]
  <2>1. PICK v \in Nat : a = [r EXCEPT !.version = v]
    BY <1>6, TierAssumption, VersionAssumption DEF Current
  <2> QED BY <2>1 DEF LogRow
<1> QED BY <1>1, <1>2, <1>3, <1>4, <1>5, <1>6

\* Once somebody changed the files, only the hashes and the anchor are left to go by.
LEMMA ChangeKeeps ==
  ASSUME LogInvariant, Change, UNCHANGED <<anchor, pinned>>, Alike(log', minted')
  PROVE  LogInvariant'
<1>1. changes' \in Nat /\ changes' # 0
  BY DEF LogInvariant, Change
<1>2. Exported'
  BY DEF LogInvariant, Exported, Sealed, Linked, HeadOf, Last, Genesis
<1> QED BY <1>1, <1>2 DEF LogInvariant

LEMMA RewriteKeeps ==
  ASSUME LogInvariant, Rewrite
  PROVE  LogInvariant'
<1>1. Alike(log, minted) /\ log \in Seq(LogRow)
  BY DEF LogInvariant, Alike
<1>2. PICK i \in DOMAIN log : \E r \in Altered(log[i]) : log' = [log EXCEPT ![i] = r]
  BY DEF Rewrite
<1>3. PICK r \in Altered(log[i]) : log' = [log EXCEPT ![i] = r]
  BY <1>2
<1>4. r \in LogRow /\ r.chain = log[i].chain
  <2>1. log[i] \in LogRow
    BY <1>1
  <2> QED BY <2>1, AlteredRow
<1>5. log' \in Seq(LogRow) /\ Len(log') = Len(log) /\ minted' = minted
  BY <1>1, <1>3, <1>4 DEF Rewrite
<1>6. ASSUME NEW j \in 1..Len(log') PROVE log'[j].chain = minted'[j].chain
  <2>1. log'[j].chain = log[j].chain
    BY <1>1, <1>3, <1>4, <1>5
  <2> QED BY <1>1, <1>5, <2>1 DEF Alike
<1>7. Alike(log', minted')
  <2>1. Sealed(minted') /\ Len(log') = Len(minted')
    BY <1>1, <1>5 DEF Alike
  <2> QED BY <1>5, <1>6, <2>1 DEF Alike
<1> QED BY <1>7, ChangeKeeps DEF Rewrite

LEMMA MintAgainKeeps ==
  ASSUME LogInvariant, MintAgain
  PROVE  LogInvariant'
<1>1. Alike(log, minted) /\ log \in Seq(LogRow)
  BY DEF LogInvariant, Alike
<1>0. PICK i \in DOMAIN log :
        \E r \in Altered(log[i]) :
          LET again == <<r>> \o SubSeq(log, i + 1, Len(log))
          IN  /\ log' = FoldLeft(Extended, SubSeq(log, 1, i - 1), again)
              /\ minted' = FoldLeft(Extended, SubSeq(minted, 1, i - 1), again)
  BY DEF MintAgain
<1>2. PICK r \in Altered(log[i]) :
        LET again == <<r>> \o SubSeq(log, i + 1, Len(log))
        IN  /\ log' = FoldLeft(Extended, SubSeq(log, 1, i - 1), again)
            /\ minted' = FoldLeft(Extended, SubSeq(minted, 1, i - 1), again)
  BY <1>0
<1> DEFINE again == <<r>> \o SubSeq(log, i + 1, Len(log))
<1>3. r \in LogRow
  <2>1. log[i] \in LogRow
    BY <1>1
  <2> QED BY <2>1, AlteredRow
<1>4. again \in Seq(LogRow)
  <2>1. <<r>> \in Seq(LogRow)
    BY <1>3
  <2>2. SubSeq(log, i + 1, Len(log)) \in Seq(LogRow)
    BY <1>1
  <2> QED BY <2>1, <2>2, ConcatProperties
<1>5. i - 1 \in 0..Len(log)
  BY <1>1
<1>6. Alike(SubSeq(log, 1, i - 1), SubSeq(minted, 1, i - 1))
  BY <1>1, <1>5, AlikePrefix
<1>7. Alike(log', minted')
  <2> HIDE DEF again
  <2>1. /\ log' = FoldLeft(Extended, SubSeq(log, 1, i - 1), again)
        /\ minted' = FoldLeft(Extended, SubSeq(minted, 1, i - 1), again)
    BY <1>2 DEF again
  <2> QED BY <1>4, <1>6, <2>1, MintedAlike
<1> HIDE DEF again
<1> QED BY <1>7, ChangeKeeps DEF MintAgain

LEMMA RollBackKeeps ==
  ASSUME LogInvariant, RollBack
  PROVE  LogInvariant'
<1>1. Alike(log, minted) /\ Len(log) \in Nat
  BY DEF LogInvariant, Alike
<1>2. PICK n \in 0..(Len(log) - 1) :
        log' = SubSeq(log, 1, n) /\ minted' = SubSeq(minted, 1, n)
  BY DEF RollBack
<1>3. n \in 0..Len(log)
  BY <1>1
<1>4. Alike(log', minted')
  BY <1>1, <1>2, <1>3, AlikePrefix
<1> QED BY <1>4, ChangeKeeps DEF RollBack

LEMMA LogStep ==
  ASSUME LogInvariant, [AttestationNext]_attestationVars
  PROVE  LogInvariant'
<1>1. CASE Mint
  BY <1>1, MintKeeps
<1>2. CASE Promote
  BY <1>2, PromotionKeeps DEF Promote
<1>3. CASE PromoteToBoth
  BY <1>3, PromotionKeeps DEF PromoteToBoth
<1>4. CASE ExportAnchor
  BY <1>4, ExportKeeps
<1>5. CASE Rewrite
  BY <1>5, RewriteKeeps
<1>6. CASE MintAgain
  BY <1>6, MintAgainKeeps
<1>7. CASE RollBack
  BY <1>7, RollBackKeeps
<1>8. CASE UNCHANGED attestationVars
  BY <1>8 DEF attestationVars, LogInvariant, Alike, Sealed, Exported, Untouched, Linked,
              HeadOf, Last, Genesis, Priced
<1> QED
  BY <1>1, <1>2, <1>3, <1>4, <1>5, <1>6, <1>7, <1>8 DEF AttestationNext

-----------------------------------------------------------------------------
(* The standalone verifier's pass *)

\* The pass over the first links, one link after the other.
Scans(g, links) ==
  g = [s \in SUBSET DOMAIN Positions(links) |->
        IF s = {} THEN ScanStart(links)
        ELSE ScanLink(links, g[s \ {Max(s)}], Positions(links)[Max(s)])]

LEMMA ScanIsChosen ==
  ASSUME NEW links
  PROVE  Scanned(links) = (CHOOSE g : Scans(g, links))[DOMAIN Positions(links)]
BY DEF Scanned, FoldLeft, MapThenFoldSet, Scans, Positions

\* What the pass carries.
Scan(links) ==
  [prev : Seq(Seq(Seq(Cell))), version : Nat, total : Nat, tiers : [Tier -> Nat],
   targets : [Ids(links) -> Nat], promotions : SUBSET Nat, ok : BOOLEAN]

LEMMA ScanTyped ==
  ASSUME NEW links \in Seq(LogRow)
  PROVE  /\ ScanStart(links) \in Scan(links)
         /\ \A scan \in Scan(links), i \in 1..Len(links) :
              ScanLink(links, scan, i) \in Scan(links)
<1>1. ScanStart(links) \in Scan(links)
  <2>1. << >> \in Seq(Seq(Seq(Cell)))
    OBVIOUS
  <2>2. [t \in Tier |-> 0] \in [Tier -> Nat]
    OBVIOUS
  <2>3. [id \in Ids(links) |-> 0] \in [Ids(links) -> Nat]
    OBVIOUS
  <2> QED BY <2>1, <2>2, <2>3 DEF ScanStart, Scan, Genesis
<1>2. ASSUME NEW scan \in Scan(links), NEW i \in 1..Len(links)
      PROVE  ScanLink(links, scan, i) \in Scan(links)
  <2> DEFINE link == links[i]
             tier == IF link.version < 4 THEN SelfReported ELSE link.tier
             seen == link.version >= 6 /\ scan.targets[link.id] # 0
             fine == /\ link.version >= scan.version
                     /\ link.chain = Append(scan.prev, Covered(link))
                     /\ link.tier = tier /\ ~seen /\ Priced(link)
             tiers == [scan.tiers EXCEPT ![tier] = @ + link.kry]
             targets == IF link.version < 6 THEN scan.targets
                        ELSE [scan.targets EXCEPT ![link.id] = i]
             promotions == Noted(scan, link, tier, i)
  <2>0. /\ scan.prev \in Seq(Seq(Seq(Cell))) /\ scan.version \in Nat /\ scan.total \in Nat
        /\ scan.tiers \in [Tier -> Nat] /\ scan.targets \in [Ids(links) -> Nat]
        /\ scan.promotions \in SUBSET Nat /\ scan.ok \in BOOLEAN
    BY DEF Scan
  <2>1. link \in LogRow /\ i \in Nat /\ i \in DOMAIN links
    OBVIOUS
  <2>2. /\ link.version \in Nat /\ link.id \in Nat /\ link.tier \in Tier /\ link.kry \in Nat
        /\ link.chain \in Seq(Seq(Seq(Cell)))
    <3> HIDE DEF link
    <3> QED BY <2>1, RowFields
  <2>3. tier \in Tier
    BY <2>2, TierAssumption, VersionAssumption
  <2>4. tiers \in [Tier -> Nat]
    <3> HIDE DEF link, tier
    <3>1. scan.tiers[tier] + link.kry \in Nat
      BY <2>0, <2>2, <2>3
    <3> QED BY <2>0, <2>3, <3>1
  <2>5. targets \in [Ids(links) -> Nat]
    <3> HIDE DEF link
    <3> QED BY <2>0, <2>1
  <2>6. promotions \in SUBSET Nat
    <3> HIDE DEF link, tier
    <3> QED BY <2>0, <2>1 DEF Noted
  <2>7. Max({scan.version, link.version}) \in Nat
    <3> HIDE DEF link
    <3>1. \E x \in {scan.version, link.version} : \A y \in {scan.version, link.version} : x >= y
      BY <2>0, <2>2
    <3>2. Max({scan.version, link.version}) \in {scan.version, link.version}
      BY <3>1 DEF Max
    <3> QED BY <2>0, <2>2, <3>2
  <2>8. scan.total + link.kry \in Nat /\ (scan.ok /\ fine) \in BOOLEAN
    <3>1. scan.total + link.kry \in Nat
      <4> HIDE DEF link
      <4> QED BY <2>0, <2>2
    <3>2. (scan.ok /\ fine) \in BOOLEAN
      OBVIOUS
    <3> QED BY <3>1, <3>2
  <2> DEFINE stopped == [scan EXCEPT !.prev = link.chain, !.ok = FALSE]
             went == [prev |-> link.chain, version |-> Max({scan.version, link.version}),
                      total |-> scan.total + link.kry, tiers |-> tiers, targets |-> targets,
                      promotions |-> promotions, ok |-> scan.ok /\ fine]
  <2>9. ScanLink(links, scan, i) = IF link.version > Current THEN stopped ELSE went
    BY DEF ScanLink
  <2>10. stopped \in Scan(links)
    <3> HIDE DEF link
    <3>1. stopped = [[scan EXCEPT !.prev = link.chain] EXCEPT !.ok = FALSE]
      BY DEF Scan
    <3> QED BY <2>2, <3>1 DEF Scan
  <2>11. went \in Scan(links)
    <3> HIDE DEF link, fine, tiers, targets, promotions
    <3> QED BY <2>2, <2>4, <2>5, <2>6, <2>7, <2>8 DEF Scan
  <2> HIDE DEF stopped, went, link
  <2> QED BY <2>9, <2>10, <2>11
<1> QED BY <1>1, <1>2

LEMMA ScanExists ==
  ASSUME NEW links \in Seq(LogRow)
  PROVE  \E g : Scans(g, links)
<1> DEFINE A == Scan(links)
           n == Len(links)
           start == ScanStart(links)
           step == [p \in A \X (1..n) |-> ScanLink(links, p[1], p[2])]
<1>1. n \in Nat /\ DOMAIN Positions(links) = 1..n /\ \A i \in 1..n : Positions(links)[i] = i
  BY DEF Positions
<1>2. start \in A /\ \A scan \in A, i \in 1..n : ScanLink(links, scan, i) \in A
  BY ScanTyped
<1>3. step \in [A \X (1..n) -> A]
  <2> HIDE DEF A, n
  <2> QED BY <1>2
<1> HIDE DEF A, n, step, start
<1>4. PICK g \in [SUBSET (1..n) -> A] : FoldsTo(g, start, step, n)
  BY <1>1, <1>2, <1>3, FoldExists
<1>5. ASSUME NEW s \in SUBSET (1..n), s # {}
      PROVE  g[s] = ScanLink(links, g[s \ {Max(s)}], Positions(links)[Max(s)])
  <2>1. Max(s) \in 1..n
    BY <1>1, <1>5, MaxChosen
  <2>2. g[s \ {Max(s)}] \in A
    OBVIOUS
  <2>3. g[s] = step[<<g[s \ {Max(s)}], Max(s)>>]
    BY <1>4, <1>5 DEF FoldsTo
  <2> QED BY <1>1, <2>1, <2>2, <2>3 DEF step
<1>6. g[{}] = start
  BY <1>4 DEF FoldsTo
<1>7. g = [s \in SUBSET (1..n) |->
             IF s = {} THEN start
             ELSE ScanLink(links, g[s \ {Max(s)}], Positions(links)[Max(s)])]
  BY <1>4, <1>5, <1>6
<1> QED BY <1>1, <1>7 DEF Scans, start

\* The pass, one link after the other.
LEMMA ScanSteps ==
  ASSUME NEW links \in Seq(LogRow)
  PROVE  \E h \in [0..Len(links) -> Scan(links)] :
           /\ h[0] = ScanStart(links) /\ h[Len(links)] = Scanned(links)
           /\ \A k \in 1..Len(links) : h[k] = ScanLink(links, h[k - 1], k)
<1> DEFINE g == CHOOSE f : Scans(f, links)
           n == Len(links)
           h == [k \in 0..n |-> g[1..k]]
           S == Scan(links)
<1>1. Scans(g, links)
  BY ScanExists
<1>2. n \in Nat /\ DOMAIN Positions(links) = 1..n /\ \A i \in 1..n : Positions(links)[i] = i
  BY DEF Positions
<1>3. g[1..n] = Scanned(links)
  BY <1>2, ScanIsChosen
<1> HIDE DEF g
<1>4. g[1..0] = ScanStart(links)
  <2>1. 1..0 = {} /\ 1..0 \in SUBSET (1..n)
    OBVIOUS
  <2> QED BY <1>1, <1>2, <2>1 DEF Scans
<1>5. ASSUME NEW k \in 1..n
      PROVE  g[1..k] = ScanLink(links, g[1..(k - 1)], k)
  <2>1. /\ 1..k \in SUBSET (1..n) /\ 1..k # {} /\ (1..k) \ {k} = 1..(k - 1)
        /\ Max(1..k) = k
    BY <1>2, PrefixSets
  <2>2. ASSUME NEW s \in SUBSET DOMAIN Positions(links), s # {}
        PROVE  g[s] = ScanLink(links, g[s \ {Max(s)}], Positions(links)[Max(s)])
    BY <1>1, <2>2 DEF Scans
  <2> DEFINE s == 1..k
  <2>3. s \in SUBSET DOMAIN Positions(links) /\ s # {}
    BY <1>2, <2>1
  <2> HIDE DEF s
  <2>4. g[s] = ScanLink(links, g[s \ {Max(s)}], Positions(links)[Max(s)])
    BY <2>2, <2>3
  <2> QED BY <1>2, <2>1, <2>4 DEF s
<1> DEFINE T == {k \in Nat : k <= n => g[1..k] \in S}
<1>6. 0 \in T
  BY <1>4, ScanTyped
<1>7. ASSUME NEW k \in Nat, k \in T PROVE k + 1 \in T
  <2> SUFFICES ASSUME k + 1 <= n PROVE g[1..(k + 1)] \in S
    OBVIOUS
  <2>1. k + 1 \in 1..n /\ (k + 1) - 1 = k /\ g[1..k] \in S
    BY <1>2, <1>7
  <2>2. g[1..(k + 1)] = ScanLink(links, g[1..k], k + 1)
    BY <1>5, <2>1
  <2> QED BY <2>1, <2>2, ScanTyped
<1>8. Nat \subseteq T
  <2> HIDE DEF T
  <2> QED BY <1>6, <1>7, SetInduction
<1>9. h \in [0..n -> S]
  <2> HIDE DEF S
  <2> QED BY <1>2, <1>8
<1>10. h[0] = ScanStart(links) /\ h[n] = Scanned(links)
  BY <1>2, <1>3, <1>4
<1>11. ASSUME NEW k \in 1..n PROVE h[k] = ScanLink(links, h[k - 1], k)
  <2>1. k \in 0..n /\ k - 1 \in 0..n
    BY <1>2
  <2> QED BY <1>5, <2>1
<1> HIDE DEF h
<1> QED BY <1>9, <1>10, <1>11

\* What the pass makes of one link.
LEMMA LinkScanned ==
  ASSUME NEW links \in Seq(LogRow), NEW scan \in Scan(links), NEW i \in 1..Len(links)
  PROVE  LET link == links[i]
             next == ScanLink(links, scan, i)
         IN  /\ next.prev = link.chain
             /\ next.ok <=> /\ scan.ok /\ link.version <= Current
                            /\ link.version >= scan.version
                            /\ link.chain = Append(scan.prev, Covered(link))
                            /\ link.tier = PublicTier(link) /\ Priced(link)
                            /\ ~(HashBound(link) /\ scan.targets[link.id] # 0)
             /\ next.ok =>
                  /\ next.version = Max({scan.version, link.version})
                  /\ next.total = scan.total + link.kry
                  /\ next.tiers = [scan.tiers EXCEPT ![link.tier] = @ + link.kry]
                  /\ next.targets = IF HashBound(link) THEN [scan.targets EXCEPT ![link.id] = i]
                                    ELSE scan.targets
                  /\ next.promotions = IF Promotes(link) THEN scan.promotions \cup {i}
                                       ELSE scan.promotions
<1> DEFINE link == links[i]
           next == ScanLink(links, scan, i)
           tier == IF link.version < 4 THEN SelfReported ELSE link.tier
           seen == link.version >= 6 /\ scan.targets[link.id] # 0
           fine == /\ link.version >= scan.version
                   /\ link.chain = Append(scan.prev, Covered(link))
                   /\ link.tier = tier /\ ~seen /\ Priced(link)
           tiers == [scan.tiers EXCEPT ![tier] = @ + link.kry]
           targets == IF link.version < 6 THEN scan.targets
                      ELSE [scan.targets EXCEPT ![link.id] = i]
           stopped == [scan EXCEPT !.prev = link.chain, !.ok = FALSE]
           went == [prev |-> link.chain, version |-> Max({scan.version, link.version}),
                    total |-> scan.total + link.kry, tiers |-> tiers, targets |-> targets,
                    promotions |-> Noted(scan, link, tier, i), ok |-> scan.ok /\ fine]
<1>1. link \in LogRow /\ link.version \in Nat
  <2>1. link \in LogRow
    OBVIOUS
  <2> HIDE DEF link
  <2> QED BY <2>1, RowFields
<1>2. next = IF link.version > Current THEN stopped ELSE went
  BY DEF ScanLink
<1>3. tier = PublicTier(link) /\ (seen <=> HashBound(link) /\ scan.targets[link.id] # 0)
  BY DEF PublicTier, HashBound
<1>4. targets = IF HashBound(link) THEN [scan.targets EXCEPT ![link.id] = i] ELSE scan.targets
  <2> HIDE DEF link
  <2> QED BY <1>1 DEF HashBound
<1>5. tier = link.tier =>
        Noted(scan, link, tier, i) = IF Promotes(link) THEN scan.promotions \cup {i}
                                                       ELSE scan.promotions
  BY DEF Noted, Promotes
<1>6. stopped.prev = link.chain /\ stopped.ok = FALSE
  <2> HIDE DEF link
  <2> QED BY DEF Scan
<1>7. fine <=> /\ link.version >= scan.version
               /\ link.chain = Append(scan.prev, Covered(link))
               /\ link.tier = PublicTier(link) /\ Priced(link)
               /\ ~(HashBound(link) /\ scan.targets[link.id] # 0)
  <2> HIDE DEF link, tier, seen
  <2> QED BY <1>3
<1>8. fine => tier = link.tier
  <2> HIDE DEF link
  <2> QED OBVIOUS
<1> HIDE DEF link, next, fine, tier, seen, targets, stopped
<1>9. /\ went.prev = link.chain /\ went.version = Max({scan.version, link.version})
      /\ went.total = scan.total + link.kry /\ went.tiers = tiers /\ went.targets = targets
      /\ went.promotions = Noted(scan, link, tier, i) /\ (went.ok <=> scan.ok /\ fine)
  BY DEF Scan
<1> HIDE DEF went
<1>10. link.version > Current <=> ~(link.version <= Current)
  BY <1>1 DEF Current
<1>11. CASE link.version > Current
  BY <1>2, <1>6, <1>10, <1>11 DEF link, next
<1>12. CASE ~(link.version > Current)
  <2>1. next = went /\ link.version <= Current
    BY <1>2, <1>10, <1>12
  <2>2. next.ok <=> scan.ok /\ fine
    BY <1>9, <2>1
  <2>3. next.ok => next.promotions = IF Promotes(link) THEN scan.promotions \cup {i}
                                     ELSE scan.promotions
    BY <1>5, <1>8, <1>9, <2>1, <2>2
  <2>4. next.ok => next.tiers = [scan.tiers EXCEPT ![link.tier] = @ + link.kry]
    BY <1>8, <1>9, <2>1, <2>2
  <2>5. next.targets = IF HashBound(link) THEN [scan.targets EXCEPT ![link.id] = i]
                       ELSE scan.targets
    BY <1>4, <1>9, <2>1
  <2>6. next.prev = link.chain /\ next.version = Max({scan.version, link.version})
        /\ next.total = scan.total + link.kry
    BY <1>9, <2>1
  <2> QED BY <1>7, <2>1, <2>2, <2>3, <2>4, <2>5, <2>6 DEF link, next
<1> QED BY <1>11, <1>12

\* The first k links, as every verifier judges links.
LinkHolds(links, i) ==
  /\ links[i].version <= Current
  /\ links[i].tier = PublicTier(links[i])
  /\ Priced(links[i])
  /\ links[i].chain = Append(HeadOf(SubSeq(links, 1, i - 1)), Covered(links[i]))

InOrder(links, i, k) ==
  /\ links[i].version <= links[k].version
  /\ ~(HashBound(links[i]) /\ HashBound(links[k]) /\ links[i].id = links[k].id)

FirstHold(links, k) ==
  /\ \A i \in 1..k : LinkHolds(links, i)
  /\ \A j \in 1..k : \A i \in 1..(j - 1) : InOrder(links, i, j)

LEMMA FirstHoldSteps ==
  ASSUME NEW links, NEW k \in Nat
  PROVE  FirstHold(links, k + 1)
           <=> /\ FirstHold(links, k) /\ LinkHolds(links, k + 1)
               /\ \A i \in 1..k : InOrder(links, i, k + 1)
<1>1. /\ 1..(k + 1) = 1..k \cup {k + 1}
      /\ (k + 1) - 1 = k
  OBVIOUS
<1> QED BY <1>1, Zenon DEF FirstHold

\* All of them.
LEMMA AllHold ==
  ASSUME NEW links \in Seq(LogRow)
  PROVE  LinksHold(links) <=> FirstHold(links, Len(links))
<1> DEFINE n == Len(links)
<1>1. n \in Nat /\ DOMAIN links = 1..n
  OBVIOUS
<1>2. \A i \in 1..n : links[i].version \in Nat
  <2> SUFFICES ASSUME NEW i \in 1..n PROVE links[i].version \in Nat
    OBVIOUS
  <2>1. links[i] \in LogRow
    OBVIOUS
  <2> QED BY <2>1, RowFields
<1>3. ASSUME LinksHold(links) PROVE FirstHold(links, n)
  <2>1. \A i \in 1..n : LinkHolds(links, i)
    BY <1>1, <1>3, Zenon DEF LinksHold, Linked, LinkHolds
  <2>2. ASSUME NEW j \in 1..n, NEW i \in 1..(j - 1) PROVE InOrder(links, i, j)
    <3>1. i \in 1..n /\ j \in 1..n /\ i < j /\ i # j
      BY <1>1
    <3> QED BY <1>1, <1>3, <3>1 DEF LinksHold, NeverDowngraded, IdsUnique, InOrder
  <2> QED BY <2>1, <2>2 DEF FirstHold
<1>4. ASSUME FirstHold(links, n) PROVE LinksHold(links)
  <2>1. \A i \in 1..n : LinkHolds(links, i)
    BY <1>4 DEF FirstHold
  <2>2. Linked(links)
    BY <1>1, <2>1 DEF Linked, LinkHolds
  <2>3. ASSUME NEW i \in 1..n, NEW j \in 1..n, i < j PROVE InOrder(links, i, j)
    <3>1. i \in 1..(j - 1)
      BY <2>3
    <3> QED BY <1>4, <3>1 DEF FirstHold
  <2>4. NeverDowngraded(links)
    BY <1>1, <2>3 DEF NeverDowngraded, InOrder
  <2>5. IdsUnique(links)
    <3> SUFFICES ASSUME NEW i \in 1..n, NEW j \in 1..n, HashBound(links[i]), HashBound(links[j]),
                        links[i].id = links[j].id, i # j
                 PROVE  FALSE
      BY <1>1 DEF IdsUnique
    <3>1. i < j \/ j < i
      BY <1>1
    <3> QED BY <2>3, <3>1 DEF InOrder
  <2>6. \A i \in 1..n : /\ links[i].version <= Current
                        /\ links[i].tier = PublicTier(links[i]) /\ Priced(links[i])
    BY <2>1 DEF LinkHolds
  <2> QED BY <1>1, <2>2, <2>4, <2>5, <2>6 DEF LinksHold
<1> QED BY <1>3, <1>4

\* What the pass knows of the first k links, if it took them all.
FirstBearers(links, k, id) == {i \in 1..k : HashBound(links[i]) /\ links[i].id = id}

Known(links, k, scan) ==
  /\ \A i \in 1..k : links[i].version <= scan.version
  /\ scan.version = 0 \/ \E i \in 1..k : links[i].version = scan.version
  /\ scan.total = Worth(links, 1..k)
  /\ scan.tiers = [t \in Tier |-> Worth(links, {i \in 1..k : PublicTier(links[i]) = t})]
  /\ scan.targets = [id \in Ids(links) |-> Max(FirstBearers(links, k, id) \cup {0})]
  /\ scan.promotions = {i \in 1..k : Promotes(links[i])}

\* The last of some positions, or 0.
LEMMA LastOfPositions ==
  ASSUME NEW k \in Nat, NEW s \in SUBSET (1..k)
  PROVE  /\ Max(s \cup {0}) \in 0..k
         /\ Max(s \cup {0}) = 0 <=> s = {}
         /\ s # {} => Max(s \cup {0}) = Max(s) /\ Max(s) \in s
         /\ Max(s \cup {k + 1} \cup {0}) = k + 1
<1>0. Max(s \cup {k + 1} \cup {0}) = k + 1
  <2> DEFINE S == s \cup {k + 1} \cup {0}
  <2>1. k + 1 \in S /\ \A y \in S : k + 1 >= y
    OBVIOUS
  <2>2. \A x \in S : (\A y \in S : x >= y) => x = k + 1
    OBVIOUS
  <2> QED BY <2>1, <2>2 DEF Max
<1>1. CASE s = {}
  <2>1. Max({0}) = 0
    BY DEF Max
  <2>2. s \cup {0} = {0}
    BY <1>1
  <2> QED BY <1>0, <1>1, <2>1, <2>2
<1>3. CASE s # {}
  <2>1. Max(s) \in s /\ \A y \in s : Max(s) >= y
    BY <1>3, MaxChosen
  <2> DEFINE S == s \cup {0}
             m == Max(s)
  <2>2. m \in S /\ m \in 1..k /\ \A y \in S : m >= y
    <3>1. m \in s /\ \A y \in s : m >= y
      BY <2>1
    <3> HIDE DEF m
    <3>2. m \in 1..k /\ m >= 0
      BY <3>1
    <3> QED BY <3>1, <3>2
  <2> HIDE DEF m
  <2>3. \A x \in S : (\A y \in S : x >= y) => x = m
    BY <2>2
  <2>4. Max(S) = m
    BY <2>2, <2>3 DEF Max
  <2> QED BY <1>0, <1>3, <2>1, <2>2, <2>4 DEF m
<1> QED BY <1>1, <1>3

\* A row more adds its value to a sum.
LEMMA WorthInserts ==
  ASSUME NEW rows \in Seq(LogRow), NEW k \in Nat, k + 1 <= Len(rows), NEW s \in SUBSET (1..k)
  PROVE  /\ Worth(rows, s) \in Nat
         /\ Worth(rows, s \cup {k + 1}) = Worth(rows, s) + rows[k + 1].kry
<1> DEFINE f == [i \in DOMAIN rows |-> rows[i].kry]
<1>1. IsFiniteSet(s) /\ k + 1 \notin s
  <2>1. IsFiniteSet(1..k)
    BY FS_Interval
  <2>2. IsFiniteSet(s)
    BY <2>1, FS_Subset
  <2> QED BY <2>2
<1>2. \A x \in s \cup {k + 1} : x \in DOMAIN rows /\ f[x] \in Nat /\ f[x] = rows[x].kry
  <2> SUFFICES ASSUME NEW x \in s \cup {k + 1}
               PROVE  x \in DOMAIN rows /\ f[x] \in Nat /\ f[x] = rows[x].kry
    OBVIOUS
  <2>1. x \in DOMAIN rows /\ rows[x] \in LogRow
    OBVIOUS
  <2>2. rows[x].kry \in Nat
    BY <2>1, RowFields
  <2> QED BY <2>1, <2>2
<1> HIDE DEF f
<1>3. SumFunctionOnSet(f, s) \in Nat
  BY <1>1, <1>2, SumNat
<1>4. SumFunctionOnSet(f, s \cup {k + 1}) = f[k + 1] + SumFunctionOnSet(f, s)
  <2>1. \A x \in s \cup {k + 1} : f[x] \in Int
    BY <1>2
  <2> QED BY <1>1, <2>1, SumInsert
<1>5. f[k + 1] = rows[k + 1].kry /\ f[k + 1] \in Nat
  BY <1>2
<1> QED BY <1>3, <1>4, <1>5 DEF Worth, f

\* What the pass knows decides whether the next link is in order with those before it.
LEMMA KnownDecides ==
  ASSUME NEW links \in Seq(LogRow), NEW k \in Nat, k + 1 <= Len(links),
         NEW scan \in Scan(links), Known(links, k, scan)
  PROVE  (\A i \in 1..k : InOrder(links, i, k + 1))
           <=> /\ links[k + 1].version >= scan.version
               /\ ~(HashBound(links[k + 1]) /\ scan.targets[links[k + 1].id] # 0)
<1> DEFINE link == links[k + 1]
           B == FirstBearers(links, k, link.id)
<1>1. /\ k + 1 \in DOMAIN links /\ link \in LogRow
      /\ \A i \in 1..k : i \in DOMAIN links /\ links[i] \in LogRow
  OBVIOUS
<1> HIDE DEF link
<1>2. link.version \in Nat /\ scan.version \in Nat /\ \A i \in 1..k : links[i].version \in Nat
  BY <1>1, RowFields DEF Scan
<1>3. (\A i \in 1..k : links[i].version <= link.version) <=> link.version >= scan.version
  <2>1. ASSUME link.version >= scan.version, NEW i \in 1..k PROVE links[i].version <= link.version
    <3>1. links[i].version <= scan.version
      BY DEF Known
    <3> QED BY <1>2, <2>1, <3>1
  <2>2. ASSUME \A i \in 1..k : links[i].version <= link.version PROVE link.version >= scan.version
    <3>1. CASE scan.version = 0
      BY <1>2, <3>1
    <3>2. CASE \E i \in 1..k : links[i].version = scan.version
      BY <1>2, <2>2, <3>2
    <3> QED BY <3>1, <3>2 DEF Known
  <2> QED BY <2>1, <2>2
<1>4. scan.targets[link.id] # 0 <=> B # {}
  <2>1. link.id \in Ids(links)
    BY <1>1 DEF Ids, link
  <2>2. scan.targets[link.id] = Max(B \cup {0})
    BY <2>1 DEF Known
  <2>3. B \in SUBSET (1..k)
    BY DEF FirstBearers
  <2> HIDE DEF B
  <2> QED BY <2>2, <2>3, LastOfPositions
<1>5. B # {} <=> \E i \in 1..k : HashBound(links[i]) /\ links[i].id = link.id
  BY DEF FirstBearers
<1> HIDE DEF B
<1>6. (\A i \in 1..k : InOrder(links, i, k + 1))
        <=> /\ \A i \in 1..k : links[i].version <= link.version
            /\ ~(HashBound(link) /\ \E i \in 1..k : HashBound(links[i]) /\ links[i].id = link.id)
  BY Zenon DEF InOrder, link
<1> QED BY <1>3, <1>4, <1>5, <1>6 DEF link

\* What it knows after one link more.
LEMMA KnownGrows ==
  ASSUME NEW links \in Seq(LogRow), NEW k \in Nat, k + 1 <= Len(links),
         NEW scan \in Scan(links), Known(links, k, scan), ScanLink(links, scan, k + 1).ok
  PROVE  Known(links, k + 1, ScanLink(links, scan, k + 1))
<1> DEFINE link == links[k + 1]
           next == ScanLink(links, scan, k + 1)
<1>1. /\ k + 1 \in 1..Len(links) /\ k + 1 \in DOMAIN links /\ link \in LogRow
      /\ \A i \in 1..k : i \in DOMAIN links /\ links[i] \in LogRow
      /\ 1..(k + 1) = 1..k \cup {k + 1}
  OBVIOUS
<1>2. /\ link.version >= scan.version /\ link.tier = PublicTier(link)
      /\ next.version = Max({scan.version, link.version})
      /\ next.total = scan.total + link.kry
      /\ next.tiers = [scan.tiers EXCEPT ![link.tier] = @ + link.kry]
      /\ next.targets = IF HashBound(link) THEN [scan.targets EXCEPT ![link.id] = k + 1]
                        ELSE scan.targets
      /\ next.promotions = IF Promotes(link) THEN scan.promotions \cup {k + 1}
                           ELSE scan.promotions
  <2> DEFINE i == k + 1
  <2>1. i \in 1..Len(links) /\ ScanLink(links, scan, i).ok
    BY <1>1
  <2> HIDE DEF i
  <2> DEFINE taken == ScanLink(links, scan, i)
  <2>2. /\ taken.ok <=> /\ scan.ok /\ links[i].version <= Current
                        /\ links[i].version >= scan.version
                        /\ links[i].chain = Append(scan.prev, Covered(links[i]))
                        /\ links[i].tier = PublicTier(links[i]) /\ Priced(links[i])
                        /\ ~(HashBound(links[i]) /\ scan.targets[links[i].id] # 0)
        /\ taken.ok =>
             /\ taken.version = Max({scan.version, links[i].version})
             /\ taken.total = scan.total + links[i].kry
             /\ taken.tiers = [scan.tiers EXCEPT ![links[i].tier] = @ + links[i].kry]
             /\ taken.targets = IF HashBound(links[i])
                                THEN [scan.targets EXCEPT ![links[i].id] = i]
                                ELSE scan.targets
             /\ taken.promotions = IF Promotes(links[i]) THEN scan.promotions \cup {i}
                                   ELSE scan.promotions
    BY <2>1, LinkScanned
  <2>3. next = taken /\ link = links[i]
    BY DEF i
  <2> HIDE DEF taken, next, link
  <2>4. taken.ok
    BY <2>1 DEF taken
  <2>5. i = k + 1
    BY DEF i
  <2> QED BY <2>2, <2>3, <2>4, <2>5
<1> HIDE DEF link, next
<1>3. /\ link.version \in Nat /\ scan.version \in Nat /\ link.kry \in Nat /\ link.tier \in Tier
      /\ \A i \in 1..k : links[i].version \in Nat
      /\ scan.tiers \in [Tier -> Nat] /\ scan.targets \in [Ids(links) -> Nat]
  BY <1>1, RowFields DEF Scan
<1>4. next.version = link.version
  <2>1. \A y \in {scan.version, link.version} : link.version >= y
    BY <1>2, <1>3
  <2>2. \A x \in {scan.version, link.version} :
          (\A y \in {scan.version, link.version} : x >= y) => x = link.version
    BY <1>2, <1>3
  <2> QED BY <1>2, <2>1, <2>2 DEF Max
<1>5. \A i \in 1..(k + 1) : links[i].version <= next.version
  <2> SUFFICES ASSUME NEW i \in 1..(k + 1) PROVE links[i].version <= next.version
    OBVIOUS
  <2>1. CASE i = k + 1
    BY <1>3, <1>4, <2>1 DEF link
  <2>2. CASE i \in 1..k
    <3>1. links[i].version <= scan.version
      BY <2>2 DEF Known
    <3> QED BY <1>2, <1>3, <1>4, <2>2, <3>1
  <2> QED BY <1>1, <2>1, <2>2
<1>6. \E i \in 1..(k + 1) : links[i].version = next.version
  BY <1>1, <1>4 DEF link
<1>7. next.total = Worth(links, 1..(k + 1))
  <2> DEFINE s == 1..k
  <2>1. s \in SUBSET (1..k)
    OBVIOUS
  <2>2. scan.total = Worth(links, s)
    BY DEF Known
  <2> HIDE DEF s
  <2>3. Worth(links, s \cup {k + 1}) = Worth(links, s) + links[k + 1].kry
    BY <2>1, WorthInserts
  <2> QED BY <1>1, <1>2, <2>2, <2>3 DEF link, s
<1>8. next.tiers = [t \in Tier |-> Worth(links, {i \in 1..(k + 1) : PublicTier(links[i]) = t})]
  <2> DEFINE Of(t, n) == {i \in 1..n : PublicTier(links[i]) = t}
  <2>1. scan.tiers = [t \in Tier |-> Worth(links, Of(t, k))]
    BY DEF Known
  <2>2. ASSUME NEW t \in Tier
        PROVE  [scan.tiers EXCEPT ![link.tier] = @ + link.kry][t] = Worth(links, Of(t, k + 1))
    <3>1. Of(t, k + 1) = IF link.tier = t THEN Of(t, k) \cup {k + 1} ELSE Of(t, k)
      BY <1>1, <1>2 DEF link
    <3>2. Of(t, k) \in SUBSET (1..k)
      OBVIOUS
    <3>3. scan.tiers[t] = Worth(links, Of(t, k))
      BY <2>1
    <3> HIDE DEF Of
    <3>4. Worth(links, Of(t, k) \cup {k + 1}) = Worth(links, Of(t, k)) + links[k + 1].kry
      BY <3>2, WorthInserts
    <3>5. [scan.tiers EXCEPT ![link.tier] = @ + link.kry][t]
            = IF link.tier = t THEN scan.tiers[t] + link.kry ELSE scan.tiers[t]
      BY <1>3
    <3> QED BY <3>1, <3>3, <3>4, <3>5 DEF link
  <2> HIDE DEF Of
  <2>3. [scan.tiers EXCEPT ![link.tier] = @ + link.kry]
          = [t \in Tier |-> Worth(links, Of(t, k + 1))]
    <3> DEFINE f == [scan.tiers EXCEPT ![link.tier] = @ + link.kry]
    <3>1. f = [t \in Tier |-> f[t]]
      BY <1>3
    <3>2. \A t \in Tier : f[t] = Worth(links, Of(t, k + 1))
      BY <2>2
    <3> HIDE DEF f
    <3>3. [t \in Tier |-> f[t]] = [t \in Tier |-> Worth(links, Of(t, k + 1))]
      BY <3>2
    <3> QED BY <3>1, <3>3 DEF f
  <2> QED BY <1>2, <2>3 DEF Of
<1>9. next.targets
        = [id \in Ids(links) |-> Max(FirstBearers(links, k + 1, id) \cup {0})]
  <2>1. scan.targets = [id \in Ids(links) |-> Max(FirstBearers(links, k, id) \cup {0})]
    BY DEF Known
  <2>2. link.id \in Ids(links)
    BY <1>1 DEF Ids, link
  <2>3. next.targets \in [Ids(links) -> Nat]
    <3>1. ASSUME NEW f \in [Ids(links) -> Nat], NEW id, NEW v \in Nat
          PROVE  [f EXCEPT ![id] = v] \in [Ids(links) -> Nat]
      OBVIOUS
    <3>2. [scan.targets EXCEPT ![link.id] = k + 1] \in [Ids(links) -> Nat]
      <4>1. k + 1 \in Nat /\ scan.targets \in [Ids(links) -> Nat]
        BY <1>3
      <4> QED BY <3>1, <4>1, Zenon
    <3> QED BY <1>2, <1>3, <3>2
  <2>4. ASSUME NEW id \in Ids(links)
        PROVE  next.targets[id] = Max(FirstBearers(links, k + 1, id) \cup {0})
    <3> DEFINE B == FirstBearers(links, k, id)
               C == FirstBearers(links, k + 1, id)
    <3>1. C = IF HashBound(link) /\ link.id = id THEN B \cup {k + 1} ELSE B
      BY <1>1 DEF FirstBearers, link
    <3>2. B \in SUBSET (1..k)
      BY DEF FirstBearers
    <3>3. scan.targets[id] = Max(B \cup {0})
      BY <2>1
    <3>4. next.targets[id] = IF HashBound(link) /\ link.id = id THEN k + 1 ELSE scan.targets[id]
      BY <1>2, <1>3
    <3> HIDE DEF B, C
    <3>5. Max(B \cup {k + 1} \cup {0}) = k + 1
      BY <3>2, LastOfPositions
    <3>6. next.targets[id] = Max(C \cup {0})
      BY <3>1, <3>3, <3>4, <3>5
    <3> QED BY <3>6 DEF C
  <2> DEFINE M(id) == Max(FirstBearers(links, k + 1, id) \cup {0})
  <2>5. \A id \in Ids(links) : next.targets[id] = M(id)
    BY <2>4
  <2> HIDE DEF M
  <2>6. next.targets = [id \in Ids(links) |-> M(id)]
    BY <2>3, <2>5
  <2> QED BY <2>6 DEF M
<1>10. next.promotions = {i \in 1..(k + 1) : Promotes(links[i])}
  <2>1. scan.promotions = {i \in 1..k : Promotes(links[i])}
    BY DEF Known
  <2> QED BY <1>1, <1>2, <2>1 DEF link
<1> QED BY <1>5, <1>6, <1>7, <1>8, <1>9, <1>10 DEF Known, next

\* The standalone verifier's pass takes the links that hold, and adds up what the package's
\* verifier adds up.
LEMMA ScanJudges ==
  ASSUME NEW links \in Seq(LogRow)
  PROVE  /\ Scanned(links).ok <=> LinksHold(links)
         /\ Scanned(links).ok =>
              /\ Scanned(links).total = Total(links)
              /\ Scanned(links).tiers = Sums(links, PublicTierOf(links))
              /\ Scanned(links).targets = LastBearers(links)
              /\ Scanned(links).promotions = Promotions(links)
<1> DEFINE n == Len(links)
<1>1. PICK h \in [0..n -> Scan(links)] :
        /\ h[0] = ScanStart(links) /\ h[n] = Scanned(links)
        /\ \A k \in 1..n : h[k] = ScanLink(links, h[k - 1], k)
  BY ScanSteps
<1>2. n \in Nat /\ DOMAIN links = 1..n
  OBVIOUS
<1> DEFINE Good(k) == /\ h[k].prev = HeadOf(SubSeq(links, 1, k))
                      /\ h[k].ok <=> FirstHold(links, k)
                      /\ h[k].ok => Known(links, k, h[k])
           T == {k \in Nat : k <= n => Good(k)}
<1>3. Good(0)
  <2>1. 1..0 = {} /\ 0 \in 0..n
    BY <1>2
  <2>2. FirstHold(links, 0)
    BY <2>1 DEF FirstHold
  <2>3. HeadOf(SubSeq(links, 1, 0)) = << >>
    BY <2>1, HeadOfPrefix
  <2>4. h[0].prev = << >> /\ h[0].ok
    BY <1>1 DEF ScanStart, Genesis
  <2>5. Worth(links, {}) = 0
    BY SumEmpty DEF Worth
  <2>6. Max({} \cup {0}) = 0
    <3>1. {} \in SUBSET (1..0)
      OBVIOUS
    <3> QED BY <3>1, LastOfPositions
  <2>7. Known(links, 0, ScanStart(links))
    <3>1. /\ ScanStart(links).version = 0 /\ ScanStart(links).total = 0
          /\ ScanStart(links).tiers = [t \in Tier |-> 0]
          /\ ScanStart(links).targets = [id \in Ids(links) |-> 0]
          /\ ScanStart(links).promotions = {}
      BY DEF ScanStart
    <3>2. \A i \in 1..0 : FALSE
      BY <2>1
    <3>3. {i \in 1..0 : Promotes(links[i])} = {}
          /\ \A t : {i \in 1..0 : PublicTier(links[i]) = t} = {}
          /\ \A id : FirstBearers(links, 0, id) = {}
      BY <2>1 DEF FirstBearers
    <3>4. [t \in Tier |-> Worth(links, {i \in 1..0 : PublicTier(links[i]) = t})]
            = [t \in Tier |-> 0]
      BY <2>5, <3>3
    <3>5. [id \in Ids(links) |-> Max(FirstBearers(links, 0, id) \cup {0})]
            = [id \in Ids(links) |-> 0]
      BY <2>6, <3>3
    <3>6. Worth(links, 1..0) = 0
      BY <2>1, <2>5
    <3> QED BY <3>1, <3>2, <3>3, <3>4, <3>5, <3>6, Zenon DEF Known
  <2> QED BY <1>1, <2>2, <2>3, <2>4, <2>7
<1>4. ASSUME NEW k \in Nat, k \in T PROVE k + 1 \in T
  <2> SUFFICES ASSUME k + 1 <= n PROVE Good(k + 1)
    <3> HIDE DEF Good
    <3> QED OBVIOUS
  <2>1. k + 1 \in 1..n /\ k + 1 \in 0..n /\ k \in 0..n /\ (k + 1) - 1 = k /\ k + 1 # 0
    BY <1>2
  <2>2. Good(k)
    <3> HIDE DEF Good
    <3> QED BY <1>2, <1>4, <2>1
  <2>3. h[k] \in Scan(links) /\ h[k + 1] = ScanLink(links, h[k], k + 1)
    BY <1>1, <2>1
  <2>4. h[k + 1].prev = HeadOf(SubSeq(links, 1, k + 1))
    <3>1. h[k + 1].prev = links[k + 1].chain
      BY <2>1, <2>3, LinkScanned
    <3>2. HeadOf(SubSeq(links, 1, k + 1)) = links[k + 1].chain
      BY <2>1, HeadOfPrefix
    <3> QED BY <3>1, <3>2
  <2>5. h[k + 1].ok <=>
          /\ h[k].ok /\ LinkHolds(links, k + 1)
          /\ links[k + 1].version >= h[k].version
          /\ ~(HashBound(links[k + 1]) /\ h[k].targets[links[k + 1].id] # 0)
    <3>1. h[k].prev = HeadOf(SubSeq(links, 1, k))
      BY <2>2
    <3> HIDE DEF Good, T
    <3>2. h[k + 1].ok <=>
            /\ h[k].ok /\ links[k + 1].version <= Current
            /\ links[k + 1].version >= h[k].version
            /\ links[k + 1].chain = Append(h[k].prev, Covered(links[k + 1]))
            /\ links[k + 1].tier = PublicTier(links[k + 1]) /\ Priced(links[k + 1])
            /\ ~(HashBound(links[k + 1]) /\ h[k].targets[links[k + 1].id] # 0)
      BY <2>1, <2>3, LinkScanned
    <3> QED BY <2>1, <3>1, <3>2 DEF LinkHolds
  <2>6. h[k].ok => ((\A i \in 1..k : InOrder(links, i, k + 1)) <=>
           /\ links[k + 1].version >= h[k].version
           /\ ~(HashBound(links[k + 1]) /\ h[k].targets[links[k + 1].id] # 0))
    BY <2>1, <2>2, <2>3, KnownDecides
  <2>7. h[k + 1].ok <=> FirstHold(links, k + 1)
    BY <2>2, <2>5, <2>6, FirstHoldSteps
  <2>8. h[k + 1].ok => Known(links, k + 1, h[k + 1])
    BY <2>1, <2>2, <2>3, <2>5, KnownGrows
  <2> QED BY <2>4, <2>7, <2>8
<1>5. Good(n)
  <2>1. 0 \in T
    BY <1>3
  <2> HIDE DEF T
  <2>2. Nat \subseteq T
    BY <1>4, <2>1, SetInduction
  <2> USE DEF T
  <2> HIDE DEF Good
  <2> QED BY <1>2, <2>2
<1>6. Scanned(links).ok <=> LinksHold(links)
  BY <1>1, <1>5, AllHold
<1>7. ASSUME Scanned(links).ok
      PROVE  /\ Scanned(links).total = Total(links)
             /\ Scanned(links).tiers = Sums(links, PublicTierOf(links))
             /\ Scanned(links).targets = LastBearers(links)
             /\ Scanned(links).promotions = Promotions(links)
  <2>1. Known(links, n, Scanned(links))
    BY <1>1, <1>5, <1>7
  <2>2. \A t : {i \in 1..n : PublicTier(links[i]) = t}
                 = {i \in DOMAIN links : PublicTierOf(links)[i] = t}
    BY <1>2 DEF PublicTierOf
  <2>3. \A id : FirstBearers(links, n, id) = Bearers(links, id)
    BY <1>2 DEF FirstBearers, Bearers
  <2>4. Scanned(links).total = Total(links)
    BY <1>2, <2>1 DEF Known, Total
  <2>5. Scanned(links).tiers = Sums(links, PublicTierOf(links))
    <3>1. Scanned(links).tiers
            = [t \in Tier |-> Worth(links, {i \in 1..n : PublicTier(links[i]) = t})]
      BY <2>1 DEF Known
    <3> QED BY <2>2, <3>1 DEF Sums
  <2>6. Scanned(links).targets = LastBearers(links)
    BY <2>1, <2>3 DEF Known, LastBearers
  <2>7. Scanned(links).promotions = Promotions(links)
    BY <1>2, <2>1 DEF Known, Promotions
  <2> QED BY <2>4, <2>5, <2>6, <2>7
<1> QED BY <1>6, <1>7

\* Links the standalone verifier finds nothing wrong with are linked.
LEMMA ScannedLinked ==
  ASSUME NEW links \in Seq(LogRow), Scanned(links).ok
  PROVE  Linked(links)
BY ScanJudges DEF LinksHold

\* Whatever a document claims of links.
LEMMA OneVerdict ==
  ASSUME NEW doc, doc.links \in Seq(LogRow)
  PROVE  Accepts(doc) <=> StrangerAccepts(doc)
<1> DEFINE links == doc.links
           scan == Scanned(links)
           theirs == StrangerTiers(links, scan)
           ours == PublicTiers(links)
<1>1. /\ scan.ok <=> LinksHold(links)
      /\ scan.ok => /\ scan.total = Total(links)
                    /\ scan.tiers = Sums(links, PublicTierOf(links))
                    /\ scan.targets = LastBearers(links)
                    /\ scan.promotions = Promotions(links)
  BY ScanJudges
<1>2. scan.ok => theirs = ours
  <2> HIDE DEF scan, links
  <2> QED BY <1>1 DEF StrangerTiers, PublicTiers, Overlaid
<1>3. StrangerAccepts(doc) <=>
        /\ doc.receipts = Len(links) /\ doc.valid /\ scan.ok
        /\ doc.total = scan.total /\ doc.head = HeadOf(links)
        /\ \A t \in Tier : theirs[t] >= 0
        /\ doc.tiers = theirs /\ doc.anchored = AnchoredSum(theirs)
        /\ doc.self = theirs[SelfReported]
        /\ doc.floor = FloorOf(AnchoredSum(theirs), scan.total)
  BY DEF StrangerAccepts
<1>4. Accepts(doc) <=>
        /\ doc.receipts = Len(links) /\ doc.valid /\ LinksHold(links)
        /\ doc.total = Total(links) /\ doc.head = HeadOf(links)
        /\ \A t \in Tier : ours[t] >= 0
        /\ doc.tiers = ours /\ doc.anchored = AnchoredSum(ours)
        /\ doc.self = ours[SelfReported]
        /\ doc.floor = FloorOf(AnchoredSum(ours), Total(links))
  BY DEF Accepts, EnvelopeHolds, TotalsHold, VeracityHolds
<1> HIDE DEF links, scan, theirs, ours
<1> QED BY <1>1, <1>2, <1>3, <1>4

LEMMA InvariantVerifiersAgree ==
  ASSUME LogInvariant
  PROVE  VerifiersAgree
<1>1. log \in Seq(LogRow)
  BY DEF LogInvariant, Alike
<1> SUFFICES ASSUME NEW doc \in Declared(log) PROVE Accepts(doc) <=> StrangerAccepts(doc)
  BY DEF VerifiersAgree
<1> DEFINE whole == Attest(log)
           less == SubSeq(log, 1, Len(log) - 1)
<1>2. whole.links = log
  BY DEF Attest
<1>3. less \in Seq(LogRow)
  BY <1>1
<1>4. \/ doc = whole \/ doc = [whole EXCEPT !.valid = TRUE] \/ doc = [whole EXCEPT !.total = @ + 1]
      \/ doc = [whole EXCEPT !.links = SubSeq(@, 1, Len(@) - 1)]
      \/ doc = [whole EXCEPT !.valid = TRUE, !.tiers = PublicTiers(log)]
  BY DEF Declared
<1>5. doc.links = log \/ doc.links = less
  <2>1. [whole EXCEPT !.valid = TRUE].links = log
        /\ [whole EXCEPT !.total = @ + 1].links = log
        /\ [whole EXCEPT !.links = SubSeq(@, 1, Len(@) - 1)].links = less
    BY <1>2 DEF Attest
  <2>2. [whole EXCEPT !.valid = TRUE, !.tiers = PublicTiers(log)].links = log
    BY <1>2 DEF Attest
  <2> HIDE DEF whole, less
  <2> QED BY <1>2, <1>4, <2>1, <2>2
<1> HIDE DEF whole, less
<1> QED BY <1>1, <1>3, <1>5, OneVerdict

-----------------------------------------------------------------------------
(* The promotion overlay *)

\* What the overlay makes of one row, and of all of them one after the other.
Turned(rows, tierOf, promotions, state, j) ==
  IF j \in promotions THEN Moved(rows, tierOf, state, j) ELSE state

Overlays(g, rows, tierOf, start, promotions) ==
  g = [s \in SUBSET DOMAIN Positions(rows) |->
        IF s = {} THEN start
        ELSE Turned(rows, tierOf, promotions, g[s \ {Max(s)}], Positions(rows)[Max(s)])]

LEMMA OverlayIsChosen ==
  ASSUME NEW rows, NEW tierOf, NEW start, NEW promotions
  PROVE  Overlay(rows, tierOf, start, promotions)
           = (CHOOSE g : Overlays(g, rows, tierOf, start, promotions))[DOMAIN Positions(rows)]
BY DEF Overlay, FoldLeft, MapThenFoldSet, Overlays, Turned, Positions

\* The sums by tier, and the rows that may still be promoted, by id.
OverlayState(rows) == [tiers : [Tier -> Int], targets : [Ids(rows) -> Nat]]

\* Whether promotion j moves the value of its target in a state.
Moves(rows, state, j) ==
  LET target == state.targets[rows[j].supersedes]
  IN  target \in 1..(j - 1) /\ rows[target].kry > 0

LEMMA MovedFields ==
  ASSUME NEW rows \in Seq(LogRow), NEW tierOf \in [DOMAIN rows -> Tier],
         NEW state \in OverlayState(rows), NEW j \in DOMAIN rows
  PROVE  LET target == state.targets[rows[j].supersedes]
             worth == rows[target].kry
             next == Moved(rows, tierOf, state, j)
         IN  /\ next \in OverlayState(rows)
             /\ ~Moves(rows, state, j) => next = state
             /\ Moves(rows, state, j) =>
                  /\ target \in DOMAIN rows /\ worth \in Nat
                  /\ \A t \in Tier :
                       next.tiers[t] = state.tiers[t] - (IF tierOf[target] = t THEN worth ELSE 0)
                                                     + (IF rows[j].tier = t THEN worth ELSE 0)
                  /\ \A id \in Ids(rows) :
                       next.targets[id] = IF rows[j].supersedes = id THEN 0
                                          ELSE state.targets[id]
<1> DEFINE name == rows[j].supersedes
           target == state.targets[name]
           worth == rows[target].kry
           from == tierOf[target]
           onto == rows[j].tier
           taken == [state.tiers EXCEPT ![from] = @ - worth]
           tiers == [taken EXCEPT ![onto] = @ + worth]
           targets == [state.targets EXCEPT ![name] = 0]
           next == Moved(rows, tierOf, state, j)
<1>1. /\ name \in Ids(rows) /\ onto \in Tier /\ DOMAIN rows = 1..Len(rows) /\ j \in Nat
      /\ state.tiers \in [Tier -> Int] /\ state.targets \in [Ids(rows) -> Nat]
  <2>1. rows[j] \in LogRow /\ name \in Ids(rows)
    BY DEF Ids
  <2> QED BY <2>1, RowFields DEF OverlayState
<1>2. CASE ~Moves(rows, state, j)
  <2>1. next = state
    BY <1>2 DEF Moved, Moves
  <2> QED BY <1>2, <2>1
<1>3. CASE Moves(rows, state, j)
  <2>1. target \in DOMAIN rows /\ rows[target] \in LogRow
    BY <1>1, <1>3 DEF Moves
  <2>2. worth \in Nat /\ from \in Tier
    BY <2>1, RowFields
  <2>3. next = [tiers |-> tiers, targets |-> targets]
    BY <1>3 DEF Moved, Moves
  <2> HIDE DEF worth, from, onto, next, target, name
  <2>4. taken \in [Tier -> Int] /\ \A t \in Tier :
          taken[t] = IF from = t THEN state.tiers[t] - worth ELSE state.tiers[t]
    BY <1>1, <2>2
  <2> HIDE DEF taken
  <2>5. tiers \in [Tier -> Int] /\ \A t \in Tier :
          tiers[t] = IF onto = t THEN taken[t] + worth ELSE taken[t]
    BY <1>1, <2>2, <2>4
  <2>6. targets \in [Ids(rows) -> Nat] /\ \A id \in Ids(rows) :
          targets[id] = IF name = id THEN 0 ELSE state.targets[id]
    BY <1>1
  <2> HIDE DEF tiers, targets
  <2>7. next \in OverlayState(rows) /\ next.tiers = tiers /\ next.targets = targets
    BY <2>3, <2>5, <2>6 DEF OverlayState
  <2>8. ASSUME NEW t \in Tier
        PROVE  next.tiers[t] = state.tiers[t] - (IF from = t THEN worth ELSE 0)
                                              + (IF onto = t THEN worth ELSE 0)
    <3>1. state.tiers[t] \in Int
      BY <1>1
    <3> QED BY <2>2, <2>4, <2>5, <2>7, <3>1
  <2>9. \A id \in Ids(rows) : next.targets[id] = IF name = id THEN 0 ELSE state.targets[id]
    BY <2>6, <2>7
  <2> QED BY <1>3, <2>1, <2>2, <2>7, <2>8, <2>9 DEF worth, from, onto, next, target, name
<1> QED BY <1>2, <1>3

LEMMA TurnedTyped ==
  ASSUME NEW rows \in Seq(LogRow), NEW tierOf \in [DOMAIN rows -> Tier], NEW promotions,
         NEW state \in OverlayState(rows), NEW j \in DOMAIN rows
  PROVE  Turned(rows, tierOf, promotions, state, j) \in OverlayState(rows)
BY MovedFields DEF Turned

LEMMA OverlayExists ==
  ASSUME NEW rows \in Seq(LogRow), NEW tierOf \in [DOMAIN rows -> Tier], NEW promotions,
         NEW start \in OverlayState(rows)
  PROVE  \E g : Overlays(g, rows, tierOf, start, promotions)
<1> DEFINE A == OverlayState(rows)
           n == Len(rows)
           Turn(state, j) == Turned(rows, tierOf, promotions, state, j)
           step == [p \in A \X (1..n) |-> Turn(p[1], p[2])]
<1>1. n \in Nat /\ DOMAIN Positions(rows) = 1..n /\ \A i \in 1..n : Positions(rows)[i] = i
  BY DEF Positions
<1>2. \A state \in A, j \in 1..n : Turn(state, j) \in A
  BY TurnedTyped
<1>3. step \in [A \X (1..n) -> A]
  <2> HIDE DEF A, n, Turn
  <2> QED BY <1>2
<1> HIDE DEF A, n, step
<1>4. PICK g \in [SUBSET (1..n) -> A] : FoldsTo(g, start, step, n)
  <2>1. start \in A
    BY DEF A
  <2> QED BY <1>1, <1>3, <2>1, FoldExists
<1>5. ASSUME NEW s \in SUBSET (1..n), s # {}
      PROVE  g[s] = Turn(g[s \ {Max(s)}], Positions(rows)[Max(s)])
  <2>1. Max(s) \in 1..n
    BY <1>1, <1>5, MaxChosen
  <2>2. g[s \ {Max(s)}] \in A
    OBVIOUS
  <2>3. g[s] = step[<<g[s \ {Max(s)}], Max(s)>>]
    BY <1>4, <1>5 DEF FoldsTo
  <2> HIDE DEF Turn
  <2> QED BY <1>1, <2>1, <2>2, <2>3 DEF step
<1>6. g[{}] = start
  BY <1>4 DEF FoldsTo
<1>7. g = [s \in SUBSET (1..n) |->
             IF s = {} THEN start ELSE Turn(g[s \ {Max(s)}], Positions(rows)[Max(s)])]
  <2> HIDE DEF Turn
  <2> QED BY <1>4, <1>5, <1>6
<1>8. Overlays(g, rows, tierOf, start, promotions)
  BY <1>1, <1>7 DEF Overlays
<1> QED BY <1>8

\* The states the overlay goes through.
OverlayRun(h, rows, tierOf, start, promotions) ==
  /\ h \in [0..Len(rows) -> OverlayState(rows)]
  /\ h[0] = start /\ h[Len(rows)] = Overlay(rows, tierOf, start, promotions)
  /\ \A k \in 1..Len(rows) : h[k] = Turned(rows, tierOf, promotions, h[k - 1], k)

LEMMA OverlaySteps ==
  ASSUME NEW rows \in Seq(LogRow), NEW tierOf \in [DOMAIN rows -> Tier], NEW promotions,
         NEW start \in OverlayState(rows)
  PROVE  \E h : OverlayRun(h, rows, tierOf, start, promotions)
<1> DEFINE g == CHOOSE f : Overlays(f, rows, tierOf, start, promotions)
           n == Len(rows)
           h == [k \in 0..n |-> g[1..k]]
           S == OverlayState(rows)
           Turn(state, j) == Turned(rows, tierOf, promotions, state, j)
<1>1. Overlays(g, rows, tierOf, start, promotions)
  BY OverlayExists
<1>2. n \in Nat /\ DOMAIN Positions(rows) = 1..n /\ \A i \in 1..n : Positions(rows)[i] = i
  BY DEF Positions
<1>3. g[1..n] = Overlay(rows, tierOf, start, promotions)
  BY <1>2, OverlayIsChosen
<1> HIDE DEF g
<1>4. g[1..0] = start
  <2>1. 1..0 = {} /\ 1..0 \in SUBSET (1..n)
    OBVIOUS
  <2> QED BY <1>1, <1>2, <2>1 DEF Overlays
<1>5. ASSUME NEW k \in 1..n
      PROVE  g[1..k] = Turn(g[1..(k - 1)], k)
  <2>1. /\ 1..k \in SUBSET (1..n) /\ 1..k # {} /\ (1..k) \ {k} = 1..(k - 1)
        /\ Max(1..k) = k
    BY <1>2, PrefixSets
  <2>2. ASSUME NEW s \in SUBSET DOMAIN Positions(rows), s # {}
        PROVE  g[s] = Turn(g[s \ {Max(s)}], Positions(rows)[Max(s)])
    BY <1>1, <2>2 DEF Overlays
  <2> DEFINE s == 1..k
  <2>3. s \in SUBSET DOMAIN Positions(rows) /\ s # {}
    BY <1>2, <2>1
  <2> HIDE DEF s, Turn
  <2>4. g[s] = Turn(g[s \ {Max(s)}], Positions(rows)[Max(s)])
    BY <2>2, <2>3
  <2> QED BY <1>2, <2>1, <2>4 DEF s
<1> DEFINE T == {k \in Nat : k <= n => g[1..k] \in S}
<1>6. 0 \in T
  BY <1>4
<1>7. ASSUME NEW k \in Nat, k \in T PROVE k + 1 \in T
  <2> SUFFICES ASSUME k + 1 <= n PROVE g[1..(k + 1)] \in S
    OBVIOUS
  <2>1. k + 1 \in 1..n /\ (k + 1) - 1 = k /\ g[1..k] \in S /\ k + 1 \in DOMAIN rows
    BY <1>2, <1>7
  <2>2. g[1..(k + 1)] = Turn(g[1..k], k + 1)
    BY <1>5, <2>1
  <2> QED BY <2>1, <2>2, TurnedTyped
<1>8. Nat \subseteq T
  <2> HIDE DEF T
  <2> QED BY <1>6, <1>7, SetInduction
<1>9. h \in [0..n -> S]
  <2> HIDE DEF S
  <2> QED BY <1>2, <1>8
<1>10. h[0] = start /\ h[n] = Overlay(rows, tierOf, start, promotions)
  BY <1>2, <1>3, <1>4
<1>11. ASSUME NEW k \in 1..n PROVE h[k] = Turn(h[k - 1], k)
  <2>1. k \in 0..n /\ k - 1 \in 0..n
    BY <1>2
  <2> HIDE DEF Turn
  <2> QED BY <1>5, <2>1
<1> HIDE DEF h
<1>12. OverlayRun(h, rows, tierOf, start, promotions)
  BY <1>9, <1>10, <1>11 DEF OverlayRun
<1> QED BY <1>12

\* The declared tier of a row once the promotions among the first k rows are applied.
Upgrades(rows, i, k) ==
  {j \in 1..k : j > i /\ Promotes(rows[j]) /\ rows[j].supersedes = rows[i].id}

Upgraded(rows, i, k) ==
  HashBound(rows[i]) /\ rows[i].kry > 0 /\ Upgrades(rows, i, k) # {}

TierAfter(rows, tierOf, i, k) ==
  IF Upgraded(rows, i, k) THEN rows[Min(Upgrades(rows, i, k))].tier ELSE tierOf[i]

TiersAfter(rows, tierOf, k) == [i \in DOMAIN rows |-> TierAfter(rows, tierOf, i, k)]

\* Every value is counted once, at that tier; a row is a target until it is promoted.
Applied(rows, tierOf, k, state) ==
  /\ state.tiers = Sums(rows, TiersAfter(rows, tierOf, k))
  /\ \A i \in DOMAIN rows :
       HashBound(rows[i]) =>
         state.targets[rows[i].id] = IF Upgraded(rows, i, k) THEN 0 ELSE i
  /\ \A id \in Ids(rows) : Bearers(rows, id) = {} => state.targets[id] = 0

LEMMA SumsTyped ==
  ASSUME NEW rows \in Seq(LogRow), NEW f
  PROVE  Sums(rows, f) \in [Tier -> Nat]
<1> DEFINE kry == [i \in DOMAIN rows |-> rows[i].kry]
           S(t) == {i \in DOMAIN rows : f[i] = t}
           W(t) == SumFunctionOnSet(kry, S(t))
<1>1. ASSUME NEW t PROVE W(t) \in Nat
  <2>1. IsFiniteSet(S(t))
    <3>1. DOMAIN rows = 1..Len(rows) /\ Len(rows) \in Nat /\ S(t) \subseteq DOMAIN rows
      OBVIOUS
    <3>2. IsFiniteSet(DOMAIN rows)
      BY <3>1, FS_Interval
    <3> HIDE DEF S
    <3> QED BY <3>1, <3>2, FS_Subset
  <2>2. \A i \in S(t) : kry[i] \in Nat
    <3> SUFFICES ASSUME NEW i \in DOMAIN rows PROVE rows[i].kry \in Nat
      OBVIOUS
    <3>1. rows[i] \in LogRow
      OBVIOUS
    <3> QED BY <3>1, RowFields
  <2> HIDE DEF S, kry
  <2> QED BY <2>1, <2>2, SumNat
<1>2. Sums(rows, f) = [t \in Tier |-> W(t)]
  BY DEF Sums, Worth
<1> HIDE DEF W
<1> QED BY <1>1, <1>2

\* Sums of values by tier, when one row changes its tier.
LEMMA SumsMove ==
  ASSUME NEW rows \in Seq(LogRow), NEW f \in [DOMAIN rows -> Tier],
         NEW g \in [DOMAIN rows -> Tier], NEW i \in DOMAIN rows, NEW t \in Tier,
         \A j \in DOMAIN rows : j # i => g[j] = f[j]
  PROVE  Sums(rows, g)[t] = Sums(rows, f)[t] - (IF f[i] = t THEN rows[i].kry ELSE 0)
                                             + (IF g[i] = t THEN rows[i].kry ELSE 0)
<1> DEFINE kry == [j \in DOMAIN rows |-> rows[j].kry]
           R == {j \in DOMAIN rows : j # i /\ f[j] = t}
           F == {j \in DOMAIN rows : f[j] = t}
           G == {j \in DOMAIN rows : g[j] = t}
           W(s) == SumFunctionOnSet(kry, s)
<1>1. \A j \in DOMAIN rows : kry[j] = rows[j].kry /\ kry[j] \in Nat
  <2> SUFFICES ASSUME NEW j \in DOMAIN rows PROVE rows[j].kry \in Nat
    OBVIOUS
  <2>1. rows[j] \in LogRow
    OBVIOUS
  <2> QED BY <2>1, RowFields
<1>2. IsFiniteSet(DOMAIN rows) /\ IsFiniteSet(R) /\ IsFiniteSet(F)
  <2>1. DOMAIN rows = 1..Len(rows) /\ Len(rows) \in Nat
    OBVIOUS
  <2>2. IsFiniteSet(DOMAIN rows)
    BY <2>1, FS_Interval
  <2>3. R \subseteq DOMAIN rows /\ F \subseteq DOMAIN rows
    OBVIOUS
  <2> HIDE DEF R, F
  <2> QED BY <2>2, <2>3, FS_Subset
<1>3. F = IF f[i] = t THEN R \cup {i} ELSE R
  OBVIOUS
<1>4. G = IF g[i] = t THEN R \cup {i} ELSE R
  OBVIOUS
<1>5. Sums(rows, f)[t] = W(F) /\ Sums(rows, g)[t] = W(G)
  BY DEF Sums, Worth
<1>6. i \notin R /\ \A j \in R \cup {i} : kry[j] \in Int /\ kry[j] \in Nat
  BY <1>1
<1>7. \A j \in F : kry[j] \in Nat
  BY <1>1
<1> HIDE DEF kry, R, F, G
<1>8. W(R \cup {i}) = kry[i] + W(R)
  BY <1>2, <1>6, SumInsert
<1>9. W(R) \in Nat /\ W(F) \in Nat
  BY <1>2, <1>6, <1>7, SumNat
<1>10. kry[i] = rows[i].kry /\ kry[i] \in Nat
  BY <1>1
<1> HIDE DEF W
<1>11. Sums(rows, g)[t] = Sums(rows, f)[t] - (IF f[i] = t THEN rows[i].kry ELSE 0)
                                          + (IF g[i] = t THEN rows[i].kry ELSE 0)
  BY <1>3, <1>4, <1>5, <1>8, <1>9, <1>10
<1> QED BY <1>11

\* One row more among those whose promotions are applied.
LEMMA UpgradesGrow ==
  ASSUME NEW rows \in Seq(LogRow), NEW k \in Nat, k + 1 \in DOMAIN rows, NEW i \in DOMAIN rows
  PROVE  /\ Upgrades(rows, i, k) \in SUBSET (1..k)
         /\ Upgrades(rows, i, k + 1)
              = IF k + 1 > i /\ Promotes(rows[k + 1]) /\ rows[k + 1].supersedes = rows[i].id
                THEN Upgrades(rows, i, k) \cup {k + 1} ELSE Upgrades(rows, i, k)
         /\ Upgrades(rows, i, k) # {} =>
              Min(Upgrades(rows, i, k) \cup {k + 1}) = Min(Upgrades(rows, i, k))
         /\ Min({k + 1}) = k + 1
<1> DEFINE U == Upgrades(rows, i, k)
<1>1. U \in SUBSET (1..k)
  BY DEF Upgrades
<1>2. Upgrades(rows, i, k + 1)
        = IF k + 1 > i /\ Promotes(rows[k + 1]) /\ rows[k + 1].supersedes = rows[i].id
          THEN U \cup {k + 1} ELSE U
  <2>1. 1..(k + 1) = 1..k \cup {k + 1}
    OBVIOUS
  <2> QED BY <2>1 DEF Upgrades
<1>3. ASSUME U # {} PROVE Min(U \cup {k + 1}) = Min(U)
  <2> HIDE DEF U
  <2> DEFINE m == Min(U)
  <2>1. m \in U /\ \A y \in U : m <= y
    BY <1>1, <1>3, MinChosen
  <2> HIDE DEF m
  <2>2. m \in U \cup {k + 1} /\ \A y \in U \cup {k + 1} : m <= y
    BY <1>1, <2>1
  <2>3. \A x \in U \cup {k + 1} : (\A y \in U \cup {k + 1} : x <= y) => x = m
    BY <1>1, <2>2
  <2>4. Min(U \cup {k + 1}) = m
    BY <2>2, <2>3 DEF Min
  <2> QED BY <2>4 DEF m
<1>4. Min({k + 1}) = k + 1
  BY DEF Min
<1> QED BY <1>1, <1>2, <1>3, <1>4

\* A promotion that moves nothing changes no declared tier.
LEMMA StillTiers ==
  ASSUME NEW rows \in Seq(LogRow), IdsUnique(rows), NEW tierOf \in [DOMAIN rows -> Tier],
         NEW state \in OverlayState(rows), NEW k \in Nat, k + 1 \in DOMAIN rows,
         Applied(rows, tierOf, k, state),
         ~(Promotes(rows[k + 1]) /\ Moves(rows, state, k + 1)), NEW i \in DOMAIN rows
  PROVE  /\ HashBound(rows[i]) => (Upgraded(rows, i, k + 1) <=> Upgraded(rows, i, k))
         /\ TierAfter(rows, tierOf, i, k + 1) = TierAfter(rows, tierOf, i, k)
<1> DEFINE j == k + 1
<1>1. CASE Upgraded(rows, i, k)
  <2>1. Upgrades(rows, i, k) # {} /\ HashBound(rows[i]) /\ rows[i].kry > 0
    BY <1>1 DEF Upgraded
  <2>2. /\ Upgrades(rows, i, k + 1) # {}
        /\ Min(Upgrades(rows, i, k + 1)) = Min(Upgrades(rows, i, k))
    BY <2>1, UpgradesGrow
  <2>3. Upgraded(rows, i, k + 1)
    BY <2>1, <2>2 DEF Upgraded
  <2> QED BY <1>1, <2>2, <2>3 DEF TierAfter
<1>2. CASE ~Upgraded(rows, i, k)
  <2> SUFFICES ~Upgraded(rows, i, k + 1)
    BY <1>2 DEF TierAfter
  <2> SUFFICES ASSUME Upgraded(rows, i, k + 1) PROVE FALSE
    OBVIOUS
  <2>1. HashBound(rows[i]) /\ rows[i].kry > 0 /\ Upgrades(rows, i, k) = {}
    BY <1>2 DEF Upgraded
  <2>2. k + 1 > i /\ Promotes(rows[k + 1]) /\ rows[k + 1].supersedes = rows[i].id
    BY <2>1, UpgradesGrow DEF Upgraded
  <2>3. state.targets[rows[k + 1].supersedes] = i
    BY <1>2, <2>1, <2>2 DEF Applied
  <2>4. i \in 1..((k + 1) - 1)
    BY <2>2
  <2>5. Moves(rows, state, k + 1)
    BY <2>1, <2>3, <2>4 DEF Moves
  <2> QED BY <2>2, <2>5
<1> QED BY <1>1, <1>2

\* A promotion that moves a value moves that of one row, which was at its first tier.
LEMMA MovedTiers ==
  ASSUME NEW rows \in Seq(LogRow), IdsUnique(rows), NEW tierOf \in [DOMAIN rows -> Tier],
         NEW state \in OverlayState(rows), NEW k \in Nat, k + 1 \in DOMAIN rows,
         Applied(rows, tierOf, k, state), Promotes(rows[k + 1]), Moves(rows, state, k + 1),
         NEW target, target = state.targets[rows[k + 1].supersedes]
  PROVE  /\ target \in DOMAIN rows /\ HashBound(rows[target])
         /\ rows[target].id = rows[k + 1].supersedes
         /\ ~Upgraded(rows, target, k) /\ Upgraded(rows, target, k + 1)
         /\ TierAfter(rows, tierOf, target, k) = tierOf[target]
         /\ TierAfter(rows, tierOf, target, k + 1) = rows[k + 1].tier
         /\ \A i \in DOMAIN rows \ {target} :
              /\ HashBound(rows[i]) => (Upgraded(rows, i, k + 1) <=> Upgraded(rows, i, k))
              /\ TierAfter(rows, tierOf, i, k + 1) = TierAfter(rows, tierOf, i, k)
<1> DEFINE name == rows[k + 1].supersedes
<1>1. name \in Ids(rows) /\ DOMAIN rows = 1..Len(rows)
  BY DEF Ids
<1>2. target \in 1..k /\ rows[target].kry > 0 /\ target # 0
  BY DEF Moves
<1>3. target \in DOMAIN rows /\ k + 1 > target
  BY <1>1, <1>2
<1>4. PICK b \in DOMAIN rows : HashBound(rows[b]) /\ rows[b].id = name
  <2>1. Bearers(rows, name) # {}
    BY <1>1, <1>2 DEF Applied
  <2> QED BY <2>1 DEF Bearers
<1>5. b = target /\ ~Upgraded(rows, target, k)
  BY <1>2, <1>4 DEF Applied
<1>6. HashBound(rows[target]) /\ rows[target].id = name
  BY <1>4, <1>5
<1>7. Upgrades(rows, target, k) = {}
  BY <1>2, <1>5, <1>6 DEF Upgraded
<1>8. Upgrades(rows, target, k + 1) = {k + 1} /\ Min({k + 1}) = k + 1
  <2>1. Upgrades(rows, target, k + 1) = Upgrades(rows, target, k) \cup {k + 1}
    BY <1>3, <1>6, UpgradesGrow
  <2> QED BY <1>3, <1>7, <2>1, UpgradesGrow
<1>9. Upgraded(rows, target, k + 1)
  BY <1>2, <1>6, <1>8 DEF Upgraded
<1>10. /\ TierAfter(rows, tierOf, target, k) = tierOf[target]
       /\ TierAfter(rows, tierOf, target, k + 1) = rows[k + 1].tier
  BY <1>5, <1>8, <1>9 DEF TierAfter
<1>11. ASSUME NEW i \in DOMAIN rows \ {target}
       PROVE  /\ HashBound(rows[i]) => (Upgraded(rows, i, k + 1) <=> Upgraded(rows, i, k))
              /\ TierAfter(rows, tierOf, i, k + 1) = TierAfter(rows, tierOf, i, k)
  <2>1. CASE HashBound(rows[i])
    <3>1. rows[i].id # name
      BY <1>3, <1>6, <1>11, <2>1 DEF IdsUnique
    <3>2. Upgrades(rows, i, k + 1) = Upgrades(rows, i, k)
      BY <3>1, UpgradesGrow
    <3> QED BY <3>2 DEF Upgraded, TierAfter
  <2>2. CASE ~HashBound(rows[i])
    BY <2>2 DEF Upgraded, TierAfter
  <2> QED BY <2>1, <2>2
<1> QED BY <1>3, <1>6, <1>5, <1>9, <1>10, <1>11

\* One row of the overlay.
LEMMA AppliedGrows ==
  ASSUME NEW rows \in Seq(LogRow), IdsUnique(rows), NEW tierOf \in [DOMAIN rows -> Tier],
         NEW state \in OverlayState(rows), NEW k \in Nat, k + 1 \in DOMAIN rows,
         Applied(rows, tierOf, k, state)
  PROVE  Applied(rows, tierOf, k + 1,
                 Turned(rows, tierOf, Promotions(rows), state, k + 1))
<1> DEFINE next == Turned(rows, tierOf, Promotions(rows), state, k + 1)
           before == TiersAfter(rows, tierOf, k)
           after == TiersAfter(rows, tierOf, k + 1)
<1>1. k + 1 \in Promotions(rows) <=> Promotes(rows[k + 1])
  BY DEF Promotions
<1>2. CASE ~(Promotes(rows[k + 1]) /\ Moves(rows, state, k + 1))
  <2>1. next = state
    BY <1>1, <1>2, MovedFields DEF Turned
  <2>2. \A i \in DOMAIN rows :
          /\ HashBound(rows[i]) => (Upgraded(rows, i, k + 1) <=> Upgraded(rows, i, k))
          /\ TierAfter(rows, tierOf, i, k + 1) = TierAfter(rows, tierOf, i, k)
    BY <1>2, StillTiers
  <2>3. after = before
    BY <2>2 DEF TiersAfter
  <2> HIDE DEF after, before, next
  <2>4. next.tiers = Sums(rows, after)
    BY <2>1, <2>3 DEF Applied, before
  <2>5. \A i \in DOMAIN rows :
          HashBound(rows[i]) =>
            next.targets[rows[i].id] = IF Upgraded(rows, i, k + 1) THEN 0 ELSE i
    BY <2>1, <2>2 DEF Applied
  <2>6. \A id \in Ids(rows) : Bearers(rows, id) = {} => next.targets[id] = 0
    BY <2>1 DEF Applied
  <2> QED BY <2>4, <2>5, <2>6 DEF Applied, after, next
<1>3. CASE Promotes(rows[k + 1]) /\ Moves(rows, state, k + 1)
  <2> DEFINE target == state.targets[rows[k + 1].supersedes]
             onto == rows[k + 1].tier
             worth == rows[target].kry
  <2>1. /\ target \in DOMAIN rows /\ HashBound(rows[target])
        /\ rows[target].id = rows[k + 1].supersedes
        /\ ~Upgraded(rows, target, k) /\ Upgraded(rows, target, k + 1)
        /\ TierAfter(rows, tierOf, target, k) = tierOf[target]
        /\ TierAfter(rows, tierOf, target, k + 1) = onto
        /\ \A i \in DOMAIN rows \ {target} :
             /\ HashBound(rows[i]) => (Upgraded(rows, i, k + 1) <=> Upgraded(rows, i, k))
             /\ TierAfter(rows, tierOf, i, k + 1) = TierAfter(rows, tierOf, i, k)
    BY <1>3, MovedTiers
  <2>2. next = Moved(rows, tierOf, state, k + 1)
    BY <1>1, <1>3 DEF Turned
  <2>3. /\ next \in OverlayState(rows)
        /\ \A t \in Tier :
             next.tiers[t] = state.tiers[t] - (IF tierOf[target] = t THEN worth ELSE 0)
                                           + (IF onto = t THEN worth ELSE 0)
        /\ \A id \in Ids(rows) :
             next.targets[id] = IF rows[k + 1].supersedes = id THEN 0 ELSE state.targets[id]
    BY <1>3, <2>2, MovedFields
  <2>4. onto \in Tier
    <3>1. rows[k + 1] \in LogRow
      OBVIOUS
    <3> QED BY <3>1, RowFields
  <2>5. \A i \in DOMAIN rows : TierAfter(rows, tierOf, i, k) \in Tier
    <3> SUFFICES ASSUME NEW i \in DOMAIN rows, Upgraded(rows, i, k)
                 PROVE  rows[Min(Upgrades(rows, i, k))].tier \in Tier
      BY DEF TierAfter
    <3> DEFINE m == Min(Upgrades(rows, i, k))
    <3>1. Upgrades(rows, i, k) \in SUBSET (1..k) /\ Upgrades(rows, i, k) # {}
      BY UpgradesGrow DEF Upgraded
    <3>2. m \in 1..k
      BY <3>1, MinChosen
    <3> HIDE DEF m
    <3>3. rows[m] \in LogRow
      BY <3>2
    <3> QED BY <3>3, RowFields DEF m
  <2>6. before \in [DOMAIN rows -> Tier] /\ before[target] = tierOf[target]
    BY <2>1, <2>5 DEF TiersAfter
  <2>7. /\ after \in [DOMAIN rows -> Tier] /\ after[target] = onto
        /\ \A i \in DOMAIN rows : i # target => after[i] = before[i]
    <3>1. \A i \in DOMAIN rows : after[i] = IF i = target THEN onto ELSE before[i]
      BY <2>1 DEF TiersAfter
    <3>2. after = [i \in DOMAIN rows |-> after[i]]
      BY DEF TiersAfter
    <3> HIDE DEF after, before, target, onto
    <3> QED BY <2>1, <2>4, <2>6, <3>1, <3>2
  <2> HIDE DEF after, before, next, target, onto, worth
  <2>8. state.tiers = Sums(rows, before)
    BY DEF Applied, before
  <2>9. next.tiers = Sums(rows, after)
    <3>1. ASSUME NEW t \in Tier PROVE next.tiers[t] = Sums(rows, after)[t]
      <4>1. Sums(rows, after)[t]
              = Sums(rows, before)[t] - (IF before[target] = t THEN rows[target].kry ELSE 0)
                                      + (IF after[target] = t THEN rows[target].kry ELSE 0)
        <5>1. target \in DOMAIN rows
          BY <2>1
        <5>2. before \in [DOMAIN rows -> Tier] /\ after \in [DOMAIN rows -> Tier]
              /\ \A j \in DOMAIN rows : j # target => after[j] = before[j]
          BY <2>6, <2>7
        <5> QED BY <3>1, <5>1, <5>2, SumsMove
      <4>2. worth = rows[target].kry
        BY DEF worth
      <4>3. next.tiers[t] = state.tiers[t] - (IF tierOf[target] = t THEN worth ELSE 0)
                                           + (IF onto = t THEN worth ELSE 0)
        BY <2>3
      <4> QED BY <2>6, <2>7, <2>8, <4>1, <4>2, <4>3
    <3>2. next.tiers \in [Tier -> Int] /\ DOMAIN Sums(rows, after) = Tier
          /\ Sums(rows, after) = [t \in Tier |-> Sums(rows, after)[t]]
      BY <2>3 DEF OverlayState, Sums
    <3>3. next.tiers = [t \in Tier |-> next.tiers[t]]
      BY <3>2
    <3> QED BY <3>1, <3>2, <3>3
  <2>10. ASSUME NEW i \in DOMAIN rows, HashBound(rows[i])
         PROVE  next.targets[rows[i].id] = IF Upgraded(rows, i, k + 1) THEN 0 ELSE i
    <3>1. rows[i].id \in Ids(rows)
      BY DEF Ids
    <3>2. CASE i = target
      BY <2>1, <2>3, <3>1, <3>2
    <3>3. CASE i # target
      <4>1. rows[i].id # rows[k + 1].supersedes
        BY <2>1, <2>10, <3>3 DEF IdsUnique
      <4>2. next.targets[rows[i].id] = state.targets[rows[i].id]
        BY <2>3, <3>1, <4>1
      <4>3. state.targets[rows[i].id] = IF Upgraded(rows, i, k) THEN 0 ELSE i
        BY <2>10 DEF Applied
      <4> QED BY <2>1, <2>10, <3>3, <4>2, <4>3
    <3> QED BY <3>2, <3>3
  <2>11. \A id \in Ids(rows) : Bearers(rows, id) = {} => next.targets[id] = 0
    BY <2>3 DEF Applied
  <2> QED BY <2>9, <2>10, <2>11 DEF Applied, after, next
<1> QED BY <1>2, <1>3

\* An id that is not shared has its one bearer as target.
LEMMA OneBearer ==
  ASSUME NEW rows \in Seq(LogRow), IdsUnique(rows)
  PROVE  /\ LastBearers(rows) \in [Ids(rows) -> Nat]
         /\ Targets(rows) = LastBearers(rows)
         /\ \A i \in DOMAIN rows :
              HashBound(rows[i]) => LastBearers(rows)[rows[i].id] = i
         /\ \A id \in Ids(rows) : Bearers(rows, id) = {} => LastBearers(rows)[id] = 0
<1> DEFINE n == Len(rows)
           B(id) == Bearers(rows, id)
           last(id) == Max(B(id) \cup {0})
<1>1. n \in Nat /\ DOMAIN rows = 1..n
  OBVIOUS
<1>2. \A id : B(id) \in SUBSET (1..n)
  BY <1>1 DEF Bearers
<1>3. \A id, i : i \in B(id) => B(id) = {i}
  BY DEF Bearers, IdsUnique
<1>4. \A i \in DOMAIN rows : HashBound(rows[i]) => i \in B(rows[i].id)
  BY DEF Bearers
<1> HIDE DEF B
<1>5. \A id : last(id) \in 0..n /\ (B(id) = {} => last(id) = 0)
  BY <1>1, <1>2, LastOfPositions
<1>6. \A id : B(id) # {} => last(id) \in B(id) /\ last(id) = Max(B(id))
  BY <1>1, <1>2, LastOfPositions
<1>7. \A i \in DOMAIN rows : HashBound(rows[i]) => last(rows[i].id) = i
  BY <1>3, <1>4, <1>6
<1>8. \A id : Cardinality(B(id)) = IF B(id) = {} THEN 0 ELSE 1
  <2>1. \A i : Cardinality({i}) = 1
    BY FS_Singleton
  <2>2. Cardinality({}) = 0
    BY FS_EmptySet
  <2>3. ASSUME NEW id, NEW i \in B(id) PROVE Cardinality(B(id)) = 1
    BY <1>3, <2>1
  <2> QED BY <2>2, <2>3
<1>9. \A id : (IF Cardinality(B(id)) = 1 THEN Max(B(id)) ELSE 0) = last(id)
  BY <1>5, <1>6, <1>8
<1>10. LastBearers(rows) = [id \in Ids(rows) |-> last(id)]
  BY DEF LastBearers, B
<1>11. Targets(rows) = [id \in Ids(rows) |-> IF Cardinality(B(id)) = 1 THEN Max(B(id)) ELSE 0]
  BY DEF Targets, B
<1> HIDE DEF last
<1>12. Targets(rows) = LastBearers(rows)
  BY <1>9, <1>10, <1>11
<1>13. LastBearers(rows) \in [Ids(rows) -> Nat]
  BY <1>5, <1>10
<1>14. \A i \in DOMAIN rows : rows[i].id \in Ids(rows)
  BY DEF Ids
<1> QED BY <1>5, <1>7, <1>10, <1>12, <1>13, <1>14 DEF B

\* The overlay counts every value once, at the tier of the first promotion of its row.
LEMMA OverlayApplied ==
  ASSUME NEW rows \in Seq(LogRow), IdsUnique(rows), NEW tierOf \in [DOMAIN rows -> Tier]
  PROVE  Overlaid(rows, tierOf, LastBearers(rows))
           = Sums(rows, TiersAfter(rows, tierOf, Len(rows)))
<1> DEFINE n == Len(rows)
           start == [tiers |-> Sums(rows, tierOf), targets |-> LastBearers(rows)]
           promoted == Promotions(rows)
<1>1. n \in Nat /\ DOMAIN rows = 1..n
  OBVIOUS
<1>2. Sums(rows, tierOf) \in [Tier -> Int]
  BY SumsTyped
<1>3. start \in OverlayState(rows)
  BY <1>2, OneBearer DEF OverlayState
<1>4. start.tiers = Sums(rows, tierOf) /\ start.targets = LastBearers(rows)
  OBVIOUS
<1> HIDE DEF start
<1>5. PICK h : OverlayRun(h, rows, tierOf, start, promoted)
  BY <1>3, OverlaySteps
<1>6. /\ h \in [0..n -> OverlayState(rows)]
      /\ h[0] = start /\ h[n] = Overlay(rows, tierOf, start, promoted)
      /\ \A k \in 1..n : h[k] = Turned(rows, tierOf, promoted, h[k - 1], k)
  BY <1>5 DEF OverlayRun
<1> DEFINE T == {k \in Nat : k <= n => Applied(rows, tierOf, k, h[k])}
<1>7. 0 \in T
  <2>1. \A i : Upgrades(rows, i, 0) = {}
    BY DEF Upgrades
  <2>2. \A i : ~Upgraded(rows, i, 0)
    BY <2>1 DEF Upgraded
  <2>3. TiersAfter(rows, tierOf, 0) = tierOf
    BY <2>2 DEF TiersAfter, TierAfter
  <2> QED BY <1>4, <1>6, <2>2, <2>3, OneBearer DEF Applied
<1>8. ASSUME NEW k \in Nat, k \in T PROVE k + 1 \in T
  <2> SUFFICES ASSUME k + 1 <= n PROVE Applied(rows, tierOf, k + 1, h[k + 1])
    OBVIOUS
  <2>1. k + 1 \in 1..n /\ k \in 0..n /\ (k + 1) - 1 = k /\ k + 1 \in DOMAIN rows
    BY <1>1
  <2>2. Applied(rows, tierOf, k, h[k]) /\ h[k] \in OverlayState(rows)
    <3>1. Applied(rows, tierOf, k, h[k])
      BY <1>1, <1>8, <2>1
    <3>2. h[k] \in OverlayState(rows)
      BY <1>6, <2>1
    <3> QED BY <3>1, <3>2
  <2>3. h[k + 1] = Turned(rows, tierOf, Promotions(rows), h[k], k + 1)
    BY <1>6, <2>1
  <2> QED BY <2>1, <2>2, <2>3, AppliedGrows
<1>9. Applied(rows, tierOf, n, h[n])
  <2> HIDE DEF T
  <2>1. Nat \subseteq T
    BY <1>7, <1>8, SetInduction
  <2> USE DEF T
  <2> QED BY <1>1, <2>1
<1> QED BY <1>6, <1>9 DEF Overlaid, Applied, start

\* The private breakdown of a log that verifies is what strangers compute, and what the project
\* promises.
LEMMA PrivateIsPublic ==
  ASSUME NEW rows \in Seq(LogRow), IdsUnique(rows), Portable(rows)
  PROVE  /\ Breakdown(rows) = PublicTiers(rows)
         /\ Breakdown(rows) = Sums(rows, [i \in DOMAIN rows |-> FinalTier(rows, i)])
         /\ \A t \in Tier : Breakdown(rows)[t] >= 0
<1> DEFINE tierOf == [i \in DOMAIN rows |-> rows[i].tier]
           n == Len(rows)
<1>1. n \in Nat /\ DOMAIN rows = 1..n
  OBVIOUS
<1>2. tierOf \in [DOMAIN rows -> Tier]
  <2> SUFFICES ASSUME NEW i \in DOMAIN rows PROVE rows[i].tier \in Tier
    OBVIOUS
  <2>1. rows[i] \in LogRow
    OBVIOUS
  <2> QED BY <2>1, RowFields
<1>3. PublicTierOf(rows) = tierOf
  BY DEF PublicTierOf, Portable
<1>4. Breakdown(rows) = Overlaid(rows, tierOf, LastBearers(rows))
  BY OneBearer DEF Breakdown
<1>5. Breakdown(rows) = PublicTiers(rows)
  BY <1>3, <1>4 DEF PublicTiers
<1>6. Breakdown(rows) = Sums(rows, TiersAfter(rows, tierOf, n))
  <2> HIDE DEF tierOf
  <2> QED BY <1>2, <1>4, OverlayApplied
<1>7. \A i \in DOMAIN rows : TierAfter(rows, tierOf, i, n) = FinalTier(rows, i)
  BY <1>1 DEF TierAfter, Upgraded, Upgrades, FinalTier
<1>8. TiersAfter(rows, tierOf, n) = [i \in DOMAIN rows |-> FinalTier(rows, i)]
  BY <1>7 DEF TiersAfter
<1>9. \A t \in Tier : Sums(rows, TiersAfter(rows, tierOf, n))[t] >= 0
  BY SumsTyped
<1> HIDE DEF tierOf
<1> QED BY <1>5, <1>6, <1>8, <1>9

LEMMA InvariantSurfacesAgree ==
  ASSUME LogInvariant
  PROVE  SurfacesAgree
<1> SUFFICES ASSUME VerifyChain(log), Portable(log)
             PROVE  /\ Accepts(Attest(log)) /\ StrangerAccepts(Attest(log))
                    /\ Breakdown(log) = Sums(log, [i \in DOMAIN log |-> FinalTier(log, i)])
  BY DEF SurfacesAgree
<1>1. log \in Seq(LogRow)
  BY DEF LogInvariant, Alike
<1>2. /\ \A i \in DOMAIN log : Priced(log[i])
      /\ Linked(log) /\ NeverDowngraded(log) /\ IdsUnique(log)
  BY DEF VerifyChain
<1>3. /\ Breakdown(log) = PublicTiers(log)
      /\ Breakdown(log) = Sums(log, [i \in DOMAIN log |-> FinalTier(log, i)])
      /\ \A t \in Tier : Breakdown(log)[t] >= 0
  BY <1>1, <1>2, PrivateIsPublic
<1> DEFINE doc == Attest(log)
<1>4. /\ doc.links = log /\ doc.receipts = Len(log) /\ doc.total = Total(log)
      /\ doc.head = HeadOf(log) /\ doc.tiers = Breakdown(log)
      /\ doc.anchored = AnchoredSum(Breakdown(log))
      /\ doc.self = Breakdown(log)[SelfReported]
      /\ doc.floor = FloorOf(AnchoredSum(Breakdown(log)), Total(log))
      /\ (doc.valid <=> NeverDowngraded(log) /\ Linked(log) /\ IdsUnique(log))
  BY DEF Attest
<1> HIDE DEF doc
<1>5. EnvelopeHolds(doc)
  BY <1>2, <1>4 DEF EnvelopeHolds
<1>6. LinksHold(doc.links)
  BY <1>2, <1>4 DEF LinksHold, Portable
<1>7. TotalsHold(doc)
  BY <1>4 DEF TotalsHold
<1>8. VeracityHolds(doc)
  BY <1>3, <1>4 DEF VeracityHolds
<1>9. Accepts(doc)
  BY <1>5, <1>6, <1>7, <1>8 DEF Accepts
<1>10. StrangerAccepts(doc)
  BY <1>1, <1>4, <1>9, OneVerdict
<1> QED BY <1>3, <1>9, <1>10 DEF doc

-----------------------------------------------------------------------------
(* What the head of a log binds *)

\* Rows that agree in what their formats publish.
Public(a, b) ==
  /\ a.version >= 4 <=> b.version >= 4
  /\ a.version >= 4 =>
       /\ a.version = b.version /\ a.tokens = b.tokens /\ a.tier = b.tier
       /\ a.kry = b.kry /\ a.supersedes = b.supersedes
  /\ HashBound(a) => a.id = b.id

LEMMA CoversPublic ==
  ASSUME NEW a \in LogRow, NEW b \in LogRow, Covered(a) = Covered(b)
  PROVE  Public(a, b)
<1> DEFINE fields(r) == <<r.version, r.tokens, r.tier, r.kry, r.supersedes>>
           name(r) == IF r.version >= 6 THEN <<r.id>> ELSE << >>
<1>1. a.version \in Nat /\ b.version \in Nat
  BY RowFields
<1>2. Len(Covered(a)) = Len(Covered(b))
  OBVIOUS
<1>3. \A r \in LogRow : Len(Covered(r)) = IF r.version >= 4 THEN 2 ELSE 1
  BY DEF Covered
<1>4. a.version >= 4 <=> b.version >= 4
  BY <1>2, <1>3
<1>5. CASE a.version >= 4
  <2>1. Covered(a)[2] = Block(a) /\ Covered(b)[2] = Block(b)
    BY <1>4, <1>5 DEF Covered
  <2>2. Block(a) = Block(b)
    BY <2>1
  <2>3. ASSUME NEW r \in LogRow
        PROVE  /\ Block(r)[1] = r.version /\ Block(r)[2] = r.tokens /\ Block(r)[3] = r.tier
               /\ Block(r)[4] = r.kry /\ Block(r)[5] = r.supersedes
               /\ HashBound(r) => Block(r)[6] = r.id
    <3>1. /\ r.version \in Cell /\ r.id \in Cell /\ r.tier \in Cell /\ r.tokens \in Cell
          /\ r.kry \in Cell /\ r.supersedes \in Cell
      BY RowFields DEF Cell
    <3> HIDE DEF Cell
    <3>2. fields(r) \in Seq(Cell) /\ name(r) \in Seq(Cell) /\ Len(fields(r)) = 5
      BY <3>1
    <3>3. Block(r) = fields(r) \o name(r)
      BY DEF Block
    <3>4. Len(name(r)) = IF HashBound(r) THEN 1 ELSE 0
      BY DEF HashBound
    <3>5. /\ fields(r)[1] = r.version /\ fields(r)[2] = r.tokens /\ fields(r)[3] = r.tier
          /\ fields(r)[4] = r.kry /\ fields(r)[5] = r.supersedes
          /\ HashBound(r) => name(r)[1] = r.id
      BY DEF HashBound
    <3> HIDE DEF fields, name
    <3>6. \A i \in 1..(Len(fields(r)) + Len(name(r))) :
            Block(r)[i] = IF i <= Len(fields(r)) THEN fields(r)[i]
                          ELSE name(r)[i - Len(fields(r))]
      <4>1. ASSUME NEW s \in Seq(Cell), NEW u \in Seq(Cell)
            PROVE  \A i \in 1..(Len(s) + Len(u)) :
                     (s \o u)[i] = IF i <= Len(s) THEN s[i] ELSE u[i - Len(s)]
        BY ConcatProperties
      <4> QED BY <3>2, <3>3, <4>1
    <3> QED BY <3>2, <3>4, <3>5, <3>6
  <2> HIDE DEF fields, name
  <2>4. /\ a.version = b.version /\ a.tokens = b.tokens /\ a.tier = b.tier
        /\ a.kry = b.kry /\ a.supersedes = b.supersedes
    BY <2>2, <2>3
  <2>5. HashBound(a) => a.id = b.id
    BY <2>2, <2>3, <2>4 DEF HashBound
  <2> QED BY <1>4, <2>4, <2>5 DEF Public
<1>6. CASE ~(a.version >= 4)
  BY <1>1, <1>4, <1>6 DEF Public, HashBound
<1> QED BY <1>5, <1>6

\* From a row with a bound id on, two such logs are the same to the overlay.
LEMMA BoundAlike ==
  ASSUME NEW a \in Seq(LogRow), NEW b \in Seq(LogRow), Len(a) = Len(b),
         \A i \in DOMAIN a : Public(a[i], b[i]), NeverDowngraded(a),
         NEW i \in DOMAIN a, NEW j \in DOMAIN a, i <= j, HashBound(a[i]) \/ HashBound(b[i])
  PROVE  /\ HashBound(a[j]) /\ HashBound(b[j])
         /\ a[j].id = b[j].id /\ a[j].tier = b[j].tier /\ a[j].kry = b[j].kry
         /\ a[j].supersedes = b[j].supersedes
<1>1. a[i] \in LogRow /\ a[j] \in LogRow /\ b[i] \in LogRow /\ b[j] \in LogRow
      /\ DOMAIN a = 1..Len(a) /\ DOMAIN b = 1..Len(a) /\ Len(a) \in Nat
  OBVIOUS
<1>2. /\ a[i].version \in Nat /\ a[j].version \in Nat
      /\ b[i].version \in Nat /\ b[j].version \in Nat
  BY <1>1, RowFields
<1>3. Public(a[i], b[i]) /\ Public(a[j], b[j])
  OBVIOUS
<1>4. a[i].version >= 6
  BY <1>2, <1>3 DEF Public, HashBound
<1>5. a[i].version <= a[j].version
  <2>1. i < j => a[i].version <= a[j].version
    BY DEF NeverDowngraded
  <2> QED BY <1>1, <1>2, <2>1
<1>6. a[j].version >= 6
  BY <1>2, <1>4, <1>5
<1> QED BY <1>2, <1>3, <1>6 DEF Public, HashBound

LEMMA UniqueToo ==
  ASSUME NEW a \in Seq(LogRow), NEW b \in Seq(LogRow), Len(a) = Len(b),
         \A i \in DOMAIN a : Public(a[i], b[i]), NeverDowngraded(a), IdsUnique(a)
  PROVE  IdsUnique(b)
<1>1. DOMAIN a = DOMAIN b /\ DOMAIN a = 1..Len(a) /\ Len(a) \in Nat
  OBVIOUS
<1>2. ASSUME NEW i \in DOMAIN a, HashBound(b[i])
      PROVE  HashBound(a[i]) /\ a[i].id = b[i].id
  <2>1. i <= i
    BY <1>1
  <2> QED BY <1>2, <2>1, BoundAlike
<1> SUFFICES ASSUME NEW i \in DOMAIN b, NEW j \in DOMAIN b,
                    HashBound(b[i]) /\ HashBound(b[j]) /\ b[i].id = b[j].id
             PROVE  i = j
  BY DEF IdsUnique
<1>3. HashBound(a[i]) /\ HashBound(a[j]) /\ a[i].id = a[j].id
  BY <1>1, <1>2
<1> QED BY <1>1, <1>3 DEF IdsUnique

\* Where one such log ends with an anchored tier, so does the other, with the same value.
LEMMA AnchoredAlike ==
  ASSUME NEW a \in Seq(LogRow), NEW b \in Seq(LogRow), Len(a) = Len(b),
         \A i \in DOMAIN a : Public(a[i], b[i]), NeverDowngraded(a),
         NEW i \in DOMAIN a, NEW t \in Anchored
  PROVE  LET p == TierAfter(a, PublicTierOf(a), i, Len(a))
             q == TierAfter(b, PublicTierOf(b), i, Len(b))
         IN  (p = t <=> q = t) /\ (p = t => a[i].kry = b[i].kry)
<1> DEFINE n == Len(a)
           p == TierAfter(a, PublicTierOf(a), i, n)
           q == TierAfter(b, PublicTierOf(b), i, n)
<1>1. DOMAIN a = 1..n /\ DOMAIN b = 1..n /\ n \in Nat /\ i \in Nat
  OBVIOUS
<1>2. PublicTierOf(a)[i] = PublicTier(a[i]) /\ PublicTierOf(b)[i] = PublicTier(b[i])
  BY <1>1 DEF PublicTierOf
<1>3. Public(a[i], b[i]) /\ a[i] \in LogRow /\ b[i] \in LogRow
  BY <1>1
<1>4. t # SelfReported
  BY DEF Anchored
<1>5. CASE ~HashBound(a[i]) /\ ~HashBound(b[i])
  <2>1. p = PublicTier(a[i]) /\ q = PublicTier(b[i])
    BY <1>2, <1>5 DEF TierAfter, Upgraded
  <2>2. a[i].version \in Nat /\ b[i].version \in Nat
    BY <1>3, RowFields
  <2> QED BY <1>3, <1>4, <2>1, <2>2 DEF PublicTier, Public
<1>6. CASE HashBound(a[i]) \/ HashBound(b[i])
  <2>1. ASSUME NEW j \in DOMAIN a, i <= j
        PROVE  /\ HashBound(a[j]) /\ HashBound(b[j])
               /\ a[j].id = b[j].id /\ a[j].tier = b[j].tier /\ a[j].kry = b[j].kry
               /\ a[j].supersedes = b[j].supersedes
    BY <1>6, <2>1, BoundAlike
  <2>2. HashBound(a[i]) /\ HashBound(b[i]) /\ a[i].id = b[i].id /\ a[i].kry = b[i].kry
        /\ a[i].tier = b[i].tier
    BY <1>1, <2>1
  <2>3. ASSUME NEW j \in 1..n, j > i
        PROVE  /\ Promotes(a[j]) <=> Promotes(b[j])
               /\ a[j].supersedes = a[i].id <=> b[j].supersedes = b[i].id
               /\ a[j].tier = b[j].tier
    <3>1. j \in DOMAIN a /\ i <= j
      BY <1>1, <2>3
    <3> QED BY <2>1, <2>2, <3>1 DEF Promotes
  <2>4. Upgrades(a, i, n) = Upgrades(b, i, n)
    BY <2>3 DEF Upgrades
  <2> DEFINE U == Upgrades(a, i, n)
             m == Min(U)
  <2>5. Upgraded(a, i, n) <=> Upgraded(b, i, n)
    BY <2>2, <2>4 DEF Upgraded
  <2>6. ASSUME U # {} PROVE a[m].tier = b[m].tier
    <3>1. U \in SUBSET (1..n) /\ \A j \in U : j > i
      BY DEF Upgrades
    <3> HIDE DEF U
    <3>2. m \in U
      BY <1>1, <2>6, <3>1, MinChosen
    <3> HIDE DEF m
    <3> QED BY <2>3, <3>1, <3>2
  <2>7. PublicTier(a[i]) = PublicTier(b[i])
    <3>1. a[i].version \in Nat /\ b[i].version \in Nat
      BY <1>3, RowFields
    <3> QED BY <2>2, <3>1 DEF PublicTier, HashBound
  <2>8. p = q
    <3>1. CASE Upgraded(a, i, n)
      <4>1. U # {}
        BY <3>1 DEF Upgraded
      <4> QED BY <2>4, <2>5, <2>6, <3>1, <4>1 DEF TierAfter
    <3>2. CASE ~Upgraded(a, i, n)
      BY <1>2, <2>5, <2>7, <3>2 DEF TierAfter
    <3> QED BY <3>1, <3>2
  <2> QED BY <2>2, <2>8
<1> QED BY <1>5, <1>6

LEMMA PublicTyped ==
  ASSUME NEW rows \in Seq(LogRow)
  PROVE  PublicTierOf(rows) \in [DOMAIN rows -> Tier]
<1>1. SelfReported \in Tier
  BY TierAssumption
<1>2. ASSUME NEW i \in DOMAIN rows PROVE PublicTier(rows[i]) \in Tier
  <2>1. rows[i] \in LogRow
    OBVIOUS
  <2> QED BY <1>1, <2>1, RowFields DEF PublicTier
<1> QED BY <1>2 DEF PublicTierOf

LEMMA SumsAlike ==
  ASSUME NEW a \in Seq(LogRow), NEW b \in Seq(LogRow), Len(a) = Len(b),
         \A i \in DOMAIN a : Public(a[i], b[i]), NeverDowngraded(a), IdsUnique(a),
         NEW t \in Anchored
  PROVE  PublicTiers(a)[t] = PublicTiers(b)[t]
<1> DEFINE n == Len(a)
           p == TiersAfter(a, PublicTierOf(a), n)
           q == TiersAfter(b, PublicTierOf(b), n)
           P == {i \in DOMAIN a : p[i] = t}
           Q == {i \in DOMAIN b : q[i] = t}
           f == [i \in DOMAIN a |-> a[i].kry]
           g == [i \in DOMAIN b |-> b[i].kry]
<1>1. DOMAIN a = 1..n /\ DOMAIN b = 1..n /\ n \in Nat
  OBVIOUS
<1>2. PublicTiers(a) = Sums(a, p)
  BY PublicTyped, OverlayApplied DEF PublicTiers
<1>3. PublicTiers(b) = Sums(b, q)
  <2>1. IdsUnique(b)
    BY UniqueToo
  <2> QED BY <2>1, PublicTyped, OverlayApplied DEF PublicTiers
<1>4. t \in Tier
  BY DEF Anchored
<1>5. \A i \in DOMAIN a :
        /\ p[i] = TierAfter(a, PublicTierOf(a), i, n)
        /\ q[i] = TierAfter(b, PublicTierOf(b), i, n)
  BY <1>1 DEF TiersAfter
<1>6. \A i \in DOMAIN a : (p[i] = t <=> q[i] = t) /\ (p[i] = t => a[i].kry = b[i].kry)
  BY <1>5, AnchoredAlike
<1> HIDE DEF p, q
<1>7. P = Q
  BY <1>1, <1>6
<1>8. \A i \in P : f[i] = g[i]
  BY <1>1, <1>6
<1>9. IsFiniteSet(P)
  <2>1. IsFiniteSet(1..n) /\ P \subseteq 1..n
    BY <1>1, FS_Interval
  <2> HIDE DEF P
  <2> QED BY <2>1, FS_Subset
<1>10. Sums(a, p)[t] = SumFunctionOnSet(f, P) /\ Sums(b, q)[t] = SumFunctionOnSet(g, Q)
  BY <1>4 DEF Sums, Worth
<1> HIDE DEF P, Q, f, g
<1>11. SumFunctionOnSet(f, P) = SumFunctionOnSet(g, P)
  BY <1>8, <1>9, SumSame
<1> QED BY <1>2, <1>3, <1>7, <1>10, <1>11

LEMMA InvariantHeadBinds ==
  ASSUME LogInvariant
  PROVE  HeadBindsAnchored
<1> SUFFICES ASSUME Accepts(Attest(log)), NEW t \in Anchored
             PROVE  PublicTiers(log)[t] = PublicTiers(minted)[t]
  BY DEF HeadBindsAnchored
<1>1. /\ log \in Seq(LogRow) /\ minted \in Seq(LogRow) /\ Len(log) = Len(minted)
      /\ Linked(minted) /\ \A i \in 1..Len(log) : log[i].chain = minted[i].chain
  BY DEF LogInvariant, Alike, Sealed
<1>2. NeverDowngraded(log) /\ Linked(log) /\ IdsUnique(log)
  <2>1. Attest(log).links = log
    BY DEF Attest
  <2>2. LinksHold(log)
    BY <2>1 DEF Accepts
  <2> QED BY <2>2 DEF LinksHold
<1>3. ASSUME NEW i \in DOMAIN log PROVE Public(log[i], minted[i])
  <2>1. i \in 1..Len(log) /\ i \in 1..Len(minted) /\ i \in 1..i
        /\ log[i] \in LogRow /\ minted[i] \in LogRow
    BY <1>1
  <2>2. \A k \in 1..i : Covered(log[k]) = Covered(minted[k])
    BY <1>1, <1>2, <2>1, SameHead
  <2> QED BY <2>1, <2>2, CoversPublic
<1> QED BY <1>1, <1>2, <1>3, SumsAlike

-----------------------------------------------------------------------------
(* The anchor *)

\* A linked log with the anchored head has the anchored rows, in all their format binds.
LEMMA AnchoredRows ==
  ASSUME LogInvariant, Linked(log), anchor.count <= Len(log),
         HeadOf(SubSeq(log, 1, anchor.count)) = anchor.chain
  PROVE  /\ anchor.count \in Nat /\ anchor.count = Len(pinned)
         /\ \A i \in 1..anchor.count : Covered(log[i]) = Covered(pinned[i])
<1>1. /\ log \in Seq(LogRow) /\ pinned \in Seq(LogRow) /\ Linked(pinned)
      /\ Len(pinned) \in Nat /\ Len(log) \in Nat
      /\ anchor.count = Len(pinned) /\ anchor.chain = HeadOf(pinned)
  BY DEF LogInvariant, Alike, Exported, Sealed
<1> DEFINE n == Len(pinned)
<1>2. CASE n = 0
  BY <1>1, <1>2
<1>3. CASE n # 0
  <2>1. n \in 1..Len(log) /\ n \in 1..Len(pinned) /\ n \in 0..Len(log)
    BY <1>1, <1>3
  <2>2. log[n].chain = pinned[n].chain
    <3>1. HeadOf(SubSeq(log, 1, n)) = log[n].chain
      BY <1>1, <1>3, <2>1, HeadOfPrefix
    <3>2. HeadOf(pinned) = pinned[n].chain
      BY <1>1, <1>3, HeadTyped
    <3> QED BY <1>1, <3>1, <3>2
  <2> QED BY <1>1, <2>1, <2>2, SameHead
<1> QED BY <1>2, <1>3

\* Nobody touched the files: the chain verifies and the anchor is met.
LEMMA UntouchedMatches ==
  ASSUME LogInvariant, changes = 0
  PROVE  /\ MatchesAnchor(log)
         /\ anchor.count <= Len(log)
         /\ HeadOf(SubSeq(log, 1, anchor.count)) = anchor.chain
<1>1. /\ Untouched /\ Sealed(log) /\ log \in Seq(LogRow) /\ Len(log) \in Nat
      /\ DOMAIN log = 1..Len(log)
  BY DEF LogInvariant, Alike, Untouched
<1>2. ASSUME NEW i \in 1..Len(log) PROVE log[i].version \in Nat
  <2>1. log[i] \in LogRow
    BY <1>1
  <2> QED BY <2>1, RowFields
<1>3. NeverDowngraded(log)
  <2> SUFFICES ASSUME NEW i \in DOMAIN log, NEW j \in DOMAIN log, i < j
               PROVE  log[i].version <= log[j].version
    BY DEF NeverDowngraded
  <2>1. j > 1 /\ i \in 1..Len(log) /\ j \in 1..Len(log)
    BY <1>1
  <2> QED BY <1>1, <2>1 DEF Untouched
<1>4. IdsUnique(log)
  BY <1>1 DEF Untouched, IdsUnique
<1>5. CheckpointHolds(log)
  <2>1. tip.count <= Len(log) /\ (tip.count = Len(log) => tip.chain = HeadOf(log))
    BY <1>1 DEF Untouched
  <2> QED BY <2>1 DEF CheckpointHolds
<1>6. VerifyChain(log)
  BY <1>1, <1>3, <1>4, <1>5 DEF VerifyChain, Untouched, Sealed
<1>7. /\ pinned \in Seq(LogRow) /\ anchor.count = Len(pinned) /\ Len(pinned) \in Nat
      /\ anchor.chain = HeadOf(pinned)
  BY DEF LogInvariant, Exported, Sealed
<1>8. Len(pinned) <= Len(log) /\ \A i \in 1..Len(pinned) : pinned[i] = log[i]
  BY <1>1 DEF Untouched
<1>9. HeadOf(SubSeq(log, 1, anchor.count)) = anchor.chain
  <2> DEFINE n == Len(pinned)
  <2>1. n \in 0..Len(log)
    BY <1>1, <1>7, <1>8
  <2>2. HeadOf(SubSeq(log, 1, n)) = IF n = 0 THEN << >> ELSE log[n].chain
    BY <1>1, <2>1, HeadOfPrefix
  <2>3. HeadOf(pinned) = IF n = 0 THEN << >> ELSE pinned[n].chain
    BY <1>7, HeadTyped
  <2>4. n # 0 => n \in 1..n
    BY <1>7
  <2> QED BY <1>7, <1>8, <2>2, <2>3, <2>4
<1> QED BY <1>6, <1>7, <1>8, <1>9 DEF MatchesAnchor

LEMMA InvariantAnchorPins ==
  ASSUME LogInvariant
  PROVE  AnchorPins
<1>1. Attest(log).links = log
  BY DEF Attest
<1>2. changes = 0 => MatchesAnchor(log) /\ StrangerAnchored(Attest(log))
  <2>1. StrangerAnchored(Attest(log))
          <=> /\ anchor.count <= Len(log)
              /\ HeadOf(SubSeq(log, 1, anchor.count)) = anchor.chain
    BY <1>1 DEF StrangerAnchored
  <2> QED BY <2>1, UntouchedMatches
<1>3. ASSUME MatchesAnchor(log), NEW i \in 1..anchor.count
      PROVE  /\ ReceiptOf(log[i]) = ReceiptOf(pinned[i])
             /\ Covered(log[i]) = Covered(pinned[i])
  <2>1. VerifyChain(log) /\ anchor.count <= Len(log)
        /\ HeadOf(SubSeq(log, 1, anchor.count)) = anchor.chain
    BY <1>3 DEF MatchesAnchor
  <2>2. Linked(log) /\ \A k \in DOMAIN log : log[k].receipt = ReceiptOf(log[k])
    BY <2>1 DEF VerifyChain
  <2>3. Covered(log[i]) = Covered(pinned[i]) /\ i \in 1..Len(pinned)
        /\ anchor.count \in Nat
    BY <2>1, <2>2, AnchoredRows
  <2>4. log[i].receipt = pinned[i].receipt
    BY <2>3, CoversReceipt
  <2>5. i \in DOMAIN log
    BY <2>1, <2>3 DEF LogInvariant, Alike
  <2>6. pinned[i].receipt = ReceiptOf(pinned[i])
    BY <2>3 DEF LogInvariant, Exported, Sealed
  <2> QED BY <2>2, <2>3, <2>4, <2>5, <2>6
<1>4. ASSUME StrangerVerdict(Attest(log))
      PROVE  \A i \in 1..anchor.count : Covered(log[i]) = Covered(pinned[i])
  <2>1. StrangerAccepts(Attest(log)) /\ anchor.count <= Len(log)
        /\ HeadOf(SubSeq(log, 1, anchor.count)) = anchor.chain
    BY <1>1, <1>4 DEF StrangerVerdict, StrangerAnchored
  <2>2. Scanned(log).ok
    BY <1>1, <2>1 DEF StrangerAccepts
  <2>3. Linked(log)
    BY <2>2, ScannedLinked DEF LogInvariant, Alike
  <2> QED BY <2>1, <2>3, AnchoredRows
<1> QED BY <1>2, <1>3, <1>4 DEF AnchorPins

\* A log that is left alone passes its published anchor.  A log that passes it, or an attestation
\* the standalone verifier passes with it, has the rows the anchor was exported over, in all that
\* their formats bind: for every number of receipts, rewrites, second mintings and roll-backs
\* (verify_chain_against_anchor, verify_attestation_against_anchor).
THEOREM AnchorHolds == AttestationSpec => []AnchorPins
<1>1. AttestationInit => LogInvariant
  BY InitialLog
<1>2. LogInvariant /\ [AttestationNext]_attestationVars => LogInvariant'
  BY LogStep
<1>3. LogInvariant => AnchorPins
  BY InvariantAnchorPins
<1> QED BY <1>1, <1>2, <1>3, PTL DEF AttestationSpec

\* The verifier of the package and the standalone one give one verdict on every document an issuer
\* may make of a log, with right or wrong claims, whatever was minted, rewritten, minted again or
\* rolled back: the one pass of the standalone verifier asks what the other asks of all pairs of
\* rows (kry_attest.verify_attestation, scripts/kry_verify.py).
THEOREM VerifiersGiveOneVerdict == AttestationSpec => []VerifiersAgree
<1>1. AttestationInit => LogInvariant
  BY InitialLog
<1>2. LogInvariant /\ [AttestationNext]_attestationVars => LogInvariant'
  BY LogStep
<1>3. LogInvariant => VerifiersAgree
  BY InvariantVerifiersAgree
<1> QED BY <1>1, <1>2, <1>3, PTL DEF AttestationSpec

\* A log verify_chain passes, of formats both sides have rules for, makes an attestation both
\* verifiers accept, and its tiers hold every value once, at the tier of the first promotion of its
\* row (_apply_promotion_overlay).
THEOREM SurfacesGiveOneBreakdown == AttestationSpec => []SurfacesAgree
<1>1. AttestationInit => LogInvariant
  BY InitialLog
<1>2. LogInvariant /\ [AttestationNext]_attestationVars => LogInvariant'
  BY LogStep
<1>3. LogInvariant => SurfacesAgree
  BY InvariantSurfacesAgree
<1> QED BY <1>1, <1>2, <1>3, PTL DEF AttestationSpec

\* What an accepted attestation credits to the anchored tiers is what was minted under its head,
\* whatever fields that old formats leave unbound were rewritten (verify_attestation).
THEOREM HeadBinds == AttestationSpec => []HeadBindsAnchored
<1>1. AttestationInit => LogInvariant
  BY InitialLog
<1>2. LogInvariant /\ [AttestationNext]_attestationVars => LogInvariant'
  BY LogStep
<1>3. LogInvariant => HeadBindsAnchored
  BY InvariantHeadBinds
<1> QED BY <1>1, <1>2, <1>3, PTL DEF AttestationSpec
=============================================================================
