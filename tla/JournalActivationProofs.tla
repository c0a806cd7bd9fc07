----------------------- MODULE JournalActivationProofs -----------------------
(***************************************************************************)
(* Proofs about JournalActivation, for any number of keyed debits,         *)
(* attempts, debits without an id and faults: what can be read has every   *)
(* debit once, what power may leave has a complete copy of it, and an      *)
(* attempt has one outcome.                                                *)
(*                                                                         *)
(* The invariant has two halves.  The first speaks of the two directories  *)
(* whoever is at work, and holds of every mixture of them: an unfenced     *)
(* legacy file is exact, a journal behind a fence is exact, and a fence    *)
(* whose journal may be lost has an exact backup.  The second says how far *)
(* the holder of the lock is, and what is in the directories by then.      *)
(***************************************************************************)
EXTENDS JournalActivation, FiniteSetTheorems, SequenceTheorems, TLAPS

-----------------------------------------------------------------------------
(* Types *)

Directory ==
  [legacy : Accounting \cup {Absent, Tombstone}, journal : Journal \cup {Absent},
   backup : Accounting \cup {Absent}, sentinel : Attempts \cup {0},
   intent : Intent \cup {Absent}, plan : Plan \cup {Absent}, archived : SUBSET Archive]

Typed ==
  /\ view \in Directory /\ disk \in Directory
  /\ job \in Job
  /\ told \subseteq Op /\ unkeyed \in Nat /\ attempts \in Nat

-----------------------------------------------------------------------------
(* The accounting in the directory *)

AccountOf(l) == IF l = Absent THEN Empty ELSE l

\* The accounting has every debit once, and every one a caller was told of.
Exact(a) ==
  /\ IsFiniteSet(a.ops) /\ a.spent = unkeyed + Cardinality(a.ops)
  /\ told \subseteq a.ops

\* A legacy file records no ids.
LegacyExact(l) == Exact(AccountOf(l)) /\ AccountOf(l).ops = {}

\* The candidate of an attempt is its original and one keyed debit.
IntentHolds(i) ==
  /\ AccountOf(i.original).ops = {}
  /\ i.candidate.spent = AccountOf(i.original).spent + 1
  /\ \E o \in Op : i.candidate.ops = {o}

\* What holds of the two directories whoever is at work, for every mixture of
\* them that a power failure may leave.
LegacyInv ==
  /\ disk.legacy = Tombstone => view.legacy = Tombstone
  /\ view.legacy # Tombstone => LegacyExact(view.legacy)
  /\ disk.legacy # Tombstone => LegacyExact(disk.legacy)

JournalInv ==
  /\ disk.journal \in {Absent, view.journal}
  /\ view.legacy = Tombstone /\ view.journal # Absent => Exact(view.journal.accounting)
  /\ view.legacy = Tombstone /\ view.journal # Absent /\ view.intent = Absent =>
       disk.legacy = Tombstone /\ disk.journal # Absent

\* A fenced legacy file whose journal may be lost has its backup.
BackupInv ==
  /\ view.journal # Absent => disk.backup = view.backup
  /\ view.legacy = Tombstone /\ disk.journal = Absent =>
       Exact(AccountOf(view.backup)) /\ Exact(AccountOf(disk.backup))

IntentInv ==
  \A d \in {view, disk} : d.intent # Absent =>
    IntentHolds(d.intent) /\ d.intent.attempt <= attempts

\* An attempt that was resolved never has the journal.
ArchiveInv ==
  /\ \A d \in {view, disk} : d.plan # Absent => d.plan.intent.attempt <= attempts
  /\ \A d \in {view, disk}, a \in Attempts :
       /\ \A kind \in {"legacy", "intent", "backup", "resolution"} :
            <<a, kind>> \in d.archived => a <= attempts
       /\ <<a, "resolution">> \in d.archived =>
            view.journal = Absent \/ view.journal.attempt # a

-----------------------------------------------------------------------------
(* What the holder of the lock has done *)

AtIntent == ActivateSteps
AtBackup == <<"backup", "journal", "tombstone", "sentinel", "clear">>
AtJournal == <<"journal", "tombstone", "sentinel", "clear">>
AtTombstone == CompleteSteps
AtSentinel == <<"sentinel", "clear">>
AtClear == <<"clear">>

AtPlan == AbandonSteps
AtKeepLegacy == ResumeSteps
AtCopyIntent == <<"copyIntent", "clear", "copyBackup", "dropBackup", "resolution", "final",
                  "dropPlan">>
AtForget == <<"clear", "copyBackup", "dropBackup", "resolution", "final", "dropPlan">>
AtCopyBackup == <<"copyBackup", "dropBackup", "resolution", "final", "dropPlan">>
AtDropBackup == <<"dropBackup", "resolution", "final", "dropPlan">>
AtResolution == <<"resolution", "final", "dropPlan">>
AtFinal == <<"final", "dropPlan">>
AtDropPlan == <<"dropPlan">>

RecoverySteps == {AtPlan, AtKeepLegacy, AtCopyIntent, AtForget, AtCopyBackup}
                 \cup {AtDropBackup, AtResolution, AtFinal, AtDropPlan}

\* The journal is not published: the attempt is new and the legacy file is
\* the one it began with.
Unpublished ==
  /\ view.journal = Absent /\ view.legacy = job.intent.original
  /\ <<job.intent.attempt, "resolution">> \notin view.archived
  /\ <<job.intent.attempt, "resolution">> \notin disk.archived

BackedUp == view.backup = job.intent.original /\ disk.backup = job.intent.original

PublishedJournal ==
  /\ BackedUp
  /\ view.journal = [attempt |-> job.intent.attempt, accounting |-> job.intent.candidate]

Fenced == view.legacy = Tombstone

FencedForGood == Fenced /\ disk.legacy = Tombstone /\ disk.journal # Absent

ActivationInv ==
  /\ job.intent # Absent /\ IntentHolds(job.intent) /\ job.intent.attempt <= attempts
  /\ job.op # NoOp => job.intent.candidate.ops = {job.op}
  /\ \/ /\ job.steps = AtIntent /\ Unpublished
        /\ job.linked => view.intent # Absent
     \/ /\ job.steps = AtBackup /\ Unpublished /\ view.intent # Absent
        /\ job.linked => view.backup = job.intent.original
     \/ /\ job.steps = AtJournal /\ view.intent # Absent /\ BackedUp
        /\ IF job.linked THEN PublishedJournal /\ view.legacy = job.intent.original
           ELSE Unpublished
     \/ /\ job.steps = AtTombstone /\ view.intent # Absent /\ PublishedJournal
        /\ IF job.linked THEN Fenced ELSE view.legacy \in {job.intent.original, Tombstone}
     \/ job.steps = AtSentinel /\ PublishedJournal /\ FencedForGood
     \/ job.steps = AtClear /\ PublishedJournal /\ FencedForGood

RecoveryInv ==
  /\ job.intent = job.plan.intent /\ job.intent.attempt <= attempts /\ job.op = NoOp
  /\ view.journal = Absent /\ view.legacy # Tombstone
  /\ view.legacy \in {job.plan.observed, Final(job.plan)}
  /\ job.steps \in RecoverySteps

JobInv ==
  /\ Idle => job = NoJob
  /\ ~Idle /\ job.plan = Absent => ActivationInv
  /\ ~Idle /\ job.plan # Absent => RecoveryInv

Safe ==
  LegacyInv /\ JournalInv /\ BackupInv /\ IntentInv /\ ArchiveInv /\ JobInv

Inv == Typed /\ Safe

-----------------------------------------------------------------------------
(* Lemmas on the data *)

LEMMA Prepended ==
  ASSUME NEW S, NEW x \in S, NEW s \in Seq(S)
  PROVE  <<x>> \o s # <<>> /\ Head(<<x>> \o s) = x /\ Tail(<<x>> \o s) = s
<1>1. <<x>> \in Seq(S) /\ Len(<<x>>) = 1 /\ <<x>>[1] = x
  OBVIOUS
<1>2. /\ <<x>> \o s \in Seq(S) /\ Len(<<x>> \o s) = Len(s) + 1
      /\ (<<x>> \o s)[1] = x
      /\ \A i \in 1..Len(s) : (<<x>> \o s)[i+1] = s[i]
  BY <1>1, ConcatProperties
<1>3. <<x>> \o s # <<>> /\ Head(<<x>> \o s) = x /\ Tail(<<x>> \o s) \in Seq(S)
      /\ Len(Tail(<<x>> \o s)) = Len(s)
      /\ \A i \in 1..Len(s) : Tail(<<x>> \o s)[i] = s[i]
  BY <1>2
<1> QED BY <1>3, SeqEqual

LEMMA StepsTyped ==
  ActivateSteps \in Seq(Step) /\ CompleteSteps \in Seq(Step) /\ AbandonSteps \in Seq(Step)
  /\ ResumeSteps \in Seq(Step)
<1>1. ActivateSteps \in Seq(Step) /\ CompleteSteps \in Seq(Step)
  BY DEF ActivateSteps, CompleteSteps, Step
<1>2. ResumeSteps \in Seq(Step) /\ <<"plan">> \in Seq(Step)
  BY DEF ResumeSteps, Step
<1>3. AbandonSteps \in Seq(Step)
  BY <1>2, ConcatProperties DEF AbandonSteps
<1> QED  BY <1>1, <1>2, <1>3

LEMMA StepFacts ==
  /\ AtIntent # <<>> /\ Head(AtIntent) = "intent" /\ Tail(AtIntent) = AtBackup
  /\ AtBackup # <<>> /\ Head(AtBackup) = "backup" /\ Tail(AtBackup) = AtJournal
  /\ AtJournal # <<>> /\ Head(AtJournal) = "journal" /\ Tail(AtJournal) = AtTombstone
  /\ AtTombstone # <<>> /\ Head(AtTombstone) = "tombstone" /\ Tail(AtTombstone) = AtSentinel
  /\ AtSentinel # <<>> /\ Head(AtSentinel) = "sentinel" /\ Tail(AtSentinel) = AtClear
  /\ AtClear # <<>> /\ Head(AtClear) = "clear" /\ Tail(AtClear) = <<>>
BY DEF AtIntent, AtBackup, AtJournal, AtTombstone, AtSentinel, AtClear, ActivateSteps,
       CompleteSteps

LEMMA RecoveryFacts ==
  /\ AtPlan # <<>> /\ Head(AtPlan) = "plan" /\ Tail(AtPlan) = AtKeepLegacy
  /\ AtKeepLegacy # <<>> /\ Head(AtKeepLegacy) = "keepLegacy"
  /\ Tail(AtKeepLegacy) = AtCopyIntent
  /\ AtCopyIntent # <<>> /\ Head(AtCopyIntent) = "copyIntent" /\ Tail(AtCopyIntent) = AtForget
  /\ AtForget # <<>> /\ Head(AtForget) = "clear" /\ Tail(AtForget) = AtCopyBackup
  /\ AtCopyBackup # <<>> /\ Head(AtCopyBackup) = "copyBackup"
  /\ Tail(AtCopyBackup) = AtDropBackup
  /\ AtDropBackup # <<>> /\ Head(AtDropBackup) = "dropBackup"
  /\ Tail(AtDropBackup) = AtResolution
  /\ AtResolution # <<>> /\ Head(AtResolution) = "resolution" /\ Tail(AtResolution) = AtFinal
  /\ AtFinal # <<>> /\ Head(AtFinal) = "final" /\ Tail(AtFinal) = AtDropPlan
  /\ AtDropPlan # <<>> /\ Head(AtDropPlan) = "dropPlan" /\ Tail(AtDropPlan) = <<>>
<1>1. ResumeSteps \in Seq(Step) /\ "plan" \in Step
  BY StepsTyped DEF Step
<1>2. AtPlan # <<>> /\ Head(AtPlan) = "plan" /\ Tail(AtPlan) = AtKeepLegacy
  BY <1>1, Prepended DEF AtPlan, AtKeepLegacy, AbandonSteps
<1> QED
  BY <1>2 DEF AtKeepLegacy, AtCopyIntent, AtForget, AtCopyBackup, AtDropBackup, AtResolution,
              AtFinal, AtDropPlan, ResumeSteps

LEMMA Effects ==
  ASSUME NEW d
  PROVE  /\ Published("intent", d) = [d EXCEPT !.intent = job.intent]
         /\ Published("backup", d) = [d EXCEPT !.backup = job.intent.original]
         /\ Published("journal", d) =
              [d EXCEPT !.journal = [attempt |-> job.intent.attempt,
                                     accounting |-> job.intent.candidate]]
         /\ Published("tombstone", d) = [d EXCEPT !.legacy = Tombstone]
         /\ Published("sentinel", d) = [d EXCEPT !.sentinel = job.intent.attempt]
         /\ Published("clear", d) = [d EXCEPT !.intent = Absent]
         /\ Published("plan", d) = [d EXCEPT !.plan = job.plan]
         /\ Published("keepLegacy", d) =
              (IF job.plan.observed # Absent THEN Kept(d, "legacy") ELSE d)
         /\ Published("copyIntent", d) = Kept(d, "intent")
         /\ Published("copyBackup", d) = (IF job.plan.backup THEN Kept(d, "backup") ELSE d)
         /\ Published("dropBackup", d) = [d EXCEPT !.backup = Absent]
         /\ Published("resolution", d) = Kept(d, "resolution")
         /\ Published("final", d) = [d EXCEPT !.legacy = Final(job.plan)]
         /\ Published("dropPlan", d) = [d EXCEPT !.plan = Absent]
BY DEF Published

LEMMA EmptyTyped == Empty \in Accounting /\ Empty.ops = {} /\ Empty.spent = 0
  BY DEF Empty, Accounting

LEMMA DebitedTyped ==
  ASSUME NEW a \in Accounting, NEW o \in Op \cup {NoOp}
  PROVE  /\ Debited(a, o) \in Accounting
         /\ Debited(a, o).spent = a.spent + 1
         /\ Debited(a, o).ops = a.ops \cup ({o} \ {NoOp})
<1> DEFINE b == [a EXCEPT !.spent = a.spent + 1]
           c == [b EXCEPT !.ops = a.ops \cup ({o} \ {NoOp})]
<1>1. b \in Accounting /\ b.spent = a.spent + 1 /\ b.ops = a.ops
  BY DEF Accounting
<1>2. Debited(a, o) = c
  BY DEF Debited
<1> HIDE DEF b
<1>3. c \in Accounting /\ c.spent = b.spent /\ c.ops = a.ops \cup ({o} \ {NoOp})
  BY <1>1 DEF Accounting
<1> QED  BY <1>1, <1>2, <1>3

LEMMA FinalTyped ==
  ASSUME NEW plan \in Plan
  PROVE  /\ Final(plan) \in Accounting
         /\ Final(plan).spent = AccountOf(plan.observed).spent
         /\ Final(plan).ops = AccountOf(plan.observed).ops
<1>1. AccountOf(plan.observed) \in Accounting
  BY EmptyTyped DEF AccountOf, Plan
<1>2. plan.prior \cup Retained(plan) \subseteq Archive
  BY DEF Plan, Intent, Retained, Archive
<1>3. Final(plan) = [AccountOf(plan.observed) EXCEPT !.bound = plan.prior \cup Retained(plan)]
  BY DEF Final, AccountOf
<1> QED  BY <1>1, <1>2, <1>3 DEF Accounting

LEMMA ReviewTyped ==
  ASSUME Typed, NEW i \in Intent, view.legacy # Tombstone
  PROVE  /\ ReviewOf(i) \in Plan /\ ReviewOf(i).intent = i
         /\ ReviewOf(i).observed = view.legacy
  BY DEF Typed, Directory, ReviewOf, Plan

\* What is exact of an original is exact of its candidate.
LEMMA CandidateExact ==
  ASSUME Typed, NEW i \in Intent, IntentHolds(i), LegacyExact(i.original)
  PROVE  Exact(i.candidate)
<1>1. PICK o \in Op : i.candidate.ops = {o}
  BY DEF IntentHolds
<1>2. IsFiniteSet({o}) /\ Cardinality({o}) = 1
  BY FS_Singleton
<1>3. Cardinality({}) = 0
  BY FS_EmptySet
<1>4. AccountOf(i.original).spent = unkeyed /\ told = {} /\ unkeyed \in Nat
  BY <1>3 DEF LegacyExact, Exact, Typed
<1>5. i.candidate.spent = unkeyed + 1
  BY <1>4 DEF IntentHolds
<1> QED  BY <1>1, <1>2, <1>4, <1>5 DEF Exact

LEMMA JournalDebited ==
  ASSUME Typed, NEW a \in Accounting, Exact(a), NEW o \in Op \ a.ops
  PROVE  /\ IsFiniteSet(Debited(a, o).ops)
         /\ Debited(a, o).spent = unkeyed + Cardinality(Debited(a, o).ops)
         /\ told \cup {o} \subseteq Debited(a, o).ops
<1>1. Debited(a, o).ops = a.ops \cup {o} /\ Debited(a, o).spent = a.spent + 1
  BY DebitedTyped, NamesAssumption
<1>2. /\ IsFiniteSet(a.ops \cup {o}) /\ Cardinality(a.ops \cup {o}) = Cardinality(a.ops) + 1
      /\ Cardinality(a.ops) \in Nat
  BY FS_AddElement, FS_CardinalityType DEF Exact
<1> QED  BY <1>1, <1>2 DEF Exact, Typed

LEMMA UnkeyedDebited ==
  ASSUME Typed, NEW a \in Accounting, Exact(a)
  PROVE  /\ Debited(a, NoOp).ops = a.ops
         /\ Debited(a, NoOp).spent = (unkeyed + 1) + Cardinality(a.ops)
<1>1. Debited(a, NoOp).ops = a.ops /\ Debited(a, NoOp).spent = a.spent + 1
  <2>1. a.ops \cup ({NoOp} \ {NoOp}) = a.ops
    OBVIOUS
  <2> QED  BY <2>1, DebitedTyped
<1>2. Cardinality(a.ops) \in Nat
  BY FS_CardinalityType DEF Exact
<1> QED  BY <1>1, <1>2 DEF Exact, Typed

\* Readable accounting without a journal is the legacy file's.
LEMMA ReadableCases ==
  ASSUME Typed, Readable(view)
  PROVE  /\ view.intent = Absent /\ view.plan = Absent
         /\ view.journal = Absent => /\ view.legacy # Tombstone
                                     /\ Current(view) = AccountOf(view.legacy)
         /\ view.journal # Absent => /\ view.legacy = Tombstone
                                     /\ Current(view) = view.journal.accounting
                                     /\ view.journal.accounting \in Accounting
<1>1. CASE view.journal = Absent
  <2>1. view.legacy # Tombstone
    BY <1>1 DEF Readable, Fence, FenceHolds
  <2>2. Current(view) = AccountOf(view.legacy)
    <3>1. CASE view.legacy = Absent
      BY <1>1, <3>1 DEF Current, AccountOf
    <3>2. CASE view.legacy # Absent
      BY <1>1, <2>1, <3>2 DEF Current, AccountOf
    <3> QED  BY <3>1, <3>2
  <2> QED  BY <1>1, <2>1, <2>2 DEF Readable
<1>2. CASE view.journal # Absent
  <2>1. view.legacy = Tombstone
    BY <1>2 DEF Readable, Fence, FenceHolds
  <2>2. Current(view) = view.journal.accounting
    BY <1>2 DEF Current
  <2>3. view.journal \in Journal
    BY <1>2 DEF Typed, Directory
  <2> QED  BY <1>2, <2>1, <2>2, <2>3 DEF Readable, Journal
<1> QED  BY <1>1, <1>2

-----------------------------------------------------------------------------
(* What is kept when nothing it reads changes *)

SameHistory == told' = told /\ unkeyed' = unkeyed /\ attempts' = attempts

LEMMA LegacyKept ==
  ASSUME LegacyInv, SameHistory, view'.legacy = view.legacy, disk'.legacy = disk.legacy
  PROVE  LegacyInv'
BY DEF LegacyInv, LegacyExact, Exact, AccountOf, SameHistory

LEMMA JournalKept ==
  ASSUME JournalInv, SameHistory, view'.legacy = view.legacy, disk'.legacy = disk.legacy,
         view'.journal = view.journal, disk'.journal = disk.journal,
         view'.intent = view.intent
  PROVE  JournalInv'
BY DEF JournalInv, Exact, SameHistory

LEMMA BackupKept ==
  ASSUME BackupInv, SameHistory, view'.legacy = view.legacy,
         view'.journal = view.journal, disk'.journal = disk.journal,
         view'.backup = view.backup, disk'.backup = disk.backup
  PROVE  BackupInv'
BY DEF BackupInv, Exact, AccountOf, SameHistory

LEMMA IntentKept ==
  ASSUME IntentInv, SameHistory, view'.intent = view.intent, disk'.intent = disk.intent
  PROVE  IntentInv'
BY DEF IntentInv, IntentHolds, AccountOf, SameHistory

LEMMA ArchiveKept ==
  ASSUME ArchiveInv, SameHistory, view'.journal = view.journal,
         view'.plan = view.plan, disk'.plan = disk.plan,
         view'.archived = view.archived, disk'.archived = disk.archived
  PROVE  ArchiveInv'
BY DEF ArchiveInv, SameHistory

-----------------------------------------------------------------------------
(* The publications of an activation and of its completion *)

LEMMA PublishFacts ==
  ASSUME Typed, Publish
  PROVE  /\ SameHistory /\ disk' = disk
         /\ job' \in Job /\ job'.linked = TRUE /\ job'.steps = job.steps
         /\ job'.op = job.op /\ job'.intent = job.intent /\ job'.plan = job.plan
         /\ job.steps # <<>> /\ job.linked = FALSE
         /\ view' = Published(Head(job.steps), view)
<1>1. SameHistory /\ disk' = disk
  BY DEF Publish, history, SameHistory
<1>2. job' = [job EXCEPT !.linked = TRUE] /\ job \in Job
  BY DEF Publish, Typed
<1>3. /\ job' \in Job /\ job'.linked = TRUE /\ job'.steps = job.steps
      /\ job'.op = job.op /\ job'.intent = job.intent /\ job'.plan = job.plan
  BY <1>2 DEF Job
<1>4. job.linked = FALSE
  BY DEF Publish, Typed, Job
<1> QED  BY <1>1, <1>3, <1>4 DEF Publish, Idle

\* What an activation's publication keeps, whatever it is of.
LEMMA ActivationPublishes ==
  ASSUME Inv, Publish, job.plan = Absent
  PROVE  /\ SameHistory /\ disk' = disk /\ job' \in Job /\ job'.linked = TRUE
         /\ job'.steps = job.steps /\ job'.op = job.op /\ job'.intent = job.intent
         /\ job'.plan = Absent /\ job.linked = FALSE /\ job.steps # <<>>
         /\ view' = Published(Head(job.steps), view)
         /\ job.intent \in Intent /\ job'.intent # Absent /\ IntentHolds(job.intent)
         /\ job.intent.attempt <= attempts
         /\ job.op # NoOp => job.intent.candidate.ops = {job.op}
         /\ ActivationInv
<1>1. ActivationInv
  BY PublishFacts DEF Inv, Safe, JobInv, Idle
<1>2. job.intent \in Intent /\ job.intent # Absent
  BY <1>1 DEF ActivationInv, Inv, Typed, Job
<1> QED  BY <1>1, <1>2, PublishFacts DEF ActivationInv, Inv

LEMMA PublishIntent ==
  ASSUME Inv, Publish, job.plan = Absent, job.steps = AtIntent
  PROVE  Inv'
<1>1. view' = [view EXCEPT !.intent = job.intent]
  <2>1. view' = Published("intent", view)
    BY ActivationPublishes, StepFacts
  <2> QED  BY <2>1, Effects
<1>2. Unpublished
  BY ActivationPublishes, StepFacts DEF ActivationInv
<1>3. /\ view' \in Directory /\ view'.legacy = view.legacy /\ view'.journal = view.journal
      /\ view'.backup = view.backup /\ view'.intent = job.intent
      /\ view'.plan = view.plan /\ view'.archived = view.archived
  BY <1>1, ActivationPublishes DEF Inv, Typed, Directory
<1>4. Typed'
  BY <1>3, ActivationPublishes DEF Inv, Typed, SameHistory
<1>5. LegacyInv' /\ BackupInv' /\ ArchiveInv'
  BY <1>3, ActivationPublishes, LegacyKept, BackupKept, ArchiveKept DEF Inv, Safe
<1>6. JournalInv'
  BY <1>2, <1>3, ActivationPublishes DEF Inv, Safe, JournalInv, Unpublished
<1>7. IntentInv'
  BY <1>3, ActivationPublishes DEF Inv, Safe, IntentInv, SameHistory
<1>8. JobInv'
  <2>1. Unpublished'
    BY <1>2, <1>3, ActivationPublishes DEF Unpublished
  <2>2. ActivationInv'
    BY <1>3, <2>1, ActivationPublishes DEF ActivationInv, SameHistory
  <2> QED  BY <2>2, ActivationPublishes, StepFacts DEF JobInv, Idle
<1> QED  BY <1>4, <1>5, <1>6, <1>7, <1>8 DEF Inv, Safe

LEMMA PublishBackup ==
  ASSUME Inv, Publish, job.plan = Absent, job.steps = AtBackup
  PROVE  Inv'
<1>1. view' = [view EXCEPT !.backup = job.intent.original]
  <2>1. view' = Published("backup", view)
    BY ActivationPublishes, StepFacts
  <2> QED  BY <2>1, Effects
<1>2. Unpublished /\ view.intent # Absent
  BY ActivationPublishes, StepFacts DEF ActivationInv
<1>3. /\ view' \in Directory /\ view'.legacy = view.legacy /\ view'.journal = view.journal
      /\ view'.backup = job.intent.original /\ view'.intent = view.intent
      /\ view'.plan = view.plan /\ view'.archived = view.archived
  BY <1>1, ActivationPublishes DEF Inv, Typed, Directory, Intent
<1>4. Typed'
  BY <1>3, ActivationPublishes DEF Inv, Typed, SameHistory
<1>5. LegacyInv' /\ JournalInv' /\ IntentInv' /\ ArchiveInv'
  BY <1>3, ActivationPublishes, LegacyKept, JournalKept, IntentKept, ArchiveKept
     DEF Inv, Safe
<1>6. BackupInv'
  <2>1. view.legacy # Tombstone
    BY <1>2, ActivationPublishes, NamesAssumption DEF Unpublished, Intent
  <2> QED  BY <1>2, <1>3, <2>1 DEF BackupInv, Unpublished
<1>7. JobInv'
  <2>1. Unpublished'
    BY <1>2, <1>3, ActivationPublishes DEF Unpublished
  <2>2. ActivationInv'
    BY <1>2, <1>3, <2>1, ActivationPublishes DEF ActivationInv, SameHistory
  <2> QED  BY <2>2, ActivationPublishes, StepFacts DEF JobInv, Idle
<1> QED  BY <1>4, <1>5, <1>6, <1>7 DEF Inv, Safe

LEMMA PublishJournal ==
  ASSUME Inv, Publish, job.plan = Absent, job.steps = AtJournal
  PROVE  Inv'
<1> DEFINE j == [attempt |-> job.intent.attempt, accounting |-> job.intent.candidate]
<1>1. view' = [view EXCEPT !.journal = j]
  <2>1. view' = Published("journal", view)
    BY ActivationPublishes, StepFacts
  <2> QED  BY <2>1, Effects
<1>2. Unpublished /\ BackedUp /\ view.intent # Absent
  BY ActivationPublishes, StepFacts DEF ActivationInv
<1>3. j \in Journal /\ j # Absent /\ j.attempt = job.intent.attempt
  BY ActivationPublishes, NamesAssumption DEF Intent, Journal
<1> HIDE DEF j
<1>4. /\ view' \in Directory /\ view'.legacy = view.legacy /\ view'.journal = j
      /\ view'.backup = view.backup /\ view'.intent = view.intent
      /\ view'.plan = view.plan /\ view'.archived = view.archived
  BY <1>1, <1>3 DEF Inv, Typed, Directory
<1>5. view.legacy # Tombstone
  BY <1>2, ActivationPublishes, NamesAssumption DEF Unpublished, Intent
<1>6. Typed'
  BY <1>4, ActivationPublishes DEF Inv, Typed, SameHistory
<1>7. LegacyInv' /\ IntentInv'
  BY <1>4, ActivationPublishes, LegacyKept, IntentKept DEF Inv, Safe
<1>8. JournalInv'
  BY <1>2, <1>4, <1>5, ActivationPublishes DEF Inv, Safe, JournalInv, Unpublished
<1>9. BackupInv'
  BY <1>2, <1>4, <1>5, ActivationPublishes DEF BackupInv, BackedUp
<1>10. ArchiveInv'
  BY <1>2, <1>3, <1>4, ActivationPublishes DEF Inv, Safe, ArchiveInv, Unpublished, SameHistory
<1>11. JobInv'
  <2>1. PublishedJournal'
    BY <1>2, <1>4, ActivationPublishes DEF PublishedJournal, BackedUp, j
  <2>2. view'.legacy = job'.intent.original /\ view'.intent # Absent /\ BackedUp'
    BY <1>2, <1>4, <2>1, ActivationPublishes DEF Unpublished, PublishedJournal
  <2>3. ActivationInv'
    BY <2>1, <2>2, ActivationPublishes DEF ActivationInv, SameHistory
  <2> QED  BY <2>3, ActivationPublishes, StepFacts DEF JobInv, Idle
<1> QED  BY <1>6, <1>7, <1>8, <1>9, <1>10, <1>11 DEF Inv, Safe

LEMMA PublishTombstone ==
  ASSUME Inv, Publish, job.plan = Absent, job.steps = AtTombstone
  PROVE  Inv'
<1>1. view' = [view EXCEPT !.legacy = Tombstone]
  <2>1. view' = Published("tombstone", view)
    BY ActivationPublishes, StepFacts
  <2> QED  BY <2>1, Effects
<1>2. /\ PublishedJournal /\ view.intent # Absent
      /\ view.legacy \in {job.intent.original, Tombstone}
  BY ActivationPublishes, StepFacts DEF ActivationInv
<1>3. /\ view' \in Directory /\ view'.legacy = Tombstone /\ view'.journal = view.journal
      /\ view'.backup = view.backup /\ view'.intent = view.intent
      /\ view'.plan = view.plan /\ view'.archived = view.archived
  BY <1>1 DEF Inv, Typed, Directory
<1>4. Typed'
  BY <1>3, ActivationPublishes DEF Inv, Typed, SameHistory
<1>5. IntentInv' /\ ArchiveInv'
  BY <1>3, ActivationPublishes, IntentKept, ArchiveKept DEF Inv, Safe
<1>6. LegacyInv'
  BY <1>3, ActivationPublishes
     DEF Inv, Safe, LegacyInv, LegacyExact, Exact, AccountOf, SameHistory
\* What the attempt began with is still exact if it was not fenced before.
<1>7. view.legacy # Tombstone => LegacyExact(job.intent.original)
  BY <1>2 DEF Inv, Safe, LegacyInv
<1>8. JournalInv'
  <2>1. view.journal # Absent /\ view.journal.accounting = job.intent.candidate
    BY <1>2, ActivationPublishes, NamesAssumption
       DEF PublishedJournal, Intent, Journal
  <2>2. Exact(view.journal.accounting)
    <3>1. CASE view.legacy = Tombstone
      BY <2>1, <3>1 DEF Inv, Safe, JournalInv
    <3>2. CASE view.legacy # Tombstone
      BY <1>7, <2>1, <3>2, ActivationPublishes, CandidateExact DEF Inv
    <3> QED  BY <3>1, <3>2
  <2>3. Exact(view.journal.accounting)'
    BY <1>3, <2>2, ActivationPublishes DEF Exact, SameHistory
  <2> QED  BY <1>2, <1>3, <2>3, ActivationPublishes DEF Inv, Safe, JournalInv
<1>9. BackupInv'
  <2>1. view.backup = job.intent.original /\ disk.backup = job.intent.original
    BY <1>2 DEF PublishedJournal, BackedUp
  <2>2. disk.journal = Absent => Exact(AccountOf(job.intent.original))
    <3>1. CASE view.legacy = Tombstone
      BY <2>1, <3>1 DEF Inv, Safe, BackupInv
    <3>2. CASE view.legacy # Tombstone
      BY <1>7, <3>2 DEF LegacyExact
    <3> QED  BY <3>1, <3>2
  <2>3. /\ disk.journal = Absent => Exact(AccountOf(view.backup))
        /\ disk.journal = Absent => Exact(AccountOf(disk.backup))
    BY <2>1, <2>2
  <2> QED  BY <1>3, <2>1, <2>3, ActivationPublishes DEF BackupInv, Exact, AccountOf, SameHistory
<1>10. JobInv'
  <2>1. PublishedJournal'
    BY <1>2, <1>3, ActivationPublishes DEF PublishedJournal, BackedUp
  <2>2. ActivationInv'
    BY <1>2, <1>3, <2>1, ActivationPublishes DEF ActivationInv, SameHistory, Fenced
  <2> QED  BY <2>2, ActivationPublishes, StepFacts DEF JobInv, Idle
<1> QED  BY <1>4, <1>5, <1>6, <1>8, <1>9, <1>10 DEF Inv, Safe

LEMMA PublishSentinel ==
  ASSUME Inv, Publish, job.plan = Absent, job.steps = AtSentinel
  PROVE  Inv'
<1>1. view' = [view EXCEPT !.sentinel = job.intent.attempt]
  <2>1. view' = Published("sentinel", view)
    BY ActivationPublishes, StepFacts
  <2> QED  BY <2>1, Effects
<1>2. PublishedJournal /\ FencedForGood
  BY ActivationPublishes, StepFacts DEF ActivationInv
<1>3. /\ view' \in Directory /\ view'.legacy = view.legacy /\ view'.journal = view.journal
      /\ view'.backup = view.backup /\ view'.intent = view.intent
      /\ view'.plan = view.plan /\ view'.archived = view.archived
  BY <1>1, ActivationPublishes DEF Inv, Typed, Directory, Intent
<1>4. Typed'
  BY <1>3, ActivationPublishes DEF Inv, Typed, SameHistory
<1>5. LegacyInv' /\ JournalInv' /\ BackupInv' /\ IntentInv' /\ ArchiveInv'
  BY <1>3, ActivationPublishes, LegacyKept, JournalKept, BackupKept, IntentKept, ArchiveKept
     DEF Inv, Safe
<1>6. JobInv'
  <2>1. PublishedJournal' /\ FencedForGood'
    BY <1>2, <1>3, ActivationPublishes DEF PublishedJournal, BackedUp, FencedForGood, Fenced
  <2>2. ActivationInv'
    BY <2>1, ActivationPublishes DEF ActivationInv, SameHistory
  <2> QED  BY <2>2, ActivationPublishes, StepFacts DEF JobInv, Idle
<1> QED  BY <1>4, <1>5, <1>6 DEF Inv, Safe

LEMMA PublishClear ==
  ASSUME Inv, Publish, job.plan = Absent, job.steps = AtClear
  PROVE  Inv'
<1>1. view' = [view EXCEPT !.intent = Absent]
  <2>1. view' = Published("clear", view)
    BY ActivationPublishes, StepFacts
  <2> QED  BY <2>1, Effects
<1>2. PublishedJournal /\ FencedForGood
  BY ActivationPublishes, StepFacts DEF ActivationInv
<1>3. /\ view' \in Directory /\ view'.legacy = view.legacy /\ view'.journal = view.journal
      /\ view'.backup = view.backup /\ view'.intent = Absent
      /\ view'.plan = view.plan /\ view'.archived = view.archived
  BY <1>1 DEF Inv, Typed, Directory
<1>4. Typed'
  BY <1>3, ActivationPublishes DEF Inv, Typed, SameHistory
<1>5. LegacyInv' /\ BackupInv' /\ ArchiveInv'
  BY <1>3, ActivationPublishes, LegacyKept, BackupKept, ArchiveKept DEF Inv, Safe
<1>6. JournalInv'
  <2>1. view'.journal # Absent => Exact(view.journal.accounting)
    BY <1>2, <1>3 DEF Inv, Safe, JournalInv, FencedForGood, Fenced
  <2>2. view'.journal # Absent => Exact(view.journal.accounting)'
    BY <1>3, <2>1, ActivationPublishes DEF Exact, SameHistory
  <2>3. /\ disk'.legacy = Tombstone /\ disk'.journal # Absent
        /\ disk'.journal \in {Absent, view'.journal}
    BY <1>2, <1>3, ActivationPublishes DEF Inv, Safe, JournalInv, FencedForGood
  <2> QED  BY <2>2, <2>3 DEF JournalInv
<1>7. IntentInv'
  BY <1>3, ActivationPublishes DEF Inv, Safe, IntentInv, SameHistory
<1>8. JobInv'
  <2>1. PublishedJournal' /\ FencedForGood'
    BY <1>2, <1>3, ActivationPublishes DEF PublishedJournal, BackedUp, FencedForGood, Fenced
  <2>2. ActivationInv'
    BY <2>1, ActivationPublishes DEF ActivationInv, SameHistory
  <2> QED  BY <2>2, ActivationPublishes, StepFacts DEF JobInv, Idle
<1> QED  BY <1>4, <1>5, <1>6, <1>7, <1>8 DEF Inv, Safe

-----------------------------------------------------------------------------
(* The publications of an abandonment *)

LEMMA RecoveryPublishes ==
  ASSUME Inv, Publish, job.plan # Absent
  PROVE  /\ SameHistory /\ disk' = disk /\ job' \in Job /\ job'.linked = TRUE
         /\ job'.steps = job.steps /\ job'.op = job.op /\ job'.intent = job.intent
         /\ job'.plan = job.plan /\ job.steps # <<>>
         /\ view' = Published(Head(job.steps), view)
         /\ job.plan \in Plan /\ job.intent \in Intent /\ job.intent = job.plan.intent
         /\ job.intent.attempt \in Attempts /\ job.intent.attempt <= attempts
         /\ view.journal = Absent /\ view.legacy # Tombstone
         /\ view.legacy \in {job.plan.observed, Final(job.plan)}
         /\ job.op = NoOp /\ job.steps \in RecoverySteps
<1>1. RecoveryInv
  BY PublishFacts DEF Inv, Safe, JobInv, Idle
<1>2. job.plan \in Plan
  BY DEF Inv, Typed, Job
<1>3. job.intent \in Intent /\ job.intent.attempt \in Attempts
  BY <1>1, <1>2 DEF RecoveryInv, Plan, Intent
<1> QED  BY <1>1, <1>2, <1>3, PublishFacts DEF RecoveryInv, RecoverySteps, Inv

\* What a publication of an abandonment may change.
Recovered(d) ==
  /\ d \in Directory /\ d.journal = view.journal
  /\ d.legacy \in {view.legacy, Final(job.plan)}
  /\ d.intent \in {view.intent, Absent}
  /\ d.plan \in {view.plan, job.plan, Absent}
  /\ \E kind \in {"legacy", "intent", "backup", "resolution"} :
       d.archived \subseteq view.archived \cup {<<job.intent.attempt, kind>>}

LEMMA RecoveredSafe ==
  ASSUME Inv, Publish, job.plan # Absent, Recovered(view')
  PROVE  Inv'
<1>1. Typed'
  BY RecoveryPublishes DEF Inv, Typed, SameHistory, Recovered
<1>2. view'.journal = Absent /\ disk'.journal = Absent
  BY RecoveryPublishes DEF Inv, Safe, JournalInv, Recovered
<1>3. view'.legacy # Tombstone
  BY RecoveryPublishes, FinalTyped, NamesAssumption DEF Recovered
<1>4. LegacyInv'
  <2>1. LegacyExact(view.legacy) /\ disk.legacy # Tombstone /\ LegacyExact(disk.legacy)
    BY RecoveryPublishes DEF Inv, Safe, LegacyInv
  <2>2. LegacyExact(Final(job.plan))
    <3> DEFINE f == Final(job.plan)
    <3>1. AccountOf(f) = f /\ AccountOf(f).spent = AccountOf(job.plan.observed).spent
          /\ AccountOf(f).ops = AccountOf(job.plan.observed).ops
      BY RecoveryPublishes, FinalTyped, NamesAssumption DEF AccountOf
    <3>2. CASE view.legacy = f
      BY <2>1, <3>2
    <3>3. CASE view.legacy = job.plan.observed
      BY <2>1, <3>1, <3>3 DEF LegacyExact, Exact
    <3> QED  BY <3>2, <3>3, RecoveryPublishes
  <2>3. LegacyExact(view'.legacy) /\ LegacyExact(disk'.legacy)
    BY <2>1, <2>2, RecoveryPublishes DEF Recovered
  <2>4. LegacyExact(view.legacy)' /\ LegacyExact(disk.legacy)'
    BY <2>3, RecoveryPublishes DEF LegacyExact, Exact, AccountOf, SameHistory
  <2> QED  BY <1>3, <2>1, <2>4, RecoveryPublishes DEF LegacyInv
<1>5. JournalInv' /\ BackupInv'
  BY <1>2, <1>3 DEF JournalInv, BackupInv
<1>6. IntentInv'
  BY RecoveryPublishes DEF Inv, Safe, IntentInv, SameHistory, Recovered
<1>7. ArchiveInv'
  <2>1. /\ view'.plan # Absent => view'.plan.intent.attempt <= attempts
        /\ disk'.plan # Absent => disk'.plan.intent.attempt <= attempts
    BY RecoveryPublishes DEF Inv, Safe, ArchiveInv, Recovered
  <2>2. ASSUME NEW a \in Attempts, NEW kind \in {"legacy", "intent", "backup", "resolution"}
        PROVE  /\ <<a, kind>> \in view'.archived => a <= attempts
               /\ <<a, kind>> \in disk'.archived => a <= attempts
    <3>1. PICK k : view'.archived \subseteq view.archived \cup {<<job.intent.attempt, k>>}
      BY DEF Recovered
    <3>2. <<a, kind>> = <<job.intent.attempt, k>> => a <= attempts
      BY RecoveryPublishes
    <3>3. /\ <<a, kind>> \in view.archived => a <= attempts
          /\ <<a, kind>> \in disk.archived => a <= attempts
      BY DEF Inv, Safe, ArchiveInv
    <3> QED  BY <3>1, <3>2, <3>3, RecoveryPublishes
  <2> QED  BY <1>2, <2>1, <2>2, RecoveryPublishes DEF ArchiveInv, SameHistory
<1>8. JobInv'
  <2>1. RecoveryInv'
    BY <1>2, <1>3, RecoveryPublishes DEF RecoveryInv, RecoverySteps, SameHistory, Recovered
  <2> QED  BY <2>1, RecoveryPublishes DEF JobInv, Idle
<1> QED  BY <1>1, <1>4, <1>5, <1>6, <1>7, <1>8 DEF Inv, Safe

LEMMA KeptRecovered ==
  ASSUME Inv, Publish, job.plan # Absent,
         NEW kind \in {"legacy", "intent", "backup", "resolution"},
         view' = Kept(view, kind)
  PROVE  Recovered(view')
<1>1. view' = [view EXCEPT !.archived = view.archived \cup {<<job.intent.attempt, kind>>}]
  BY DEF Kept
<1>2. <<job.intent.attempt, kind>> \in Archive
  BY RecoveryPublishes DEF Archive
<1> QED  BY <1>1, <1>2 DEF Inv, Typed, Directory, Recovered

LEMMA PublishRecovery ==
  ASSUME Inv, Publish, job.plan # Absent
  PROVE  Inv'
<1> SUFFICES Recovered(view')
  BY RecoveredSafe
<1>1. CASE view' = view
  BY <1>1 DEF Inv, Typed, Recovered
<1>2. CASE job.steps = AtPlan
  <2>1. view' = Published("plan", view)
    BY <1>2, RecoveryPublishes, RecoveryFacts
  <2>2. view' = [view EXCEPT !.plan = job.plan]
    BY <2>1, Effects
  <2> QED  BY <2>2, RecoveryPublishes DEF Inv, Typed, Directory, Recovered
<1>3. CASE job.steps = AtKeepLegacy
  <2>1. view' = Published("keepLegacy", view)
    BY <1>3, RecoveryPublishes, RecoveryFacts
  <2>2. view' \in {view, Kept(view, "legacy")}
    BY <2>1, Effects
  <2> QED  BY <1>1, <2>2, KeptRecovered
<1>4. CASE job.steps = AtCopyIntent
  <2>1. view' = Published("copyIntent", view)
    BY <1>4, RecoveryPublishes, RecoveryFacts
  <2>2. view' = Kept(view, "intent")
    BY <2>1, Effects
  <2> QED  BY <2>2, KeptRecovered
<1>5. CASE job.steps = AtForget
  <2>1. view' = Published("clear", view)
    BY <1>5, RecoveryPublishes, RecoveryFacts
  <2>2. view' = [view EXCEPT !.intent = Absent]
    BY <2>1, Effects
  <2> QED  BY <2>2 DEF Inv, Typed, Directory, Recovered
<1>6. CASE job.steps = AtCopyBackup
  <2>1. view' = Published("copyBackup", view)
    BY <1>6, RecoveryPublishes, RecoveryFacts
  <2>2. view' \in {view, Kept(view, "backup")}
    BY <2>1, Effects
  <2> QED  BY <1>1, <2>2, KeptRecovered
<1>7. CASE job.steps = AtDropBackup
  <2>1. view' = Published("dropBackup", view)
    BY <1>7, RecoveryPublishes, RecoveryFacts
  <2>2. view' = [view EXCEPT !.backup = Absent]
    BY <2>1, Effects
  <2> QED  BY <2>2 DEF Inv, Typed, Directory, Recovered
<1>8. CASE job.steps = AtResolution
  <2>1. view' = Published("resolution", view)
    BY <1>8, RecoveryPublishes, RecoveryFacts
  <2>2. view' = Kept(view, "resolution")
    BY <2>1, Effects
  <2> QED  BY <2>2, KeptRecovered
<1>9. CASE job.steps = AtFinal
  <2>1. view' = Published("final", view)
    BY <1>9, RecoveryPublishes, RecoveryFacts
  <2>2. view' = [view EXCEPT !.legacy = Final(job.plan)]
    BY <2>1, Effects
  <2>3. Final(job.plan) \in Accounting
    BY RecoveryPublishes, FinalTyped
  <2> QED  BY <2>2, <2>3 DEF Inv, Typed, Directory, Recovered
<1>10. CASE job.steps = AtDropPlan
  <2>1. view' = Published("dropPlan", view)
    BY <1>10, RecoveryPublishes, RecoveryFacts
  <2>2. view' = [view EXCEPT !.plan = Absent]
    BY <2>1, Effects
  <2> QED  BY <2>2 DEF Inv, Typed, Directory, Recovered
<1> QED
  BY <1>2, <1>3, <1>4, <1>5, <1>6, <1>7, <1>8, <1>9, <1>10, RecoveryPublishes
     DEF RecoverySteps

LEMMA PublishSafe ==
  ASSUME Inv, Publish
  PROVE  Inv'
<1>1. CASE job.plan = Absent
  BY <1>1, ActivationPublishes, PublishIntent, PublishBackup, PublishJournal, PublishTombstone,
     PublishSentinel, PublishClear DEF ActivationInv
<1>2. CASE job.plan # Absent
  BY <1>2, PublishRecovery
<1> QED  BY <1>1, <1>2

-----------------------------------------------------------------------------
(* Synchronization, interruption and power failure *)

LEMMA NoJobTyped == NoJob \in Job /\ NoJob.steps = <<>>
BY DEF NoJob, Doing, Job

\* Both directories are fenced, with the journal: a caller may be told what
\* the journal records.
LEMMA ToldWhatIsFenced ==
  ASSUME Inv, FencedForGood, view' = view, disk' \in {view, disk}, unkeyed' = unkeyed,
         told' \subseteq told \cup view.journal.accounting.ops
  PROVE  LegacyInv' /\ JournalInv' /\ BackupInv'
<1>1. /\ view.legacy = Tombstone /\ disk.legacy = Tombstone
      /\ disk.journal # Absent /\ view.journal = disk.journal
  BY DEF FencedForGood, Fenced, Inv, Safe, JournalInv
<1>2. LegacyInv'
  BY <1>1 DEF LegacyInv
<1>3. JournalInv'
  <2>1. Exact(view.journal.accounting)
    BY <1>1 DEF Inv, Safe, JournalInv
  <2>2. Exact(view.journal.accounting)'
    BY <2>1 DEF Exact
  <2> QED  BY <1>1, <2>2 DEF JournalInv
<1>4. BackupInv'
  BY <1>1 DEF Inv, Safe, BackupInv
<1> QED  BY <1>2, <1>3, <1>4

LEMMA SyncedSafe ==
  ASSUME Inv, view' = view, disk' = view, SameHistory
  PROVE  LegacyInv' /\ JournalInv' /\ BackupInv' /\ IntentInv' /\ ArchiveInv'
<1>1. LegacyInv'
  BY DEF Inv, Safe, LegacyInv, LegacyExact, Exact, AccountOf, SameHistory
<1>2. JournalInv'
  BY DEF Inv, Safe, JournalInv, Exact, SameHistory
<1>3. BackupInv'
  <2>1. view.journal = Absent => disk.journal = Absent
    BY DEF Inv, Safe, JournalInv
  <2>2. view.legacy = Tombstone /\ view.journal = Absent => Exact(AccountOf(view.backup))
    BY <2>1 DEF Inv, Safe, BackupInv
  <2> QED  BY <2>2 DEF BackupInv, Exact, AccountOf, SameHistory
<1>4. IntentInv' /\ ArchiveInv'
  BY DEF Inv, Safe, IntentInv, ArchiveInv, SameHistory
<1> QED  BY <1>1, <1>2, <1>3, <1>4

\* The activity goes on after a publication is synchronized.
LEMMA SyncNext ==
  ASSUME Inv, Sync, Tail(job.steps) # <<>>
  PROVE  Inv'
<1>1. /\ view' = view /\ disk' = view /\ SameHistory /\ job.linked = TRUE
      /\ job' = [job EXCEPT !.steps = Tail(job.steps), !.linked = FALSE]
  BY DEF Sync, history, SameHistory, Inv, Typed, Job
<1>2. job \in Job /\ job.steps # <<>>
  BY <1>1 DEF Inv, Typed, Safe, JobInv, Idle, NoJob, Doing
<1>3. Tail(job.steps) \in Seq(Step)
  BY <1>2, HeadTailProperties DEF Job
<1>4. /\ job' \in Job /\ job'.steps = Tail(job.steps) /\ job'.linked = FALSE
      /\ job'.op = job.op /\ job'.intent = job.intent /\ job'.plan = job.plan
  <2> DEFINE k == [job EXCEPT !.steps = Tail(job.steps)]
             l == [k EXCEPT !.linked = FALSE]
  <2>1. /\ k \in Job /\ k.steps = Tail(job.steps)
        /\ k.op = job.op /\ k.intent = job.intent /\ k.plan = job.plan
    BY <1>2, <1>3 DEF Job
  <2>2. job' = l
    BY <1>1
  <2> HIDE DEF k
  <2>3. /\ l \in Job /\ l.steps = k.steps /\ l.linked = FALSE
        /\ l.op = k.op /\ l.intent = k.intent /\ l.plan = k.plan
    BY <2>1 DEF Job
  <2> QED  BY <2>1, <2>2, <2>3
<1>5. Typed'
  BY <1>1, <1>4 DEF Inv, Typed, SameHistory
<1>6. JobInv'
  <2>1. CASE job.plan = Absent
    <3>1. ActivationInv
      BY <1>2, <2>1 DEF Inv, Safe, JobInv, Idle
    <3>2. ActivationInv'
      <4>1. CASE job.steps = AtIntent /\ Unpublished /\ view.intent # Absent
        BY <1>1, <1>4, <3>1, <4>1, StepFacts DEF ActivationInv, Unpublished, SameHistory
      <4>2. CASE job.steps = AtBackup /\ Unpublished /\ view.intent # Absent
                 /\ view.backup = job.intent.original
        BY <1>1, <1>4, <3>1, <4>2, StepFacts
           DEF ActivationInv, Unpublished, BackedUp, SameHistory
      <4>3. CASE /\ job.steps = AtJournal /\ view.intent # Absent
                 /\ PublishedJournal /\ view.legacy = job.intent.original
        BY <1>1, <1>4, <3>1, <4>3, StepFacts
           DEF ActivationInv, PublishedJournal, BackedUp, SameHistory
      <4>4. CASE job.steps = AtTombstone /\ PublishedJournal /\ Fenced
        <5>1. view.journal # Absent
          <6>1. job.intent \in Intent
            BY <1>2, <3>1 DEF ActivationInv, Job
          <6> QED  BY <4>4, <6>1, NamesAssumption DEF PublishedJournal, Intent, Journal
        <5> QED  BY <1>1, <1>4, <3>1, <4>4, <5>1, StepFacts
                 DEF ActivationInv, PublishedJournal, BackedUp, Fenced, FencedForGood, SameHistory
      <4>5. CASE job.steps = AtSentinel /\ PublishedJournal /\ FencedForGood
        BY <1>1, <1>4, <3>1, <4>5, StepFacts
           DEF ActivationInv, PublishedJournal, BackedUp, Fenced, FencedForGood, SameHistory,
               Inv, Safe, JournalInv
      <4> QED  BY <1>1, <3>1, <4>1, <4>2, <4>3, <4>4, <4>5, StepFacts DEF ActivationInv
    <3> QED  BY <1>4, <2>1, <3>2 DEF JobInv, Idle
  <2>2. CASE job.plan # Absent
    <3>1. RecoveryInv /\ job.steps \in RecoverySteps
      BY <1>2, <2>2 DEF Inv, Safe, JobInv, Idle, RecoveryInv, RecoverySteps
    <3>2. Tail(job.steps) \in RecoverySteps
      BY <3>1, RecoveryFacts DEF RecoverySteps
    <3>3. RecoveryInv'
      BY <1>1, <1>4, <3>1, <3>2 DEF RecoveryInv, RecoverySteps, SameHistory
    <3> QED  BY <1>4, <2>2, <3>3 DEF JobInv, Idle
  <2> QED  BY <2>1, <2>2
<1> QED  BY <1>1, <1>5, <1>6, SyncedSafe DEF Inv, Safe

\* Who may be told: the holder of an abandonment has no debit, that of an
\* activation has one when both directories are fenced.
LEMMA AnswerHolds ==
  ASSUME Inv, ~Idle, job.steps = AtClear \/ Tail(job.steps) = <<>>
  PROVE  /\ Answered \subseteq Op
         /\ \/ Answered = told
            \/ /\ FencedForGood /\ view.journal # Absent
               /\ Answered \subseteq told \cup view.journal.accounting.ops
<1>1. Answered \subseteq Op
  BY DEF Answered, Inv, Typed, Job
<1>2. CASE job.plan = Absent
  <2>1. ActivationInv
    BY <1>2 DEF Inv, Safe, JobInv
  <2>2. job.steps = AtClear
    BY <2>1, StepFacts DEF ActivationInv
  <2>3. PublishedJournal /\ FencedForGood
    BY <2>1, <2>2, StepFacts DEF ActivationInv
  <2>4. view.journal # Absent /\ view.journal.accounting = job.intent.candidate
    <3>1. job.intent \in Intent
      BY <2>1 DEF ActivationInv, Inv, Typed, Job
    <3> QED  BY <2>3, <3>1, NamesAssumption DEF PublishedJournal, Intent, Journal
  <2>5. Answered \subseteq told \cup job.intent.candidate.ops
    BY <2>1 DEF ActivationInv, Answered
  <2> QED  BY <1>1, <2>3, <2>4, <2>5
<1>3. CASE job.plan # Absent
  <2>1. job.op = NoOp
    BY <1>3 DEF Inv, Safe, JobInv, RecoveryInv
  <2> QED  BY <1>1, <2>1 DEF Answered
<1> QED  BY <1>2, <1>3

LEMMA SyncLast ==
  ASSUME Inv, Sync, Tail(job.steps) = <<>>
  PROVE  Inv'
<1>1. /\ view' = view /\ disk' = view /\ job' = NoJob /\ told' = Answered
      /\ unkeyed' = unkeyed /\ attempts' = attempts /\ ~Idle
  BY DEF Sync, history, Inv, Safe, JobInv, Idle, NoJob, Doing
<1>2. Typed' /\ JobInv'
  BY <1>1, AnswerHolds, NoJobTyped DEF Inv, Typed, JobInv, Idle
<1>3. IntentInv' /\ ArchiveInv'
  BY <1>1 DEF Inv, Safe, IntentInv, ArchiveInv
<1>4. LegacyInv' /\ JournalInv' /\ BackupInv'
  BY <1>1, AnswerHolds, ToldWhatIsFenced, SyncedSafe DEF SameHistory
<1> QED  BY <1>2, <1>3, <1>4 DEF Inv, Safe

LEMMA InterruptSafe ==
  ASSUME Inv, Interrupt
  PROVE  Inv'
<1>1. /\ view' = view /\ disk' = disk /\ job' = NoJob /\ told' \in {told, Answered}
      /\ unkeyed' = unkeyed /\ attempts' = attempts /\ ~Idle
      /\ told' = told \/ job.steps = AtClear
  BY DEF Interrupt, Sealed, AtClear
<1>2. Typed' /\ JobInv'
  BY <1>1, AnswerHolds, NoJobTyped DEF Inv, Typed, JobInv, Idle
<1>3. IntentInv' /\ ArchiveInv'
  BY <1>1 DEF Inv, Safe, IntentInv, ArchiveInv
<1>4. CASE told' = told
  <2>1. LegacyInv' /\ JournalInv' /\ BackupInv'
    BY <1>1, <1>4, LegacyKept, JournalKept, BackupKept DEF Inv, Safe, SameHistory
  <2> QED  BY <1>2, <1>3, <2>1 DEF Inv, Safe
<1>5. CASE told' # told
  <2>1. LegacyInv' /\ JournalInv' /\ BackupInv'
    BY <1>1, <1>5, AnswerHolds, ToldWhatIsFenced
  <2> QED  BY <1>2, <1>3, <2>1 DEF Inv, Safe
<1> QED  BY <1>4, <1>5

LEMMA PowerFailsSafe ==
  ASSUME Inv, PowerFails
  PROVE  Inv'
<1>1. disk' = view' /\ job' = NoJob /\ SameHistory
  BY DEF PowerFails, SameHistory
<1>2. PICK lost \in SUBSET {f \in DOMAIN view : view[f] # disk[f]} :
             view' = [f \in DOMAIN view |-> IF f \in lost THEN disk[f] ELSE view[f]]
  BY DEF PowerFails
<1>3. /\ view' \in Directory
      /\ view'.legacy \in {view.legacy, disk.legacy}
      /\ view'.journal \in {view.journal, disk.journal}
      /\ view'.backup \in {view.backup, disk.backup}
      /\ view'.intent \in {view.intent, disk.intent}
      /\ view'.plan \in {view.plan, disk.plan}
      /\ view'.archived \in {view.archived, disk.archived}
  BY <1>2 DEF Inv, Typed, Directory
<1>4. Typed' /\ JobInv'
  BY <1>1, <1>3, NoJobTyped DEF Inv, Typed, JobInv, Idle, SameHistory
<1>5. LegacyInv'
  <2>1. view'.legacy # Tombstone => LegacyExact(view'.legacy)
    BY <1>3 DEF Inv, Safe, LegacyInv
  <2>2. view'.legacy # Tombstone => LegacyExact(view.legacy)'
    BY <1>1, <2>1 DEF LegacyExact, Exact, AccountOf, SameHistory
  <2> QED  BY <1>1, <2>2 DEF LegacyInv
\* A fence that is left was seen: so was the journal.
<1>6. /\ view'.legacy = Tombstone => view.legacy = Tombstone
      /\ view'.journal # Absent => view'.journal = view.journal
      /\ view'.journal = Absent => disk.journal = Absent
  BY <1>3 DEF Inv, Safe, LegacyInv, JournalInv
<1>7. JournalInv'
  <2>1. view'.legacy = Tombstone /\ view'.journal # Absent => Exact(view'.journal.accounting)
    BY <1>6 DEF Inv, Safe, JournalInv
  <2>2. view'.legacy = Tombstone /\ view'.journal # Absent => Exact(view.journal.accounting)'
    BY <1>1, <2>1 DEF Exact, SameHistory
  <2> QED  BY <1>1, <2>2 DEF JournalInv
<1>8. BackupInv'
  <2>1. view'.legacy = Tombstone /\ view'.journal = Absent => Exact(AccountOf(view'.backup))
    BY <1>3, <1>6 DEF Inv, Safe, BackupInv
  <2>2. view'.legacy = Tombstone /\ view'.journal = Absent => Exact(AccountOf(view.backup))'
    BY <1>1, <2>1 DEF Exact, AccountOf, SameHistory
  <2> QED  BY <1>1, <2>2 DEF BackupInv
<1>9. IntentInv'
  BY <1>1, <1>3 DEF Inv, Safe, IntentInv, SameHistory
<1>10. ArchiveInv'
  BY <1>1, <1>3, <1>6 DEF Inv, Safe, ArchiveInv, SameHistory
<1> QED  BY <1>4, <1>5, <1>7, <1>8, <1>9, <1>10 DEF Inv, Safe

-----------------------------------------------------------------------------
(* Debits *)

LEMMA ActivateSafe ==
  ASSUME Inv, NEW o \in Op, Activate(o)
  PROVE  Inv'
<1> DEFINE i == [attempt |-> attempts + 1, original |-> view.legacy,
                 candidate |-> Debited(Current(view), o)]
<1>1. /\ view' = view /\ disk' = disk /\ told' = told /\ unkeyed' = unkeyed
      /\ attempts' = attempts + 1 /\ job' = Doing(AtIntent, o, i, Absent)
      /\ view.journal = Absent /\ attempts < MaxAttempts /\ Readable(view)
  BY DEF Activate, AtIntent
<1>2. /\ view.legacy \in Accounting \cup {Absent} /\ view.legacy # Tombstone
      /\ Current(view) = AccountOf(view.legacy)
  BY <1>1, ReadableCases DEF Inv, Typed, Directory
<1>3. AccountOf(view.legacy) \in Accounting
  BY <1>2, EmptyTyped DEF AccountOf
<1>4. AccountOf(view.legacy).ops = {}
  BY <1>2 DEF Inv, Safe, LegacyInv, LegacyExact
<1>5. /\ Debited(Current(view), o) \in Accounting
      /\ Debited(Current(view), o).spent = AccountOf(view.legacy).spent + 1
      /\ Debited(Current(view), o).ops = {o}
  BY <1>2, <1>3, <1>4, DebitedTyped, NamesAssumption
<1>6. attempts + 1 \in Attempts
  BY <1>1, BoundsAssumption DEF Inv, Typed, Attempts
<1>7. /\ i \in Intent /\ i.attempt = attempts + 1 /\ i.original = view.legacy
      /\ i.candidate = Debited(Current(view), o)
  BY <1>2, <1>5, <1>6 DEF Intent
<1> HIDE DEF i
<1>8. /\ job' \in Job /\ job'.steps = AtIntent /\ job'.linked = FALSE
      /\ job'.op = o /\ job'.intent = i /\ job'.plan = Absent
  <2>1. AtIntent \in Seq(Step) /\ o \in Op \cup {NoOp} /\ Absent \in Plan \cup {Absent}
    BY StepsTyped DEF AtIntent
  <2>2. /\ Doing(AtIntent, o, i, Absent) \in Job
        /\ Doing(AtIntent, o, i, Absent).steps = AtIntent
        /\ Doing(AtIntent, o, i, Absent).linked = FALSE
        /\ Doing(AtIntent, o, i, Absent).op = o
        /\ Doing(AtIntent, o, i, Absent).intent = i
        /\ Doing(AtIntent, o, i, Absent).plan = Absent
    BY <1>7, <2>1 DEF Doing, Job
  <2> QED  BY <1>1, <2>2
<1>9. Typed'
  BY <1>1, <1>8 DEF Inv, Typed
<1>10. LegacyInv' /\ JournalInv' /\ BackupInv'
  BY <1>1 DEF Inv, Safe, LegacyInv, JournalInv, BackupInv, LegacyExact, Exact, AccountOf
<1>11. IntentInv' /\ ArchiveInv'
  <2>1. IntentInv'
    BY <1>1 DEF Inv, Safe, IntentInv, Typed, Directory, Intent, Attempts
  <2>2. \A d \in {view, disk} : d.plan # Absent => d.plan.intent.attempt \in Attempts
    BY DEF Inv, Typed, Directory, Plan, Intent
  <2>3. ArchiveInv'
    BY <1>1, <2>2 DEF Inv, Safe, ArchiveInv, Typed, Attempts
  <2> QED  BY <2>1, <2>3
<1>12. JobInv'
  <2>1. IntentHolds(i)
    BY <1>4, <1>5, <1>7 DEF IntentHolds
  <2>2. Unpublished'
    <3>1. /\ <<i.attempt, "resolution">> \notin view.archived
          /\ <<i.attempt, "resolution">> \notin disk.archived
      <4>1. i.attempt \in Attempts /\ ~(i.attempt <= attempts)
        BY <1>6, <1>7 DEF Inv, Typed
      <4> QED  BY <4>1 DEF Inv, Safe, ArchiveInv
    <3> QED  BY <1>1, <1>7, <1>8, <3>1 DEF Unpublished
  <2>3. i # Absent
    BY <1>7, NamesAssumption
  <2>4. ActivationInv'
    BY <1>1, <1>5, <1>7, <1>8, <2>1, <2>2, <2>3 DEF ActivationInv, Inv, Typed
  <2> QED  BY <1>8, <2>4, StepFacts DEF JobInv, Idle
<1> QED  BY <1>9, <1>10, <1>11, <1>12 DEF Inv, Safe

LEMMA ReplaySafe ==
  ASSUME Inv, NEW o \in Op, Replay(o)
  PROVE  Inv'
<1>1. /\ view' = view /\ disk' = disk /\ told' = told \cup {o} /\ job' = job
      /\ unkeyed' = unkeyed /\ attempts' = attempts /\ Idle
      /\ view.journal # Absent /\ o \in Current(view).ops /\ Readable(view)
  BY DEF Replay, history
<1>2. /\ view.legacy = Tombstone /\ view.intent = Absent
      /\ o \in view.journal.accounting.ops
  BY <1>1, ReadableCases DEF Inv
<1>3. FencedForGood
  BY <1>1, <1>2 DEF FencedForGood, Fenced, Inv, Safe, JournalInv
<1>4. LegacyInv' /\ JournalInv' /\ BackupInv'
  BY <1>1, <1>2, <1>3, ToldWhatIsFenced
<1>5. Typed' /\ IntentInv' /\ ArchiveInv'
  BY <1>1 DEF Inv, Safe, Typed, IntentInv, ArchiveInv
<1>6. JobInv'
  BY <1>1 DEF Inv, Safe, JobInv, Idle
<1> QED  BY <1>4, <1>5, <1>6 DEF Inv, Safe

\* A debit of a journal that is read: it is replaced and synchronized.
LEMMA JournalReplaced ==
  ASSUME Inv, Idle, Readable(view), view.journal # Absent, NEW a \in Accounting,
         view' = [view EXCEPT !.journal.accounting = a], disk' = view', job' = job,
         attempts' = attempts, told' \subseteq Op, unkeyed' \in Nat,
         IsFiniteSet(a.ops), a.spent = unkeyed' + Cardinality(a.ops), told' \subseteq a.ops
  PROVE  Inv'
<1>1. view.legacy = Tombstone /\ view.intent = Absent /\ view.journal \in Journal
  BY ReadableCases DEF Inv, Typed, Directory
<1> DEFINE j == [view.journal EXCEPT !.accounting = a]
<1>2. j \in Journal /\ j.attempt = view.journal.attempt /\ j.accounting = a
  BY <1>1 DEF Journal
<1>3. view' = [view EXCEPT !.journal = j]
  OBVIOUS
<1> HIDE DEF j
<1>4. /\ view' \in Directory /\ view'.legacy = view.legacy /\ view'.journal = j
      /\ view'.backup = view.backup /\ view'.intent = view.intent
      /\ view'.plan = view.plan /\ view'.archived = view.archived /\ j # Absent
  BY <1>2, <1>3, NamesAssumption DEF Inv, Typed, Directory
<1>5. Typed' /\ LegacyInv' /\ BackupInv' /\ IntentInv' /\ JobInv'
  BY <1>1, <1>4 DEF Inv, Safe, Typed, LegacyInv, BackupInv, IntentInv, JobInv, Idle
<1>6. JournalInv'
  BY <1>1, <1>2, <1>4 DEF JournalInv, Exact
<1>7. ArchiveInv'
  <2>1. \A b \in Attempts : <<b, "resolution">> \in view.archived => j.attempt # b
    BY <1>2 DEF Inv, Safe, ArchiveInv
  <2>2. view'.plan # Absent => view'.plan.intent.attempt <= attempts
    BY <1>4 DEF Inv, Safe, ArchiveInv
  <2>3. \A b \in Attempts, kind \in {"legacy", "intent", "backup", "resolution"} :
          <<b, kind>> \in view.archived => b <= attempts
    BY DEF Inv, Safe, ArchiveInv
  <2> QED  BY <1>4, <2>1, <2>2, <2>3 DEF ArchiveInv
<1> QED  BY <1>5, <1>6, <1>7 DEF Inv, Safe

LEMMA DebitJournalSafe ==
  ASSUME Inv, NEW o \in Op, DebitJournal(o)
  PROVE  Inv'
<1> DEFINE b == Debited(view.journal.accounting, o)
<1>1. /\ view' = [view EXCEPT !.journal.accounting = b]
      /\ disk' = view' /\ told' = told \cup {o} /\ job' = job
      /\ unkeyed' = unkeyed /\ attempts' = attempts /\ Idle
      /\ view.journal # Absent /\ o \notin Current(view).ops /\ Readable(view)
  BY DEF DebitJournal, history
<1>2. /\ view.legacy = Tombstone /\ o \notin view.journal.accounting.ops
      /\ view.journal.accounting \in Accounting
  BY <1>1, ReadableCases DEF Inv
<1>3. Exact(view.journal.accounting)
  BY <1>1, <1>2 DEF Inv, Safe, JournalInv
<1>4. /\ IsFiniteSet(b.ops) /\ b.spent = unkeyed + Cardinality(b.ops)
      /\ told \cup {o} \subseteq b.ops
  BY <1>2, <1>3, JournalDebited DEF Inv
<1>5. b \in Accounting
  BY <1>2, DebitedTyped
<1> HIDE DEF b
<1> QED  BY <1>1, <1>4, <1>5, JournalReplaced DEF Inv, Typed

LEMMA SpendSafe ==
  ASSUME Inv, Spend
  PROVE  Inv'
<1>1. /\ disk' = view' /\ told' = told /\ job' = job
      /\ unkeyed' = unkeyed + 1 /\ attempts' = attempts /\ Idle
  BY DEF Spend
<1>2. CASE Readable(view) /\ view.journal # Absent
           /\ view' = [view EXCEPT !.journal.accounting = Debited(@, NoOp)]
  <2> DEFINE b == Debited(view.journal.accounting, NoOp)
  <2>1. /\ view.legacy = Tombstone /\ view.journal.accounting \in Accounting
    BY <1>2, ReadableCases DEF Inv
  <2>2. Exact(view.journal.accounting)
    BY <1>2, <2>1 DEF Inv, Safe, JournalInv
  <2>3. b.ops = view.journal.accounting.ops
        /\ b.spent = (unkeyed + 1) + Cardinality(view.journal.accounting.ops)
    BY <2>1, <2>2, UnkeyedDebited DEF Inv
  <2>4. /\ IsFiniteSet(b.ops) /\ b.spent = unkeyed' + Cardinality(b.ops)
        /\ told \subseteq b.ops
    BY <1>1, <2>2, <2>3 DEF Exact
  <2>5. b \in Accounting /\ unkeyed + 1 \in Nat
    BY <2>1, DebitedTyped DEF Inv, Typed
  <2>6. view' = [view EXCEPT !.journal.accounting = b]
    BY <1>2
  <2> HIDE DEF b
  <2> QED  BY <1>1, <1>2, <2>4, <2>5, <2>6, JournalReplaced DEF Inv, Typed
<1>3. CASE view.legacy \in Accounting /\ view' = [view EXCEPT !.legacy = Debited(@, NoOp)]
  <2> DEFINE b == Debited(view.legacy, NoOp)
  <2>1. /\ view.legacy # Tombstone /\ AccountOf(view.legacy) = view.legacy
    BY <1>3, NamesAssumption DEF AccountOf
  <2>2. Exact(view.legacy) /\ view.legacy.ops = {}
    BY <2>1 DEF Inv, Safe, LegacyInv, LegacyExact
  <2>3. /\ b.ops = view.legacy.ops
        /\ b.spent = (unkeyed + 1) + Cardinality(view.legacy.ops)
    BY <1>3, <2>2, UnkeyedDebited DEF Inv
  <2>4. /\ IsFiniteSet(b.ops) /\ b.spent = unkeyed' + Cardinality(b.ops)
        /\ told' \subseteq b.ops /\ b.ops = {}
    BY <1>1, <2>2, <2>3 DEF Exact
  <2>5. b \in Accounting /\ b # Tombstone /\ AccountOf(b) = b
    BY <1>3, DebitedTyped, NamesAssumption DEF AccountOf
  <2>6. view' = [view EXCEPT !.legacy = b]
    BY <1>3
  <2> HIDE DEF b
  <2>7. /\ view' \in Directory /\ view'.legacy = b /\ view'.journal = view.journal
        /\ view'.backup = view.backup /\ view'.intent = view.intent
        /\ view'.plan = view.plan /\ view'.archived = view.archived
    BY <2>5, <2>6 DEF Inv, Typed, Directory
  <2>8. Typed'
    BY <1>1, <2>7 DEF Inv, Typed
  <2>9. LegacyExact(view.legacy)'
    BY <2>4, <2>5, <2>7 DEF LegacyExact, Exact, AccountOf
  <2>10. LegacyInv'
    BY <1>1, <2>5, <2>7, <2>9 DEF LegacyInv
  <2>11. JournalInv' /\ BackupInv'
    BY <1>1, <2>5, <2>7 DEF JournalInv, BackupInv
  <2>12. IntentInv' /\ ArchiveInv' /\ JobInv'
    BY <1>1, <2>7 DEF Inv, Safe, IntentInv, ArchiveInv, JobInv, Idle
  <2> QED  BY <2>8, <2>10, <2>11, <2>12 DEF Inv, Safe
<1> QED  BY <1>2, <1>3 DEF Spend

-----------------------------------------------------------------------------
(* What the operator begins *)

\* A recovery that begins changes nothing but what is left to do.
LEMMA RecoveryBegins ==
  ASSUME Inv, UNCHANGED <<view, disk, told, history>>, job' \in Job, JobInv'
  PROVE  Inv'
<1>1. view' = view /\ disk' = disk /\ SameHistory
  BY DEF history, SameHistory
<1>2. LegacyInv' /\ JournalInv' /\ BackupInv' /\ IntentInv' /\ ArchiveInv'
  BY <1>1, LegacyKept, JournalKept, BackupKept, IntentKept, ArchiveKept DEF Inv, Safe
<1> QED  BY <1>1, <1>2 DEF Inv, Typed, Safe, SameHistory

LEMMA CompleteSafe ==
  ASSUME Inv, Complete
  PROVE  Inv'
<1>1. /\ view' = view /\ disk' = disk /\ SameHistory
      /\ job' = Doing(AtTombstone, NoOp, view.intent, Absent)
      /\ UNCHANGED <<view, disk, told, history>>
  BY DEF Complete, AtTombstone, history, SameHistory
<1>2. view.intent \in Intent /\ view.intent # Absent
  BY DEF Complete, Completable, Inv, Typed, Directory
<1>3. AtTombstone \in Seq(Step)
  BY StepsTyped DEF AtTombstone
<1>4. /\ job' \in Job /\ job'.steps = AtTombstone /\ job'.linked = FALSE
      /\ job'.op = NoOp /\ job'.intent = view.intent /\ job'.plan = Absent
  BY <1>1, <1>2, <1>3 DEF Doing, Job
<1>5. IntentHolds(view.intent) /\ view.intent.attempt <= attempts
  BY <1>2 DEF Inv, Safe, IntentInv
<1>6. view.journal # Absent
  BY <1>2, NamesAssumption DEF Complete, Completable, Intent, Journal
<1>7. disk.backup = view.backup
  BY <1>6 DEF Inv, Safe, BackupInv
<1>8. PublishedJournal' /\ view.legacy \in {view.intent.original, Tombstone}
  BY <1>1, <1>4, <1>7 DEF Complete, Completable, PublishedJournal, BackedUp
<1>9. ActivationInv'
  BY <1>1, <1>2, <1>4, <1>5, <1>8 DEF ActivationInv, SameHistory
<1>10. JobInv'
  BY <1>4, <1>9, StepFacts DEF JobInv, Idle
<1> QED  BY <1>1, <1>4, <1>10, RecoveryBegins

LEMMA AbandonSafe ==
  ASSUME Inv, Abandon
  PROVE  Inv'
<1> DEFINE plan == ReviewOf(view.intent)
<1>1. /\ view' = view /\ disk' = disk /\ SameHistory
      /\ job' = Doing(AtPlan, NoOp, view.intent, plan)
      /\ UNCHANGED <<view, disk, told, history>>
      /\ view.journal = Absent /\ view.legacy # Tombstone
  BY DEF Abandon, NotCompleted, AtPlan, history, SameHistory
<1>2. view.intent \in Intent /\ view.intent # Absent
  BY DEF Abandon, Inv, Typed, Directory
<1>3. /\ plan \in Plan /\ plan.intent = view.intent /\ plan.observed = view.legacy
      /\ plan # Absent
  BY <1>1, <1>2, ReviewTyped, NamesAssumption DEF Inv
<1> HIDE DEF plan
<1>4. AtPlan \in Seq(Step)
  BY StepsTyped DEF AtPlan
<1>5. /\ job' \in Job /\ job'.steps = AtPlan /\ job'.linked = FALSE
      /\ job'.op = NoOp /\ job'.intent = view.intent /\ job'.plan = plan
  BY <1>1, <1>2, <1>3, <1>4 DEF Doing, Job
<1>6. view.intent.attempt <= attempts
  BY <1>2 DEF Inv, Safe, IntentInv
<1>7. RecoveryInv'
  BY <1>1, <1>3, <1>5, <1>6 DEF RecoveryInv, RecoverySteps, SameHistory
<1>8. JobInv'
  BY <1>3, <1>5, <1>7, RecoveryFacts DEF JobInv, Idle
<1> QED  BY <1>1, <1>5, <1>8, RecoveryBegins

LEMMA ResumeSafe ==
  ASSUME Inv, Resume
  PROVE  Inv'
<1>1. /\ view' = view /\ disk' = disk /\ SameHistory
      /\ job' = Doing(AtKeepLegacy, NoOp, view.plan.intent, view.plan)
      /\ UNCHANGED <<view, disk, told, history>>
      /\ view.journal = Absent /\ view.legacy # Tombstone
  BY DEF Resume, NotCompleted, AtKeepLegacy, history, SameHistory
<1>2. view.plan \in Plan /\ view.plan # Absent /\ view.plan.intent \in Intent
  BY DEF Resume, Inv, Typed, Directory, Plan
<1>3. AtKeepLegacy \in Seq(Step)
  BY StepsTyped DEF AtKeepLegacy
<1>4. /\ job' \in Job /\ job'.steps = AtKeepLegacy /\ job'.linked = FALSE
      /\ job'.op = NoOp /\ job'.intent = view.plan.intent /\ job'.plan = view.plan
  BY <1>1, <1>2, <1>3 DEF Doing, Job
<1>5. view.plan.intent.attempt <= attempts
  BY <1>2 DEF Inv, Safe, ArchiveInv
<1>6. RecoveryInv'
  BY <1>1, <1>4, <1>5 DEF RecoveryInv, RecoverySteps, Resume, Resumable, SameHistory
<1>7. JobInv'
  BY <1>2, <1>4, <1>6, RecoveryFacts DEF JobInv, Idle
<1> QED  BY <1>1, <1>4, <1>7, RecoveryBegins

-----------------------------------------------------------------------------
(* The theorems *)

LEMMA InitSafe == Init => Inv
<1> SUFFICES ASSUME Init PROVE Inv
  OBVIOUS
<1>1. PICK l \in {Absent, Empty} :
        view = [legacy |-> l, journal |-> Absent, backup |-> Absent, sentinel |-> 0,
                intent |-> Absent, plan |-> Absent, archived |-> {}]
  BY DEF Init
<1>2. disk = view /\ job = NoJob /\ told = {} /\ unkeyed = 0 /\ attempts = 0
  BY DEF Init
<1>3. Typed
  BY <1>1, <1>2, EmptyTyped, NoJobTyped DEF Typed, Directory, Archive
<1>4. LegacyInv
  <2>1. AccountOf(view.legacy) = Empty
    BY <1>1 DEF AccountOf
  <2>2. Exact(Empty)
    BY <1>2, EmptyTyped, FS_EmptySet DEF Exact
  <2>3. view.legacy # Tombstone
    BY <1>1, EmptyTyped, NamesAssumption
  <2> QED  BY <1>2, <2>1, <2>2, <2>3, EmptyTyped DEF LegacyInv, LegacyExact
<1>5. JournalInv /\ BackupInv
  <2>1. view.legacy # Tombstone
    BY <1>1, EmptyTyped, NamesAssumption
  <2> QED  BY <1>1, <1>2, <2>1 DEF JournalInv, BackupInv
<1>6. IntentInv /\ ArchiveInv
  BY <1>1, <1>2 DEF IntentInv, ArchiveInv
<1>7. JobInv
  BY <1>2, NoJobTyped DEF JobInv, Idle
<1> QED  BY <1>3, <1>4, <1>5, <1>6, <1>7 DEF Inv, Safe

LEMMA NextSafe == Inv /\ [Next]_vars => Inv'
<1> SUFFICES ASSUME Inv, [Next]_vars PROVE Inv'
  OBVIOUS
<1>1. CASE \E o \in Op : Activate(o) \/ Replay(o) \/ DebitJournal(o)
  BY <1>1, ActivateSafe, ReplaySafe, DebitJournalSafe
<1>2. CASE Spend \/ Publish \/ Interrupt \/ PowerFails
  BY <1>2, SpendSafe, PublishSafe, InterruptSafe, PowerFailsSafe
<1>3. CASE Complete \/ Abandon \/ Resume
  BY <1>3, CompleteSafe, AbandonSafe, ResumeSafe
<1>4. CASE Sync
  BY <1>4, SyncNext, SyncLast
<1>5. CASE UNCHANGED vars
  <2>1. view' = view /\ disk' = disk /\ job' = job /\ SameHistory
    BY <1>5 DEF vars, history, SameHistory
  <2>2. LegacyInv' /\ JournalInv' /\ BackupInv' /\ IntentInv' /\ ArchiveInv'
    BY <2>1, LegacyKept, JournalKept, BackupKept, IntentKept, ArchiveKept DEF Inv, Safe
  <2>3. ActivationInv <=> ActivationInv'
    BY <2>1 DEF ActivationInv, Unpublished, PublishedJournal, BackedUp, Fenced, FencedForGood,
                IntentHolds, AccountOf, SameHistory
  <2>4. RecoveryInv <=> RecoveryInv'
    BY <2>1 DEF RecoveryInv, SameHistory
  <2>5. JobInv'
    BY <2>1, <2>3, <2>4 DEF Inv, Safe, JobInv, Idle
  <2> QED  BY <2>1, <2>2, <2>5 DEF Inv, Typed, Safe, SameHistory
<1> QED  BY <1>1, <1>2, <1>3, <1>4, <1>5 DEF Next

\* Types, and the invariant of the two directories and of the activity.
THEOREM ActivationSafe == Spec => []Inv
BY InitSafe, NextSafe, PTL DEF Spec

\* Accounting that can be read has every debit once and those callers were
\* told of, and at every moment what a power failure leaves holds a complete
\* copy of it: no publication, synchronization or recovery
\* (_journal_activation.py) loses or repeats a debit, wherever it stops.
THEOREM AccountingIsExact == Spec => []AccountingExact
<1>1. Inv => AccountingExact
  <2> SUFFICES ASSUME Inv PROVE AccountingExact
    OBVIOUS
  <2>1. Readable(view) =>
          /\ Current(view).spent = unkeyed + Cardinality(Current(view).ops)
          /\ told \subseteq Current(view).ops
    <3> SUFFICES ASSUME Readable(view) PROVE Exact(Current(view))
      BY DEF Exact
    <3>1. CASE view.journal = Absent
      BY <3>1, ReadableCases DEF Inv, Safe, LegacyInv, LegacyExact
    <3>2. CASE view.journal # Absent
      BY <3>2, ReadableCases DEF Inv, Safe, JournalInv
    <3> QED  BY <3>1, <3>2
  <2>2. \/ unkeyed = 0 /\ told = {}
        \/ \E copy \in Copies(disk) : Exact(copy)
    <3>1. Exact(Empty) => unkeyed = 0 /\ told = {}
      <4>1. Cardinality({}) = 0
        BY FS_EmptySet
      <4> QED  BY <4>1, EmptyTyped DEF Exact, Inv, Typed
    <3>2. disk.legacy # Absent /\ disk.legacy # Tombstone => disk.legacy \in Copies(disk)
      BY DEF Copies
    <3>3. disk.journal # Absent => disk.journal.accounting \in Copies(disk)
      <4> SUFFICES ASSUME disk.journal # Absent PROVE disk.journal.accounting \in Copies(disk)
        OBVIOUS
      <4>1. disk.journal.accounting \in Accounting
        BY DEF Inv, Typed, Directory, Journal
      <4> QED  BY <4>1, NamesAssumption DEF Copies
    <3>4. disk.backup # Absent => disk.backup \in Copies(disk)
      BY NamesAssumption DEF Copies, Inv, Typed, Directory
    <3>5. CASE disk.legacy # Tombstone
      <4>1. Exact(AccountOf(disk.legacy))
        BY <3>5 DEF Inv, Safe, LegacyInv, LegacyExact
      <4> QED  BY <3>1, <3>2, <3>5, <4>1 DEF AccountOf
    <3>6. CASE disk.legacy = Tombstone /\ disk.journal # Absent
      <4>1. view.legacy = Tombstone /\ view.journal = disk.journal
        BY <3>6 DEF Inv, Safe, LegacyInv, JournalInv
      <4>2. Exact(disk.journal.accounting)
        BY <3>6, <4>1 DEF Inv, Safe, JournalInv
      <4> QED  BY <3>3, <3>6, <4>2
    <3>7. CASE disk.legacy = Tombstone /\ disk.journal = Absent
      <4>1. Exact(AccountOf(disk.backup))
        BY <3>7 DEF Inv, Safe, LegacyInv, BackupInv
      <4> QED  BY <3>1, <3>4, <4>1 DEF AccountOf
    <3> QED  BY <3>5, <3>6, <3>7
  <2> QED  BY <2>1, <2>2 DEF AccountingExact, Exact
<1> QED  BY <1>1, ActivationSafe, PTL

\* An attempt that an operator resolved (resume_abandon) never has the
\* journal: its debit is never seen.
THEOREM AttemptHasOneOutcome == Spec => []OneOutcome
<1>1. Inv => OneOutcome
  BY DEF Inv, Safe, ArchiveInv, OneOutcome
<1> QED  BY <1>1, ActivationSafe, PTL
==============================================================================
