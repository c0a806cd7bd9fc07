-------------------------- MODULE JournalActivation --------------------------
(***************************************************************************)
(* The activation of the operation journal (_journal_activation.py): the   *)
(* first keyed debit moves the accounting from the legacy ledger file to a *)
(* journal, by a sequence of publications, each followed by a              *)
(* synchronization of the directory; and the two recoveries an operator    *)
(* has when the sequence stops: completion and abandonment.                *)
(*                                                                         *)
(* Everything happens under the lock of the legacy file, so one activity   *)
(* at a time is modelled.  A file that is published is flushed before it   *)
(* gets its name: a power failure can only take the name.  Digests are     *)
(* the contents they are of.                                               *)
(***************************************************************************)
EXTENDS Integers, Sequences, FiniteSets

CONSTANTS
  Op,          \* the ids of keyed debits
  NoOp, Absent, Tombstone,
  MaxAttempts, \* bound: activations
  MaxUnkeyed,  \* bound: debits without an id
  MaxFaults    \* bound: exceptions, kills and power failures

ASSUME BoundsAssumption == MaxAttempts \in Nat /\ MaxUnkeyed \in Nat /\ MaxFaults \in Nat

Attempts == 1..MaxAttempts
\* What an abandonment retains, as incidents beside the ledger.
Archive == Attempts \X {"legacy", "intent", "backup", "resolution"}

\* spent: the debits; bound: the incidents its recovery metadata binds.
Accounting == [spent : Nat, ops : SUBSET Op, bound : SUBSET Archive]
Journal == [attempt : Attempts, accounting : Accounting]
Intent == [attempt : Attempts, original : Accounting \cup {Absent}, candidate : Accounting]
Plan == [intent : Intent, observed : Accounting \cup {Absent}, backup : BOOLEAN,
         prior : SUBSET Archive]

ASSUME NamesAssumption ==
  /\ NoOp \notin Op
  /\ Absent # Tombstone /\ Absent \notin Accounting /\ Tombstone \notin Accounting
  /\ Absent \notin Journal /\ Absent \notin Intent /\ Absent \notin Plan

VARIABLES
  view,      \* the directory as processes see it
  disk,      \* the directory as a power failure leaves it, at worst
  job,       \* what the holder of the lock has left to do
  told,      \* history: the keyed debits callers were told of
  unkeyed,   \* history: the debits without an id
  attempts,  \* history: the activations begun
  strays,    \* history: whether a legacy writer ignored a blocked ledger
  outage,    \* history: whether power failed
  faults     \* history: how much of MaxFaults has happened

history == <<unkeyed, attempts, strays, outage, faults>>
vars == <<view, disk, job, told, history>>

\* Fault: the legacy accounting is fenced before it is retained.
ActivateFencingFirst == <<"intent", "tombstone", "backup", "journal", "sentinel", "clear">>

ActivateSteps == <<"intent", "backup", "journal", "tombstone", "sentinel", "clear">>
CompleteSteps == <<"tombstone", "sentinel", "clear">>

\* Fault: an original is removed before its archive is published.
ResumeRemovingFirst == <<"keepLegacy", "clear", "copyIntent", "copyBackup", "dropBackup",
                         "resolution", "final", "dropPlan">>

ResumeSteps == <<"keepLegacy", "copyIntent", "clear", "copyBackup", "dropBackup",
                 "resolution", "final", "dropPlan">>
AbandonSteps == <<"plan">> \o ResumeSteps

Step == {"intent", "backup", "journal", "tombstone", "sentinel", "clear", "plan", "keepLegacy",
         "copyIntent", "copyBackup", "dropBackup", "resolution", "final", "dropPlan"}
Job == [steps : Seq(Step), linked : BOOLEAN, op : Op \cup {NoOp},
        intent : Intent \cup {Absent}, plan : Plan \cup {Absent}]
Doing(steps, op, intent, plan) ==
  [steps |-> steps, linked |-> FALSE, op |-> op, intent |-> intent, plan |-> plan]
NoJob == Doing(<<>>, NoOp, Absent, Absent)
Idle == job.steps = <<>>

Empty == [spent |-> 0, ops |-> {}, bound |-> {}]

Init ==
  /\ view \in {[legacy |-> l, journal |-> Absent, backup |-> Absent, sentinel |-> 0,
                intent |-> Absent, plan |-> Absent, archived |-> {}] : l \in {Absent, Empty}}
  /\ disk = view /\ job = NoJob /\ told = {}
  /\ unkeyed = 0 /\ attempts = 0 /\ strays = FALSE /\ outage = FALSE /\ faults = 0

-----------------------------------------------------------------------------
(* Where the accounting is *)

Fence(d) ==
  d.journal # Absent \/ d.sentinel # 0 \/ d.backup # Absent \/ d.legacy = Tombstone

FenceHolds(d) ==
  /\ d.legacy = Tombstone /\ d.journal # Absent
  /\ d.sentinel = d.journal.attempt

Current(d) ==
  CASE d.journal # Absent -> d.journal.accounting
    [] d.journal = Absent /\ d.legacy \in {Absent, Tombstone} -> Empty
    [] OTHER -> d.legacy

\* _ledger_storage_path finds a file to read and its incidents are bound.
Readable(d) ==
  /\ d.intent = Absent /\ d.plan = Absent
  /\ Fence(d) => FenceHolds(d)
  /\ Current(d).bound = d.archived

\* One more debit, with the id o if it has one.
Debited(a, o) == [a EXCEPT !.spent = @ + 1, !.ops = @ \cup ({o} \ {NoOp})]

-----------------------------------------------------------------------------
(* Debits *)

Activate(o) ==
  /\ Idle /\ Readable(view)
  /\ view.journal = Absent /\ attempts < MaxAttempts
  /\ attempts' = attempts + 1
  /\ job' = Doing(ActivateSteps, o,
                  [attempt |-> attempts + 1, original |-> view.legacy,
                   candidate |-> Debited(Current(view), o)], Absent)
  /\ UNCHANGED <<view, disk, told, unkeyed, strays, outage, faults>>

\* An id that the journal records is answered from it.
Replay(o) ==
  /\ Idle /\ Readable(view)
  /\ view.journal # Absent /\ o \in Current(view).ops /\ o \notin told
  /\ told' = told \cup {o}
  /\ UNCHANGED <<view, disk, job, history>>

\* The journal is replaced and synchronized before the answer.
DebitJournal(o) ==
  /\ Idle /\ Readable(view)
  /\ view.journal # Absent /\ o \notin Current(view).ops
  /\ view' = [view EXCEPT !.journal.accounting = Debited(@, o)]
  /\ disk' = view' /\ told' = told \cup {o}
  /\ UNCHANGED <<job, history>>

\* A debit without an id; a legacy writer looks at its own file only.
Spend ==
  /\ Idle /\ unkeyed < MaxUnkeyed
  /\ \/ /\ Readable(view) /\ view.journal # Absent
        /\ view' = [view EXCEPT !.journal.accounting = Debited(@, NoOp)]
        /\ UNCHANGED strays
     \/ /\ view.legacy \in Accounting
        /\ view' = [view EXCEPT !.legacy = Debited(@, NoOp)]
        /\ strays' = (strays \/ ~Readable(view))
  /\ disk' = view' /\ unkeyed' = unkeyed + 1
  /\ UNCHANGED <<job, told, attempts, outage, faults>>

-----------------------------------------------------------------------------
(* The operator's recoveries: what each requires *)

\* Fault: the completion does not look at what became of the legacy file.
CompletableThoughChanged ==
  /\ view.plan = Absent /\ view.intent # Absent
  /\ view.journal = [attempt |-> view.intent.attempt, accounting |-> view.intent.candidate]
  /\ view.intent.candidate.bound = view.archived
  /\ view.backup = view.intent.original
  /\ view.sentinel \in {0, view.intent.attempt}

Completable ==
  /\ view.plan = Absent /\ view.intent # Absent
  /\ view.journal = [attempt |-> view.intent.attempt, accounting |-> view.intent.candidate]
  /\ view.intent.candidate.bound = view.archived
  /\ view.legacy \in {Tombstone, view.intent.original}
  /\ view.backup = view.intent.original
  /\ view.sentinel \in {0, view.intent.attempt}

Complete ==
  /\ Idle /\ Completable
  /\ job' = Doing(CompleteSteps, NoOp, view.intent, Absent)
  /\ UNCHANGED <<view, disk, told, history>>

\* Fault: only the sentinel excludes an abandonment.
UnsealedOnly == view.sentinel = 0 /\ view.legacy # Tombstone

\* refuse_completion
NotCompleted == view.journal = Absent /\ view.sentinel = 0 /\ view.legacy # Tombstone

ReviewOf(intent) ==
  [intent |-> intent, observed |-> view.legacy, backup |-> view.backup # Absent,
   prior |-> view.archived]

Abandon ==
  /\ Idle /\ NotCompleted
  /\ view.plan = Absent /\ view.intent # Absent
  /\ view.legacy = Absent => view.intent.original = Absent
  /\ view.backup \in {Absent, view.intent.original}
  /\ job' = Doing(AbandonSteps, NoOp, view.intent, ReviewOf(view.intent))
  /\ UNCHANGED <<view, disk, told, history>>

\* The archives a plan makes.
Retained(plan) ==
  {plan.intent.attempt} \X
    ({"intent", "resolution"} \cup (IF plan.observed # Absent THEN {"legacy"} ELSE {})
                              \cup (IF plan.backup THEN {"backup"} ELSE {}))

Final(plan) ==
  [(IF plan.observed = Absent THEN Empty ELSE plan.observed) EXCEPT
     !.bound = plan.prior \cup Retained(plan)]

Resumable(plan) ==
  /\ view.legacy \in {plan.observed, Final(plan)}
  /\ plan.prior \subseteq view.archived /\ view.archived \subseteq plan.prior \cup Retained(plan)
  /\ view.intent = Absent => <<plan.intent.attempt, "intent">> \in view.archived
  /\ view.intent \in {Absent, plan.intent}
  /\ IF plan.backup
       THEN view.backup = plan.intent.original
              \/ (view.backup = Absent /\ <<plan.intent.attempt, "backup">> \in view.archived)
       ELSE view.backup = Absent

\* The frozen review goes on, each of its publications that is there is kept.
Resume ==
  /\ Idle /\ NotCompleted
  /\ view.plan # Absent
  /\ Resumable(view.plan)
  /\ job' = Doing(ResumeSteps, NoOp, view.plan.intent, view.plan)
  /\ UNCHANGED <<view, disk, told, history>>

-----------------------------------------------------------------------------
(* The publications, one name each *)

Kept(d, kind) == [d EXCEPT !.archived = @ \cup {<<job.intent.attempt, kind>>}]

Published(step, d) ==
  CASE step = "intent" -> [d EXCEPT !.intent = job.intent]
    [] step = "backup" -> [d EXCEPT !.backup = job.intent.original]
    [] step = "journal" -> [d EXCEPT !.journal = [attempt |-> job.intent.attempt,
                                                  accounting |-> job.intent.candidate]]
    [] step = "tombstone" -> [d EXCEPT !.legacy = Tombstone]
    [] step = "sentinel" -> [d EXCEPT !.sentinel = job.intent.attempt]
    [] step = "clear" -> [d EXCEPT !.intent = Absent]
    [] step = "plan" -> [d EXCEPT !.plan = job.plan]
    [] step = "keepLegacy" -> IF job.plan.observed # Absent THEN Kept(d, "legacy") ELSE d
    [] step = "copyIntent" -> Kept(d, "intent")
    [] step = "copyBackup" -> IF job.plan.backup THEN Kept(d, "backup") ELSE d
    [] step = "dropBackup" -> [d EXCEPT !.backup = Absent]
    [] step = "resolution" -> Kept(d, "resolution")
    [] step = "final" -> [d EXCEPT !.legacy = Final(job.plan)]
    [] step = "dropPlan" -> [d EXCEPT !.plan = Absent]

Publish ==
  /\ ~Idle /\ ~job.linked
  /\ view' = Published(Head(job.steps), view)
  /\ job' = [job EXCEPT !.linked = TRUE]
  /\ UNCHANGED <<disk, told, history>>

Answered == told \cup ({job.op} \ {NoOp})

Sync ==
  /\ job.linked
  /\ disk' = view
  /\ IF Tail(job.steps) = <<>>
       THEN job' = NoJob /\ told' = Answered
       ELSE /\ job' = [job EXCEPT !.steps = Tail(@), !.linked = FALSE]
            /\ UNCHANGED told
  /\ UNCHANGED <<view, history>>

\* Fault: a journal that can be seen is taken for a committed one.
JournalSeen == view.journal # Absent

\* The sentinel is synchronized: the debit is committed.
Sealed == job.steps = <<"clear">>

\* An exception or a kill.  The caller of a committed debit is answered in
\* spite of an exception that follows.
Interrupt ==
  /\ ~Idle /\ faults < MaxFaults
  /\ told' \in {told} \cup (IF Sealed THEN {Answered} ELSE {})
  /\ job' = NoJob /\ faults' = faults + 1
  /\ UNCHANGED <<view, disk, unkeyed, attempts, strays, outage>>

\* Of what was not synchronized, any part is lost.
PowerFails ==
  /\ faults < MaxFaults
  /\ \E lost \in SUBSET {f \in DOMAIN view : view[f] # disk[f]} :
       view' = [f \in DOMAIN view |-> IF f \in lost THEN disk[f] ELSE view[f]]
  /\ disk' = view' /\ job' = NoJob
  /\ outage' = TRUE /\ faults' = faults + 1
  /\ UNCHANGED <<told, unkeyed, attempts, strays>>

-----------------------------------------------------------------------------
Next ==
  \/ \E o \in Op : Activate(o) \/ Replay(o) \/ DebitJournal(o)
  \/ Spend
  \/ Complete \/ Abandon \/ Resume
  \/ Publish \/ Sync \/ Interrupt \/ PowerFails

Spec == Init /\ [][Next]_vars

\* A holder of the lock goes on, and an operator recovers what is blocked.
Fairness == WF_vars(Publish) /\ WF_vars(Sync) /\ WF_vars(Complete) /\ WF_vars(Abandon \/ Resume)

FairSpec == Spec /\ Fairness

-----------------------------------------------------------------------------
(* Properties *)

Copies(d) ==
  ({d.legacy, d.backup} \cup {j.accounting : j \in {d.journal} \ {Absent}})
    \ {Absent, Tombstone}

\* Whatever was interrupted, completed, abandoned or written by a legacy
\* writer in between, accounting that can be read has every debit once, those
\* without an id and one for each id it records, and the ids every caller was
\* told of; and at every moment what a power failure leaves holds a complete
\* copy of it, in the legacy file, the journal or the backup, unless there has
\* been nothing to account for.
AccountingExact ==
  /\ Idle /\ Readable(view) =>
       /\ Current(view).spent = unkeyed + Cardinality(Current(view).ops)
       /\ told \subseteq Current(view).ops
  /\ \/ unkeyed = 0 /\ told = {}
     \/ \E copy \in Copies(disk) :
          told \subseteq copy.ops /\ copy.spent = unkeyed + Cardinality(copy.ops)

\* An attempt has one outcome: an operator who abandoned it, and may say so
\* elsewhere, never sees its debit in a journal.
OneOutcome ==
  \A a \in Attempts :
    <<a, "resolution">> \in view.archived =>
      view.journal = Absent \/ view.journal.attempt # a

\* With the legacy writers stopped and the power on, whatever an attempt or a
\* recovery was interrupted in, the two recoveries make the accounting
\* readable again.
Recovers == [](~strays /\ ~outage) => (~Readable(view) ~> Readable(view))
=============================================================================
