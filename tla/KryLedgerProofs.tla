-------------------------- MODULE KryLedgerProofs --------------------------
(***************************************************************************)
(* Proofs about KryLedger, for any set of processes, operations, events,   *)
(* markers and amounts.                                                    *)
(***************************************************************************)
EXTENDS KryLedger, SumTheorems

-----------------------------------------------------------------------------
(* What the operators on accounts return *)

LEMMA BlankType == Blank \in Account /\ FirstAccount \in Account
  BY OpeningAssumption DEF Blank, FirstAccount, Account, Outcome

LEMMA NoJobType == NoJob \in Job
  BY BlankType DEF NoJob, Job, JobRecord, Kind

LEMMA DownType ==
  /\ Down \in Memory
  /\ \A b \in BOOLEAN : Unread(b) \in Memory
  BY BlankType DEF Down, Unread, Memory

LEMMA AdoptedType ==
  ASSUME NEW a \in Account PROVE Adopted(a) \in Memory
  BY DEF Adopted, Memory

LEMMA RequestType ==
  ASSUME NEW r \in Requests PROVE r \in Job
  BY BlankType DEF Requests, Request, Job, JobRecord, Kind

LEMMA CreditedType ==
  ASSUME NEW a \in Account, NEW n \in Int, NEW t \in Tx
  PROVE  Credited(a, n, t) \in Account
  BY DEF Credited, Account

LEMMA DebitedType ==
  ASSUME NEW a \in Account, NEW n \in Int, NEW t \in Tx
  PROVE  Debited(a, n, t) \in Account
  BY DEF Debited, Account

LEMMA JournalledType ==
  ASSUME NEW a \in Account, NEW o \in Op, NEW asked \in Amount, NEW paid \in Nat
  PROVE  Journalled(a, o, asked, paid) \in Account
  BY DEF Journalled, Account, Outcome

LEMMA MergeType ==
  ASSUME NEW a \in Account, NEW m \in Account
  PROVE  Merge(a, m, a) \in Account
  BY DEF Merge, MergedField, Account

LEMMA CreditedBalance ==
  ASSUME NEW a \in Account, NEW n \in Nat, NEW t \in Tx, Balanced(a)
  PROVE  Balanced(Credited(a, n, t))
  BY DEF Credited, Account, Balanced

LEMMA DebitedBalance ==
  ASSUME NEW a \in Account, NEW n \in Nat, NEW t \in Tx, Balanced(a), n <= a.bal
  PROVE  Balanced(Debited(a, n, t))
  BY DEF Debited, Account, Balanced

LEMMA JournalledBalance ==
  ASSUME NEW a \in Account, NEW o, NEW asked, NEW paid, Balanced(a)
  PROVE  Balanced(Journalled(a, o, asked, paid))
  BY DEF Journalled, Account, Balanced

\* Merged over the file it was read from, a balanced account stays so.
LEMMA MergeBalance ==
  ASSUME NEW a \in Account, NEW m \in Account, Balanced(m)
  PROVE  Balanced(Merge(a, m, a))
  BY DEF Merge, MergedField, Account, Balanced

LEMMA BlankBalance ==
  /\ Balanced(Blank) /\ Balanced(FirstAccount)
  /\ Balanced(NoJob.img)
  /\ \A r \in Requests : Balanced(r.img)
  BY OpeningAssumption DEF Balanced, Blank, FirstAccount, NoJob, Requests, Request

LEMMA PaidRange ==
  ASSUME NEW x \in Amount, NEW y \in Int, y >= 0
  PROVE  /\ Smaller(x, y) \in Nat
         /\ Smaller(x, y) <= y
         /\ Smaller(x, y) # 0 => Smaller(x, y) >= 1
  BY AmountAssumption DEF Smaller

-----------------------------------------------------------------------------
(* Types and the double entry, proved together: a recorded outcome is a    *)
(* natural number because the balance it was bounded by is not negative.   *)

LEMMA QuarantineType ==
  ASSUME TypeOK, NEW p \in Proc, QuarantineIfDamaged(p)
  PROVE  /\ damage' \in {"none", "bytes", "moved"}
         /\ incidents' \subseteq Incident /\ stableIncidents' \subseteq Incident
         /\ disk' = disk /\ stableDisk' = stableDisk
  BY DEF TypeOK, QuarantineIfDamaged, FreshIncidents, filesVars

\* The write of a public operation, whatever the operation is.
LEMMA WriteType ==
  ASSUME TypeOK, DoubleEntry, NEW p \in Proc, NEW m \in Account, Balanced(m),
         NEW t \in Tx \cup {NoTx}, Write(p, disk, m, t), UNCHANGED lock
  PROVE  TypeOK' /\ DoubleEntry'
<1>1. Merge(disk, m, disk) \in Account /\ Balanced(Merge(disk, m, disk))
  BY MergeType, MergeBalance DEF TypeOK
<1>2. [up |-> TRUE, acct |-> m, base |-> disk, blocked |-> FALSE] \in Memory
  BY DEF Memory, TypeOK
<1>3. mem' \in [Proc -> Memory]
  BY <1>2 DEF Write, TypeOK
<1>4. job' \in [Proc -> Job]
  <2> DEFINE j == [job[p] EXCEPT !.img = Merge(disk, m, disk)]
  <2>1. j \in Job
    BY <1>1 DEF TypeOK, Job, JobRecord
  <2>2. [j EXCEPT !.tx = t] \in Job
    BY <2>1 DEF Job, JobRecord
  <2>3. job' = [job EXCEPT ![p] = [j EXCEPT !.tx = t]]
    BY DEF Write
  <2> QED  BY <2>2, <2>3 DEF TypeOK
<1>5. TypeOK'
  BY <1>3, <1>4 DEF Write, TypeOK, Goto, filesVars, Stage, Working
<1>6. DoubleEntry'
  BY <1>1 DEF Write, DoubleEntry, TypeOK, filesVars, Memory, Job, JobRecord
<1> QED  BY <1>5, <1>6

LEMMA ReleaseType ==
  ASSUME TypeOK, DoubleEntry, NEW p \in Proc, Release(p)
  PROVE  /\ lock' \in Proc \cup {NoProc}
         /\ pc' \in [Proc -> Stage]
         /\ job' \in [Proc -> Job]
         /\ \A q \in Proc : Balanced(job'[q].img)
  BY NoJobType, BlankBalance DEF TypeOK, DoubleEntry, Release, Stage

\* A step that leaves the processes' caches alone, or blocks one of them,
\* keeps their types and balances.
LEMMA BlockType ==
  ASSUME TypeOK, DoubleEntry, NEW p \in Proc, Block(p) \/ UNCHANGED mem
  PROVE  /\ mem' \in [Proc -> Memory]
         /\ \A q \in Proc : Balanced(mem'[q].acct) /\ Balanced(mem'[q].base)
  BY DEF TypeOK, DoubleEntry, Block, Memory

LEMMA RollbackType ==
  ASSUME TypeOK, DoubleEntry, NEW p \in Proc, NEW b \in BOOLEAN, mem' = RolledBack(p, b)
  PROVE  /\ mem' \in [Proc -> Memory]
         /\ \A q \in Proc : Balanced(mem'[q].acct) /\ Balanced(mem'[q].base)
  BY DEF TypeOK, DoubleEntry, RolledBack, Memory

LEMMA AnswerType ==
  ASSUME TypeOK, NEW p \in Proc, NEW a \in {"yes", "no"}, Answer(p, a) \/ UNCHANGED answer
  PROVE  answer' \in [Tx -> {"unused", "pending", "yes", "no"}]
  BY DEF TypeOK, Answer

LEMMA ReportType ==
  ASSUME TypeOK, NEW p \in Proc, Report(p)
  PROVE  /\ answer' \in [Tx -> {"unused", "pending", "yes", "no"}]
         /\ told' \in [Op -> Outcome]
<1>1. job[p].img.ops \in [Op -> Outcome]
  BY DEF TypeOK, Job, JobRecord, Account
<1>2. told' \in [Op -> Outcome]
  BY <1>1 DEF TypeOK, Report
<1> QED  BY <1>2, AnswerType DEF Report

LEMMA AccountingStep ==
  ASSUME TypeOK, DoubleEntry, [Next]_vars
  PROVE  TypeOK' /\ DoubleEntry'
<1> USE DEF ghostVars
<1>1. ASSUME NEW p \in Proc, Load(p) PROVE TypeOK' /\ DoubleEntry'
  <2>1. /\ mem' \in [Proc -> Memory]
        /\ \A q \in Proc : Balanced(mem'[q].acct) /\ Balanced(mem'[q].base)
    <3>1. \E m \in {Adopted(disk), Unread(TRUE), Unread(FALSE)} : mem' = [mem EXCEPT ![p] = m]
      BY <1>1 DEF Load
    <3>2. ASSUME NEW m \in {Adopted(disk), Unread(TRUE), Unread(FALSE)}
          PROVE  m \in Memory /\ Balanced(m.acct) /\ Balanced(m.base)
      <4>1. m.acct \in {disk, Blank} /\ m.base \in {disk, Blank}
        BY DEF Adopted, Unread
      <4>2. m \in Memory
        BY AdoptedType, DownType DEF TypeOK
      <4> QED
        BY <4>1, <4>2, BlankBalance DEF DoubleEntry
    <3> QED
      BY <3>1, <3>2 DEF TypeOK, DoubleEntry
  <2>2. QuarantineIfDamaged(p)
    BY <1>1 DEF Load, QuarantineIfDamaged
  <2> QED
    BY <1>1, <2>1, <2>2, QuarantineType DEF Load, TypeOK, DoubleEntry
<1>2. ASSUME NEW p \in Proc, NEW o \in Op, Lookup(p, o) PROVE TypeOK' /\ DoubleEntry'
  <2>1. told' \in [Op -> Outcome]
    BY <1>2 DEF Lookup, TypeOK, Account
  <2>2. QuarantineIfDamaged(p) /\ (Block(p) \/ UNCHANGED mem)
    BY <1>2 DEF Lookup, QuarantineIfDamaged
  <2> QED
    BY <1>2, <2>1, <2>2, QuarantineType, BlockType DEF Lookup, TypeOK, DoubleEntry
<1>3. ASSUME NEW p \in Proc, Call(p) PROVE TypeOK' /\ DoubleEntry'
  <2>1. job' \in [Proc -> Job] /\ \A q \in Proc : Balanced(job'[q].img)
    BY <1>3, RequestType, BlankBalance DEF Call, TypeOK, DoubleEntry
  <2> QED
    BY <1>3, <2>1 DEF Call, TypeOK, DoubleEntry, filesVars, Stage
<1>4. ASSUME NEW p \in Proc, Refuse(p) PROVE TypeOK' /\ DoubleEntry'
  BY <1>4, ReleaseType, QuarantineType, BlockType DEF Refuse, TypeOK, DoubleEntry
<1>5. ASSUME NEW p \in Proc, EndUnwritten(p) \/ InterruptCommitted(p)
      PROVE  TypeOK' /\ DoubleEntry'
  BY <1>5, ReleaseType
     DEF EndUnwritten, InterruptCommitted, TypeOK, DoubleEntry, filesVars
<1>6. ASSUME NEW p \in Proc, InterruptRefresh(p) PROVE TypeOK' /\ DoubleEntry'
  BY <1>6, ReleaseType, BlockType DEF InterruptRefresh, TypeOK, DoubleEntry, filesVars
<1>7. ASSUME NEW p \in Proc, Replay(p) PROVE TypeOK' /\ DoubleEntry'
  <2>1. told' \in [Op -> Outcome]
    BY <1>7 DEF Replay, Recorded, TypeOK, Account
  <2> QED
    BY <1>7, <2>1, ReleaseType DEF Replay, TypeOK, DoubleEntry, filesVars
<1>8. ASSUME NEW p \in Proc, Earn(p) PROVE TypeOK' /\ DoubleEntry'
  <2>1. PICK t \in FreshTx : Write(p, disk, Credited(disk, job[p].amt, t), t)
    BY <1>8 DEF Earn
  <2>2. job[p].amt \in Amount
    BY <1>8 DEF Earn, TypeOK, Job
  <2>3. job[p].amt \in Nat /\ t \in Tx /\ disk \in Account /\ Balanced(disk)
    BY <2>2, AmountAssumption DEF TypeOK, DoubleEntry, FreshTx
  <2>4. UNCHANGED lock
    BY <2>1 DEF Write, Goto
  <2> QED
    BY <2>1, <2>3, <2>4, CreditedType, CreditedBalance, WriteType
<1>9. ASSUME NEW p \in Proc, Spend(p) PROVE TypeOK' /\ DoubleEntry'
  <2> DEFINE paid == Smaller(job[p].amt, disk.bal)
  <2>1. job[p].amt \in Amount
    BY <1>9 DEF Spend, Refreshed, Accounting, TypeOK, Job
  <2>2. /\ disk \in Account /\ Balanced(disk) /\ disk.bal \in Int
        /\ paid \in Nat /\ paid <= disk.bal
    BY <2>1, PaidRange DEF TypeOK, DoubleEntry, Account, Balanced
  <2>3. CASE mem' = [mem EXCEPT ![p] = Adopted(disk)] /\ Release(p)
               /\ UNCHANGED <<filesVars, ghostVars>>
    <3>1. /\ mem' \in [Proc -> Memory]
          /\ \A q \in Proc : Balanced(mem'[q].acct) /\ Balanced(mem'[q].base)
      BY <2>2, <2>3, AdoptedType DEF TypeOK, DoubleEntry, Adopted
    <3> QED
      BY <2>3, <3>1, ReleaseType DEF TypeOK, DoubleEntry, filesVars
  <2>4. ASSUME NEW t \in FreshTx, Write(p, disk, Debited(disk, paid, t), t)
        PROVE  TypeOK' /\ DoubleEntry'
    <3>1. t \in Tx /\ UNCHANGED lock
      BY <2>4 DEF FreshTx, Write, Goto
    <3> QED
      BY <2>2, <2>4, <3>1, DebitedType, DebitedBalance, WriteType
  <2> QED
    BY <1>9, <2>3, <2>4 DEF Spend
<1>10. ASSUME NEW p \in Proc, KeyedDebit(p) PROVE TypeOK' /\ DoubleEntry'
  <2> DEFINE o == job[p].op
             asked == job[p].amt
             paid == Smaller(asked, disk.bal)
  <2>1. o \in Op /\ asked \in Amount
    BY <1>10 DEF KeyedDebit, TypeOK, Job
  <2>2. /\ disk \in Account /\ Balanced(disk) /\ disk.bal \in Int
        /\ paid \in Nat /\ paid <= disk.bal
    BY <2>1, PaidRange DEF TypeOK, DoubleEntry, Account, Balanced
  <2>3. CASE Write(p, disk, Journalled(disk, o, asked, 0), NoTx)
    <3>1. UNCHANGED lock
      BY <2>3 DEF Write, Goto
    <3>2. /\ Journalled(disk, o, asked, 0) \in Account
          /\ Balanced(Journalled(disk, o, asked, 0))
      BY <2>2, <2>1, JournalledType, JournalledBalance
    <3> QED
      BY <2>3, <3>1, <3>2, WriteType
  <2>4. ASSUME NEW t \in FreshTx,
               Write(p, disk, Journalled(Debited(disk, paid, t), o, asked, paid), t)
        PROVE  TypeOK' /\ DoubleEntry'
    <3>1. t \in Tx /\ UNCHANGED lock
      BY <2>4 DEF FreshTx, Write, Goto
    <3>2. Debited(disk, paid, t) \in Account /\ Balanced(Debited(disk, paid, t))
      BY <2>2, <3>1, DebitedType, DebitedBalance
    <3>3. /\ Journalled(Debited(disk, paid, t), o, asked, paid) \in Account
          /\ Balanced(Journalled(Debited(disk, paid, t), o, asked, paid))
      BY <2>2, <2>1, <3>2, JournalledType, JournalledBalance
    <3> QED
      BY <2>4, <3>1, <3>3, WriteType
  <2> QED
    BY <1>10, <2>3, <2>4 DEF KeyedDebit
<1>11. ASSUME NEW p \in Proc, Acknowledge(p) PROVE TypeOK' /\ DoubleEntry'
  <2> DEFINE img == [disk EXCEPT !.ack = incidents]
  <2>1. img \in Account /\ Balanced(img)
    BY DEF TypeOK, DoubleEntry, Account, Balanced
  <2>2. job' \in [Proc -> Job] /\ \A q \in Proc : Balanced(job'[q].img)
    BY <1>11, <2>1 DEF Acknowledge, TypeOK, DoubleEntry, Job, JobRecord
  <2> QED
    BY <1>11, <2>2 DEF Acknowledge, TypeOK, DoubleEntry, Goto, filesVars, Stage, Working
<1>12. ASSUME NEW p \in Proc, PublishIntent(p) PROVE TypeOK' /\ DoubleEntry'
  <2>1. PICK i \in FreshIncidents : /\ incidents' = incidents \cup {i}
                                    /\ job' = [job EXCEPT ![p].own = i]
    BY <1>12 DEF PublishIntent
  <2>2. i \in Incident
    BY DEF FreshIncidents
  <2>3. job' \in [Proc -> Job] /\ \A q \in Proc : Balanced(job'[q].img)
    BY <2>1, <2>2 DEF TypeOK, DoubleEntry, Job, JobRecord
  <2> QED
    BY <1>12, <2>1, <2>2, <2>3
       DEF PublishIntent, TypeOK, DoubleEntry, Goto, Stage, Working
<1>13. ASSUME NEW p \in Proc, SyncIntent(p) PROVE TypeOK' /\ DoubleEntry'
  BY <1>13 DEF SyncIntent, Sync, TypeOK, DoubleEntry, Goto, Stage, Working
<1>14. ASSUME NEW p \in Proc, Replace(p) PROVE TypeOK' /\ DoubleEntry'
  BY <1>14 DEF Replace, TypeOK, DoubleEntry, Goto, Stage, Working, Job, JobRecord
<1>15. ASSUME NEW p \in Proc, SyncReplace(p) PROVE TypeOK' /\ DoubleEntry'
  <2>1. job[p].img \in Account /\ Balanced(job[p].img)
    BY DEF TypeOK, DoubleEntry, Job, JobRecord
  <2>2. /\ mem' \in [Proc -> Memory]
        /\ \A q \in Proc : Balanced(mem'[q].acct) /\ Balanced(mem'[q].base)
    BY <1>15, <2>1, AdoptedType DEF SyncReplace, TypeOK, DoubleEntry, Adopted
  <2> QED
    BY <1>15, <2>2 DEF SyncReplace, Sync, TypeOK, DoubleEntry, Goto, Stage, Working
<1>16. ASSUME NEW p \in Proc, Commit(p) PROVE TypeOK' /\ DoubleEntry'
  <2>1. job[p].img \in Account /\ Balanced(job[p].img)
    BY DEF TypeOK, DoubleEntry, Job, JobRecord
  <2>2. /\ mem' \in [Proc -> Memory]
        /\ \A q \in Proc : Balanced(mem'[q].acct) /\ Balanced(mem'[q].base)
    BY <1>16, <2>1, AdoptedType DEF Commit, TypeOK, DoubleEntry, Adopted
  <2> QED
    BY <1>16, <2>2, ReleaseType, ReportType DEF Commit, TypeOK, DoubleEntry
<1>17. ASSUME NEW p \in Proc, CommitMarkerStays(p) PROVE TypeOK' /\ DoubleEntry'
  <2>1. Block(p) \/ UNCHANGED mem
    BY <1>17 DEF CommitMarkerStays
  <2>2. /\ answer' \in [Tx -> {"unused", "pending", "yes", "no"}]
        /\ told' \in [Op -> Outcome]
    BY <1>17, ReportType DEF CommitMarkerStays, TypeOK
  <2> QED
    BY <1>17, <2>1, <2>2, BlockType, ReleaseType
       DEF CommitMarkerStays, TypeOK, DoubleEntry, filesVars
<1>18. ASSUME NEW p \in Proc, FailKnown(p) PROVE TypeOK' /\ DoubleEntry'
  BY <1>18, RollbackType, ReleaseType, AnswerType
     DEF FailKnown, FailBefore, TypeOK, DoubleEntry
<1>19. ASSUME NEW p \in Proc, FailCleanup(p) \/ FailUncertain(p)
       PROVE  TypeOK' /\ DoubleEntry'
  BY <1>19, RollbackType, ReleaseType
     DEF FailCleanup, FailUncertain, TypeOK, DoubleEntry, filesVars
<1>20. ASSUME NEW p \in Proc, Kill(p) PROVE TypeOK' /\ DoubleEntry'
  <2>1. /\ mem' \in [Proc -> Memory]
        /\ \A q \in Proc : Balanced(mem'[q].acct) /\ Balanced(mem'[q].base)
    BY <1>20, DownType, BlankBalance DEF Kill, TypeOK, DoubleEntry, Down
  <2>2. job' \in [Proc -> Job] /\ \A q \in Proc : Balanced(job'[q].img)
    BY <1>20, NoJobType, BlankBalance DEF Kill, TypeOK, DoubleEntry
  <2> QED
    BY <1>20, <2>1, <2>2 DEF Kill, TypeOK, DoubleEntry, filesVars, Stage
<1>21. ASSUME PowerFailure PROVE TypeOK' /\ DoubleEntry'
  <2>1. /\ mem' \in [Proc -> Memory]
        /\ \A q \in Proc : Balanced(mem'[q].acct) /\ Balanced(mem'[q].base)
    BY <1>21, DownType, BlankBalance DEF PowerFailure, Down
  <2>2. job' \in [Proc -> Job] /\ \A q \in Proc : Balanced(job'[q].img)
    BY <1>21, NoJobType, BlankBalance DEF PowerFailure
  <2> QED
    BY <1>21, <2>1, <2>2 DEF PowerFailure, TypeOK, DoubleEntry, Stage
<1>22. ASSUME Damage \/ Restore PROVE TypeOK' /\ DoubleEntry'
  BY <1>22 DEF Damage, Restore, TypeOK, DoubleEntry
<1>23. CASE UNCHANGED vars
  BY <1>23 DEF vars, filesVars, TypeOK, DoubleEntry
<1> QED
  BY <1>1, <1>2, <1>3, <1>4, <1>5, <1>6, <1>7, <1>8, <1>9, <1>10, <1>11, <1>12,
     <1>13, <1>14, <1>15, <1>16, <1>17, <1>18, <1>19, <1>20, <1>21, <1>22, <1>23
     DEF Next, Operate, Save, Fail

\* Every state of the ledger is well typed and every account in it balanced.
THEOREM WellFormed == Spec => [](TypeOK /\ DoubleEntry)
<1>1. Init => TypeOK /\ DoubleEntry
  BY BlankType, BlankBalance, NoJobType, DownType
     DEF Init, TypeOK, DoubleEntry, Stage, Outcome, Down
<1>2. TypeOK /\ DoubleEntry /\ [Next]_vars => TypeOK' /\ DoubleEntry'
  BY AccountingStep
<1> QED
  BY <1>1, <1>2, PTL DEF Spec

-----------------------------------------------------------------------------
(* The save protocol and what callers are told *)

\* Merged over the file it was read from, an account that keeps the file's
\* outcomes still keeps them, and keeps the file's acknowledgements.
LEMMA MergeKeeps ==
  ASSUME NEW a \in Account, NEW m \in Account, KeepsOutcomes(m, a)
  PROVE  /\ KeepsOutcomes(Merge(a, m, a), a)
         /\ Merge(a, m, a).ack = a.ack
  BY DEF Merge, KeepsOutcomes, Account

\* Once an operation has ended nobody is inside one.
LEMMA NobodyInside ==
  ASSUME Protocol, NEW p \in Proc, pc \in [Proc -> Stage], job \in [Proc -> Job],
         pc[p] # "idle", Release(p)
  PROVE  \A q \in Proc : pc'[q] = "idle" /\ job'[q].own = NoIncident
  BY NoneAssumption DEF Protocol, HolderOnly, OwnMarker, Release, NoJob

\* With nobody inside an operation the protocol only speaks of the files.
LEMMA QuietProtocol ==
  ASSUME \A q \in Proc : pc'[q] = "idle" /\ job'[q].own = NoIncident,
         disk' # stableDisk' => \E i \in incidents' : i \notin disk'.ack,
         StableBelow'
  PROVE  Protocol'
<1>1. HolderOnly' /\ ImageFollowsDisk' /\ OwnMarker' /\ StartsClean'
  BY DEF HolderOnly, ImageFollowsDisk, OwnMarker, StartsClean, InSave, Working
<1>2. Marked'
  BY DEF Marked
<1> QED
  BY <1>1, <1>2 DEF Protocol

\* A readable file is durable.
LEMMA ReadableIsStable ==
  ASSUME Protocol, NEW p \in Proc, Readable(p) PROVE disk = stableDisk
  BY DEF Protocol, Marked, Readable

\* Quarantining only adds an incident.
LEMMA QuarantineKeeps ==
  ASSUME TypeOK, Protocol, NEW p \in Proc, QuarantineIfDamaged(p)
  PROVE  /\ disk' = disk /\ stableDisk' = stableDisk
         /\ disk' # stableDisk' => \E i \in incidents' : i \notin disk'.ack
  BY DEF QuarantineIfDamaged, filesVars, Protocol, Marked

\* Nothing changes but one operation's end, and perhaps an incident is added.
LEMMA EndKeeps ==
  ASSUME TypeOK, Protocol, NEW p \in Proc, pc[p] # "idle", Release(p),
         QuarantineIfDamaged(p)
  PROVE  Protocol'
<1>1. \A q \in Proc : pc'[q] = "idle" /\ job'[q].own = NoIncident
  BY NobodyInside DEF TypeOK
<1>2. StableBelow'
  BY QuarantineKeeps DEF Protocol, StableBelow, KeepsOutcomes
<1> QED
  BY <1>1, <1>2, QuietProtocol, QuarantineKeeps

\* Nobody is inside an operation, and perhaps an incident is added.
LEMMA LookKeeps ==
  ASSUME TypeOK, Protocol, lock = NoProc, NEW p \in Proc, QuarantineIfDamaged(p),
         UNCHANGED <<pc, job>>
  PROVE  Protocol'
<1>1. \A q \in Proc : pc'[q] = "idle" /\ job'[q].own = NoIncident
  BY NoneAssumption DEF Protocol, HolderOnly, OwnMarker
<1>2. StableBelow'
  BY QuarantineKeeps DEF Protocol, StableBelow, KeepsOutcomes
<1> QED
  BY <1>1, <1>2, QuietProtocol, QuarantineKeeps

\* The step from the refreshed cache to the temporary file.
LEMMA WriteKeeps ==
  ASSUME TypeOK, Protocol, NEW p \in Proc, Refreshed(p),
         NEW m \in Account, KeepsOutcomes(m, disk),
         NEW t \in Tx \cup {NoTx}, Write(p, disk, m, t), UNCHANGED lock
  PROVE  Protocol'
<1> DEFINE img == Merge(disk, m, disk)
<1>1. /\ KeepsOutcomes(img, disk) /\ img.ack = disk.ack
      /\ disk \in Account
  BY MergeKeeps DEF TypeOK
<1>2. /\ lock = p /\ pc[p] = "locked" /\ job[p].own = NoIncident
      /\ incidents = disk.ack /\ disk = stableDisk
  BY ReadableIsStable
     DEF Refreshed, Accounting, Readable, Protocol, HolderOnly, OwnMarker
<1>3. /\ job'[p].img = img /\ job'[p].own = NoIncident
      /\ pc' = [pc EXCEPT ![p] = "tmp"]
      /\ \A q \in Proc : q # p => job'[q] = job[q]
      /\ UNCHANGED filesVars
  BY <1>2 DEF Write, Goto, TypeOK, Job, JobRecord
<1>4. \A q \in Proc : q # p => pc'[q] = "idle"
  BY <1>2, <1>3 DEF Protocol, HolderOnly, TypeOK
<1>5. HolderOnly'
  BY <1>2, <1>4 DEF HolderOnly
<1>6. ImageFollowsDisk'
  BY <1>1, <1>3, <1>4 DEF ImageFollowsDisk, InSave, KeepsOutcomes, TypeOK, filesVars
<1>7. OwnMarker'
  BY <1>3, <1>4 DEF OwnMarker, TypeOK, Protocol, filesVars
<1>8. StartsClean'
  BY <1>1, <1>2, <1>3, <1>4 DEF StartsClean, InSave, Working, TypeOK, filesVars
<1>9. Marked' /\ StableBelow'
  BY <1>2, <1>3 DEF Marked, StableBelow, KeepsOutcomes, filesVars
<1> QED
  BY <1>5, <1>6, <1>7, <1>8, <1>9 DEF Protocol

LEMMA ProtocolStep ==
  ASSUME TypeOK, TypeOK', DoubleEntry, Protocol, [Next]_vars
  PROVE  Protocol'
<1>1. ASSUME NEW p \in Proc, Load(p) PROVE Protocol'
  <2>1. lock = NoProc /\ UNCHANGED <<pc, job>> /\ QuarantineIfDamaged(p)
    BY <1>1 DEF Load, QuarantineIfDamaged
  <2> QED  BY <2>1, LookKeeps
<1>2. ASSUME NEW p \in Proc, NEW o \in Op, Lookup(p, o) PROVE Protocol'
  <2>1. lock = NoProc /\ UNCHANGED <<pc, job>> /\ QuarantineIfDamaged(p)
    BY <1>2 DEF Lookup, QuarantineIfDamaged
  <2> QED  BY <2>1, LookKeeps
<1>3. ASSUME NEW p \in Proc, Call(p) PROVE Protocol'
  <2>1. PICK r \in Requests : job' = [job EXCEPT ![p] = r]
    BY <1>3 DEF Call
  <2>2. r.own = NoIncident
    BY DEF Requests, Request
  <2>3. \A q \in Proc : pc[q] = "idle"
    BY <1>3, NoneAssumption DEF Call, Protocol, HolderOnly
  <2>4. /\ HolderOnly' /\ ImageFollowsDisk' /\ OwnMarker' /\ StartsClean'
    BY <1>3, <2>1, <2>2, <2>3
       DEF Call, TypeOK, Protocol, HolderOnly, ImageFollowsDisk, OwnMarker,
           StartsClean, InSave, Working, filesVars
  <2>5. Marked' /\ StableBelow'
    BY <1>3, <2>3 DEF Call, TypeOK, Protocol, Marked, StableBelow, KeepsOutcomes, filesVars
  <2> QED  BY <2>4, <2>5 DEF Protocol
<1>4. ASSUME NEW p \in Proc, Refuse(p) \/ EndUnwritten(p) \/ InterruptRefresh(p) \/ Replay(p)
      PROVE  Protocol'
  <2>1. pc[p] # "idle" /\ Release(p) /\ QuarantineIfDamaged(p)
    BY <1>4 DEF Refuse, EndUnwritten, InterruptRefresh, Replay, Accounting, QuarantineIfDamaged
  <2> QED  BY <2>1, EndKeeps
<1>5. ASSUME NEW p \in Proc, Earn(p) PROVE Protocol'
  <2>1. PICK t \in FreshTx : Write(p, disk, Credited(disk, job[p].amt, t), t)
    BY <1>5 DEF Earn
  <2>2. job[p].amt \in Amount
    BY <1>5 DEF Earn, TypeOK, Job
  <2>3. /\ job[p].amt \in Int
        /\ t \in Tx
        /\ disk \in Account
    <3>1. job[p].amt \in Int
      <4>1. Amount \subseteq Int
        BY AmountAssumption
      <4> QED  BY <2>2, <4>1
    <3>2. t \in Tx
      BY DEF FreshTx
    <3>3. disk \in Account
      BY DEF TypeOK
    <3> QED  BY <3>1, <3>2, <3>3
  <2>4. Credited(disk, job[p].amt, t) \in Account
    BY <2>3, CreditedType
  <2>5. KeepsOutcomes(Credited(disk, job[p].amt, t), disk)
    BY DEF KeepsOutcomes, Credited
  <2>6. Refreshed(p) /\ UNCHANGED lock
    BY <1>5, <2>1 DEF Earn, Write, Goto
  <2> QED  BY <2>1, <2>3, <2>4, <2>5, <2>6, WriteKeeps
<1>6. ASSUME NEW p \in Proc, Spend(p) PROVE Protocol'
  <2> DEFINE paid == Smaller(job[p].amt, disk.bal)
  <2>1. job[p].amt \in Amount
    BY <1>6 DEF Spend, Refreshed, Accounting, TypeOK, Job
  <2>2. paid \in Int /\ disk \in Account
    BY <2>1, PaidRange DEF TypeOK, DoubleEntry, Account, Balanced
  <2>3. CASE Release(p) /\ UNCHANGED filesVars
    <3>1. pc[p] # "idle" /\ QuarantineIfDamaged(p)
      BY <1>6, <2>3 DEF Spend, Refreshed, Accounting, QuarantineIfDamaged
    <3> QED  BY <2>3, <3>1, EndKeeps
  <2>4. ASSUME NEW t \in FreshTx, Write(p, disk, Debited(disk, paid, t), t)
        PROVE  Protocol'
    <3>1. t \in Tx /\ Refreshed(p) /\ UNCHANGED lock
      BY <1>6, <2>4 DEF FreshTx, Spend, Write, Goto
    <3>2. Debited(disk, paid, t) \in Account
      BY <2>2, <3>1, DebitedType
    <3>3. KeepsOutcomes(Debited(disk, paid, t), disk)
      BY DEF KeepsOutcomes, Debited
    <3> QED  BY <2>4, <3>1, <3>2, <3>3, WriteKeeps
  <2> QED  BY <1>6, <2>3, <2>4 DEF Spend
<1>7. ASSUME NEW p \in Proc, KeyedDebit(p) PROVE Protocol'
  <2> DEFINE o == job[p].op
             asked == job[p].amt
             paid == Smaller(asked, disk.bal)
  <2>1. o \in Op /\ asked \in Amount /\ Refreshed(p) /\ disk.ops[o] = NoOutcome
    BY <1>7 DEF KeyedDebit, Recorded, TypeOK, Job
  <2>2. paid \in Nat /\ disk \in Account
    BY <2>1, PaidRange DEF TypeOK, DoubleEntry, Account, Balanced
  <2>3. ASSUME NEW a \in Account, a.ops = disk.ops, NEW n \in Nat
        PROVE  /\ Journalled(a, o, asked, n) \in Account
               /\ KeepsOutcomes(Journalled(a, o, asked, n), disk)
    <3>1. Journalled(a, o, asked, n) \in Account
      BY <2>1, JournalledType
    <3>2. Journalled(a, o, asked, n).ops = [a.ops EXCEPT ![o] = [asked |-> asked, paid |-> n]]
      BY DEF Journalled, Account
    <3> QED  BY <2>1, <2>3, <3>1, <3>2 DEF KeepsOutcomes, Account
  <2>4. CASE Write(p, disk, Journalled(disk, o, asked, 0), NoTx)
    <3>1. UNCHANGED lock
      BY <2>4 DEF Write, Goto
    <3> QED  BY <2>1, <2>2, <2>3, <2>4, <3>1, WriteKeeps
  <2>5. ASSUME NEW t \in FreshTx,
               Write(p, disk, Journalled(Debited(disk, paid, t), o, asked, paid), t)
        PROVE  Protocol'
    <3>1. t \in Tx /\ UNCHANGED lock
      BY <2>5 DEF FreshTx, Write, Goto
    <3>2. Debited(disk, paid, t) \in Account /\ Debited(disk, paid, t).ops = disk.ops
      BY <2>2, <3>1, DebitedType DEF Debited
    <3>3. /\ Journalled(Debited(disk, paid, t), o, asked, paid) \in Account
          /\ KeepsOutcomes(Journalled(Debited(disk, paid, t), o, asked, paid), disk)
      BY <2>2, <2>3, <3>2
    <3> QED  BY <2>1, <2>5, <3>1, <3>3, WriteKeeps
  <2> QED  BY <1>7, <2>4, <2>5 DEF KeyedDebit
<1>8. ASSUME NEW p \in Proc, Acknowledge(p) PROVE Protocol'
  <2>1. /\ lock = p /\ job[p].own = NoIncident
        /\ \A q \in Proc : q # p => pc[q] = "idle"
    BY <1>8 DEF Acknowledge, Protocol, HolderOnly, OwnMarker
  <2>2. /\ job'[p].img.ops = disk.ops /\ job'[p].img.ack = incidents
        /\ job'[p].own = NoIncident /\ job'[p].kind = "acknowledge"
        /\ \A q \in Proc : q # p => job'[q] = job[q]
        /\ pc' = [pc EXCEPT ![p] = "tmp"]
        /\ UNCHANGED <<lock, filesVars>>
    BY <1>8, <2>1 DEF Acknowledge, Goto, TypeOK, Account, Job, JobRecord
  <2>3. \A q \in Proc : q # p => pc'[q] = "idle"
    BY <2>1, <2>2 DEF TypeOK
  <2>4. HolderOnly' /\ StartsClean' /\ OwnMarker'
    BY <2>1, <2>2, <2>3
       DEF HolderOnly, StartsClean, OwnMarker, InSave, Working, TypeOK, Protocol, filesVars
  <2>5. ImageFollowsDisk'
    BY <2>2, <2>3 DEF ImageFollowsDisk, InSave, KeepsOutcomes, TypeOK, filesVars
  <2>6. Marked' /\ StableBelow'
    BY <2>1, <2>2, <2>3
       DEF Protocol, Marked, StableBelow, KeepsOutcomes, TypeOK, filesVars
  <2> QED  BY <2>4, <2>5, <2>6 DEF Protocol
<1>9. ASSUME NEW p \in Proc, PublishIntent(p) PROVE Protocol'
  <2>1. PICK i \in FreshIncidents : /\ incidents' = incidents \cup {i}
                                    /\ job' = [job EXCEPT ![p].own = i]
    BY <1>9 DEF PublishIntent
  <2>2. /\ lock = p /\ job[p].own = NoIncident
        /\ \A q \in Proc : q # p => pc[q] = "idle"
    BY <1>9 DEF PublishIntent, Protocol, HolderOnly, OwnMarker
  <2>3. /\ job'[p].own = i /\ job'[p].img = job[p].img /\ job'[p].kind = job[p].kind
        /\ \A q \in Proc : q # p => job'[q] = job[q]
        /\ pc' = [pc EXCEPT ![p] = "intent"]
        /\ UNCHANGED <<lock, disk, stableDisk>>
    BY <1>9, <2>1 DEF PublishIntent, Goto, TypeOK, Job, JobRecord
  <2>4. \A q \in Proc : q # p => pc'[q] = "idle"
    BY <2>2, <2>3 DEF TypeOK
  <2>5. HolderOnly' /\ ImageFollowsDisk' /\ StableBelow'
    BY <1>9, <2>2, <2>3, <2>4
       DEF PublishIntent, Protocol, HolderOnly, ImageFollowsDisk, StableBelow,
           KeepsOutcomes, InSave, TypeOK
  <2>6. incidents = job[p].img.ack
    BY <1>9, <2>2 DEF PublishIntent, Protocol, StartsClean, Working
  <2>7. OwnMarker' /\ StartsClean'
    BY <1>9, <2>1, <2>2, <2>3, <2>4, <2>6, NoneAssumption
       DEF PublishIntent, FreshIncidents, Protocol, OwnMarker, StartsClean,
           InSave, Working, TypeOK
  <2>8. Marked'
    BY <2>1, <2>2, <2>3, <2>4 DEF Protocol, Marked, FreshIncidents, TypeOK
  <2> QED  BY <2>5, <2>7, <2>8 DEF Protocol
<1>10. ASSUME NEW p \in Proc, SyncIntent(p) PROVE Protocol'
  <2>1. lock = p /\ \A q \in Proc : q # p => pc[q] = "idle"
    BY <1>10 DEF SyncIntent, Protocol, HolderOnly
  <2>2. /\ pc' = [pc EXCEPT ![p] = "synced"]
        /\ stableDisk' = disk
        /\ UNCHANGED <<lock, disk, incidents, job>>
    BY <1>10 DEF SyncIntent, Sync, Goto
  <2>3. pc'[p] = "synced" /\ \A q \in Proc : q # p => pc'[q] = "idle"
    BY <2>1, <2>2 DEF TypeOK
  <2>4. HolderOnly' /\ ImageFollowsDisk'
    BY <1>10, <2>1, <2>2, <2>3
       DEF SyncIntent, Protocol, HolderOnly, ImageFollowsDisk, InSave, KeepsOutcomes
  <2>5. OwnMarker' /\ StartsClean'
    BY <1>10, <2>1, <2>2, <2>3
       DEF SyncIntent, Protocol, OwnMarker, StartsClean, InSave, Working
  <2>6. Marked' /\ StableBelow'
    BY <2>2 DEF Marked, StableBelow, KeepsOutcomes
  <2> QED  BY <2>4, <2>5, <2>6 DEF Protocol
<1>11. ASSUME NEW p \in Proc, Replace(p) PROVE Protocol'
  <2>1. lock = p /\ \A q \in Proc : q # p => pc[q] = "idle"
    BY <1>11 DEF Replace, Protocol, HolderOnly
  <2>2. /\ pc' = [pc EXCEPT ![p] = "replaced"]
        /\ disk' = job[p].img /\ stableDisk = disk
        /\ UNCHANGED <<lock, stableDisk, incidents, job>>
    BY <1>11 DEF Replace, Goto, Protocol, ImageFollowsDisk
  <2>3. pc'[p] = "replaced" /\ \A q \in Proc : q # p => pc'[q] = "idle"
    BY <2>1, <2>2 DEF TypeOK
  <2>4. /\ job[p].own \in incidents \ job[p].img.ack
        /\ KeepsOutcomes(job[p].img, disk)
    BY <1>11 DEF Replace, Protocol, OwnMarker, ImageFollowsDisk, InSave
  <2>5. HolderOnly' /\ ImageFollowsDisk'
    BY <2>1, <2>2, <2>3 DEF HolderOnly, ImageFollowsDisk, InSave
  <2>6. OwnMarker'
    BY <1>11, <2>2, <2>3, <2>4 DEF OwnMarker, Protocol
  <2>7. StartsClean'
    BY <1>11, <2>1, <2>2, <2>3 DEF Replace, Protocol, StartsClean, InSave, Working
  <2>8. Marked' /\ StableBelow'
    BY <2>2, <2>3, <2>4 DEF Marked, StableBelow, KeepsOutcomes
  <2> QED  BY <2>5, <2>6, <2>7, <2>8 DEF Protocol
<1>12. ASSUME NEW p \in Proc, SyncReplace(p) PROVE Protocol'
  <2>1. lock = p /\ \A q \in Proc : q # p => pc[q] = "idle"
    BY <1>12 DEF SyncReplace, Protocol, HolderOnly
  <2>2. /\ pc' = [pc EXCEPT ![p] = "committed"]
        /\ stableDisk' = disk
        /\ UNCHANGED <<lock, disk, incidents, job>>
    BY <1>12 DEF SyncReplace, Sync, Goto
  <2>3. pc'[p] = "committed" /\ \A q \in Proc : q # p => pc'[q] = "idle"
    BY <2>1, <2>2 DEF TypeOK
  <2>4. HolderOnly' /\ ImageFollowsDisk'
    BY <1>12, <2>1, <2>2, <2>3
       DEF SyncReplace, Protocol, HolderOnly, ImageFollowsDisk, InSave
  <2>5. OwnMarker' /\ StartsClean'
    BY <1>12, <2>1, <2>2, <2>3
       DEF SyncReplace, Protocol, OwnMarker, StartsClean, InSave, Working
  <2>6. Marked' /\ StableBelow'
    BY <2>2 DEF Marked, StableBelow, KeepsOutcomes
  <2> QED  BY <2>4, <2>5, <2>6 DEF Protocol
<1>13. ASSUME NEW p \in Proc, Commit(p) \/ CommitMarkerStays(p) \/ InterruptCommitted(p)
       PROVE  Protocol'
  <2>1. pc[p] = "committed" /\ Release(p) /\ UNCHANGED <<disk, stableDisk>>
    BY <1>13 DEF Commit, CommitMarkerStays, InterruptCommitted, filesVars
  <2>2. disk = stableDisk
    BY <2>1 DEF Protocol, ImageFollowsDisk
  <2>3. \A q \in Proc : pc'[q] = "idle" /\ job'[q].own = NoIncident
    BY <2>1, NobodyInside DEF TypeOK
  <2>4. StableBelow'
    BY <2>1, <2>2 DEF StableBelow, KeepsOutcomes
  <2> QED  BY <2>1, <2>2, <2>3, <2>4, QuietProtocol
<1>14. ASSUME NEW p \in Proc, FailKnown(p) PROVE Protocol'
  <2>1. /\ pc[p] \in {"tmp", "intent", "synced"} /\ Release(p)
        /\ UNCHANGED <<disk, stableDisk>> /\ incidents' = incidents \ {job[p].own}
    BY <1>14 DEF FailKnown, FailBefore
  <2>2. \A q \in Proc : pc'[q] = "idle" /\ job'[q].own = NoIncident
    BY <2>1, NobodyInside DEF TypeOK
  <2>3. disk' # stableDisk' => \E i \in incidents' : i \notin disk'.ack
    <3>1. ASSUME disk # stableDisk
          PROVE  \E i \in incidents \ {job[p].own} : i \notin disk.ack
      <4>1. PICK i \in incidents \ disk.ack : \A q \in Proc : pc[q] = "intent" => i # job[q].own
        BY <3>1 DEF Protocol, Marked
      <4>2. pc[p] # "synced"
        BY <3>1 DEF Protocol, ImageFollowsDisk
      <4>3. CASE pc[p] = "tmp"
        <5>1. job[p].own = NoIncident
          BY <4>3 DEF Protocol, OwnMarker
        <5> QED  BY <4>1, <5>1, NoneAssumption DEF TypeOK
      <4>4. CASE pc[p] = "intent"
        BY <4>1, <4>4
      <4> QED  BY <2>1, <4>2, <4>3, <4>4
    <3> QED  BY <2>1, <3>1
  <2>4. StableBelow'
    BY <2>1 DEF Protocol, StableBelow, KeepsOutcomes
  <2> QED  BY <2>2, <2>3, <2>4, QuietProtocol
<1>15. ASSUME NEW p \in Proc, FailCleanup(p) \/ FailUncertain(p) PROVE Protocol'
  <2>1. pc[p] # "idle" /\ Release(p) /\ QuarantineIfDamaged(p)
    BY <1>15 DEF FailCleanup, FailUncertain, QuarantineIfDamaged
  <2> QED  BY <2>1, EndKeeps
<1>16. ASSUME NEW p \in Proc, Kill(p) PROVE Protocol'
  <2>1. /\ pc'[p] = "idle" /\ job'[p].own = NoIncident
        /\ \A q \in Proc : q # p => pc'[q] = pc[q] /\ job'[q] = job[q]
        /\ UNCHANGED filesVars
    BY <1>16 DEF Kill, TypeOK, NoJob
  <2>2. HolderOnly'
    BY <1>16, <2>1 DEF Kill, Protocol, HolderOnly
  <2>3. ImageFollowsDisk' /\ OwnMarker' /\ StartsClean'
    BY <2>1 DEF Protocol, ImageFollowsDisk, OwnMarker, StartsClean, InSave,
                Working, KeepsOutcomes, filesVars
  <2>4. Marked' /\ StableBelow'
    BY <2>1 DEF Protocol, Marked, StableBelow, KeepsOutcomes, filesVars
  <2> QED  BY <2>2, <2>3, <2>4 DEF Protocol
<1>17. ASSUME PowerFailure PROVE Protocol'
  <2>1. disk' = stableDisk' /\ \A q \in Proc : pc'[q] = "idle" /\ job'[q].own = NoIncident
    BY <1>17 DEF PowerFailure, NoJob
  <2>2. StableBelow'
    BY <2>1 DEF StableBelow, KeepsOutcomes
  <2> QED  BY <2>1, <2>2, QuietProtocol
<1>18. ASSUME UNCHANGED <<lock, disk, incidents, stableDisk, pc, job>> PROVE Protocol'
  BY <1>18 DEF Protocol, HolderOnly, ImageFollowsDisk, OwnMarker, StartsClean,
               Marked, StableBelow, KeepsOutcomes, InSave, Working
<1> QED
  BY <1>1, <1>2, <1>3, <1>4, <1>5, <1>6, <1>7, <1>8, <1>9, <1>10, <1>11, <1>12,
     <1>13, <1>14, <1>15, <1>16, <1>17, <1>18
     DEF Next, Operate, Save, Fail, Damage, Restore, vars, filesVars

\* The inductive invariant of the save protocol holds in every state.
THEOREM ProtocolHolds == Spec => [](TypeOK /\ DoubleEntry /\ Protocol)
<1>1. Init => Protocol
  BY DEF Init, Protocol, HolderOnly, ImageFollowsDisk, OwnMarker, StartsClean, Marked,
         StableBelow, KeepsOutcomes, InSave, Working, NoJob
<1>2. TypeOK /\ TypeOK' /\ DoubleEntry /\ Protocol /\ [Next]_vars => Protocol'
  BY ProtocolStep
<1> QED
  BY <1>1, <1>2, WellFormed, PTL DEF Spec

\* Until the file is durable an unacknowledged incident warns every reader.
THEOREM UncertaintyIsMarked == Spec => []UncertainIsMarked
<1>1. Protocol => UncertainIsMarked
  BY DEF Protocol, Marked, UncertainIsMarked
<1> QED
  BY <1>1, ProtocolHolds, PTL

\* Nothing but an acknowledgement is written over an open incident.
THEOREM WritesStartClean == Spec => []NoWriteOverIncident
<1>1. TypeOK /\ Protocol => NoWriteOverIncident
  <2> SUFFICES ASSUME TypeOK, Protocol, NEW p \in Proc,
                      pc[p] \in {"synced", "replaced"}, job[p].kind # "acknowledge"
               PROVE  incidents = disk.ack \cup {job[p].own}
    BY DEF NoWriteOverIncident
  <2>1. /\ incidents = job[p].img.ack \cup ({job[p].own} \ {NoIncident})
        /\ job[p].own # NoIncident
    BY NoneAssumption DEF Protocol, StartsClean, OwnMarker, Working, TypeOK
  <2>2. job[p].img.ack = disk.ack
    BY DEF Protocol, StartsClean, ImageFollowsDisk, InSave
  <2> QED  BY <2>1, <2>2
<1> QED
  BY <1>1, ProtocolHolds, PTL

\* Doubt about the file is marked, and nothing but an acknowledgement goes
\* over a mark: what load_or_create refuses nobody wrote past.
THEOREM IncidentsAreRespected == Spec => []IncidentsRespected
<1>1. UncertainIsMarked /\ NoWriteOverIncident => IncidentsRespected
  BY DEF IncidentsRespected
<1> QED
  BY <1>1, UncertaintyIsMarked, WritesStartClean, PTL

-----------------------------------------------------------------------------
(* Recorded outcomes *)

\* The steps that touch either content of the file.
LEMMA FileSteps ==
  ASSUME [Next]_vars
  PROVE  \/ UNCHANGED <<disk, stableDisk>>
         \/ \E p \in Proc : SyncIntent(p) \/ Replace(p) \/ SyncReplace(p)
         \/ PowerFailure
<1>1. ASSUME NEW p \in Proc, Load(p) \/ (\E o \in Op : Lookup(p, o)) \/ Refuse(p)
      PROVE  UNCHANGED <<disk, stableDisk>>
  BY <1>1 DEF Load, Lookup, Refuse, QuarantineIfDamaged, filesVars
<1>2. ASSUME NEW p \in Proc,
             \/ Call(p) \/ EndUnwritten(p) \/ InterruptRefresh(p) \/ Replay(p)
             \/ Earn(p) \/ Spend(p) \/ KeyedDebit(p) \/ Acknowledge(p)
      PROVE  UNCHANGED <<disk, stableDisk>>
  BY <1>2 DEF Call, EndUnwritten, InterruptRefresh, Replay, Earn, Spend, KeyedDebit,
              Acknowledge, Write, filesVars
<1>3. ASSUME NEW p \in Proc,
             \/ PublishIntent(p) \/ Commit(p) \/ CommitMarkerStays(p)
             \/ InterruptCommitted(p) \/ Fail(p) \/ Kill(p)
      PROVE  UNCHANGED <<disk, stableDisk>>
  BY <1>3 DEF PublishIntent, Commit, CommitMarkerStays, InterruptCommitted, Fail,
              FailKnown, FailBefore, FailCleanup, FailUncertain, Kill, filesVars
<1>4. ASSUME Damage \/ Restore \/ UNCHANGED vars PROVE UNCHANGED <<disk, stableDisk>>
  BY <1>4 DEF Damage, Restore, vars, filesVars
<1> QED
  BY <1>1, <1>2, <1>3, <1>4 DEF Next, Operate, Save

\* No step takes a durable outcome from either content of the file.
LEMMA OutcomesStay ==
  ASSUME TypeOK, Protocol, [Next]_vars
  PROVE  KeepsOutcomes(disk', stableDisk) /\ KeepsOutcomes(stableDisk', stableDisk)
<1>1. KeepsOutcomes(disk, stableDisk) /\ KeepsOutcomes(stableDisk, stableDisk)
  BY DEF Protocol, StableBelow, KeepsOutcomes
<1>2. \/ UNCHANGED <<disk, stableDisk>>
      \/ \E p \in Proc : SyncIntent(p) \/ Replace(p) \/ SyncReplace(p)
      \/ PowerFailure
  BY FileSteps
<1>3. ASSUME NEW p \in Proc, SyncIntent(p) \/ SyncReplace(p)
      PROVE  disk' = disk /\ stableDisk' = disk
  BY <1>3 DEF SyncIntent, SyncReplace, Sync
<1>4. ASSUME NEW p \in Proc, Replace(p)
      PROVE  KeepsOutcomes(disk', stableDisk) /\ stableDisk' = stableDisk
  BY <1>4 DEF Replace, Protocol, ImageFollowsDisk, InSave
<1>5. ASSUME PowerFailure
      PROVE  disk' \in {disk, stableDisk} /\ stableDisk' \in {disk, stableDisk}
  BY <1>5 DEF PowerFailure
<1> QED
  BY <1>1, <1>2, <1>3, <1>4, <1>5

\* A durable outcome of a keyed debit is kept for ever.
THEOREM DurableForever == Spec => OutcomeIsForever
<1>1. TypeOK /\ Protocol /\ [Next]_vars =>
        [\A o \in Op : stableDisk.ops[o] # NoOutcome =>
           stableDisk'.ops[o] = stableDisk.ops[o]]_vars
  BY OutcomesStay DEF KeepsOutcomes
<1> QED
  BY <1>1, ProtocolHolds, PTL DEF Spec, OutcomeIsForever

\* The steps that tell a caller the outcome of a keyed debit.
LEMMA TellingSteps ==
  ASSUME [Next]_vars
  PROVE  \/ told' = told
         \/ \E p \in Proc : \/ \E n \in Op : Lookup(p, n)
                            \/ Replay(p) \/ Commit(p) \/ CommitMarkerStays(p)
<1>1. ASSUME NEW p \in Proc,
             \/ Load(p) \/ Call(p) \/ Refuse(p) \/ EndUnwritten(p)
             \/ InterruptRefresh(p) \/ Earn(p) \/ Spend(p) \/ KeyedDebit(p)
             \/ Acknowledge(p)
      PROVE  told' = told
  BY <1>1 DEF Load, Call, Refuse, EndUnwritten, InterruptRefresh, Earn, Spend,
              KeyedDebit, Acknowledge, Write, ghostVars
<1>2. ASSUME NEW p \in Proc,
             \/ PublishIntent(p) \/ SyncIntent(p) \/ Replace(p) \/ SyncReplace(p)
             \/ InterruptCommitted(p) \/ Fail(p) \/ Kill(p)
      PROVE  told' = told
  BY <1>2 DEF PublishIntent, SyncIntent, Replace, SyncReplace, InterruptCommitted,
              Fail, FailKnown, FailBefore, FailCleanup, FailUncertain, Kill, ghostVars
<1>3. ASSUME PowerFailure \/ Damage \/ Restore \/ UNCHANGED vars PROVE told' = told
  BY <1>3 DEF PowerFailure, Damage, Restore, vars, ghostVars
<1> QED  BY <1>1, <1>2, <1>3 DEF Next, Operate, Save

\* What a caller is told is what the file holds, durably, at that moment.
LEMMA ToldFromFile ==
  ASSUME TypeOK, Protocol, [Next]_vars, NEW o \in Op, told'[o] # told[o]
  PROVE  /\ told'[o] = disk.ops[o]
         /\ disk = stableDisk
         /\ UNCHANGED <<disk, stableDisk>>
<1>1. ASSUME NEW p \in Proc, NEW n \in Op, Lookup(p, n)
      PROVE  /\ told'[o] = disk.ops[o] /\ disk = stableDisk
             /\ UNCHANGED <<disk, stableDisk>>
  <2>1. Readable(p) /\ told' = [told EXCEPT ![n] = disk.ops[n]] /\ UNCHANGED filesVars
    BY <1>1 DEF Lookup
  <2> QED  BY <2>1, ReadableIsStable DEF TypeOK, filesVars
<1>2. ASSUME NEW p \in Proc, Replay(p)
      PROVE  /\ told'[o] = disk.ops[o] /\ disk = stableDisk
             /\ UNCHANGED <<disk, stableDisk>>
  <2>1. /\ Readable(p) /\ UNCHANGED filesVars
        /\ told' = [told EXCEPT ![job[p].op] = disk.ops[job[p].op]]
    BY <1>2 DEF Replay
  <2> QED  BY <2>1, ReadableIsStable DEF TypeOK, filesVars
<1>3. ASSUME NEW p \in Proc, Commit(p) \/ CommitMarkerStays(p)
      PROVE  /\ told'[o] = disk.ops[o] /\ disk = stableDisk
             /\ UNCHANGED <<disk, stableDisk>>
  <2>1. pc[p] = "committed" /\ Report(p) /\ UNCHANGED <<disk, stableDisk>>
    BY <1>3 DEF Commit, CommitMarkerStays, ghostVars, filesVars
  <2>2. disk = stableDisk /\ disk = job[p].img
    BY <2>1 DEF Protocol, ImageFollowsDisk
  <2>3. told' = [told EXCEPT ![job[p].op] = job[p].img.ops[job[p].op]]
    BY <2>1 DEF Report
  <2> QED  BY <2>1, <2>2, <2>3 DEF TypeOK
<1>4. \/ told' = told
      \/ \E p \in Proc : \/ \E n \in Op : Lookup(p, n)
                         \/ Replay(p) \/ Commit(p) \/ CommitMarkerStays(p)
  BY TellingSteps
<1> QED
  BY <1>1, <1>2, <1>3, <1>4

\* An outcome once told is the one in the file, whatever fails afterwards.
THEOREM ToldStaysDurable == Spec => []ToldIsDurable
<1>1. Init => ToldIsDurable
  BY DEF Init, ToldIsDurable
<1>2. TypeOK /\ Protocol /\ ToldIsDurable /\ [Next]_vars => ToldIsDurable'
  <2> SUFFICES ASSUME TypeOK, Protocol, ToldIsDurable, [Next]_vars,
                      NEW o \in Op, told'[o] # NoOutcome
               PROVE  disk'.ops[o] = told'[o] /\ stableDisk'.ops[o] = told'[o]
    BY DEF ToldIsDurable
  <2>1. CASE told'[o] = told[o]
    BY <2>1, OutcomesStay DEF ToldIsDurable, KeepsOutcomes
  <2>2. CASE told'[o] # told[o]
    BY <2>2, ToldFromFile
  <2> QED  BY <2>1, <2>2
<1> QED
  BY <1>1, <1>2, ProtocolHolds, PTL DEF Spec

-----------------------------------------------------------------------------
(* Events *)

\* `a' keeps every event that `d' has.
KeepsEvents(a, d) == \A t \in Tx : d.tx[t] # 0 => a.tx[t] = d.tx[t]

\* Neither file, nor what a power failure leaves, nor a cache, nor an image
\* that may be published knows of the event.
Nowhere(t) ==
  /\ disk.tx[t] = 0 /\ stableDisk.tx[t] = 0
  /\ \A q \in Proc : /\ mem[q].acct.tx[t] = 0 /\ mem[q].base.tx[t] = 0
                     /\ job[q].img.tx[t] = 0

\* Outside the save a process has no image.  The event of a write that may
\* still fail is in its image and in the writer's cache, and nowhere else.
EventOf(p) ==
  /\ pc[p] \in {"idle", "locked"} => job[p].img = Blank /\ job[p].tx = NoTx
  /\ job[p].kind = "acknowledge" => job[p].tx = NoTx
  /\ pc[p] \in Working /\ job[p].tx # NoTx =>
       job[p].img.tx[job[p].tx] # 0 /\ answer[job[p].tx] = "pending"
  /\ InSave(p) => KeepsEvents(job[p].img, disk)
  /\ InSave(p) /\ job[p].tx # NoTx =>
       /\ disk.tx[job[p].tx] = 0 /\ stableDisk.tx[job[p].tx] = 0
       /\ \A q \in Proc : /\ mem[q].base.tx[job[p].tx] = 0
                          /\ q # p => mem[q].acct.tx[job[p].tx] = 0

\* An event is nowhere before its write and after a negative answer, and
\* durable after a positive one.
EventInv ==
  /\ \A p \in Proc : EventOf(p)
  /\ KeepsEvents(disk, stableDisk)
  /\ \A t \in Tx : /\ answer[t] \in {"unused", "no"} => Nowhere(t)
                   /\ answer[t] = "yes" => stableDisk.tx[t] # 0

Amounts(a, bal, earned, spent, ops) ==
  a.bal = bal /\ a.earned = earned /\ a.spent = spent /\ a.ops = ops

\* What the account of a write may be, over the file it was decided on.
Decided(a, d) ==
  \/ Amounts(a, d.bal, d.earned, d.spent, d.ops)
  \/ \E n \in Amount : Amounts(a, d.bal + n, d.earned + n, d.spent, d.ops)
  \/ \E n \in Amount :
       LET paid == Smaller(n, d.bal)
       IN  Amounts(a, d.bal - paid, d.earned, d.spent + paid, d.ops)
  \/ \E o \in Op, n \in Amount :
       LET paid == Smaller(n, d.bal)
       IN  /\ d.ops[o] = NoOutcome
           /\ Amounts(a, d.bal - paid, d.earned, d.spent + paid,
                      [d.ops EXCEPT ![o] = [asked |-> n, paid |-> paid]])

Matches(a) ==
  /\ IsFiniteSet(Credits(a)) /\ IsFiniteSet(Debits(a))
  /\ a.earned = Opening + SumFunctionOnSet(a.tx, Credits(a))
  /\ a.spent = -SumFunctionOnSet(a.tx, Debits(a))

\* Both contents of the file and every image match their events, and an image
\* is one decision away from the file.
ImageInv ==
  /\ Matches(disk) /\ Matches(stableDisk)
  /\ \A p \in Proc : /\ pc[p] \in Working => Matches(job[p].img)
                     /\ InSave(p) => Decided(job[p].img, disk)

-----------------------------------------------------------------------------
(* What a write decides *)

\* Merged over the file it was decided on, a balanced account loses nothing.
LEMMA MergeExact ==
  ASSUME NEW a \in Account, NEW m \in Account, Balanced(m),
         KeepsOutcomes(m, a), KeepsEvents(m, a)
  PROVE  /\ Merge(a, m, a).bal = m.bal /\ Merge(a, m, a).earned = m.earned
         /\ Merge(a, m, a).spent = m.spent
         /\ Merge(a, m, a).ops = m.ops /\ Merge(a, m, a).tx = m.tx
<1>1. /\ Merge(a, m, a).bal = m.bal /\ Merge(a, m, a).earned = m.earned
      /\ Merge(a, m, a).spent = m.spent
  BY DEF Merge, MergedField, Account, Balanced
<1>2. Merge(a, m, a).ops = m.ops
  <2>1. \A o \in Op : (IF m.ops[o] # NoOutcome THEN m.ops[o] ELSE a.ops[o]) = m.ops[o]
    BY DEF KeepsOutcomes
  <2>2. m.ops \in [Op -> Outcome]
    BY DEF Account
  <2> QED BY <2>1, <2>2 DEF Merge
<1>3. Merge(a, m, a).tx = m.tx
  <2>1. \A t \in Tx : (IF m.tx[t] # 0 THEN m.tx[t] ELSE a.tx[t]) = m.tx[t]
    BY DEF KeepsEvents
  <2>2. m.tx \in [Tx -> Int]
    BY DEF Account
  <2> QED BY <2>1, <2>2 DEF Merge
<1> QED BY <1>1, <1>2, <1>3

\* Only the amounts of the account count for its events.
LEMMA SameMatches ==
  ASSUME NEW a, NEW b, a.tx = b.tx, a.earned = b.earned, a.spent = b.spent, Matches(b)
  PROVE  Matches(a)
<1>1. Credits(a) = Credits(b) /\ Debits(a) = Debits(b)
  BY DEF Credits, Debits
<1> QED BY <1>1 DEF Matches

\* An event of its own adds what a credit or a debit adds.
LEMMA CreditedMatches ==
  ASSUME NEW a \in Account, NEW n \in Nat, n > 0, NEW t \in Tx, a.tx[t] = 0, Matches(a)
  PROVE  Matches(Credited(a, n, t))
<1> DEFINE c == Credited(a, n, t)
<1>1. /\ c.tx = [a.tx EXCEPT ![t] = n] /\ c.earned = a.earned + n /\ c.spent = a.spent
      /\ a.tx \in [Tx -> Int] /\ a.earned \in Int
  BY DEF Credited, Account
<1> HIDE DEF c
<1>2. /\ c.tx[t] = n /\ \A u \in Tx \ {t} : c.tx[u] = a.tx[u]
      /\ \A u \in Tx : c.tx[u] \in Int /\ a.tx[u] \in Int
  BY <1>1
<1>3. Credits(c) = Credits(a) \cup {t} /\ t \notin Credits(a)
  BY <1>2 DEF Credits
<1>4. Debits(c) = Debits(a)
  BY <1>2 DEF Debits
<1>5. Credits(a) \subseteq Tx \ {t} /\ Debits(a) \subseteq Tx \ {t}
  BY <1>2 DEF Credits, Debits
<1>6. SumFunctionOnSet(c.tx, Credits(a)) = SumFunctionOnSet(a.tx, Credits(a))
  BY <1>2, <1>5, SumSame DEF Matches
<1>7. SumFunctionOnSet(c.tx, Debits(a)) = SumFunctionOnSet(a.tx, Debits(a))
  BY <1>2, <1>5, SumSame DEF Matches
<1>8. SumFunctionOnSet(c.tx, Credits(a) \cup {t}) = n + SumFunctionOnSet(c.tx, Credits(a))
  <2>1. \A u \in Credits(a) \cup {t} : c.tx[u] \in Int
    BY <1>2, <1>5
  <2> QED BY <1>2, <1>3, <2>1, SumInsert DEF Matches
<1>9. SumFunctionOnSet(a.tx, Credits(a)) \in Int
  BY <1>2, <1>5, SumInt DEF Matches
<1>10. IsFiniteSet(Credits(a) \cup {t})
  BY FS_AddElement DEF Matches
<1>11. c.earned = Opening + SumFunctionOnSet(c.tx, Credits(c))
  BY <1>1, <1>3, <1>6, <1>8, <1>9, OpeningAssumption DEF Matches
<1> QED BY <1>1, <1>3, <1>4, <1>7, <1>10, <1>11 DEF Matches, c

LEMMA DebitedMatches ==
  ASSUME NEW a \in Account, NEW n \in Nat, n > 0, NEW t \in Tx, a.tx[t] = 0, Matches(a)
  PROVE  Matches(Debited(a, n, t))
<1> DEFINE c == Debited(a, n, t)
<1>1. /\ c.tx = [a.tx EXCEPT ![t] = -n] /\ c.earned = a.earned /\ c.spent = a.spent + n
      /\ a.tx \in [Tx -> Int] /\ a.spent \in Int
  BY DEF Debited, Account
<1> HIDE DEF c
<1>2. /\ c.tx[t] = -n /\ \A u \in Tx \ {t} : c.tx[u] = a.tx[u]
      /\ \A u \in Tx : c.tx[u] \in Int /\ a.tx[u] \in Int
  BY <1>1
<1>3. Debits(c) = Debits(a) \cup {t} /\ t \notin Debits(a)
  BY <1>2 DEF Debits
<1>4. Credits(c) = Credits(a)
  BY <1>2 DEF Credits
<1>5. Credits(a) \subseteq Tx \ {t} /\ Debits(a) \subseteq Tx \ {t}
  BY <1>2 DEF Credits, Debits
<1>6. SumFunctionOnSet(c.tx, Credits(a)) = SumFunctionOnSet(a.tx, Credits(a))
  BY <1>2, <1>5, SumSame DEF Matches
<1>7. SumFunctionOnSet(c.tx, Debits(a)) = SumFunctionOnSet(a.tx, Debits(a))
  BY <1>2, <1>5, SumSame DEF Matches
<1>8. SumFunctionOnSet(c.tx, Debits(a) \cup {t}) = -n + SumFunctionOnSet(c.tx, Debits(a))
  <2>1. \A u \in Debits(a) \cup {t} : c.tx[u] \in Int
    BY <1>2, <1>5
  <2> QED BY <1>2, <1>3, <2>1, SumInsert DEF Matches
<1>9. SumFunctionOnSet(a.tx, Debits(a)) \in Int
  BY <1>2, <1>5, SumInt DEF Matches
<1>10. IsFiniteSet(Debits(a) \cup {t})
  BY FS_AddElement DEF Matches
<1>11. c.spent = -SumFunctionOnSet(c.tx, Debits(c))
  BY <1>1, <1>3, <1>7, <1>8, <1>9 DEF Matches
<1> QED BY <1>1, <1>3, <1>4, <1>6, <1>10, <1>11 DEF Matches, c

LEMMA FirstMatches == Matches(FirstAccount) /\ \A t \in Tx : FirstAccount.tx[t] = 0
<1>1. Credits(FirstAccount) = {} /\ Debits(FirstAccount) = {}
  BY DEF FirstAccount, Credits, Debits
<1> QED BY <1>1, SumEmpty, FS_EmptySet, OpeningAssumption DEF Matches, FirstAccount

\* What the account `m' of a write over `a' is, under event t or under none.
Decision(a, m, t) ==
  /\ m \in Account /\ Balanced(m) /\ KeepsOutcomes(m, a)
  /\ Decided(m, a)
  /\ Matches(a) => Matches(m)
  /\ \/ t = NoTx /\ m.tx = a.tx
     \/ t \in Tx /\ a.tx[t] = 0 /\ m.tx[t] # 0 /\ \A u \in Tx \ {t} : m.tx[u] = a.tx[u]

LEMMA CreditDecision ==
  ASSUME NEW a \in Account, Balanced(a), NEW n \in Amount, NEW t \in Tx, a.tx[t] = 0
  PROVE  Decision(a, Credited(a, n, t), t)
<1> DEFINE m == Credited(a, n, t)
<1>1. n \in Nat /\ n > 0
  BY AmountAssumption
<1>2. m \in Account /\ Balanced(m) /\ (Matches(a) => Matches(m))
  BY <1>1, CreditedType, CreditedBalance, CreditedMatches
<1>3. /\ Amounts(m, a.bal + n, a.earned + n, a.spent, a.ops)
      /\ m.ops = a.ops /\ m.tx = [a.tx EXCEPT ![t] = n]
  BY DEF Credited, Amounts
<1>4. a.tx \in [Tx -> Int]
  BY DEF Account
<1> HIDE DEF m
<1>5. m.tx[t] # 0 /\ \A u \in Tx \ {t} : m.tx[u] = a.tx[u]
  BY <1>1, <1>3, <1>4
<1>6. Decided(m, a) /\ KeepsOutcomes(m, a)
  BY <1>3 DEF Decided, KeepsOutcomes
<1> QED BY <1>2, <1>5, <1>6 DEF Decision, m

LEMMA DebitAmounts ==
  ASSUME NEW a \in Account, Balanced(a), NEW n \in Nat, n > 0, n <= a.bal,
         NEW t \in Tx, a.tx[t] = 0
  PROVE  LET m == Debited(a, n, t)
         IN  /\ m \in Account /\ Balanced(m) /\ (Matches(a) => Matches(m))
             /\ Amounts(m, a.bal - n, a.earned, a.spent + n, a.ops)
             /\ m.tx[t] # 0 /\ \A u \in Tx \ {t} : m.tx[u] = a.tx[u]
<1> DEFINE m == Debited(a, n, t)
<1>1. m \in Account /\ Balanced(m) /\ (Matches(a) => Matches(m))
  BY DebitedType, DebitedBalance, DebitedMatches
<1>2. Amounts(m, a.bal - n, a.earned, a.spent + n, a.ops) /\ m.tx = [a.tx EXCEPT ![t] = -n]
  BY DEF Debited, Amounts
<1>3. a.tx \in [Tx -> Int]
  BY DEF Account
<1> HIDE DEF m
<1>4. m.tx[t] # 0 /\ \A u \in Tx \ {t} : m.tx[u] = a.tx[u]
  BY <1>2, <1>3
<1> QED BY <1>1, <1>2, <1>4 DEF m

LEMMA DebitDecision ==
  ASSUME NEW a \in Account, Balanced(a), NEW n \in Amount, Smaller(n, a.bal) # 0,
         NEW t \in Tx, a.tx[t] = 0
  PROVE  Decision(a, Debited(a, Smaller(n, a.bal), t), t)
<1> DEFINE paid == Smaller(n, a.bal)
           m == Debited(a, paid, t)
<1>1. paid \in Nat /\ paid > 0 /\ paid <= a.bal
  BY PaidRange DEF Account, Balanced
<1>2. /\ m \in Account /\ Balanced(m) /\ (Matches(a) => Matches(m))
      /\ Amounts(m, a.bal - paid, a.earned, a.spent + paid, a.ops)
      /\ m.tx[t] # 0 /\ \A u \in Tx \ {t} : m.tx[u] = a.tx[u]
  <2> HIDE DEF paid
  <2> QED BY <1>1, DebitAmounts
<1> HIDE DEF m
<1>3. Decided(m, a)
  BY <1>2 DEF Decided
<1>4. KeepsOutcomes(m, a)
  BY <1>2 DEF KeepsOutcomes, Amounts
<1> QED BY <1>2, <1>3, <1>4 DEF Decision, m

\* An outcome recorded over amounts that differ by what was paid.
LEMMA JournalledAmounts ==
  ASSUME NEW d \in Account, NEW o \in Op, d.ops[o] = NoOutcome, NEW n \in Amount,
         NEW a \in Account, Balanced(a), NEW paid \in Nat, paid = Smaller(n, d.bal),
         Amounts(a, d.bal - paid, d.earned, d.spent + paid, d.ops),
         Matches(d) => Matches(a)
  PROVE  LET m == Journalled(a, o, n, paid)
         IN  /\ m \in Account /\ Balanced(m) /\ (Matches(d) => Matches(m))
             /\ KeepsOutcomes(m, d) /\ Decided(m, d) /\ m.tx = a.tx
<1> DEFINE m == Journalled(a, o, n, paid)
<1>1. m \in Account /\ Balanced(m)
  BY JournalledType, JournalledBalance
<1>2. /\ m.ops = [a.ops EXCEPT ![o] = [asked |-> n, paid |-> paid]]
      /\ m.bal = a.bal /\ m.earned = a.earned /\ m.spent = a.spent /\ m.tx = a.tx
  BY DEF Journalled, Account
<1>3. /\ a.bal = d.bal - paid /\ a.earned = d.earned /\ a.spent = d.spent + paid
      /\ a.ops = d.ops /\ d.ops \in [Op -> Outcome]
  BY DEF Amounts, Account
<1> HIDE DEF m
<1>4. Matches(d) => Matches(m)
  BY <1>2, SameMatches
<1>5. KeepsOutcomes(m, d)
  BY <1>2, <1>3 DEF KeepsOutcomes
<1>6. Amounts(m, d.bal - Smaller(n, d.bal), d.earned, d.spent + Smaller(n, d.bal),
              [d.ops EXCEPT ![o] = [asked |-> n, paid |-> Smaller(n, d.bal)]])
  BY <1>2, <1>3 DEF Amounts
<1>7. Decided(m, d)
  BY <1>6 DEF Decided
<1> QED BY <1>1, <1>2, <1>4, <1>5, <1>7 DEF m

LEMMA KeyedDecision ==
  ASSUME NEW a \in Account, Balanced(a), NEW o \in Op, a.ops[o] = NoOutcome,
         NEW n \in Amount
  PROVE  LET paid == Smaller(n, a.bal)
         IN  /\ paid = 0 => Decision(a, Journalled(a, o, n, 0), NoTx)
             /\ \A t \in Tx : paid # 0 /\ a.tx[t] = 0 =>
                  Decision(a, Journalled(Debited(a, paid, t), o, n, paid), t)
<1> DEFINE paid == Smaller(n, a.bal)
<1>1. paid \in Nat /\ paid <= a.bal /\ (paid # 0 => paid > 0)
  BY PaidRange DEF Account, Balanced
<1>2. paid = Smaller(n, a.bal)
  OBVIOUS
<1> HIDE DEF paid
<1>3. ASSUME paid = 0 PROVE Decision(a, Journalled(a, o, n, 0), NoTx)
  <2>1. Amounts(a, a.bal - 0, a.earned, a.spent + 0, a.ops) /\ 0 = Smaller(n, a.bal)
    BY <1>2, <1>3 DEF Amounts, Account
  <2> DEFINE m == Journalled(a, o, n, 0)
  <2>2. /\ m \in Account /\ Balanced(m) /\ (Matches(a) => Matches(m))
        /\ KeepsOutcomes(m, a) /\ Decided(m, a) /\ m.tx = a.tx
    BY <2>1, JournalledAmounts
  <2> HIDE DEF m
  <2>3. Decision(a, m, NoTx)
    BY <2>2 DEF Decision
  <2> QED BY <2>3 DEF m
<1>4. ASSUME NEW t \in Tx, paid # 0, a.tx[t] = 0
      PROVE  Decision(a, Journalled(Debited(a, paid, t), o, n, paid), t)
  <2> DEFINE b == Debited(a, paid, t)
             m == Journalled(b, o, n, paid)
  <2>1. /\ b \in Account /\ Balanced(b) /\ (Matches(a) => Matches(b))
        /\ Amounts(b, a.bal - paid, a.earned, a.spent + paid, a.ops)
        /\ b.tx[t] # 0 /\ \A u \in Tx \ {t} : b.tx[u] = a.tx[u]
    BY <1>1, <1>4, DebitAmounts
  <2> HIDE DEF b
  <2>2. /\ m \in Account /\ Balanced(m) /\ (Matches(a) => Matches(m))
        /\ KeepsOutcomes(m, a) /\ Decided(m, a) /\ m.tx = b.tx
    BY <1>1, <1>2, <2>1, JournalledAmounts
  <2> HIDE DEF m
  <2>3. Decision(a, m, t)
    BY <1>4, <2>1, <2>2 DEF Decision
  <2> QED BY <2>3 DEF m, b
<1> QED BY <1>3, <1>4 DEF paid

\* A public operation on a readable file writes such an account, or nothing.
LEMMA Decisions ==
  ASSUME TypeOK, DoubleEntry, \A t \in Tx : answer[t] = "unused" => disk.tx[t] = 0,
         NEW p \in Proc, Earn(p) \/ Spend(p) \/ KeyedDebit(p)
  PROVE  \/ /\ mem' = [mem EXCEPT ![p] = Adopted(disk)]
            /\ Release(p) /\ UNCHANGED <<filesVars, ghostVars>>
         \/ \E m, t : /\ Decision(disk, m, t) /\ Write(p, disk, m, t)
                      /\ t = NoTx \/ t \in FreshTx
<1> DEFINE n == job[p].amt
           paid == Smaller(n, disk.bal)
           o == job[p].op
<1>1. disk \in Account /\ Balanced(disk)
  BY DEF TypeOK, DoubleEntry
<1>2. n \in Amount
  BY DEF Earn, Spend, KeyedDebit, TypeOK, Job
<1>3. \A t \in FreshTx : t \in Tx /\ disk.tx[t] = 0
  BY DEF FreshTx
<1>4. ASSUME Earn(p)
      PROVE \E t \in FreshTx : Write(p, disk, Credited(disk, n, t), t)
  BY <1>4 DEF Earn
<1>5. ASSUME Spend(p)
      PROVE \/ /\ mem' = [mem EXCEPT ![p] = Adopted(disk)]
               /\ Release(p) /\ UNCHANGED <<filesVars, ghostVars>>
            \/ paid # 0 /\ \E t \in FreshTx : Write(p, disk, Debited(disk, paid, t), t)
  BY <1>5 DEF Spend
<1>6. ASSUME KeyedDebit(p)
      PROVE \/ paid = 0 /\ Write(p, disk, Journalled(disk, o, n, 0), NoTx)
            \/ /\ paid # 0
               /\ \E t \in FreshTx :
                    Write(p, disk, Journalled(Debited(disk, paid, t), o, n, paid), t)
  BY <1>6 DEF KeyedDebit
<1>7. KeyedDebit(p) => o \in Op /\ disk.ops[o] = NoOutcome
  BY DEF KeyedDebit, Recorded, TypeOK, Job
<1> HIDE DEF n, o
<1>8. CASE Earn(p)
  BY <1>1, <1>2, <1>3, <1>4, <1>8, CreditDecision
<1>9. CASE Spend(p)
  BY <1>1, <1>2, <1>3, <1>5, <1>9, DebitDecision
<1>10. CASE KeyedDebit(p)
  BY <1>1, <1>2, <1>3, <1>6, <1>7, <1>10, KeyedDecision
<1> QED BY <1>8, <1>9, <1>10

-----------------------------------------------------------------------------
(* Every event is accounted for *)

Books == EventInv /\ ImageInv

\* What a step that ends p's operation, or only looks, may put in a cache.
CachedFrom(q) ==
  /\ mem'[q].acct.tx \in {mem[q].acct.tx, mem[q].base.tx, disk.tx, Blank.tx}
  /\ mem'[q].base.tx \in {mem[q].base.tx, disk.tx, Blank.tx}

\* The event is neither in the file, nor in what a power failure leaves, nor
\* in a cache as it will be.
Forgotten(t) ==
  /\ disk.tx[t] = 0 /\ stableDisk.tx[t] = 0
  /\ \A q \in Proc : mem'[q].acct.tx[t] = 0 /\ mem'[q].base.tx[t] = 0

LEMMA NowhereStays ==
  ASSUME NEW t \in Tx, Nowhere(t), \A q \in Proc : CachedFrom(q)
  PROVE  Forgotten(t)
<1>1. Blank.tx[t] = 0
  BY DEF Blank
<1> QED BY <1>1 DEF Nowhere, CachedFrom, Forgotten

\* Outside a save, what matters of a job is that it has no image.
Resting(q) == pc'[q] \in {"idle", "locked"} /\ job'[q].img = Blank /\ job'[q].tx = NoTx

LEMMA RestingBooks ==
  ASSUME Books, \A q \in Proc : Resting(q), UNCHANGED <<disk, stableDisk>>,
         \A t \in Tx : \/ answer'[t] = answer[t] /\ (Nowhere(t) => Forgotten(t))
                       \/ answer'[t] = "yes" /\ stableDisk.tx[t] # 0
                       \/ answer'[t] = "no" /\ Forgotten(t)
  PROVE  Books'
<1>1. \A p \in Proc : EventOf(p)'
  BY DEF Resting, EventOf, Working, InSave
<1>2. KeepsEvents(disk', stableDisk')
  BY DEF Books, EventInv, KeepsEvents
<1>3. ASSUME NEW t \in Tx
      PROVE  /\ answer'[t] \in {"unused", "no"} => Nowhere(t)'
             /\ answer'[t] = "yes" => stableDisk'.tx[t] # 0
  <2>1. Blank.tx[t] = 0
    BY DEF Blank
  <2>2. Forgotten(t) => Nowhere(t)'
    BY <2>1 DEF Forgotten, Nowhere, Resting
  <2> QED BY <2>2 DEF Books, EventInv
<1>4. EventInv'
  BY <1>1, <1>2, <1>3 DEF EventInv
<1>5. ImageInv'
  BY DEF Books, ImageInv, Resting, Working, InSave, Matches, Credits, Debits
<1> QED BY <1>4, <1>5 DEF Books

LEMMA OthersIdle ==
  ASSUME TypeOK, Protocol, NEW p \in Proc, pc[p] # "idle"
  PROVE  lock = p /\ \A q \in Proc : q # p => pc[q] = "idle"
  BY DEF Protocol, HolderOnly

\* An operation ends: the files stay.
LEMMA EndBooks ==
  ASSUME TypeOK, Protocol, Books, NEW p \in Proc, pc[p] # "idle", Release(p),
         UNCHANGED <<disk, stableDisk>>, \A q \in Proc : CachedFrom(q),
         \A t \in Tx : \/ answer'[t] = answer[t]
                       \/ answer'[t] = "yes" /\ stableDisk.tx[t] # 0
                       \/ answer'[t] = "no" /\ Forgotten(t)
  PROVE  Books'
<1>1. ASSUME NEW q \in Proc PROVE Resting(q)
  <2>1. CASE q = p
    BY <2>1 DEF Release, Resting, NoJob, TypeOK
  <2>2. CASE q # p
    <3>1. pc[q] = "idle" /\ pc'[q] = "idle" /\ job'[q] = job[q]
      BY <2>2, OthersIdle DEF Release, TypeOK
    <3> QED BY <3>1 DEF Books, EventInv, EventOf, Resting
  <2> QED BY <2>1, <2>2
<1>2. \A t \in Tx : Nowhere(t) => Forgotten(t)
  BY NowhereStays
<1> QED BY <1>1, <1>2, RestingBooks

\* Nobody is inside an operation: the files stay, and a cache may be refreshed.
LEMMA LookBooks ==
  ASSUME TypeOK, Protocol, Books, lock = NoProc, UNCHANGED <<disk, stableDisk, answer>>,
         \A q \in Proc : CachedFrom(q),
         \A q \in Proc : \/ pc'[q] = pc[q] /\ job'[q] = job[q]
                         \/ Resting(q)
  PROVE  Books'
<1>1. \A q \in Proc : pc[q] = "idle"
  BY NoneAssumption DEF Protocol, HolderOnly
<1>2. \A q \in Proc : Resting(q)
  BY <1>1 DEF Books, EventInv, EventOf, Resting
<1>3. \A t \in Tx : Nowhere(t) => Forgotten(t)
  BY NowhereStays
<1> QED BY <1>2, <1>3, RestingBooks

LEMMA BlockedFrom ==
  ASSUME TypeOK, NEW p \in Proc, Block(p) \/ UNCHANGED mem
  PROVE  \A q \in Proc : CachedFrom(q)
  BY DEF Block, CachedFrom, TypeOK, Memory

LEMMA AdoptedFrom ==
  ASSUME TypeOK, NEW p \in Proc, NEW m \in {Adopted(disk), Unread(TRUE), Unread(FALSE)},
         mem' = [mem EXCEPT ![p] = m]
  PROVE  \A q \in Proc : CachedFrom(q)
<1>1. m.acct \in {disk, Blank} /\ m.base \in {disk, Blank}
  BY DEF Adopted, Unread
<1> QED BY <1>1 DEF CachedFrom, TypeOK, Memory

LEMMA RolledBackFrom ==
  ASSUME TypeOK, NEW p \in Proc, NEW b, mem' = RolledBack(p, b)
  PROVE  \A q \in Proc : CachedFrom(q)
  BY DEF CachedFrom, TypeOK, Memory, RolledBack

\* A positive answer is given when the event is durable.
LEMMA ReportedIsDurable ==
  ASSUME TypeOK, Protocol, Books, NEW p \in Proc, pc[p] = "committed", Report(p)
  PROVE  \A t \in Tx : \/ answer'[t] = answer[t]
                       \/ answer'[t] = "yes" /\ stableDisk.tx[t] # 0
<1>1. stableDisk = job[p].img
  BY DEF Protocol, ImageFollowsDisk
<1>2. CASE job[p].tx = NoTx
  BY <1>2 DEF Report, Answer
<1>3. CASE job[p].tx # NoTx
  <2>1. stableDisk.tx[job[p].tx] # 0
    BY <1>1, <1>3 DEF Books, EventInv, EventOf, Working
  <2>2. answer' = [answer EXCEPT ![job[p].tx] = "yes"]
    BY <1>3 DEF Report, Answer
  <2> QED BY <2>1, <2>2 DEF TypeOK
<1> QED BY <1>2, <1>3

\* A negative answer is given when the event is nowhere.
LEMMA FailedIsNowhere ==
  ASSUME TypeOK, Protocol, Books, NEW p \in Proc, InSave(p),
         mem' = RolledBack(p, FALSE), Answer(p, "no") \/ UNCHANGED answer
  PROVE  \A t \in Tx : \/ answer'[t] = answer[t]
                       \/ answer'[t] = "no" /\ Forgotten(t)
<1> DEFINE t == job[p].tx
<1>1. CASE t = NoTx
  BY <1>1 DEF Answer
<1>2. CASE t # NoTx
  <2>1. /\ disk.tx[t] = 0 /\ stableDisk.tx[t] = 0
        /\ \A q \in Proc : mem[q].base.tx[t] = 0 /\ (q # p => mem[q].acct.tx[t] = 0)
        /\ job[p].kind # "acknowledge"
    BY <1>2 DEF Books, EventInv, EventOf, InSave
  <2>2. \A q \in Proc : mem'[q].acct.tx[t] = 0 /\ mem'[q].base.tx[t] = 0
    BY <2>1 DEF RolledBack, TypeOK, Memory
  <2>3. Forgotten(t)
    BY <2>1, <2>2 DEF Forgotten
  <2>4. UNCHANGED answer \/ answer' = [answer EXCEPT ![t] = "no"]
    BY <1>2 DEF Answer
  <2> HIDE DEF t
  <2> QED BY <2>3, <2>4 DEF TypeOK
<1> QED BY <1>1, <1>2

\* The step from the refreshed cache to the temporary file.
LEMMA WriteBooks ==
  ASSUME TypeOK, Protocol, Books, NEW p \in Proc, Refreshed(p),
         NEW m, NEW t, Decision(disk, m, t), t = NoTx \/ t \in FreshTx,
         Write(p, disk, m, t)
  PROVE  Books'
<1> DEFINE img == Merge(disk, m, disk)
<1>1. /\ disk \in Account /\ m \in Account /\ Matches(m) /\ KeepsEvents(m, disk)
      /\ Decided(m, disk)
  <2>1. KeepsEvents(m, disk)
    BY DEF Decision, KeepsEvents
  <2> QED BY <2>1 DEF Decision, TypeOK, Books, ImageInv
<1>2. /\ img.bal = m.bal /\ img.earned = m.earned /\ img.spent = m.spent
      /\ img.ops = m.ops /\ img.tx = m.tx
  BY <1>1, MergeExact DEF Decision
<1>3. lock = p /\ pc[p] = "locked" /\ disk = stableDisk /\ job[p].kind # "acknowledge"
  BY ReadableIsStable DEF Refreshed, Accounting, Protocol, HolderOnly
<1>4. /\ job'[p].img = img /\ job'[p].tx = t /\ job'[p].kind = job[p].kind
      /\ pc'[p] = "tmp" /\ mem'[p].acct = m /\ mem'[p].base = disk
      /\ UNCHANGED <<disk, stableDisk>>
  BY DEF Write, Goto, TypeOK, Job, JobRecord, filesVars
<1>5. \A q \in Proc : q # p => /\ pc[q] = "idle" /\ pc'[q] = "idle"
                               /\ job'[q] = job[q] /\ mem'[q] = mem[q]
  BY <1>3, OthersIdle DEF Write, Goto, TypeOK
<1>6. \A u \in Tx : u # t => answer'[u] = answer[u] /\ m.tx[u] = disk.tx[u]
  BY NoneAssumption DEF Decision, Write, TypeOK
<1>7. t # NoTx => t \in Tx /\ answer[t] = "unused" /\ answer'[t] = "pending" /\ m.tx[t] # 0
  BY NoneAssumption DEF Decision, Write, TypeOK, FreshTx
<1> HIDE DEF img
<1>8. EventOf(p)'
  <2>1. t # NoTx => Nowhere(t)
    BY <1>7 DEF Books, EventInv
  <2>2. KeepsEvents(job'[p].img, disk')
    BY <1>1, <1>2, <1>4 DEF KeepsEvents
  <2>3. t # NoTx => /\ disk'.tx[t] = 0 /\ stableDisk'.tx[t] = 0
                    /\ \A q \in Proc : /\ mem'[q].base.tx[t] = 0
                                       /\ q # p => mem'[q].acct.tx[t] = 0
    BY <1>4, <1>5, <2>1 DEF Nowhere
  <2> QED BY <1>2, <1>3, <1>4, <1>7, <2>2, <2>3 DEF EventOf, InSave
<1>9. ASSUME NEW q \in Proc, q # p PROVE EventOf(q)'
  BY <1>5, <1>9 DEF Books, EventInv, EventOf, InSave, Working
<1>10. KeepsEvents(disk', stableDisk')
  BY <1>3, <1>4 DEF KeepsEvents
<1>11. ASSUME NEW u \in Tx
       PROVE  /\ answer'[u] \in {"unused", "no"} => Nowhere(u)'
              /\ answer'[u] = "yes" => stableDisk'.tx[u] # 0
  <2>1. CASE u = t
    BY <1>7, <2>1, NoneAssumption
  <2>2. CASE u # t
    <3>1. Nowhere(u) => Nowhere(u)'
      BY <1>2, <1>4, <1>5, <1>6, <2>2 DEF Nowhere
    <3> QED BY <1>4, <1>6, <2>2, <3>1 DEF Books, EventInv
  <2> QED BY <2>1, <2>2
<1>12. EventInv'
  BY <1>8, <1>9, <1>10, <1>11 DEF EventInv
<1>13. Matches(img) /\ Decided(img, disk)
  BY <1>1, <1>2, SameMatches DEF Decided, Amounts
<1>14. Matches(disk') /\ Matches(stableDisk')
  BY <1>4 DEF Books, ImageInv
<1>15. ImageInv'
  BY <1>4, <1>5, <1>13, <1>14 DEF ImageInv, InSave, Working
<1> QED BY <1>12, <1>15 DEF Books

\* An acknowledgement rewrites the accounts it found.
LEMMA AcknowledgeBooks ==
  ASSUME TypeOK, Protocol, Books, NEW p \in Proc, Acknowledge(p)
  PROVE  Books'
<1> DEFINE img == [disk EXCEPT !.ack = incidents]
<1>1. /\ lock = p /\ pc[p] = "locked" /\ job[p].tx = NoTx
      /\ \A q \in Proc : q # p => pc[q] = "idle"
  BY OthersIdle DEF Acknowledge, Books, EventInv, EventOf
<1>2. /\ img.tx = disk.tx /\ img.bal = disk.bal /\ img.earned = disk.earned
      /\ img.spent = disk.spent /\ img.ops = disk.ops
  BY DEF TypeOK, Account
<1>3. /\ job'[p].img = img /\ job'[p].tx = NoTx
      /\ pc'[p] = "tmp" /\ UNCHANGED <<disk, stableDisk, mem, answer>>
  BY <1>1 DEF Acknowledge, Goto, TypeOK, Job, JobRecord, filesVars, ghostVars
<1>4. \A q \in Proc : q # p => pc[q] = "idle" /\ pc'[q] = "idle" /\ job'[q] = job[q]
  BY <1>1 DEF Acknowledge, Goto, TypeOK
<1> HIDE DEF img
<1>5. EventOf(p)'
  BY <1>2, <1>3 DEF EventOf, InSave, KeepsEvents
<1>6. ASSUME NEW q \in Proc, q # p PROVE EventOf(q)'
  BY <1>4, <1>6 DEF Books, EventInv, EventOf, InSave, Working
<1>7. \A u \in Tx : Nowhere(u) => Nowhere(u)'
  BY <1>2, <1>3, <1>4 DEF Nowhere
<1>8. EventInv'
  BY <1>3, <1>5, <1>6, <1>7 DEF Books, EventInv, KeepsEvents
<1>9. Matches(img) /\ Decided(img, disk)
  BY <1>2, SameMatches DEF Books, ImageInv, Decided, Amounts
<1>10. Matches(disk') /\ Matches(stableDisk')
  BY <1>3 DEF Books, ImageInv
<1>11. ImageInv'
  BY <1>3, <1>4, <1>9, <1>10 DEF ImageInv, InSave, Working
<1> QED BY <1>8, <1>11 DEF Books

\* A step inside the save, which moves an image or a barrier and no event.
LEMMA SaveBooks ==
  ASSUME TypeOK, Protocol, Books, NEW p \in Proc,
         PublishIntent(p) \/ SyncIntent(p) \/ Replace(p) \/ SyncReplace(p)
  PROVE  Books'
<1> USE DEF Books
<1>1. /\ pc[p] \in Working /\ pc'[p] \in Working /\ lock = p
      /\ InSave(p)' => InSave(p) /\ UNCHANGED disk
      /\ \A q \in Proc : q # p => pc[q] = "idle" /\ pc'[q] = "idle" /\ job'[q] = job[q]
  BY OthersIdle
     DEF PublishIntent, SyncIntent, Replace, SyncReplace, Goto, TypeOK, Working, InSave
<1>2. /\ job'[p].img = job[p].img /\ job'[p].tx = job[p].tx /\ job'[p].kind = job[p].kind
      /\ UNCHANGED answer
  BY DEF PublishIntent, SyncIntent, Replace, SyncReplace, TypeOK, Job, JobRecord, ghostVars
<1>3. /\ disk' \in {disk, job[p].img} /\ stableDisk' \in {disk, stableDisk}
      /\ KeepsEvents(disk', stableDisk') /\ KeepsEvents(stableDisk', stableDisk)
  <2>1. CASE PublishIntent(p)
    BY <2>1 DEF PublishIntent, EventInv, KeepsEvents
  <2>2. CASE SyncIntent(p) \/ SyncReplace(p)
    BY <2>2 DEF SyncIntent, SyncReplace, Sync, EventInv, KeepsEvents
  <2>3. CASE Replace(p)
    <3>1. stableDisk = disk /\ InSave(p)
      BY <2>3 DEF Replace, Protocol, ImageFollowsDisk, InSave
    <3> QED BY <2>3, <3>1 DEF Replace, EventInv, EventOf, KeepsEvents
  <2> QED BY <2>1, <2>2, <2>3
<1>4. /\ InSave(p)' => UNCHANGED mem
      /\ \A q \in Proc : /\ mem'[q].acct \in {mem[q].acct, job[p].img}
                         /\ mem'[q].base \in {mem[q].base, job[p].img}
  BY DEF PublishIntent, SyncIntent, Replace, SyncReplace, Goto, InSave, TypeOK, Memory, Adopted
<1>5. \A u \in Tx : Nowhere(u) => Nowhere(u)'
  <2> SUFFICES ASSUME NEW u \in Tx, Nowhere(u) PROVE Nowhere(u)'
    OBVIOUS
  <2>1. disk'.tx[u] = 0 /\ stableDisk'.tx[u] = 0
    BY <1>3 DEF Nowhere
  <2>2. \A q \in Proc : mem'[q].acct.tx[u] = 0 /\ mem'[q].base.tx[u] = 0
    BY <1>4 DEF Nowhere
  <2>3. \A q \in Proc : job'[q].img = job[q].img
    BY <1>1, <1>2
  <2> QED BY <2>1, <2>2, <2>3 DEF Nowhere
<1>6. EventOf(p)'
  <2>1. InSave(p)' /\ job[p].tx # NoTx =>
          /\ disk'.tx[job[p].tx] = 0 /\ stableDisk'.tx[job[p].tx] = 0
          /\ \A q \in Proc : /\ mem'[q].base.tx[job[p].tx] = 0
                             /\ q # p => mem'[q].acct.tx[job[p].tx] = 0
    BY <1>1, <1>3, <1>4 DEF EventInv, EventOf
  <2>2. InSave(p)' => KeepsEvents(job'[p].img, disk')
    BY <1>1, <1>2 DEF EventInv, EventOf
  <2>3. /\ job'[p].kind = "acknowledge" => job'[p].tx = NoTx
        /\ job'[p].tx # NoTx => job'[p].img.tx[job'[p].tx] # 0
                                  /\ answer'[job'[p].tx] = "pending"
    BY <1>1, <1>2 DEF EventInv, EventOf
  <2> QED BY <1>1, <1>2, <2>1, <2>2, <2>3 DEF EventOf, Working
<1>7. ASSUME NEW q \in Proc, q # p PROVE EventOf(q)'
  BY <1>1, <1>7 DEF EventInv, EventOf, InSave, Working
<1>8. \A u \in Tx : answer'[u] = "yes" => stableDisk'.tx[u] # 0
  BY <1>2, <1>3 DEF EventInv, KeepsEvents
<1>9. EventInv'
  BY <1>2, <1>3, <1>5, <1>6, <1>7, <1>8 DEF EventInv
<1>10. Matches(disk') /\ Matches(stableDisk') /\ Matches(job'[p].img)
  BY <1>1, <1>2, <1>3 DEF ImageInv
<1>11. ImageInv'
  BY <1>1, <1>2, <1>10 DEF ImageInv, InSave, Working
<1> QED BY <1>9, <1>11

\* A killed process loses its cache and its image.
LEMMA KillBooks ==
  ASSUME TypeOK, Books, NEW p \in Proc, Kill(p)
  PROVE  Books'
<1> USE DEF Books
<1>1. /\ mem'[p] = Down /\ job'[p] = NoJob /\ pc'[p] = "idle"
      /\ \A q \in Proc : q # p => mem'[q] = mem[q] /\ job'[q] = job[q] /\ pc'[q] = pc[q]
      /\ UNCHANGED <<disk, stableDisk, answer>>
  BY DEF Kill, TypeOK, filesVars, ghostVars
<1>2. \A u \in Tx : Down.acct.tx[u] = 0 /\ Down.base.tx[u] = 0 /\ NoJob.img.tx[u] = 0
  BY DEF Down, NoJob, Blank
<1>3. EventOf(p)'
  BY <1>1 DEF EventOf, NoJob, InSave, Working
<1>4. ASSUME NEW q \in Proc, q # p PROVE EventOf(q)'
  <2>1. job[q].tx \in Tx \cup {NoTx}
    BY DEF TypeOK, Job, JobRecord
  <2> QED BY <1>1, <1>2, <1>4, <2>1 DEF EventInv, EventOf, InSave, Working
<1>5. \A u \in Tx : Nowhere(u) => Nowhere(u)'
  BY <1>1, <1>2 DEF Nowhere
<1>6. EventInv'
  BY <1>1, <1>3, <1>4, <1>5 DEF EventInv
<1>7. ImageInv'
  BY <1>1 DEF ImageInv, InSave, Working
<1> QED BY <1>6, <1>7

\* A power failure leaves one of the two contents, and no cache.
LEMMA PowerBooks ==
  ASSUME TypeOK, Books, PowerFailure
  PROVE  Books'
<1> USE DEF Books
<1>1. /\ \A q \in Proc : mem'[q] = Down /\ job'[q] = NoJob /\ pc'[q] = "idle"
      /\ disk' \in {disk, stableDisk} /\ stableDisk' = disk' /\ UNCHANGED answer
  BY DEF PowerFailure, ghostVars
<1>2. \A u \in Tx : Down.acct.tx[u] = 0 /\ Down.base.tx[u] = 0 /\ NoJob.img.tx[u] = 0
  BY DEF Down, NoJob, Blank
<1>3. \A q \in Proc : EventOf(q)'
  BY <1>1 DEF EventOf, NoJob, InSave, Working
<1>4. \A u \in Tx : Nowhere(u) => Nowhere(u)'
  BY <1>1, <1>2 DEF Nowhere
<1>5. \A u \in Tx : answer'[u] = "yes" => stableDisk'.tx[u] # 0
  BY <1>1 DEF EventInv, KeepsEvents
<1>6. EventInv'
  BY <1>1, <1>3, <1>4, <1>5 DEF EventInv, KeepsEvents
<1>7. ImageInv'
  BY <1>1 DEF ImageInv, InSave, Working
<1> QED BY <1>6, <1>7

LEMMA BooksStep ==
  ASSUME TypeOK, DoubleEntry, Protocol, Books, [Next]_vars
  PROVE  Books'
<1>1. ASSUME NEW p \in Proc, Load(p) PROVE Books'
  <2>1. /\ lock = NoProc /\ UNCHANGED <<disk, stableDisk, answer, pc, job>>
        /\ \E m \in {Adopted(disk), Unread(TRUE), Unread(FALSE)} : mem' = [mem EXCEPT ![p] = m]
    BY <1>1 DEF Load, QuarantineIfDamaged, filesVars, ghostVars
  <2>2. \A q \in Proc : CachedFrom(q)
    BY <2>1, AdoptedFrom
  <2> QED BY <2>1, <2>2, LookBooks
<1>2. ASSUME NEW p \in Proc, NEW o \in Op, Lookup(p, o) PROVE Books'
  <2>1. /\ lock = NoProc /\ UNCHANGED <<disk, stableDisk, answer, pc, job>>
        /\ Block(p) \/ UNCHANGED mem
    BY <1>2 DEF Lookup, QuarantineIfDamaged, filesVars
  <2> QED BY <2>1, BlockedFrom, LookBooks
<1>3. ASSUME NEW p \in Proc, Call(p) PROVE Books'
  <2>1. PICK r \in Requests : job' = [job EXCEPT ![p] = r]
    BY <1>3 DEF Call
  <2>2. r.img = Blank /\ r.tx = NoTx
    BY DEF Requests, Request
  <2>3. \A q \in Proc : \/ pc'[q] = pc[q] /\ job'[q] = job[q]
                        \/ Resting(q)
    BY <1>3, <2>1, <2>2 DEF Call, Resting, TypeOK
  <2>4. lock = NoProc /\ UNCHANGED <<disk, stableDisk, answer, mem>>
    BY <1>3 DEF Call, filesVars, ghostVars
  <2>5. \A q \in Proc : CachedFrom(q)
    BY <2>4 DEF CachedFrom
  <2> QED BY <2>3, <2>4, <2>5, LookBooks
<1>4. ASSUME NEW p \in Proc,
             Refuse(p) \/ EndUnwritten(p) \/ InterruptRefresh(p) \/ Replay(p)
      PROVE  Books'
  <2>1. /\ pc[p] # "idle" /\ Release(p) /\ UNCHANGED <<disk, stableDisk, answer>>
        /\ Block(p) \/ UNCHANGED mem
    BY <1>4 DEF Refuse, EndUnwritten, InterruptRefresh, Replay, Accounting,
                QuarantineIfDamaged, filesVars, ghostVars
  <2> QED BY <2>1, BlockedFrom, EndBooks
<1>5. ASSUME NEW p \in Proc, Earn(p) \/ Spend(p) \/ KeyedDebit(p) PROVE Books'
  <2>1. pc[p] # "idle" /\ Refreshed(p)
    BY <1>5 DEF Earn, Spend, KeyedDebit, Refreshed, Accounting
  <2>2. \A t \in Tx : answer[t] = "unused" => disk.tx[t] = 0
    BY DEF Books, EventInv, Nowhere
  <2>3. CASE mem' = [mem EXCEPT ![p] = Adopted(disk)] /\ Release(p)
               /\ UNCHANGED <<filesVars, ghostVars>>
    <3>1. UNCHANGED <<disk, stableDisk, answer>>
      BY <2>3 DEF filesVars, ghostVars
    <3>2. \A q \in Proc : CachedFrom(q)
      BY <2>3, AdoptedFrom
    <3> QED BY <2>1, <2>3, <3>1, <3>2, EndBooks
  <2> QED BY <1>5, <2>1, <2>2, <2>3, Decisions, WriteBooks
<1>6. ASSUME NEW p \in Proc, Commit(p) PROVE Books'
  <2>1. /\ pc[p] = "committed" /\ Release(p) /\ UNCHANGED <<disk, stableDisk>> /\ Report(p)
        /\ UNCHANGED mem \/ mem' = [mem EXCEPT ![p] = Adopted(job[p].img)]
    BY <1>6 DEF Commit
  <2>2. job[p].img = disk
    BY <2>1 DEF Protocol, ImageFollowsDisk
  <2>3. \A q \in Proc : CachedFrom(q)
    <3>1. CASE UNCHANGED mem
      BY <3>1 DEF CachedFrom
    <3>2. CASE mem' = [mem EXCEPT ![p] = Adopted(disk)]
      BY <3>2, AdoptedFrom
    <3> QED BY <2>1, <2>2, <3>1, <3>2
  <2> QED BY <2>1, <2>3, ReportedIsDurable, EndBooks
<1>7. ASSUME NEW p \in Proc, CommitMarkerStays(p) \/ InterruptCommitted(p) PROVE Books'
  <2>1. /\ pc[p] = "committed" /\ Release(p) /\ UNCHANGED <<disk, stableDisk>>
        /\ Report(p) \/ UNCHANGED answer
        /\ Block(p) \/ UNCHANGED mem
    BY <1>7 DEF CommitMarkerStays, InterruptCommitted, filesVars, ghostVars
  <2> QED BY <2>1, BlockedFrom, ReportedIsDurable, EndBooks
<1>8. ASSUME NEW p \in Proc, FailKnown(p) PROVE Books'
  <2>1. /\ InSave(p) /\ pc[p] # "idle" /\ Release(p) /\ UNCHANGED <<disk, stableDisk>>
        /\ mem' = RolledBack(p, FALSE) /\ (Answer(p, "no") \/ UNCHANGED answer)
    BY <1>8 DEF FailKnown, FailBefore, InSave
  <2> QED BY <2>1, RolledBackFrom, FailedIsNowhere, EndBooks
<1>9. ASSUME NEW p \in Proc, FailCleanup(p) \/ FailUncertain(p) PROVE Books'
  <2>1. /\ pc[p] # "idle" /\ Release(p) /\ UNCHANGED <<disk, stableDisk, answer>>
        /\ mem' = RolledBack(p, TRUE)
    BY <1>9 DEF FailCleanup, FailUncertain, filesVars, ghostVars
  <2> QED BY <2>1, RolledBackFrom, EndBooks
<1>10. ASSUME Damage \/ Restore \/ UNCHANGED vars PROVE Books'
  <2>1. UNCHANGED <<disk, stableDisk, mem, pc, job, answer>>
    BY <1>10 DEF Damage, Restore, vars, filesVars, ghostVars
  <2>2. EventInv'
    BY <2>1 DEF Books, EventInv, EventOf, Nowhere, InSave, Working, KeepsEvents
  <2>3. ImageInv'
    BY <2>1 DEF Books, ImageInv, InSave, Working
  <2> QED BY <2>2, <2>3 DEF Books
<1> QED
  BY <1>1, <1>2, <1>3, <1>4, <1>5, <1>6, <1>7, <1>8, <1>9, <1>10, AcknowledgeBooks,
     SaveBooks, KillBooks, PowerBooks DEF Next, Operate, Save, Fail

\* Every event of every account is where the answers given say it is.
THEOREM BooksHold == Spec => [](TypeOK /\ DoubleEntry /\ Protocol /\ Books)
<1>1. Init => Books
  <2> SUFFICES ASSUME Init PROVE Books
    OBVIOUS
  <2>1. /\ disk = FirstAccount /\ stableDisk = FirstAccount
        /\ \A q \in Proc : mem[q] = Down /\ job[q] = NoJob /\ pc[q] = "idle"
        /\ \A t \in Tx : answer[t] = "unused"
    BY DEF Init
  <2>2. \A u \in Tx : Down.acct.tx[u] = 0 /\ Down.base.tx[u] = 0 /\ NoJob.img.tx[u] = 0
    BY DEF Down, NoJob, Blank
  <2>3. EventInv
    BY <2>1, <2>2, FirstMatches
       DEF EventInv, EventOf, Nowhere, NoJob, InSave, Working, KeepsEvents
  <2>4. ImageInv
    BY <2>1, FirstMatches DEF ImageInv, InSave, Working
  <2> QED BY <2>3, <2>4 DEF Books
<1>2. TypeOK /\ DoubleEntry /\ Protocol /\ Books /\ [Next]_vars => Books'
  BY BooksStep
<1> QED BY <1>1, <1>2, ProtocolHolds, PTL DEF Spec

\* The answer to a write is true of every place the event could be.
THEOREM AnswersAreTrue == Spec => []AnswersHold
<1>1. Books => AnswersHold
  BY DEF Books, EventInv, KeepsEvents, Nowhere, AnswersHold
<1> QED BY <1>1, BooksHold, PTL

\* The totals of both contents of the file are those of their events.
THEOREM TotalsAreEvents == Spec => []AccountsMatchEvents
<1>1. DoubleEntry /\ Books => AccountsMatchEvents
  BY DEF Books, ImageInv, Matches, AccountsMatchEvents
<1> QED BY <1>1, BooksHold, PTL

-----------------------------------------------------------------------------
(* The ledger implements the service it promises *)

LEMMA SameRecord ==
  ASSUME NEW a, NEW bal, NEW earned, NEW spent, NEW ops, Amounts(a, bal, earned, spent, ops)
  PROVE  RecordOf(a) = Service!Record(bal, earned, spent, ops)
  BY DEF Amounts, RecordOf, Service!Record

\* What a save publishes is one operation of the service, or nothing.
LEMMA DecidedIsService ==
  ASSUME Decided(disk', disk), disk = stableDisk, UNCHANGED <<stableDisk, told>>
  PROVE  Service!ServiceNext \/ UNCHANGED Service!serviceVars
<1> DEFINE c == RecordOf(disk)
           r == RecordOf(disk')
<1>1. /\ c.bal = disk.bal /\ c.earned = disk.earned /\ c.spent = disk.spent
      /\ c.ops = disk.ops
  BY DEF RecordOf
<1>2. c = RecordOf(stableDisk) /\ UNCHANGED <<RecordOf(stableDisk), told>>
  BY DEF RecordOf
<1>3. RecordOf(disk)' = r
  BY DEF RecordOf
<1>4. CASE Amounts(disk', disk.bal, disk.earned, disk.spent, disk.ops)
  <2>1. r = c
    BY <1>4 DEF Amounts, RecordOf
  <2> QED BY <1>2, <1>3, <2>1 DEF Service!serviceVars
<1>5. ASSUME NEW n \in Amount,
             Amounts(disk', disk.bal + n, disk.earned + n, disk.spent, disk.ops)
      PROVE  Service!ServiceNext
  <2>1. r = Service!Record(c.bal + n, c.earned + n, c.spent, c.ops)
    BY <1>1, <1>5, SameRecord
  <2>2. Service!Credit(n)
    BY <1>2, <1>3, <2>1 DEF Service!Credit, Service!Write
  <2> QED BY <2>2 DEF Service!ServiceNext
<1>6. ASSUME NEW n \in Amount, NEW paid, paid = Smaller(n, disk.bal),
             Amounts(disk', disk.bal - paid, disk.earned, disk.spent + paid, disk.ops)
      PROVE  Service!ServiceNext
  <2>1. r = Service!Record(c.bal - paid, c.earned, c.spent + paid, c.ops)
    BY <1>1, <1>6, SameRecord
  <2>2. paid = Service!Lesser(n, c.bal)
    BY <1>1, <1>6 DEF Smaller, Service!Lesser
  <2>3. Service!Debit(n)
    BY <1>2, <1>3, <2>1, <2>2 DEF Service!Debit, Service!Write
  <2> QED BY <2>3 DEF Service!ServiceNext
<1>7. ASSUME NEW o \in Op, NEW n \in Amount, NEW paid, paid = Smaller(n, disk.bal),
             disk.ops[o] = NoOutcome,
             Amounts(disk', disk.bal - paid, disk.earned, disk.spent + paid,
                     [disk.ops EXCEPT ![o] = [asked |-> n, paid |-> paid]])
      PROVE  Service!ServiceNext
  <2>1. r = Service!Record(c.bal - paid, c.earned, c.spent + paid,
                           [c.ops EXCEPT ![o] = [asked |-> n, paid |-> paid]])
    BY <1>1, <1>7, SameRecord
  <2>2. paid = Service!Lesser(n, c.bal) /\ c.ops[o] = NoOutcome
    BY <1>1, <1>7 DEF Smaller, Service!Lesser
  <2>3. Service!DebitOnce(o, n)
    BY <1>2, <1>3, <2>1, <2>2 DEF Service!DebitOnce, Service!Write
  <2> QED BY <2>3 DEF Service!ServiceNext
<1> QED BY <1>4, <1>5, <1>6, <1>7 DEF Decided

\* A step that tells a caller anything tells the outcome of one keyed debit.
LEMMA ToldOnce ==
  ASSUME TypeOK, [Next]_vars, told' # told
  PROVE  \E n \in Op : told'[n] # told[n] /\ told' = [told EXCEPT ![n] = told'[n]]
<1>1. ASSUME NEW n \in Op, NEW v, told' = [told EXCEPT ![n] = v]
      PROVE  told'[n] # told[n] /\ told' = [told EXCEPT ![n] = told'[n]]
  BY <1>1 DEF TypeOK
<1>2. ASSUME NEW p \in Proc, NEW n \in Op, Lookup(p, n)
      PROVE  \E v : told' = [told EXCEPT ![n] = v]
  BY <1>2 DEF Lookup
<1>3. ASSUME NEW p \in Proc, Replay(p) \/ Commit(p) \/ CommitMarkerStays(p)
      PROVE  job[p].op \in Op /\ \E v : told' = [told EXCEPT ![job[p].op] = v]
  <2>1. job[p].kind = "debit" => job[p].op \in Op
    BY DEF TypeOK, Job
  <2> QED BY <1>3, <2>1 DEF Replay, Commit, CommitMarkerStays, Report, ghostVars
<1> QED BY <1>1, <1>2, <1>3, TellingSteps

LEMMA TellIsService ==
  ASSUME TypeOK, Protocol, ToldIsDurable, [Next]_vars, told' # told
  PROVE  Service!ServiceNext
<1>1. PICK n \in Op : told'[n] # told[n] /\ told' = [told EXCEPT ![n] = told'[n]]
  BY ToldOnce
<1>2. told'[n] = disk.ops[n] /\ disk = stableDisk /\ UNCHANGED <<disk, stableDisk>>
  BY <1>1, ToldFromFile
<1>3. told'[n] # NoOutcome
  BY <1>1, <1>2 DEF ToldIsDurable
<1>4. /\ RecordOf(stableDisk).ops = stableDisk.ops
      /\ UNCHANGED <<RecordOf(disk), RecordOf(stableDisk)>>
  BY <1>2 DEF RecordOf
<1>5. Service!Tell(n)
  BY <1>1, <1>2, <1>3, <1>4 DEF Service!Tell
<1> QED BY <1>5 DEF Service!ServiceNext

\* Every step of the ledger is a step of the service or leaves it alone.
LEMMA ServiceStep ==
  ASSUME TypeOK, Protocol, Books, ToldIsDurable, [Next]_vars
  PROVE  [Service!ServiceNext]_(Service!serviceVars)
<1>1. CASE told' # told
  BY <1>1, TellIsService
<1>2. CASE told' = told /\ UNCHANGED <<disk, stableDisk>>
  BY <1>2 DEF Service!serviceVars, RecordOf
<1>3. ASSUME told' = told, NEW p \in Proc, SyncIntent(p) \/ SyncReplace(p)
      PROVE  Service!ServiceNext
  <2>1. /\ RecordOf(stableDisk)' = RecordOf(disk)
        /\ UNCHANGED <<RecordOf(disk), told>>
    BY <1>3 DEF SyncIntent, SyncReplace, Sync, RecordOf
  <2> QED BY <2>1 DEF Service!Stabilise, Service!ServiceNext
<1>4. ASSUME told' = told, NEW p \in Proc, Replace(p)
      PROVE  Service!ServiceNext \/ UNCHANGED Service!serviceVars
  <2>1. disk' = job[p].img /\ UNCHANGED stableDisk /\ pc[p] = "synced"
    BY <1>4 DEF Replace
  <2>2. disk = stableDisk /\ Decided(disk', disk)
    BY <2>1 DEF Protocol, ImageFollowsDisk, Books, ImageInv, InSave
  <2> QED BY <1>4, <2>1, <2>2, DecidedIsService
<1>5. ASSUME told' = told, PowerFailure PROVE Service!ServiceNext
  <2>1. \/ disk' = disk /\ stableDisk' = disk
        \/ disk' = stableDisk /\ stableDisk' = stableDisk
    BY <1>5 DEF PowerFailure
  <2>2. \/ UNCHANGED RecordOf(disk) /\ RecordOf(stableDisk)' = RecordOf(disk)
        \/ RecordOf(disk)' = RecordOf(stableDisk) /\ UNCHANGED RecordOf(stableDisk)
    BY <2>1 DEF RecordOf
  <2> QED BY <1>5, <2>2 DEF Service!Stabilise, Service!Revert, Service!ServiceNext
<1> QED BY <1>1, <1>2, <1>3, <1>4, <1>5, FileSteps

\* With all its processes, caches and failures the ledger of kry_token.py is
\* the atomic service its callers were promised.
THEOREM LedgerKeepsPromise == Spec => KeepsPromise
<1>1. Init => Service!ServiceInit
  BY DEF Init, Service!ServiceInit, Service!FirstRecord, Service!Record, RecordOf,
         FirstAccount
<1>2. TypeOK /\ Protocol /\ Books /\ ToldIsDurable /\ [Next]_vars
        => [Service!ServiceNext]_(Service!serviceVars)
  BY ServiceStep
<1> QED
  BY <1>1, <1>2, BooksHold, ToldStaysDurable, PTL DEF Spec, KeepsPromise, Service!ServiceSpec
=============================================================================
