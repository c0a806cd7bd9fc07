----------------------------- MODULE KryLedger -----------------------------
(***************************************************************************)
(* The balance ledger of kry_token.py: several processes that share one    *)
(* ledger file, each with a cached KRYLedger singleton, a cross-process    *)
(* file lock, and a save protocol of temporary file, intent marker,        *)
(* directory barrier, atomic replace, directory barrier, marker removal.   *)
(*                                                                         *)
(* `disk' and `incidents' are what a process sees; `stableDisk' and        *)
(* `stableIncidents' are what a power failure is certain to leave.  A      *)
(* retained intent or quarantine file is an incident; the ledger records   *)
(* the incidents an operator has acknowledged (recovery.incidents).        *)
(***************************************************************************)
EXTENDS Integers, FiniteSets, Functions

CONSTANTS
  Proc,         \* processes that use the ledger
  Op,           \* caller-chosen operation identities of keyed debits
  Tx,           \* uuid4 event identities; bounds the number of writes tried
  Incident,     \* names of intent and quarantine files
  Amount,       \* amounts a caller may ask for
  Opening,      \* balance of the ledger at the start
  NoProc, NoOp, NoTx, NoIncident, NoOutcome

ASSUME AmountAssumption == Amount \subseteq Nat \ {0}
ASSUME OpeningAssumption == Opening \in Nat
ASSUME NoneAssumption ==
  /\ NoProc \notin Proc
  /\ NoOp \notin Op
  /\ NoTx \notin Tx
  /\ NoIncident \notin Incident
  /\ NoOutcome \notin [asked : Amount, paid : Nat]

VARIABLES
  lock,             \* holder of the ledger's file lock
  disk,             \* last good content of the visible ledger file
  damage,           \* "none", "bytes" (unparsable), "moved" (quarantined)
  incidents,        \* visible .pending.* and .corrupt* files
  stableDisk,       \* content that survives a power failure
  stableIncidents,  \* incident files that survive a power failure
  mem,              \* the singleton of each process
  pc,               \* where each process is in an operation
  job,              \* the operation it is performing
  answer,           \* what the caller of each write has been told
  told              \* outcome reported to callers of each keyed debit

filesVars == <<disk, damage, incidents, stableDisk, stableIncidents>>
ghostVars == <<answer, told>>
vars == <<lock, filesVars, mem, pc, job, ghostVars>>

-----------------------------------------------------------------------------
(* Data *)

Outcome == [asked : Amount, paid : Nat] \cup {NoOutcome}

\* What a ledger file holds: the merge fields, the operation journal, the
\* audit events by tx_id (0 = no such event) and the acknowledged incidents.
Account == [bal : Int, earned : Int, spent : Int,
            ops : [Op -> Outcome], tx : [Tx -> Int], ack : SUBSET Incident]

Blank == [bal |-> 0, earned |-> 0, spent |-> 0,
          ops |-> [o \in Op |-> NoOutcome], tx |-> [t \in Tx |-> 0], ack |-> {}]

FirstAccount ==
  [bal |-> Opening, earned |-> Opening, spent |-> 0,
   ops |-> [o \in Op |-> NoOutcome], tx |-> [t \in Tx |-> 0], ack |-> {}]

Kind == {"none", "earn", "spend", "debit", "acknowledge"}

JobRecord == [kind : Kind, amt : Amount \cup {0}, op : Op \cup {NoOp},
              tx : Tx \cup {NoTx}, img : Account, own : Incident \cup {NoIncident}]

Job == {j \in JobRecord : /\ j.kind \in {"earn", "spend", "debit"} => j.amt \in Amount
                          /\ j.kind = "debit" => j.op \in Op}

NoJob == [kind |-> "none", amt |-> 0, op |-> NoOp, tx |-> NoTx,
          img |-> Blank, own |-> NoIncident]

Memory == [up : BOOLEAN, acct : Account, base : Account, blocked : BOOLEAN]

Down == [up |-> FALSE, acct |-> Blank, base |-> Blank, blocked |-> FALSE]

\* A new object that could not read the file.
Unread(blocked) == [up |-> TRUE, acct |-> Blank, base |-> Blank, blocked |-> blocked]

\* _adopt: validated contents become both the cached values and the baseline.
Adopted(a) == [up |-> TRUE, acct |-> a, base |-> a, blocked |-> FALSE]

\* Fault: the balance is no bound of a debit.
Unbounded(x, y) == x

Smaller(x, y) == IF x <= y THEN x ELSE y

-----------------------------------------------------------------------------
(* The account a write produces *)

Credited(a, n, t) ==
  [bal |-> a.bal + n, earned |-> a.earned + n, spent |-> a.spent,
   ops |-> a.ops, tx |-> [a.tx EXCEPT ![t] = n], ack |-> a.ack]

Debited(a, n, t) ==
  [bal |-> a.bal - n, earned |-> a.earned, spent |-> a.spent + n,
   ops |-> a.ops, tx |-> [a.tx EXCEPT ![t] = -n], ack |-> a.ack]

Journalled(a, o, asked, paid) ==
  [a EXCEPT !.ops[o] = [asked |-> asked, paid |-> paid]]

\* Fault: the cached total is added instead of its change.
TotalAdded(d, m, b) == d + m

\* The change of one merge field since the baseline, over the disk's value.
MergedField(d, m, b) == d + (m - b)

\* _save_locked merges the changes of the cached scalars, and the cached
\* operations and events, over what is on disk.  The balance is clamped at 0
\* and the recovery record is the disk's.
Merge(d, m, b) ==
  LET bal == MergedField(d.bal, m.bal, b.bal)
      earned == MergedField(d.earned, m.earned, b.earned)
      spent == MergedField(d.spent, m.spent, b.spent)
  IN  [bal |-> IF bal < 0 THEN 0 ELSE bal,
       earned |-> earned,
       spent |-> IF bal < 0 THEN earned ELSE spent,
       ops |-> [o \in Op |-> IF m.ops[o] # NoOutcome THEN m.ops[o] ELSE d.ops[o]],
       tx |-> [t \in Tx |-> IF m.tx[t] # 0 THEN m.tx[t] ELSE d.tx[t]],
       ack |-> d.ack]

-----------------------------------------------------------------------------
(* State predicates *)

Working == {"tmp", "intent", "synced", "replaced", "committed"}
Stage == {"idle", "locked"} \cup Working

\* Fault: pending-write and quarantine files are not looked for.
ReadableDespiteIncidents(p) == ~mem[p].blocked /\ damage = "none"

\* _read_locked succeeds: the process is not blocked, the file parses and
\* exactly the acknowledged incidents are on disk.
Readable(p) ==
  /\ ~mem[p].blocked
  /\ damage = "none"
  /\ incidents = disk.ack

FreshIncidents ==
  Incident \ (incidents \cup stableIncidents \cup disk.ack \cup stableDisk.ack)

FreshTx == {t \in Tx : answer[t] = "unused"}

HasDelta(p) == mem[p].acct # mem[p].base

-----------------------------------------------------------------------------
Init ==
  /\ lock = NoProc
  /\ disk = FirstAccount
  /\ stableDisk = FirstAccount
  /\ damage = "none"
  /\ incidents = {}
  /\ stableIncidents = {}
  /\ mem = [p \in Proc |-> Down]
  /\ pc = [p \in Proc |-> "idle"]
  /\ job = [p \in Proc |-> NoJob]
  /\ answer = [t \in Tx |-> "unused"]
  /\ told = [o \in Op |-> NoOutcome]

Release(p) ==
  /\ lock' = NoProc
  /\ pc' = [pc EXCEPT ![p] = "idle"]
  /\ job' = [job EXCEPT ![p] = NoJob]

Goto(p, stage) ==
  /\ pc' = [pc EXCEPT ![p] = stage]
  /\ UNCHANGED lock

\* The answer to a write, where it has an event of its own.
Answer(p, a) ==
  answer' = IF job[p].tx = NoTx THEN answer ELSE [answer EXCEPT ![job[p].tx] = a]

\* _quarantine: unparsable bytes are moved aside under a unique name; the
\* rename may fail, and then the bytes stay where they are.
QuarantineIfDamaged(p) ==
  \/ /\ ~mem[p].blocked
     /\ damage = "bytes"
     /\ \E i \in FreshIncidents :
          /\ incidents' = incidents \cup {i}
          /\ stableIncidents' = stableIncidents \cup {i}
     /\ damage' = "moved"
     /\ UNCHANGED <<disk, stableDisk>>
  \/ UNCHANGED filesVars

Block(p) == mem' = [mem EXCEPT ![p].blocked = TRUE]

-----------------------------------------------------------------------------
(* Opening the ledger and reading it *)

\* get_ledger / load_or_create.  A read error leaves an empty, unblocked
\* object that a later operation refreshes.
Load(p) ==
  /\ lock = NoProc
  /\ ~mem[p].up
  /\ \/ /\ Readable(p)
        /\ mem' = [mem EXCEPT ![p] = Adopted(disk)]
        /\ UNCHANGED filesVars
     \/ /\ ~Readable(p)
        /\ mem' = [mem EXCEPT ![p] = Unread(TRUE)]
        /\ QuarantineIfDamaged(p)
     \/ /\ mem' = [mem EXCEPT ![p] = Unread(FALSE)]
        /\ UNCHANGED filesVars
  /\ UNCHANGED <<lock, pc, job, ghostVars>>

\* ledger_operation: reads the durable snapshot under the lock; an absent
\* operation tells the caller nothing.
Lookup(p, o) ==
  /\ lock = NoProc
  /\ mem[p].up
  /\ pc[p] = "idle"
  /\ \/ /\ Readable(p)
        /\ disk.ops[o] # NoOutcome
        /\ told' = [told EXCEPT ![o] = disk.ops[o]]
        /\ UNCHANGED <<filesVars, mem>>
     \/ /\ ~Readable(p)
        /\ Block(p)
        /\ QuarantineIfDamaged(p)
        /\ UNCHANGED told
  /\ UNCHANGED <<lock, pc, job, answer>>

-----------------------------------------------------------------------------
(* One operation: from taking the lock to the temporary file *)

Request(kind, amt, op) ==
  [kind |-> kind, amt |-> amt, op |-> op, tx |-> NoTx, img |-> Blank, own |-> NoIncident]

Requests ==
  {Request(k, a, NoOp) : k \in {"earn", "spend"}, a \in Amount}
    \cup {Request("debit", a, o) : a \in Amount, o \in Op}
    \cup {Request("acknowledge", 0, NoOp)}

Call(p) ==
  /\ lock = NoProc
  /\ mem[p].up
  /\ pc[p] = "idle"
  /\ lock' = p
  /\ pc' = [pc EXCEPT ![p] = "locked"]
  /\ \E r \in Requests : job' = [job EXCEPT ![p] = r]
  /\ UNCHANGED <<filesVars, mem, ghostVars>>

Accounting(p) == pc[p] = "locked" /\ job[p].kind # "acknowledge"

\* The history is unavailable: nothing is recorded, and the process stays
\* blocked until it is restarted or acknowledges a recovery.
Refuse(p) ==
  /\ Accounting(p)
  /\ ~Readable(p)
  /\ Block(p)
  /\ QuarantineIfDamaged(p)
  /\ Release(p)
  /\ UNCHANGED ghostVars

\* A read error, an event that cannot be built or a temporary file that
\* cannot be made: the operation ends with nothing written.
EndUnwritten(p) ==
  /\ pc[p] = "locked"
  /\ Release(p)
  /\ UNCHANGED <<filesVars, mem, ghostVars>>

\* An interrupt while the cache is refreshed leaves the process blocked.
InterruptRefresh(p) ==
  /\ Accounting(p)
  /\ Readable(p)
  /\ Block(p)
  /\ Release(p)
  /\ UNCHANGED <<filesVars, ghostVars>>

\* Fault: the cached journal is asked instead of the file just read.
RecordedInCache(p) == mem[p].acct.ops[job[p].op] # NoOutcome

Recorded(p) == disk.ops[job[p].op] # NoOutcome

\* A keyed debit already recorded: the recorded outcome is returned for the
\* same parameters, and refused for others.
Replay(p) ==
  /\ Accounting(p)
  /\ job[p].kind = "debit"
  /\ Readable(p)
  /\ Recorded(p)
  /\ told' = IF disk.ops[job[p].op].asked = job[p].amt
             THEN [told EXCEPT ![job[p].op] = disk.ops[job[p].op]]
             ELSE told
  /\ Release(p)
  /\ UNCHANGED <<filesVars, mem, answer>>

\* The refreshed account `a' of a public operation is mutated into `m' in
\* memory and encoded, merged, into a temporary file.
Write(p, a, m, t) ==
  /\ mem' = [mem EXCEPT ![p] = [up |-> TRUE, acct |-> m, base |-> a, blocked |-> FALSE]]
  /\ job' = [job EXCEPT ![p].img = Merge(a, m, a), ![p].tx = t]
  /\ answer' = IF t = NoTx THEN answer ELSE [answer EXCEPT ![t] = "pending"]
  /\ Goto(p, "tmp")
  /\ UNCHANGED <<filesVars, told>>

\* What is read, with no local delta to flush, is what the operation starts from.
Refreshed(p) == Accounting(p) /\ Readable(p) /\ ~HasDelta(p)

Earn(p) ==
  /\ Refreshed(p)
  /\ job[p].kind = "earn"
  /\ \E t \in FreshTx : Write(p, disk, Credited(disk, job[p].amt, t), t)

\* The debit is bounded by the fresh balance; an empty balance writes nothing.
Spend(p) ==
  /\ Refreshed(p)
  /\ job[p].kind = "spend"
  /\ LET paid == Smaller(job[p].amt, disk.bal)
     IN  IF paid = 0
         THEN /\ mem' = [mem EXCEPT ![p] = Adopted(disk)]
              /\ Release(p)
              /\ UNCHANGED <<filesVars, ghostVars>>
         ELSE \E t \in FreshTx : Write(p, disk, Debited(disk, paid, t), t)

\* _keyed_debit of a new operation: the outcome is journalled with the
\* balance change, a zero outcome too.
KeyedDebit(p) ==
  /\ Refreshed(p)
  /\ job[p].kind = "debit"
  /\ ~Recorded(p)
  /\ LET o == job[p].op
         asked == job[p].amt
         paid == Smaller(asked, disk.bal)
     IN  IF paid = 0
         THEN Write(p, disk, Journalled(disk, o, asked, 0), NoTx)
         ELSE \E t \in FreshTx :
                Write(p, disk, Journalled(Debited(disk, paid, t), o, asked, paid), t)

\* Fault: the restored file is rewritten without its operation journal.
AcknowledgeFlattened(p) ==
  /\ pc[p] = "locked"
  /\ job[p].kind = "acknowledge"
  /\ damage = "none"
  /\ job' = [job EXCEPT ![p].img = [disk EXCEPT !.ack = incidents, !.ops = Blank.ops]]
  /\ Goto(p, "tmp")
  /\ UNCHANGED <<filesVars, mem, ghostVars>>

\* acknowledge_ledger_recovery: the operator's reviewed file is rewritten
\* with the incidents found beside it.  It works on an object of its own,
\* which becomes the singleton only at the end.
Acknowledge(p) ==
  /\ pc[p] = "locked"
  /\ job[p].kind = "acknowledge"
  /\ damage = "none"
  /\ job' = [job EXCEPT ![p].img = [disk EXCEPT !.ack = incidents]]
  /\ Goto(p, "tmp")
  /\ UNCHANGED <<filesVars, mem, ghostVars>>

-----------------------------------------------------------------------------
(* The save protocol, still under the lock *)

Sync == stableDisk' = disk /\ stableIncidents' = incidents

PublishIntent(p) ==
  /\ pc[p] = "tmp"
  /\ \E i \in FreshIncidents :
       /\ incidents' = incidents \cup {i}
       /\ job' = [job EXCEPT ![p].own = i]
  /\ Goto(p, "intent")
  /\ UNCHANGED <<disk, damage, stableDisk, stableIncidents, mem, ghostVars>>

SyncIntent(p) ==
  /\ pc[p] = "intent"
  /\ Sync
  /\ Goto(p, "synced")
  /\ UNCHANGED <<disk, damage, incidents, mem, job, ghostVars>>

\* os.replace takes effect, whether or not its acknowledgement is lost: the
\* read-back of the same bytes goes on to the same barrier.
Replace(p) ==
  /\ pc[p] = "synced"
  /\ disk' = job[p].img
  /\ Goto(p, "replaced")
  /\ UNCHANGED <<damage, incidents, stableDisk, stableIncidents, mem, job, ghostVars>>

\* Fault: no barrier between the replace and the adoption.
ReplaceUnsynced(p) ==
  /\ pc[p] = "replaced"
  /\ mem' = [mem EXCEPT ![p] = Adopted(job[p].img)]
  /\ Goto(p, "committed")
  /\ UNCHANGED <<filesVars, job, ghostVars>>

SyncReplace(p) ==
  /\ pc[p] = "replaced"
  /\ Sync
  /\ mem' = IF job[p].kind = "acknowledge" THEN mem
            ELSE [mem EXCEPT ![p] = Adopted(job[p].img)]
  /\ Goto(p, "committed")
  /\ UNCHANGED <<disk, damage, incidents, job, ghostVars>>

\* The caller learns of the committed write.
Report(p) ==
  /\ Answer(p, "yes")
  /\ told' = IF job[p].kind = "debit"
             THEN [told EXCEPT ![job[p].op] = job[p].img.ops[job[p].op]]
             ELSE told

Commit(p) ==
  /\ pc[p] = "committed"
  /\ incidents' = incidents \ {job[p].own}
  /\ mem' = IF job[p].kind = "acknowledge"
            THEN [mem EXCEPT ![p] = Adopted(job[p].img)] ELSE mem
  /\ Report(p)
  /\ Release(p)
  /\ UNCHANGED <<disk, damage, stableDisk, stableIncidents>>

\* The marker of a committed write cannot be removed: the write is reported,
\* this process is blocked and the marker blocks the others.  An
\* acknowledgement raises, and its object never becomes the singleton.
CommitMarkerStays(p) ==
  /\ pc[p] = "committed"
  /\ IF job[p].kind = "acknowledge" THEN UNCHANGED <<mem, ghostVars>>
     ELSE Block(p) /\ Report(p)
  /\ Release(p)
  /\ UNCHANGED filesVars

\* An interrupt after the commit, or a failed re-read of an acknowledged
\* file, tells the caller nothing; the marker stays unless it was just removed.
InterruptCommitted(p) ==
  /\ pc[p] = "committed"
  /\ incidents' \in {incidents, incidents \ {job[p].own}}
  /\ Release(p)
  /\ UNCHANGED <<disk, damage, stableDisk, stableIncidents, mem, ghostVars>>

-----------------------------------------------------------------------------
(* Failures of the save *)

\* The operation guard adopts the snapshot it took before the mutation.
RolledBack(p, blocked) ==
  IF job[p].kind = "acknowledge" THEN mem
  ELSE [mem EXCEPT ![p] = [up |-> TRUE, acct |-> mem[p].base,
                                   base |-> mem[p].base, blocked |-> blocked]]

\* The temporary file is still there: the replace has not happened.  It and
\* the marker are removed.  An error tells the caller so, an interrupt not.
FailBefore(p, stages) ==
  /\ pc[p] \in stages
  /\ incidents' = incidents \ {job[p].own}
  /\ mem' = RolledBack(p, FALSE)
  /\ Answer(p, "no") \/ UNCHANGED answer
  /\ Release(p)
  /\ UNCHANGED <<disk, damage, stableDisk, stableIncidents, told>>

\* Fault: a replace whose acknowledgement was lost counts as a failure.
FailKnownOrLost(p) == FailBefore(p, {"tmp", "intent", "synced", "replaced"})

FailKnown(p) == FailBefore(p, {"tmp", "intent", "synced"})

\* The same, and the clean-up fails too: the outcome is reported as uncertain.
FailCleanup(p) ==
  /\ pc[p] \in {"tmp", "intent", "synced"}
  /\ mem' = RolledBack(p, TRUE)
  /\ Release(p)
  /\ UNCHANGED <<filesVars, ghostVars>>

\* Fault: the marker is removed on every failure.
FailUnmarked(p) ==
  /\ pc[p] = "replaced"
  /\ incidents' = incidents \ {job[p].own}
  /\ mem' = RolledBack(p, TRUE)
  /\ Release(p)
  /\ UNCHANGED <<disk, damage, stableDisk, stableIncidents, ghostVars>>

\* The replace took effect but the bytes could not be proved durable (the
\* barrier failed, the read-back failed, or an interrupt came between).
FailUncertain(p) ==
  /\ pc[p] = "replaced"
  /\ mem' = RolledBack(p, TRUE)
  /\ Release(p)
  /\ UNCHANGED <<filesVars, ghostVars>>

-----------------------------------------------------------------------------
(* The environment *)

\* A process is killed: the kernel releases its lock, the files stay.
Kill(p) ==
  /\ mem[p].up
  /\ mem' = [mem EXCEPT ![p] = Down]
  /\ pc' = [pc EXCEPT ![p] = "idle"]
  /\ job' = [job EXCEPT ![p] = NoJob]
  /\ lock' = IF lock = p THEN NoProc ELSE lock
  /\ UNCHANGED <<filesVars, ghostVars>>

\* Power failure: directory changes after the last barrier may or may not
\* be on the disk, each on its own.
PowerFailure ==
  /\ lock' = NoProc
  /\ mem' = [p \in Proc |-> Down]
  /\ pc' = [p \in Proc |-> "idle"]
  /\ job' = [p \in Proc |-> NoJob]
  /\ \E d \in {disk, stableDisk} : disk' = d /\ stableDisk' = d
  /\ \E S \in SUBSET (incidents \cup stableIncidents) :
       /\ incidents \cap stableIncidents \subseteq S
       /\ incidents' = S
       /\ stableIncidents' = S
  /\ UNCHANGED <<damage, ghostVars>>

\* The bytes of the ledger file rot while nobody holds the lock.
Damage ==
  /\ lock = NoProc
  /\ damage = "none"
  /\ damage' = "bytes"
  /\ UNCHANGED <<lock, disk, incidents, stableDisk, stableIncidents,
                 mem, pc, job, ghostVars>>

\* The operator puts the independently established accounting back.
Restore ==
  /\ lock = NoProc
  /\ damage = "moved"
  /\ damage' = "none"
  /\ UNCHANGED <<lock, disk, incidents, stableDisk, stableIncidents,
                 mem, pc, job, ghostVars>>

-----------------------------------------------------------------------------
Operate(p) ==
  \/ Refuse(p) \/ EndUnwritten(p) \/ InterruptRefresh(p) \/ Replay(p)
  \/ Earn(p) \/ Spend(p) \/ KeyedDebit(p) \/ Acknowledge(p)

Save(p) ==
  \/ PublishIntent(p) \/ SyncIntent(p) \/ Replace(p) \/ SyncReplace(p)
  \/ Commit(p) \/ CommitMarkerStays(p) \/ InterruptCommitted(p)

Fail(p) == FailKnown(p) \/ FailCleanup(p) \/ FailUncertain(p)

Next ==
  \/ \E p \in Proc :
       \/ Load(p) \/ Call(p) \/ Operate(p) \/ Save(p) \/ Fail(p) \/ Kill(p)
       \/ \E o \in Op : Lookup(p, o)
  \/ PowerFailure \/ Damage \/ Restore

Spec == Init /\ [][Next]_vars

-----------------------------------------------------------------------------
(* Properties *)

\* Every variable stays in its type.
TypeOK ==
  /\ lock \in Proc \cup {NoProc}
  /\ disk \in Account /\ stableDisk \in Account
  /\ damage \in {"none", "bytes", "moved"}
  /\ incidents \subseteq Incident /\ stableIncidents \subseteq Incident
  /\ mem \in [Proc -> Memory]
  /\ pc \in [Proc -> Stage]
  /\ job \in [Proc -> Job]
  /\ answer \in [Tx -> {"unused", "pending", "yes", "no"}]
  /\ told \in [Op -> Outcome]

\* The double entry of the ledger: the balance is what was earned less what
\* was spent and is never negative, in the file, in what a power failure
\* leaves and in every cache, through every merge, failure and rollback.
Balanced(a) == a.bal = a.earned - a.spent /\ a.bal >= 0

DoubleEntry ==
  /\ Balanced(disk) /\ Balanced(stableDisk)
  /\ \A p \in Proc : /\ Balanced(mem[p].acct) /\ Balanced(mem[p].base)
                     /\ Balanced(job[p].img)

\* The totals are exactly the opening balance and the retained audit events,
\* and the balance is their difference: concurrent writers lose no event and
\* count none twice.
Credits(a) == {t \in Tx : a.tx[t] > 0}
Debits(a) == {t \in Tx : a.tx[t] < 0}

AccountsMatchEvents ==
  DoubleEntry /\ \A a \in {disk, stableDisk} :
    /\ a.earned = Opening + SumFunctionOnSet(a.tx, Credits(a))
    /\ a.spent = -SumFunctionOnSet(a.tx, Debits(a))

\* An outcome a keyed debit or a lookup has returned is in the file and
\* survives a power failure: a retry with the same identity finds it.
ToldIsDurable ==
  \A o \in Op : told[o] # NoOutcome =>
    disk.ops[o] = told[o] /\ stableDisk.ops[o] = told[o]

\* The answer to an unkeyed write is true: after a positive one the event is
\* in the file and survives a power failure; after a negative one it is
\* nowhere, neither in the file, nor in what a power failure brings back, nor
\* in a cache that a later save would merge.
AnswersHold ==
  \A t \in Tx :
    /\ answer[t] = "yes" => disk.tx[t] # 0 /\ stableDisk.tx[t] # 0
    /\ answer[t] = "no" =>
         /\ disk.tx[t] = 0 /\ stableDisk.tx[t] = 0
         /\ \A p \in Proc : mem[p].acct.tx[t] = 0 /\ job[p].img.tx[t] = 0

\* While the file is not known to be durable, some incident that nobody
\* acknowledged tells every later reader.
UncertainIsMarked ==
  (disk # stableDisk /\ \A p \in Proc : pc[p] # "replaced")
     => incidents # disk.ack

\* A write other than an acknowledgement only ever goes over a file whose
\* incidents are all acknowledged: its own marker is the only new one.
NoWriteOverIncident ==
  \A p \in Proc : pc[p] \in {"synced", "replaced"} /\ job[p].kind # "acknowledge"
     => incidents = disk.ack \cup {job[p].own}

\* Doubt is never passed over: it is marked for every later reader, and no
\* write but an operator's acknowledgement goes over a mark.
IncidentsRespected == UncertainIsMarked /\ NoWriteOverIncident

\* A durably recorded outcome of a keyed debit never changes and is never lost.
OutcomeIsForever ==
  [][\A o \in Op : stableDisk.ops[o] # NoOutcome =>
       stableDisk'.ops[o] = stableDisk.ops[o]]_vars

-----------------------------------------------------------------------------
(* Refinement *)

RecordOf(a) == [bal |-> a.bal, earned |-> a.earned, spent |-> a.spent, ops |-> a.ops]

Service == INSTANCE LedgerService
             WITH cur <- RecordOf(disk), stable <- RecordOf(stableDisk)

\* With all its processes, caches, failures and incidents the ledger is the
\* atomic, exactly-once service its callers were promised.
KeepsPromise == Service!ServiceSpec

-----------------------------------------------------------------------------
(* The inductive invariant behind the safety properties *)

InSave(p) == pc[p] \in {"tmp", "intent", "synced"}

\* Only the holder of the file lock is inside an operation.
HolderOnly == \A p \in Proc : pc[p] # "idle" => lock = p

\* `a' keeps every outcome that `d' records.
KeepsOutcomes(a, d) == \A o \in Op : d.ops[o] # NoOutcome => a.ops[o] = d.ops[o]

\* The image a process is about to publish was derived from the file as it is.
ImageFollowsDisk ==
  \A p \in Proc :
    /\ InSave(p) => KeepsOutcomes(job[p].img, disk)
    /\ pc[p] = "synced" => stableDisk = disk
    /\ pc[p] \in {"replaced", "committed"} => disk = job[p].img
    /\ pc[p] = "committed" => stableDisk = disk

\* From its publication on, the marker of a write is on disk under a name
\* that no acknowledgement has covered.
OwnMarker ==
  \A p \in Proc :
    /\ pc[p] \in {"idle", "locked", "tmp"} => job[p].own = NoIncident
    /\ pc[p] \in {"intent", "synced", "replaced", "committed"} =>
         job[p].own \in incidents \ (disk.ack \cup job[p].img.ack)

\* A write covers every incident but its own marker, and only an
\* acknowledgement covers incidents that the file did not.
StartsClean ==
  \A p \in Proc :
    /\ pc[p] \in Working => incidents = job[p].img.ack \cup ({job[p].own} \ {NoIncident})
    /\ InSave(p) /\ job[p].kind # "acknowledge" => job[p].img.ack = disk.ack

\* A file that is not known to be durable has an incident, older than any
\* marker published since, that is not acknowledged.
Marked ==
  disk # stableDisk =>
    \E i \in incidents \ disk.ack :
      \A p \in Proc : pc[p] = "intent" => i # job[p].own

StableBelow == KeepsOutcomes(disk, stableDisk)

Protocol ==
  HolderOnly /\ ImageFollowsDisk /\ OwnMarker /\ StartsClean /\ Marked /\ StableBelow
=============================================================================
