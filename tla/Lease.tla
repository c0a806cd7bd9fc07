------------------------------- MODULE Lease --------------------------------
(***************************************************************************)
(* The supply lease of kry_settlement.py: hosts that accept offers against *)
(* one attested balance reserve the amounts in a file they share, under a  *)
(* lock file that is created exclusively.  A lock older than Stale may be  *)
(* the lock of a crashed holder and is stolen by the processes configured  *)
(* to (KRY_SETTLE_LEASE_STEAL_STALE).                                      *)
(*                                                                         *)
(* One unit of time is thirty seconds.  One paying party is modelled: the  *)
(* file keeps a list per party and is replaced as a whole.                 *)
(***************************************************************************)
EXTENDS Integers, FiniteSets, FiniteSetsExt

CONSTANTS
  Process,     \* the accepting processes, on any host
  Stealing,    \* those that steal stale locks
  Offer,
  Amount,      \* what an offer reserves
  Ceiling,     \* the attested balance of the party
  Ttl,         \* how long a lease holds
  Stale,       \* the age past which a lock is presumed orphaned
  Deadline,    \* how long a process waits for the lock
  Prompt,      \* TRUE: no step between taking a lock and leaving it is slow
  MaxTime, MaxCrashes,   \* bounds
  NoProcess, NoOffer

ASSUME TimesAssumption ==
  /\ Ttl \in Nat \ {0} /\ Stale \in Nat \ {0} /\ Deadline \in Nat
  /\ Stale <= Deadline /\ Prompt \in BOOLEAN
ASSUME AmountsAssumption == Ceiling \in Nat /\ Amount \in [Offer -> Nat \ {0}]
ASSUME NamesAssumption ==
  Stealing \subseteq Process /\ NoProcess \notin Process /\ NoOffer \notin Offer

LeaseRecord == [nonce : Offer, ts : Nat]

VARIABLES
  now,       \* the time
  lock,      \* the lock file: who made it (NoProcess: one that crashed), when
  leases,    \* the file of leases
  pc,
  job,       \* the offer of a process, the time it was accepted at, what was
             \* read of the file, and the lease that answers it
  granted,   \* history: the leases accepts were granted on
  crashes    \* history: how many processes crashed

vars == <<now, lock, leases, pc, job, granted, crashes>>

Stages == {"idle", "lock", "steal", "read", "write", "unlock"}
Lock == [owner : Process \cup {NoProcess}, at : Nat]
NoLock == [owner |-> NoProcess, at |-> -1]
Job == [offer : Offer \cup {NoOffer}, at : Nat, read : SUBSET LeaseRecord, answer : SUBSET LeaseRecord]
Task(o, at, read, answer) == [offer |-> o, at |-> at, read |-> read, answer |-> answer]
NoJob == Task(NoOffer, 0, {}, {})

Init ==
  /\ now = 0 /\ lock = NoLock /\ leases = {}
  /\ pc = [p \in Process |-> "idle"] /\ job = [p \in Process |-> NoJob]
  /\ granted = {} /\ crashes = 0

Goto(p, stage) == pc' = [pc EXCEPT ![p] = stage]
Locked == lock # NoLock
Reserved(rows) == SumFunctionOnSet([l \in rows |-> Amount[l.nonce]], rows)
Live(rows, t) == {l \in rows : t - l.ts < Ttl}

-----------------------------------------------------------------------------
\* verify_and_accept takes the time before it waits for the lock.
Accept(p, o) ==
  /\ pc[p] = "idle" /\ now + Deadline < MaxTime
  /\ Goto(p, "lock")
  /\ job' = [job EXCEPT ![p] = Task(o, now, {}, {})]
  /\ UNCHANGED <<now, lock, leases, granted, crashes>>

Create(p) ==
  /\ pc[p] = "lock" /\ ~Locked
  /\ lock' = [owner |-> p, at |-> now]
  /\ Goto(p, "read")
  /\ UNCHANGED <<now, leases, job, granted, crashes>>

LooksStale(p) == p \in Stealing /\ now - lock.at >= Stale

\* The lock is there and old: its age was read, it is not removed yet.
SeeStale(p) ==
  /\ pc[p] = "lock" /\ Locked
  /\ LooksStale(p)
  /\ Goto(p, "steal")
  /\ UNCHANGED <<now, lock, leases, job, granted, crashes>>

\* Whatever lock is there now.
Steal(p) ==
  /\ pc[p] = "steal"
  /\ lock' = NoLock
  /\ Goto(p, "lock")
  /\ UNCHANGED <<now, leases, job, granted, crashes>>

Leave(p) == Goto(p, "idle") /\ job' = [job EXCEPT ![p] = NoJob]

\* Fault: the deadline is left to the processes that do not steal.
GiveUpUnlessStealing(p) ==
  /\ pc[p] = "lock" /\ Locked
  /\ p \notin Stealing /\ now - job[p].at >= Deadline
  /\ Leave(p)
  /\ UNCHANGED <<now, lock, leases, granted, crashes>>

GiveUp(p) ==
  /\ pc[p] = "lock" /\ Locked
  /\ ~LooksStale(p) /\ now - job[p].at >= Deadline
  /\ Leave(p)
  /\ UNCHANGED <<now, lock, leases, granted, crashes>>

-----------------------------------------------------------------------------
(* Under the lock *)

\* Fault: the lock is left before the file is written.
ReadThenUnlock(p) ==
  /\ pc[p] = "read"
  /\ job' = [job EXCEPT ![p] = Task(@.offer, @.at, Live(leases, @.at), {})]
  /\ lock' = NoLock
  /\ Goto(p, "write")
  /\ UNCHANGED <<now, leases, granted, crashes>>

Read(p) ==
  /\ pc[p] = "read"
  /\ job' = [job EXCEPT ![p] = Task(@.offer, @.at, Live(leases, @.at), {})]
  /\ Goto(p, "write")
  /\ UNCHANGED <<now, lock, leases, granted, crashes>>

Held(p) == {l \in job[p].read : l.nonce = job[p].offer}

Asked(p) == [nonce |-> job[p].offer, ts |-> job[p].at]

\* Fault: the offer itself is not added to what is active.
FitsWithoutAmount(p) == Reserved(job[p].read) <= Ceiling

Fits(p) == Reserved(job[p].read) + Amount[job[p].offer] <= Ceiling

\* The lease the offer holds already, or a new one if it fits.
Leased(p) ==
  IF Held(p) # {} THEN {l \in Held(p) : Reserved(job[p].read) <= Ceiling}
  ELSE IF Fits(p) THEN {Asked(p)} ELSE {}

\* What is expired is dropped from the file even by a denial.
Write(p) ==
  /\ pc[p] = "write"
  /\ leases' = job[p].read \cup Leased(p)
  /\ job' = [job EXCEPT ![p] = Task(@.offer, @.at, {}, Leased(p))]
  /\ Goto(p, "unlock")
  /\ UNCHANGED <<now, lock, granted, crashes>>

\* The file cannot be read or written.
Fail(p) ==
  /\ pc[p] \in {"read", "write"}
  /\ job' = [job EXCEPT ![p] = Task(@.offer, @.at, {}, {})]
  /\ Goto(p, "unlock")
  /\ UNCHANGED <<now, lock, leases, granted, crashes>>

\* Whoever's lock is there now.  With a lease the accept returns a grant.
Unlock(p) ==
  /\ pc[p] = "unlock"
  /\ lock' = NoLock
  /\ granted' = granted \cup job[p].answer
  /\ Leave(p)
  /\ UNCHANGED <<now, leases, crashes>>

-----------------------------------------------------------------------------
Crash(p) ==
  /\ pc[p] # "idle" /\ crashes < MaxCrashes
  /\ crashes' = crashes + 1
  /\ lock' = IF lock.owner = p THEN [lock EXCEPT !.owner = NoProcess] ELSE lock
  /\ Leave(p)
  /\ UNCHANGED <<now, leases, granted>>

Tick ==
  /\ now < MaxTime
  /\ Prompt => \A p \in Process : pc[p] \in {"idle", "lock"}
  /\ now' = now + 1
  /\ UNCHANGED <<lock, leases, pc, job, granted, crashes>>

Step(p) ==
  \/ Create(p) \/ SeeStale(p) \/ Steal(p) \/ GiveUp(p)
  \/ Read(p) \/ Write(p) \/ Fail(p) \/ Unlock(p)

Next ==
  \/ \E p \in Process : Step(p) \/ Crash(p) \/ \E o \in Offer : Accept(p, o)
  \/ Tick

Spec == Init /\ [][Next]_vars

\* A process that waits or works goes on, and time passes, however often it
\* stands still for a step under the lock.
Fairness == SF_vars(Tick) /\ \A p \in Process : WF_vars(Step(p))

FairSpec == Spec /\ Fairness

-----------------------------------------------------------------------------
(* Properties *)

\* Every variable keeps to the values the code can store in it.
TypeOK ==
  /\ now \in Nat
  /\ lock \in Lock \cup {NoLock}
  /\ leases \subseteq LeaseRecord /\ granted \subseteq LeaseRecord
  /\ pc \in [Process -> Stages] /\ job \in [Process -> Job]
  /\ crashes \in Nat

\* _acquire_lease: at no time do the unexpired leases that accepts were
\* granted on exceed the party's ceiling, although an accept prunes and
\* stamps leases by the time at which it began to wait.
ActiveWithinCeiling == Reserved(Live(granted, now)) <= Ceiling

\* No lease an accept was granted on is lost while it has not expired: neither
\* another holder's write nor a pruning by an older time drops it.
LeaseKept == Live(granted, now) \subseteq leases

-----------------------------------------------------------------------------
(* Why LeaseKept holds, if at most one process steals and no holder is slow *)

LimitedStealing == Stealing = {} \/ (Prompt /\ \A p, q \in Stealing : p = q)

Holding(p) == pc[p] \in {"read", "write", "unlock"}

\* The lock names its live holder, or nobody once it crashed; a lock about to
\* be stolen is an orphan's.
Exclusive ==
  \A p \in Process :
    /\ Holding(p) <=> lock.owner = p
    /\ Holding(p) /\ Prompt => lock.at = now
    /\ pc[p] = "steal" => p \in Stealing /\ Locked /\ lock.owner = NoProcess

\* A holder knows every unexpired lease until it writes, and then its answer
\* is in the file.
UpToDate ==
  \A p \in Process :
    /\ pc[p] # "idle" => job[p].offer \in Offer
    /\ job[p].at <= now
    /\ pc[p] = "write" => Live(leases, now) \subseteq job[p].read
    /\ pc[p] = "unlock" => Live(job[p].answer, now) \subseteq leases

LeaseInvariant == TypeOK /\ Exclusive /\ UpToDate /\ LeaseKept

\* What is reserved fits: every lease in the file, expired or not, was added
\* to all that was kept.
ReservedFits ==
  /\ IsFiniteSet(leases) /\ Reserved(leases) <= Ceiling
  /\ \A p \in Process :
       IsFiniteSet(job[p].read) /\ (pc[p] = "write" => Reserved(job[p].read) <= Ceiling)

-----------------------------------------------------------------------------
\* Audit G: an orphaned lock does not deadlock the accepts; each ends, with
\* or without a lease, whoever crashes and whoever comes first.
Answered == \A p \in Process : pc[p] # "idle" ~> pc[p] = "idle"
=============================================================================
