------------------------------- MODULE Pending -------------------------------
(***************************************************************************)
(* Pending displacements (kry_pending.py) over the mint: a displacement is *)
(* recorded without minting, and minted when a consumer confirms that its  *)
(* output was used.  The side store is a file replaced atomically under a  *)
(* lock of its own, which a confirmation keeps while it mints.             *)
(***************************************************************************)
EXTENDS Mint

CONSTANTS
  Id,         \* pending ids, each recorded at most once
  Deferred,   \* the call an id mints when it is confirmed
  NoId

ASSUME DeferredAssumption ==
  /\ Deferred \in [Id -> CallRecord] /\ NoId \notin Id
  /\ \A a, b \in Id : Deferred[a].detail = Deferred[b].detail => a = b
  /\ \A id \in Id, c \in Call : Deferred[id].detail # c.detail

VARIABLES
  store,     \* the status of an id in the file; "lost" once it was quarantined
  damaged,   \* the file cannot be parsed
  overdue,   \* the ids past their TTL
  guard,     \* who has the lock of the store
  confirming \* the id a process confirms

pendingVars == <<store, damaged, overdue, guard, confirming>>
allVars == <<vars, pendingVars>>

InitPending ==
  /\ Init
  /\ store = [id \in Id |-> "none"] /\ damaged = FALSE /\ overdue = {}
  /\ guard = NoProcess /\ confirming = [p \in Process |-> NoId]

Marked(ids, status) == store' = [id \in Id |-> IF id \in ids THEN status ELSE store[id]]

\* The next reader sets a damaged file aside and raises.
Quarantine ==
  /\ damaged /\ guard = NoProcess
  /\ damaged' = FALSE
  /\ Marked({id \in Id : store[id] # "none"}, "lost")
  /\ UNCHANGED <<vars, overdue, guard, confirming>>

CanCall(p) == pc[p] = "idle" /\ guard = NoProcess /\ ~damaged

RecordPending(id) ==
  /\ guard = NoProcess /\ ~damaged
  /\ store[id] = "none"
  /\ Marked({id}, "pending")
  /\ UNCHANGED <<vars, damaged, overdue, guard, confirming>>

\* Fault: the status is flipped with the receipt, after the mint.
FlipAfter(p, id) ==
  /\ CanCall(p)
  /\ store[id] = "pending" /\ id \notin overdue
  /\ Len(log) + Cardinality(InFlight) < MaxReceipts
  /\ guard' = p /\ confirming' = [confirming EXCEPT ![p] = id]
  /\ Goto(p, "mint")
  /\ job' = [job EXCEPT ![p] = Task(Deferred[id], 0, 0)]
  /\ UNCHANGED <<faults, files, holder, store, damaged, overdue>>

\* confirm: the flip is on disk before mint is called.
Confirm(p, id) ==
  /\ CanCall(p)
  /\ store[id] = "pending" /\ id \notin overdue
  /\ Len(log) + Cardinality(InFlight) < MaxReceipts
  /\ Marked({id}, "confirmed")
  /\ guard' = p /\ confirming' = [confirming EXCEPT ![p] = id]
  /\ Goto(p, "mint")
  /\ job' = [job EXCEPT ![p] = Task(Deferred[id], 0, 0)]
  /\ UNCHANGED <<faults, files, holder, damaged, overdue>>

ConfirmLate(p, id) ==
  /\ CanCall(p)
  /\ store[id] = "pending" /\ id \in overdue
  /\ Marked({id}, "expired")
  /\ UNCHANGED <<vars, damaged, overdue, guard, confirming>>

\* mint has answered, with a receipt or with none: the answer is stored, or
\* storing it fails, and the lock is free.
FinishConfirm(p) ==
  /\ confirming[p] # NoId /\ pc[p] = "idle"
  /\ Marked({confirming[p]}, "confirmed")
  /\ guard' = NoProcess /\ confirming' = [confirming EXCEPT ![p] = NoId]
  /\ UNCHANGED <<vars, damaged, overdue>>

RejectPending(id) ==
  /\ guard = NoProcess /\ ~damaged
  /\ store[id] = "pending"
  /\ Marked({id}, "rejected")
  /\ UNCHANGED <<vars, damaged, overdue, guard, confirming>>

SweepExpired ==
  LET swept == {id \in overdue : store[id] = "pending"}
  IN  /\ guard = NoProcess /\ ~damaged
      /\ swept # {}
      /\ Marked(swept, "expired")
      /\ UNCHANGED <<vars, damaged, overdue, guard, confirming>>

TtlPasses(id) ==
  /\ Mishap
  /\ store[id] = "pending" /\ id \notin overdue
  /\ overdue' = overdue \cup {id}
  /\ UNCHANGED <<files, holder, pc, job, store, damaged, guard, confirming>>

DamageStore ==
  /\ Mishap
  /\ ~damaged /\ guard = NoProcess /\ \E id \in Id : store[id] # "none"
  /\ damaged' = TRUE
  /\ UNCHANGED <<files, holder, pc, job, store, overdue, guard, confirming>>

\* A process that dies while it confirms takes both locks with it.
KillConfirming(p) ==
  /\ Mishap
  /\ confirming[p] # NoId
  /\ Return(p)
  /\ guard' = NoProcess /\ confirming' = [confirming EXCEPT ![p] = NoId]
  /\ UNCHANGED <<files, store, damaged, overdue>>

\* The mint goes on as it does alone; a process whose mint has answered
\* finishes its confirmation first.
MintStep ==
  /\ \/ \E p \in Process :
          \/ Work(p)
          \/ confirming[p] = NoId /\ \E c \in Call : Begin(p, c)
     \/ Environment
  /\ UNCHANGED pendingVars

NextPending ==
  \/ MintStep
  \/ Quarantine \/ SweepExpired \/ DamageStore
  \/ \E id \in Id : RecordPending(id) \/ RejectPending(id) \/ TtlPasses(id)
  \/ \E p \in Process : FinishConfirm(p) \/ KillConfirming(p)
  \/ \E p \in Process, id \in Id : Confirm(p, id) \/ ConfirmLate(p, id)

SpecPending == InitPending /\ [][NextPending]_allVars

-----------------------------------------------------------------------------
\* A displacement mints at most once, whatever is retried, killed or
\* quarantined, and only one that was confirmed and neither rejected nor
\* expired does (confirm's write-ahead flip).
MintedOnce ==
  \A id \in Id :
    LET minted == {i \in DOMAIN log : log[i].detail = Deferred[id].detail}
    IN  /\ Cardinality(minted) <= 1
        /\ minted # {} => store[id] \in {"confirmed", "lost"}

-----------------------------------------------------------------------------
(* Why it holds *)

MintedFor(id) == {i \in DOMAIN log : log[i].detail = Deferred[id].detail}

\* The store's lock is held exactly while an id is confirmed, whose status is
\* on disk; what the process mints meanwhile is that id's call.
ConfirmingHolds ==
  \A p \in Process :
    /\ guard = p <=> confirming[p] # NoId
    /\ confirming[p] # NoId => confirming[p] \in Id /\ store[confirming[p]] = "confirmed"
    /\ pc[p] # "idle" => \/ confirming[p] = NoId /\ job[p].call \in Call
                         \/ confirming[p] # NoId /\ job[p].call = Deferred[confirming[p]]

\* Until the append nothing was minted for it.
NotYetMinted ==
  \A p \in Process :
    confirming[p] # NoId =>
      /\ pc[p] \in {"idle", "mint", "reserve", "append", "tip", "earn"}
      /\ pc[p] \in {"mint", "reserve", "append"} => MintedFor(confirming[p]) = {}

PendingInvariant ==
  /\ ConfirmingHolds /\ NotYetMinted
  /\ \A id \in Id :
       /\ \A i, j \in MintedFor(id) : i = j
       /\ MintedFor(id) # {} => store[id] \in {"confirmed", "lost"}
=============================================================================
