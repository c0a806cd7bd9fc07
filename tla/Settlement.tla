----------------------------- MODULE Settlement -----------------------------
(***************************************************************************)
(* Registry-backed settlement of kry_settlement.py.  A provider accepts an *)
(* offer (reserving its amount in the process), and settles the grant:     *)
(* append the obligation to the shared registry, advance the tip           *)
(* checkpoint, call the payer's debit, adjust or roll back the obligation  *)
(* when less was moved, and credit the receiver.  The registry is also     *)
(* compacted.                                                              *)
(*                                                                         *)
(* A checkpoint {count, hash of the last entry} determines the chain it    *)
(* was taken of, so `tip' is that chain; <<>> is the absent checkpoint.    *)
(***************************************************************************)
EXTENDS Integers, Sequences, FiniteSets, Functions

CONSTANTS
  Process, Thread, Home,      \* Home[t]: the process thread t runs in
  Party,                      \* labels of the spending side
  Offer, Payer, Cost,         \* Payer[o] spends Cost[o] in offer o
  Grant,                      \* grant identities; bounds the accepts tried
  Attested,                   \* balances an attestation may show
  KeepRecent,                 \* keep_recent of compact_registry
  NoThread, NoProcess, NoOffer, NoGrant, NoCeiling

ASSUME HomeAssumption == Home \in [Thread -> Process]
ASSUME OfferAssumption == Payer \in [Offer -> Party] /\ Cost \in [Offer -> Nat \ {0}]
ASSUME FiniteAssumption == IsFiniteSet(Offer) /\ IsFiniteSet(Grant)
ASSUME NumberAssumption ==
  Attested \subseteq Nat /\ Attested # {} /\ KeepRecent \in Nat \ {0}
ASSUME NoneAssumption ==
  /\ NoThread \notin Thread
  /\ NoProcess \notin Process
  /\ NoOffer \notin Offer
  /\ NoGrant \notin Grant
  /\ NoCeiling \notin Attested

VARIABLES
  reg,         \* the registry's readable entries
  tail,        \* how its last line ends: "whole", "bare" (no newline), "torn"
  tip,         \* the chain the checkpoint file commits to
  holder,      \* holder of the registry's in-process and file locks
  pending,     \* offers with a live reservation, of each process
  grants,      \* the grants handed out
  seller,      \* each process's receiver: lock, received_kry, settlements
  pc, job,     \* where each thread is, and what it works on
  moved,       \* history: value the debits of each grant really moved
  stranded     \* history: offers whose last accept was cut off once it had reserved

filesVars == <<reg, tail, tip>>
history == <<moved, stranded>>
vars == <<filesVars, holder, pending, grants, seller, pc, job, history>>

-----------------------------------------------------------------------------
(* Data *)

Entry == [party : Party, amt : Nat, gids : SUBSET Grant]

\* held: the process whose reservation still stands for the grant.
GrantRecord == [offer : Offer \cup {NoOffer}, ceiling : Attested \cup {NoCeiling},
                held : Process \cup {NoProcess}]
Unissued == [offer |-> NoOffer, ceiling |-> NoCeiling, held |-> NoProcess]

Receiver == [lock : Thread \cup {NoThread}, received : Nat, settlements : SUBSET Grant]
Opened == [lock |-> NoThread, received |-> 0, settlements |-> {}]

\* before: b_before; reg, tail, tip: the snapshot taken for a shortfall.
Job == [grant : Grant \cup {NoGrant}, offer : Offer \cup {NoOffer},
        ceiling : Attested \cup {NoCeiling}, before : Nat, debited : Nat,
        reg : Seq(Entry), tail : {"whole", "bare"}, tip : Seq(Entry)]
Call(g, o, ceiling, before) ==
  [grant |-> g, offer |-> o, ceiling |-> ceiling, before |-> before,
   debited |-> 0, reg |-> <<>>, tail |-> "whole", tip |-> <<>>]
NoJob == Call(NoGrant, NoOffer, NoCeiling, 0)

\* The call with the snapshot of the registry, and with the debit's answer.
Snapshot(j) ==
  [grant |-> j.grant, offer |-> j.offer, ceiling |-> j.ceiling, before |-> j.before,
   debited |-> 0, reg |-> reg, tail |-> tail, tip |-> tip]
Reported(j, d) ==
  [grant |-> j.grant, offer |-> j.offer, ceiling |-> j.ceiling, before |-> j.before,
   debited |-> d, reg |-> j.reg, tail |-> j.tail, tip |-> j.tip]

InRegistry == {"appended", "debit", "partial", "partialTip", "rollback",
               "rollbackTip", "compactTip"}
Stage == {"idle", "leasing", "settling", "credit"} \cup InRegistry

-----------------------------------------------------------------------------
(* Reading the registry *)

\* verify_registry: every line parses, the log is no shorter than the
\* checkpoint and, at the same length, ends in the same hash.
RegistryValid ==
  /\ tail # "torn"
  /\ Len(reg) >= Len(tip)
  /\ Len(reg) = Len(tip) => reg = tip

\* _load_registry: what a party has settled.
Settled(s, party) ==
  SumFunctionOnSet([i \in DOMAIN s |-> s[i].amt], {i \in DOMAIN s : s[i].party = party})

Consumed(s, g) == \E i \in DOMAIN s : g \in s[i].gids

Reserved(offers, party) ==
  SumFunctionOnSet(Cost, {o \in offers : Payer[o] = party})

\* The entry _record_settled appends.
Obligation(o, g, amount) == [party |-> Payer[o], amt |-> amount, gids |-> {g}]

Checkpoint(s, party) ==
  [party |-> party, amt |-> Settled(s, party),
   gids |-> UNION {s[i].gids : i \in {k \in DOMAIN s : s[k].party = party}}]

\* One checkpoint per party.  Only the hashes depend on their order, which is
\* left open.
Checkpoints(s) ==
  LET parties == {s[i].party : i \in DOMAIN s}
      order == CHOOSE f \in Bijection(1..Cardinality(parties), parties) : TRUE
  IN  [n \in 1..Cardinality(parties) |-> Checkpoint(s, order[n])]

\* Fault: the newest entries are collapsed away with the old ones.
TailDropped(s) == Checkpoints(SubSeq(s, 1, Len(s) - KeepRecent))

Compacted(s) ==
  LET n == Len(s) - KeepRecent
  IN  Checkpoints(SubSeq(s, 1, n)) \o SubSeq(s, n + 1, Len(s))

-----------------------------------------------------------------------------
Init ==
  /\ reg = <<>> /\ tail = "whole" /\ tip = <<>>
  /\ holder = NoThread
  /\ pending = [p \in Process |-> {}]
  /\ grants = [g \in Grant |-> Unissued]
  /\ seller = [p \in Process |-> Opened]
  /\ pc = [t \in Thread |-> "idle"]
  /\ job = [t \in Thread |-> NoJob]
  /\ moved = [g \in Grant |-> 0]
  /\ stranded = [p \in Process |-> {}]

Goto(t, stage) == pc' = [pc EXCEPT ![t] = stage]

\* Leaving every with-block of the call: the receiver's lock is freed.
Return(t) ==
  /\ Goto(t, "idle")
  /\ job' = [job EXCEPT ![t] = NoJob]
  /\ seller' = [p \in Process |->
       IF seller[p].lock = t THEN [seller[p] EXCEPT !.lock = NoThread] ELSE seller[p]]

\* The reservation of an offer is dropped.
Drop(p, o) ==
  /\ pending' = [pending EXCEPT ![p] = @ \ {o}]
  /\ stranded' = [stranded EXCEPT ![p] = @ \ {o}]

\* The finally of the registry block: this process's reservation is released.
ReleaseReservation(t, g) ==
  /\ Drop(Home[t], job[t].offer)
  /\ grants' = [grants EXCEPT ![g].held = IF @ = Home[t] THEN NoProcess ELSE @]

\* Leaving the registry block, if the thread is in it.
LeaveRegistry(t) ==
  IF holder # t THEN UNCHANGED <<holder, pending, grants, stranded>>
  ELSE /\ holder' = NoThread
       /\ IF job[t].grant = NoGrant THEN UNCHANGED <<pending, grants, stranded>>
          ELSE ReleaseReservation(t, job[t].grant)

-----------------------------------------------------------------------------
(* verify_and_accept *)

\* Fault: reservations of other offers are not counted.
AvailableOverall(o, attested, live) == attested - Settled(reg, Payer[o])

\* What the guard of the accept leaves to spend, given the reservations of
\* other offers that have not expired.
Available(o, attested, live) ==
  attested - Settled(reg, Payer[o]) - Reserved(live, Payer[o])

\* Reservations of the party's other offers, after the TTL pruning: the
\* caller supplies the time, so any of them may have expired.
Pruned(p, o, expired) ==
  pending[p] \ ((expired \cap {x \in Offer : Payer[x] = Payer[o]}) \cup {o})

\* The offer fits: its amount is reserved and the lease authority is asked.
Accept(t, o, attested, expired) ==
  LET p == Home[t]
      live == Pruned(p, o, expired)
  IN  /\ pc[t] = "idle" /\ holder = NoThread
      /\ RegistryValid
      /\ Available(o, attested, live) >= Cost[o]
      /\ pending' = [pending EXCEPT ![p] = live \cup {o}]
      /\ job' = [job EXCEPT ![t] = Call(NoGrant, o, attested, 0)]
      /\ Goto(t, "leasing")
      /\ stranded' = [stranded EXCEPT ![p] = @ \cap live]
      /\ UNCHANGED <<filesVars, holder, grants, seller, moved>>

\* The double-spend guard refuses; the pruning stays, and so does the
\* removal of an earlier reservation of the same offer.
RefuseOffer(t, o, attested, expired) ==
  LET p == Home[t]
      live == Pruned(p, o, expired)
  IN  /\ pc[t] = "idle" /\ holder = NoThread
      /\ RegistryValid
      /\ attested >= Cost[o]
      /\ Available(o, attested, live) < Cost[o]
      /\ pending' = [pending EXCEPT ![p] = live]
      /\ stranded' = [stranded EXCEPT ![p] = @ \cap live]
      /\ UNCHANGED <<filesVars, holder, grants, seller, pc, job, moved>>

\* The lease is granted, or none is configured: the grant is handed out.  Its
\* id is cut from a hash of offer, party and time; ids are taken as distinct
\* (a repeated one would be refused as consumed).
IssueGrant(t, g) ==
  /\ pc[t] = "leasing"
  /\ grants[g] = Unissued
  /\ grants' = [grants EXCEPT ![g] =
       [offer |-> job[t].offer, ceiling |-> job[t].ceiling, held |-> Home[t]]]
  /\ Return(t)
  /\ UNCHANGED <<filesVars, holder, pending, history>>

\* Fault: a denial leaves the reservation in place.
DenyOnly(t) ==
  /\ pc[t] = "leasing"
  /\ Return(t)
  /\ UNCHANGED <<filesVars, holder, pending, grants, history>>

\* The lease is denied or its layer raises: the reservation is dropped,
\* under the in-process lock alone.
DenyLease(t) ==
  /\ pc[t] = "leasing"
  /\ holder # NoThread => Home[holder] # Home[t]
  /\ Drop(Home[t], job[t].offer)
  /\ Return(t)
  /\ UNCHANGED <<filesVars, holder, grants, moved>>

\* An exception or an interrupt between the reservation and the return, outside
\* the try of the lease: nobody drops the reservation, it lasts until its TTL.
InterruptAccept(t) ==
  /\ pc[t] = "leasing"
  /\ stranded' = [stranded EXCEPT ![Home[t]] = @ \cup {job[t].offer}]
  /\ Return(t)
  /\ UNCHANGED <<filesVars, holder, pending, grants, moved>>

\* A grant the operator builds without verify_and_accept has no ceiling.
BuildGrant(g, o) ==
  /\ grants[g] = Unissued
  /\ grants' = [grants EXCEPT ![g] =
       [offer |-> o, ceiling |-> NoCeiling, held |-> NoProcess]]
  /\ UNCHANGED <<filesVars, holder, pending, seller, pc, job, history>>

-----------------------------------------------------------------------------
(* settle *)

\* Fault: the receiver's lock is not taken.
BeginUnlocked(t, g) ==
  /\ pc[t] = "idle"
  /\ grants[g] # Unissued
  /\ job' = [job EXCEPT ![t] =
       Call(g, grants[g].offer, grants[g].ceiling, seller[Home[t]].received)]
  /\ Goto(t, "settling")
  /\ UNCHANGED <<filesVars, holder, pending, grants, seller, history>>

\* Any grant handed out may be settled, again and by any process.  The
\* receiver's balance is read under the receiver's lock.
BeginSettle(t, g) ==
  LET p == Home[t]
  IN  /\ pc[t] = "idle"
      /\ grants[g] # Unissued
      /\ seller[p].lock = NoThread
      /\ seller' = [seller EXCEPT ![p].lock = t]
      /\ job' = [job EXCEPT ![t] =
           Call(g, grants[g].offer, grants[g].ceiling, seller[p].received)]
      /\ Goto(t, "settling")
      /\ UNCHANGED <<filesVars, holder, pending, grants, history>>

\* Fault: the ceiling is not checked again at the commit.
CeilingAtAcceptOnly(t) == job[t].ceiling # NoCeiling => RegistryValid

\* The commit-time ceiling; a grant built directly is exempt.
CeilingHolds(t) ==
  job[t].ceiling # NoCeiling =>
    /\ RegistryValid
    /\ Settled(reg, Payer[job[t].offer]) + Cost[job[t].offer] <= job[t].ceiling

Recordable(t) ==
  /\ CeilingHolds(t)
  /\ tail # "torn"
  /\ ~Consumed(reg, job[t].grant)

\* Refused inside the registry block, before anything is written: too little
\* float precision at the caller's balance, or not recordable.
RefuseSettle(t, precise) ==
  /\ pc[t] = "settling" /\ holder = NoThread
  /\ ~precise \/ ~Recordable(t)
  /\ ReleaseReservation(t, job[t].grant)
  /\ Return(t)
  /\ UNCHANGED <<filesVars, holder, moved>>

ObligationOf(t) == Obligation(job[t].offer, job[t].grant, Cost[job[t].offer])

\* The append of _record_settled, after the snapshot of both files.  Joined
\* to a line without newline it makes that line unreadable.
AppendObligation(t) ==
  /\ pc[t] = "settling" /\ holder = NoThread
  /\ Recordable(t)
  /\ holder' = t
  /\ job' = [job EXCEPT ![t] = Snapshot(@)]
  /\ IF tail = "bare" THEN tail' = "torn" /\ UNCHANGED reg
     ELSE reg' = Append(reg, ObligationOf(t)) /\ UNCHANGED tail
  /\ Goto(t, "appended")
  /\ UNCHANGED <<tip, pending, grants, seller, history>>

\* The append raises: nothing, part of the line, the line without its
\* newline, or all of it is in the file, and it stays there.
AppendFails(t) ==
  /\ pc[t] = "settling" /\ holder = NoThread
  /\ Recordable(t)
  /\ \/ UNCHANGED <<reg, tail>>
     \/ tail' = "torn" /\ UNCHANGED reg
     \/ /\ tail = "whole"
        /\ reg' = Append(reg, ObligationOf(t))
        /\ tail' \in {"whole", "bare"}
  /\ ReleaseReservation(t, job[t].grant)
  /\ Return(t)
  /\ UNCHANGED <<tip, holder, moved>>

AdvanceTip(t) ==
  /\ pc[t] = "appended"
  /\ tip' = Append(job[t].reg, ObligationOf(t))
  /\ Goto(t, "debit")
  /\ UNCHANGED <<reg, tail, holder, pending, grants, seller, job, history>>

\* Fault: the locks of the registry are not given back.
UndoKeepsLock(t) ==
  /\ pc[t] = "appended"
  /\ reg' = job[t].reg /\ tail' = job[t].tail
  /\ Return(t)
  /\ UNCHANGED <<tip, holder, pending, grants, history>>

\* The checkpoint write fails: the append is undone and settle raises.
UndoAppend(t) ==
  /\ pc[t] = "appended"
  /\ reg' = job[t].reg /\ tail' = job[t].tail
  /\ LeaveRegistry(t)
  /\ Return(t)
  /\ UNCHANGED <<tip, moved>>

Moves(t, d) == moved' = [moved EXCEPT ![job[t].grant] = @ + d]

\* The debit callback returns the amount it moved, at most what was asked.
\* The whole amount: the registry block ends.
DebitAll(t) ==
  /\ pc[t] = "debit"
  /\ Moves(t, Cost[job[t].offer])
  /\ LeaveRegistry(t)
  /\ Goto(t, "credit")
  /\ UNCHANGED <<filesVars, seller, job>>

\* Fault: a short debit is taken for the whole amount.
ShortIsCredited(t, d) ==
  /\ pc[t] = "debit"
  /\ d < Cost[job[t].offer]
  /\ Moves(t, d)
  /\ LeaveRegistry(t)
  /\ Goto(t, "credit")
  /\ UNCHANGED <<filesVars, seller, job>>

\* Less: the obligation is adjusted to it, or rolled back if nothing moved.
DebitLess(t, d) ==
  /\ pc[t] = "debit"
  /\ d < Cost[job[t].offer]
  /\ Moves(t, d)
  /\ job' = [job EXCEPT ![t] = Reported(@, d)]
  /\ Goto(t, IF d > 0 THEN "partial" ELSE "rollback")
  /\ UNCHANGED <<filesVars, holder, pending, grants, seller, stranded>>

\* Fault: an exception of the callback is taken for a debit of nothing.
RaiseRollsBack(t, d) ==
  /\ pc[t] = "debit"
  /\ d <= Cost[job[t].offer]
  /\ Moves(t, d)
  /\ Goto(t, "rollback")
  /\ UNCHANGED <<filesVars, holder, pending, grants, seller, job, stranded>>

\* The callback raises or returns no number: whatever it moved, the
\* obligation stays and the exception propagates.
DebitRaises(t, d) ==
  /\ pc[t] = "debit"
  /\ d <= Cost[job[t].offer]
  /\ Moves(t, d)
  /\ LeaveRegistry(t)
  /\ Return(t)
  /\ UNCHANGED filesVars

\* Fault: the obligation is removed where it should be reduced.
PartialForgotten(t) ==
  /\ pc[t] = "partial"
  /\ tail # "torn"
  /\ reg' = job[t].reg
  /\ tail' = "whole"
  /\ Goto(t, "partialTip")
  /\ UNCHANGED <<tip, holder, pending, grants, seller, job, history>>

\* _record_partial_debit: the file is replaced, the grant stays in it.
ReplacePartial(t) ==
  /\ pc[t] = "partial"
  /\ tail # "torn"
  /\ reg' = Append(job[t].reg, Obligation(job[t].offer, job[t].grant, job[t].debited))
  /\ tail' = "whole"
  /\ Goto(t, "partialTip")
  /\ UNCHANGED <<tip, holder, pending, grants, seller, job, history>>

AdvancePartialTip(t) ==
  /\ pc[t] = "partialTip"
  /\ tip' = reg
  /\ LeaveRegistry(t)
  /\ Return(t)
  /\ UNCHANGED <<reg, tail, moved>>

\* _rollback_registry after a debit that moved nothing.
RollBack(t) ==
  /\ pc[t] = "rollback"
  /\ reg' = job[t].reg /\ tail' = job[t].tail
  /\ Goto(t, "rollbackTip")
  /\ UNCHANGED <<tip, holder, pending, grants, seller, job, history>>

RollBackTip(t) ==
  /\ pc[t] = "rollbackTip"
  /\ tip' = job[t].tip
  /\ LeaveRegistry(t)
  /\ Return(t)
  /\ UNCHANGED <<reg, tail, moved>>

\* After the registry block: the receiver gets the snapshot plus the amount.
Credit(t) ==
  LET p == Home[t]
      j == job[t]
  IN  /\ pc[t] = "credit"
      /\ seller' = [seller EXCEPT ![p] =
           [lock |-> NoThread, received |-> j.before + Cost[j.offer],
            settlements |-> @.settlements \cup {j.grant}]]
      /\ Goto(t, "idle")
      /\ job' = [job EXCEPT ![t] = NoJob]
      /\ UNCHANGED <<filesVars, holder, pending, grants, history>>

-----------------------------------------------------------------------------
(* compact_registry *)

Compact(t) ==
  /\ pc[t] = "idle" /\ holder = NoThread
  /\ Len(reg) > 2 * KeepRecent
  /\ RegistryValid
  /\ reg' = Compacted(reg) /\ tail' = "whole"
  /\ holder' = t
  /\ Goto(t, "compactTip")
  /\ UNCHANGED <<tip, pending, grants, seller, job, history>>

CompactTip(t) ==
  /\ pc[t] = "compactTip"
  /\ tip' = reg
  /\ LeaveRegistry(t)
  /\ Return(t)
  /\ UNCHANGED <<reg, tail, moved>>

-----------------------------------------------------------------------------
(* Failures *)

\* Between two effects a settlement or a compaction ends by an exception (a
\* failed file write, a raising balance callback, an interrupt): what is in
\* the files stays.
Abandon(t) ==
  /\ pc[t] \notin {"idle", "leasing"}
  /\ LeaveRegistry(t)
  /\ Return(t)
  /\ UNCHANGED <<filesVars, moved>>

\* A process is killed: its locks, reservations and receiver go with it.
Kill(p) ==
  /\ holder' = IF holder # NoThread /\ Home[holder] = p THEN NoThread ELSE holder
  /\ pending' = [pending EXCEPT ![p] = {}]
  /\ grants' = [g \in Grant |->
       IF grants[g].held = p THEN [grants[g] EXCEPT !.held = NoProcess] ELSE grants[g]]
  /\ seller' = [seller EXCEPT ![p] = Opened]
  /\ pc' = [t \in Thread |-> IF Home[t] = p THEN "idle" ELSE pc[t]]
  /\ job' = [t \in Thread |-> IF Home[t] = p THEN NoJob ELSE job[t]]
  /\ stranded' = [stranded EXCEPT ![p] = {}]
  /\ UNCHANGED <<filesVars, moved>>

-----------------------------------------------------------------------------
\* The steps that carry on a call that has the registry.
Proceed(t) ==
  \/ AdvanceTip(t) \/ UndoAppend(t)
  \/ DebitAll(t) \/ ReplacePartial(t) \/ AdvancePartialTip(t)
  \/ RollBack(t) \/ RollBackTip(t) \/ Credit(t) \/ CompactTip(t)
  \/ \E o \in Offer : \E d \in 0..Cost[o] : DebitLess(t, d) \/ DebitRaises(t, d)
  \/ pc[t] # "settling" /\ Abandon(t)

Step(t) ==
  \/ \E o \in Offer, attested \in Attested, expired \in SUBSET Offer :
       Accept(t, o, attested, expired) \/ RefuseOffer(t, o, attested, expired)
  \/ \E g \in Grant : IssueGrant(t, g) \/ BeginSettle(t, g)
  \/ \E precise \in BOOLEAN : RefuseSettle(t, precise)
  \/ DenyLease(t) \/ InterruptAccept(t)
  \/ AppendObligation(t) \/ AppendFails(t) \/ Compact(t) \/ Abandon(t)
  \/ Proceed(t)

Next ==
  \/ \E t \in Thread : Step(t)
  \/ \E g \in Grant, o \in Offer : BuildGrant(g, o)
  \/ \E p \in Process : Kill(p)

\* Calls that have begun to write go on: the callbacks are bounded.
Spec == Init /\ [][Next]_vars /\ \A t \in Thread : WF_vars(Proceed(t))

-----------------------------------------------------------------------------
(* Properties *)

\* A grant whose debit moved value never debits again, whatever failed, was
\* killed, rolled back or compacted after it (_record_settled consumes it).
DebitedOnce == [][\A g \in Grant : moved[g] > 0 => moved'[g] = moved[g]]_vars

MovedBy(party, G) ==
  SumFunctionOnSet(moved,
    {g \in G : grants[g] # Unissued /\ Payer[grants[g].offer] = party})

\* While the registry can be read, it holds against a party at least what
\* its debits have moved: no failure or adjustment frees spent balance.
ObligationCovers ==
  tail # "torn" => \A party \in Party : MovedBy(party, Grant) <= Settled(reg, party)

\* Over all processes, what the grants with an attested ceiling have moved
\* stays within the largest balance attested for the party's grants that
\* moved anything: one attestation does not pay two providers.
WithinAttested ==
  \A party \in Party :
    LET paid == {g \in Grant : /\ grants[g].ceiling # NoCeiling
                               /\ moved[g] > 0
                               /\ Payer[grants[g].offer] = party}
    IN  \A g \in paid :
          (\A h \in paid : grants[h].ceiling <= grants[g].ceiling)
             => MovedBy(party, paid) <= grants[g].ceiling

\* A receiver holds exactly the sum of the settlements it lists: concurrent
\* settlements lose no credit and repeat none.
ReceiverExact ==
  \A p \in Process :
    seller[p].received =
      SumFunctionOnSet([g \in seller[p].settlements |-> Cost[grants[g].offer]],
                       seller[p].settlements)

\* A receiver lists a grant only if the payer's debit moved the whole amount,
\* and no two receivers list the same grant: no credit without its debit.
CreditBacked ==
  \A p \in Process : \A g \in seller[p].settlements :
    /\ moved[g] = Cost[grants[g].offer]
    /\ \A q \in Process \ {p} : g \notin seller[q].settlements

\* A reservation belongs to an accept that is asking for its lease, to a grant
\* this process handed out and has not tried to settle, or to an accept that
\* was cut off outside the lease's try; and within a process the reservations
\* of a party fit one balance attested for it, those left behind included:
\* no refusal, denial or settlement leaves one, and concurrent accepts see
\* each other's.
ReservationsKept ==
  \A p \in Process :
    /\ \A o \in pending[p] :
         \/ \E t \in Thread : Home[t] = p /\ pc[t] = "leasing" /\ job[t].offer = o
         \/ \E g \in Grant : grants[g].offer = o /\ grants[g].held = p
         \/ o \in stranded[p]
    /\ \A party \in Party :
         \E attested \in Attested : Reserved(pending[p], party) <= attested

\* Whoever has the registry gives it back: no path out of the block keeps it.
RegistryFreed == \A t \in Thread : (holder = t) ~> (holder # t)
=============================================================================
