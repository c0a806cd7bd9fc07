-------------------------- MODULE SettlementProofs --------------------------
(***************************************************************************)
(* Proofs about Settlement, for any processes, threads, parties, offers,   *)
(* grants and attested balances.  SInv says which grants the registry has  *)
(* consumed: a grant debits once and a credit has its debit.  On top of it *)
(* AmountsInv adds up what the registry holds, AnchorInv what an exported  *)
(* anchor says of it, ReceiverInv what a receiver holds, and PendingInv    *)
(* whose the reservations are.                                             *)
(***************************************************************************)
EXTENDS SettlementAnchor, SumTheorems, SequenceTheorems

-----------------------------------------------------------------------------
(* The registry as a sequence *)

\* A sequence, whatever its entries are.
IsLog(s) == \E S : s \in Seq(S)

LEMMA EmptyLog == IsLog(<<>>) /\ \A g : ~Consumed(<<>>, g)
  <1>1. <<>> \in Seq({}) /\ DOMAIN <<>> = {}
    OBVIOUS
  <1> QED BY <1>1 DEF IsLog, Consumed

\* Appending an entry keeps every consumed grant and adds the entry's.
LEMMA AppendedLog ==
  ASSUME NEW s, IsLog(s), NEW e
  PROVE  /\ IsLog(Append(s, e))
         /\ \A g : Consumed(Append(s, e), g) <=> Consumed(s, g) \/ g \in e.gids
  <1>1. PICK S : s \in Seq(S)
    BY DEF IsLog
  <1> DEFINE T == S \cup {e}
  <1>2. s \in Seq(T) /\ e \in T
    BY <1>1
  <1> HIDE DEF T
  <1>3. Append(s, e) \in Seq(T) /\ Len(s) \in Nat /\ Len(Append(s, e)) = Len(s) + 1
    BY <1>2
  <1>4. /\ DOMAIN s = 1..Len(s)
        /\ DOMAIN Append(s, e) = 1..(Len(s) + 1)
        /\ \A i \in 1..Len(s) : Append(s, e)[i] = s[i]
        /\ Append(s, e)[Len(s) + 1] = e
    BY <1>2, AppendProperties
  <1>5. DOMAIN Append(s, e) = DOMAIN s \cup {Len(s) + 1}
    BY <1>3, <1>4
  <1> QED BY <1>3, <1>4, <1>5 DEF IsLog, Consumed

\* The parties of a log are finitely many, so they can be listed.
LEMMA PartiesListed ==
  ASSUME NEW s, IsLog(s)
  PROVE  LET P == {s[i].party : i \in DOMAIN s}
         IN  Cardinality(P) \in Nat /\ \E f : f \in Bijection(1..Cardinality(P), P)
  <1> DEFINE P == {s[i].party : i \in DOMAIN s}
             f == [i \in DOMAIN s |-> s[i].party]
  <1>1. Len(s) \in Nat /\ DOMAIN s = 1..Len(s)
    BY DEF IsLog
  <1>2. f \in Surjection(1..Len(s), P)
    BY <1>1 DEF Surjection
  <1>3. IsFiniteSet(P)
    BY <1>1, <1>2, FS_NatSurjection DEF ExistsSurjection
  <1> QED BY <1>3, FS_CardinalityType DEF ExistsBijection

\* Collapsing a log into checkpoints forgets no consumed grant.
LEMMA CheckpointsLog ==
  ASSUME NEW s, IsLog(s)
  PROVE  /\ IsLog(Checkpoints(s))
         /\ \A g : Consumed(Checkpoints(s), g) <=> Consumed(s, g)
  <1> DEFINE P == {s[i].party : i \in DOMAIN s}
             n == Cardinality(P)
             order == CHOOSE f \in Bijection(1..n, P) : TRUE
  <1>1. n \in Nat /\ order \in Bijection(1..n, P)
    BY PartiesListed
  <1> HIDE DEF order
  <1>2. Checkpoints(s) = [k \in 1..n |-> Checkpoint(s, order[k])]
    BY DEF Checkpoints, order
  <1>3. /\ \A k \in 1..n : order[k] \in P
        /\ \A party \in P : \E k \in 1..n : order[k] = party
    BY <1>1 DEF Bijection, Injection, Surjection
  <1>4. IsLog(Checkpoints(s))
    <2> DEFINE S == {Checkpoint(s, order[k]) : k \in 1..n}
    <2>1. Checkpoints(s) \in [1..n -> S]
      BY <1>2
    <2>2. Checkpoints(s) \in Seq(S)
      BY <2>1, <1>1, SeqDef
    <2> QED BY <2>2 DEF IsLog
  <1>5. \A party, g : g \in Checkpoint(s, party).gids
                        <=> \E i \in DOMAIN s : s[i].party = party /\ g \in s[i].gids
    BY DEF Checkpoint
  <1>6. \A g : Consumed(Checkpoints(s), g) <=> \E k \in 1..n : g \in Checkpoint(s, order[k]).gids
    BY <1>2 DEF Consumed
  <1> HIDE DEF n
  <1>7. ASSUME NEW g, Consumed(s, g) PROVE Consumed(Checkpoints(s), g)
    <2>1. PICK i \in DOMAIN s : g \in s[i].gids
      BY <1>7 DEF Consumed
    <2>2. PICK k \in 1..n : order[k] = s[i].party
      BY <1>3
    <2>3. g \in Checkpoint(s, order[k]).gids
      BY <1>5, <2>1, <2>2
    <2> QED BY <1>6, <2>3
  <1>8. ASSUME NEW g, Consumed(Checkpoints(s), g) PROVE Consumed(s, g)
    BY <1>5, <1>6, <1>8 DEF Consumed
  <1> QED BY <1>4, <1>7, <1>8

\* Compaction forgets no consumed grant and invents none.
LEMMA CompactedLog ==
  ASSUME NEW s, IsLog(s), Len(s) > 2 * KeepRecent
  PROVE  /\ IsLog(Compacted(s))
         /\ \A g : Consumed(Compacted(s), g) <=> Consumed(s, g)
  <1>1. PICK S : s \in Seq(S)
    BY DEF IsLog
  <1> DEFINE n == Len(s) - KeepRecent
             old == SubSeq(s, 1, n)
             new == SubSeq(s, n + 1, Len(s))
             c == Checkpoints(old)
  <1>2. /\ Len(s) \in Nat /\ n \in Nat /\ n + 1 \in Nat /\ KeepRecent \in Nat
        /\ Len(s) - n = KeepRecent /\ n < Len(s) /\ DOMAIN s = 1..Len(s)
        /\ \A i \in 1..Len(s) : s[i] \in S
    BY <1>1, NumberAssumption
  <1> HIDE DEF n
  <1>3. /\ old \in Seq(S) /\ Len(old) = n
        /\ \A i \in 1..n : old[i] = s[i]
    <2>1. \A i \in 1..n : s[i] \in S
      BY <1>2
    <2>2. Len(old) = IF 1 <= n THEN n - 1 + 1 ELSE 0
      BY <1>2, <2>1, SubSeqProperties
    <2>3. \A i \in 1..(n - 1 + 1) : old[i] = s[1 + i - 1]
      BY <1>2, <2>1, SubSeqProperties
    <2>4. old \in Seq(S)
      BY <1>2, <2>1, SubSeqProperties
    <2>5. n - 1 + 1 = n /\ \A i \in 1..n : 1 + i - 1 = i
      BY <1>2
    <2> HIDE DEF old
    <2> QED BY <1>2, <2>2, <2>3, <2>4, <2>5
  <1>4. /\ new \in Seq(S) /\ Len(new) = KeepRecent
        /\ \A i \in 1..KeepRecent : new[i] = s[n + i]
    <2>1. \A i \in (n + 1)..Len(s) : s[i] \in S
      BY <1>2
    <2>2. Len(new) = IF n + 1 <= Len(s) THEN Len(s) - (n + 1) + 1 ELSE 0
      BY <1>2, <2>1, SubSeqProperties
    <2>3. \A i \in 1..(Len(s) - (n + 1) + 1) : new[i] = s[(n + 1) + i - 1]
      BY <1>2, <2>1, SubSeqProperties
    <2>4. new \in Seq(S)
      BY <1>2, <2>1, SubSeqProperties
    <2> HIDE DEF new
    <2>5. Len(s) - (n + 1) + 1 = KeepRecent
      BY <1>2
    <2>6. \A i \in 1..KeepRecent : (n + 1) + i - 1 = n + i
      BY <1>2
    <2> QED BY <1>2, <2>2, <2>3, <2>4, <2>5, <2>6
  <1> HIDE DEF new, old
  <1>5. IsLog(c) /\ \A g : Consumed(c, g) <=> Consumed(old, g)
    <2>1. IsLog(old)
      BY <1>3 DEF IsLog
    <2> QED BY <2>1, CheckpointsLog
  <1> HIDE DEF c
  <1>6. PICK C : c \in Seq(C)
    BY <1>5 DEF IsLog
  <1>7. c \in Seq(C \cup S) /\ new \in Seq(C \cup S)
    BY <1>4, <1>6
  <1>8. /\ c \o new \in Seq(C \cup S)
        /\ Len(c) \in Nat /\ DOMAIN c = 1..Len(c) /\ DOMAIN new = 1..KeepRecent
        /\ DOMAIN old = 1..n
        /\ DOMAIN (c \o new) = 1..(Len(c) + KeepRecent)
        /\ \A i \in 1..Len(c) : (c \o new)[i] = c[i]
        /\ \A i \in 1..KeepRecent : (c \o new)[Len(c) + i] = new[i]
    <2>1. DOMAIN new = 1..KeepRecent /\ DOMAIN old = 1..n
      BY <1>3, <1>4
    <2>2. Len(c) \in Nat /\ DOMAIN c = 1..Len(c)
      BY <1>6
    <2>3. /\ c \o new \in Seq(C \cup S)
          /\ Len(c \o new) = Len(c) + Len(new)
          /\ \A i \in 1..(Len(c) + Len(new)) :
               (c \o new)[i] = IF i <= Len(c) THEN c[i] ELSE new[i - Len(c)]
      BY <1>7, ConcatProperties
    <2>4. DOMAIN (c \o new) = 1..(Len(c) + KeepRecent)
      BY <1>4, <2>3
    <2>5. ASSUME NEW i \in 1..Len(c) PROVE (c \o new)[i] = c[i]
      BY <1>2, <1>4, <2>2, <2>3
    <2>6. ASSUME NEW i \in 1..KeepRecent PROVE (c \o new)[Len(c) + i] = new[i]
      <3>1. /\ Len(c) + i \in 1..(Len(c) + KeepRecent) /\ ~(Len(c) + i <= Len(c))
            /\ Len(c) + i - Len(c) = i
        BY <1>2, <2>2
      <3> QED BY <1>4, <2>3, <3>1
    <2> QED BY <2>1, <2>2, <2>3, <2>4, <2>5, <2>6
  <1>9. Compacted(s) = c \o new
    BY DEF Compacted, c, old, new, n
  <1>10. \A a \in Nat : \A i : i \in 1..(a + KeepRecent)
           <=> i \in 1..a \/ \E k \in 1..KeepRecent : i = a + k
    <2>1. ASSUME NEW a \in Nat, NEW i \in 1..(a + KeepRecent), i \notin 1..a
          PROVE  i - a \in 1..KeepRecent /\ i = a + (i - a)
      BY <1>2, <2>1
    <2>2. ASSUME NEW a \in Nat, NEW i \in 1..a PROVE i \in 1..(a + KeepRecent)
      BY <1>2
    <2>3. ASSUME NEW a \in Nat, NEW k \in 1..KeepRecent PROVE a + k \in 1..(a + KeepRecent)
      BY <1>2
    <2> QED BY <2>1, <2>2, <2>3
  <1>11. \A g : Consumed(c \o new, g) <=> Consumed(c, g) \/ Consumed(new, g)
    <2> DEFINE cn == c \o new
               a == Len(c)
    <2>1. /\ a \in Nat /\ DOMAIN c = 1..a /\ DOMAIN cn = 1..(a + KeepRecent)
          /\ \A i \in 1..a : cn[i] = c[i]
          /\ \A i \in 1..KeepRecent : cn[a + i] = new[i]
      BY <1>8
    <2>2. \A i : i \in 1..(a + KeepRecent)
                   <=> i \in 1..a \/ \E k \in 1..KeepRecent : i = a + k
      BY <1>10, <2>1
    <2> HIDE DEF cn, a
    <2>3. \A g : Consumed(cn, g) <=> Consumed(c, g) \/ Consumed(new, g)
      <3>1. ASSUME NEW g, Consumed(cn, g) PROVE Consumed(c, g) \/ Consumed(new, g)
        <4>1. PICK i \in 1..(a + KeepRecent) : g \in cn[i].gids
          BY <2>1, <3>1 DEF Consumed
        <4>2. CASE i \in 1..a
          BY <2>1, <4>1, <4>2 DEF Consumed
        <4>3. CASE \E k \in 1..KeepRecent : i = a + k
          BY <1>8, <2>1, <4>1, <4>3 DEF Consumed
        <4> QED BY <2>2, <4>1, <4>2, <4>3
      <3>2. ASSUME NEW g, Consumed(c, g) PROVE Consumed(cn, g)
        BY <2>1, <2>2, <3>2 DEF Consumed
      <3>3. ASSUME NEW g, Consumed(new, g) PROVE Consumed(cn, g)
        <4>1. PICK k \in 1..KeepRecent : g \in new[k].gids
          BY <1>8, <3>3 DEF Consumed
        <4>2. a + k \in 1..(a + KeepRecent) /\ cn[a + k] = new[k]
          BY <2>1, <2>2
        <4> QED BY <2>1, <4>1, <4>2 DEF Consumed
      <3> QED BY <3>1, <3>2, <3>3
    <2> QED BY <2>3 DEF cn
  <1>12. \A g : Consumed(s, g) <=> Consumed(old, g) \/ Consumed(new, g)
    <2>1. \A i : i \in 1..(n + KeepRecent)
                   <=> i \in 1..n \/ \E k \in 1..KeepRecent : i = n + k
      BY <1>2, <1>10
    <2>2. DOMAIN s = 1..(n + KeepRecent)
      BY <1>2
    <2>3. ASSUME NEW g, Consumed(s, g) PROVE Consumed(old, g) \/ Consumed(new, g)
      <3>1. PICK i \in 1..(n + KeepRecent) : g \in s[i].gids
        BY <2>2, <2>3 DEF Consumed
      <3>2. CASE i \in 1..n
        BY <1>3, <1>8, <3>1, <3>2 DEF Consumed
      <3>3. CASE \E k \in 1..KeepRecent : i = n + k
        BY <1>4, <1>8, <3>1, <3>3 DEF Consumed
      <3> QED BY <2>1, <3>1, <3>2, <3>3
    <2>4. ASSUME NEW g, Consumed(old, g) PROVE Consumed(s, g)
      BY <1>3, <1>8, <2>1, <2>2, <2>4 DEF Consumed
    <2>5. ASSUME NEW g, Consumed(new, g) PROVE Consumed(s, g)
      <3>1. PICK k \in 1..KeepRecent : g \in new[k].gids
        BY <1>8, <2>5 DEF Consumed
      <3>2. n + k \in 1..(n + KeepRecent) /\ s[n + k] = new[k]
        BY <1>4, <2>1
      <3> QED BY <2>2, <3>1, <3>2 DEF Consumed
    <2> QED BY <2>3, <2>4, <2>5
  <1> QED BY <1>5, <1>8, <1>9, <1>11, <1>12 DEF IsLog

-----------------------------------------------------------------------------
(* The invariant *)

\* What a call keeps while it has a grant.  The grants it has consumed are all
\* that counts here of the registry, so its entries are left untyped.
Typed ==
  /\ IsLog(reg) /\ tail \in {"whole", "bare", "torn"}
  /\ holder \in Thread \cup {NoThread}
  /\ grants \in [Grant -> GrantRecord]
  /\ \A g \in Grant : grants[g] # Unissued => grants[g].offer \in Offer
  /\ seller \in [Process -> Receiver]
  /\ pc \in [Thread -> Stage]
  /\ job = [t \in Thread |-> job[t]]
  /\ \A t \in Thread : job[t].before \in Nat /\ job[t].ceiling \in Attested \cup {NoCeiling}
  /\ moved \in [Grant -> Nat]

Writing == InRegistry \ {"compactTip"}

\* A settling thread works on a grant for the offer it was handed out for;
\* a thread inside the registry block has its locks.
CallOf(t) ==
  /\ pc[t] \in {"idle", "leasing", "compactTip"} => job[t].grant = NoGrant
  /\ pc[t] = "leasing" => job[t].offer \in Offer
  /\ pc[t] \in Writing \cup {"settling", "credit"} =>
       /\ job[t].grant \in Grant /\ job[t].offer \in Offer
       /\ grants[job[t].grant].offer = job[t].offer
       /\ grants[job[t].grant].ceiling = job[t].ceiling
  /\ pc[t] \in InRegistry => holder = t

\* The snapshot a settlement restores lacks no grant that moved value, but
\* for its own; its own has moved nothing as long as it may be rolled back,
\* and before its debit it is consumed.
SnapshotOf(t) ==
  pc[t] \in Writing =>
    /\ IsLog(job[t].reg) /\ job[t].tail \in {"whole", "bare"}
    /\ \A h \in Grant : moved[h] > 0 => h = job[t].grant \/ Consumed(job[t].reg, h)
    /\ pc[t] \in {"appended", "debit", "rollback"} => moved[job[t].grant] = 0
    /\ pc[t] \in {"appended", "debit"} => tail = "torn" \/ Consumed(reg, job[t].grant)

\* A thread about to credit its receiver is alone to have that grant.
CreditOf(t) ==
  pc[t] = "credit" =>
    /\ moved[job[t].grant] = Cost[job[t].offer]
    /\ \A p \in Process : job[t].grant \notin seller[p].settlements
    /\ \A u \in Thread \ {t} : pc[u] = "credit" => job[u].grant # job[t].grant

\* A grant that moved value is consumed, or nothing can be recorded at all.
Consumption == \A g \in Grant : moved[g] > 0 => tail = "torn" \/ Consumed(reg, g)

\* What a receiver lists was handed out.
Listed == \A p \in Process : \A g \in seller[p].settlements : grants[g].offer \in Offer

SInv ==
  /\ Typed /\ Consumption /\ Listed /\ CreditBacked
  /\ \A t \in Thread : CallOf(t) /\ SnapshotOf(t) /\ CreditOf(t)

\* What steps other than a credit do to grants and receivers.
GrantsKept ==
  /\ grants' \in [Grant -> GrantRecord]
  /\ \A g \in Grant : grants'[g] # Unissued => grants'[g].offer \in Offer
  /\ \A g \in Grant : grants[g].offer \in Offer =>
       grants'[g].offer = grants[g].offer /\ grants'[g].ceiling = grants[g].ceiling
ListsKept ==
  /\ seller' \in [Process -> Receiver]
  /\ \A p \in Process : seller'[p].settlements \subseteq seller[p].settlements

LEMMA InitSInv == Init => SInv
  <1> SUFFICES ASSUME Init PROVE SInv
    OBVIOUS
  <1> USE DEF Init
  <1>1. Typed
    <2>1. Unissued \in GrantRecord /\ Opened \in Receiver
      BY DEF Unissued, GrantRecord, Opened, Receiver
    <2>2. \A t \in Thread : job[t].before \in Nat /\ job[t].ceiling = NoCeiling
      BY DEF NoJob, Call
    <2> QED BY <2>1, <2>2, EmptyLog DEF Typed, Stage
  <1>2. Consumption /\ Listed /\ CreditBacked
    BY DEF Consumption, Listed, CreditBacked, Opened
  <1>3. ASSUME NEW t \in Thread PROVE CallOf(t) /\ SnapshotOf(t) /\ CreditOf(t)
    BY DEF CallOf, SnapshotOf, CreditOf, NoJob, Call, Writing, InRegistry
  <1> QED BY <1>1, <1>2, <1>3 DEF SInv

-----------------------------------------------------------------------------
(* The pieces of a step *)

\* Giving a reservation back changes no grant's offer.
LEMMA ReleaseKeeps ==
  ASSUME Typed, NEW t \in Thread, NEW g \in Grant, ReleaseReservation(t, g)
  PROVE  GrantsKept
  <1> USE DEF Typed
  <1> DEFINE held == IF grants[g].held = Home[t] THEN NoProcess ELSE grants[g].held
  <1>1. grants[g] \in GrantRecord
    OBVIOUS
  <1>2. [grants[g] EXCEPT !.held = held] \in GrantRecord
        /\ [grants[g] EXCEPT !.held = held].offer = grants[g].offer
        /\ [grants[g] EXCEPT !.held = held].ceiling = grants[g].ceiling
    BY <1>1 DEF GrantRecord
  <1>3. grants' = [grants EXCEPT ![g] = [grants[g] EXCEPT !.held = held]]
    BY DEF ReleaseReservation
  <1>4. grants[g] = Unissued => [grants[g] EXCEPT !.held = held] = Unissued
    BY DEF Unissued
  <1> HIDE DEF held
  <1> QED BY <1>2, <1>3, <1>4 DEF GrantsKept

\* Leaving the registry block frees its locks if the thread has them.
LEMMA LeaveKeeps ==
  ASSUME Typed, NEW t \in Thread, CallOf(t), LeaveRegistry(t)
  PROVE  GrantsKept /\ holder' = IF holder = t THEN NoThread ELSE holder
  <1>1. CASE UNCHANGED grants
    BY <1>1 DEF LeaveRegistry, GrantsKept, Typed
  <1>2. CASE holder = t /\ job[t].grant # NoGrant
    <2>1. job[t].grant \in Grant
      BY <1>2 DEF CallOf, Typed, Stage, Writing, InRegistry
    <2> QED BY <1>2, <2>1, ReleaseKeeps DEF LeaveRegistry
  <1> QED BY <1>1, <1>2 DEF LeaveRegistry

\* Handing a grant out, or killing a process, changes no grant handed out before.
LEMMA IssueKeeps ==
  ASSUME SInv, NEW t \in Thread, NEW g \in Grant, IssueGrant(t, g)
  PROVE  GrantsKept
  <1>1. job[t].offer \in Offer /\ job[t].ceiling \in Attested \cup {NoCeiling}
    BY DEF IssueGrant, SInv, CallOf, Typed
  <1>2. [offer |-> job[t].offer, ceiling |-> job[t].ceiling, held |-> Home[t]] \in GrantRecord
    BY <1>1, HomeAssumption DEF GrantRecord
  <1>3. grants[g].offer \notin Offer
    BY NoneAssumption DEF IssueGrant, Unissued
  <1>4. grants' = [grants EXCEPT ![g] =
          [offer |-> job[t].offer, ceiling |-> job[t].ceiling, held |-> Home[t]]]
    BY DEF IssueGrant
  <1> QED BY <1>1, <1>2, <1>3, <1>4 DEF GrantsKept, SInv, Typed

LEMMA BuildKeeps ==
  ASSUME SInv, NEW g \in Grant, NEW o \in Offer, BuildGrant(g, o)
  PROVE  GrantsKept
  <1> USE DEF BuildGrant
  <1>1. [offer |-> o, ceiling |-> NoCeiling, held |-> NoProcess] \in GrantRecord
    BY DEF GrantRecord
  <1>2. grants[g].offer \notin Offer
    BY NoneAssumption DEF Unissued
  <1> QED BY <1>1, <1>2 DEF GrantsKept, SInv, Typed

LEMMA KillKeeps ==
  ASSUME SInv, NEW p \in Process, Kill(p)
  PROVE  GrantsKept
  <1> USE DEF Kill
  <1>1. ASSUME NEW g \in Grant, grants[g].held = p
        PROVE  /\ [grants[g] EXCEPT !.held = NoProcess] \in GrantRecord
               /\ [grants[g] EXCEPT !.held = NoProcess].offer = grants[g].offer
               /\ [grants[g] EXCEPT !.held = NoProcess].ceiling = grants[g].ceiling
               /\ grants[g] # Unissued
    <2>1. grants[g] \in GrantRecord
      BY DEF SInv, Typed
    <2> QED BY <1>1, <2>1, NoneAssumption DEF GrantRecord, Unissued
  <1> QED BY <1>1 DEF GrantsKept, SInv, Typed

\* Returning leaves the other threads and every receiver's list alone.
LEMMA ReturnKeeps ==
  ASSUME Typed, NEW t \in Thread, Return(t)
  PROVE  /\ ListsKept
         /\ pc' \in [Thread -> Stage] /\ job' = [u \in Thread |-> job'[u]]
         /\ pc'[t] = "idle" /\ job'[t] = NoJob
         /\ \A u \in Thread \ {t} : pc'[u] = pc[u] /\ job'[u] = job[u]
  <1> USE DEF Typed
  <1>1. ListsKept
    <2>1. \A p \in Process : [seller[p] EXCEPT !.lock = NoThread] \in Receiver
            /\ [seller[p] EXCEPT !.lock = NoThread].settlements = seller[p].settlements
      BY DEF Receiver
    <2> QED BY <2>1 DEF Return, ListsKept
  <1>2. /\ pc' \in [Thread -> Stage] /\ pc'[t] = "idle"
        /\ \A u \in Thread \ {t} : pc'[u] = pc[u]
    BY DEF Return, Goto, Stage
  <1>3. /\ job' = [u \in Thread |-> job'[u]] /\ job'[t] = NoJob
        /\ \A u \in Thread \ {t} : job'[u] = job[u]
    BY DEF Return
  <1> QED BY <1>1, <1>2, <1>3

\* A thread whose own state, and what it has of the registry, are unchanged.
Untouched(u) ==
  /\ pc'[u] = pc[u] /\ job'[u] = job[u]
  /\ holder = u => holder' = u /\ UNCHANGED <<reg, tail>>

\* A step that debits nothing and credits nobody: each thread is untouched
\* or again in one of the situations the invariant describes.
LEMMA MovelessStep ==
  ASSUME SInv, Typed', Consumption', UNCHANGED moved, GrantsKept, ListsKept,
         \A u \in Thread : \/ Untouched(u)
                           \/ CallOf(u)' /\ SnapshotOf(u)' /\ pc'[u] # "credit"
  PROVE  SInv'
  <1> USE DEF SInv
  <1>1. Listed' /\ CreditBacked'
    <2>1. \A p \in Process : seller[p].settlements \subseteq Grant
      BY DEF Typed, Receiver
    <2> QED BY <2>1 DEF Listed, CreditBacked, GrantsKept, ListsKept
  <1>2. ASSUME NEW u \in Thread PROVE CallOf(u)' /\ SnapshotOf(u)'
    <2>1. CASE Untouched(u)
      <3>1. CallOf(u)'
        BY <2>1 DEF Untouched, CallOf, GrantsKept
      <3>2. SnapshotOf(u)'
        <4>1. pc[u] \in Writing => UNCHANGED <<reg, tail>>
          BY <2>1 DEF Untouched, CallOf, Writing
        <4> QED BY <2>1, <4>1 DEF Untouched, SnapshotOf
      <3> QED BY <3>1, <3>2
    <2> QED BY <2>1
  <1>3. ASSUME NEW u \in Thread PROVE CreditOf(u)'
    <2> SUFFICES ASSUME pc'[u] = "credit" PROVE CreditOf(u)'
      BY DEF CreditOf
    <2>1. Untouched(u)
      OBVIOUS
    <2>2. \A v \in Thread : pc'[v] = "credit" => pc[v] = "credit" /\ job'[v] = job[v]
      BY DEF Untouched
    <2> QED BY <2>1, <2>2 DEF CreditOf, Untouched, ListsKept
  <1> QED BY <1>1, <1>2, <1>3

\* A step after which the thread is idle, and which debits nothing.
LEMMA ReturningStep ==
  ASSUME SInv, NEW t \in Thread, Return(t), GrantsKept, UNCHANGED moved,
         IsLog(reg)', tail' \in {"whole", "bare", "torn"},
         UNCHANGED <<reg, tail>> \/ (holder \in {t, NoThread} /\ Consumption'),
         holder' = holder \/ (holder = t /\ holder' = NoThread)
  PROVE  SInv'
  <1>1. Typed'
    <2>1. ListsKept /\ pc' \in [Thread -> Stage] /\ job' = [u \in Thread |-> job'[u]]
      BY ReturnKeeps DEF SInv
    <2>2. \A u \in Thread : job'[u].before \in Nat /\ job'[u].ceiling \in Attested \cup {NoCeiling}
      BY ReturnKeeps DEF SInv, Typed, NoJob, Call
    <2> QED BY <2>1, <2>2 DEF SInv, Typed, GrantsKept, ListsKept
  <1>2. Consumption'
    BY DEF SInv, Consumption, Consumed
  <1>3. ASSUME NEW u \in Thread \ {t} PROVE Untouched(u)
    BY <1>3, ReturnKeeps, NoneAssumption DEF SInv, Untouched
  <1>4. CallOf(t)' /\ SnapshotOf(t)' /\ pc'[t] # "credit"
    <2>1. pc'[t] = "idle" /\ job'[t].grant = NoGrant
      BY ReturnKeeps DEF SInv, NoJob, Call
    <2> QED BY <2>1 DEF CallOf, SnapshotOf, Writing, InRegistry
  <1>5. ListsKept
    BY ReturnKeeps DEF SInv
  <1> QED BY <1>1, <1>2, <1>3, <1>4, <1>5, MovelessStep

-----------------------------------------------------------------------------
(* Steps outside the registry block *)

LEMMA AcceptSInv ==
  ASSUME SInv, NEW t \in Thread, NEW o \in Offer, NEW attested \in Attested, NEW expired,
         Accept(t, o, attested, expired)
  PROVE  SInv'
  <1> USE DEF Accept, Goto
  <1>1. job'[t] = Call(NoGrant, o, attested, 0) /\ pc'[t] = "leasing"
    BY DEF SInv, Typed
  <1>2. Typed' /\ GrantsKept /\ ListsKept
    <2>1. \A u \in Thread : job'[u].before \in Nat /\ job'[u].ceiling \in Attested \cup {NoCeiling}
      BY <1>1 DEF SInv, Typed, Call
    <2> QED BY <2>1 DEF SInv, Typed, GrantsKept, ListsKept, Stage, filesVars, history
  <1>3. \A u \in Thread \ {t} : Untouched(u)
    BY DEF Untouched, SInv, Typed, filesVars, history
  <1>4. CallOf(t)' /\ SnapshotOf(t)' /\ pc'[t] # "credit"
    BY <1>1 DEF CallOf, SnapshotOf, Writing, InRegistry, Call
  <1>5. Consumption' /\ UNCHANGED moved
    BY DEF SInv, Consumption, Consumed, filesVars, history
  <1> QED BY <1>2, <1>3, <1>4, <1>5, MovelessStep

\* Steps that touch nothing the invariant speaks of.
LEMMA UnchangedSInv ==
  ASSUME SInv, UNCHANGED <<filesVars, holder, grants, seller, pc, job, moved>>
  PROVE  SInv'
  <1>1. Typed' /\ GrantsKept /\ ListsKept /\ Consumption' /\ \A u \in Thread : Untouched(u)
    BY DEF SInv, Typed, GrantsKept, ListsKept, Consumption, Consumed, Untouched, filesVars, history
  <1> QED BY <1>1, MovelessStep

LEMMA IssueGrantSInv ==
  ASSUME SInv, NEW t \in Thread, NEW g \in Grant, IssueGrant(t, g)
  PROVE  SInv'
  <1>1. GrantsKept
    BY IssueKeeps
  <1>2. Return(t) /\ UNCHANGED <<reg, tail>> /\ UNCHANGED moved /\ holder' = holder
    BY DEF IssueGrant, filesVars, history
  <1>3. IsLog(reg)' /\ tail' \in {"whole", "bare", "torn"}
    BY <1>2 DEF SInv, Typed
  <1> QED BY <1>1, <1>2, <1>3, ReturningStep

LEMMA DenyLeaseSInv ==
  ASSUME SInv, NEW t \in Thread, DenyLease(t)
  PROVE  SInv'
  <1>1. GrantsKept
    BY DEF DenyLease, GrantsKept, SInv, Typed
  <1>2. Return(t) /\ UNCHANGED <<reg, tail>> /\ UNCHANGED moved /\ holder' = holder
    BY DEF DenyLease, filesVars, history
  <1>3. IsLog(reg)' /\ tail' \in {"whole", "bare", "torn"}
    BY <1>2 DEF SInv, Typed
  <1> QED BY <1>1, <1>2, <1>3, ReturningStep

LEMMA InterruptAcceptSInv ==
  ASSUME SInv, NEW t \in Thread, InterruptAccept(t)
  PROVE  SInv'
  <1>1. GrantsKept
    BY DEF InterruptAccept, GrantsKept, SInv, Typed
  <1>2. Return(t) /\ UNCHANGED <<reg, tail>> /\ UNCHANGED moved /\ holder' = holder
    BY DEF InterruptAccept, filesVars, history
  <1>3. IsLog(reg)' /\ tail' \in {"whole", "bare", "torn"}
    BY <1>2 DEF SInv, Typed
  <1> QED BY <1>1, <1>2, <1>3, ReturningStep

LEMMA BuildGrantSInv ==
  ASSUME SInv, NEW g \in Grant, NEW o \in Offer, BuildGrant(g, o)
  PROVE  SInv'
  <1> USE DEF BuildGrant
  <1>1. GrantsKept
    BY BuildKeeps
  <1>2. Typed' /\ ListsKept /\ Consumption' /\ UNCHANGED moved
    BY <1>1 DEF SInv, Typed, GrantsKept, ListsKept, Consumption, Consumed, filesVars, history
  <1>3. \A u \in Thread : Untouched(u)
    BY DEF Untouched, filesVars, history
  <1> QED BY <1>1, <1>2, <1>3, MovelessStep

LEMMA BeginSettleSInv ==
  ASSUME SInv, NEW t \in Thread, NEW g \in Grant, BeginSettle(t, g)
  PROVE  SInv'
  <1> USE DEF BeginSettle, Goto
  <1> DEFINE p == Home[t]
             call == Call(g, grants[g].offer, grants[g].ceiling, seller[p].received)
  <1>1. p \in Process /\ grants[g] \in GrantRecord /\ seller[p] \in Receiver
    BY HomeAssumption DEF SInv, Typed
  <1>2. job'[t] = call /\ pc'[t] = "settling"
    BY DEF SInv, Typed
  <1>3. ListsKept
    <2>1. [seller[p] EXCEPT !.lock = t] \in Receiver
          /\ [seller[p] EXCEPT !.lock = t].settlements = seller[p].settlements
      BY <1>1 DEF Receiver
    <2>2. seller' = [seller EXCEPT ![p] = [seller[p] EXCEPT !.lock = t]]
      OBVIOUS
    <2> QED BY <2>1, <2>2 DEF ListsKept, SInv, Typed
  <1>4. Typed' /\ GrantsKept
    <2>1. call.before \in Nat /\ call.ceiling \in Attested \cup {NoCeiling}
      BY <1>1 DEF Call, GrantRecord, Receiver
    <2>2. \A u \in Thread : job'[u].before \in Nat /\ job'[u].ceiling \in Attested \cup {NoCeiling}
      BY <1>2, <2>1 DEF SInv, Typed
    <2> QED BY <2>2, <1>3 DEF SInv, Typed, GrantsKept, ListsKept, Stage, filesVars, history
  <1>5. \A u \in Thread \ {t} : Untouched(u)
    BY DEF Untouched, SInv, Typed, filesVars, history
  <1>6. CallOf(t)' /\ SnapshotOf(t)' /\ pc'[t] # "credit"
    <2>1. grants[g].offer \in Offer
      BY DEF SInv, Typed
    <2> QED BY <1>2, <2>1 DEF CallOf, SnapshotOf, Writing, InRegistry, Call
  <1>7. Consumption' /\ UNCHANGED moved
    BY DEF SInv, Consumption, Consumed, filesVars, history
  <1> QED BY <1>3, <1>4, <1>5, <1>6, <1>7, MovelessStep

LEMMA RefuseSettleSInv ==
  ASSUME SInv, NEW t \in Thread, NEW precise, RefuseSettle(t, precise)
  PROVE  SInv'
  <1>1. job[t].grant \in Grant
    BY DEF RefuseSettle, SInv, CallOf
  <1>2. GrantsKept
    BY <1>1, ReleaseKeeps DEF RefuseSettle, SInv
  <1>3. Return(t) /\ UNCHANGED <<reg, tail>> /\ UNCHANGED moved /\ holder' = holder
    BY DEF RefuseSettle, filesVars, history
  <1>4. IsLog(reg)' /\ tail' \in {"whole", "bare", "torn"}
    BY <1>3 DEF SInv, Typed
  <1> QED BY <1>2, <1>3, <1>4, ReturningStep

\* Ending a call without writing to the registry.
LEMMA QuietReturn ==
  ASSUME SInv, NEW t \in Thread, LeaveRegistry(t), Return(t),
         UNCHANGED <<reg, tail>>, UNCHANGED moved
  PROVE  SInv'
  <1>1. GrantsKept /\ (holder' = holder \/ (holder = t /\ holder' = NoThread))
    BY LeaveKeeps DEF SInv
  <1>2. IsLog(reg)' /\ tail' \in {"whole", "bare", "torn"}
    BY DEF SInv, Typed
  <1> QED BY <1>1, <1>2, ReturningStep

LEMMA EndSInv ==
  ASSUME SInv, NEW t \in Thread,
         AdvancePartialTip(t) \/ RollBackTip(t) \/ CompactTip(t) \/ Abandon(t)
  PROVE  SInv'
  <1>1. /\ LeaveRegistry(t) /\ Return(t)
        /\ UNCHANGED <<reg, tail>> /\ UNCHANGED moved
    BY DEF AdvancePartialTip, RollBackTip, CompactTip, Abandon, filesVars, history
  <1> QED BY <1>1, QuietReturn

LEMMA KillSInv ==
  ASSUME SInv, NEW p \in Process, Kill(p)
  PROVE  SInv'
  <1> USE DEF Kill
  <1>1. GrantsKept
    BY KillKeeps
  <1>2. ListsKept
    <2>1. Opened \in Receiver /\ Opened.settlements = {}
      BY DEF Opened, Receiver
    <2> QED BY <2>1 DEF ListsKept, SInv, Typed
  <1>3. Typed'
    <2>1. NoJob.before \in Nat /\ NoJob.ceiling = NoCeiling
      BY DEF NoJob, Call
    <2>2. /\ job' = [u \in Thread |-> job'[u]]
          /\ \A u \in Thread : /\ job'[u].before \in Nat
                               /\ job'[u].ceiling \in Attested \cup {NoCeiling}
      BY <2>1 DEF SInv, Typed
    <2>3. pc' \in [Thread -> Stage] /\ holder' \in Thread \cup {NoThread}
      BY DEF SInv, Typed, Stage
    <2> QED BY <1>1, <1>2, <2>2, <2>3 DEF SInv, Typed, GrantsKept, ListsKept, filesVars, history
  <1>4. Consumption' /\ UNCHANGED moved
    BY DEF SInv, Consumption, Consumed, filesVars, history
  <1>5. ASSUME NEW u \in Thread, Home[u] # p PROVE Untouched(u)
    BY <1>5 DEF Untouched, filesVars, history
  <1>6. ASSUME NEW u \in Thread, Home[u] = p
        PROVE  CallOf(u)' /\ SnapshotOf(u)' /\ pc'[u] # "credit"
    <2>1. pc'[u] = "idle" /\ job'[u].grant = NoGrant
      BY <1>6 DEF NoJob, Call
    <2> QED BY <2>1 DEF CallOf, SnapshotOf, Writing, InRegistry
  <1> QED BY <1>1, <1>2, <1>3, <1>4, <1>5, <1>6, MovelessStep

-----------------------------------------------------------------------------
(* Writes to the registry *)

\* A step that goes on with the registry, and neither debits nor credits.
LEMMA WritingStep ==
  ASSUME SInv, NEW t \in Thread, NEW stage \in InRegistry,
         UNCHANGED <<grants, seller, moved>>,
         pc' = [pc EXCEPT ![t] = stage],
         job' = [u \in Thread |-> job'[u]], \A u \in Thread \ {t} : job'[u] = job[u],
         job'[t].before = job[t].before, job'[t].ceiling = job[t].ceiling,
         IsLog(reg)', tail' \in {"whole", "bare", "torn"},
         holder \in {t, NoThread}, holder' = t,
         Consumption', CallOf(t)', SnapshotOf(t)'
  PROVE  SInv'
  <1>1. Typed'
    <2>1. \A u \in Thread : job'[u].before = job[u].before /\ job'[u].ceiling = job[u].ceiling
      OBVIOUS
    <2>2. pc' \in [Thread -> Stage]
      BY DEF SInv, Typed, Stage
    <2> QED BY <2>1, <2>2 DEF SInv, Typed
  <1>2. \A u \in Thread \ {t} : Untouched(u)
    BY NoneAssumption DEF Untouched, SInv, Typed
  <1>3. GrantsKept /\ ListsKept
    BY DEF GrantsKept, ListsKept, SInv, Typed
  <1>4. pc'[t] # "credit"
    BY DEF SInv, Typed, InRegistry
  <1> QED BY <1>1, <1>2, <1>3, <1>4, MovelessStep

\* What appending the obligation of a grant makes of the registry.
LEMMA ObligationAppended ==
  ASSUME NEW s, IsLog(s), NEW o, NEW g, NEW amount
  PROVE  /\ IsLog(Append(s, Obligation(o, g, amount)))
         /\ \A h : Consumed(Append(s, Obligation(o, g, amount)), h) <=> Consumed(s, h) \/ h = g
  <1>1. Obligation(o, g, amount).gids = {g}
    BY DEF Obligation
  <1> QED BY <1>1, AppendedLog

LEMMA AppendObligationSInv ==
  ASSUME SInv, NEW t \in Thread, AppendObligation(t)
  PROVE  SInv'
  <1> DEFINE g == job[t].grant
  <1> USE DEF AppendObligation, history, Goto
  <1>1. /\ g \in Grant /\ job[t].offer \in Offer
        /\ grants[g].offer = job[t].offer /\ grants[g].ceiling = job[t].ceiling
        /\ IsLog(reg) /\ tail \in {"whole", "bare"} /\ ~Consumed(reg, g)
    BY DEF SInv, CallOf, Typed, Recordable
  <1>2. \A h \in Grant : moved[h] > 0 => Consumed(reg, h)
    BY <1>1 DEF SInv, Consumption
  <1>3. moved[g] = 0
    BY <1>1, <1>2 DEF SInv, Typed
  <1>4. /\ IsLog(reg)' /\ tail' \in {"whole", "bare", "torn"}
        /\ \A h : Consumed(reg, h) => Consumed(reg, h)'
        /\ tail' = "torn" \/ Consumed(reg', g)
    <2>1. CASE tail = "bare" /\ reg' = reg /\ tail' = "torn"
      BY <1>1, <2>1 DEF Consumed
    <2>2. CASE reg' = Append(reg, ObligationOf(t)) /\ tail' = tail
      <3>1. /\ IsLog(reg') /\ \A h : Consumed(reg', h) <=> Consumed(reg, h) \/ h = g
        BY <1>1, <2>2, ObligationAppended DEF ObligationOf
      <3>2. \A h : Consumed(reg, h)' <=> Consumed(reg', h)
        BY DEF Consumed
      <3>3. IsLog(reg)'
        BY <3>1 DEF IsLog
      <3>4. ASSUME NEW h, Consumed(reg, h) PROVE Consumed(reg, h)'
        BY <3>1, <3>2, <3>4
      <3>5. Consumed(reg', g)
        BY <3>1
      <3>6. tail' \in {"whole", "bare", "torn"}
        BY <1>1, <2>2
      <3> QED BY <3>3, <3>4, <3>5, <3>6
    <2> QED BY <2>1, <2>2
  <1>5. /\ job' = [u \in Thread |-> job'[u]] /\ \A u \in Thread \ {t} : job'[u] = job[u]
        /\ job'[t] = Snapshot(job[t])
    BY DEF SInv, Typed
  <1>6. /\ job'[t].grant = g /\ job'[t].offer = job[t].offer
        /\ job'[t].reg = reg /\ job'[t].tail = tail
        /\ job'[t].before = job[t].before /\ job'[t].ceiling = job[t].ceiling
    BY <1>5 DEF Snapshot
  <1>7. pc'[t] = "appended"
    BY DEF SInv, Typed
  <1>8. Consumption'
    BY <1>2, <1>4 DEF Consumption, Consumed
  <1>9. CallOf(t)'
    BY <1>1, <1>6, <1>7 DEF CallOf, InRegistry
  <1>10. SnapshotOf(t)'
    BY <1>1, <1>2, <1>3, <1>4, <1>6, <1>7 DEF SnapshotOf, Consumed
  <1>11. "appended" \in InRegistry /\ UNCHANGED <<grants, seller, moved>>
         /\ holder \in {t, NoThread} /\ holder' = t /\ pc' = [pc EXCEPT ![t] = "appended"]
    BY DEF InRegistry
  <1> QED BY <1>4, <1>5, <1>6, <1>8, <1>9, <1>10, <1>11, WritingStep

\* Whatever part of the line a failing append leaves, no consumed grant is
\* lost: the registry is longer or unreadable.
LEMMA AppendFailsSInv ==
  ASSUME SInv, NEW t \in Thread, AppendFails(t)
  PROVE  SInv'
  <1> USE DEF AppendFails
  <1>1. job[t].grant \in Grant /\ holder' = holder /\ holder = NoThread
    BY DEF SInv, CallOf
  <1>2. GrantsKept
    BY <1>1, ReleaseKeeps DEF SInv
  <1>3. IsLog(reg') /\ \A h : Consumed(reg, h) => Consumed(reg', h)
    <2>1. CASE reg' = reg
      BY <2>1 DEF SInv, Typed
    <2>2. CASE reg' = Append(reg, ObligationOf(t))
      BY <2>2, ObligationAppended DEF ObligationOf, SInv, Typed
    <2> QED BY <2>1, <2>2
  <1>4. IsLog(reg)' /\ Consumption'
    <2>1. \A h : Consumed(reg, h)' <=> Consumed(reg', h)
      BY DEF Consumed
    <2>2. moved' = moved /\ (tail = "torn" => FALSE)
      BY DEF Recordable
    <2>3. \A h \in Grant : moved[h] > 0 => Consumed(reg, h)
      BY <2>2 DEF SInv, Consumption
    <2> QED BY <1>3, <2>1, <2>2, <2>3 DEF Consumption, IsLog
  <1>5. tail' \in {"whole", "bare", "torn"} /\ Return(t) /\ UNCHANGED moved
    BY DEF SInv, Typed
  <1> QED BY <1>1, <1>2, <1>4, <1>5, ReturningStep

\* Putting the snapshot back before anything was debited.
LEMMA SnapshotRestored ==
  ASSUME SInv, NEW t \in Thread, pc[t] \in {"appended", "rollback"}, UNCHANGED moved,
         reg' = job[t].reg, tail' = job[t].tail
  PROVE  IsLog(reg)' /\ tail' \in {"whole", "bare", "torn"} /\ Consumption'
  <1>1. /\ IsLog(job[t].reg) /\ job[t].tail \in {"whole", "bare"} /\ moved[job[t].grant] = 0
        /\ \A h \in Grant : moved[h] > 0 => h = job[t].grant \/ Consumed(job[t].reg, h)
    BY DEF SInv, SnapshotOf, Writing, InRegistry
  <1>2. \A h : Consumed(reg, h)' <=> Consumed(reg', h)
    BY DEF Consumed
  <1>3. \A h \in Grant : moved[h] > 0 => Consumed(reg', h)
    BY <1>1
  <1> QED BY <1>1, <1>2, <1>3 DEF Consumption, IsLog

LEMMA UndoAppendSInv ==
  ASSUME SInv, NEW t \in Thread, UndoAppend(t)
  PROVE  SInv'
  <1> USE DEF UndoAppend
  <1>1. holder = t
    BY DEF SInv, CallOf, InRegistry
  <1>2. GrantsKept /\ holder' = NoThread
    BY <1>1, LeaveKeeps DEF SInv
  <1>3. IsLog(reg)' /\ tail' \in {"whole", "bare", "torn"} /\ Consumption'
    BY SnapshotRestored
  <1> QED BY <1>1, <1>2, <1>3, ReturningStep

LEMMA AdvanceTipSInv ==
  ASSUME SInv, NEW t \in Thread, AdvanceTip(t)
  PROVE  SInv'
  <1> USE DEF AdvanceTip, history, Goto
  <1>1. pc'[t] = "debit" /\ "debit" \in InRegistry /\ holder = t
    BY DEF SInv, Typed, CallOf, InRegistry
  <1>2. IsLog(reg)' /\ tail' \in {"whole", "bare", "torn"} /\ Consumption'
    BY DEF SInv, Typed, Consumption, Consumed
  <1>3. CallOf(t)' /\ SnapshotOf(t)'
    BY <1>1 DEF SInv, CallOf, SnapshotOf, Writing, InRegistry, Consumed
  <1>4. job' = [u \in Thread |-> job'[u]]
    BY DEF SInv, Typed
  <1> QED BY <1>1, <1>2, <1>3, <1>4, WritingStep

LEMMA ReplacePartialSInv ==
  ASSUME SInv, NEW t \in Thread, ReplacePartial(t)
  PROVE  SInv'
  <1> DEFINE g == job[t].grant
  <1> USE DEF ReplacePartial, history, Goto
  <1>1. pc'[t] = "partialTip" /\ "partialTip" \in InRegistry /\ holder = t
    BY DEF SInv, Typed, CallOf, InRegistry
  <1>2. /\ IsLog(job[t].reg)
        /\ \A h \in Grant : moved[h] > 0 => h = g \/ Consumed(job[t].reg, h)
    BY DEF SInv, SnapshotOf, Writing, InRegistry
  <1>3. IsLog(reg') /\ \A h : Consumed(reg', h) <=> Consumed(job[t].reg, h) \/ h = g
    BY <1>2, ObligationAppended
  <1>4. IsLog(reg)' /\ tail' \in {"whole", "bare", "torn"} /\ Consumption'
    <2>1. \A h : Consumed(reg, h)' <=> Consumed(reg', h)
      BY DEF Consumed
    <2> QED BY <1>2, <1>3, <2>1 DEF Consumption, IsLog
  <1>5. CallOf(t)' /\ SnapshotOf(t)'
    BY <1>1 DEF SInv, CallOf, SnapshotOf, Writing, InRegistry, Consumed
  <1>6. job' = [u \in Thread |-> job'[u]]
    BY DEF SInv, Typed
  <1> QED BY <1>1, <1>4, <1>5, <1>6, WritingStep

LEMMA RollBackSInv ==
  ASSUME SInv, NEW t \in Thread, RollBack(t)
  PROVE  SInv'
  <1> USE DEF RollBack, history, Goto
  <1>1. pc'[t] = "rollbackTip" /\ "rollbackTip" \in InRegistry /\ holder = t
    BY DEF SInv, Typed, CallOf, InRegistry
  <1>2. IsLog(reg)' /\ tail' \in {"whole", "bare", "torn"} /\ Consumption'
    BY SnapshotRestored
  <1>3. CallOf(t)' /\ SnapshotOf(t)'
    BY <1>1 DEF SInv, CallOf, SnapshotOf, Writing, InRegistry, Consumed
  <1>4. job' = [u \in Thread |-> job'[u]]
    BY DEF SInv, Typed
  <1> QED BY <1>1, <1>2, <1>3, <1>4, WritingStep

\* Compaction keeps every grant consumed.
LEMMA CompactSInv ==
  ASSUME SInv, NEW t \in Thread, Compact(t)
  PROVE  SInv'
  <1> USE DEF Compact, history, Goto
  <1>1. pc'[t] = "compactTip" /\ "compactTip" \in InRegistry
    BY DEF SInv, Typed, InRegistry
  <1>2. IsLog(reg') /\ \A h : Consumed(reg', h) <=> Consumed(reg, h)
    BY CompactedLog DEF SInv, Typed
  <1>3. IsLog(reg)' /\ tail' \in {"whole", "bare", "torn"} /\ Consumption'
    <2>1. \A h : Consumed(reg, h)' <=> Consumed(reg', h)
      BY DEF Consumed
    <2>2. \A h \in Grant : moved[h] > 0 => Consumed(reg, h)
      BY DEF SInv, Consumption, RegistryValid
    <2> QED BY <1>2, <2>1, <2>2 DEF Consumption, IsLog
  <1>4. CallOf(t)' /\ SnapshotOf(t)'
    BY <1>1 DEF SInv, CallOf, SnapshotOf, Writing, InRegistry
  <1>5. job' = [u \in Thread |-> job'[u]]
    BY DEF SInv, Typed
  <1> QED BY <1>1, <1>3, <1>4, <1>5, WritingStep

-----------------------------------------------------------------------------
(* Debits and credits *)

\* A thread at its debit has the registry, and its grant has moved nothing.
LEMMA AtDebit ==
  ASSUME SInv, NEW t \in Thread, pc[t] = "debit"
  PROVE  /\ holder = t /\ moved[job[t].grant] = 0
         /\ job[t].grant \in Grant /\ job[t].offer \in Offer
         /\ grants[job[t].grant].offer = job[t].offer
         /\ grants[job[t].grant].ceiling = job[t].ceiling
         /\ tail = "torn" \/ Consumed(reg, job[t].grant)
         /\ \A u \in Thread \ {t} : pc[u] \notin InRegistry
  BY DEF SInv, CallOf, SnapshotOf, Writing, InRegistry

\* A grant that is listed or about to be credited has moved value.
LEMMA CreditedMoved ==
  ASSUME SInv
  PROVE  /\ \A p \in Process : \A g \in seller[p].settlements : g \in Grant /\ moved[g] > 0
         /\ \A u \in Thread : pc[u] = "credit" => moved[job[u].grant] > 0
  <1>1. ASSUME NEW p \in Process, NEW g \in seller[p].settlements
        PROVE  g \in Grant /\ moved[g] > 0
    <2>1. moved[g] = Cost[grants[g].offer] /\ grants[g].offer \in Offer
      BY DEF SInv, CreditBacked, Listed
    <2>2. g \in Grant
      BY DEF SInv, Typed, Receiver
    <2> QED BY <2>1, <2>2, OfferAssumption
  <1>2. ASSUME NEW u \in Thread, pc[u] = "credit" PROVE moved[job[u].grant] > 0
    <2>1. moved[job[u].grant] = Cost[job[u].offer] /\ job[u].offer \in Offer
      BY <1>2 DEF SInv, CreditOf, CallOf
    <2> QED BY <2>1, OfferAssumption
  <1> QED BY <1>1, <1>2

\* A step that debits and then goes to credit, adjusts, rolls back or ends.
LEMMA DebitStep ==
  ASSUME SInv, NEW t \in Thread, NEW d \in Nat, pc[t] = "debit", Moves(t, d),
         UNCHANGED <<reg, tail>>, Typed', GrantsKept, ListsKept,
         \A u \in Thread \ {t} : pc'[u] = pc[u] /\ job'[u] = job[u],
         CallOf(t)', SnapshotOf(t)',
         pc'[t] = "credit" => job'[t] = job[t] /\ d = Cost[job[t].offer]
  PROVE  SInv'
  <1> DEFINE g == job[t].grant
  <1>1. /\ g \in Grant /\ moved[g] = 0 /\ moved'[g] = d
        /\ \A h \in Grant \ {g} : moved'[h] = moved[h]
    BY AtDebit DEF Moves, SInv, Typed
  <1>2. Consumption'
    <2>1. \A h : Consumed(reg, h)' <=> Consumed(reg, h)
      BY DEF Consumed
    <2>2. tail = "torn" \/ Consumed(reg, g)
      BY AtDebit
    <2> QED BY <1>1, <2>1, <2>2 DEF SInv, Consumption
  <1>3. Listed' /\ CreditBacked'
    <2>1. ASSUME NEW p \in Process, NEW h \in seller'[p].settlements
          PROVE  /\ grants'[h].offer \in Offer /\ moved'[h] = Cost[grants'[h].offer]
                 /\ \A q \in Process \ {p} : h \notin seller'[q].settlements
      <3>1. h \in seller[p].settlements
        BY DEF ListsKept
      <3>2. h \in Grant \ {g} /\ grants[h].offer \in Offer /\ moved[h] = Cost[grants[h].offer]
        BY <1>1, <3>1, CreditedMoved DEF SInv, Listed, CreditBacked
      <3>3. \A q \in Process \ {p} : h \notin seller[q].settlements
        BY <3>1 DEF SInv, CreditBacked
      <3> QED BY <1>1, <3>2, <3>3 DEF GrantsKept, ListsKept
    <2> QED BY <2>1 DEF Listed, CreditBacked
  <1>4. ASSUME NEW u \in Thread \ {t}
        PROVE  CallOf(u)' /\ SnapshotOf(u)' /\ CreditOf(u)'
    <2>1. pc[u] \notin InRegistry /\ pc'[u] = pc[u] /\ job'[u] = job[u]
      BY AtDebit
    <2>2. CallOf(u)'
      BY <2>1 DEF SInv, CallOf, GrantsKept, Writing
    <2>3. SnapshotOf(u)'
      BY <2>1 DEF SnapshotOf, Writing
    <2>4. CreditOf(u)'
      <3> SUFFICES ASSUME pc[u] = "credit"
                   PROVE  /\ moved'[job[u].grant] = Cost[job[u].offer]
                          /\ \A p \in Process : job[u].grant \notin seller'[p].settlements
                          /\ \A v \in Thread \ {u} :
                               pc'[v] = "credit" => job'[v].grant # job[u].grant
        BY <2>1 DEF CreditOf
      <3>1. job[u].grant \in Grant \ {g}
        BY <1>1, CreditedMoved DEF SInv, CallOf
      <3>2. CreditOf(u)
        BY DEF SInv
      <3> QED BY <1>1, <3>1, <3>2 DEF CreditOf, ListsKept
    <2> QED BY <2>2, <2>3, <2>4
  <1>5. CreditOf(t)'
    <2> SUFFICES ASSUME pc'[t] = "credit"
                 PROVE  /\ moved'[g] = Cost[job[t].offer]
                        /\ \A p \in Process : g \notin seller'[p].settlements
                        /\ \A u \in Thread \ {t} :
                             pc'[u] = "credit" => job'[u].grant # g
      BY DEF CreditOf
    <2>1. \A p \in Process : g \notin seller[p].settlements
      BY <1>1, CreditedMoved
    <2>2. ASSUME NEW u \in Thread \ {t}, pc[u] = "credit" PROVE job[u].grant # g
      BY <1>1, <2>2, CreditedMoved
    <2> QED BY <1>1, <2>1, <2>2 DEF ListsKept
  <1> QED BY <1>2, <1>3, <1>4, <1>5 DEF SInv

\* A debit adds a natural number to what its grant has moved.
LEMMA MovesTyped ==
  ASSUME SInv, NEW t \in Thread, NEW d \in Nat, pc[t] = "debit", Moves(t, d)
  PROVE  moved' \in [Grant -> Nat]
  BY AtDebit DEF Moves, SInv, Typed

LEMMA DebitAllSInv ==
  ASSUME SInv, NEW t \in Thread, DebitAll(t)
  PROVE  SInv'
  <1> USE DEF DebitAll, Goto, filesVars, history
  <1> DEFINE d == Cost[job[t].offer]
  <1>1. d \in Nat
    BY AtDebit, OfferAssumption
  <1>2. GrantsKept /\ holder' = NoThread
    BY AtDebit, LeaveKeeps DEF SInv
  <1>3. moved' \in [Grant -> Nat]
    BY <1>1, MovesTyped
  <1>4. Typed' /\ ListsKept
    BY <1>2, <1>3 DEF SInv, Typed, GrantsKept, ListsKept, Stage
  <1>5. pc'[t] = "credit" /\ \A u \in Thread \ {t} : pc'[u] = pc[u]
    BY DEF SInv, Typed
  <1>6. CallOf(t)'
    BY <1>2, <1>5, AtDebit DEF CallOf, GrantsKept, InRegistry
  <1>7. SnapshotOf(t)'
    BY <1>5 DEF SnapshotOf, Writing, InRegistry
  <1> QED BY <1>1, <1>2, <1>4, <1>5, <1>6, <1>7, DebitStep

LEMMA DebitLessSInv ==
  ASSUME SInv, NEW t \in Thread, NEW d \in Nat, DebitLess(t, d)
  PROVE  SInv'
  <1> USE DEF DebitLess, Goto, filesVars, history
  <1> DEFINE g == job[t].grant
             stage == IF d > 0 THEN "partial" ELSE "rollback"
  <1>1. moved' \in [Grant -> Nat]
    BY MovesTyped
  <1>2. /\ job'[t] = Reported(job[t], d) /\ job' = [u \in Thread |-> job'[u]]
        /\ \A u \in Thread \ {t} : job'[u] = job[u]
    BY DEF SInv, Typed
  <1>3. /\ job'[t].grant = g /\ job'[t].offer = job[t].offer
        /\ job'[t].before = job[t].before /\ job'[t].ceiling = job[t].ceiling
        /\ job'[t].reg = job[t].reg /\ job'[t].tail = job[t].tail
    BY <1>2 DEF Reported
  <1>4. pc'[t] = stage /\ \A u \in Thread \ {t} : pc'[u] = pc[u]
    BY DEF SInv, Typed
  <1>5. Typed' /\ GrantsKept /\ ListsKept
    <2>1. \A u \in Thread : job'[u].before = job[u].before /\ job'[u].ceiling = job[u].ceiling
      BY <1>2, <1>3
    <2>2. pc' \in [Thread -> Stage]
      BY DEF SInv, Typed, Stage, InRegistry
    <2> QED BY <1>1, <1>2, <2>1, <2>2 DEF SInv, Typed, GrantsKept, ListsKept
  <1>6. CallOf(t)'
    BY <1>3, <1>4, AtDebit DEF CallOf, Writing, InRegistry
  <1>7. SnapshotOf(t)'
    <2>1. /\ IsLog(job[t].reg) /\ job[t].tail \in {"whole", "bare"}
          /\ \A h \in Grant : moved[h] > 0 => h = g \/ Consumed(job[t].reg, h)
      BY DEF SInv, SnapshotOf, Writing, InRegistry
    <2>2. /\ moved'[g] = d /\ \A h \in Grant \ {g} : moved'[h] = moved[h]
      BY AtDebit DEF Moves, SInv, Typed
    <2>3. \A h \in Grant : moved'[h] > 0 => h = g \/ Consumed(job[t].reg, h)
      BY <2>1, <2>2
    <2>4. \A h : Consumed(job[t].reg, h)' <=> Consumed(job'[t].reg, h)
      BY DEF Consumed
    <2>5. stage = "partial" \/ (stage = "rollback" /\ moved'[g] = 0)
      BY <2>2
    <2>6. IsLog(job[t].reg)'
      BY <1>3, <2>1 DEF IsLog
    <2> QED BY <1>3, <1>4, <2>1, <2>3, <2>4, <2>5, <2>6 DEF SnapshotOf
  <1> QED BY <1>2, <1>4, <1>5, <1>6, <1>7, DebitStep

LEMMA DebitRaisesSInv ==
  ASSUME SInv, NEW t \in Thread, NEW d \in Nat, DebitRaises(t, d)
  PROVE  SInv'
  <1> USE DEF DebitRaises, filesVars, history
  <1>1. GrantsKept /\ holder' = NoThread
    BY AtDebit, LeaveKeeps DEF SInv
  <1>2. /\ ListsKept /\ pc' \in [Thread -> Stage] /\ job' = [u \in Thread |-> job'[u]]
        /\ pc'[t] = "idle" /\ job'[t] = NoJob
        /\ \A u \in Thread \ {t} : pc'[u] = pc[u] /\ job'[u] = job[u]
    BY ReturnKeeps DEF SInv
  <1>3. moved' \in [Grant -> Nat]
    BY MovesTyped
  <1>4. Typed'
    <2>1. \A u \in Thread : job'[u].before \in Nat /\ job'[u].ceiling \in Attested \cup {NoCeiling}
      BY <1>2 DEF SInv, Typed, NoJob, Call
    <2> QED BY <1>1, <1>2, <1>3, <2>1 DEF SInv, Typed, GrantsKept, ListsKept
  <1>5. CallOf(t)' /\ SnapshotOf(t)'
    <2>1. job'[t].grant = NoGrant
      BY <1>2 DEF NoJob, Call
    <2> QED BY <1>2, <2>1 DEF CallOf, SnapshotOf, Writing, InRegistry
  <1> QED BY <1>1, <1>2, <1>4, <1>5, DebitStep

\* The credit lists a grant whose debit is complete and which no list has.
LEMMA CreditSInv ==
  ASSUME SInv, NEW t \in Thread, Credit(t)
  PROVE  SInv'
  <1> USE DEF Credit, Goto, filesVars, history
  <1> DEFINE p == Home[t]
             g == job[t].grant
  <1>1. /\ p \in Process /\ g \in Grant /\ job[t].offer \in Offer
        /\ grants[g].offer = job[t].offer /\ moved[g] = Cost[job[t].offer]
        /\ \A q \in Process : g \notin seller[q].settlements
        /\ \A u \in Thread \ {t} : pc[u] = "credit" => job[u].grant # g
    BY HomeAssumption DEF SInv, CallOf, CreditOf
  <1>2. /\ seller'[p].settlements = seller[p].settlements \cup {g}
        /\ \A q \in Process \ {p} : seller'[q] = seller[q]
    BY <1>1 DEF SInv, Typed
  <1>3. /\ pc'[t] = "idle" /\ job'[t] = NoJob /\ job'[t].grant = NoGrant
        /\ \A u \in Thread \ {t} : pc'[u] = pc[u] /\ job'[u] = job[u]
    BY DEF SInv, Typed, NoJob, Call
  <1>4. Typed'
    <2>1. seller' \in [Process -> Receiver]
      <3>1. job[t].before + Cost[job[t].offer] \in Nat
        BY <1>1, OfferAssumption DEF SInv, Typed
      <3>2. seller[p] \in Receiver
        BY <1>1 DEF SInv, Typed
      <3>3. [lock |-> NoThread, received |-> job[t].before + Cost[job[t].offer],
             settlements |-> seller[p].settlements \cup {g}] \in Receiver
        BY <1>1, <3>1, <3>2 DEF Receiver
      <3> QED BY <3>3 DEF SInv, Typed
    <2>2. /\ job' = [u \in Thread |-> job'[u]]
          /\ \A u \in Thread : /\ job'[u].before \in Nat
                               /\ job'[u].ceiling \in Attested \cup {NoCeiling}
      BY <1>3 DEF SInv, Typed, NoJob, Call
    <2>3. pc' \in [Thread -> Stage]
      BY DEF SInv, Typed, Stage
    <2> QED BY <2>1, <2>2, <2>3 DEF SInv, Typed
  <1>5. Listed' /\ CreditBacked'
    <2>1. \A q \in Process : \A h \in seller'[q].settlements :
            (h = g /\ q = p) \/ h \in seller[q].settlements
      BY <1>2
    <2> QED BY <1>1, <1>2, <2>1 DEF SInv, Listed, CreditBacked
  <1>6. Consumption'
    BY DEF SInv, Consumption, Consumed
  <1>7. ASSUME NEW u \in Thread PROVE CallOf(u)' /\ SnapshotOf(u)' /\ CreditOf(u)'
    <2>1. CASE u = t
      BY <1>3, <2>1 DEF CallOf, SnapshotOf, CreditOf, Writing, InRegistry
    <2>2. CASE u # t
      <3>1. CallOf(u)' /\ SnapshotOf(u)'
        BY <1>3, <2>2 DEF SInv, CallOf, SnapshotOf, Consumed
      <3>2. CreditOf(u)'
        BY <1>1, <1>2, <1>3, <2>2 DEF SInv, CreditOf
      <3> QED BY <3>1, <3>2
    <2> QED BY <2>1, <2>2
  <1> QED BY <1>4, <1>5, <1>6, <1>7 DEF SInv

-----------------------------------------------------------------------------
(* The theorems *)

LEMMA ProceedSInv ==
  ASSUME SInv, NEW t \in Thread, Proceed(t)
  PROVE  SInv'
  <1>1. CASE \E o \in Offer : \E d \in 0..Cost[o] : DebitLess(t, d) \/ DebitRaises(t, d)
    <2>1. PICK o \in Offer : \E d \in 0..Cost[o] : DebitLess(t, d) \/ DebitRaises(t, d)
      BY <1>1
    <2>2. PICK d \in 0..Cost[o] : DebitLess(t, d) \/ DebitRaises(t, d)
      BY <2>1
    <2>3. d \in Nat
      BY OfferAssumption
    <2> QED BY <2>2, <2>3, DebitLessSInv, DebitRaisesSInv
  <1>2. CASE AdvanceTip(t) \/ UndoAppend(t) \/ ReplacePartial(t) \/ RollBack(t)
    BY <1>2, AdvanceTipSInv, UndoAppendSInv, ReplacePartialSInv, RollBackSInv
  <1>3. CASE DebitAll(t) \/ Credit(t)
    BY <1>3, DebitAllSInv, CreditSInv
  <1>4. CASE AdvancePartialTip(t) \/ RollBackTip(t) \/ CompactTip(t) \/ Abandon(t)
    BY <1>4, EndSInv
  <1> QED BY <1>1, <1>2, <1>3, <1>4 DEF Proceed

LEMMA NextSInv == SInv /\ [Next]_vars => SInv'
  <1> SUFFICES ASSUME SInv, [Next]_vars PROVE SInv'
    OBVIOUS
  <1>1. CASE UNCHANGED vars
    BY <1>1, UnchangedSInv DEF vars, history
  <1>2. ASSUME NEW t \in Thread, Step(t) PROVE SInv'
    <2>1. CASE \E o \in Offer, attested \in Attested, expired \in SUBSET Offer :
                 Accept(t, o, attested, expired) \/ RefuseOffer(t, o, attested, expired)
      <3>1. PICK o \in Offer, attested \in Attested, expired \in SUBSET Offer :
                   Accept(t, o, attested, expired) \/ RefuseOffer(t, o, attested, expired)
        BY <2>1
      <3>2. CASE Accept(t, o, attested, expired)
        BY <3>2, AcceptSInv
      <3>3. CASE RefuseOffer(t, o, attested, expired)
        BY <3>3, UnchangedSInv DEF RefuseOffer
      <3> QED BY <3>1, <3>2, <3>3
    <2>2. CASE \E g \in Grant : IssueGrant(t, g) \/ BeginSettle(t, g)
      BY <2>2, IssueGrantSInv, BeginSettleSInv
    <2>3. CASE \E precise \in BOOLEAN : RefuseSettle(t, precise)
      BY <2>3, RefuseSettleSInv
    <2>4. CASE \/ DenyLease(t) \/ InterruptAccept(t)
               \/ AppendObligation(t) \/ AppendFails(t) \/ Compact(t) \/ Abandon(t)
      BY <2>4, DenyLeaseSInv, InterruptAcceptSInv, AppendObligationSInv, AppendFailsSInv,
         CompactSInv, EndSInv
    <2>5. CASE Proceed(t)
      BY <2>5, ProceedSInv
    <2> QED BY <1>2, <2>1, <2>2, <2>3, <2>4, <2>5 DEF Step
  <1>3. ASSUME NEW g \in Grant, NEW o \in Offer, BuildGrant(g, o) PROVE SInv'
    BY <1>3, BuildGrantSInv
  <1>4. ASSUME NEW p \in Process, Kill(p) PROVE SInv'
    BY <1>4, KillSInv
  <1> QED BY <1>1, <1>2, <1>3, <1>4 DEF Next

\* What the registry block maintains, in every reachable state of any number
\* of processes, threads and grants.
THEOREM SettlementInvariant == Spec => []SInv
  BY InitSInv, NextSInv, PTL DEF Spec

\* No receiver lists a grant whose debit did not move the whole amount, and
\* none lists a grant another one has: settle credits after its debit.
THEOREM CreditsHaveDebits == Spec => []CreditBacked
  <1>1. SInv => CreditBacked
    BY DEF SInv
  <1> QED BY <1>1, SettlementInvariant, PTL

\* A grant that moved value never moves more: only a debit changes it, and
\* a debit needs a grant that has moved nothing.
LEMMA OnlyDebitsMove ==
  ASSUME SInv, [Next]_vars, NEW g \in Grant, moved[g] > 0
  PROVE  moved'[g] = moved[g]
  <1> SUFFICES ASSUME moved'[g] # moved[g] PROVE FALSE
    OBVIOUS
  <1>1. moved' # moved
    OBVIOUS
  <1>2. PICK t \in Thread : Proceed(t)
    <2>1. ASSUME NEW t \in Thread, Step(t) PROVE Proceed(t)
      <3>1. ~\E o \in Offer, attested \in Attested, expired \in SUBSET Offer :
               Accept(t, o, attested, expired) \/ RefuseOffer(t, o, attested, expired)
        BY <1>1 DEF Accept, RefuseOffer
      <3>2. ~\E h \in Grant : IssueGrant(t, h) \/ BeginSettle(t, h)
        BY <1>1 DEF IssueGrant, BeginSettle, history
      <3>3. ~\E precise \in BOOLEAN : RefuseSettle(t, precise)
        BY <1>1 DEF RefuseSettle, history
      <3>4. ~(\/ DenyLease(t) \/ InterruptAccept(t)
              \/ AppendObligation(t) \/ AppendFails(t) \/ Compact(t) \/ Abandon(t))
        BY <1>1 DEF DenyLease, InterruptAccept, AppendObligation, AppendFails, Compact, Abandon,
                    history
      <3> QED BY <2>1, <3>1, <3>2, <3>3, <3>4 DEF Step
    <2>2. ~\E h \in Grant, o \in Offer : BuildGrant(h, o)
      BY <1>1 DEF BuildGrant, history
    <2>3. ~\E p \in Process : Kill(p)
      BY <1>1 DEF Kill
    <2>4. ~UNCHANGED vars
      BY <1>1 DEF vars, history
    <2> QED BY <2>1, <2>2, <2>3, <2>4 DEF Next
  <1>3. pc[t] = "debit" /\ \E d \in Nat : Moves(t, d)
    <2>1. \A o \in Offer : \A d \in 0..Cost[o] : d \in Nat
      BY OfferAssumption
    <2>2. CASE DebitAll(t)
      <3>1. pc[t] = "debit" /\ Moves(t, Cost[job[t].offer])
        BY <2>2 DEF DebitAll
      <3>2. Cost[job[t].offer] \in Nat
        BY <3>1, AtDebit, OfferAssumption
      <3> QED BY <3>1, <3>2
    <2> QED BY <1>1, <1>2, <2>1, <2>2 DEF Proceed, AdvanceTip, UndoAppend, DebitLess,
            DebitRaises, ReplacePartial, AdvancePartialTip, RollBack, RollBackTip, Credit,
            CompactTip, Abandon, history
  <1>4. moved[job[t].grant] = 0
    BY <1>3, AtDebit
  <1> QED BY <1>3, <1>4 DEF Moves, SInv, Typed

\* A grant whose debit moved value is never debited again, whatever fails,
\* is killed, rolled back or compacted in between.
THEOREM GrantsDebitOnce == Spec => DebitedOnce
  <1>1. SInv /\ [Next]_vars => [\A g \in Grant : moved[g] > 0 => moved'[g] = moved[g]]_vars
    BY OnlyDebitsMove
  <1> QED BY <1>1, SettlementInvariant, PTL DEF Spec, DebitedOnce

-----------------------------------------------------------------------------
(* What the registry holds against a party *)

\* The positions of a party's entries, and the amounts at every position.
EntriesOf(s, party) == {i \in DOMAIN s : s[i].party = party}
Amounts(s) == [i \in DOMAIN s |-> s[i].amt]

LEMMA SettledNat ==
  ASSUME NEW s \in Seq(Entry), NEW party
  PROVE  /\ IsFiniteSet(EntriesOf(s, party)) /\ Settled(s, party) \in Nat
         /\ Settled(s, party) = SumFunctionOnSet(Amounts(s), EntriesOf(s, party))
         /\ DOMAIN s = 1..Len(s) /\ Len(s) \in Nat
         /\ \A i \in DOMAIN s : s[i] \in Entry /\ Amounts(s)[i] = s[i].amt /\ s[i].amt \in Nat
  <1>1. DOMAIN s = 1..Len(s) /\ Len(s) \in Nat /\ \A i \in DOMAIN s : s[i] \in Entry
    OBVIOUS
  <1>2. IsFiniteSet(EntriesOf(s, party))
    <2>1. IsFiniteSet(1..Len(s))
      BY <1>1, FS_Interval
    <2>2. EntriesOf(s, party) \subseteq 1..Len(s)
      BY <1>1 DEF EntriesOf
    <2> QED BY <2>1, <2>2, FS_Subset
  <1>3. \A i \in DOMAIN s : Amounts(s)[i] = s[i].amt /\ s[i].amt \in Nat
    BY <1>1 DEF Amounts, Entry
  <1>4. EntriesOf(s, party) \subseteq DOMAIN s
    BY DEF EntriesOf
  <1>5. Settled(s, party) = SumFunctionOnSet(Amounts(s), EntriesOf(s, party))
    BY DEF Settled, Amounts, EntriesOf
  <1>6. SumFunctionOnSet(Amounts(s), EntriesOf(s, party)) \in Nat
    BY <1>2, <1>3, <1>4, SumNat
  <1> QED BY <1>1, <1>2, <1>3, <1>5, <1>6

LEMMA SettledEmpty == \A party : <<>> \in Seq(Entry) /\ Settled(<<>>, party) = 0
  <1>1. DOMAIN <<>> = {}
    OBVIOUS
  <1>2. \A party : {i \in DOMAIN <<>> : <<>>[i].party = party} = {}
    BY <1>1
  <1> QED BY <1>2, SumEmpty DEF Settled

\* An appended entry adds its amount to its party, and nothing to others.
LEMMA SettledAppended ==
  ASSUME NEW s \in Seq(Entry), NEW e \in Entry, NEW party
  PROVE  /\ Append(s, e) \in Seq(Entry)
         /\ Settled(Append(s, e), party)
              = Settled(s, party) + (IF e.party = party THEN e.amt ELSE 0)
  <1> DEFINE z == Append(s, e)
             n == Len(s) + 1
             S == EntriesOf(s, party)
  <1>1. /\ z \in Seq(Entry) /\ Len(z) = n /\ Len(s) \in Nat
        /\ \A i \in 1..Len(s) : z[i] = s[i]
        /\ z[n] = e
    BY AppendProperties
  <1> HIDE DEF z
  <1>2. /\ DOMAIN z = DOMAIN s \cup {n} /\ n \notin DOMAIN s
        /\ \A i \in DOMAIN s : z[i] = s[i]
    BY <1>1, SettledNat
  <1>3. /\ S \subseteq DOMAIN s /\ n \notin S
        /\ EntriesOf(z, party) = IF e.party = party THEN S \cup {n} ELSE S
    BY <1>1, <1>2 DEF EntriesOf
  <1>4. SumFunctionOnSet(Amounts(z), S) = Settled(s, party)
    <2>1. \A i \in S : Amounts(z)[i] = Amounts(s)[i]
      BY <1>2, <1>3 DEF Amounts
    <2> QED BY <2>1, SumSame, SettledNat
  <1>5. \A i \in S \cup {n} : Amounts(z)[i] \in Int
    <2>1. \A i \in DOMAIN z : Amounts(z)[i] \in Nat
      BY <1>1, SettledNat
    <2> QED BY <1>2, <1>3, <2>1
  <1>6. Amounts(z)[n] = e.amt /\ e.amt \in Nat
    BY <1>1, <1>2 DEF Amounts, Entry
  <1>7. SumFunctionOnSet(Amounts(z), S \cup {n}) = e.amt + Settled(s, party)
    <2>1. IsFiniteSet(S)
      BY SettledNat
    <2>2. SumFunctionOnSet(Amounts(z), S \cup {n})
            = Amounts(z)[n] + SumFunctionOnSet(Amounts(z), S)
      <3> HIDE DEF S, n
      <3> QED BY <1>3, <1>5, <2>1, SumInsert
    <2> QED BY <1>4, <1>6, <2>2
  <1>8. Settled(z, party) = SumFunctionOnSet(Amounts(z), EntriesOf(z, party))
    BY <1>1, SettledNat
  <1>9. Settled(s, party) \in Nat
    BY SettledNat
  <1> HIDE DEF S, n
  <1>10. Settled(z, party) = Settled(s, party) + (IF e.party = party THEN e.amt ELSE 0)
    BY <1>3, <1>4, <1>6, <1>7, <1>8, <1>9
  <1> QED BY <1>1, <1>10 DEF z

\* Two registries, one after the other, add up.
LEMMA SettledConcat ==
  ASSUME NEW a \in Seq(Entry), NEW b \in Seq(Entry), NEW party
  PROVE  /\ a \o b \in Seq(Entry)
         /\ Settled(a \o b, party) = Settled(a, party) + Settled(b, party)
  <1> DEFINE z == a \o b
             A == EntriesOf(a, party)
             B == EntriesOf(b, party)
             shift == [i \in B |-> Len(a) + i]
             C == {shift[i] : i \in B}
  <1>1. /\ z \in Seq(Entry)
        /\ Len(z) = Len(a) + Len(b)
        /\ \A i \in 1..(Len(a) + Len(b)) : z[i] = IF i <= Len(a) THEN a[i] ELSE b[i - Len(a)]
    BY ConcatProperties
  <1>2. /\ Len(a) \in Nat /\ Len(b) \in Nat
        /\ DOMAIN a = 1..Len(a) /\ DOMAIN b = 1..Len(b) /\ DOMAIN z = 1..(Len(a) + Len(b))
    BY <1>1
  <1> HIDE DEF z
  <1>3. \A i \in DOMAIN a : i \in DOMAIN z /\ z[i] = a[i]
    BY <1>1, <1>2
  <1>4. \A i \in DOMAIN b : /\ Len(a) + i \in DOMAIN z /\ Len(a) + i \notin DOMAIN a
                            /\ z[Len(a) + i] = b[i]
    BY <1>1, <1>2
  <1>5. \A i \in DOMAIN z \ DOMAIN a : i - Len(a) \in DOMAIN b /\ Len(a) + (i - Len(a)) = i
    BY <1>2
  <1>6. EntriesOf(z, party) = A \cup C /\ A \cap C = {}
    <2>1. C = {Len(a) + i : i \in B}
      OBVIOUS
    <2>2. A \cap C = {}
      BY <1>4, <2>1 DEF EntriesOf
    <2>3. A \cup C \subseteq EntriesOf(z, party)
      BY <1>3, <1>4, <2>1 DEF EntriesOf
    <2>4. ASSUME NEW i \in EntriesOf(z, party) PROVE i \in A \cup C
      <3>1. CASE i \in DOMAIN a
        BY <1>3, <3>1 DEF EntriesOf
      <3>2. CASE i \notin DOMAIN a
        <4>1. i \in DOMAIN z \ DOMAIN a
          BY <3>2 DEF EntriesOf
        <4>2. i - Len(a) \in DOMAIN b /\ Len(a) + (i - Len(a)) = i
          BY <1>5, <4>1
        <4>3. b[i - Len(a)].party = party
          BY <1>4, <4>2 DEF EntriesOf
        <4> QED BY <2>1, <4>2, <4>3 DEF EntriesOf
      <3> QED BY <3>1, <3>2
    <2> QED BY <2>2, <2>3, <2>4
  <1>7. SumFunctionOnSet(Amounts(z), A) = Settled(a, party) /\ IsFiniteSet(A)
    <2>1. \A i \in A : Amounts(z)[i] = Amounts(a)[i]
      BY <1>3 DEF Amounts, EntriesOf
    <2> QED BY <2>1, SumSame, SettledNat
  <1>8. SumFunctionOnSet(Amounts(b), B) = SumFunctionOnSet(Amounts(z), C)
    <2>1. \A i \in B : Amounts(b)[i] \in Int /\ Amounts(b)[i] = Amounts(z)[shift[i]]
      <3>1. \A i \in B : i \in DOMAIN b /\ shift[i] = Len(a) + i
        BY DEF EntriesOf
      <3>2. \A i \in DOMAIN b : Amounts(b)[i] \in Nat
        BY SettledNat
      <3> QED BY <1>4, <3>1, <3>2 DEF Amounts
    <2>2. \A i, j \in B : shift[i] = shift[j] => i = j
      BY <1>2 DEF EntriesOf
    <2>3. IsFiniteSet(B)
      BY SettledNat
    <2>4. \A y : y \in C <=> \E i \in B : y = shift[i]
      OBVIOUS
    <2> HIDE DEF B, C, shift, z
    <2> QED BY <2>1, <2>2, <2>3, <2>4, SumRenamedOnto
  <1>9. IsFiniteSet(C)
    <2>1. IsFiniteSet(EntriesOf(z, party))
      BY <1>1, SettledNat
    <2> QED BY <1>6, <2>1, FS_Subset
  <1>10. \A i \in A \cup C : Amounts(z)[i] \in Int
    <2>1. \A i \in DOMAIN z : Amounts(z)[i] \in Nat
      BY <1>1, SettledNat
    <2> QED BY <1>6, <2>1 DEF EntriesOf
  <1> HIDE DEF A, C
  <1>11. SumFunctionOnSet(Amounts(z), A \cup C)
           = SumFunctionOnSet(Amounts(z), A) + SumFunctionOnSet(Amounts(z), C)
    BY <1>6, <1>7, <1>9, <1>10, SumUnion
  <1>12. /\ Settled(z, party) = SumFunctionOnSet(Amounts(z), EntriesOf(z, party))
         /\ Settled(b, party) = SumFunctionOnSet(Amounts(b), B)
    BY <1>1, SettledNat
  <1>13. Settled(z, party) = Settled(a, party) + Settled(b, party)
    BY <1>6, <1>7, <1>8, <1>11, <1>12
  <1> QED BY <1>1, <1>13 DEF z

\* One checkpoint per party holds what its entries held.
LEMMA SettledCheckpoints ==
  ASSUME NEW s \in Seq(Entry), NEW party
  PROVE  /\ Checkpoints(s) \in Seq(Entry)
         /\ Settled(Checkpoints(s), party) = Settled(s, party)
  <1> DEFINE P == {s[i].party : i \in DOMAIN s}
             n == Cardinality(P)
             order == CHOOSE f \in Bijection(1..n, P) : TRUE
             c == Checkpoints(s)
  <1>1. n \in Nat /\ order \in Bijection(1..n, P)
    <2>1. IsLog(s)
      BY DEF IsLog
    <2> QED BY <2>1, PartiesListed
  <1> HIDE DEF order
  <1>2. c = [k \in 1..n |-> Checkpoint(s, order[k])]
    BY DEF Checkpoints, order
  <1>3. /\ \A k \in 1..n : order[k] \in P
        /\ \A k, m \in 1..n : order[k] = order[m] => k = m
        /\ \A q \in P : \E k \in 1..n : order[k] = q
    <2>1. order \in [1..n -> P]
      BY <1>1 DEF Bijection, Injection
    <2>2. \A k, m \in 1..n : order[k] = order[m] => k = m
      BY <1>1 DEF Bijection, Injection, IsInjective
    <2>3. \A q \in P : \E k \in 1..n : order[k] = q
      BY <1>1 DEF Bijection, Surjection
    <2> QED BY <2>1, <2>2, <2>3
  <1> HIDE DEF n
  <1>4. ASSUME NEW q \in P
        PROVE  /\ Checkpoint(s, q) \in Entry
               /\ Checkpoint(s, q).party = q /\ Checkpoint(s, q).amt = Settled(s, q)
    <2>1. q \in Party /\ Settled(s, q) \in Nat
      BY SettledNat DEF Entry
    <2>2. UNION {s[i].gids : i \in {k \in DOMAIN s : s[k].party = q}} \in SUBSET Grant
      <3>1. \A i \in DOMAIN s : s[i].gids \subseteq Grant
        BY SettledNat DEF Entry
      <3> QED BY <3>1
    <2> QED BY <2>1, <2>2 DEF Checkpoint, Entry
  <1> HIDE DEF P
  <1>5. c \in Seq(Entry) /\ DOMAIN c = 1..n
    <2>1. c \in [1..n -> Entry]
      BY <1>2, <1>3, <1>4
    <2> QED BY <1>1, <2>1, SeqDef
  <1> HIDE DEF c
  <1>6. Settled(c, party) = Settled(s, party)
    <2>1. \A k \in 1..n : c[k].party = order[k] /\ c[k].amt = Settled(s, order[k])
      BY <1>2, <1>3, <1>4
    <2>2. Settled(c, party) = SumFunctionOnSet(Amounts(c), EntriesOf(c, party))
      BY <1>5, SettledNat
    <2>3. CASE party \in P
      <3>1. PICK k \in 1..n : order[k] = party
        BY <1>3, <2>3
      <3>2. EntriesOf(c, party) = {k}
        BY <1>3, <1>5, <2>1, <3>1 DEF EntriesOf
      <3>3. Amounts(c)[k] = Settled(s, party)
        BY <1>5, <2>1, <3>1 DEF Amounts
      <3>4. Settled(s, party) \in Int
        BY SettledNat
      <3> QED BY <2>2, <3>2, <3>3, <3>4, SumSingle
    <2>4. CASE party \notin P
      <3>1. EntriesOf(c, party) = {}
        BY <1>3, <1>5, <2>1, <2>4 DEF EntriesOf
      <3>2. EntriesOf(s, party) = {}
        BY <2>4 DEF EntriesOf, P
      <3>3. Settled(s, party) = SumFunctionOnSet(Amounts(s), EntriesOf(s, party))
        BY SettledNat
      <3> QED BY <2>2, <3>1, <3>2, <3>3, SumEmpty
    <2> QED BY <2>3, <2>4
  <1> QED BY <1>5, <1>6 DEF c

\* Compaction changes no party's total.
LEMMA SettledCompacted ==
  ASSUME NEW s \in Seq(Entry), Len(s) > 2 * KeepRecent, NEW party
  PROVE  /\ Compacted(s) \in Seq(Entry)
         /\ Settled(Compacted(s), party) = Settled(s, party)
  <1> DEFINE n == Len(s) - KeepRecent
             old == SubSeq(s, 1, n)
             new == SubSeq(s, n + 1, Len(s))
  <1>1. Len(s) \in Nat /\ KeepRecent \in Nat /\ n \in Nat /\ n < Len(s) /\ n >= 1
    BY NumberAssumption
  <1>2. old \in Seq(Entry) /\ new \in Seq(Entry) /\ old \o new = s
    <2>1. \A i \in 1..Len(s) : s[i] \in Entry
      OBVIOUS
    <2> HIDE DEF n
    <2>2. old \in Seq(Entry) /\ Len(old) = n /\ \A i \in 1..n : old[i] = s[i]
      BY <1>1, <2>1, SubSeqProperties
    <2>3. /\ new \in Seq(Entry) /\ Len(new) = Len(s) - n
          /\ \A i \in 1..(Len(s) - n) : new[i] = s[n + i]
      BY <1>1, <2>1, SubSeqProperties
    <2> HIDE DEF old, new
    <2>4. /\ old \o new \in Seq(Entry) /\ Len(old \o new) = Len(s)
          /\ \A i \in 1..Len(s) :
               (old \o new)[i] = IF i <= n THEN old[i] ELSE new[i - n]
      <3>1. Len(old) + Len(new) = Len(s)
        BY <1>1, <2>2, <2>3
      <3> QED BY <2>2, <2>3, <3>1, ConcatProperties
    <2>5. ASSUME NEW i \in 1..Len(s) PROVE (old \o new)[i] = s[i]
      <3>1. CASE i <= n
        BY <2>2, <2>4, <3>1
      <3>2. CASE ~(i <= n)
        <4>1. i - n \in 1..(Len(s) - n) /\ n + (i - n) = i
          BY <1>1, <3>2
        <4> QED BY <2>3, <2>4, <3>2, <4>1
      <3> QED BY <3>1, <3>2
    <2>6. old \o new = s
      BY <2>4, <2>5, SeqEqual
    <2> QED BY <2>2, <2>3, <2>6
  <1> HIDE DEF old, new
  <1>3. Compacted(s) = Checkpoints(old) \o new
    BY DEF Compacted, old, new, n
  <1>4. /\ Checkpoints(old) \in Seq(Entry)
        /\ Settled(Checkpoints(old), party) = Settled(old, party)
    BY <1>2, SettledCheckpoints
  <1>5. Settled(s, party) = Settled(old, party) + Settled(new, party)
    <2>1. old \in Seq(Entry) /\ new \in Seq(Entry)
      BY <1>2
    <2>2. Settled(old \o new, party) = Settled(old, party) + Settled(new, party)
      BY <2>1, SettledConcat
    <2> QED BY <1>2, <2>2
  <1>6. /\ Compacted(s) \in Seq(Entry)
        /\ Settled(Compacted(s), party) = Settled(Checkpoints(old), party) + Settled(new, party)
    BY <1>2, <1>3, <1>4, SettledConcat
  <1> QED BY <1>4, <1>5, <1>6

-----------------------------------------------------------------------------
(* What the debits of a party have moved *)

\* Value was moved only for grants handed out.
Issued == \A g \in Grant : moved[g] > 0 => grants[g].offer \in Offer

\* The grants of a party.
GrantsOf(party) == {g \in Grant : grants[g] # Unissued /\ Payer[grants[g].offer] = party}

LEMMA MovedNat ==
  ASSUME SInv, NEW party
  PROVE  /\ MovedBy(party, Grant) = SumFunctionOnSet(moved, GrantsOf(party))
         /\ MovedBy(party, Grant) \in Nat
         /\ IsFiniteSet(GrantsOf(party)) /\ GrantsOf(party) \subseteq Grant
  <1>1. GrantsOf(party) \subseteq Grant
    BY DEF GrantsOf
  <1>2. IsFiniteSet(GrantsOf(party))
    BY <1>1, FiniteAssumption, FS_Subset
  <1>3. \A g \in Grant : moved[g] \in Nat
    BY DEF SInv, Typed
  <1>4. SumFunctionOnSet(moved, GrantsOf(party)) \in Nat
    BY <1>1, <1>2, <1>3, SumNat
  <1> QED BY <1>1, <1>2, <1>4 DEF MovedBy, GrantsOf

\* A step after which grants are what they were, or newly handed out, counts
\* for a party what it counted before and what one grant has moved since.
LEMMA MovedStep ==
  ASSUME SInv, Issued, GrantsKept, moved' \in [Grant -> Nat],
         NEW g \in Grant, grants[g].offer \in Offer,
         \A h \in Grant \ {g} : moved'[h] = moved[h], NEW party
  PROVE  MovedBy(party, Grant)' = MovedBy(party, Grant)
           + (IF Payer[grants[g].offer] = party THEN moved'[g] - moved[g] ELSE 0)
  <1> DEFINE S == GrantsOf(party)
             N == {h \in Grant : grants'[h] # Unissued /\ Payer[grants'[h].offer] = party}
  <1>1. MovedBy(party, Grant)' = SumFunctionOnSet(moved', N)
    BY DEF MovedBy
  <1>2. /\ IsFiniteSet(N) /\ IsFiniteSet(S) /\ N \subseteq Grant /\ S \subseteq Grant
        /\ \A h \in Grant : moved[h] \in Int /\ moved'[h] \in Int
    <2>1. N \subseteq Grant /\ IsFiniteSet(N)
      BY FiniteAssumption, FS_Subset
    <2> QED BY <2>1, MovedNat DEF SInv, Typed
  <1>3. \A h \in Grant : grants[h].offer \in Offer =>
          /\ grants[h] # Unissued /\ grants'[h] # Unissued
          /\ grants'[h].offer = grants[h].offer
    BY NoneAssumption DEF GrantsKept, Unissued
  <1>4. \A h \in Grant : grants[h] # Unissued => grants[h].offer \in Offer
    BY DEF SInv, Typed
  <1>5. S \subseteq N
    BY <1>3, <1>4 DEF GrantsOf
  <1>6. \A h \in N \ S : moved'[h] = 0
    <2> SUFFICES ASSUME NEW h \in N \ S PROVE moved'[h] = 0
      OBVIOUS
    <2>1. grants[h].offer \notin Offer
      BY <1>3 DEF GrantsOf
    <2>2. h # g /\ moved[h] \in Nat
      BY <2>1 DEF SInv, Typed
    <2> QED BY <2>1, <2>2 DEF Issued
  <1>7. g \in S <=> Payer[grants[g].offer] = party
    BY <1>3 DEF GrantsOf
  <1> HIDE DEF S, N
  <1>8. SumFunctionOnSet(moved', N) = SumFunctionOnSet(moved', S)
    BY <1>2, <1>5, <1>6, SumOfNonzero
  <1>9. SumFunctionOnSet(moved', S)
          = SumFunctionOnSet(moved, S) + (IF g \in S THEN moved'[g] - moved[g] ELSE 0)
    <2>0. SumFunctionOnSet(moved, S) \in Int /\ moved[g] \in Int /\ moved'[g] \in Int
      BY <1>2, SumInt
    <2>1. CASE g \in S
      <3>1. \A h \in S \ {g} : moved[h] = moved'[h]
        BY <1>2
      <3>2. SumFunctionOnSet(moved', S) = SumFunctionOnSet(moved, S) - moved[g] + moved'[g]
        BY <1>2, <2>1, <3>1, SumChanged
      <3> QED BY <2>0, <2>1, <3>2
    <2>2. CASE g \notin S
      <3>1. \A h \in S : moved'[h] = moved[h]
        BY <1>2, <2>2
      <3>2. SumFunctionOnSet(moved', S) = SumFunctionOnSet(moved, S)
        BY <1>2, <3>1, SumSame
      <3> QED BY <2>0, <2>2, <3>2
    <2> QED BY <2>1, <2>2
  <1>10. MovedBy(party, Grant) = SumFunctionOnSet(moved, S)
    BY MovedNat DEF S
  <1> QED BY <1>1, <1>7, <1>8, <1>9, <1>10

LEMMA MovedKept ==
  ASSUME SInv, Issued, GrantsKept, UNCHANGED moved, NEW party
  PROVE  MovedBy(party, Grant)' = MovedBy(party, Grant)
  <1>1. CASE \E g \in Grant : grants[g].offer \in Offer
    <2>1. PICK g \in Grant : grants[g].offer \in Offer
      BY <1>1
    <2>2. MovedBy(party, Grant)' = MovedBy(party, Grant)
            + (IF Payer[grants[g].offer] = party THEN moved'[g] - moved[g] ELSE 0)
      <3>1. moved' \in [Grant -> Nat] /\ \A h \in Grant \ {g} : moved'[h] = moved[h]
        BY DEF SInv, Typed
      <3> QED BY <2>1, <3>1, MovedStep
    <2>3. moved'[g] - moved[g] = 0
      BY DEF SInv, Typed
    <2>4. MovedBy(party, Grant) \in Nat
      BY MovedNat
    <2> QED BY <2>2, <2>3, <2>4
  <1>2. CASE ~\E g \in Grant : grants[g].offer \in Offer
    <2> DEFINE N == {h \in Grant : grants'[h] # Unissued /\ Payer[grants'[h].offer] = party}
    <2>1. \A h \in Grant : moved'[h] = 0
      BY <1>2 DEF Issued, SInv, Typed
    <2>2. IsFiniteSet(N) /\ N \subseteq Grant
      BY FiniteAssumption, FS_Subset
    <2>3. GrantsOf(party) \subseteq N
      BY <1>2 DEF GrantsOf, SInv, Typed
    <2>4. MovedBy(party, Grant)' = SumFunctionOnSet(moved', N)
      BY DEF MovedBy
    <2>5. MovedBy(party, Grant) = SumFunctionOnSet(moved', GrantsOf(party))
      BY MovedNat
    <2> HIDE DEF N
    <2> QED BY <2>1, <2>2, <2>3, <2>4, <2>5, SumOfNonzero
  <1> QED BY <1>1, <1>2

-----------------------------------------------------------------------------
(* The invariant of the amounts *)

\* What a party's debits have moved is in a registry's total for it.
Backed(s) == \A party \in Party : MovedBy(party, Grant) <= Settled(s, party)

\* The stages at which a settlement may put its snapshot back or build on it.
Restoring == {"appended", "debit", "partial", "rollback"}

\* The snapshot holds what was moved; before its debit the settlement's own
\* entry is on top of it and fits the ceiling; a short debit is in the entry
\* that will replace it.
SumsOf(t) ==
  /\ pc[t] \in Restoring => job[t].reg \in Seq(Entry)
  /\ pc[t] \in {"appended", "debit", "rollback"} => Backed(job[t].reg)
  /\ pc[t] \in {"appended", "debit"} =>
       /\ tail = "torn" \/ reg = Append(job[t].reg, ObligationOf(t))
       /\ \/ job[t].ceiling = NoCeiling
          \/ MovedBy(Payer[job[t].offer], Grant) + Cost[job[t].offer] <= job[t].ceiling
  /\ pc[t] = "partial" =>
       /\ job[t].debited \in Nat
       /\ Backed(Append(job[t].reg, Obligation(job[t].offer, job[t].grant, job[t].debited)))

AmountsInv ==
  /\ reg \in Seq(Entry)
  /\ Issued /\ ObligationCovers /\ WithinAttested
  /\ \A t \in Thread : SumsOf(t)

LEMMA InitAmounts == Init => AmountsInv
  <1> SUFFICES ASSUME Init PROVE AmountsInv
    OBVIOUS
  <1> USE DEF Init
  <1>1. \A party \in Party : MovedBy(party, Grant) = 0
    <2> SUFFICES ASSUME NEW party \in Party PROVE MovedBy(party, Grant) = 0
      OBVIOUS
    <2>1. GrantsOf(party) = {}
      BY DEF GrantsOf
    <2> QED BY <2>1, SumEmpty DEF MovedBy, GrantsOf
  <1>2. ObligationCovers
    BY <1>1, SettledEmpty DEF ObligationCovers
  <1>3. Issued /\ WithinAttested
    BY DEF Issued, WithinAttested
  <1>4. \A t \in Thread : SumsOf(t)
    BY DEF SumsOf, Restoring
  <1> QED BY <1>2, <1>3, <1>4, SettledEmpty DEF AmountsInv

\* The grants with a ceiling that paid for a party.
Paid(party) == {g \in Grant : /\ grants[g].ceiling # NoCeiling
                              /\ moved[g] > 0
                              /\ Payer[grants[g].offer] = party}

\* Without a debit nothing changes for them.
LEMMA AttestedKept ==
  ASSUME SInv, Issued, WithinAttested, GrantsKept, UNCHANGED moved
  PROVE  Issued' /\ WithinAttested'
  <1>1. \A g \in Grant : moved[g] > 0 => /\ grants[g].offer \in Offer
                                         /\ grants'[g].offer = grants[g].offer
                                         /\ grants'[g].ceiling = grants[g].ceiling
                                         /\ grants[g] # Unissued /\ grants'[g] # Unissued
    BY NoneAssumption DEF Issued, GrantsKept, Unissued
  <1>2. Issued'
    BY <1>1 DEF Issued
  <1> SUFFICES ASSUME NEW party \in Party,
                      NEW g \in {h \in Grant : /\ grants'[h].ceiling # NoCeiling
                                               /\ moved'[h] > 0
                                               /\ Payer[grants'[h].offer] = party},
                      \A h \in {h \in Grant : /\ grants'[h].ceiling # NoCeiling
                                              /\ moved'[h] > 0
                                              /\ Payer[grants'[h].offer] = party} :
                        grants'[h].ceiling <= grants'[g].ceiling
               PROVE  SumFunctionOnSet(moved',
                        {h \in {h \in Grant : /\ grants'[h].ceiling # NoCeiling
                                              /\ moved'[h] > 0
                                              /\ Payer[grants'[h].offer] = party} :
                           grants'[h] # Unissued /\ Payer[grants'[h].offer] = party})
                        <= grants'[g].ceiling
    BY <1>2 DEF WithinAttested, MovedBy
  <1> DEFINE P == Paid(party)
  <1>3. {h \in Grant : /\ grants'[h].ceiling # NoCeiling /\ moved'[h] > 0
                       /\ Payer[grants'[h].offer] = party} = P
    BY <1>1 DEF Paid
  <1>4. {h \in P : grants'[h] # Unissued /\ Payer[grants'[h].offer] = party} = P
    BY <1>1 DEF Paid
  <1>5. {h \in P : grants[h] # Unissued /\ Payer[grants[h].offer] = party} = P
    BY <1>1 DEF Paid
  <1>6. g \in P /\ \A h \in P : grants[h].ceiling <= grants[g].ceiling
    BY <1>1, <1>3 DEF Paid
  <1>7. MovedBy(party, P) <= grants[g].ceiling
    BY <1>6 DEF WithinAttested, Paid
  <1>8. MovedBy(party, P) = SumFunctionOnSet(moved, P)
    BY <1>5 DEF MovedBy
  <1>9. grants'[g].ceiling = grants[g].ceiling
    BY <1>1, <1>6 DEF Paid
  <1> QED BY <1>3, <1>4, <1>7, <1>8, <1>9

\* An obligation is an entry, and adding one keeps what is backed.
LEMMA ObligationEntry ==
  ASSUME NEW o \in Offer, NEW g \in Grant, NEW amount \in Nat
  PROVE  /\ Obligation(o, g, amount) \in Entry
         /\ Obligation(o, g, amount).party = Payer[o]
         /\ Obligation(o, g, amount).amt = amount
         /\ Payer[o] \in Party /\ Cost[o] \in Nat
  BY OfferAssumption DEF Obligation, Entry

LEMMA BackedAppended ==
  ASSUME SInv, NEW s \in Seq(Entry), NEW e \in Entry, Backed(s)
  PROVE  Append(s, e) \in Seq(Entry) /\ Backed(Append(s, e))
  <1>1. ASSUME NEW party \in Party PROVE MovedBy(party, Grant) <= Settled(Append(s, e), party)
    <2>1. Settled(Append(s, e), party) = Settled(s, party) + (IF e.party = party THEN e.amt ELSE 0)
      BY SettledAppended
    <2>2. MovedBy(party, Grant) <= Settled(s, party)
      BY DEF Backed
    <2>3. MovedBy(party, Grant) \in Nat /\ Settled(s, party) \in Nat /\ e.amt \in Nat
      BY MovedNat, SettledNat DEF Entry
    <2> QED BY <2>1, <2>2, <2>3
  <1> QED BY <1>1, SettledAppended DEF Backed

\* A thread that is at such a stage was there, or one before, with this snapshot.
Carried(u) ==
  pc'[u] \in Restoring =>
    /\ pc'[u] = pc[u] \/ (pc[u] = "appended" /\ pc'[u] = "debit")
    /\ job'[u] = job[u]
    /\ UNCHANGED <<reg, tail>>

\* A step that debits nothing and takes no snapshot.
LEMMA CarriedSums ==
  ASSUME SInv, AmountsInv, GrantsKept, UNCHANGED moved,
         reg' \in Seq(Entry), tail' = "torn" \/ Backed(reg'),
         \A u \in Thread : Carried(u)
  PROVE  AmountsInv'
  <1> USE DEF AmountsInv
  <1>1. \A party : MovedBy(party, Grant)' = MovedBy(party, Grant)
    BY MovedKept
  <1>2. Issued' /\ WithinAttested'
    BY AttestedKept
  <1>3. ObligationCovers'
    <2>1. \A party : Settled(reg, party)' = Settled(reg', party)
      BY DEF Settled
    <2> QED BY <1>1, <2>1 DEF ObligationCovers, Backed
  <1>4. ASSUME NEW u \in Thread PROVE SumsOf(u)'
    <2> SUFFICES ASSUME pc'[u] \in Restoring PROVE SumsOf(u)'
      BY DEF SumsOf, Restoring
    <2>1. /\ pc'[u] = pc[u] \/ (pc[u] = "appended" /\ pc'[u] = "debit")
          /\ job'[u] = job[u] /\ reg' = reg /\ tail' = tail /\ pc[u] \in Restoring
      BY DEF Carried, Restoring
    <2>2. \A s : Backed(s) <=> \A party \in Party : MovedBy(party, Grant)' <= Settled(s, party)
      BY <1>1 DEF Backed
    <2>3. Backed(job[u].reg)'
            <=> \A party \in Party : MovedBy(party, Grant)' <= Settled(job'[u].reg, party)
      BY DEF Backed, Settled
    <2>4. Backed(Append(job[u].reg, Obligation(job[u].offer, job[u].grant, job[u].debited)))'
            <=> \A party \in Party : MovedBy(party, Grant)' <= Settled(Append(job'[u].reg,
                   Obligation(job'[u].offer, job'[u].grant, job'[u].debited)), party)
      BY DEF Backed, Settled, Obligation
    <2>5. SumsOf(u)
      OBVIOUS
    <2>6. /\ Backed(job[u].reg)' <=> Backed(job[u].reg)
          /\ Backed(Append(job[u].reg, Obligation(job[u].offer, job[u].grant, job[u].debited)))'
               <=> Backed(Append(job[u].reg,
                     Obligation(job[u].offer, job[u].grant, job[u].debited)))
      BY <2>1, <2>2, <2>3, <2>4
    <2>7. ObligationOf(u)' = ObligationOf(u)
      BY <2>1 DEF ObligationOf, Obligation
    <2>8. MovedBy(Payer[job[u].offer], Grant)' = MovedBy(Payer[job[u].offer], Grant)
      BY <1>1, <2>1
    <2> QED BY <2>1, <2>5, <2>6, <2>7, <2>8 DEF SumsOf, Restoring
  <1> QED BY <1>2, <1>3, <1>4

\* Steps that write nothing to the registry.
LEMMA QuietSums ==
  ASSUME SInv, AmountsInv, GrantsKept, UNCHANGED <<reg, tail, moved>>,
         \A u \in Thread : Carried(u)
  PROVE  AmountsInv'
  <1>1. reg' \in Seq(Entry) /\ (tail' = "torn" \/ Backed(reg'))
    BY DEF AmountsInv, ObligationCovers, Backed
  <1> QED BY <1>1, CarriedSums

\* A thread that returns restores nothing any more; others go on if the
\* registry is not theirs to lose.
LEMMA ReturnCarries ==
  ASSUME SInv, NEW t \in Thread, Return(t),
         UNCHANGED <<reg, tail>> \/ holder \in {t, NoThread}
  PROVE  \A u \in Thread : Carried(u)
  <1>1. pc'[t] = "idle" /\ \A u \in Thread \ {t} : pc'[u] = pc[u] /\ job'[u] = job[u]
    BY ReturnKeeps DEF SInv
  <1>2. Carried(t)
    BY <1>1 DEF Carried, Restoring
  <1>3. ASSUME NEW u \in Thread \ {t} PROVE Carried(u)
    <2>1. pc[u] \in Restoring => holder = u
      BY DEF SInv, CallOf, InRegistry, Restoring
    <2>2. u # NoThread
      BY NoneAssumption
    <2> QED BY <1>1, <2>1, <2>2 DEF Carried
  <1> QED BY <1>2, <1>3

\* A thread that goes on inside the registry block, with its call unchanged.
LEMMA StageCarries ==
  ASSUME SInv, NEW t \in Thread, NEW s, Goto(t, s), UNCHANGED job,
         s \notin Restoring \/ (s = "debit" /\ pc[t] = "appended" /\ UNCHANGED <<reg, tail>>),
         UNCHANGED <<reg, tail>> \/ holder \in {t, NoThread}
  PROVE  \A u \in Thread : Carried(u)
  <1>1. pc'[t] = s /\ \A u \in Thread \ {t} : pc'[u] = pc[u]
    BY DEF Goto, SInv, Typed
  <1>2. Carried(t)
    BY <1>1 DEF Carried
  <1>3. ASSUME NEW u \in Thread \ {t} PROVE Carried(u)
    <2>1. pc[u] \in Restoring => holder = u
      BY DEF SInv, CallOf, InRegistry, Restoring
    <2>2. u # NoThread
      BY NoneAssumption
    <2> QED BY <1>1, <2>1, <2>2 DEF Carried
  <1> QED BY <1>2, <1>3

\* The steps that write no entry and debit nothing.
Quiet(t) ==
  \/ \E o \in Offer, attested \in Attested, expired \in SUBSET Offer :
       Accept(t, o, attested, expired) \/ RefuseOffer(t, o, attested, expired)
  \/ \E g \in Grant : IssueGrant(t, g) \/ BeginSettle(t, g)
  \/ \E precise \in BOOLEAN : RefuseSettle(t, precise)
  \/ DenyLease(t) \/ InterruptAccept(t) \/ Abandon(t) \/ AdvanceTip(t) \/ Credit(t)
  \/ AdvancePartialTip(t) \/ RollBackTip(t) \/ CompactTip(t)
QuietStep ==
  \/ \E t \in Thread : Quiet(t)
  \/ \E p \in Process : Kill(p)
  \/ \E g \in Grant, o \in Offer : BuildGrant(g, o)
  \/ UNCHANGED vars

LEMMA QuietEffect ==
  ASSUME SInv, QuietStep
  PROVE  UNCHANGED <<reg, tail, moved>> /\ GrantsKept /\ \A u \in Thread : Carried(u)
  <1> DEFINE Effect == /\ UNCHANGED <<reg, tail, moved>> /\ GrantsKept
                       /\ \A u \in Thread : Carried(u)
  <1>1. ASSUME NEW t \in Thread, Quiet(t) PROVE Effect
    <2>1. ASSUME NEW o \in Offer, NEW attested \in Attested, NEW expired,
                 Accept(t, o, attested, expired) \/ RefuseOffer(t, o, attested, expired)
          PROVE  Effect
      <3>1. UNCHANGED <<reg, tail, moved>> /\ GrantsKept
        BY <2>1 DEF Accept, RefuseOffer, filesVars, history, GrantsKept, SInv, Typed
      <3>2. \A u \in Thread : Carried(u)
        BY <2>1 DEF Accept, RefuseOffer, filesVars, history, Goto, Carried, Restoring, SInv, Typed
      <3> QED BY <3>1, <3>2
    <2>2. ASSUME NEW g \in Grant, IssueGrant(t, g) PROVE Effect
      <3>1. UNCHANGED <<reg, tail, moved>> /\ Return(t)
        BY <2>2 DEF IssueGrant, filesVars, history
      <3> QED BY <2>2, <3>1, IssueKeeps, ReturnCarries
    <2>3. ASSUME NEW g \in Grant, BeginSettle(t, g) PROVE Effect
      <3>1. UNCHANGED <<reg, tail, moved>> /\ GrantsKept
        BY <2>3 DEF BeginSettle, filesVars, history, GrantsKept, SInv, Typed
      <3>2. \A u \in Thread : Carried(u)
        BY <2>3 DEF BeginSettle, filesVars, history, Goto, Carried, Restoring, SInv, Typed
      <3> QED BY <3>1, <3>2
    <2>4. ASSUME NEW precise, RefuseSettle(t, precise) PROVE Effect
      <3>1. UNCHANGED <<reg, tail, moved>> /\ Return(t) /\ job[t].grant \in Grant
        BY <2>4 DEF RefuseSettle, filesVars, history, SInv, CallOf
      <3>2. GrantsKept
        BY <2>4, <3>1, ReleaseKeeps DEF RefuseSettle, SInv
      <3> QED BY <3>1, <3>2, ReturnCarries
    <2>5. CASE DenyLease(t) \/ InterruptAccept(t)
      <3>1. UNCHANGED <<reg, tail, moved>> /\ Return(t) /\ GrantsKept
        BY <2>5 DEF DenyLease, InterruptAccept, filesVars, history, GrantsKept, SInv, Typed
      <3> QED BY <3>1, ReturnCarries
    <2>6. CASE AdvancePartialTip(t) \/ RollBackTip(t) \/ CompactTip(t) \/ Abandon(t)
      <3>1. LeaveRegistry(t) /\ Return(t) /\ UNCHANGED <<reg, tail, moved>>
        BY <2>6 DEF AdvancePartialTip, RollBackTip, CompactTip, Abandon, filesVars, history
      <3> QED BY <3>1, LeaveKeeps, ReturnCarries DEF SInv
    <2>7. CASE AdvanceTip(t)
      <3>1. UNCHANGED <<reg, tail, moved, job>> /\ GrantsKept /\ Goto(t, "debit")
        BY <2>7 DEF AdvanceTip, GrantsKept, SInv, Typed, history
      <3> QED BY <2>7, <3>1, StageCarries DEF AdvanceTip
    <2>8. CASE Credit(t)
      <3>1. UNCHANGED <<reg, tail, moved>> /\ GrantsKept
        BY <2>8 DEF Credit, filesVars, history, GrantsKept, SInv, Typed
      <3>2. \A u \in Thread : Carried(u)
        BY <2>8 DEF Credit, filesVars, history, Goto, Carried, Restoring, SInv, Typed
      <3> QED BY <3>1, <3>2
    <2> QED BY <1>1, <2>1, <2>2, <2>3, <2>4, <2>5, <2>6, <2>7, <2>8 DEF Quiet
  <1>2. ASSUME NEW p \in Process, Kill(p) PROVE Effect
    <2>1. UNCHANGED <<reg, tail, moved>>
      BY <1>2 DEF Kill, filesVars, history
    <2>2. \A u \in Thread : Carried(u)
      BY <1>2 DEF Kill, filesVars, history, Carried, Restoring
    <2> QED BY <1>2, <2>1, <2>2, KillKeeps
  <1>3. ASSUME NEW g \in Grant, NEW o \in Offer, BuildGrant(g, o) PROVE Effect
    <2>1. UNCHANGED <<reg, tail, moved>> /\ \A u \in Thread : Carried(u)
      BY <1>3 DEF BuildGrant, filesVars, history, Carried
    <2> QED BY <1>3, <2>1, BuildKeeps
  <1>4. ASSUME UNCHANGED vars PROVE Effect
    BY <1>4 DEF vars, filesVars, history, Carried, GrantsKept, SInv, Typed
  <1> QED BY <1>1, <1>2, <1>3, <1>4 DEF QuietStep

\* The steps that write entries without a debit, but for the append that goes on.
Rewrites(t) == UndoAppend(t) \/ RollBack(t) \/ ReplacePartial(t) \/ Compact(t) \/ AppendFails(t)

LEMMA RewriteEffect ==
  ASSUME SInv, NEW t \in Thread, Rewrites(t)
  PROVE  UNCHANGED moved /\ GrantsKept /\ \A u \in Thread : Carried(u)
  <1>1. CASE UndoAppend(t)
    <2>1. holder = t /\ UNCHANGED moved /\ LeaveRegistry(t) /\ Return(t)
      BY <1>1 DEF UndoAppend, SInv, CallOf, InRegistry
    <2> QED BY <2>1, LeaveKeeps, ReturnCarries DEF SInv
  <1>2. CASE RollBack(t) \/ ReplacePartial(t) \/ Compact(t)
    <2>1. UNCHANGED <<grants, moved, job>> /\ holder \in {t, NoThread}
      BY <1>2 DEF RollBack, ReplacePartial, Compact, SInv, CallOf, InRegistry, history
    <2>2. GrantsKept
      BY <2>1 DEF GrantsKept, SInv, Typed
    <2>3. Goto(t, "rollbackTip") \/ Goto(t, "partialTip") \/ Goto(t, "compactTip")
      BY <1>2 DEF RollBack, ReplacePartial, Compact
    <2> QED BY <2>1, <2>2, <2>3, StageCarries DEF Restoring
  <1>3. CASE AppendFails(t)
    <2>1. /\ Return(t) /\ ReleaseReservation(t, job[t].grant) /\ holder = NoThread
          /\ UNCHANGED moved /\ job[t].grant \in Grant
      BY <1>3 DEF AppendFails, SInv, CallOf
    <2> QED BY <2>1, ReleaseKeeps, ReturnCarries DEF SInv
  <1> QED BY <1>1, <1>2, <1>3 DEF Rewrites

\* The debit moves d, for the whole amount, for less, or raising.
Debits(t, d) ==
  /\ d \in Nat /\ d <= Cost[job[t].offer]
  /\ (DebitAll(t) /\ d = Cost[job[t].offer]) \/ DebitLess(t, d) \/ DebitRaises(t, d)

LEMMA StepsSplit ==
  ASSUME SInv, [Next]_vars
  PROVE  \/ QuietStep
         \/ \E t \in Thread : Rewrites(t) \/ AppendObligation(t) \/ \E d \in Nat : Debits(t, d)
  <1>1. ASSUME NEW t \in Thread, Proceed(t)
        PROVE  Quiet(t) \/ Rewrites(t) \/ \E d \in Nat : Debits(t, d)
    <2>1. CASE \E o \in Offer : \E d \in 0..Cost[o] : DebitLess(t, d) \/ DebitRaises(t, d)
      <3>1. PICK o \in Offer : \E d \in 0..Cost[o] : DebitLess(t, d) \/ DebitRaises(t, d)
        BY <2>1
      <3>2. PICK d \in 0..Cost[o] : DebitLess(t, d) \/ DebitRaises(t, d)
        BY <3>1
      <3>3. d \in Nat /\ pc[t] = "debit"
        BY <3>2, OfferAssumption DEF DebitLess, DebitRaises
      <3>4. d <= Cost[job[t].offer]
        <4>1. job[t].offer \in Offer
          BY <3>3, AtDebit
        <4> QED BY <3>2, <3>3, <4>1, OfferAssumption DEF DebitLess, DebitRaises
      <3> QED BY <3>2, <3>3, <3>4 DEF Debits
    <2>2. CASE DebitAll(t)
      <3>1. Cost[job[t].offer] \in Nat
        <4>1. job[t].offer \in Offer
          BY <2>2, AtDebit DEF DebitAll
        <4> QED BY <4>1, OfferAssumption
      <3> QED BY <2>2, <3>1 DEF Debits
    <2> QED BY <1>1, <2>1, <2>2 DEF Proceed, Quiet, Rewrites
  <1>2. ASSUME NEW t \in Thread, Step(t)
        PROVE  \/ Quiet(t) \/ Rewrites(t) \/ AppendObligation(t)
               \/ \E d \in Nat : Debits(t, d)
    BY <1>1, <1>2 DEF Step, Quiet, Rewrites
  <1> QED BY <1>2 DEF Next, QuietStep

\* Before its append an obligation is an entry, and the registry with and
\* without it holds what was moved.
LEMMA BeforeAppend ==
  ASSUME SInv, AmountsInv, NEW t \in Thread, AppendObligation(t) \/ AppendFails(t)
  PROVE  /\ job[t].grant \in Grant /\ job[t].offer \in Offer /\ holder = NoThread
         /\ UNCHANGED moved /\ tail # "torn" /\ CeilingHolds(t)
         /\ job[t].ceiling \in Attested \cup {NoCeiling}
         /\ Payer[job[t].offer] \in Party /\ Cost[job[t].offer] \in Nat
         /\ ObligationOf(t) \in Entry
         /\ reg \in Seq(Entry) /\ Backed(reg)
         /\ Append(reg, ObligationOf(t)) \in Seq(Entry) /\ Backed(Append(reg, ObligationOf(t)))
  <1>1. /\ job[t].grant \in Grant /\ job[t].offer \in Offer /\ holder = NoThread
        /\ UNCHANGED moved /\ tail # "torn" /\ CeilingHolds(t)
        /\ job[t].ceiling \in Attested \cup {NoCeiling}
    BY DEF AppendObligation, AppendFails, SInv, CallOf, Recordable, Typed, history
  <1>2. /\ ObligationOf(t) \in Entry
        /\ Payer[job[t].offer] \in Party /\ Cost[job[t].offer] \in Nat
    BY <1>1, ObligationEntry, OfferAssumption DEF ObligationOf
  <1>3. reg \in Seq(Entry) /\ Backed(reg)
    BY <1>1 DEF AmountsInv, ObligationCovers, Backed
  <1> QED BY <1>1, <1>2, <1>3, BackedAppended

\* The append of an obligation.
LEMMA AppendSums ==
  ASSUME SInv, AmountsInv, NEW t \in Thread, AppendObligation(t)
  PROVE  AmountsInv'
  <1> DEFINE o == job[t].offer
             g == job[t].grant
             z == Append(reg, ObligationOf(t))
  <1>1. /\ g \in Grant /\ o \in Offer /\ holder = NoThread /\ UNCHANGED moved
        /\ tail # "torn" /\ CeilingHolds(t) /\ job[t].ceiling \in Attested \cup {NoCeiling}
    BY BeforeAppend
  <1>2. Payer[o] \in Party /\ Cost[o] \in Nat
    BY BeforeAppend
  <1>3. reg \in Seq(Entry) /\ Backed(reg)
    BY BeforeAppend
  <1>4. z \in Seq(Entry) /\ Backed(z)
    BY BeforeAppend
  <1> HIDE DEF z
  <1>5. /\ job'[t] = Snapshot(job[t]) /\ pc'[t] = "appended"
        /\ \A u \in Thread \ {t} : job'[u] = job[u] /\ pc'[u] = pc[u]
        /\ (tail' = "torn" /\ reg' = reg) \/ (tail' = tail /\ reg' = z)
        /\ UNCHANGED <<grants, moved>>
    BY DEF AppendObligation, SInv, Typed, Goto, z, history
  <1>6. GrantsKept
    BY <1>5 DEF GrantsKept, SInv, Typed
  <1>7. reg' \in Seq(Entry) /\ (tail' = "torn" \/ Backed(reg'))
    BY <1>3, <1>4, <1>5
  <1>8. \A party : MovedBy(party, Grant)' = MovedBy(party, Grant)
    BY <1>5, <1>6, MovedKept DEF AmountsInv
  <1>9. Issued' /\ WithinAttested'
    BY <1>5, <1>6, AttestedKept DEF AmountsInv
  <1>10. ObligationCovers'
    <2>1. \A party : Settled(reg, party)' = Settled(reg', party)
      BY DEF Settled
    <2> QED BY <1>7, <1>8, <2>1 DEF ObligationCovers, Backed
  <1>11. ASSUME NEW u \in Thread \ {t} PROVE SumsOf(u)'
    <2>1. pc[u] \notin Restoring
      BY <1>1, NoneAssumption DEF SInv, CallOf, InRegistry, Restoring
    <2> QED BY <1>5, <2>1 DEF SumsOf, Restoring
  <1>12. SumsOf(t)'
    <2>1. /\ job'[t].reg = reg /\ job'[t].offer = o /\ job'[t].grant = g
          /\ job'[t].ceiling = job[t].ceiling
      BY <1>5 DEF Snapshot
    <2>2. Backed(job[t].reg)'
      <3>1. ASSUME NEW party PROVE Settled(job[t].reg, party)' = Settled(reg, party)
        <4>1. Settled(job[t].reg, party)' = Settled(job'[t].reg, party)
          BY DEF Settled
        <4> QED BY <2>1, <4>1
      <3>2. \A party \in Party : MovedBy(party, Grant) <= Settled(reg, party)
        BY <1>3 DEF Backed
      <3>3. \A party \in Party : MovedBy(party, Grant)' <= Settled(job[t].reg, party)'
        BY <1>8, <3>1, <3>2
      <3> QED BY <3>3 DEF Backed
    <2>3. ObligationOf(t)' = ObligationOf(t)
      BY <2>1 DEF ObligationOf, Obligation
    <2>4. ASSUME job[t].ceiling # NoCeiling
          PROVE  MovedBy(Payer[o], Grant) + Cost[o] <= job[t].ceiling
      <3>1. Settled(reg, Payer[o]) + Cost[o] <= job[t].ceiling
        BY <1>1, <2>4 DEF CeilingHolds
      <3>2. MovedBy(Payer[o], Grant) <= Settled(reg, Payer[o])
        BY <1>2, <1>3 DEF Backed
      <3>3. /\ MovedBy(Payer[o], Grant) \in Nat /\ Settled(reg, Payer[o]) \in Nat
            /\ job[t].ceiling \in Nat
        BY <1>1, <1>3, <2>4, MovedNat, SettledNat, NumberAssumption
      <3> QED BY <1>2, <3>1, <3>2, <3>3
    <2>5. MovedBy(Payer[job[t].offer], Grant)' = MovedBy(Payer[o], Grant)
      BY <1>8, <2>1
    <2> QED BY <1>3, <1>5, <2>1, <2>2, <2>3, <2>4, <2>5 DEF SumsOf, Restoring, z
  <1> QED BY <1>7, <1>9, <1>10, <1>11, <1>12 DEF AmountsInv

\* Putting the snapshot back, building on it after a short debit, compacting,
\* and an append that fails after any part of its line.
LEMMA RewriteSums ==
  ASSUME SInv, AmountsInv, NEW t \in Thread, Rewrites(t)
  PROVE  reg' \in Seq(Entry) /\ (tail' = "torn" \/ Backed(reg'))
  <1>1. CASE UndoAppend(t) \/ RollBack(t)
    <2>1. pc[t] \in {"appended", "rollback"} /\ reg' = job[t].reg
      BY <1>1 DEF UndoAppend, RollBack
    <2> QED BY <2>1 DEF AmountsInv, SumsOf, Restoring
  <1>2. CASE ReplacePartial(t)
    <2> DEFINE e == Obligation(job[t].offer, job[t].grant, job[t].debited)
    <2>1. pc[t] = "partial" /\ reg' = Append(job[t].reg, e)
      BY <1>2 DEF ReplacePartial
    <2>2. job[t].reg \in Seq(Entry) /\ job[t].debited \in Nat /\ Backed(Append(job[t].reg, e))
      BY <2>1 DEF AmountsInv, SumsOf, Restoring
    <2>3. job[t].offer \in Offer /\ job[t].grant \in Grant
      BY <2>1 DEF SInv, CallOf, Writing, InRegistry
    <2>4. e \in Entry
      BY <2>2, <2>3, ObligationEntry
    <2> HIDE DEF e
    <2> QED BY <2>1, <2>2, <2>4
  <1>3. CASE Compact(t)
    <2>1. tail # "torn" /\ reg' = Compacted(reg) /\ Len(reg) > 2 * KeepRecent
      BY <1>3 DEF Compact, RegistryValid
    <2> QED BY <2>1, SettledCompacted DEF AmountsInv, ObligationCovers, Backed
  <1>4. CASE AppendFails(t)
    BY <1>4, BeforeAppend DEF AppendFails
  <1> QED BY <1>1, <1>2, <1>3, <1>4 DEF Rewrites

\* What a debit of d adds is in the entry on top of the snapshot, and within
\* the ceiling of a grant that has one.
LEMMA DebitSums ==
  ASSUME SInv, AmountsInv, NEW t \in Thread, NEW d \in Nat, pc[t] = "debit",
         d <= Cost[job[t].offer], Moves(t, d), GrantsKept, UNCHANGED <<reg, tail>>
  PROVE  /\ Issued' /\ ObligationCovers' /\ WithinAttested'
         /\ \A party : MovedBy(party, Grant)' = MovedBy(party, Grant)
                         + (IF Payer[job[t].offer] = party THEN d ELSE 0)
  <1> DEFINE g == job[t].grant
             o == job[t].offer
             payer == Payer[o]
  <1>1. /\ g \in Grant /\ o \in Offer /\ grants[g].offer = o /\ grants[g].ceiling = job[t].ceiling
        /\ moved[g] = 0 /\ moved' \in [Grant -> Nat] /\ moved'[g] = d
        /\ \A h \in Grant \ {g} : moved'[h] = moved[h]
    <2>1. moved' \in [Grant -> Nat]
      BY MovesTyped
    <2> QED BY <2>1, AtDebit DEF Moves, SInv, Typed
  <1>2. payer \in Party /\ Cost[o] \in Nat
    BY <1>1, OfferAssumption
  <1>3. \A party : MovedBy(party, Grant)' = MovedBy(party, Grant)
                     + (IF payer = party THEN d ELSE 0)
    <2> SUFFICES ASSUME NEW party
                 PROVE  MovedBy(party, Grant)' = MovedBy(party, Grant)
                          + (IF payer = party THEN d ELSE 0)
      OBVIOUS
    <2>1. MovedBy(party, Grant)' = MovedBy(party, Grant)
            + (IF Payer[grants[g].offer] = party THEN moved'[g] - moved[g] ELSE 0)
      BY <1>1, MovedStep DEF AmountsInv
    <2> QED BY <1>1, <2>1
  <1>4. Issued'
    BY <1>1 DEF AmountsInv, Issued, GrantsKept
  <1>5. ObligationCovers'
    <2> SUFFICES ASSUME tail # "torn", NEW party \in Party
                 PROVE  MovedBy(party, Grant)' <= Settled(reg, party)
      <3>1. \A party : Settled(reg, party)' = Settled(reg, party)
        BY DEF Settled
      <3> QED BY <3>1 DEF ObligationCovers
    <2>1. /\ job[t].reg \in Seq(Entry) /\ Backed(job[t].reg)
          /\ reg = Append(job[t].reg, ObligationOf(t))
      BY DEF AmountsInv, SumsOf, Restoring
    <2>2. /\ ObligationOf(t) \in Entry
          /\ ObligationOf(t).party = payer /\ ObligationOf(t).amt = Cost[o]
      BY <1>1, <1>2, ObligationEntry DEF ObligationOf
    <2>3. Settled(reg, party) = Settled(job[t].reg, party)
            + (IF payer = party THEN Cost[o] ELSE 0)
      BY <2>1, <2>2, SettledAppended
    <2>4. /\ MovedBy(party, Grant) <= Settled(job[t].reg, party)
          /\ MovedBy(party, Grant) \in Nat /\ Settled(job[t].reg, party) \in Nat
      BY <2>1, MovedNat, SettledNat DEF Backed
    <2> QED BY <1>2, <1>3, <2>3, <2>4
  <1>6. WithinAttested'
    <2> SUFFICES ASSUME NEW party \in Party,
                        NEW m \in {h \in Grant : /\ grants'[h].ceiling # NoCeiling
                                                 /\ moved'[h] > 0
                                                 /\ Payer[grants'[h].offer] = party},
                        \A k \in {h \in Grant : /\ grants'[h].ceiling # NoCeiling
                                                /\ moved'[h] > 0
                                                /\ Payer[grants'[h].offer] = party} :
                          grants'[k].ceiling <= grants'[m].ceiling
                 PROVE  SumFunctionOnSet(moved',
                          {k \in {h \in Grant : /\ grants'[h].ceiling # NoCeiling
                                                /\ moved'[h] > 0
                                                /\ Payer[grants'[h].offer] = party} :
                             grants'[k] # Unissued /\ Payer[grants'[k].offer] = party})
                          <= grants'[m].ceiling
      BY DEF WithinAttested, MovedBy
    <2> DEFINE P == Paid(party)
               Q == {h \in Grant : /\ grants'[h].ceiling # NoCeiling
                                   /\ moved'[h] > 0
                                   /\ Payer[grants'[h].offer] = party}
    <2>1. \A h \in Grant : moved'[h] > 0 =>
            /\ grants[h].offer \in Offer /\ grants[h] # Unissued /\ grants'[h] # Unissued
            /\ grants'[h].offer = grants[h].offer /\ grants'[h].ceiling = grants[h].ceiling
      <3>1. \A h \in Grant : moved'[h] > 0 => grants[h].offer \in Offer
        BY <1>1 DEF AmountsInv, Issued
      <3> QED BY <3>1, NoneAssumption DEF GrantsKept, Unissued
    <2>2. {k \in Q : grants'[k] # Unissued /\ Payer[grants'[k].offer] = party} = Q
      BY <2>1
    <2>3. CASE g \notin Q
      <3>1. Q = P
        <4>1. \A h \in Grant \ {g} : h \in Q <=> h \in P
          BY <1>1, <2>1 DEF Paid, AmountsInv, Issued, GrantsKept
        <4>2. g \notin P
          BY <1>1 DEF Paid
        <4> QED BY <2>3, <4>1, <4>2 DEF Paid
      <3>2. m \in P /\ \A k \in P : grants[k].ceiling <= grants[m].ceiling
        BY <2>1, <3>1
      <3>3. MovedBy(party, P) <= grants[m].ceiling
        BY <3>2 DEF AmountsInv, WithinAttested, Paid
      <3>4. {h \in P : grants[h] # Unissued /\ Payer[grants[h].offer] = party} = P
        BY <2>1, <3>1 DEF Paid
      <3>5. MovedBy(party, P) = SumFunctionOnSet(moved, P)
        BY <3>4 DEF MovedBy
      <3>6. SumFunctionOnSet(moved', P) = SumFunctionOnSet(moved, P)
        <4>1. IsFiniteSet(P) /\ \A h \in P : moved'[h] = moved[h]
          <5>1. P \subseteq Grant /\ g \notin P
            BY <2>3, <3>1 DEF Paid
          <5>2. IsFiniteSet(P)
            BY <5>1, FiniteAssumption, FS_Subset
          <5> HIDE DEF P
          <5> QED BY <1>1, <5>1, <5>2
        <4> QED BY <4>1, SumSame
      <3>7. grants'[m].ceiling = grants[m].ceiling
        BY <2>1
      <3> QED BY <2>2, <3>1, <3>3, <3>5, <3>6, <3>7
    <2>4. CASE g \in Q
      <3> DEFINE N == {h \in Grant : grants'[h] # Unissued /\ Payer[grants'[h].offer] = party}
      <3>1. /\ party = payer /\ grants'[g].ceiling = job[t].ceiling
            /\ job[t].ceiling # NoCeiling
        BY <1>1, <2>1, <2>4
      <3>2. MovedBy(payer, Grant) + Cost[o] <= job[t].ceiling
        BY <3>1 DEF AmountsInv, SumsOf
      <3>3. MovedBy(party, Grant)' = MovedBy(payer, Grant) + d
        BY <1>3, <3>1
      <3>4. SumFunctionOnSet(moved', Q) <= SumFunctionOnSet(moved', N)
            /\ SumFunctionOnSet(moved', Q) \in Nat /\ SumFunctionOnSet(moved', N) \in Nat
        <4>1. Q \subseteq N /\ IsFiniteSet(N) /\ \A h \in N : moved'[h] \in Nat
          <5>1. N \subseteq Grant
            OBVIOUS
          <5> QED BY <1>1, <2>1, <5>1, FiniteAssumption, FS_Subset
        <4> HIDE DEF N, Q
        <4> QED BY <4>1, SumOfPart
      <3>5. MovedBy(party, Grant)' = SumFunctionOnSet(moved', N)
        BY DEF MovedBy
      <3>6. grants'[g].ceiling <= grants'[m].ceiling
        BY <2>4
      <3>7. grants'[m].ceiling \in Nat /\ job[t].ceiling \in Nat /\ MovedBy(payer, Grant) \in Nat
        <4>1. grants'[m] \in GrantRecord /\ grants'[m].ceiling # NoCeiling
          BY DEF GrantsKept
        <4>2. job[t].ceiling \in Attested
          BY <3>1 DEF SInv, Typed
        <4> QED BY <4>1, <4>2, MovedNat, NumberAssumption DEF GrantRecord
      <3>8. SumFunctionOnSet(moved', Q) <= grants'[m].ceiling
        <4> HIDE DEF Q, N
        <4> QED BY <1>2, <3>1, <3>2, <3>3, <3>4, <3>5, <3>6, <3>7
      <3> QED BY <2>2, <3>8
    <2> QED BY <2>3, <2>4
  <1> QED BY <1>3, <1>4, <1>5, <1>6

LEMMA DebitKeeps ==
  ASSUME SInv, NEW t \in Thread, NEW d \in Nat, Debits(t, d)
  PROVE  GrantsKept
  <1>1. CASE DebitLess(t, d)
    BY <1>1 DEF DebitLess, GrantsKept, SInv, Typed
  <1>2. CASE LeaveRegistry(t)
    BY <1>2, LeaveKeeps DEF SInv
  <1> QED BY <1>1, <1>2 DEF Debits, DebitAll, DebitRaises

\* The debit itself, for the whole amount, for less, or raising.
LEMMA DebitAmounts ==
  ASSUME SInv, AmountsInv, NEW t \in Thread, NEW d \in Nat, Debits(t, d)
  PROVE  AmountsInv'
  <1>1. pc[t] = "debit" /\ Moves(t, d) /\ UNCHANGED <<reg, tail>>
    BY DEF Debits, DebitAll, DebitLess, DebitRaises, filesVars, history
  <1>2. GrantsKept
    BY DebitKeeps
  <1>3. /\ Issued' /\ ObligationCovers' /\ WithinAttested'
        /\ \A party : MovedBy(party, Grant)' = MovedBy(party, Grant)
                        + (IF Payer[job[t].offer] = party THEN d ELSE 0)
    BY <1>1, <1>2, DebitSums DEF Debits
  <1>4. \A u \in Thread \ {t} : pc'[u] = pc[u] /\ job'[u] = job[u]
    <2>1. CASE DebitAll(t)
      BY <2>1 DEF DebitAll, Goto, SInv, Typed
    <2>2. CASE DebitLess(t, d)
      BY <2>2 DEF DebitLess, Goto, SInv, Typed
    <2>3. CASE DebitRaises(t, d)
      BY <2>3, ReturnKeeps DEF DebitRaises, SInv
    <2> QED BY <2>1, <2>2, <2>3 DEF Debits
  <1>5. ASSUME NEW u \in Thread \ {t} PROVE SumsOf(u)'
    <2>1. pc[u] \notin Restoring
      BY <1>1, AtDebit DEF Restoring, InRegistry
    <2> QED BY <1>4, <2>1 DEF SumsOf, Restoring
  <1>6. SumsOf(t)'
    <2>1. CASE ~DebitLess(t, d)
      <3>1. pc'[t] \in {"credit", "idle"}
        <4>1. CASE DebitAll(t)
          BY <4>1 DEF DebitAll, Goto, SInv, Typed
        <4>2. CASE DebitRaises(t, d)
          BY <4>2, ReturnKeeps DEF DebitRaises, SInv
        <4> QED BY <2>1, <4>1, <4>2 DEF Debits
      <3> QED BY <3>1 DEF SumsOf, Restoring
    <2>2. CASE DebitLess(t, d)
      <3> DEFINE r == job[t].reg
                 e == Obligation(job[t].offer, job[t].grant, d)
      <3>1. /\ pc'[t] = (IF d > 0 THEN "partial" ELSE "rollback")
            /\ job'[t] = Reported(job[t], d)
        BY <2>2 DEF DebitLess, Goto, SInv, Typed
      <3>2. /\ job'[t].reg = r /\ job'[t].debited = d
            /\ job'[t].offer = job[t].offer /\ job'[t].grant = job[t].grant
        BY <3>1 DEF Reported
      <3>3. r \in Seq(Entry) /\ Backed(r)
        BY <1>1 DEF AmountsInv, SumsOf, Restoring
      <3>4. e \in Entry /\ e.party = Payer[job[t].offer] /\ e.amt = d
        BY <1>1, AtDebit, ObligationEntry
      <3>5. ASSUME NEW party \in Party
            PROVE  /\ MovedBy(party, Grant)' <= Settled(Append(r, e), party)
                   /\ d = 0 => MovedBy(party, Grant)' <= Settled(r, party)
        <4>1. Settled(Append(r, e), party)
                = Settled(r, party) + (IF e.party = party THEN e.amt ELSE 0)
          BY <3>3, <3>4, SettledAppended
        <4>2. /\ MovedBy(party, Grant) <= Settled(r, party)
              /\ MovedBy(party, Grant) \in Nat /\ Settled(r, party) \in Nat
          BY <3>3, MovedNat, SettledNat DEF Backed
        <4> HIDE DEF r, e
        <4> QED BY <1>3, <3>4, <4>1, <4>2
      <3>6. \A party : /\ Settled(job[t].reg, party)' = Settled(r, party)
                       /\ Settled(Append(job[t].reg, Obligation(job[t].offer,
                            job[t].grant, job[t].debited)), party)'
                            = Settled(Append(r, e), party)
        BY <3>2 DEF Settled, Obligation
      <3>7. Backed(Append(job[t].reg, Obligation(job[t].offer, job[t].grant, job[t].debited)))'
        BY <3>5, <3>6 DEF Backed
      <3>8. d = 0 => Backed(job[t].reg)'
        BY <3>5, <3>6 DEF Backed
      <3> QED BY <3>1, <3>2, <3>3, <3>7, <3>8 DEF SumsOf, Restoring
    <2> QED BY <2>1, <2>2
  <1> QED BY <1>1, <1>3, <1>5, <1>6 DEF AmountsInv

LEMMA NextAmounts == SInv /\ AmountsInv /\ [Next]_vars => AmountsInv'
  <1> SUFFICES ASSUME SInv, AmountsInv, [Next]_vars PROVE AmountsInv'
    OBVIOUS
  <1>1. CASE QuietStep
    BY <1>1, QuietEffect, QuietSums
  <1>2. ASSUME NEW t \in Thread, Rewrites(t) PROVE AmountsInv'
    BY <1>2, RewriteEffect, RewriteSums, CarriedSums
  <1> QED BY <1>1, <1>2, StepsSplit, AppendSums, DebitAmounts

\* Every reachable state has it.
THEOREM AmountsInvariant == Spec => []AmountsInv
  BY InitAmounts, NextAmounts, SettlementInvariant, PTL DEF Spec

\* While the registry can be read, it holds what the debits of a party have
\* moved, across failed, short, undone and abandoned settlements, compactions
\* and kills (_record_settled, _rollback_registry, _record_partial_debit).
THEOREM DebitsAreCovered == Spec => []ObligationCovers
  <1>1. AmountsInv => ObligationCovers
    BY DEF AmountsInv
  <1> QED BY <1>1, AmountsInvariant, PTL

\* One attested balance does not pay two providers: over all processes that
\* share the registry, the debits of ceiling-bound grants stay within the
\* largest balance attested for them (the commit-time check of settle).
THEOREM AttestationNotSpentTwice == Spec => []WithinAttested
  <1>1. AmountsInv => WithinAttested
    BY DEF AmountsInv
  <1> QED BY <1>1, AmountsInvariant, PTL

-----------------------------------------------------------------------------
(* The external anchor *)

\* A registry that holds what the anchor says of every party.
Reaches(s) == \A party \in Party : anchor[party] <= Settled(s, party)

\* The readable registry holds it, and so does every snapshot that may be put
\* back: an anchor is exported only while there is none.
AnchorInv ==
  /\ anchor \in [Party -> Nat]
  /\ tail = "torn" \/ Reaches(reg)
  /\ \A t \in Thread : pc[t] \in Restoring => Reaches(job[t].reg)

LEMMA InitAnchor == InitAnchored => AnchorInv
  <1> SUFFICES ASSUME InitAnchored PROVE AnchorInv
    OBVIOUS
  <1>1. anchor = Nothing /\ reg = <<>> /\ \A t \in Thread : pc[t] = "idle"
    BY DEF InitAnchored, Init
  <1> QED BY <1>1, SettledEmpty DEF AnchorInv, Nothing, Reaches, Restoring

\* A step keeps the anchor if what it writes reaches it, and every snapshot is
\* an old one or reaches it.
LEMMA AnchorStep ==
  ASSUME AnchorInv, UNCHANGED anchor, tail' = "torn" \/ Reaches(reg'),
         \A u \in Thread : pc'[u] \in Restoring =>
           \/ pc[u] \in Restoring /\ job'[u].reg = job[u].reg
           \/ Reaches(job'[u].reg)
  PROVE  AnchorInv'
  <1>1. Reaches(reg)' <=> Reaches(reg')
    BY DEF Reaches, Settled
  <1>2. ASSUME NEW u \in Thread, pc'[u] \in Restoring PROVE Reaches(job[u].reg)'
    <2>1. Reaches(job'[u].reg)
      BY <1>2 DEF AnchorInv
    <2> QED BY <2>1 DEF Reaches, Settled
  <1> QED BY <1>1, <1>2 DEF AnchorInv, Restoring

\* A longer registry reaches what a shorter one does.
LEMMA ReachesAppended ==
  ASSUME AnchorInv, NEW s \in Seq(Entry), NEW e \in Entry, Reaches(s)
  PROVE  Reaches(Append(s, e))
  <1>1. ASSUME NEW party \in Party PROVE anchor[party] <= Settled(Append(s, e), party)
    <2>1. Settled(Append(s, e), party) = Settled(s, party) + (IF e.party = party THEN e.amt ELSE 0)
      BY SettledAppended
    <2>2. anchor[party] <= Settled(s, party)
      BY DEF Reaches
    <2>3. anchor[party] \in Nat /\ Settled(s, party) \in Nat /\ e.amt \in Nat
      BY SettledNat DEF AnchorInv, Entry
    <2> QED BY <2>1, <2>2, <2>3
  <1> QED BY <1>1 DEF Reaches

LEMMA RewriteReaches ==
  ASSUME SInv, AmountsInv, AnchorInv, NEW t \in Thread, Rewrites(t)
  PROVE  tail' = "torn" \/ Reaches(reg')
  <1>1. CASE UndoAppend(t) \/ RollBack(t)
    <2>1. pc[t] \in {"appended", "rollback"} /\ reg' = job[t].reg
      BY <1>1 DEF UndoAppend, RollBack
    <2> QED BY <2>1 DEF AnchorInv, Restoring
  <1>2. CASE ReplacePartial(t)
    <2> DEFINE e == Obligation(job[t].offer, job[t].grant, job[t].debited)
    <2>1. pc[t] = "partial" /\ reg' = Append(job[t].reg, e)
      BY <1>2 DEF ReplacePartial
    <2>2. job[t].reg \in Seq(Entry) /\ job[t].debited \in Nat /\ Reaches(job[t].reg)
      BY <2>1 DEF AmountsInv, SumsOf, AnchorInv, Restoring
    <2>3. job[t].offer \in Offer /\ job[t].grant \in Grant
      BY <2>1 DEF SInv, CallOf, Writing, InRegistry
    <2>4. e \in Entry
      BY <2>2, <2>3, ObligationEntry
    <2> HIDE DEF e
    <2> QED BY <2>1, <2>2, <2>4, ReachesAppended
  <1>3. CASE Compact(t)
    <2>1. tail # "torn" /\ reg' = Compacted(reg) /\ Len(reg) > 2 * KeepRecent
      BY <1>3 DEF Compact, RegistryValid
    <2>2. reg \in Seq(Entry) /\ Reaches(reg)
      BY <2>1 DEF AmountsInv, AnchorInv
    <2> QED BY <2>1, <2>2, SettledCompacted DEF Reaches
  <1>4. CASE AppendFails(t)
    <2>1. /\ reg \in Seq(Entry) /\ ObligationOf(t) \in Entry /\ Reaches(reg)
      BY <1>4, BeforeAppend DEF AnchorInv
    <2>2. Reaches(Append(reg, ObligationOf(t)))
      BY <2>1, ReachesAppended
    <2> QED BY <1>4, <2>1, <2>2 DEF AppendFails
  <1> QED BY <1>1, <1>2, <1>3, <1>4 DEF Rewrites

LEMMA AppendReaches ==
  ASSUME SInv, AmountsInv, AnchorInv, UNCHANGED anchor,
         NEW t \in Thread, AppendObligation(t)
  PROVE  AnchorInv'
  <1>1. /\ reg \in Seq(Entry) /\ ObligationOf(t) \in Entry /\ Reaches(reg)
    BY BeforeAppend DEF AnchorInv
  <1>2. Reaches(Append(reg, ObligationOf(t)))
    BY <1>1, ReachesAppended
  <1>3. /\ job'[t].reg = reg
        /\ \A u \in Thread \ {t} : job'[u] = job[u] /\ pc'[u] = pc[u]
        /\ reg' = reg \/ reg' = Append(reg, ObligationOf(t))
    BY DEF AppendObligation, Snapshot, Goto, SInv, Typed
  <1>4. \A u \in Thread : pc'[u] \in Restoring =>
           \/ pc[u] \in Restoring /\ job'[u].reg = job[u].reg
           \/ Reaches(job'[u].reg)
    BY <1>1, <1>3
  <1> QED BY <1>1, <1>2, <1>3, <1>4, AnchorStep

LEMMA DebitReaches ==
  ASSUME SInv, AnchorInv, UNCHANGED anchor, NEW t \in Thread, NEW d \in Nat, Debits(t, d)
  PROVE  AnchorInv'
  <1>1. UNCHANGED <<reg, tail>> /\ pc[t] = "debit"
    BY DEF Debits, DebitAll, DebitLess, DebitRaises, filesVars, history
  <1>2. ASSUME NEW u \in Thread, pc'[u] \in Restoring
        PROVE  pc[u] \in Restoring /\ job'[u].reg = job[u].reg
    <2>1. CASE DebitAll(t)
      BY <1>2, <2>1 DEF DebitAll, Goto, SInv, Typed, Restoring
    <2>2. CASE DebitLess(t, d)
      BY <1>1, <1>2, <2>2 DEF DebitLess, Goto, SInv, Typed, Restoring, Reported
    <2>3. CASE DebitRaises(t, d)
      BY <1>2, <2>3, ReturnKeeps DEF DebitRaises, SInv, Restoring
    <2> QED BY <2>1, <2>2, <2>3 DEF Debits
  <1> QED BY <1>1, <1>2, AnchorStep DEF AnchorInv

\* Nobody restores anything while the registry is free.
LEMMA ExportReaches == ASSUME SInv, AmountsInv, AnchorInv, ExportAnchor PROVE AnchorInv'
  <1> USE DEF ExportAnchor
  <1>1. UNCHANGED <<reg, tail, tip, pc, job>>
    BY DEF vars, filesVars, history
  <1>2. CASE holder = NoThread
    <2>1. \A t \in Thread : pc[t] \notin Restoring
      BY <1>2, NoneAssumption DEF SInv, CallOf, InRegistry, Restoring
    <2>2. \A party \in Party : Settled(reg, party) \in Nat
      BY SettledNat DEF AmountsInv
    <2>3. anchor' = Totals
      BY <1>2
    <2>4. anchor' \in [Party -> Nat]
      BY <2>2, <2>3 DEF Totals
    <2>5. \A party \in Party : anchor'[party] <= Settled(reg', party)
      BY <1>1, <2>2, <2>3 DEF Totals
    <2>6. Reaches(reg)'
      BY <2>5 DEF Reaches, Settled
    <2> QED BY <1>1, <2>1, <2>4, <2>6 DEF AnchorInv, Restoring
  <1>3. CASE holder # NoThread
    <2>1. anchor' = Nothing
      BY <1>3
    <2>2. \A t \in Thread : pc[t] \in Restoring => job[t].reg \in Seq(Entry)
      BY DEF AmountsInv, SumsOf
    <2>3. \A s \in Seq(Entry) : \A party \in Party : anchor'[party] <= Settled(s, party)
      BY <2>1, SettledNat DEF Nothing
    <2>4. Reaches(reg)'
      BY <1>1, <2>3 DEF AmountsInv, Reaches, Settled
    <2>5. \A t \in Thread : pc'[t] \in Restoring => Reaches(job[t].reg)'
      BY <1>1, <2>2, <2>3 DEF Reaches, Settled
    <2> QED BY <2>1, <2>4, <2>5 DEF AnchorInv, Nothing, Restoring
  <1> QED BY <1>2, <1>3

LEMMA NextAnchor ==
  SInv /\ AmountsInv /\ AnchorInv /\ [NextAnchored]_<<vars, anchor>> => AnchorInv'
  <1> SUFFICES ASSUME SInv, AmountsInv, AnchorInv, [NextAnchored]_<<vars, anchor>>
               PROVE  AnchorInv'
    OBVIOUS
  <1>1. CASE ExportAnchor
    BY <1>1, ExportReaches
  <1>2. CASE [Next]_vars /\ UNCHANGED anchor
    <2>1. ASSUME NEW u \in Thread, Carried(u), pc'[u] \in Restoring
          PROVE  pc[u] \in Restoring /\ job'[u].reg = job[u].reg
      BY <2>1 DEF Carried, Restoring
    <2>2. CASE QuietStep
      <3>1. UNCHANGED <<reg, tail>> /\ \A u \in Thread : Carried(u)
        BY <2>2, QuietEffect
      <3> QED BY <1>2, <2>1, <3>1, AnchorStep DEF AnchorInv
    <2>3. ASSUME NEW t \in Thread, Rewrites(t) PROVE AnchorInv'
      <3>1. \A u \in Thread : Carried(u)
        BY <2>3, RewriteEffect
      <3>2. tail' = "torn" \/ Reaches(reg')
        BY <2>3, RewriteReaches
      <3> QED BY <1>2, <2>1, <3>1, <3>2, AnchorStep
    <2>4. ASSUME NEW t \in Thread, AppendObligation(t) PROVE AnchorInv'
      BY <1>2, <2>4, AppendReaches
    <2>5. ASSUME NEW t \in Thread, NEW d \in Nat, Debits(t, d) PROVE AnchorInv'
      BY <1>2, <2>5, DebitReaches
    <2> QED BY <1>2, <2>2, <2>3, <2>4, <2>5, StepsSplit
  <1> QED BY <1>1, <1>2 DEF NextAnchored

\* Nothing the program does after a quiet export lowers a party's total below
\* what the anchor says (export_registry_anchor, verify_registry_against_anchor
\* and the standalone verifier).
THEOREM AnchorNeverContradicted == SpecAnchored => []QuietAnchorHolds
  <1>1. InitAnchored => SInv /\ AmountsInv /\ AnchorInv
    BY InitSInv, InitAmounts, InitAnchor DEF InitAnchored
  <1>2. SInv /\ AmountsInv /\ AnchorInv /\ [NextAnchored]_<<vars, anchor>>
          => (SInv /\ AmountsInv /\ AnchorInv)'
    <2>1. [NextAnchored]_<<vars, anchor>> => [Next]_vars
      BY DEF NextAnchored, ExportAnchor
    <2> QED BY <2>1, NextSInv, NextAmounts, NextAnchor
  <1>3. SInv /\ AmountsInv /\ AnchorInv => QuietAnchorHolds
    <2> SUFFICES ASSUME AmountsInv, AnchorInv, tail # "torn",
                        NEW party \in Party, Settled(reg, party) < anchor[party]
                 PROVE  FALSE
      BY DEF QuietAnchorHolds, Contradicted, StrangerContradicted, Below, RegistryValid
    <2>1. anchor[party] <= Settled(reg, party)
      BY DEF AnchorInv, Reaches
    <2>2. anchor[party] \in Nat /\ Settled(reg, party) \in Nat
      BY SettledNat DEF AnchorInv, AmountsInv
    <2> QED BY <2>1, <2>2
  <1> QED BY <1>1, <1>2, <1>3, PTL DEF SpecAnchored

-----------------------------------------------------------------------------
(* The receiver *)

LEMMA NextKeeps ==
  ASSUME SInv, [Next]_vars
  PROVE  GrantsKept
  <1>1. ASSUME NEW t \in Thread, AppendObligation(t) PROVE GrantsKept
    BY <1>1 DEF AppendObligation, GrantsKept, SInv, Typed
  <1>2. ASSUME NEW t \in Thread, NEW d \in Nat, Debits(t, d) PROVE GrantsKept
    BY <1>2, DebitKeeps
  <1> QED BY <1>1, <1>2, StepsSplit, QuietEffect, RewriteEffect

\* From reading its receiver's balance to crediting it, a settlement has the
\* receiver's lock, and the balance it read is the receiver's.
Locked == Writing \cup {"settling", "credit"}
LockOf(t) ==
  pc[t] \in Locked =>
    seller[Home[t]].lock = t /\ job[t].before = seller[Home[t]].received

ReceiverInv == ReceiverExact /\ \A t \in Thread : LockOf(t)

\* What a receiver lists, and what it should hold for it.
Credits(p) == [g \in seller[p].settlements |-> Cost[grants[g].offer]]

LEMMA CreditsNat ==
  ASSUME SInv, NEW p \in Process
  PROVE  /\ seller[p].settlements \subseteq Grant /\ IsFiniteSet(seller[p].settlements)
         /\ \A g \in seller[p].settlements : grants[g].offer \in Offer /\ Credits(p)[g] \in Nat
  <1>1. seller[p].settlements \subseteq Grant
    BY DEF SInv, Typed, Receiver
  <1>2. \A g \in seller[p].settlements : grants[g].offer \in Offer
    BY DEF SInv, Listed
  <1>3. \A g \in seller[p].settlements : Credits(p)[g] \in Nat
    BY <1>2, OfferAssumption DEF Credits
  <1> QED BY <1>1, <1>2, <1>3, FiniteAssumption, FS_Subset

\* A receiver that lists and holds what it did is as exact as it was.
LEMMA ExactKept ==
  ASSUME SInv, ReceiverExact, GrantsKept, NEW p \in Process,
         seller'[p].received = seller[p].received,
         seller'[p].settlements = seller[p].settlements
  PROVE  seller'[p].received =
           SumFunctionOnSet([g \in seller'[p].settlements |-> Cost[grants'[g].offer]],
                            seller'[p].settlements)
  <1>1. [g \in seller'[p].settlements |-> Cost[grants'[g].offer]]
          = [g \in seller[p].settlements |-> Cost[grants[g].offer]]
    BY CreditsNat DEF GrantsKept
  <1> QED BY <1>1 DEF ReceiverExact

\* Steps that leave the receivers alone and start no settlement.
KeepsRead(u) == pc'[u] \in Locked => pc[u] \in Locked /\ job'[u].before = job[u].before

LEMMA ReceiversUntouched ==
  ASSUME SInv, ReceiverInv, GrantsKept, UNCHANGED seller,
         \A u \in Thread : KeepsRead(u)
  PROVE  ReceiverInv'
  <1>1. ReceiverExact'
    <2>1. ReceiverExact
      BY DEF ReceiverInv
    <2> QED BY <2>1, ExactKept DEF ReceiverExact
  <1>2. \A u \in Thread : LockOf(u)'
    BY DEF ReceiverInv, LockOf, KeepsRead, Locked
  <1> QED BY <1>1, <1>2 DEF ReceiverInv

LEMMA ReturnReceivers ==
  ASSUME SInv, ReceiverInv, GrantsKept, NEW t \in Thread, Return(t)
  PROVE  ReceiverInv'
  <1>1. \A p \in Process : /\ seller'[p].received = seller[p].received
                           /\ seller'[p].settlements = seller[p].settlements
                           /\ seller[p].lock # t => seller'[p].lock = seller[p].lock
    BY DEF Return, SInv, Typed, Receiver
  <1>2. pc'[t] = "idle" /\ \A u \in Thread \ {t} : pc'[u] = pc[u] /\ job'[u] = job[u]
    BY ReturnKeeps DEF SInv
  <1>3. ReceiverExact'
    BY <1>1, ExactKept DEF ReceiverInv, ReceiverExact
  <1>4. ASSUME NEW u \in Thread PROVE LockOf(u)'
    <2>1. CASE u = t
      BY <1>2, <2>1 DEF LockOf, Locked, Writing, InRegistry
    <2>2. CASE u # t
      <3>1. Home[u] \in Process
        BY HomeAssumption
      <3>2. pc[u] \in Locked =>
              seller[Home[u]].lock = u /\ job[u].before = seller[Home[u]].received
        BY DEF ReceiverInv, LockOf
      <3>3. pc'[u] = pc[u] /\ job'[u] = job[u]
        BY <1>2, <2>2
      <3> QED BY <1>1, <2>2, <3>1, <3>2, <3>3 DEF LockOf, Locked
    <2> QED BY <2>1, <2>2
  <1> QED BY <1>3, <1>4 DEF ReceiverInv

LEMMA BeginReceivers ==
  ASSUME SInv, ReceiverInv, GrantsKept, NEW t \in Thread, NEW g \in Grant, BeginSettle(t, g)
  PROVE  ReceiverInv'
  <1> DEFINE p == Home[t]
  <1>1. p \in Process /\ seller[p].lock = NoThread
    BY HomeAssumption DEF BeginSettle
  <1>2. /\ seller'[p].lock = t /\ seller'[p].received = seller[p].received
        /\ seller'[p].settlements = seller[p].settlements
        /\ \A q \in Process \ {p} : seller'[q] = seller[q]
    BY <1>1 DEF BeginSettle, SInv, Typed, Receiver
  <1>3. /\ pc'[t] = "settling" /\ job'[t].before = seller[p].received
        /\ \A u \in Thread \ {t} : pc'[u] = pc[u] /\ job'[u] = job[u]
    BY DEF BeginSettle, Goto, Call, SInv, Typed
  <1> HIDE DEF p
  <1>4. ReceiverExact'
    BY <1>2, ExactKept DEF ReceiverInv, ReceiverExact
  <1>5. ASSUME NEW u \in Thread PROVE LockOf(u)'
    <2>1. CASE u = t
      BY <1>2, <1>3, <2>1 DEF LockOf, p
    <2>2. CASE u # t
      <3>1. Home[u] \in Process /\ u # NoThread
        BY HomeAssumption, NoneAssumption
      <3>2. pc[u] \in Locked =>
              seller[Home[u]].lock = u /\ job[u].before = seller[Home[u]].received
        BY DEF ReceiverInv, LockOf
      <3>3. pc'[u] = pc[u] /\ job'[u] = job[u]
        BY <1>3, <2>2
      <3> QED BY <1>1, <1>2, <2>2, <3>1, <3>2, <3>3 DEF LockOf, Locked
    <2> QED BY <2>1, <2>2
  <1> QED BY <1>4, <1>5 DEF ReceiverInv

\* The credit adds the amount of a grant that was not listed.
LEMMA CreditReceivers ==
  ASSUME SInv, ReceiverInv, GrantsKept, UNCHANGED grants, NEW t \in Thread, Credit(t)
  PROVE  ReceiverInv'
  <1> DEFINE p == Home[t]
             g == job[t].grant
             o == job[t].offer
             S == seller[p].settlements
             f == [h \in S \cup {g} |-> Cost[grants[h].offer]]
  <1>1. p \in Process /\ pc[t] = "credit" /\ pc[t] \in Locked
    BY HomeAssumption DEF Credit, Locked
  <1>2. /\ g \in Grant /\ o \in Offer /\ grants[g].offer = o /\ g \notin S
        /\ job[t].before = seller[p].received /\ seller[p].lock = t
    BY <1>1 DEF SInv, CallOf, CreditOf, ReceiverInv, LockOf
  <1>3. /\ seller'[p].received = seller[p].received + Cost[o]
        /\ seller'[p].settlements = S \cup {g}
        /\ \A q \in Process \ {p} : seller'[q] = seller[q]
    BY <1>1, <1>2 DEF Credit, SInv, Typed
  <1>4. seller'[p].received = SumFunctionOnSet(f, S \cup {g})
    <2>1. IsFiniteSet(S) /\ \A h \in S : f[h] = Credits(p)[h] /\ Credits(p)[h] \in Nat
      BY <1>1, CreditsNat DEF Credits
    <2>2. f[g] = Cost[o] /\ Cost[o] \in Nat
      BY <1>2, OfferAssumption
    <2>3. \A h \in S \cup {g} : f[h] \in Int
      BY <2>1, <2>2
    <2>4. seller[p].received = SumFunctionOnSet(Credits(p), S)
      BY <1>1 DEF ReceiverInv, ReceiverExact, Credits
    <2> HIDE DEF f, S, p, g
    <2>5. SumFunctionOnSet(f, S \cup {g}) = f[g] + SumFunctionOnSet(f, S)
      BY <1>2, <2>1, <2>3, SumInsert
    <2>6. SumFunctionOnSet(f, S) = SumFunctionOnSet(Credits(p), S)
      BY <2>1, SumSame
    <2>7. SumFunctionOnSet(Credits(p), S) \in Nat
      BY <2>1, SumNat
    <2> QED BY <1>3, <2>2, <2>4, <2>5, <2>6, <2>7
  <1>5. ReceiverExact'
    <2> SUFFICES ASSUME NEW q \in Process
                 PROVE  seller'[q].received =
                   SumFunctionOnSet([h \in seller'[q].settlements |-> Cost[grants'[h].offer]],
                                    seller'[q].settlements)
      BY DEF ReceiverExact
    <2>1. CASE q = p
      <3>1. [h \in seller'[p].settlements |-> Cost[grants'[h].offer]] = f
        BY <1>3
      <3> QED BY <1>3, <1>4, <2>1, <3>1
    <2>2. CASE q # p
      BY <1>3, <2>2, ExactKept DEF ReceiverInv
    <2> QED BY <2>1, <2>2
  <1>6. ASSUME NEW u \in Thread PROVE LockOf(u)'
    <2>1. pc'[t] = "idle" /\ \A v \in Thread \ {t} : pc'[v] = pc[v] /\ job'[v] = job[v]
      BY DEF Credit, Goto, SInv, Typed
    <2>2. CASE u = t
      BY <2>1, <2>2 DEF LockOf, Locked, Writing, InRegistry
    <2>3. CASE u # t
      <3>1. Home[u] \in Process
        BY HomeAssumption
      <3>2. pc[u] \in Locked =>
              seller[Home[u]].lock = u /\ job[u].before = seller[Home[u]].received
        BY DEF ReceiverInv, LockOf
      <3>3. pc'[u] = pc[u] /\ job'[u] = job[u]
        BY <2>1, <2>3
      <3> QED BY <1>2, <1>3, <2>3, <3>1, <3>2, <3>3 DEF LockOf, Locked
    <2> QED BY <2>2, <2>3
  <1> QED BY <1>5, <1>6 DEF ReceiverInv

\* A killed process opens an empty receiver.
LEMMA KillReceivers ==
  ASSUME SInv, ReceiverInv, GrantsKept, NEW p \in Process, Kill(p)
  PROVE  ReceiverInv'
  <1>1. seller'[p] = Opened /\ \A q \in Process \ {p} : seller'[q] = seller[q]
    BY DEF Kill, SInv, Typed
  <1>2. ReceiverExact'
    <2> SUFFICES ASSUME NEW q \in Process
                 PROVE  seller'[q].received =
                   SumFunctionOnSet([h \in seller'[q].settlements |-> Cost[grants'[h].offer]],
                                    seller'[q].settlements)
      BY DEF ReceiverExact
    <2>1. CASE q = p
      BY <1>1, <2>1, SumEmpty DEF Opened
    <2>2. CASE q # p
      BY <1>1, <2>2, ExactKept DEF ReceiverInv
    <2> QED BY <2>1, <2>2
  <1>3. ASSUME NEW u \in Thread PROVE LockOf(u)'
    <2>1. CASE Home[u] = p
      BY <2>1 DEF Kill, LockOf, Locked, Writing, InRegistry
    <2>2. CASE Home[u] # p
      <3>1. pc'[u] = pc[u] /\ job'[u] = job[u] /\ Home[u] \in Process
        BY <2>2, HomeAssumption DEF Kill
      <3> QED BY <1>1, <2>2, <3>1 DEF ReceiverInv, LockOf, Locked
    <2> QED BY <2>1, <2>2
  <1> QED BY <1>2, <1>3 DEF ReceiverInv

LEMMA NextReceivers == SInv /\ ReceiverInv /\ [Next]_vars => ReceiverInv'
  <1> SUFFICES ASSUME SInv, ReceiverInv, [Next]_vars PROVE ReceiverInv'
    OBVIOUS
  <1>1. GrantsKept
    BY NextKeeps
  <1>2. ASSUME NEW t \in Thread, NEW o \in Offer, NEW attested, NEW expired,
               Accept(t, o, attested, expired) \/ RefuseOffer(t, o, attested, expired)
        PROVE  ReceiverInv'
    <2>1. UNCHANGED seller /\ \A u \in Thread : KeepsRead(u)
      BY <1>2 DEF Accept, RefuseOffer, Goto, SInv, Typed, KeepsRead, Locked, Writing, InRegistry
    <2> QED BY <1>1, <2>1, ReceiversUntouched
  <1>3. ASSUME NEW t \in Thread, Return(t) PROVE ReceiverInv'
    BY <1>1, <1>3, ReturnReceivers
  <1>4. ASSUME NEW t \in Thread, AppendObligation(t) PROVE ReceiverInv'
    <2>1. UNCHANGED seller /\ \A u \in Thread : KeepsRead(u)
      BY <1>4 DEF AppendObligation, Goto, SInv, Typed, KeepsRead, Locked, Snapshot
    <2> QED BY <1>1, <2>1, ReceiversUntouched
  <1>5. ASSUME NEW t \in Thread, NEW d \in Nat, Debits(t, d) PROVE ReceiverInv'
    <2>1. CASE DebitAll(t) \/ DebitLess(t, d)
      <3>1. UNCHANGED seller
        BY <2>1 DEF DebitAll, DebitLess
      <3>2. \A u \in Thread : KeepsRead(u)
        BY <2>1 DEF DebitAll, DebitLess, Goto, SInv, Typed, KeepsRead, Locked, Writing,
                    InRegistry, Reported
      <3> QED BY <1>1, <3>1, <3>2, ReceiversUntouched
    <2>2. CASE DebitRaises(t, d)
      BY <1>3, <2>2 DEF DebitRaises
    <2> QED BY <1>5, <2>1, <2>2 DEF Debits
  <1>6. ASSUME NEW t \in Thread,
               AdvanceTip(t) \/ ReplacePartial(t) \/ RollBack(t) \/ Compact(t)
        PROVE  ReceiverInv'
    <2>1. UNCHANGED <<seller, job>> /\ \A u \in Thread : KeepsRead(u)
      BY <1>6 DEF AdvanceTip, ReplacePartial, RollBack, Compact, Goto, SInv, Typed, KeepsRead,
                  Locked, Writing, InRegistry
    <2> QED BY <1>1, <2>1, ReceiversUntouched
  <1>7. ASSUME NEW t \in Thread, Rewrites(t) PROVE ReceiverInv'
    BY <1>3, <1>6, <1>7 DEF Rewrites, UndoAppend, AppendFails
  <1>8. ASSUME NEW t \in Thread, Quiet(t) PROVE ReceiverInv'
    <2>1. ASSUME NEW g \in Grant, BeginSettle(t, g) PROVE ReceiverInv'
      BY <1>1, <2>1, BeginReceivers
    <2>2. CASE Credit(t)
      BY <1>1, <2>2, CreditReceivers DEF Credit
    <2> QED BY <1>2, <1>3, <1>6, <1>8, <2>1, <2>2
         DEF Quiet, IssueGrant, RefuseSettle, DenyLease, InterruptAccept, Abandon,
             AdvancePartialTip, RollBackTip, CompactTip
  <1>9. ASSUME NEW p \in Process, Kill(p) PROVE ReceiverInv'
    BY <1>1, <1>9, KillReceivers
  <1>10. ASSUME NEW g \in Grant, NEW o \in Offer, BuildGrant(g, o) PROVE ReceiverInv'
    <2>1. UNCHANGED seller /\ \A u \in Thread : KeepsRead(u)
      BY <1>10 DEF BuildGrant, KeepsRead
    <2> QED BY <1>1, <2>1, ReceiversUntouched
  <1>11. CASE UNCHANGED vars
    <2>1. UNCHANGED seller /\ \A u \in Thread : KeepsRead(u)
      BY <1>11 DEF vars, KeepsRead
    <2> QED BY <1>1, <2>1, ReceiversUntouched
  <1>12. CASE QuietStep
    BY <1>8, <1>9, <1>10, <1>11, <1>12 DEF QuietStep
  <1> QED BY <1>4, <1>5, <1>7, <1>12, StepsSplit

\* A receiver holds the sum of what it lists: the balance a settlement read
\* before its debit is still the receiver's when it credits (settle).
THEOREM ReceiversAddUp == Spec => []ReceiverExact
  <1>1. Init => ReceiverInv
    <2> SUFFICES ASSUME Init PROVE ReceiverInv
      OBVIOUS
    <2>1. ReceiverExact
      BY SumEmpty DEF Init, ReceiverExact, Opened
    <2> QED BY <2>1 DEF Init, ReceiverInv, LockOf, Locked, Writing, InRegistry
  <1>2. ReceiverInv => ReceiverExact
    BY DEF ReceiverInv
  <1> QED BY <1>1, <1>2, NextReceivers, SettlementInvariant, PTL DEF Spec

-----------------------------------------------------------------------------
(* Reservations *)

PendingTyped ==
  pending \in [Process -> SUBSET Offer] /\ stranded \in [Process -> SUBSET Offer]
PendingInv == PendingTyped /\ ReservationsKept

\* What one process has reserved for a party.
Fits(offers, party) == \E attested \in Attested : Reserved(offers, party) <= attested
OffersOf(offers, party) == {o \in offers : Payer[o] = party}

LEMMA ReservedNat ==
  ASSUME NEW offers \in SUBSET Offer, NEW party
  PROVE  /\ Reserved(offers, party) = SumFunctionOnSet(Cost, OffersOf(offers, party))
         /\ Reserved(offers, party) \in Nat
         /\ IsFiniteSet(OffersOf(offers, party)) /\ OffersOf(offers, party) \subseteq Offer
         /\ \A o \in Offer : Cost[o] \in Nat
  <1>1. OffersOf(offers, party) \subseteq Offer
    BY DEF OffersOf
  <1>2. IsFiniteSet(OffersOf(offers, party)) /\ \A o \in Offer : Cost[o] \in Nat
    BY <1>1, FiniteAssumption, OfferAssumption, FS_Subset
  <1>3. SumFunctionOnSet(Cost, OffersOf(offers, party)) \in Nat
    BY <1>1, <1>2, SumNat
  <1> QED BY <1>1, <1>2, <1>3 DEF Reserved, OffersOf

\* Giving reservations back reserves no more.
LEMMA ReservedPart ==
  ASSUME NEW offers \in SUBSET Offer, NEW part \in SUBSET offers, NEW party,
         Fits(offers, party)
  PROVE  Fits(part, party)
  <1>1. OffersOf(part, party) \subseteq OffersOf(offers, party)
    BY DEF OffersOf
  <1>2. Reserved(part, party) <= Reserved(offers, party)
    <2>1. /\ IsFiniteSet(OffersOf(offers, party))
          /\ \A o \in OffersOf(offers, party) : Cost[o] \in Nat
      BY ReservedNat
    <2>2. SumFunctionOnSet(Cost, OffersOf(part, party))
            <= SumFunctionOnSet(Cost, OffersOf(offers, party))
      BY <1>1, <2>1, SumOfPart
    <2> QED BY <2>2, ReservedNat
  <1>3. PICK attested \in Attested : Reserved(offers, party) <= attested
    BY DEF Fits
  <1>4. Reserved(part, party) \in Nat /\ Reserved(offers, party) \in Nat /\ attested \in Nat
    BY ReservedNat, NumberAssumption
  <1>5. Reserved(part, party) <= attested
    BY <1>2, <1>3, <1>4
  <1> QED BY <1>5 DEF Fits

\* A reservation with the accept or the grant it belongs to, or left by an accept.
Asking(t, p, o) == Home[t] = p /\ pc[t] = "leasing" /\ job[t].offer = o
Holding(g, p, o) == grants[g].offer = o /\ grants[g].held = p
Owned(p, o) ==
  (\E t \in Thread : Asking(t, p, o)) \/ (\E g \in Grant : Holding(g, p, o)) \/ o \in stranded[p]

LEMMA PendingParts ==
  PendingInv <=> /\ PendingTyped
                 /\ \A p \in Process : /\ \A o \in pending[p] : Owned(p, o)
                                       /\ \A party \in Party : Fits(pending[p], party)
  BY DEF PendingInv, ReservationsKept, Owned, Asking, Holding, Fits

\* A step that reserves nothing: what it keeps reserved keeps its owner.
LEMMA PendingStep ==
  ASSUME PendingInv, PendingTyped',
         \A p \in Process : pending'[p] \subseteq pending[p],
         \A p \in Process : \A o \in pending'[p] :
           /\ \A t \in Thread : Asking(t, p, o) =>
                Asking(t, p, o)' \/ \E g \in Grant : Holding(g, p, o)'
           /\ \A g \in Grant : Holding(g, p, o) => Holding(g, p, o)'
           /\ o \in stranded[p] => o \in stranded'[p]
  PROVE  PendingInv'
  <1> SUFFICES ASSUME NEW p \in Process
               PROVE  /\ \A o \in pending'[p] : Owned(p, o)'
                      /\ \A party \in Party : Fits(pending'[p], party)
    BY DEF PendingInv, ReservationsKept, Owned, Asking, Holding, Fits, Reserved
  <1>1. pending'[p] \in SUBSET pending[p] /\ pending[p] \in SUBSET Offer
    BY DEF PendingInv, PendingTyped
  <1>2. ASSUME NEW o \in pending'[p] PROVE Owned(p, o)'
    <2>1. Owned(p, o)
      BY <1>1, <1>2, PendingParts
    <2> QED BY <1>2, <2>1 DEF Owned
  <1>3. ASSUME NEW party \in Party PROVE Fits(pending'[p], party)
    BY <1>1, PendingParts, ReservedPart
  <1> QED BY <1>2, <1>3

\* Steps of a thread that asks for no lease and holds on to every reservation.
LEMMA PendingUntouched ==
  ASSUME PendingInv, UNCHANGED <<pending, grants, stranded>>,
         \A u \in Thread : pc[u] = "leasing" => pc'[u] = pc[u] /\ job'[u] = job[u]
  PROVE  PendingInv'
  <1>1. \A p \in Process : \A o \in pending'[p] :
           /\ \A t \in Thread : Asking(t, p, o) => Asking(t, p, o)'
           /\ \A g \in Grant : Holding(g, p, o) => Holding(g, p, o)'
           /\ o \in stranded[p] => o \in stranded'[p]
    BY DEF Asking, Holding
  <1>2. PendingTyped' /\ \A p \in Process : pending'[p] \subseteq pending[p]
    BY DEF PendingInv, PendingTyped
  <1> QED BY <1>1, <1>2, PendingStep

\* What a drop leaves: the offer is gone from one process, nothing else changes.
Dropping(q, x) ==
  /\ x \notin pending'[q]
  /\ \A p \in Process : \A o \in pending'[p] : o \in stranded[p] => o \in stranded'[p]

LEMMA DropEffect ==
  ASSUME PendingInv, NEW q \in Process, NEW x, Drop(q, x)
  PROVE  /\ PendingTyped' /\ Dropping(q, x)
         /\ \A p \in Process : pending'[p] \subseteq pending[p]
  <1>1. /\ pending' = [pending EXCEPT ![q] = pending[q] \ {x}]
        /\ stranded' = [stranded EXCEPT ![q] = stranded[q] \ {x}]
    BY DEF Drop
  <1>2. PendingTyped'
    BY <1>1 DEF PendingInv, PendingTyped
  <1>3. \A p \in Process :
          /\ pending'[p] = IF p = q THEN pending[p] \ {x} ELSE pending[p]
          /\ stranded'[p] = IF p = q THEN stranded[p] \ {x} ELSE stranded[p]
    BY <1>1 DEF PendingInv, PendingTyped
  <1> QED BY <1>2, <1>3 DEF Dropping

\* Giving back the reservation of the grant a thread works on.
LEMMA ReleasePending ==
  ASSUME SInv, PendingInv, NEW t \in Thread, job[t].grant \in Grant,
         pc[t] \in Locked, ReleaseReservation(t, job[t].grant),
         \A u \in Thread \ {t} : pc'[u] = pc[u] /\ job'[u] = job[u]
  PROVE  PendingInv'
  <1> DEFINE g == job[t].grant
             q == Home[t]
  <1>1. grants[g].offer = job[t].offer /\ pc[t] # "leasing"
    BY DEF SInv, CallOf, Locked, Writing, InRegistry
  <1>2. /\ grants'[g].held = IF grants[g].held = q THEN NoProcess ELSE grants[g].held
        /\ grants'[g].offer = grants[g].offer
        /\ \A h \in Grant \ {g} : grants'[h] = grants[h]
    BY DEF ReleaseReservation, SInv, Typed, GrantRecord
  <1>3. q \in Process /\ Drop(q, job[t].offer)
    BY HomeAssumption DEF ReleaseReservation
  <1> HIDE DEF g, q
  <1>4. /\ PendingTyped' /\ Dropping(q, job[t].offer)
        /\ \A p \in Process : pending'[p] \subseteq pending[p]
    BY <1>3, DropEffect
  <1>5. ASSUME NEW p \in Process, NEW o \in pending'[p], NEW h \in Grant, Holding(h, p, o)
        PROVE  Holding(h, p, o)'
    <2>1. CASE h = g
      <3>1. p # q
        BY <1>1, <1>4, <1>5, <2>1 DEF Holding, Dropping
      <3> QED BY <1>2, <1>5, <2>1, <3>1 DEF Holding
    <2>2. CASE h # g
      BY <1>2, <1>5, <2>2 DEF Holding
    <2> QED BY <2>1, <2>2
  <1>6. ASSUME NEW p \in Process, NEW o, NEW u \in Thread, Asking(u, p, o)
        PROVE  Asking(u, p, o)'
    BY <1>1, <1>6 DEF Asking
  <1> QED BY <1>4, <1>5, <1>6, PendingStep DEF Dropping

\* Ending a call, in the registry block or outside it.
LEMMA EndPending ==
  ASSUME SInv, PendingInv, NEW t \in Thread, pc[t] # "leasing", LeaveRegistry(t),
         \A u \in Thread \ {t} : pc'[u] = pc[u] /\ job'[u] = job[u]
  PROVE  PendingInv'
  <1>1. CASE UNCHANGED <<pending, grants, stranded>>
    BY <1>1, PendingUntouched
  <1>2. CASE holder = t /\ job[t].grant # NoGrant
    <2>1. pc[t] \in Locked
      BY <1>2 DEF SInv, CallOf, Typed, Stage, Locked, Writing, InRegistry
    <2>2. job[t].grant \in Grant
      BY <2>1 DEF SInv, CallOf, Locked
    <2> QED BY <1>2, <2>1, <2>2, ReleasePending DEF LeaveRegistry
  <1> QED BY <1>1, <1>2 DEF LeaveRegistry

\* An accept adds its amount to what its balance has left.
LEMMA AcceptPending ==
  ASSUME SInv, AmountsInv, PendingInv, NEW t \in Thread, NEW o \in Offer,
         NEW attested \in Attested, NEW expired, Accept(t, o, attested, expired)
  PROVE  PendingInv'
  <1> DEFINE p == Home[t]
             live == Pruned(p, o, expired)
             payer == Payer[o]
  <1>1. p \in Process /\ payer \in Party /\ Cost[o] \in Nat
    BY HomeAssumption, OfferAssumption
  <1>2. live \in SUBSET pending[p] /\ pending[p] \in SUBSET Offer /\ o \notin live
    BY <1>1 DEF Pruned, PendingInv, PendingTyped
  <1>3. /\ PendingTyped' /\ pending'[p] = live \cup {o}
        /\ \A q \in Process \ {p} : pending'[q] = pending[q] /\ stranded'[q] = stranded[q]
        /\ stranded'[p] = stranded[p] \cap live
    BY <1>1, <1>2 DEF Accept, PendingInv, PendingTyped
  <1>4. /\ pc[t] = "idle" /\ pc'[t] = "leasing" /\ job'[t].offer = o /\ UNCHANGED grants
        /\ \A u \in Thread \ {t} : pc'[u] = pc[u] /\ job'[u] = job[u]
    BY DEF Accept, Goto, Call, SInv, Typed
  <1>5. attested - Settled(reg, payer) - Reserved(live, payer) >= Cost[o]
    BY DEF Accept, Available
  <1> HIDE DEF p, live
  <1>6. ASSUME NEW q \in Process, NEW x, Owned(q, x), q = p => x \in live PROVE Owned(q, x)'
    <2>1. ASSUME NEW u \in Thread, Asking(u, q, x) PROVE Asking(u, q, x)'
      BY <1>4, <2>1 DEF Asking
    <2>2. ASSUME NEW g \in Grant, Holding(g, q, x) PROVE Holding(g, q, x)'
      BY <1>4, <2>2 DEF Holding
    <2>3. x \in stranded[q] => x \in stranded'[q]
      BY <1>3, <1>6
    <2> QED BY <1>6, <2>1, <2>2, <2>3 DEF Owned
  <1>7. Owned(p, o)'
    BY <1>4 DEF Owned, Asking, p
  <1>8. ASSUME NEW party \in Party PROVE Fits(live \cup {o}, party)
    <2>1. CASE party = payer
      <3>1. OffersOf(live \cup {o}, payer) = OffersOf(live, payer) \cup {o}
            /\ o \notin OffersOf(live, payer)
        BY <1>2 DEF OffersOf
      <3>2. /\ IsFiniteSet(OffersOf(live, payer))
            /\ \A x \in OffersOf(live, payer) \cup {o} : Cost[x] \in Int
        BY <1>2, ReservedNat
      <3>3. Reserved(live \cup {o}, payer) = Cost[o] + Reserved(live, payer)
        <4>1. SumFunctionOnSet(Cost, OffersOf(live, payer) \cup {o})
                = Cost[o] + SumFunctionOnSet(Cost, OffersOf(live, payer))
          BY <3>1, <3>2, SumInsert
        <4>2. live \in SUBSET Offer /\ live \cup {o} \in SUBSET Offer
          BY <1>2
        <4> QED BY <3>1, <4>1, <4>2, ReservedNat
      <3>4. Settled(reg, payer) \in Nat /\ Reserved(live, payer) \in Nat /\ attested \in Nat
        BY <1>2, SettledNat, ReservedNat, NumberAssumption DEF AmountsInv
      <3>5. Reserved(live \cup {o}, payer) <= attested
        <4> HIDE DEF payer
        <4> QED BY <1>1, <1>5, <3>3, <3>4
      <3> QED BY <2>1, <3>5 DEF Fits
    <2>2. CASE party # payer
      <3>1. OffersOf(live \cup {o}, party) = OffersOf(live, party)
        BY <2>2 DEF OffersOf
      <3>2. Reserved(live \cup {o}, party) = Reserved(live, party)
        BY <3>1 DEF Reserved, OffersOf
      <3>3. Fits(live, party)
        BY <1>1, <1>2, PendingParts, ReservedPart
      <3> QED BY <3>2, <3>3 DEF Fits
    <2> QED BY <2>1, <2>2
  <1>9. ASSUME NEW q \in Process
        PROVE  /\ \A x \in pending'[q] : Owned(q, x)'
               /\ \A party \in Party : Fits(pending'[q], party)
    <2>1. CASE q = p
      <3>1. \A x \in live : Owned(p, x)
        BY <1>1, <1>2, PendingParts
      <3> QED BY <1>3, <1>6, <1>7, <1>8, <2>1, <3>1
    <2>2. CASE q # p
      <3>1. pending'[q] = pending[q]
        BY <1>3, <2>2
      <3> QED BY <1>6, <2>2, <3>1, PendingParts
    <2> QED BY <2>1, <2>2
  <1> QED BY <1>3, <1>9 DEF PendingInv, ReservationsKept, Owned, Asking, Holding, Fits, Reserved

\* The refused offer leaves what the pruning left.
LEMMA RefusePending ==
  ASSUME SInv, PendingInv, NEW t \in Thread, NEW o, NEW attested, NEW expired,
         RefuseOffer(t, o, attested, expired)
  PROVE  PendingInv'
  <1> DEFINE q == Home[t]
             live == Pruned(q, o, expired)
  <1>1. q \in Process /\ live \subseteq pending[q]
    BY HomeAssumption DEF Pruned
  <1>2. /\ pending' = [pending EXCEPT ![q] = live]
        /\ stranded' = [stranded EXCEPT ![q] = stranded[q] \cap live]
    BY DEF RefuseOffer
  <1> HIDE DEF q, live
  <1>3. /\ PendingTyped'
        /\ \A p \in Process :
             /\ pending'[p] \subseteq pending[p]
             /\ \A x \in pending'[p] : x \in stranded[p] => x \in stranded'[p]
    BY <1>1, <1>2 DEF PendingInv, PendingTyped
  <1>4. UNCHANGED <<grants, pc, job>>
    BY DEF RefuseOffer
  <1> QED BY <1>3, <1>4, PendingStep DEF Asking, Holding

\* The reservation passes from the accept to the grant, or is dropped.
LEMMA IssuePending ==
  ASSUME SInv, PendingInv, NEW t \in Thread, NEW g \in Grant, IssueGrant(t, g)
  PROVE  PendingInv'
  <1>1. /\ UNCHANGED <<pending, stranded>> /\ grants[g] = Unissued
        /\ grants'[g].offer = job[t].offer /\ grants'[g].held = Home[t]
        /\ \A h \in Grant \ {g} : grants'[h] = grants[h]
    BY DEF IssueGrant, history, SInv, Typed
  <1>2. \A u \in Thread \ {t} : pc'[u] = pc[u] /\ job'[u] = job[u]
    BY ReturnKeeps DEF IssueGrant, SInv
  <1>3. ASSUME NEW p \in Process, NEW o \in pending[p], NEW u \in Thread, Asking(u, p, o)
        PROVE  Asking(u, p, o)' \/ \E h \in Grant : Holding(h, p, o)'
    BY <1>1, <1>2, <1>3 DEF Asking, Holding
  <1>4. ASSUME NEW p \in Process, NEW o \in pending[p], NEW h \in Grant, Holding(h, p, o)
        PROVE  Holding(h, p, o)'
    <2>1. o \in Offer
      BY DEF PendingInv, PendingTyped
    <2>2. h # g
      BY <1>1, <1>4, <2>1, NoneAssumption DEF Holding, Unissued
    <2> QED BY <1>1, <1>4, <2>2 DEF Holding
  <1> QED BY <1>1, <1>3, <1>4, PendingStep DEF PendingInv, PendingTyped

LEMMA DenyPending ==
  ASSUME SInv, PendingInv, NEW t \in Thread, DenyLease(t)
  PROVE  PendingInv'
  <1>1. UNCHANGED grants /\ Home[t] \in Process /\ Drop(Home[t], job[t].offer)
    BY HomeAssumption DEF DenyLease
  <1>2. \A u \in Thread \ {t} : pc'[u] = pc[u] /\ job'[u] = job[u]
    BY ReturnKeeps DEF DenyLease, SInv
  <1>3. /\ PendingTyped' /\ Dropping(Home[t], job[t].offer)
        /\ \A p \in Process : pending'[p] \subseteq pending[p]
    BY <1>1, DropEffect
  <1>4. ASSUME NEW p \in Process, NEW o \in pending'[p], NEW u \in Thread, Asking(u, p, o)
        PROVE  Asking(u, p, o)'
    <2>1. u # t
      BY <1>3, <1>4 DEF Asking, Dropping
    <2> QED BY <1>2, <1>4, <2>1 DEF Asking
  <1> QED BY <1>1, <1>3, <1>4, PendingStep DEF Holding, Dropping

\* The accept that is cut off leaves its reservation among the stranded ones.
LEMMA InterruptPending ==
  ASSUME SInv, PendingInv, NEW t \in Thread, InterruptAccept(t)
  PROVE  PendingInv'
  <1> DEFINE q == Home[t]
  <1>1. /\ UNCHANGED <<grants, pending>> /\ q \in Process
        /\ stranded' = [stranded EXCEPT ![q] = stranded[q] \cup {job[t].offer}]
    BY HomeAssumption DEF InterruptAccept
  <1>2. \A u \in Thread \ {t} : pc'[u] = pc[u] /\ job'[u] = job[u]
    BY ReturnKeeps DEF InterruptAccept, SInv
  <1>3. pc[t] = "leasing"
    BY DEF InterruptAccept
  <1>4. job[t].offer \in Offer
    BY <1>3 DEF SInv, CallOf
  <1>5. /\ PendingTyped' /\ job[t].offer \in stranded'[q]
        /\ \A p \in Process : stranded[p] \subseteq stranded'[p]
    BY <1>1, <1>4 DEF PendingInv, PendingTyped
  <1>6. ASSUME NEW p \in Process, NEW o \in pending[p], Owned(p, o) PROVE Owned(p, o)'
    <2>1. ASSUME NEW u \in Thread, Asking(u, p, o) PROVE Owned(p, o)'
      <3>1. CASE u = t
        BY <1>5, <2>1, <3>1 DEF Asking, Owned
      <3>2. CASE u # t
        BY <1>2, <2>1, <3>2 DEF Asking, Owned
      <3> QED BY <3>1, <3>2
    <2>2. ASSUME NEW g \in Grant, Holding(g, p, o) PROVE Owned(p, o)'
      BY <1>1, <2>2 DEF Holding, Owned
    <2>3. o \in stranded[p] => Owned(p, o)'
      BY <1>5 DEF Owned
    <2> QED BY <1>6, <2>1, <2>2, <2>3 DEF Owned
  <1> HIDE DEF q
  <1>7. ASSUME NEW p \in Process
        PROVE  /\ \A o \in pending'[p] : Owned(p, o)'
               /\ \A party \in Party : Fits(pending'[p], party)
    BY <1>1, <1>6, PendingParts
  <1> QED BY <1>5, <1>7 DEF PendingInv, ReservationsKept, Owned, Asking, Holding, Fits, Reserved

LEMMA BuildPending ==
  ASSUME SInv, PendingInv, NEW g \in Grant, NEW o \in Offer, BuildGrant(g, o)
  PROVE  PendingInv'
  <1>1. /\ UNCHANGED <<pending, stranded, pc, job>> /\ grants[g] = Unissued
        /\ \A h \in Grant \ {g} : grants'[h] = grants[h]
    BY DEF BuildGrant, history, SInv, Typed
  <1>2. ASSUME NEW p \in Process, NEW x \in pending[p], NEW h \in Grant, Holding(h, p, x)
        PROVE  Holding(h, p, x)'
    <2>1. x \in Offer
      BY DEF PendingInv, PendingTyped
    <2>2. h # g
      BY <1>1, <1>2, <2>1, NoneAssumption DEF Holding, Unissued
    <2> QED BY <1>1, <1>2, <2>2 DEF Holding
  <1> QED BY <1>1, <1>2, PendingStep DEF PendingInv, PendingTyped, Asking

\* A kill empties the reservations of its process, and of no other.
LEMMA KillPending ==
  ASSUME SInv, PendingInv, NEW p \in Process, Kill(p)
  PROVE  PendingInv'
  <1>1. /\ PendingTyped' /\ pending'[p] = {}
        /\ \A q \in Process \ {p} : pending'[q] = pending[q] /\ stranded'[q] = stranded[q]
    BY DEF Kill, PendingInv, PendingTyped
  <1>2. ASSUME NEW q \in Process, NEW o \in pending'[q], NEW g \in Grant, Holding(g, q, o)
        PROVE  Holding(g, q, o)'
    BY <1>1, <1>2 DEF Kill, Holding
  <1>3. ASSUME NEW q \in Process, NEW o \in pending'[q], NEW u \in Thread, Asking(u, q, o)
        PROVE  Asking(u, q, o)'
    BY <1>1, <1>3 DEF Kill, Asking
  <1> QED BY <1>1, <1>2, <1>3, PendingStep

LEMMA NextPending == SInv /\ AmountsInv /\ PendingInv /\ [Next]_vars => PendingInv'
  <1> SUFFICES ASSUME SInv, AmountsInv, PendingInv, [Next]_vars PROVE PendingInv'
    OBVIOUS
  <1>1. ASSUME NEW t \in Thread, Return(t), LeaveRegistry(t), pc[t] # "leasing"
        PROVE  PendingInv'
    BY <1>1, ReturnKeeps, EndPending DEF SInv
  <1>2. ASSUME NEW t \in Thread, Return(t), pc[t] = "settling",
               ReleaseReservation(t, job[t].grant)
        PROVE  PendingInv'
    <2>1. job[t].grant \in Grant
      BY <1>2 DEF SInv, CallOf
    <2> QED BY <1>2, <2>1, ReturnKeeps, ReleasePending DEF SInv, Locked
  <1>3. ASSUME NEW t \in Thread, UNCHANGED <<pending, grants, stranded>>, pc[t] # "leasing",
               \A u \in Thread \ {t} : pc'[u] = pc[u] /\ job'[u] = job[u]
        PROVE  PendingInv'
    BY <1>3, PendingUntouched
  <1>4. ASSUME NEW t \in Thread, AppendObligation(t) PROVE PendingInv'
    BY <1>3, <1>4 DEF AppendObligation, Goto, SInv, Typed, history
  <1>5. ASSUME NEW t \in Thread, NEW d \in Nat, Debits(t, d) PROVE PendingInv'
    <2>1. CASE DebitAll(t)
      BY <2>1, EndPending DEF DebitAll, Goto, SInv, Typed
    <2>2. CASE DebitLess(t, d)
      BY <1>3, <2>2 DEF DebitLess, Goto, SInv, Typed
    <2>3. CASE DebitRaises(t, d)
      BY <1>1, <2>3 DEF DebitRaises
    <2> QED BY <1>5, <2>1, <2>2, <2>3 DEF Debits
  <1>6. ASSUME NEW t \in Thread, Rewrites(t) PROVE PendingInv'
    <2>1. CASE RollBack(t) \/ ReplacePartial(t) \/ Compact(t)
      BY <1>3, <2>1 DEF RollBack, ReplacePartial, Compact, Goto, SInv, Typed, history
    <2> QED BY <1>1, <1>2, <1>6, <2>1 DEF Rewrites, UndoAppend, AppendFails
  <1>7. ASSUME NEW t \in Thread, Quiet(t) PROVE PendingInv'
    <2>1. ASSUME NEW o \in Offer, NEW attested \in Attested, NEW expired,
                 Accept(t, o, attested, expired) \/ RefuseOffer(t, o, attested, expired)
          PROVE  PendingInv'
      BY <2>1, AcceptPending, RefusePending
    <2>2. ASSUME NEW g \in Grant, IssueGrant(t, g) \/ BeginSettle(t, g) PROVE PendingInv'
      <3>1. CASE IssueGrant(t, g)
        BY <3>1, IssuePending
      <3>2. CASE BeginSettle(t, g)
        BY <1>3, <3>2 DEF BeginSettle, Goto, SInv, Typed, history
      <3> QED BY <2>2, <3>1, <3>2
    <2>3. CASE AdvanceTip(t) \/ Credit(t)
      BY <1>3, <2>3 DEF AdvanceTip, Credit, Goto, SInv, Typed, history
    <2>4. CASE AdvancePartialTip(t) \/ RollBackTip(t) \/ CompactTip(t) \/ Abandon(t)
      BY <1>1, <2>4 DEF AdvancePartialTip, RollBackTip, CompactTip, Abandon
    <2>5. CASE DenyLease(t) \/ InterruptAccept(t)
      BY <2>5, DenyPending, InterruptPending
    <2>6. ASSUME NEW precise, RefuseSettle(t, precise) PROVE PendingInv'
      BY <1>2, <2>6 DEF RefuseSettle
    <2> QED BY <1>7, <2>1, <2>2, <2>3, <2>4, <2>5, <2>6 DEF Quiet
  <1>8. CASE UNCHANGED vars
    BY <1>8, PendingUntouched DEF vars, history
  <1>9. CASE QuietStep
    BY <1>7, <1>8, <1>9, KillPending, BuildPending DEF QuietStep
  <1> QED BY <1>4, <1>5, <1>6, <1>9, StepsSplit

LEMMA InitPending == Init => PendingInv
  <1> SUFFICES ASSUME Init PROVE PendingInv
    OBVIOUS
  <1>1. pending = [p \in Process |-> {}] /\ stranded = [p \in Process |-> {}]
    BY DEF Init
  <1>2. ASSUME NEW party \in Party PROVE Fits({}, party)
    <2>1. Reserved({}, party) = 0
      BY SumEmpty DEF Reserved
    <2>2. PICK attested \in Attested : TRUE
      BY NumberAssumption
    <2> QED BY <2>1, <2>2, NumberAssumption DEF Fits
  <1> QED BY <1>1, <1>2, PendingParts DEF PendingTyped

\* Every reservation is owned by an accept or an unsettled grant of its process,
\* or was left by an accept that was cut off, and a party's reservations fit a
\* balance attested for it (verify_and_accept and the finally of settle).
THEOREM NoReservationLeft == Spec => []ReservationsKept
  <1>1. PendingInv => ReservationsKept
    BY DEF PendingInv
  <1> QED BY <1>1, InitPending, NextPending, AmountsInvariant, SettlementInvariant, PTL DEF Spec
=============================================================================
