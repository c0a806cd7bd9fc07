----------------------------- MODULE MintProofs -----------------------------
(***************************************************************************)
(* Proofs about Mint under Pending, for any processes, calls, evidence and *)
(* bounds: what the receipt chain says of strict, fresh and promoted       *)
(* credits, that failures never contradict its checkpoint, that a deferred *)
(* displacement mints at most once, that the replays of an evidence earn a *)
(* bounded amount, and that the ledger holds no earning without receipts.  *)
(***************************************************************************)
EXTENDS Pending, SumTheorems, SequenceTheorems

-----------------------------------------------------------------------------
(* Positions and logs *)

\* A set of positions has a largest one: of the intervals above its members
\* one holds no other strictly.
LEMMA LargestExists ==
  ASSUME NEW n \in Nat, NEW S \in SUBSET (1..n), S # {}
  PROVE  \E x \in S : \A y \in S : x >= y
  <1> DEFINE Above(x) == (x + 1)..n
             T == {Above(x) : x \in S}
  <1>1. IsFiniteSet(1..n)
    BY FS_Interval
  <1>2. T \subseteq FiniteSubsetsOf(1..n) /\ T # {}
    <2>1. \A x \in S : Above(x) \subseteq 1..n
      OBVIOUS
    <2>2. \A x \in S : IsFiniteSet(Above(x))
      BY <1>1, <2>1, FS_Subset
    <2> QED BY <2>1, <2>2 DEF FiniteSubsetsOf
  <1>3. PICK m \in T : \A k \in T : <<k, m>> \notin StrictSubsetOrdering(1..n)
    <2> HIDE DEF T
    <2> QED BY <1>1, <1>2, FS_StrictSubsetOrderingWellFounded, WFMin
  <1>4. PICK x \in S : m = Above(x)
    BY <1>3
  <1>5. \A y \in S : x >= y
    <2> SUFFICES ASSUME NEW y \in S, y > x PROVE FALSE
      OBVIOUS
    <2>1. Above(y) \subseteq Above(x) /\ y \in Above(x) /\ y \notin Above(y)
      OBVIOUS
    <2>2. <<Above(y), Above(x)>> \in StrictSubsetOrdering(1..n)
      BY <2>1 DEF StrictSubsetOrdering
    <2> QED BY <1>3, <1>4, <2>2
  <1> QED BY <1>5

LEMMA MaxInSet ==
  ASSUME NEW n \in Nat, NEW S \in SUBSET (1..n), S # {}
  PROVE  Max(S) \in S
  BY LargestExists DEF Max

\* A sequence, whatever its entries are.
IsLog(s) == \E S : s \in Seq(S)

LEMMA LogLength ==
  ASSUME NEW s, IsLog(s)
  PROVE  Len(s) \in Nat /\ DOMAIN s = 1..Len(s)
  BY DEF IsLog

\* Appending keeps every entry where it is.
LEMMA AppendedLog ==
  ASSUME NEW s, IsLog(s), NEW e
  PROVE  /\ IsLog(Append(s, e))
         /\ Len(Append(s, e)) = Len(s) + 1
         /\ DOMAIN Append(s, e) = 1..(Len(s) + 1)
         /\ \A i \in 1..Len(s) : Append(s, e)[i] = s[i]
         /\ Append(s, e)[Len(s) + 1] = e
  <1>1. PICK S : s \in Seq(S)
    BY DEF IsLog
  <1> DEFINE T == S \cup {e}
  <1>2. s \in Seq(T) /\ e \in T
    BY <1>1
  <1> HIDE DEF T
  <1>3. Append(s, e) \in Seq(T)
    BY <1>2
  <1> QED BY <1>2, <1>3, AppendProperties DEF IsLog

\* Sequences with the same length and entries are the same.
LEMMA SameLog ==
  ASSUME NEW s, NEW t, IsLog(s), IsLog(t), Len(s) = Len(t),
         \A i \in 1..Len(s) : s[i] = t[i]
  PROVE  s = t
  <1>1. PICK S, T : s \in Seq(S) /\ t \in Seq(T)
    BY DEF IsLog
  <1> DEFINE U == S \cup T
  <1>2. s \in Seq(U) /\ t \in Seq(U)
    BY <1>1
  <1> HIDE DEF U
  <1> QED BY <1>2, SeqEqual

-----------------------------------------------------------------------------
(* Types, tokens apart *)

Typed ==
  /\ IsLog(log) /\ IsLog(tip)
  /\ holder \in Process \cup {NoProcess}
  /\ pc \in [Process -> Stages]
  /\ job = [p \in Process |-> job[p]]
  /\ \A p \in Process : job[p].prior \in Nat

Inv == Typed /\ MintInvariant

LEMMA TaskParts ==
  ASSUME NEW c, NEW prior, NEW tokens
  PROVE  /\ Task(c, prior, tokens).call = c
         /\ Task(c, prior, tokens).prior = prior
         /\ Task(c, prior, tokens).tokens = tokens
  BY DEF Task

\* A new stage and task of one process.
LEMMA Updated ==
  ASSUME Typed, NEW p \in Process, NEW s, NEW j,
         pc' = [pc EXCEPT ![p] = s], job' = [job EXCEPT ![p] = j]
  PROVE  /\ pc'[p] = s /\ job'[p] = j
         /\ \A q \in Process : q # p => pc'[q] = pc[q] /\ job'[q] = job[q]
         /\ s \in Stages => pc' \in [Process -> Stages]
         /\ job' = [q \in Process |-> job'[q]]
  BY DEF Typed

LEMMA UpdatedStage ==
  ASSUME Typed, NEW p \in Process, NEW s, pc' = [pc EXCEPT ![p] = s], job' = job
  PROVE  job' = [job EXCEPT ![p] = job[p]]
  BY DEF Typed

-----------------------------------------------------------------------------
(* Steps of one process that leave the log alone *)

Rows == PromotionsAnchored /\ StrictOnce /\ FreshOnce /\ PromotedOnce

\* What is said of the log alone stays true of it.
LEMMA SameRows ==
  ASSUME Rows, log' = log
  PROVE  Rows'
  BY DEF Rows, PromotionsAnchored, StrictOnce, FreshOnce, PromotedOnce

LEMMA SamePrefix ==
  ASSUME TipIsPrefix, log' = log, tip' = tip
  PROVE  TipIsPrefix'
  BY DEF TipIsPrefix

\* A process that does not move knows what it knew.
LEMMA OthersKeep ==
  ASSUME NEW q \in Process, Prepared(q), Checked(q),
         log' = log, tail' = tail, pc'[q] = pc[q], job'[q] = job[q]
  PROVE  Prepared(q)' /\ Checked(q)'
  BY DEF Prepared, Checked, EvidenceRetained, Verifies

\* So a step that moves one process has to say what that one knows then.
LEMMA FrameKeeps ==
  ASSUME Inv, NEW p \in Process, NEW s \in Stages, NEW j, j.prior \in Nat,
         log' = log, tip' = tip, tail' = tail,
         pc' = [pc EXCEPT ![p] = s], job' = [job EXCEPT ![p] = j],
         holder' \in Process \cup {NoProcess}, LockExclusive',
         Prepared(p)', Checked(p)'
  PROVE  Inv'
  <1>1. /\ pc'[p] = s /\ job'[p] = j
        /\ \A q \in Process : q # p => pc'[q] = pc[q] /\ job'[q] = job[q]
        /\ pc' \in [Process -> Stages] /\ job' = [q \in Process |-> job'[q]]
    BY Updated DEF Inv
  <1>2. Typed'
    BY <1>1 DEF Inv, Typed, IsLog
  <1>3. \A q \in Process : Prepared(q)' /\ Checked(q)'
    <2> SUFFICES ASSUME NEW q \in Process, q # p PROVE Prepared(q)' /\ Checked(q)'
      OBVIOUS
    <2> QED BY <1>1, OthersKeep DEF Inv, MintInvariant
  <1> QED BY <1>2, <1>3, SameRows, SamePrefix DEF Inv, MintInvariant, Rows

Locked(stage) == stage \in {"reserve", "append", "tip", "earn"}

\* The lock after a step of one process.
LEMMA LockFollows ==
  ASSUME Inv, NEW p \in Process, NEW s,
         \A q \in Process : q # p => pc'[q] = pc[q], pc'[p] = s,
         \/ holder' = holder /\ (Locked(s) <=> Locked(pc[p]))
         \/ holder = NoProcess /\ holder' = p /\ Locked(s)
         \/ holder' = (IF holder = p THEN NoProcess ELSE holder) /\ ~Locked(s)
  PROVE  LockExclusive' /\ holder' \in Process \cup {NoProcess}
  BY ProcessAssumption DEF Inv, Typed, MintInvariant, LockExclusive, Locked

LEMMA IdleKnows ==
  ASSUME NEW p \in Process, pc'[p] = "idle"
  PROVE  Prepared(p)' /\ Checked(p)'
  BY DEF Prepared, Checked

\* A call that ends without a record.
LEMMA ReturnKeeps ==
  ASSUME Inv, NEW p \in Process, Return(p), log' = log, tip' = tip, tail' = tail
  PROVE  Inv'
  <1>1. pc' = [pc EXCEPT ![p] = "idle"] /\ job' = [job EXCEPT ![p] = NoJob]
        /\ holder' = IF holder = p THEN NoProcess ELSE holder
    BY DEF Return, Leave, Goto, Unlock
  <1>2. pc'[p] = "idle" /\ \A q \in Process : q # p => pc'[q] = pc[q]
    BY <1>1, Updated DEF Inv
  <1>3. LockExclusive' /\ holder' \in Process \cup {NoProcess}
    BY <1>1, <1>2, LockFollows DEF Locked
  <1>4. Prepared(p)' /\ Checked(p)'
    BY <1>2, IdleKnows
  <1>5. NoJob.prior \in Nat /\ "idle" \in Stages
    BY TaskParts DEF NoJob, Stages
  <1> QED BY <1>1, <1>3, <1>4, <1>5, FrameKeeps

LEMMA LeaveKeeps ==
  ASSUME Inv, NEW p \in Process, Leave(p), ~Locked(pc[p]), holder' = holder,
         log' = log, tip' = tip, tail' = tail
  PROVE  Inv'
  <1>1. holder # p
    BY DEF Inv, MintInvariant, LockExclusive, Locked
  <1> QED BY <1>1, ReturnKeeps DEF Return, Unlock

\* A stage without lock reached from another one: what it must know is left.
LEMMA MoveKeeps ==
  ASSUME Inv, NEW p \in Process, NEW s \in Stages, NEW j, j.prior \in Nat,
         pc' = [pc EXCEPT ![p] = s], job' = [job EXCEPT ![p] = j],
         holder' = holder, ~Locked(s), ~Locked(pc[p]), s # "append",
         log' = log, tip' = tip, tail' = tail,
         s # "idle" => j.call \in CallRecord,
         s \in {"find", "refind", "precheck", "promote"} => Verifies(j.call),
         s \in {"find", "refind", "precheck", "mint"} => j.prior = 0,
         s = "promote" => /\ j.prior # 0 /\ j.tokens = 0 /\ j.prior \in DOMAIN log
                          /\ log[j.prior].kry > 0 /\ log[j.prior].gen = j.call.gen
  PROVE  Inv'
  <1>1. pc'[p] = s /\ job'[p] = j /\ \A q \in Process : q # p => pc'[q] = pc[q]
    BY Updated DEF Inv
  <1>2. LockExclusive' /\ holder' \in Process \cup {NoProcess}
    BY <1>1, LockFollows
  <1>3. Prepared(p)'
    BY <1>1 DEF Prepared, Locked, Verifies
  <1>4. Checked(p)'
    BY <1>1 DEF Checked, Locked
  <1> QED BY <1>2, <1>3, <1>4, FrameKeeps

-----------------------------------------------------------------------------
(* Before the lock *)

\* The receipt a verifier would promote is in the log, and earned.
LEMMA PriorIsCredit ==
  ASSUME Typed, NEW c, PriorCredit(c) # 0
  PROVE  /\ PriorCredit(c) \in DOMAIN log /\ PriorCredit(c) \in Nat
         /\ log[PriorCredit(c)].kry > 0 /\ log[PriorCredit(c)].gen = c.gen
  <1>1. Len(log) \in Nat /\ DOMAIN log = 1..Len(log)
    BY LogLength DEF Typed
  <1>2. Upgradable(c) \in SUBSET (1..Len(log)) /\ Upgradable(c) # {}
        /\ PriorCredit(c) = Max(Upgradable(c))
    BY <1>1, Zenon DEF PriorCredit, Upgradable
  <1>3. PriorCredit(c) \in Upgradable(c)
    BY <1>1, <1>2, MaxInSet
  <1> QED BY <1>1, <1>3 DEF Upgradable

LEMMA BeginKeeps ==
  ASSUME Inv, NEW p \in Process, NEW c \in Call, Begin(p, c)
  PROVE  Inv'
  <1> DEFINE s == IF Verifies(c) THEN "find" ELSE "mint"
             j == Task(c, 0, 0)
  <1>1. pc[p] = "idle" /\ pc' = [pc EXCEPT ![p] = s] /\ job' = [job EXCEPT ![p] = j]
        /\ holder' = holder /\ log' = log /\ tip' = tip /\ tail' = tail
    BY DEF Begin, Goto, files
  <1>2. j.call = c /\ j.prior = 0 /\ c \in CallRecord
    BY TaskParts, CallsAssumption
  <1>3. s \in Stages /\ ~Locked(s) /\ ~Locked(pc[p]) /\ s \in {"find", "mint"}
        /\ (s = "find" => Verifies(j.call))
    BY <1>1, <1>2 DEF Stages, Locked
  <1> HIDE DEF s, j
  <1>4. /\ j.prior \in Nat /\ s # "append" /\ s # "promote"
        /\ s # "idle" => j.call \in CallRecord
        /\ s \in {"find", "refind", "precheck", "promote"} => Verifies(j.call)
        /\ s \in {"find", "refind", "precheck", "mint"} => j.prior = 0
    BY <1>2, <1>3
  <1> QED BY <1>1, <1>3, <1>4, MoveKeeps

\* Moves of a verifier that keep its task.
LEMMA StageKeeps ==
  ASSUME Inv, NEW p \in Process, NEW s \in {"refind", "precheck", "mint"},
         pc' = [pc EXCEPT ![p] = s], job' = job, pc[p] \in {"find", "precheck"},
         holder' = holder, log' = log, tip' = tip, tail' = tail
  PROVE  Inv'
  <1>1. job[p].call \in CallRecord /\ Verifies(job[p].call) /\ job[p].prior = 0
    BY DEF Inv, MintInvariant, Prepared
  <1>2. job' = [job EXCEPT ![p] = job[p]]
    BY UpdatedStage DEF Inv
  <1>3. s \in Stages /\ ~Locked(s) /\ ~Locked(pc[p]) /\ s # "append" /\ s # "promote"
    BY DEF Stages, Locked
  <1> DEFINE j == job[p]
  <1>4. j.prior \in Nat /\ j.call \in CallRecord /\ Verifies(j.call) /\ j.prior = 0
    BY <1>1
  <1>5. job' = [job EXCEPT ![p] = j]
    BY <1>2, Zenon
  <1> HIDE DEF j
  <1> QED BY <1>3, <1>4, <1>5, MoveKeeps

LEMMA FindPriorKeeps ==
  ASSUME Inv, NEW p \in Process, FindPrior(p)
  PROVE  Inv'
  <1>1. PICK s \in {"refind", "precheck", "mint"} : pc' = [pc EXCEPT ![p] = s]
    <2>1. CASE PriorCredit(job[p].call) # 0
      BY <2>1 DEF FindPrior, Goto
    <2>2. CASE PriorCredit(job[p].call) = 0 /\ job[p].call.kind = "tlsn"
      BY <2>2 DEF FindPrior, Goto
    <2>3. CASE PriorCredit(job[p].call) = 0 /\ job[p].call.kind # "tlsn"
      BY <2>3 DEF FindPrior, Goto
    <2> QED BY <2>1, <2>2, <2>3
  <1>2. pc[p] = "find" /\ job' = job /\ holder' = holder
        /\ log' = log /\ tip' = tip /\ tail' = tail
    BY DEF FindPrior, files
  <1> QED BY <1>1, <1>2, StageKeeps

LEMMA FindAgainKeeps ==
  ASSUME Inv, NEW p \in Process, FindAgain(p)
  PROVE  Inv'
  <1> DEFINE c == job[p].call
             prior == PriorCredit(c)
  <1>1. pc[p] = "refind" /\ holder' = holder /\ log' = log /\ tip' = tip /\ tail' = tail
    BY DEF FindAgain, files
  <1>2. c \in CallRecord /\ Verifies(c)
    BY <1>1 DEF Inv, MintInvariant, Prepared
  <1>3. CASE prior = 0
    <2>1. Leave(p)
      BY <1>3 DEF FindAgain
    <2> QED BY <1>1, <2>1, LeaveKeeps DEF Locked
  <1>4. CASE prior # 0
    <2> DEFINE j == Task(c, prior, 0)
    <2>1. pc' = [pc EXCEPT ![p] = "promote"] /\ job' = [job EXCEPT ![p] = j]
      BY <1>4 DEF FindAgain, Goto
    <2>2. prior \in DOMAIN log /\ prior \in Nat /\ log[prior].kry > 0 /\ log[prior].gen = c.gen
      BY <1>4, PriorIsCredit DEF Inv
    <2>3. j.call = c /\ j.prior = prior /\ j.tokens = 0
      BY TaskParts
    <2>4. "promote" \in Stages /\ ~Locked("promote") /\ ~Locked(pc[p])
      BY <1>1 DEF Stages, Locked
    <2> HIDE DEF j, c, prior
    <2> QED BY <1>1, <1>2, <1>4, <2>1, <2>2, <2>3, <2>4, MoveKeeps
  <1> QED BY <1>3, <1>4

LEMMA PreCheckKeeps ==
  ASSUME Inv, NEW p \in Process, PreCheck(p)
  PROVE  Inv'
  <1>1. pc[p] = "precheck" /\ holder' = holder /\ log' = log /\ tip' = tip /\ tail' = tail
    BY DEF PreCheck, files
  <1>2. CASE Leave(p)
    BY <1>1, <1>2, LeaveKeeps DEF Locked
  <1>3. CASE Goto(p, "mint") /\ UNCHANGED job
    BY <1>1, <1>3, StageKeeps DEF Goto
  <1> QED BY <1>2, <1>3 DEF PreCheck

\* Under the lock the receipt is still not promoted.
LEMMA PromoteKeeps ==
  ASSUME Inv, NEW p \in Process, Promote(p)
  PROVE  Inv'
  <1>1. /\ pc[p] = "promote" /\ ~AlreadyPromoted(job[p].prior, job[p].call.kind)
        /\ holder = NoProcess /\ holder' = p /\ pc' = [pc EXCEPT ![p] = "append"]
        /\ job' = job /\ log' = log /\ tip' = tip /\ tail' = tail
    BY DEF Promote, Promotes, Goto, files
  <1>2. job' = [job EXCEPT ![p] = job[p]]
    BY <1>1, UpdatedStage DEF Inv
  <1>3. pc'[p] = "append" /\ job'[p] = job[p] /\ \A q \in Process : q # p => pc'[q] = pc[q]
    BY <1>1 DEF Inv, Typed
  <1>4. LockExclusive' /\ holder' \in Process \cup {NoProcess}
    BY <1>1, <1>3, LockFollows DEF Locked
  <1>5. Prepared(p) /\ PromotionsAnchored /\ job[p].prior \in Nat
    BY DEF Inv, MintInvariant, Typed
  <1>6. Prepared(p)'
    BY <1>1, <1>3, <1>5 DEF Prepared, Verifies
  <1>7. \A i \in DOMAIN log : log[i].supersedes # job[p].prior
    BY <1>1, <1>5 DEF AlreadyPromoted, PromotionsAnchored, Prepared
  <1>8. job[p].call.kind # "strict" /\ job[p].prior # 0
    BY <1>1, <1>5 DEF Prepared, Verifies
  <1>9. Checked(p)'
    BY <1>1, <1>3, <1>7, <1>8 DEF Checked
  <1> DEFINE j == job[p]
  <1>10. j.prior \in Nat /\ "append" \in Stages
    BY <1>5 DEF Stages
  <1>11. job' = [job EXCEPT ![p] = j]
    BY <1>2, Zenon
  <1> HIDE DEF j
  <1> QED BY <1>1, <1>4, <1>6, <1>9, <1>10, <1>11, FrameKeeps

LEMMA EnterKeeps ==
  ASSUME Inv, NEW p \in Process, Enter(p)
  PROVE  Inv'
  <1>1. /\ pc[p] = "mint" /\ Mintable(p)
        /\ holder = NoProcess /\ holder' = p /\ pc' = [pc EXCEPT ![p] = "reserve"]
        /\ job' = job /\ log' = log /\ tip' = tip /\ tail' = tail
    BY DEF Enter, Goto
  <1>2. job' = [job EXCEPT ![p] = job[p]]
    BY <1>1, UpdatedStage DEF Inv
  <1>3. pc'[p] = "reserve" /\ job'[p] = job[p] /\ \A q \in Process : q # p => pc'[q] = pc[q]
    BY <1>1 DEF Inv, Typed
  <1>4. LockExclusive' /\ holder' \in Process \cup {NoProcess}
    BY <1>1, <1>3, LockFollows DEF Locked
  <1>5. Prepared(p) /\ job[p].prior \in Nat
    BY DEF Inv, MintInvariant, Typed
  <1>6. Prepared(p)'
    BY <1>1, <1>3, <1>5 DEF Prepared
  <1>7. Checked(p)'
    BY <1>1, <1>3 DEF Checked, Mintable, EvidenceRetained
  <1> DEFINE j == job[p]
  <1>8. j.prior \in Nat /\ "reserve" \in Stages
    BY <1>5 DEF Stages
  <1>9. job' = [job EXCEPT ![p] = j]
    BY <1>2, Zenon
  <1> HIDE DEF j
  <1> QED BY <1>1, <1>4, <1>6, <1>7, <1>8, <1>9, FrameKeeps

-----------------------------------------------------------------------------
(* Under the lock *)

LEMMA ReserveKeeps ==
  ASSUME Inv, NEW p \in Process, Reserve(p)
  PROVE  Inv'
  <1> DEFINE c == job[p].call
             j == Task(c, 0, Effective(c))
  <1>1. pc[p] = "reserve" /\ log' = log /\ tip' = tip /\ tail' = tail
    BY DEF Reserve
  <1>2. CASE Effective(c) < 1 \/ Duplicate(c)
    BY <1>1, <1>2, ReturnKeeps DEF Reserve
  <1>3. CASE ~(Effective(c) < 1 \/ Duplicate(c))
    <2>1. /\ pc' = [pc EXCEPT ![p] = "append"] /\ job' = [job EXCEPT ![p] = j]
          /\ holder' = holder /\ ~Duplicate(c)
      BY <1>3 DEF Reserve, Goto
    <2>2. j.call = c /\ j.prior = 0
      BY TaskParts
    <2> HIDE DEF j
    <2>3. pc'[p] = "append" /\ job'[p] = j /\ \A q \in Process : q # p => pc'[q] = pc[q]
      BY <2>1, Updated DEF Inv
    <2>4. LockExclusive' /\ holder' \in Process \cup {NoProcess}
      BY <1>1, <2>1, <2>3, LockFollows DEF Locked
    <2>5. Prepared(p) /\ Checked(p)
      BY DEF Inv, MintInvariant
    <2>6. Prepared(p)'
      BY <1>1, <2>2, <2>3, <2>5 DEF Prepared
    <2>7. Verifies(c) => ~FreshCredit(c) /\ Readable
      BY <1>1, <2>1, <2>5 DEF Duplicate, Checked, Readable
    <2>8. Checked(p)'
      BY <1>1, <2>2, <2>3, <2>5, <2>7 DEF Checked, FreshCredit, EvidenceRetained, Verifies
    <2>9. j.prior \in Nat /\ "append" \in Stages
      BY <2>2 DEF Stages
    <2> QED BY <1>1, <2>1, <2>4, <2>6, <2>8, <2>9, FrameKeeps
  <1> QED BY <1>2, <1>3

-----------------------------------------------------------------------------
(* A receipt joins the log *)

LEMMA ReceiptParts ==
  ASSUME NEW p
  PROVE  LET c == job[p].call
             r == Receipt(p)
         IN  /\ r.evidence = c.evidence /\ r.gen = c.gen /\ r.detail = c.detail
             /\ r.tier = IF Verifies(c) THEN c.kind ELSE "self"
             /\ r.strict = (c.kind = "strict")
             /\ r.kry = job[p].tokens * c.worth /\ r.supersedes = job[p].prior
  BY DEF Receipt

\* What the appending process checked under the lock, said of its receipt.
LEMMA ReceiptChecked ==
  ASSUME Inv, NEW p \in Process, pc[p] = "append"
  PROVE  LET r == Receipt(p)
         IN  /\ r.supersedes # 0 =>
                  /\ r.tier # "self" /\ r.kry = 0 /\ r.supersedes \in DOMAIN log
                  /\ log[r.supersedes].kry > 0 /\ log[r.supersedes].gen = r.gen
                  /\ \A i \in DOMAIN log : log[i].supersedes # r.supersedes
             /\ r.strict => \A i \in DOMAIN log : log[i].evidence # r.evidence
             /\ r.tier # "self" /\ r.supersedes = 0 =>
                  \A i \in DOMAIN log :
                    ~(/\ log[i].gen = r.gen /\ log[i].tier = r.tier
                      /\ log[i].supersedes = 0 /\ log[i].kry > 0)
  <1> DEFINE c == job[p].call
             r == Receipt(p)
  <1>1. Prepared(p) /\ Checked(p) /\ c \in CallRecord
    BY DEF Inv, MintInvariant, Prepared
  <1>2. c.worth \in {0, 1} /\ (Verifies(c) => c.kind # "self")
    BY <1>1 DEF CallRecord, Verifies
  <1>3. /\ r.evidence = c.evidence /\ r.gen = c.gen
        /\ r.tier = IF Verifies(c) THEN c.kind ELSE "self"
        /\ r.strict = (c.kind = "strict")
        /\ r.kry = job[p].tokens * c.worth /\ r.supersedes = job[p].prior
    BY ReceiptParts
  <1> HIDE DEF r
  <1>4. r.supersedes # 0 =>
          /\ r.tier # "self" /\ r.kry = 0 /\ r.supersedes \in DOMAIN log
          /\ log[r.supersedes].kry > 0 /\ log[r.supersedes].gen = r.gen
          /\ \A i \in DOMAIN log : log[i].supersedes # r.supersedes
    BY <1>1, <1>2, <1>3 DEF Prepared, Checked
  <1>5. r.strict => \A i \in DOMAIN log : log[i].evidence # r.evidence
    BY <1>1, <1>3 DEF Checked, EvidenceRetained
  <1>6. r.tier # "self" /\ r.supersedes = 0 =>
          \A i \in DOMAIN log :
            ~(/\ log[i].gen = r.gen /\ log[i].tier = r.tier
              /\ log[i].supersedes = 0 /\ log[i].kry > 0)
    BY <1>1, <1>3 DEF Checked
  <1> QED BY <1>4, <1>5, <1>6 DEF r

\* The log with a checked receipt at its end.
LEMMA GrownRows ==
  ASSUME Inv, NEW p \in Process, pc[p] = "append", log' = Append(log, Receipt(p))
  PROVE  Rows'
  <1> DEFINE n == Len(log)
             r == Receipt(p)
  <1>1. n \in Nat /\ DOMAIN log = 1..n
    BY LogLength DEF Inv, Typed
  <1>2. /\ DOMAIN log' = 1..(n + 1) /\ log'[n + 1] = r
        /\ \A i \in 1..n : log'[i] = log[i]
    BY AppendedLog DEF Inv, Typed
  <1>3. /\ r.supersedes # 0 =>
             /\ r.tier # "self" /\ r.kry = 0 /\ r.supersedes \in 1..n
             /\ log[r.supersedes].kry > 0 /\ log[r.supersedes].gen = r.gen
             /\ \A i \in 1..n : log[i].supersedes # r.supersedes
        /\ r.strict => \A i \in 1..n : log[i].evidence # r.evidence
        /\ r.tier # "self" /\ r.supersedes = 0 =>
             \A i \in 1..n :
               ~(/\ log[i].gen = r.gen /\ log[i].tier = r.tier
                 /\ log[i].supersedes = 0 /\ log[i].kry > 0)
    BY <1>1, ReceiptChecked
  <1>4. PromotionsAnchored /\ StrictOnce /\ FreshOnce /\ PromotedOnce
    BY DEF Inv, MintInvariant
  <1> HIDE DEF n, r
  <1>5. PromotionsAnchored'
    BY <1>1, <1>2, <1>3, <1>4 DEF PromotionsAnchored
  <1>6. StrictOnce'
    BY <1>1, <1>2, <1>3, <1>4 DEF StrictOnce
  <1>7. FreshOnce'
    BY <1>1, <1>2, <1>3, <1>4 DEF FreshOnce
  <1>8. PromotedOnce'
    <2>1. \A i, j \in 1..(n + 1) :
            log'[i].supersedes # 0 /\ log'[i].supersedes = log'[j].supersedes => i = j
      BY <1>1, <1>2, <1>3, <1>4 DEF PromotedOnce
    <2>2. ASSUME NEW j \in 1..(n + 1), log'[j].supersedes # 0
          PROVE  /\ log'[j].supersedes < j /\ log'[j].kry = 0
                 /\ log'[log'[j].supersedes].kry > 0
                 /\ log'[log'[j].supersedes].gen = log'[j].gen
      <3>1. CASE j = n + 1
        BY <1>1, <1>2, <1>3, <2>2, <3>1
      <3>2. CASE j \in 1..n
        <4>1. log'[j] = log[j] /\ log[j].supersedes \in 1..n
          BY <1>1, <1>2, <1>4, <2>2, <3>2 DEF PromotionsAnchored
        <4>2. log'[log[j].supersedes] = log[log[j].supersedes]
          BY <1>2, <4>1
        <4> QED BY <1>1, <1>4, <2>2, <3>2, <4>1, <4>2 DEF PromotedOnce
      <3>3. j = n + 1 \/ j \in 1..n
        BY <1>1
      <3> QED BY <3>1, <3>2, <3>3, Zenon
    <2> QED BY <1>2, <2>1, <2>2 DEF PromotedOnce
  <1> QED BY <1>5, <1>6, <1>7, <1>8 DEF Rows

LEMMA GrownPrefix ==
  ASSUME Inv, NEW r, log' = Append(log, r), tip' = tip
  PROVE  TipIsPrefix' /\ IsLog(log')
  <1>1. Len(log) \in Nat /\ Len(tip) \in Nat
    BY LogLength DEF Inv, Typed
  <1>2. /\ IsLog(log') /\ Len(log') = Len(log) + 1
        /\ \A i \in 1..Len(log) : log'[i] = log[i]
    BY AppendedLog DEF Inv, Typed
  <1> QED BY <1>1, <1>2 DEF Inv, MintInvariant, TipIsPrefix

\* The appending process has the lock: the others have checked nothing yet,
\* and the receipts they found are where they were.
LEMMA GrownOthers ==
  ASSUME Inv, NEW p \in Process, pc[p] = "append", NEW r, log' = Append(log, r),
         NEW q \in Process, q # p, pc'[q] = pc[q], job'[q] = job[q]
  PROVE  Prepared(q)' /\ Checked(q)'
  <1>1. ~Locked(pc[q])
    BY DEF Inv, MintInvariant, LockExclusive, Locked
  <1>2. Prepared(q)
    BY DEF Inv, MintInvariant
  <1>3. DOMAIN log = 1..Len(log) /\ Len(log) \in Nat /\ DOMAIN log' = 1..(Len(log) + 1)
        /\ \A i \in 1..Len(log) : log'[i] = log[i]
    BY LogLength, AppendedLog DEF Inv, Typed
  <1>4. Checked(q)'
    BY <1>1 DEF Checked, Locked
  <1>5. job[q].prior \in DOMAIN log =>
          job[q].prior \in DOMAIN log' /\ log'[job[q].prior] = log[job[q].prior]
    BY <1>3
  <1>6. Prepared(q)'
    BY <1>1, <1>2, <1>5 DEF Prepared, Locked, Verifies
  <1> QED BY <1>4, <1>6

LEMMA AppendReceiptKeeps ==
  ASSUME Inv, NEW p \in Process, AppendReceipt(p)
  PROVE  Inv'
  <1>1. /\ pc[p] = "append" /\ log' = Append(log, Receipt(p)) /\ tip' = tip
        /\ pc' = [pc EXCEPT ![p] = "tip"] /\ job' = job /\ holder' = holder
    BY DEF AppendReceipt, Goto
  <1>2. pc' \in [Process -> Stages] /\ pc'[p] = "tip" /\ \A q \in Process : q # p => pc'[q] = pc[q]
    BY <1>1 DEF Inv, Typed, Stages
  <1>3. TipIsPrefix' /\ IsLog(log')
    BY <1>1, GrownPrefix
  <1>4. LockExclusive'
    BY <1>1, <1>2, LockFollows DEF Locked
  <1>5. Prepared(p)' /\ Checked(p)'
    BY <1>1, <1>2 DEF Inv, MintInvariant, Prepared, Checked
  <1>6. \A q \in Process : Prepared(q)' /\ Checked(q)'
    <2> SUFFICES ASSUME NEW q \in Process, q # p PROVE Prepared(q)' /\ Checked(q)'
      BY <1>5
    <2> QED BY <1>1, <1>2, GrownOthers
  <1>7. Typed'
    BY <1>1, <1>2, <1>3 DEF Inv, Typed, IsLog
  <1>8. Rows'
    BY <1>1, GrownRows
  <1> QED BY <1>3, <1>4, <1>6, <1>7, <1>8 DEF Inv, MintInvariant, Rows

\* A record that was written and not acknowledged is a receipt all the same.
LEMMA AppendFailsKeeps ==
  ASSUME Inv, NEW p \in Process, AppendFails(p)
  PROVE  Inv'
  <1>1. pc[p] = "append" /\ Return(p) /\ tip' = tip
    BY DEF AppendFails
  <1>2. /\ pc' = [pc EXCEPT ![p] = "idle"] /\ job' = [job EXCEPT ![p] = NoJob]
        /\ holder' = IF holder = p THEN NoProcess ELSE holder
    BY <1>1 DEF Return, Leave, Goto, Unlock
  <1>3. /\ pc'[p] = "idle" /\ job'[p] = NoJob
        /\ \A q \in Process : q # p => pc'[q] = pc[q] /\ job'[q] = job[q]
        /\ pc' \in [Process -> Stages] /\ job' = [q \in Process |-> job'[q]]
    <2>1. "idle" \in Stages
      BY DEF Stages
    <2> QED BY <1>2, <2>1, Updated DEF Inv
  <1>4. LockExclusive' /\ holder' \in Process \cup {NoProcess}
    BY <1>2, <1>3, LockFollows DEF Locked
  <1>5. Prepared(p)' /\ Checked(p)'
    BY <1>3, IdleKnows
  <1>6. \A q \in Process : job'[q].prior \in Nat
    BY <1>3, TaskParts DEF NoJob, Inv, Typed
  <1>7. CASE log' = log
    <2>1. \A q \in Process : Prepared(q)' /\ Checked(q)'
      <3> SUFFICES ASSUME NEW q \in Process, q # p PROVE Prepared(q)' /\ Checked(q)'
        BY <1>5
      <3>1. ~Locked(pc'[q])
        BY <1>1, <1>3 DEF Inv, MintInvariant, LockExclusive, Locked
      <3>2. Prepared(q)
        BY DEF Inv, MintInvariant
      <3> QED BY <1>3, <1>7, <3>1, <3>2 DEF Prepared, Checked, Locked, Verifies
    <2>2. Typed'
      BY <1>1, <1>3, <1>4, <1>6, <1>7 DEF Inv, Typed, IsLog
    <2> QED BY <1>1, <1>4, <1>7, <2>1, <2>2, SameRows, SamePrefix DEF Inv, MintInvariant, Rows
  <1>8. CASE log' = Append(log, Receipt(p))
    <2>1. \A q \in Process : Prepared(q)' /\ Checked(q)'
      <3> SUFFICES ASSUME NEW q \in Process, q # p PROVE Prepared(q)' /\ Checked(q)'
        BY <1>5
      <3> QED BY <1>1, <1>3, <1>8, GrownOthers
    <2>2. TipIsPrefix' /\ IsLog(log')
      BY <1>1, <1>8, GrownPrefix
    <2>3. Typed'
      BY <1>1, <1>3, <1>4, <1>6, <2>2 DEF Inv, Typed, IsLog
    <2>4. Rows'
      BY <1>1, <1>8, GrownRows
    <2> QED BY <1>4, <2>1, <2>2, <2>3, <2>4 DEF Inv, MintInvariant, Rows
  <1> QED BY <1>7, <1>8 DEF AppendFails

\* A mint goes on to its credit, a promotion returns.
LEMMA AfterTipKeeps ==
  ASSUME Inv, NEW p \in Process, pc[p] = "tip", AfterTip(p),
         log' = log, tip' = tip, tail' = tail
  PROVE  Inv'
  <1>1. CASE Promotion(p)
    BY <1>1, ReturnKeeps DEF AfterTip
  <1>2. CASE ~Promotion(p)
    <2> DEFINE j == job[p]
    <2>1. pc' = [pc EXCEPT ![p] = "earn"] /\ job' = job /\ holder' = holder
      BY <1>2 DEF AfterTip, Goto
    <2>2. pc'[p] = "earn" /\ job'[p] = job[p] /\ \A q \in Process : q # p => pc'[q] = pc[q]
      BY <2>1 DEF Inv, Typed
    <2>3. LockExclusive' /\ holder' \in Process \cup {NoProcess}
      BY <2>1, <2>2, LockFollows DEF Locked
    <2>4. Prepared(p)' /\ Checked(p)'
      BY <2>1, <2>2 DEF Inv, MintInvariant, Prepared, Checked
    <2>5. j.prior \in Nat /\ "earn" \in Stages
      BY DEF Inv, Typed, Stages
    <2>6. job' = [job EXCEPT ![p] = j]
      BY <2>1, UpdatedStage, Zenon DEF Inv
    <2> HIDE DEF j
    <2> QED BY <2>1, <2>3, <2>4, <2>5, <2>6, FrameKeeps
  <1> QED BY <1>1, <1>2

\* The checkpoint becomes the log.  It matters to nothing else.
LEMMA AdvanceTipKeeps ==
  ASSUME Inv, NEW p \in Process, AdvanceTip(p)
  PROVE  Inv'
  <1>1. pc[p] = "tip" /\ tip' = log /\ log' = log /\ tail' = tail /\ AfterTip(p)
    BY DEF AdvanceTip
  <1>2. TipIsPrefix' /\ IsLog(tip')
    <2>1. Len(log) \in Nat /\ IsLog(log)
      BY LogLength DEF Inv, Typed
    <2> QED BY <1>1, <2>1 DEF TipIsPrefix
  <1> DEFINE j == IF Promotion(p) THEN NoJob ELSE job[p]
             s == IF Promotion(p) THEN "idle" ELSE "earn"
  <1>3. /\ pc' = [pc EXCEPT ![p] = s]
        /\ holder' = (IF Promotion(p) /\ holder = p THEN NoProcess ELSE holder)
        /\ s \in Stages /\ (s = "idle" <=> Promotion(p)) /\ s \in {"idle", "earn"}
    BY <1>1 DEF AfterTip, Return, Leave, Goto, Unlock, Stages
  <1>4. job' = [job EXCEPT ![p] = j]
    <2>1. CASE Promotion(p)
      BY <1>1, <2>1 DEF AfterTip, Return, Leave
    <2>2. CASE ~Promotion(p)
      BY <1>1, <2>2, UpdatedStage, <1>3, Zenon DEF AfterTip, Inv
    <2> QED BY <2>1, <2>2
  <1>5. j.prior \in Nat
    BY TaskParts DEF NoJob, Inv, Typed
  <1>6. pc[p] # "idle" => job[p].call \in CallRecord
    BY DEF Inv, MintInvariant, Prepared
  <1> HIDE DEF s
  <1>7. /\ pc'[p] = s /\ job'[p] = j
        /\ \A q \in Process : q # p => pc'[q] = pc[q] /\ job'[q] = job[q]
        /\ pc' \in [Process -> Stages] /\ job' = [q \in Process |-> job'[q]]
    <2> HIDE DEF j
    <2> QED BY <1>3, <1>4, Updated DEF Inv
  <1>8. LockExclusive' /\ holder' \in Process \cup {NoProcess}
    BY <1>1, <1>3, <1>7, LockFollows DEF Locked
  <1>9. \A q \in Process : Prepared(q)' /\ Checked(q)'
    <2>1. Prepared(p)' /\ Checked(p)'
      BY <1>1, <1>3, <1>6, <1>7 DEF Prepared, Checked
    <2> SUFFICES ASSUME NEW q \in Process, q # p PROVE Prepared(q)' /\ Checked(q)'
      BY <2>1
    <2> QED BY <1>1, <1>7, OthersKeep DEF Inv, MintInvariant
  <1>10. Typed'
    <2> HIDE DEF j
    <2> QED BY <1>1, <1>2, <1>5, <1>7, <1>8 DEF Inv, Typed, IsLog
  <1>11. Rows'
    BY <1>1, SameRows DEF Inv, MintInvariant, Rows
  <1> QED BY <1>2, <1>8, <1>9, <1>10, <1>11 DEF Inv, MintInvariant, Rows

-----------------------------------------------------------------------------
(* The invariant *)

\* Steps that touch neither the log, the lock nor any call.
LEMMA QuietKeeps ==
  ASSUME Inv, UNCHANGED <<log, tail, tip, holder, pc, job>>
  PROVE  Inv'
  <1>1. \A p \in Process : Prepared(p)' /\ Checked(p)'
    BY OthersKeep DEF Inv, MintInvariant
  <1>2. Typed'
    BY DEF Inv, Typed, IsLog
  <1> QED BY <1>1, <1>2, SameRows, SamePrefix DEF Inv, MintInvariant, Rows, LockExclusive

LEMMA WorkKeeps ==
  ASSUME Inv, NEW p \in Process, Work(p)
  PROVE  Inv'
  <1>1. CASE RefusePromotion(p)
    BY <1>1, LeaveKeeps DEF RefusePromotion, Locked, files
  <1>2. CASE RefuseMint(p)
    BY <1>2, LeaveKeeps DEF RefuseMint, Locked, files
  <1>3. CASE ReserveFails(p)
    BY <1>3, ReturnKeeps DEF ReserveFails, files
  <1>4. CASE TipFails(p)
    BY <1>4, AfterTipKeeps DEF TipFails, files
  <1>5. CASE Earn(p)
    BY <1>5, ReturnKeeps DEF Earn
  <1>6. CASE EarnFails(p)
    BY <1>6, ReturnKeeps DEF EarnFails, files
  <1>7. CASE Kill(p)
    BY <1>7, ReturnKeeps DEF Kill, files
  <1> QED BY <1>1, <1>2, <1>3, <1>4, <1>5, <1>6, <1>7, FindPriorKeeps, FindAgainKeeps,
       PreCheckKeeps, PromoteKeeps, EnterKeeps, ReserveKeeps, AppendReceiptKeeps,
       AppendFailsKeeps, AdvanceTipKeeps DEF Work

LEMMA EnvironmentKeeps ==
  ASSUME Inv, Environment
  PROVE  Inv'
  <1>1. UNCHANGED <<log, tail, tip, holder, pc, job>>
    BY DEF Environment, Reconcile, Spend, LoseLedger, WindowElapses
  <1> QED BY <1>1, QuietKeeps

\* A confirmation is a mint of its deferred call.
LEMMA ConfirmKeeps ==
  ASSUME Inv, NEW p \in Process, NEW id \in Id, Confirm(p, id)
  PROVE  Inv'
  <1> DEFINE j == Task(Deferred[id], 0, 0)
  <1>1. pc[p] = "idle" /\ pc' = [pc EXCEPT ![p] = "mint"] /\ job' = [job EXCEPT ![p] = j]
        /\ holder' = holder /\ log' = log /\ tip' = tip /\ tail' = tail
    BY DEF Confirm, CanCall, Goto, files
  <1>2. j.call \in CallRecord /\ j.prior = 0 /\ j.prior \in Nat
    BY TaskParts, DeferredAssumption
  <1>3. "mint" \in Stages /\ ~Locked("mint") /\ ~Locked(pc[p])
    BY <1>1 DEF Stages, Locked
  <1> HIDE DEF j
  <1> QED BY <1>1, <1>2, <1>3, MoveKeeps

LEMMA InitInv == Init => Inv
  <1> SUFFICES ASSUME Init PROVE Inv
    OBVIOUS
  <1>1. log = <<>> /\ tip = <<>> /\ IsLog(<<>>) /\ DOMAIN <<>> = {} /\ Len(<<>>) = 0
    <2>1. <<>> \in Seq({}) /\ DOMAIN <<>> = {} /\ Len(<<>>) = 0
      OBVIOUS
    <2> QED BY <2>1 DEF Init, IsLog
  <1>2. Typed
    BY <1>1, TaskParts DEF Init, Typed, NoJob, Stages
  <1>3. \A p \in Process : Prepared(p) /\ Checked(p)
    BY DEF Init, Prepared, Checked
  <1>4. LockExclusive
    BY ProcessAssumption DEF Init, LockExclusive
  <1>5. TipIsPrefix
    BY <1>1 DEF TipIsPrefix
  <1>6. PromotionsAnchored /\ StrictOnce /\ FreshOnce /\ PromotedOnce
    BY <1>1 DEF PromotionsAnchored, StrictOnce, FreshOnce, PromotedOnce
  <1> QED BY <1>2, <1>3, <1>4, <1>5, <1>6 DEF Inv, MintInvariant

LEMMA NextInv == Inv /\ [NextPending]_allVars => Inv'
  <1> SUFFICES ASSUME Inv, [NextPending]_allVars PROVE Inv'
    OBVIOUS
  <1>1. CASE MintStep
    <2>1. ASSUME NEW p \in Process, NEW c \in Call, Begin(p, c) PROVE Inv'
      BY <2>1, BeginKeeps
    <2> QED BY <1>1, <2>1, WorkKeeps, EnvironmentKeeps DEF MintStep
  <1>2. CASE UNCHANGED vars
    BY <1>2, QuietKeeps DEF vars, files
  <1>3. CASE UNCHANGED files /\ UNCHANGED <<holder, pc, job>>
    BY <1>3, QuietKeeps DEF files
  <1>4. ASSUME NEW p \in Process, KillConfirming(p) PROVE Inv'
    BY <1>4, ReturnKeeps DEF KillConfirming, files
  <1>5. ASSUME NEW p \in Process, NEW id \in Id, ConfirmLate(p, id) PROVE Inv'
    BY <1>2, <1>5 DEF ConfirmLate
  <1>6. CASE Quarantine \/ SweepExpired
    BY <1>2, <1>6 DEF Quarantine, SweepExpired
  <1>7. CASE DamageStore
    BY <1>3, <1>7 DEF DamageStore
  <1>8. ASSUME NEW id \in Id, RecordPending(id) \/ RejectPending(id) PROVE Inv'
    BY <1>2, <1>8 DEF RecordPending, RejectPending
  <1>9. ASSUME NEW id \in Id, TtlPasses(id) PROVE Inv'
    BY <1>3, <1>9 DEF TtlPasses
  <1>10. ASSUME NEW p \in Process, FinishConfirm(p) PROVE Inv'
    BY <1>2, <1>10 DEF FinishConfirm
  <1>11. CASE UNCHANGED allVars
    BY <1>2, <1>11 DEF allVars
  <1> QED BY <1>1, <1>4, <1>5, <1>6, <1>7, <1>8, <1>9, <1>10, <1>11, ConfirmKeeps DEF NextPending

LEMMA AlwaysInv == SpecPending => []Inv
  <1>1. InitPending => Inv
    BY InitInv DEF InitPending
  <1> QED BY <1>1, NextInv, PTL DEF SpecPending

-----------------------------------------------------------------------------
(* What it means *)

\* Failures and crashes between the append, the checkpoint and the credit
\* leave a checkpoint that a readable log extends: verify_chain accepts it.
THEOREM CrashesKeepTheChain == SpecPending => []CrashKeepsChain
  <1>1. Inv => CrashKeepsChain
    <2> SUFFICES ASSUME Inv, Readable PROVE ChainValid
      BY DEF CrashKeepsChain
    <2>1. TipIsPrefix /\ IsLog(log) /\ IsLog(tip) /\ Len(log) \in Nat /\ Len(tip) \in Nat
      BY LogLength DEF Inv, Typed, MintInvariant
    <2>2. Len(log) = Len(tip) => log = tip
      BY <2>1, SameLog DEF TipIsPrefix
    <2> QED BY <2>1, <2>2 DEF ChainValid, TipIsPrefix
  <1> QED BY <1>1, AlwaysInv, PTL

\* A strict receipt's evidence is in no earlier receipt, whatever append was
\* not acknowledged; a generation earns one fresh receipt per tier, from any
\* presentations verified at the same time; a receipt is promoted once.
THEOREM CreditIsGivenOnce == SpecPending => []CreditedOnce
  <1>1. Inv => CreditedOnce
    BY DEF Inv, MintInvariant, CreditedOnce
  <1> QED BY <1>1, AlwaysInv, PTL

-----------------------------------------------------------------------------
(* The ledger is not started afresh *)

\* A log with receipts has a file, so nobody takes the chain for a new one.
Present == log # <<>> => tail # "absent"

LEMMA PresentInv == Present /\ [NextPending]_allVars => Present'
  <1> SUFFICES ASSUME Present, [NextPending]_allVars PROVE Present'
    OBVIOUS
  <1>1. ASSUME log' = log, tail' = tail PROVE Present'
    BY <1>1 DEF Present
  <1>2. ASSUME NEW p \in Process, Work(p) PROVE Present'
    <2>1. CASE AppendReceipt(p) \/ AppendFails(p)
      BY <2>1 DEF AppendReceipt, AppendFails, Present
    <2>2. CASE ~(AppendReceipt(p) \/ AppendFails(p))
      BY <1>1, <1>2, <2>2 DEF Work, FindPrior, FindAgain, PreCheck, Promote, RefusePromotion,
         Enter, RefuseMint, Reserve, ReserveFails, AdvanceTip, TipFails, Earn, EarnFails, Kill, files
    <2> QED BY <2>1, <2>2
  <1>3. CASE MintStep
    BY <1>1, <1>2, <1>3 DEF MintStep, Begin, Environment, Reconcile, Spend, LoseLedger,
       WindowElapses, files
  <1>4. CASE UNCHANGED allVars
    BY <1>1, <1>4 DEF allVars, vars, files
  <1> QED BY <1>1, <1>3, <1>4 DEF NextPending, Quarantine, SweepExpired, DamageStore, RecordPending,
       RejectPending, TtlPasses, FinishConfirm, KillConfirming, Confirm, ConfirmLate, vars, files

\* Once receipts exist a lost ledger stays lost: neither a mint nor a
\* reconciliation starts a fresh one without the recorded debits.
THEOREM DebitsStayLost == SpecPending => DebitsNotForgotten
  <1>1. Present /\ [NextPending]_allVars
          => [books.file = "lost" /\ log # <<>> => books'.file = "lost"]_vars
    <2> SUFFICES ASSUME Present, [NextPending]_allVars, books.file = "lost", log # <<>>,
                        books' # books
                 PROVE  FALSE
      BY DEF vars, files
    <2>1. PICK p \in Process : Enter(p) \/ Reconcile(p) \/ Earn(p) \/ Spend \/ LoseLedger
      <3>1. MintStep
        BY DEF NextPending, allVars, vars, files, Quarantine, SweepExpired, DamageStore,
           RecordPending, RejectPending, TtlPasses, FinishConfirm, KillConfirming, Confirm, ConfirmLate
      <3>2. ~\E p \in Process, c \in Call : Begin(p, c)
        BY DEF Begin, files
      <3>3. ~\E e \in Evidence : WindowElapses(e)
        BY DEF WindowElapses
      <3>4. \A p \in Process : Work(p) => Enter(p) \/ Earn(p)
        BY DEF Work, FindPrior, FindAgain, PreCheck, Promote, RefusePromotion, RefuseMint, Reserve,
           ReserveFails, AppendReceipt, AppendFails, AdvanceTip, TipFails, EarnFails, Kill, files
      <3>5. ~Spend /\ ~LoseLedger
        BY DEF Spend, LoseLedger
      <3> QED BY <3>1, <3>2, <3>3, <3>4, <3>5 DEF MintStep, Environment
    <2> QED BY <2>1 DEF Enter, Mintable, Reconcile, Earn, Credited, Spend, LoseLedger, Present
  <1>2. InitPending => Present
    BY DEF InitPending, Init, Present
  <1> QED BY <1>1, <1>2, PresentInv, PTL DEF SpecPending, DebitsNotForgotten
-----------------------------------------------------------------------------
(* What a step of the mint may do *)

Looking == {"find", "refind", "precheck", "promote"}
Before == {"mint", "reserve", "append"}

\* It moves one call that is under way, keeps what the call is, appends its
\* receipt at most once and past that never comes back before it.
Moved(p) ==
  /\ pc[p] # "idle"
  /\ \A q \in Process : q # p => pc'[q] = pc[q] /\ job'[q] = job[q]
  /\ pc'[p] # "idle" => job'[p].call = job[p].call
  /\ pc[p] \notin Looking => pc'[p] \notin Looking
  /\ pc[p] \notin Looking /\ pc'[p] \in Before => pc[p] \in Before
  /\ \/ log' = log
     \/ /\ pc[p] = "append" /\ pc'[p] \in {"tip", "idle"}
        /\ log' = Append(log, Receipt(p))

\* A call that returns.
LEMMA Returned ==
  ASSUME Typed, NEW p \in Process, pc[p] # "idle", Leave(p),
         \/ log' = log
         \/ pc[p] = "append" /\ log' = Append(log, Receipt(p))
  PROVE  Moved(p)
  BY DEF Typed, Leave, Goto, Moved, Looking, Before

\* A call that goes on.
LEMMA WentOn ==
  ASSUME Typed, NEW p \in Process, NEW s, Goto(p, s), job' = job, pc[p] # "idle", s # "idle",
         pc[p] \notin Looking => s \notin Looking,
         pc[p] \notin Looking /\ s \in Before => pc[p] \in Before,
         \/ log' = log
         \/ pc[p] = "append" /\ s = "tip" /\ log' = Append(log, Receipt(p))
  PROVE  Moved(p)
  BY DEF Typed, Goto, Moved, Looking, Before

LEMMA WorkMoves ==
  ASSUME Typed, NEW p \in Process, Work(p)
  PROVE  Moved(p)
  <1> USE DEF Return, files
  <1>1. CASE FindPrior(p)
    <2>1. PICK s \in {"refind", "precheck", "mint"} : Goto(p, s)
      <3>1. CASE PriorCredit(job[p].call) # 0
        BY <1>1, <3>1 DEF FindPrior
      <3>2. CASE PriorCredit(job[p].call) = 0 /\ job[p].call.kind = "tlsn"
        BY <1>1, <3>2 DEF FindPrior
      <3>3. CASE PriorCredit(job[p].call) = 0 /\ job[p].call.kind # "tlsn"
        BY <1>1, <3>3 DEF FindPrior
      <3> QED BY <3>1, <3>2, <3>3
    <2>2. pc[p] = "find" /\ job' = job /\ log' = log
      BY <1>1 DEF FindPrior
    <2> QED BY <2>1, <2>2, WentOn DEF Looking
  <1>2. CASE FindAgain(p)
    <2>1. pc[p] = "refind" /\ log' = log
      BY <1>2 DEF FindAgain
    <2>2. CASE Leave(p)
      BY <2>1, <2>2, Returned
    <2>3. CASE ~Leave(p)
      <3> DEFINE prior == PriorCredit(job[p].call)
      <3>1. Goto(p, "promote") /\ job' = [job EXCEPT ![p] = Task(job[p].call, prior, 0)]
        BY <1>2, <2>3 DEF FindAgain
      <3>2. Task(job[p].call, prior, 0).call = job[p].call
        BY TaskParts
      <3> HIDE DEF prior
      <3> QED BY <2>1, <3>1, <3>2 DEF Typed, Goto, Moved, Looking, Before
    <2> QED BY <2>2, <2>3
  <1>3. CASE PreCheck(p)
    <2>1. pc[p] = "precheck" /\ log' = log
      BY <1>3 DEF PreCheck
    <2>2. CASE Leave(p)
      BY <2>1, <2>2, Returned
    <2>3. CASE Goto(p, "mint") /\ UNCHANGED job
      BY <2>1, <2>3, WentOn DEF Looking
    <2> QED BY <1>3, <2>2, <2>3 DEF PreCheck
  <1>4. CASE Promote(p)
    BY <1>4, WentOn DEF Promote, Promotes, Looking
  <1>5. CASE RefusePromotion(p)
    BY <1>5, Returned DEF RefusePromotion
  <1>6. CASE Enter(p)
    BY <1>6, WentOn DEF Enter, Looking, Before
  <1>7. CASE RefuseMint(p)
    BY <1>7, Returned DEF RefuseMint
  <1>8. CASE Reserve(p)
    <2> DEFINE c == job[p].call
    <2>1. pc[p] = "reserve" /\ log' = log
      BY <1>8 DEF Reserve
    <2>2. CASE Leave(p)
      BY <2>1, <2>2, Returned
    <2>3. CASE ~Leave(p)
      <3>1. Goto(p, "append") /\ job' = [job EXCEPT ![p] = Task(c, 0, Effective(c))]
        BY <1>8, <2>3 DEF Reserve
      <3>2. Task(c, 0, Effective(c)).call = c
        BY TaskParts
      <3> QED BY <2>1, <3>1, <3>2 DEF Typed, Goto, Moved, Looking, Before
    <2> QED BY <2>2, <2>3
  <1>9. CASE ReserveFails(p)
    BY <1>9, Returned DEF ReserveFails
  <1>10. CASE AppendReceipt(p)
    BY <1>10, WentOn DEF AppendReceipt, Looking, Before
  <1>11. CASE AppendFails(p)
    BY <1>11, Returned DEF AppendFails
  <1>12. ASSUME pc[p] = "tip", log' = log, AfterTip(p) PROVE Moved(p)
    <2>1. CASE Return(p)
      BY <1>12, <2>1, Returned
    <2>2. CASE Goto(p, "earn") /\ UNCHANGED job
      BY <1>12, <2>2, WentOn DEF Looking, Before
    <2> QED BY <1>12, <2>1, <2>2 DEF AfterTip
  <1>13. CASE AdvanceTip(p) \/ TipFails(p)
    BY <1>12, <1>13 DEF AdvanceTip, TipFails
  <1>14. CASE Earn(p) \/ EarnFails(p)
    BY <1>14, Returned DEF Earn, EarnFails
  <1>15. CASE Kill(p)
    BY <1>15, Returned DEF Kill
  <1> QED BY <1>1, <1>2, <1>3, <1>4, <1>5, <1>6, <1>7, <1>8, <1>9, <1>10, <1>11, <1>13,
       <1>14, <1>15 DEF Work

-----------------------------------------------------------------------------
(* The invariant *)

PInv ==
  /\ Typed
  /\ confirming = [p \in Process |-> confirming[p]]
  /\ PendingInvariant

\* Only the confirmation of an id mints its call.
LEMMA MintsItsOwn ==
  ASSUME PInv, NEW p \in Process, pc[p] # "idle", NEW id \in Id,
         job[p].call.detail = Deferred[id].detail
  PROVE  confirming[p] = id
  BY DeferredAssumption DEF PInv, PendingInvariant, ConfirmingHolds

LEMMA OneConfirms ==
  ASSUME PInv, NEW p \in Process, NEW q \in Process,
         confirming[p] # NoId, confirming[q] # NoId
  PROVE  p = q
  BY DEF PInv, PendingInvariant, ConfirmingHolds

\* A receipt joins the receipts of the id its process confirms, and no others.
LEMMA MintedGrows ==
  ASSUME PInv, NEW p \in Process, pc[p] = "append", log' = Append(log, Receipt(p)), NEW id \in Id
  PROVE  MintedFor(id)' = IF confirming[p] = id THEN {Len(log) + 1} ELSE MintedFor(id)
  <1> DEFINE n == Len(log)
             r == Receipt(p)
  <1>1. n \in Nat /\ DOMAIN log = 1..n
    BY LogLength DEF PInv, Typed
  <1>2. /\ DOMAIN log' = 1..(n + 1) /\ log'[n + 1] = r
        /\ \A i \in 1..n : log'[i] = log[i]
    BY AppendedLog DEF PInv, Typed
  <1>3. r.detail = job[p].call.detail
    BY ReceiptParts
  <1> HIDE DEF n, r
  <1>4. CASE confirming[p] = id
    <2>1. confirming[p] # NoId
      BY <1>4, DeferredAssumption
    <2>2. job[p].call = Deferred[id] /\ MintedFor(id) = {}
      BY <1>4, <2>1 DEF PInv, PendingInvariant, ConfirmingHolds, NotYetMinted
    <2>3. \A i \in 1..n : log[i].detail # Deferred[id].detail
      BY <1>1, <2>2 DEF MintedFor
    <2>4. MintedFor(id)' = {n + 1}
      BY <1>1, <1>2, <1>3, <2>2, <2>3 DEF MintedFor
    <2> QED BY <1>4, <2>4 DEF n
  <1>5. CASE confirming[p] # id
    <2>1. r.detail # Deferred[id].detail
      BY <1>3, <1>5, MintsItsOwn
    <2>2. MintedFor(id)' = MintedFor(id)
      BY <1>1, <1>2, <2>1 DEF MintedFor
    <2> QED BY <1>5, <2>2
  <1> QED BY <1>4, <1>5

LEMMA SameMinted ==
  ASSUME log' = log, NEW id
  PROVE  MintedFor(id)' = MintedFor(id)
  BY DEF MintedFor

\* A step of a mint, seen from the store.
LEMMA MovedKeeps ==
  ASSUME PInv, Typed', NEW p \in Process, Moved(p), UNCHANGED pendingVars
  PROVE  PInv'
  <1>1. store' = store /\ guard' = guard /\ confirming' = confirming
    BY DEF pendingVars
  <1>2. ConfirmingHolds'
    BY <1>1 DEF Moved, PInv, PendingInvariant, ConfirmingHolds
  <1>3. \A q \in Process : pc'[q] \in Stages
    BY DEF Typed
  <1>4. CASE log' = log
    <2>1. NotYetMinted'
      <3> SUFFICES ASSUME NEW q \in Process, confirming[q] # NoId
                   PROVE  /\ pc'[q] \in {"idle", "mint", "reserve", "append", "tip", "earn"}
                          /\ pc'[q] \in Before => MintedFor(confirming[q]) = {}
        BY <1>1, <1>4, SameMinted DEF NotYetMinted, Before
      <3>1. pc[q] \in {"idle", "mint", "reserve", "append", "tip", "earn"}
            /\ (pc[q] \in Before => MintedFor(confirming[q]) = {})
        BY DEF PInv, PendingInvariant, NotYetMinted, Before
      <3>2. CASE q = p
        BY <1>3, <3>1, <3>2 DEF Moved, Looking, Stages
      <3>3. CASE q # p
        BY <3>1, <3>3 DEF Moved
      <3> QED BY <3>2, <3>3
    <2> QED BY <1>1, <1>2, <1>4, <2>1, SameMinted DEF PInv, PendingInvariant
  <1>5. CASE pc[p] = "append" /\ pc'[p] \in {"tip", "idle"} /\ log' = Append(log, Receipt(p))
    <2>1. \A id \in Id :
            MintedFor(id)' = IF confirming[p] = id THEN {Len(log) + 1} ELSE MintedFor(id)
      BY <1>5, MintedGrows
    <2>2. NotYetMinted'
      <3> SUFFICES ASSUME NEW q \in Process, NEW id \in Id, confirming[q] = id
                   PROVE  /\ pc'[q] \in {"idle", "mint", "reserve", "append", "tip", "earn"}
                          /\ pc'[q] \in Before => MintedFor(id)' = {}
        BY <1>1 DEF NotYetMinted, MintedFor, Before, PInv, PendingInvariant, ConfirmingHolds
      <3>1. CASE q = p
        BY <1>5, <3>1 DEF Before
      <3>2. CASE q # p
        <4>1. confirming[p] = NoId /\ id # NoId
          BY <3>2, OneConfirms, DeferredAssumption
        <4>2. MintedFor(id)' = MintedFor(id)
          BY <2>1, <4>1
        <4>3. pc'[q] = pc[q]
          BY <3>2 DEF Moved
        <4> QED BY <4>1, <4>2, <4>3 DEF PInv, PendingInvariant, NotYetMinted, Before
      <3> QED BY <3>1, <3>2
    <2>3. ASSUME NEW id \in Id
          PROVE  /\ \A i, j \in MintedFor(id)' : i = j
                 /\ MintedFor(id)' # {} => store[id] \in {"confirmed", "lost"}
      <3>1. confirming[p] = id => store[id] = "confirmed"
        BY DeferredAssumption DEF PInv, PendingInvariant, ConfirmingHolds
      <3> QED BY <2>1, <3>1 DEF PInv, PendingInvariant
    <2> QED BY <1>1, <1>2, <2>2, <2>3 DEF PInv, PendingInvariant
  <1> QED BY <1>4, <1>5 DEF Moved

\* A step of the store while nobody has its lock, or one of the environment:
\* a status that backs a receipt stays one that does.
LEMMA StoreKeeps ==
  ASSUME PInv, UNCHANGED <<log, tip, holder, pc, job>>, UNCHANGED <<guard, confirming>>,
         \A id \in Id : store[id] \in {"confirmed", "lost"} => store'[id] \in {"confirmed", "lost"},
         \A p \in Process : confirming[p] # NoId => store'[confirming[p]] = "confirmed"
  PROVE  PInv'
  <1>1. ConfirmingHolds'
    BY DEF PInv, PendingInvariant, ConfirmingHolds
  <1>2. NotYetMinted'
    BY SameMinted DEF PInv, PendingInvariant, NotYetMinted
  <1>3. Typed'
    BY DEF PInv, Typed, IsLog
  <1> QED BY <1>1, <1>2, <1>3, SameMinted DEF PInv, PendingInvariant

\* Nobody confirms while the lock of the store is free.
LEMMA FreeGuard ==
  ASSUME PInv, guard = NoProcess, NEW p \in Process
  PROVE  confirming[p] = NoId
  BY ProcessAssumption DEF PInv, PendingInvariant, ConfirmingHolds

LEMMA BeginMoves ==
  ASSUME PInv, Typed', NEW p \in Process, NEW c \in Call, confirming[p] = NoId, Begin(p, c),
         UNCHANGED pendingVars
  PROVE  PInv'
  <1>1. store' = store /\ guard' = guard /\ confirming' = confirming /\ log' = log
    BY DEF pendingVars, Begin, files
  <1>2. job'[p] = Task(c, 0, 0) /\ \A q \in Process : q # p => pc'[q] = pc[q] /\ job'[q] = job[q]
    BY DEF PInv, Typed, Begin, Goto
  <1>3. job'[p].call = c
    BY <1>2, TaskParts
  <1>4. ConfirmingHolds'
    BY <1>1, <1>2, <1>3 DEF PInv, PendingInvariant, ConfirmingHolds
  <1>5. NotYetMinted'
    BY <1>1, <1>2, SameMinted DEF PInv, PendingInvariant, NotYetMinted
  <1> QED BY <1>1, <1>4, <1>5, SameMinted DEF PInv, PendingInvariant

\* The write-ahead flip: nothing was minted for an id that is pending.
LEMMA ConfirmMoves ==
  ASSUME PInv, Typed', NEW p \in Process, NEW id \in Id, Confirm(p, id)
  PROVE  PInv'
  <1>1. /\ guard = NoProcess /\ guard' = p /\ confirming' = [confirming EXCEPT ![p] = id]
        /\ store[id] = "pending" /\ log' = log /\ pc[p] = "idle"
        /\ store' = [k \in Id |-> IF k = id THEN "confirmed" ELSE store[k]]
    BY DEF Confirm, CanCall, Marked, files
  <1>2. /\ pc'[p] = "mint" /\ job'[p] = Task(Deferred[id], 0, 0)
        /\ \A q \in Process : q # p => pc'[q] = pc[q] /\ job'[q] = job[q]
    BY DEF PInv, Typed, Confirm, Goto
  <1>3. job'[p].call = Deferred[id]
    BY <1>2, TaskParts
  <1>4. \A q \in Process : confirming[q] = NoId
    BY <1>1, FreeGuard
  <1>5. /\ confirming'[p] = id /\ \A q \in Process : q # p => confirming'[q] = NoId
        /\ confirming' = [q \in Process |-> confirming'[q]]
    BY <1>1, <1>4 DEF PInv
  <1>6. ConfirmingHolds'
    BY <1>1, <1>2, <1>3, <1>4, <1>5, ProcessAssumption, DeferredAssumption
       DEF PInv, PendingInvariant, ConfirmingHolds
  <1>7. MintedFor(id) = {} /\ \A k \in Id : MintedFor(k)' = MintedFor(k)
    BY <1>1, SameMinted DEF PInv, PendingInvariant
  <1>8. NotYetMinted'
    BY <1>2, <1>5, <1>7 DEF PInv, PendingInvariant, NotYetMinted, MintedFor
  <1> QED BY <1>1, <1>5, <1>6, <1>7, <1>8 DEF PInv, PendingInvariant

LEMMA KillMoves ==
  ASSUME PInv, Typed', NEW p \in Process, KillConfirming(p)
  PROVE  PInv'
  <1>1. /\ confirming[p] # NoId /\ guard' = NoProcess /\ store' = store /\ log' = log
        /\ confirming' = [confirming EXCEPT ![p] = NoId]
    BY DEF KillConfirming, files
  <1>2. pc'[p] = "idle" /\ \A q \in Process : q # p => pc'[q] = pc[q] /\ job'[q] = job[q]
    BY DEF PInv, Typed, KillConfirming, Return, Leave, Goto
  <1>3. \A q \in Process : q # p => confirming[q] = NoId
    BY <1>1, OneConfirms
  <1>4. /\ \A q \in Process : confirming'[q] = NoId
        /\ confirming' = [q \in Process |-> confirming'[q]]
    BY <1>1, <1>3 DEF PInv
  <1>5. ConfirmingHolds'
    BY <1>1, <1>2, <1>3, <1>4, ProcessAssumption DEF PInv, PendingInvariant, ConfirmingHolds
  <1>6. NotYetMinted'
    BY <1>4 DEF NotYetMinted
  <1> QED BY <1>1, <1>4, <1>5, <1>6, SameMinted DEF PInv, PendingInvariant

LEMMA FinishMoves ==
  ASSUME PInv, NEW p \in Process, FinishConfirm(p)
  PROVE  PInv'
  <1>1. /\ confirming[p] # NoId /\ pc[p] = "idle" /\ guard' = NoProcess
        /\ confirming' = [confirming EXCEPT ![p] = NoId]
        /\ UNCHANGED <<log, tip, holder, pc, job>>
        /\ store' = [k \in Id |-> IF k = confirming[p] THEN "confirmed" ELSE store[k]]
    BY DEF FinishConfirm, Marked, vars, files
  <1>2. \A q \in Process : q # p => confirming[q] = NoId
    BY <1>1, OneConfirms
  <1>3. /\ \A q \in Process : confirming'[q] = NoId
        /\ confirming' = [q \in Process |-> confirming'[q]]
    BY <1>1, <1>2 DEF PInv
  <1>4. ConfirmingHolds'
    BY <1>1, <1>2, <1>3, ProcessAssumption DEF PInv, PendingInvariant, ConfirmingHolds
  <1>5. NotYetMinted'
    BY <1>3 DEF NotYetMinted
  <1>6. Typed'
    BY <1>1 DEF PInv, Typed, IsLog
  <1> QED BY <1>1, <1>3, <1>4, <1>5, <1>6, SameMinted DEF PInv, PendingInvariant

LEMMA InitPInv == InitPending => PInv
  <1> SUFFICES ASSUME InitPending PROVE PInv
    OBVIOUS
  <1>1. Inv
    BY InitInv DEF InitPending
  <1>2. log = <<>> /\ \A id : MintedFor(id) = {}
    BY DEF InitPending, Init, MintedFor
  <1>3. ConfirmingHolds
    BY ProcessAssumption DEF InitPending, Init, ConfirmingHolds
  <1>4. NotYetMinted
    BY DEF InitPending, NotYetMinted
  <1> QED BY <1>1, <1>2, <1>3, <1>4 DEF InitPending, Inv, PInv, PendingInvariant

LEMMA NextPInv == Inv /\ PInv /\ [NextPending]_allVars => PInv'
  <1> SUFFICES ASSUME Inv, PInv, [NextPending]_allVars PROVE PInv'
    OBVIOUS
  <1>1. Typed'
    BY NextInv DEF Inv
  <1>2. CASE MintStep
    <2>1. ASSUME NEW p \in Process, Work(p) PROVE PInv'
      BY <1>1, <1>2, <2>1, WorkMoves, MovedKeeps DEF MintStep, PInv
    <2>2. ASSUME NEW p \in Process, NEW c \in Call, confirming[p] = NoId, Begin(p, c) PROVE PInv'
      BY <1>1, <1>2, <2>2, BeginMoves DEF MintStep
    <2>3. CASE Environment
      <3>1. UNCHANGED <<log, tip, holder, pc, job>>
        BY <2>3 DEF Environment, Reconcile, Spend, LoseLedger, WindowElapses
      <3>2. store' = store /\ guard' = guard /\ confirming' = confirming
        BY <1>2 DEF MintStep, pendingVars
      <3>3. \A p \in Process : confirming[p] # NoId => store[confirming[p]] = "confirmed"
        BY DEF PInv, PendingInvariant, ConfirmingHolds
      <3> QED BY <3>1, <3>2, <3>3, StoreKeeps
    <2> QED BY <1>2, <2>1, <2>2, <2>3 DEF MintStep
  <1>3. ASSUME UNCHANGED <<log, tip, holder, pc, job>>, UNCHANGED <<guard, confirming>>,
               guard = NoProcess \/ store' = store,
               \A id \in Id : store[id] \in {"confirmed", "lost"} => store'[id] \in {"confirmed", "lost"}
        PROVE  PInv'
    <2>1. \A p \in Process : confirming[p] # NoId => store'[confirming[p]] = "confirmed"
      BY <1>3, FreeGuard DEF PInv, PendingInvariant, ConfirmingHolds
    <2> QED BY <1>3, <2>1, StoreKeeps
  <1>4. CASE Quarantine \/ SweepExpired
    BY <1>3, <1>4 DEF Quarantine, SweepExpired, Marked, vars, files
  <1>5. ASSUME NEW id \in Id, RecordPending(id) \/ RejectPending(id) PROVE PInv'
    BY <1>3, <1>5 DEF RecordPending, RejectPending, Marked, vars, files
  <1>6. CASE DamageStore \/ \E id \in Id : TtlPasses(id)
    BY <1>3, <1>6 DEF DamageStore, TtlPasses, files
  <1>7. ASSUME NEW p \in Process, NEW id \in Id, ConfirmLate(p, id) PROVE PInv'
    BY <1>3, <1>7 DEF ConfirmLate, CanCall, Marked, vars, files
  <1>8. CASE UNCHANGED allVars
    BY <1>3, <1>8 DEF allVars, vars, files, pendingVars
  <1> QED BY <1>1, <1>2, <1>4, <1>5, <1>6, <1>7, <1>8, ConfirmMoves, KillMoves, FinishMoves
       DEF NextPending

-----------------------------------------------------------------------------
\* A displacement mints at most once, and only one that is confirmed, through
\* kills between the flip and the receipt, quarantines and late confirmations.
THEOREM DeferredMintedOnce == SpecPending => []MintedOnce
  <1>1. PInv => MintedOnce
    <2> SUFFICES ASSUME PInv, NEW id \in Id
                 PROVE  /\ Cardinality(MintedFor(id)) <= 1
                        /\ MintedFor(id) # {} => store[id] \in {"confirmed", "lost"}
      BY DEF MintedOnce, MintedFor
    <2>1. \A i, j \in MintedFor(id) : i = j
      BY DEF PInv, PendingInvariant
    <2>2. CASE MintedFor(id) = {}
      BY <2>2, FS_EmptySet
    <2>3. CASE MintedFor(id) # {}
      <3>1. PICK i : i \in MintedFor(id)
        BY <2>3
      <3>2. MintedFor(id) = {i}
        BY <2>1, <3>1
      <3>3. Cardinality({i}) = 1
        BY FS_Singleton
      <3> QED BY <3>2, <3>3 DEF PInv, PendingInvariant
    <2> QED BY <2>2, <2>3
  <1> QED BY <1>1, AlwaysInv, InitPInv, NextPInv, PTL DEF SpecPending

-----------------------------------------------------------------------------
(* Amounts *)

Amounts ==
  /\ \A i \in DOMAIN log : log[i].kry \in Nat
  /\ \A p \in Process : job[p].tokens \in Nat
  /\ books \in [file : {"none", "here", "lost"}, earned : Nat, spent : Nat]
  /\ decay \in [Evidence -> 0..Dust] /\ windows \in [Evidence -> Nat]

\* A mint whose receipt is in the log and whose credit is to come.
Owed(p) == pc[p] = "earn" \/ (pc[p] = "tip" /\ ~Promotion(p))
Worth(p) == job[p].tokens * job[p].call.worth

Backed ==
  /\ books.earned <= Supply
  /\ \A p \in Process : Owed(p) => books.earned + Worth(p) <= Supply

\* What an evidence has earned and what its replays may still earn is at most
\* two first credits for each of its windows; the credit a mint has reserved
\* is no longer among what they may.
Bound(e) == 2 * Full * (windows[e] + 1)
Left(e) == 2 * Halved[decay[e]]
Appending(p) == pc[p] = "append" /\ ~Promotion(p)

Bounded ==
  /\ \A e \in Evidence : Total(RowsOf(e)) + Left(e) <= Bound(e)
  /\ \A p \in Process, e \in Evidence :
       Appending(p) /\ job[p].call.evidence = e =>
         Total(RowsOf(e)) + job[p].tokens + Left(e) <= Bound(e)

-----------------------------------------------------------------------------
(* What is left after a number of replays *)

\* The definition of Halved has a solution: on 0..n for every n.
Halving(f, n) == f = [count \in 0..n |-> IF count = 0 THEN Full ELSE f[count - 1] \div 2]

LEMMA HalvingExists == \E f : Halving(f, Dust)
  <1> DEFINE T == {n \in Nat : \E f : Halving(f, n)}
  <1>1. 0 \in T
    <2>1. Halving([count \in 0..0 |-> Full], 0)
      BY DEF Halving
    <2> QED BY <2>1
  <1>2. ASSUME NEW n \in Nat, n \in T PROVE n + 1 \in T
    <2>1. PICK f : Halving(f, n)
      BY <1>2
    <2> DEFINE g == [count \in 0..(n + 1) |-> IF count = 0 THEN Full ELSE f[count - 1] \div 2]
    <2>2. \A k \in 0..n : g[k] = f[k]
      BY <2>1 DEF Halving
    <2>3. Halving(g, n + 1)
      <3>1. \A k \in 0..(n + 1) : k # 0 => k - 1 \in 0..n
        OBVIOUS
      <3>2. \A k \in 0..(n + 1) :
              g[k] = IF k = 0 THEN Full ELSE g[k - 1] \div 2
        BY <2>2, <3>1
      <3> HIDE DEF g
      <3>3. g = [k \in 0..(n + 1) |-> g[k]]
        BY DEF g
      <3> QED BY <3>2, <3>3 DEF Halving
    <2> HIDE DEF g
    <2> QED BY <2>3
  <1> HIDE DEF T
  <1>3. Dust \in T
    BY <1>1, <1>2, SetInduction, DecayAssumption
  <1> QED BY <1>3 DEF T

LEMMA HalvedUnfolded ==
  \A n \in 0..Dust : Halved[n] = IF n = 0 THEN Full ELSE Halved[n - 1] \div 2
  <1>1. Halving(Halved, Dust)
    BY HalvingExists DEF Halved, Halving
  <1> QED BY <1>1 DEF Halving

LEMMA HalvedFacts ==
  /\ \A n \in 0..Dust : Halved[n] \in Nat
  /\ \A n \in 0..Dust : n > 0 => 2 * Halved[n] <= Halved[n - 1] /\ 2 * Halved[n] <= Full
  /\ Halved[0] = Full
  <1> DEFINE T == {n \in Nat : n \in 0..Dust => Halved[n] \in Nat /\ Halved[n] <= Full}
  <1>1. 0 \in T
    BY HalvedUnfolded, DecayAssumption
  <1>2. ASSUME NEW n \in Nat, n \in T PROVE n + 1 \in T
    <2> SUFFICES ASSUME n + 1 \in 0..Dust PROVE Halved[n + 1] \in Nat /\ Halved[n + 1] <= Full
      OBVIOUS
    <2>1. n \in 0..Dust /\ Halved[n] \in Nat /\ Halved[n] <= Full
      BY <1>2, DecayAssumption
    <2>2. Halved[n + 1] = Halved[n] \div 2
      BY HalvedUnfolded
    <2> QED BY <2>1, <2>2, DecayAssumption
  <1>3. Nat \subseteq T
    <2> HIDE DEF T
    <2> QED BY <1>1, <1>2, SetInduction
  <1>4. \A n \in 0..Dust : Halved[n] \in Nat /\ Halved[n] <= Full
    BY <1>3
  <1>5. ASSUME NEW n \in 0..Dust, n > 0
        PROVE  2 * Halved[n] <= Halved[n - 1] /\ 2 * Halved[n] <= Full
    <2>1. n - 1 \in 0..Dust /\ Halved[n] = Halved[n - 1] \div 2
      BY <1>5, HalvedUnfolded, DecayAssumption
    <2>2. Halved[n - 1] \in Nat /\ Halved[n - 1] <= Full
      BY <1>4, <2>1
    <2> QED BY <2>1, <2>2, DecayAssumption
  <1> QED BY <1>4, <1>5, HalvedUnfolded, DecayAssumption

\* A replay leaves room for its own credit and for the replays to come.
LEMMA ReplayLeaves ==
  ASSUME NEW n \in 0..Dust
  PROVE  /\ Replayed(n) \in 0..Dust
         /\ Halved[n] >= 1 => Halved[n] + 2 * Halved[Replayed(n)] <= 2 * Halved[n]
         /\ Full + 2 * Halved[Replayed(n)] <= 2 * Full
         /\ Halved[Replayed(n)] <= Halved[n]
  <1>0. Full \in Nat /\ Dust \in Nat /\ Halved[Dust] = 0 /\ Halved[n] \in Nat
    BY DecayAssumption, HalvedFacts
  <1>1. CASE n < Dust
    <2>1. Replayed(n) = n + 1 /\ n + 1 \in 0..Dust /\ n + 1 > 0 /\ (n + 1) - 1 = n
      BY <1>0, <1>1 DEF Replayed
    <2>2. /\ Halved[n + 1] \in Nat /\ 2 * Halved[n + 1] <= Halved[n]
          /\ 2 * Halved[n + 1] <= Full
      BY <2>1, HalvedFacts
    <2> QED BY <1>0, <2>1, <2>2
  <1>2. CASE n = Dust
    <2>1. Replayed(n) = n
      BY <1>0, <1>2 DEF Replayed
    <2> QED BY <1>0, <1>2, <2>1
  <1> QED BY <1>0, <1>1, <1>2

-----------------------------------------------------------------------------
(* What rows are worth when the log grows *)

LEMMA RowsFinite ==
  ASSUME Typed, Amounts, NEW S \in SUBSET DOMAIN log
  PROVE  IsFiniteSet(S) /\ Total(S) \in Nat
  <1>1. DOMAIN log = 1..Len(log) /\ Len(log) \in Nat
    BY LogLength DEF Typed
  <1>2. IsFiniteSet(S)
    <2>1. IsFiniteSet(DOMAIN log)
      BY <1>1, FS_Interval
    <2> QED BY <2>1, FS_Subset
  <1> DEFINE f == [i \in DOMAIN log |-> log[i].kry]
  <1>3. \A i \in S : f[i] \in Nat
    BY DEF Amounts
  <1> HIDE DEF f
  <1>4. SumFunctionOnSet(f, S) \in Nat
    BY <1>2, <1>3, SumNat
  <1> QED BY <1>2, <1>4 DEF Total, f

\* The sum over the same rows, and over those rows and the new one.
LEMMA TotalGrown ==
  ASSUME Typed, Amounts, NEW r, r.kry \in Nat, log' = Append(log, r),
         NEW S \in SUBSET DOMAIN log
  PROVE  LET g == [i \in DOMAIN log' |-> log'[i].kry]
         IN  /\ SumFunctionOnSet(g, S) = Total(S)
             /\ SumFunctionOnSet(g, S \cup {Len(log) + 1}) = Total(S) + r.kry
  <1> DEFINE f == [i \in DOMAIN log |-> log[i].kry]
             g == [i \in DOMAIN log' |-> log'[i].kry]
             n == Len(log)
  <1>1. DOMAIN log = 1..n /\ n \in Nat
    BY LogLength DEF Typed
  <1>2. /\ DOMAIN log' = 1..(n + 1) /\ log'[n + 1] = r
        /\ \A i \in 1..n : log'[i] = log[i]
    BY AppendedLog DEF Typed
  <1>3. IsFiniteSet(S) /\ Total(S) \in Nat /\ Total(S) = SumFunctionOnSet(f, S)
    BY RowsFinite DEF Total
  <1>4. /\ \A i \in S : f[i] = g[i] /\ g[i] \in Int
        /\ g[n + 1] = r.kry /\ n + 1 \notin S
    BY <1>1, <1>2 DEF Amounts
  <1> HIDE DEF f, g, n
  <1>5. SumFunctionOnSet(f, S) = SumFunctionOnSet(g, S)
    BY <1>3, <1>4, SumSame
  <1>6. \A x \in S \cup {n + 1} : g[x] \in Int
    BY <1>4
  <1>7. SumFunctionOnSet(g, S \cup {n + 1}) = g[n + 1] + SumFunctionOnSet(g, S)
    BY <1>3, <1>4, <1>6, SumInsert
  <1>8. SumFunctionOnSet(g, S) = Total(S)
    BY <1>3, <1>5
  <1>9. SumFunctionOnSet(g, S \cup {n + 1}) = Total(S) + r.kry
    BY <1>3, <1>4, <1>7, <1>8
  <1> QED BY <1>8, <1>9 DEF g, n

LEMMA SupplyGrown ==
  ASSUME Typed, Amounts, NEW r, r.kry \in Nat, log' = Append(log, r)
  PROVE  /\ Supply' = Supply + r.kry /\ Supply \in Nat
         /\ \A e \in Evidence :
              /\ Total(RowsOf(e)) \in Nat
              /\ Total(RowsOf(e))' = IF r.evidence = e THEN Total(RowsOf(e)) + r.kry
                                     ELSE Total(RowsOf(e))
  <1> DEFINE n == Len(log)
  <1>1. DOMAIN log = 1..n /\ n \in Nat
    BY LogLength DEF Typed
  <1>2. /\ DOMAIN log' = 1..(n + 1) /\ log'[n + 1] = r
        /\ \A i \in 1..n : log'[i] = log[i]
    BY AppendedLog DEF Typed
  <1> HIDE DEF n
  <1>3. Supply' = Supply + r.kry /\ Supply \in Nat
    <2>1. DOMAIN log' = DOMAIN log \cup {n + 1}
      BY <1>1, <1>2
    <2>2. SumFunctionOnSet([i \in DOMAIN log' |-> log'[i].kry], DOMAIN log \cup {n + 1})
            = Total(DOMAIN log) + r.kry
      BY TotalGrown DEF n
    <2> QED BY <2>1, <2>2, RowsFinite DEF Supply, Total
  <1>4. ASSUME NEW e \in Evidence
        PROVE  /\ Total(RowsOf(e)) \in Nat
               /\ Total(RowsOf(e))' = IF r.evidence = e THEN Total(RowsOf(e)) + r.kry
                                      ELSE Total(RowsOf(e))
    <2>1. RowsOf(e) \in SUBSET DOMAIN log
      BY DEF RowsOf
    <2>2. RowsOf(e)' = IF r.evidence = e THEN RowsOf(e) \cup {n + 1} ELSE RowsOf(e)
      BY <1>1, <1>2 DEF RowsOf
    <2>3. /\ SumFunctionOnSet([i \in DOMAIN log' |-> log'[i].kry], RowsOf(e))
               = Total(RowsOf(e))
          /\ SumFunctionOnSet([i \in DOMAIN log' |-> log'[i].kry], RowsOf(e) \cup {n + 1})
               = Total(RowsOf(e)) + r.kry
      BY <2>1, TotalGrown DEF n
    <2>4. Total(RowsOf(e))' = SumFunctionOnSet([i \in DOMAIN log' |-> log'[i].kry], RowsOf(e)')
      BY DEF Total
    <2>5. Total(RowsOf(e)) \in Nat
      BY <2>1, RowsFinite
    <2> QED BY <2>2, <2>3, <2>4, <2>5
  <1> QED BY <1>3, <1>4

LEMMA SupplySame ==
  ASSUME log' = log
  PROVE  Supply' = Supply /\ \A e \in Evidence : Total(RowsOf(e))' = Total(RowsOf(e))
BY DEF Supply, Total, RowsOf

-----------------------------------------------------------------------------
(* Steps that leave the amounts alone *)

Earning == Amounts /\ Backed /\ Bounded

\* One process moves, and reserves nothing by it.
LEMMA MovesOnly ==
  ASSUME Inv, Earning, NEW p \in Process, NEW s, NEW j,
         pc' = [pc EXCEPT ![p] = s], job' = [job EXCEPT ![p] = j], j.tokens \in Nat,
         log' = log, books' = books, decay' = decay, windows' = windows,
         s = "append" => j.prior # 0,
         s \in {"tip", "earn"} => j = job[p],
         s = "tip" => j.prior # 0, s = "earn" => Owed(p)
  PROVE  Earning'
  <1>1. /\ pc'[p] = s /\ job'[p] = j
        /\ \A q \in Process : q # p => pc'[q] = pc[q] /\ job'[q] = job[q]
    BY Updated DEF Inv
  <1>2. Supply' = Supply /\ \A e \in Evidence : Total(RowsOf(e))' = Total(RowsOf(e))
    BY SupplySame
  <1>3. Amounts'
    BY <1>1 DEF Earning, Amounts
  <1>4. Backed'
    <2>1. ASSUME NEW q \in Process, Owed(q)' PROVE Owed(q) /\ Worth(q)' = Worth(q)
      BY <1>1, <2>1 DEF Owed, Worth, Promotion
    <2> QED BY <1>2, <2>1 DEF Earning, Backed
  <1>5. Bounded'
    <2>1. ASSUME NEW q \in Process, Appending(q)' PROVE Appending(q) /\ job'[q] = job[q]
      BY <1>1, <2>1 DEF Appending, Promotion
    <2>2. \A e \in Evidence : Left(e)' = Left(e) /\ Bound(e)' = Bound(e)
      BY DEF Left, Bound
    <2>3. ASSUME NEW q \in Process, Appending(q)
          PROVE  job[q].call.evidence \in Evidence
      BY <2>3 DEF Inv, MintInvariant, Prepared, Appending, CallRecord
    <2> QED BY <1>2, <2>1, <2>2, <2>3 DEF Earning, Bounded
  <1> QED BY <1>3, <1>4, <1>5 DEF Earning

\* A call that ends.
LEMMA ReturnEarns ==
  ASSUME Inv, Earning, NEW p \in Process, Leave(p),
         log' = log, books' = books, decay' = decay, windows' = windows
  PROVE  Earning'
  <1>1. NoJob.tokens = 0 /\ 0 \in Nat
    BY TaskParts DEF NoJob
  <1> QED BY <1>1, MovesOnly DEF Leave, Goto

\* A call that goes on as it is.
LEMMA GoesOnEarns ==
  ASSUME Inv, Earning, NEW p \in Process, NEW s, Goto(p, s), job' = job,
         log' = log, books' = books, decay' = decay, windows' = windows,
         s = "append" => job[p].prior # 0,
         s = "tip" => job[p].prior # 0, s = "earn" => Owed(p)
  PROVE  Earning'
  <1>1. job' = [job EXCEPT ![p] = job[p]] /\ job[p].tokens \in Nat
    BY UpdatedStage DEF Inv, Goto, Earning, Amounts
  <1> QED BY <1>1, MovesOnly DEF Goto

\* A call that begins, or learns what it promotes.
LEMMA TaskEarns ==
  ASSUME Inv, Earning, NEW p \in Process, NEW s \in {"find", "mint", "promote"}, NEW c,
         NEW prior, Goto(p, s), job' = [job EXCEPT ![p] = Task(c, prior, 0)],
         log' = log, books' = books, decay' = decay, windows' = windows
  PROVE  Earning'
  <1> DEFINE j == Task(c, prior, 0)
  <1>1. j.tokens = 0 /\ 0 \in Nat
    BY TaskParts
  <1> HIDE DEF j
  <1> QED BY <1>1, MovesOnly DEF Goto, j

\* Nothing moves and no amount changes.
LEMMA QuietEarns ==
  ASSUME Inv, Earning, UNCHANGED <<log, pc, job, books, decay, windows>>
  PROVE  Earning'
  <1>1. Supply' = Supply /\ \A e \in Evidence : Total(RowsOf(e))' = Total(RowsOf(e))
    BY SupplySame
  <1>2. Amounts'
    BY DEF Earning, Amounts
  <1>3. Backed'
    BY <1>1 DEF Earning, Backed, Owed, Worth, Promotion
  <1>4. Bounded'
    <2>1. ASSUME NEW q \in Process, Appending(q)
          PROVE  job[q].call.evidence \in Evidence
      BY <2>1 DEF Inv, MintInvariant, Prepared, Appending, CallRecord
    <2>2. \A e \in Evidence : Left(e)' = Left(e) /\ Bound(e)' = Bound(e)
      BY DEF Left, Bound
    <2>3. \A q \in Process : Appending(q)' <=> Appending(q)
      BY DEF Appending, Promotion
    <2> QED BY <1>1, <2>1, <2>2, <2>3 DEF Earning, Bounded
  <1> QED BY <1>2, <1>3, <1>4 DEF Earning

-----------------------------------------------------------------------------
(* Steps that change an amount *)

\* Under a free lock nothing is owed and nothing is being appended.
LEMMA FreeLock ==
  ASSUME Inv, holder = NoProcess, NEW q \in Process
  PROVE  ~Owed(q) /\ ~Appending(q)
BY ProcessAssumption DEF Inv, MintInvariant, LockExclusive, Owed, Appending

\* Who has the lock is alone in it.
LEMMA OneLocked ==
  ASSUME Inv, NEW p \in Process, NEW q \in Process,
         Locked(pc[p]), Locked(pc[q])
  PROVE  p = q
BY DEF Inv, MintInvariant, LockExclusive, Locked

LEMMA WorthFacts ==
  ASSUME Inv, Amounts, NEW p \in Process, pc[p] # "idle"
  PROVE  /\ Worth(p) \in Nat /\ Worth(p) <= job[p].tokens /\ job[p].tokens \in Nat
         /\ job[p].call.evidence \in Evidence
         /\ job[p].call.worth \in {0, 1}
  <1>1. job[p].call \in CallRecord
    BY DEF Inv, MintInvariant, Prepared
  <1>2. job[p].call.evidence \in Evidence /\ job[p].call.worth \in {0, 1}
    BY <1>1 DEF CallRecord
  <1>3. job[p].tokens \in Nat
    BY DEF Amounts
  <1>4. CASE job[p].call.worth = 0
    BY <1>2, <1>3, <1>4 DEF Worth
  <1>5. CASE job[p].call.worth = 1
    BY <1>2, <1>3, <1>5 DEF Worth
  <1> QED BY <1>2, <1>4, <1>5

\* The ledger changes and nothing is owed then: what it holds was minted.
LEMMA BooksChange ==
  ASSUME Inv, Earning, log' = log, decay' = decay, windows' = windows,
         books' \in [file : {"none", "here", "lost"}, earned : Nat, spent : Nat],
         books'.earned <= Supply, \A p \in Process : job'[p].tokens \in Nat,
         \A p \in Process : ~Owed(p)' /\ ~Appending(p)'
  PROVE  Earning'
  <1>1. Supply' = Supply /\ \A e \in Evidence : Total(RowsOf(e))' = Total(RowsOf(e))
    BY SupplySame
  <1>2. Amounts'
    BY DEF Earning, Amounts
  <1>3. Backed'
    BY <1>1 DEF Backed
  <1>4. Bounded'
    <2>1. \A e \in Evidence : Left(e)' = Left(e) /\ Bound(e)' = Bound(e)
      BY DEF Left, Bound
    <2> QED BY <1>1, <2>1 DEF Earning, Bounded
  <1> QED BY <1>2, <1>3, <1>4 DEF Earning

LEMMA SupplyNat ==
  ASSUME Inv, Earning
  PROVE  Supply \in Nat
BY RowsFinite DEF Inv, Earning, Supply

LEMMA EstablishedFacts ==
  ASSUME Inv, Earning
  PROVE  /\ Established \in [file : {"none", "here", "lost"}, earned : Nat, spent : Nat]
         /\ Established.earned <= Supply
  <1>1. Supply \in Nat
    BY SupplyNat
  <1>2. CASE books.file = "here"
    BY <1>2 DEF Established, Earning, Amounts, Backed
  <1>3. CASE books.file # "here"
    BY <1>1, <1>3 DEF Established
  <1> QED BY <1>2, <1>3

LEMMA EnterEarns ==
  ASSUME Inv, Earning, NEW p \in Process, Enter(p)
  PROVE  Earning'
  <1>1. /\ log' = log /\ decay' = decay /\ windows' = windows /\ job' = job
        /\ holder = NoProcess /\ books' = Established /\ pc' = [pc EXCEPT ![p] = "reserve"]
    BY DEF Enter, Goto
  <1>2. pc'[p] = "reserve" /\ \A q \in Process : q # p => pc'[q] = pc[q]
    BY <1>1 DEF Inv, Typed
  <1>3. \A q \in Process : ~Owed(q)' /\ ~Appending(q)'
    BY <1>1, <1>2, FreeLock DEF Owed, Appending, Promotion
  <1>4. \A q \in Process : job'[q].tokens \in Nat
    BY <1>1 DEF Earning, Amounts
  <1> QED BY <1>1, <1>3, <1>4, EstablishedFacts, BooksChange

LEMMA ReconcileEarns ==
  ASSUME Inv, Earning, NEW p \in Process, Reconcile(p)
  PROVE  Earning'
  <1>1. /\ log' = log /\ decay' = decay /\ windows' = windows /\ job' = job /\ pc' = pc
        /\ holder = NoProcess /\ books' = [Established EXCEPT !.earned = Supply]
    BY DEF Reconcile, ReconcileAllowed
  <1>2. books' \in [file : {"none", "here", "lost"}, earned : Nat, spent : Nat]
        /\ books'.earned = Supply
    BY <1>1, EstablishedFacts, SupplyNat
  <1>3. \A q \in Process : ~Owed(q)' /\ ~Appending(q)'
    BY <1>1, FreeLock DEF Owed, Appending, Promotion
  <1>4. \A q \in Process : job'[q].tokens \in Nat
    BY <1>1 DEF Earning, Amounts
  <1>5. books'.earned <= Supply
    BY <1>2, SupplyNat
  <1> QED BY <1>1, <1>2, <1>3, <1>4, <1>5, BooksChange

\* The ledger is spent from or lost: it holds no more than before.
LEMMA BooksShrink ==
  ASSUME Inv, Earning, UNCHANGED <<log, pc, job, decay, windows>>,
         books' \in [file : {"none", "here", "lost"}, earned : Nat, spent : Nat],
         books'.earned <= books.earned
  PROVE  Earning'
  <1>1. Supply' = Supply /\ \A e \in Evidence : Total(RowsOf(e))' = Total(RowsOf(e))
    BY SupplySame
  <1>2. Amounts'
    BY DEF Earning, Amounts
  <1>3. Backed'
    <2>1. ASSUME NEW q \in Process, Owed(q)'
          PROVE  Owed(q) /\ Worth(q)' = Worth(q) /\ Worth(q) \in Nat
      <3>1. Owed(q) /\ Worth(q)' = Worth(q)
        BY <2>1 DEF Owed, Worth, Promotion
      <3>2. pc[q] # "idle"
        BY <3>1 DEF Owed
      <3> QED BY <3>1, <3>2, WorthFacts DEF Earning
    <2>2. books.earned \in Nat /\ books'.earned \in Nat /\ Supply \in Nat
      BY SupplyNat DEF Earning, Amounts
    <2> QED BY <1>1, <2>1, <2>2 DEF Earning, Backed
  <1>4. Bounded'
    <2>1. ASSUME NEW q \in Process, Appending(q)
          PROVE  job[q].call.evidence \in Evidence
      BY <2>1 DEF Inv, MintInvariant, Prepared, Appending, CallRecord
    <2>2. \A e \in Evidence : Left(e)' = Left(e) /\ Bound(e)' = Bound(e)
      BY DEF Left, Bound
    <2>3. \A q \in Process : Appending(q)' <=> Appending(q)
      BY DEF Appending, Promotion
    <2> QED BY <1>1, <2>1, <2>2, <2>3 DEF Earning, Bounded
  <1> QED BY <1>2, <1>3, <1>4 DEF Earning

LEMMA LedgerEarns ==
  ASSUME Inv, Earning, Spend \/ LoseLedger
  PROVE  Earning'
  <1>1. books \in [file : {"none", "here", "lost"}, earned : Nat, spent : Nat]
    BY DEF Earning, Amounts
  <1>2. CASE Spend
    <2>1. UNCHANGED <<log, pc, job, decay, windows>> /\ books' = [books EXCEPT !.spent = @ + 1]
      BY <1>2 DEF Spend
    <2>2. books' \in [file : {"none", "here", "lost"}, earned : Nat, spent : Nat]
          /\ books'.earned = books.earned
      BY <1>1, <2>1
    <2> QED BY <1>1, <2>1, <2>2, BooksShrink
  <1>3. CASE LoseLedger
    <2>1. /\ UNCHANGED <<log, pc, job, decay, windows>>
          /\ books' = [file |-> "lost", earned |-> 0, spent |-> 0]
      BY <1>3 DEF LoseLedger
    <2>2. books' \in [file : {"none", "here", "lost"}, earned : Nat, spent : Nat]
          /\ books'.earned = 0
      BY <2>1
    <2> QED BY <1>1, <2>1, <2>2, BooksShrink
  <1> QED BY <1>2, <1>3

\* A window that elapses makes room for two first credits.
LEMMA WindowEarns ==
  ASSUME Inv, Earning, NEW e \in Evidence, WindowElapses(e)
  PROVE  Earning'
  <1>1. /\ UNCHANGED <<log, pc, job, books>> /\ decay[e] > 0
        /\ decay' = [decay EXCEPT ![e] = 0] /\ windows' = [windows EXCEPT ![e] = @ + 1]
    BY DEF WindowElapses
  <1>2. /\ decay \in [Evidence -> 0..Dust] /\ windows \in [Evidence -> Nat]
        /\ Full \in Nat /\ Dust \in Nat
    BY DecayAssumption DEF Earning, Amounts
  <1>3. /\ decay' \in [Evidence -> 0..Dust] /\ windows' \in [Evidence -> Nat]
        /\ decay'[e] = 0 /\ windows'[e] = windows[e] + 1
        /\ \A f \in Evidence : f # e => decay'[f] = decay[f] /\ windows'[f] = windows[f]
    BY <1>1, <1>2
  <1>4. Supply' = Supply /\ \A f \in Evidence : Total(RowsOf(f))' = Total(RowsOf(f))
    BY <1>1, SupplySame
  <1>5. Amounts'
    BY <1>1, <1>3 DEF Earning, Amounts
  <1>6. Backed'
    BY <1>1, <1>4 DEF Earning, Backed, Owed, Worth, Promotion
  <1>7. ASSUME NEW f \in Evidence
        PROVE  /\ Left(f) \in Nat /\ Left(f)' \in Nat /\ Bound(f) \in Nat
               /\ Bound(f)' - Left(f)' >= Bound(f) - Left(f) /\ Bound(f)' \in Nat
    <2>1. Halved[decay[f]] \in Nat /\ Halved[decay'[f]] \in Nat /\ Halved[0] = Full
      BY <1>2, <1>3, HalvedFacts
    <2>2. windows[f] \in Nat /\ windows'[f] \in Nat
      BY <1>2, <1>3
    <2>3. Left(f) \in Nat /\ Left(f)' \in Nat
      BY <2>1 DEF Left
    <2>4. Bound(f) \in Nat /\ Bound(f)' \in Nat
      BY <1>2, <2>2 DEF Bound
    <2>5. CASE f = e
      <3>1. Left(f)' = 2 * Full
        BY <1>3, <2>1, <2>5 DEF Left
      <3>2. Bound(f)' = 2 * Full * ((windows[f] + 1) + 1)
        BY <1>3, <2>5 DEF Bound
      <3>3. 2 * Full * ((windows[f] + 1) + 1) = 2 * Full * (windows[f] + 1) + 2 * Full
        BY <1>2, <2>2
      <3> QED BY <2>3, <2>4, <3>1, <3>2, <3>3 DEF Bound
    <2>6. CASE f # e
      <3>1. Left(f)' = Left(f) /\ Bound(f)' = Bound(f)
        BY <1>3, <2>6 DEF Left, Bound
      <3> QED BY <2>3, <2>4, <3>1
    <2> QED BY <2>3, <2>4, <2>5, <2>6
  <1>8. Bounded'
    <2>1. ASSUME NEW f \in Evidence PROVE Total(RowsOf(f))' + Left(f)' <= Bound(f)'
      <3>1. Total(RowsOf(f)) \in Nat
        BY RowsFinite DEF RowsOf, Inv, Earning
      <3>2. Total(RowsOf(f)) + Left(f) <= Bound(f)
        BY DEF Earning, Bounded
      <3> QED BY <1>4, <1>7, <3>1, <3>2
    <2>2. ASSUME NEW q \in Process, NEW f \in Evidence, Appending(q)', job[q].call.evidence = f
          PROVE  Total(RowsOf(f))' + job[q].tokens + Left(f)' <= Bound(f)'
      <3>1. Appending(q)
        BY <1>1, <2>2 DEF Appending, Promotion
      <3>2. job[q].tokens \in Nat
        BY DEF Earning, Amounts
      <3>3. Total(RowsOf(f)) + job[q].tokens + Left(f) <= Bound(f)
        BY <2>2, <3>1 DEF Earning, Bounded
      <3>4. Total(RowsOf(f)) \in Nat /\ Total(RowsOf(f))' = Total(RowsOf(f))
        BY <1>4, RowsFinite DEF RowsOf, Inv, Earning
      <3> QED BY <1>7, <3>2, <3>3, <3>4
    <2> QED BY <1>1, <2>1, <2>2 DEF Bounded
  <1> QED BY <1>5, <1>6, <1>8 DEF Earning

-----------------------------------------------------------------------------
(* Steps of the process that has the lock *)

\* Nobody else owes or appends.
LEMMA OthersRest ==
  ASSUME Inv, NEW p \in Process, Locked(pc[p]), NEW q \in Process, q # p,
         pc'[q] = pc[q], job'[q] = job[q]
  PROVE  ~Owed(q)' /\ ~Appending(q)'
  <1>1. ~Locked(pc[q])
    BY OneLocked
  <1> QED BY <1>1 DEF Owed, Appending, Locked

\* A replay is counted, and what it may earn is reserved by who counts it.
LEMMA ReserveEarns ==
  ASSUME Inv, Earning, NEW p \in Process, Reserve(p)
  PROVE  Earning'
  <1> DEFINE c == job[p].call
             j == job'[p]
  <1>1. /\ pc[p] = "reserve" /\ log' = log /\ books' = books /\ windows' = windows
        /\ decay' = [decay EXCEPT ![c.evidence] = Replayed(@)]
    BY DEF Reserve, PersistReservation
  <1>2. c.evidence \in Evidence
    BY <1>1, WorthFacts DEF Earning
  <1>3. /\ decay \in [Evidence -> 0..Dust] /\ windows \in [Evidence -> Nat]
        /\ Full \in Nat /\ Dust \in Nat
    BY DecayAssumption DEF Earning, Amounts
  <1>4. PICK e \in Evidence : e = c.evidence
    BY <1>2
  <1>5. /\ Replayed(decay[e]) \in 0..Dust
        /\ Halved[decay[e]] >= 1
             => Halved[decay[e]] + 2 * Halved[Replayed(decay[e])] <= 2 * Halved[decay[e]]
        /\ Full + 2 * Halved[Replayed(decay[e])] <= 2 * Full
        /\ Halved[Replayed(decay[e])] <= Halved[decay[e]]
    BY <1>3, ReplayLeaves
  <1>6. /\ decay' \in [Evidence -> 0..Dust] /\ decay'[e] = Replayed(decay[e])
        /\ \A f \in Evidence : f # e => decay'[f] = decay[f]
    BY <1>1, <1>3, <1>4, <1>5
  <1>7. Supply' = Supply /\ \A f \in Evidence : Total(RowsOf(f))' = Total(RowsOf(f))
    BY <1>1, SupplySame
  <1>8. ASSUME NEW f \in Evidence
        PROVE  /\ Left(f) \in Nat /\ Left(f)' \in Nat /\ Left(f)' <= Left(f)
               /\ Bound(f)' = Bound(f) /\ Bound(f) \in Nat /\ Total(RowsOf(f)) \in Nat
    <2>1. Halved[decay[f]] \in Nat /\ Halved[decay'[f]] \in Nat
      BY <1>3, <1>6, HalvedFacts
    <2>2. Halved[decay'[f]] <= Halved[decay[f]]
      BY <1>5, <1>6, <2>1
    <2>3. windows[f] \in Nat
      BY <1>3
    <2>4. Bound(f)' = Bound(f) /\ Bound(f) \in Nat
      BY <1>1, <1>3, <2>3 DEF Bound
    <2>5. Total(RowsOf(f)) \in Nat
      BY RowsFinite DEF RowsOf, Inv, Earning
    <2> QED BY <2>1, <2>2, <2>4, <2>5 DEF Left
  <1>9. /\ \A q \in Process : q # p => pc'[q] = pc[q] /\ job'[q] = job[q]
        /\ \/ pc'[p] = "idle" /\ j = NoJob
           \/ /\ pc'[p] = "append" /\ j = Task(c, 0, Effective(c))
              /\ ~(Effective(c) < 1)
    BY DEF Reserve, Return, Leave, Goto, Inv, Typed
  <1>10. Effective(c) \in Nat /\ Effective(c) \in {Full, Halved[decay[e]]}
    BY <1>3, <1>4, HalvedFacts DEF Effective
  <1>11. j.tokens \in Nat /\ (pc'[p] = "append" => j.tokens = Effective(c) /\ j.call = c)
    BY <1>9, <1>10, TaskParts DEF NoJob
  <1>12. Amounts'
    BY <1>1, <1>6, <1>9, <1>11 DEF Earning, Amounts
  <1>13. \A q \in Process : q # p => ~Owed(q)' /\ ~Appending(q)'
    BY <1>1, <1>9, OthersRest DEF Locked
  <1>14. Backed'
    <2>1. ~Owed(p)'
      BY <1>9 DEF Owed
    <2> QED BY <1>1, <1>7, <1>13, <2>1 DEF Earning, Backed
  <1>15. Bounded'
    <2>1. \A f \in Evidence : Total(RowsOf(f))' + Left(f)' <= Bound(f)'
      <3> SUFFICES ASSUME NEW f \in Evidence
                   PROVE  Total(RowsOf(f))' + Left(f)' <= Bound(f)'
        OBVIOUS
      <3>1. Total(RowsOf(f)) + Left(f) <= Bound(f)
        BY DEF Earning, Bounded
      <3> QED BY <1>7, <1>8, <3>1
    <2>2. ASSUME pc'[p] = "append"
          PROVE  Total(RowsOf(e))' + j.tokens + Left(e)' <= Bound(e)'
      <3>1. Total(RowsOf(e)) + Left(e) <= Bound(e)
        BY DEF Earning, Bounded
      <3>2. Left(e)' = 2 * Halved[Replayed(decay[e])]
        BY <1>6 DEF Left
      <3>3. j.tokens = Effective(c) /\ Effective(c) >= 1
        BY <1>9, <1>10, <1>11, <2>2
      <3>4. CASE c.kind = "strict"
        <4>1. ~EvidenceRetained(e)
          BY <1>1, <1>4, <3>4 DEF Inv, MintInvariant, Checked
        <4>2. RowsOf(e) = {}
          BY <4>1 DEF RowsOf, EvidenceRetained
        <4>3. Total(RowsOf(e)) = 0
          BY <4>2, SumEmpty DEF Total
        <4>4. Effective(c) = Full
          BY <3>4 DEF Effective
        <4>5. windows[e] \in Nat
          BY <1>3
        <4>6. 2 * Full * (windows[e] + 1) >= 2 * Full
          <5>1. 2 * Full \in Nat /\ 2 * Full * (windows[e] + 1) = 2 * Full * windows[e] + 2 * Full
            BY <1>3, <4>5
          <5>2. 2 * Full * windows[e] \in Nat
            BY <1>3, <4>5
          <5> QED BY <5>1, <5>2
        <4>7. Bound(e) >= 2 * Full
          BY <4>6 DEF Bound
        <4> QED BY <1>3, <1>5, <1>7, <1>8, <3>2, <3>3, <4>3, <4>4, <4>7
      <3>5. CASE c.kind # "strict"
        <4>1. Effective(c) = Halved[decay[e]]
          BY <1>4, <3>5 DEF Effective
        <4>2. Effective(c) + Left(e)' <= Left(e)
          BY <1>5, <3>2, <3>3, <4>1 DEF Left
        <4> QED BY <1>7, <1>8, <1>10, <3>1, <3>3, <4>2
      <3> QED BY <3>4, <3>5
    <2>3. ASSUME NEW q \in Process, NEW f \in Evidence, Appending(q)', job'[q].call.evidence = f
          PROVE  Total(RowsOf(f))' + job'[q].tokens + Left(f)' <= Bound(f)'
      <3>1. q = p /\ pc'[p] = "append"
        BY <1>13, <2>3 DEF Appending
      <3>2. f = e
        BY <1>4, <1>11, <2>3, <3>1
      <3> QED BY <2>2, <3>1, <3>2
    <2> QED BY <2>1, <2>3 DEF Bounded
  <1> QED BY <1>12, <1>14, <1>15 DEF Earning

\* A receipt joins the log: what it is worth is owed to the ledger, and what
\* was reserved for it is earned.
LEMMA GrowthEarns ==
  ASSUME Inv, Earning, NEW p \in Process, pc[p] = "append", log' = Append(log, Receipt(p)),
         books' = books, decay' = decay, windows' = windows,
         \A q \in Process : q # p => pc'[q] = pc[q] /\ job'[q] = job[q],
         job'[p].tokens \in Nat,
         pc'[p] = "idle" \/ (pc'[p] = "tip" /\ job'[p] = job[p])
  PROVE  Earning'
  <1>1. /\ Worth(p) \in Nat /\ Worth(p) <= job[p].tokens /\ job[p].tokens \in Nat
        /\ job[p].call.evidence \in Evidence
    BY WorthFacts DEF Earning
  <1>2. PICK e \in Evidence : e = job[p].call.evidence
    BY <1>1
  <1>3. PICK r : r = Receipt(p)
    OBVIOUS
  <1>4. r.kry = Worth(p) /\ r.evidence = e
    BY <1>2, <1>3, ReceiptParts DEF Worth
  <1>5. /\ Supply' = Supply + Worth(p) /\ Supply \in Nat
        /\ \A f \in Evidence :
             /\ Total(RowsOf(f)) \in Nat
             /\ Total(RowsOf(f))' = IF f = e THEN Total(RowsOf(f)) + Worth(p)
                                    ELSE Total(RowsOf(f))
    BY <1>1, <1>3, <1>4, SupplyGrown DEF Inv, Earning
  <1>6. \A q \in Process : q # p => ~Owed(q)' /\ ~Appending(q)'
    BY OthersRest DEF Locked
  <1>7. Amounts'
    <2>1. /\ DOMAIN log = 1..Len(log) /\ Len(log) \in Nat
          /\ DOMAIN log' = 1..(Len(log) + 1) /\ log'[Len(log) + 1] = r
          /\ \A i \in 1..Len(log) : log'[i] = log[i]
      BY <1>3, LogLength, AppendedLog DEF Inv, Typed
    <2>2. \A i \in DOMAIN log' : log'[i].kry \in Nat
      BY <1>1, <1>4, <2>1 DEF Earning, Amounts
    <2>3. \A q \in Process : job'[q].tokens \in Nat
      BY DEF Earning, Amounts
    <2> QED BY <2>2, <2>3 DEF Earning, Amounts
  <1>8. Backed'
    <2>1. books.earned \in Nat /\ books.earned <= Supply
      BY DEF Earning, Amounts, Backed
    <2>2. Owed(p)' => Worth(p)' = Worth(p)
      BY DEF Owed, Worth
    <2>3. books.earned + Worth(p) <= Supply' /\ books.earned <= Supply'
      BY <1>1, <1>5, <2>1
    <2> QED BY <1>6, <2>2, <2>3 DEF Backed
  <1>9. Bounded'
    <2>1. \A f \in Evidence :
            /\ Left(f)' = Left(f) /\ Bound(f)' = Bound(f)
            /\ Left(f) \in Nat /\ Bound(f) \in Nat
      <3> SUFFICES ASSUME NEW f \in Evidence
                   PROVE  /\ Left(f)' = Left(f) /\ Bound(f)' = Bound(f)
                          /\ Left(f) \in Nat /\ Bound(f) \in Nat
        OBVIOUS
      <3>1. Halved[decay[f]] \in Nat /\ windows[f] \in Nat /\ Full \in Nat
        BY HalvedFacts, DecayAssumption DEF Earning, Amounts
      <3>2. Left(f)' = Left(f) /\ Bound(f)' = Bound(f)
        BY DEF Left, Bound
      <3>3. Left(f) \in Nat
        BY <3>1 DEF Left
      <3>4. PICK n \in Nat : n = 2 * Full /\ n * (windows[f] + 1) = n * windows[f] + n
        BY <3>1
      <3>5. n * windows[f] \in Nat
        BY <3>1, <3>4
      <3>6. Bound(f) \in Nat
        BY <3>4, <3>5 DEF Bound
      <3> QED BY <3>2, <3>3, <3>6
    <2>2. ~Appending(p)'
      BY DEF Appending
    <2>3. CASE Promotion(p)
      <3>1. Worth(p) = 0
        <4>1. job[p].tokens = 0
          BY <2>3 DEF Inv, MintInvariant, Prepared, Promotion
        <4> QED BY <1>1, <4>1
      <3>2. \A f \in Evidence : Total(RowsOf(f))' = Total(RowsOf(f))
        BY <1>5, <3>1
      <3> QED BY <1>6, <2>1, <2>2, <3>2 DEF Earning, Bounded
    <2>4. CASE ~Promotion(p)
      <3>1. Total(RowsOf(e)) + job[p].tokens + Left(e) <= Bound(e)
        BY <1>2, <2>4 DEF Earning, Bounded, Appending
      <3>2. \A f \in Evidence : Total(RowsOf(f))' + Left(f)' <= Bound(f)'
        <4> SUFFICES ASSUME NEW f \in Evidence
                     PROVE  Total(RowsOf(f))' + Left(f)' <= Bound(f)'
          OBVIOUS
        <4>1. Total(RowsOf(f)) + Left(f) <= Bound(f)
          BY DEF Earning, Bounded
        <4>2. CASE f = e
          <5>1. Total(RowsOf(f))' = Total(RowsOf(f)) + Worth(p) /\ Total(RowsOf(f)) \in Nat
            BY <1>5, <4>2
          <5>2. Left(f)' = Left(f) /\ Bound(f)' = Bound(f) /\ Left(f) \in Nat /\ Bound(f) \in Nat
            BY <2>1
          <5>3. Total(RowsOf(f)) + job[p].tokens + Left(f) <= Bound(f)
            BY <3>1, <4>2
          <5> QED BY <1>1, <5>1, <5>2, <5>3
        <4>3. CASE f # e
          BY <1>5, <2>1, <4>1, <4>3
        <4> QED BY <4>2, <4>3
      <3> QED BY <1>6, <2>2, <3>2 DEF Bounded
    <2> QED BY <2>3, <2>4
  <1> QED BY <1>7, <1>8, <1>9 DEF Earning

LEMMA AppendReceiptEarns ==
  ASSUME Inv, Earning, NEW p \in Process, AppendReceipt(p)
  PROVE  Earning'
  <1>1. /\ pc[p] = "append" /\ log' = Append(log, Receipt(p)) /\ job' = job
        /\ books' = books /\ decay' = decay /\ windows' = windows
        /\ pc'[p] = "tip" /\ \A q \in Process : q # p => pc'[q] = pc[q]
    BY DEF AppendReceipt, Goto, Inv, Typed
  <1>2. job'[p].tokens \in Nat
    BY <1>1 DEF Earning, Amounts
  <1> QED BY <1>1, <1>2, GrowthEarns

LEMMA AppendFailsEarns ==
  ASSUME Inv, Earning, NEW p \in Process, AppendFails(p)
  PROVE  Earning'
  <1>1. /\ pc[p] = "append" /\ Leave(p)
        /\ books' = books /\ decay' = decay /\ windows' = windows
        /\ log' = log \/ log' = Append(log, Receipt(p))
    BY DEF AppendFails, Return
  <1>2. /\ pc'[p] = "idle" /\ job'[p] = NoJob
        /\ \A q \in Process : q # p => pc'[q] = pc[q] /\ job'[q] = job[q]
    BY <1>1 DEF Leave, Goto, Inv, Typed
  <1>3. NoJob.tokens = 0
    BY TaskParts DEF NoJob
  <1> QED BY <1>1, <1>2, <1>3, GrowthEarns, ReturnEarns

\* The credit a mint owes is given.
LEMMA EarnEarns ==
  ASSUME Inv, Earning, NEW p \in Process, Earn(p)
  PROVE  Earning'
  <1>1. /\ pc[p] = "earn" /\ log' = log /\ decay' = decay /\ windows' = windows
        /\ books' = IF books.file = "here"
                      THEN [books EXCEPT !.earned = @ + Worth(p)] ELSE books
    BY DEF Earn, Credited, Worth
  <1>2. /\ pc'[p] = "idle" /\ job'[p] = NoJob
        /\ \A q \in Process : q # p => pc'[q] = pc[q] /\ job'[q] = job[q]
    BY DEF Earn, Return, Leave, Goto, Inv, Typed
  <1>3. NoJob.tokens = 0
    BY TaskParts DEF NoJob
  <1>4. /\ books \in [file : {"none", "here", "lost"}, earned : Nat, spent : Nat]
        /\ Worth(p) \in Nat /\ books.earned <= Supply
        /\ books.earned + Worth(p) <= Supply
    BY <1>1, WorthFacts DEF Earning, Amounts, Backed, Owed
  <1>5. /\ books' \in [file : {"none", "here", "lost"}, earned : Nat, spent : Nat]
        /\ books'.earned <= Supply
    BY <1>1, <1>4
  <1>6. \A q \in Process : ~Owed(q)' /\ ~Appending(q)'
    <2>1. ~Owed(p)' /\ ~Appending(p)'
      BY <1>2 DEF Owed, Appending
    <2> QED BY <1>1, <1>2, <2>1, OthersRest DEF Locked
  <1>7. \A q \in Process : job'[q].tokens \in Nat
    BY <1>2, <1>3 DEF Earning, Amounts
  <1> QED BY <1>1, <1>5, <1>6, <1>7, BooksChange

-----------------------------------------------------------------------------
(* Every step *)

LEMMA WorkEarns ==
  ASSUME Inv, Earning, NEW p \in Process, Work(p)
  PROVE  Earning'
  <1>1. CASE FindPrior(p)
    <2>1. /\ UNCHANGED <<log, books, decay, windows, job>>
          /\ Goto(p, "refind") \/ Goto(p, "precheck") \/ Goto(p, "mint")
      BY <1>1 DEF FindPrior, files
    <2> QED BY <2>1, GoesOnEarns
  <1>2. CASE FindAgain(p)
    <2>1. /\ UNCHANGED <<log, books, decay, windows>>
          /\ \/ Leave(p)
             \/ /\ Goto(p, "promote")
                /\ job' = [job EXCEPT ![p] = Task(job[p].call, PriorCredit(job[p].call), 0)]
      BY <1>2 DEF FindAgain, files
    <2> QED BY <2>1, ReturnEarns, TaskEarns
  <1>3. CASE PreCheck(p)
    <2>1. /\ UNCHANGED <<log, books, decay, windows>>
          /\ Leave(p) \/ (Goto(p, "mint") /\ job' = job)
      BY <1>3 DEF PreCheck, files
    <2> QED BY <2>1, ReturnEarns, GoesOnEarns
  <1>4. CASE Promote(p)
    <2>1. /\ UNCHANGED <<log, books, decay, windows, job>> /\ pc[p] = "promote"
          /\ Goto(p, "append")
      BY <1>4 DEF Promote, Promotes, files
    <2>2. job[p].prior # 0
      BY <2>1 DEF Inv, MintInvariant, Prepared
    <2> QED BY <2>1, <2>2, GoesOnEarns
  <1>5. CASE RefusePromotion(p) \/ RefuseMint(p) \/ ReserveFails(p) \/ EarnFails(p) \/ Kill(p)
    <2>1. UNCHANGED <<log, books, decay, windows>> /\ Leave(p)
      BY <1>5 DEF RefusePromotion, RefuseMint, ReserveFails, EarnFails, Kill, Return, files
    <2> QED BY <2>1, ReturnEarns
  <1>6. CASE AdvanceTip(p) \/ TipFails(p)
    <2>1. UNCHANGED <<log, books, decay, windows>> /\ pc[p] = "tip" /\ AfterTip(p)
      BY <1>6 DEF AdvanceTip, TipFails, files
    <2>2. CASE Promotion(p)
      BY <2>1, <2>2, ReturnEarns DEF AfterTip, Return
    <2>3. CASE ~Promotion(p)
      BY <2>1, <2>3, GoesOnEarns DEF AfterTip, Owed
    <2> QED BY <2>2, <2>3
  <1> QED BY <1>1, <1>2, <1>3, <1>4, <1>5, <1>6, EnterEarns, ReserveEarns, AppendReceiptEarns,
             AppendFailsEarns, EarnEarns DEF Work

LEMMA InitEarning == InitPending => Earning
  <1> SUFFICES ASSUME InitPending PROVE Earning
    OBVIOUS
  <1>1. /\ log = <<>> /\ decay = [e \in Evidence |-> 0] /\ windows = [e \in Evidence |-> 0]
        /\ books = [file |-> "none", earned |-> 0, spent |-> 0]
        /\ pc = [p \in Process |-> "idle"] /\ job = [p \in Process |-> NoJob]
    BY DEF InitPending, Init
  <1>2. DOMAIN log = {} /\ Supply = 0 /\ \A e \in Evidence : Total(RowsOf(e)) = 0
    <2>1. DOMAIN log = {} /\ \A e \in Evidence : RowsOf(e) = {}
      BY <1>1 DEF RowsOf
    <2>2. Total({}) = 0
      BY SumEmpty DEF Total
    <2> QED BY <2>1, <2>2 DEF Supply
  <1>3. Full \in Nat /\ Dust \in Nat /\ Halved[0] = Full
    BY DecayAssumption, HalvedFacts
  <1>4. NoJob.tokens = 0
    BY TaskParts DEF NoJob
  <1>5. Amounts
    BY <1>1, <1>2, <1>3, <1>4 DEF Amounts
  <1>6. Backed
    BY <1>1, <1>2 DEF Backed, Owed
  <1>7. Bounded
    <2>1. \A e \in Evidence : Left(e) = 2 * Full /\ Bound(e) = 2 * Full
      BY <1>1, <1>3 DEF Left, Bound
    <2> QED BY <1>1, <1>2, <1>3, <2>1 DEF Bounded, Appending
  <1> QED BY <1>5, <1>6, <1>7 DEF Earning

LEMMA NextEarning == Inv /\ Earning /\ [NextPending]_allVars => Earning'
  <1> SUFFICES ASSUME Inv, Earning, [NextPending]_allVars PROVE Earning'
    OBVIOUS
  <1>1. CASE MintStep
    <2>1. ASSUME NEW p \in Process, NEW c \in Call, Begin(p, c) PROVE Earning'
      <3>1. /\ UNCHANGED <<log, books, decay, windows>>
            /\ Goto(p, "find") \/ Goto(p, "mint")
            /\ job' = [job EXCEPT ![p] = Task(c, 0, 0)]
        BY <2>1 DEF Begin, files
      <3> QED BY <3>1, TaskEarns
    <2>2. CASE Environment
      BY <2>2, ReconcileEarns, LedgerEarns, WindowEarns DEF Environment
    <2> QED BY <1>1, <2>1, <2>2, WorkEarns DEF MintStep
  <1>2. ASSUME NEW p \in Process, NEW id \in Id, Confirm(p, id) PROVE Earning'
    <2>1. /\ UNCHANGED <<log, books, decay, windows>> /\ Goto(p, "mint")
          /\ job' = [job EXCEPT ![p] = Task(Deferred[id], 0, 0)]
      BY <1>2 DEF Confirm, files
    <2> QED BY <2>1, TaskEarns
  <1>3. ASSUME NEW p \in Process, KillConfirming(p) PROVE Earning'
    BY <1>3, ReturnEarns DEF KillConfirming, Return, files
  <1>4. CASE UNCHANGED <<log, pc, job, books, decay, windows>>
    BY <1>4, QuietEarns
  <1>5. CASE Quarantine \/ SweepExpired \/ DamageStore
    BY <1>4, <1>5 DEF Quarantine, SweepExpired, DamageStore, vars, files
  <1>6. ASSUME NEW id \in Id, RecordPending(id) \/ RejectPending(id) \/ TtlPasses(id) PROVE Earning'
    BY <1>4, <1>6 DEF RecordPending, RejectPending, TtlPasses, vars, files
  <1>7. ASSUME NEW p \in Process, FinishConfirm(p) PROVE Earning'
    BY <1>4, <1>7 DEF FinishConfirm, vars, files
  <1>8. ASSUME NEW p \in Process, NEW id \in Id, ConfirmLate(p, id) PROVE Earning'
    BY <1>4, <1>8 DEF ConfirmLate, vars, files
  <1>9. CASE UNCHANGED allVars
    BY <1>4, <1>9 DEF allVars, vars, files
  <1> QED BY <1>1, <1>2, <1>3, <1>5, <1>6, <1>7, <1>8, <1>9 DEF NextPending

LEMMA AlwaysEarning == SpecPending => [](Inv /\ Earning)
  <1>1. InitPending => Inv
    BY InitInv DEF InitPending
  <1> QED BY <1>1, InitEarning, NextInv, NextEarning, PTL DEF SpecPending

\* Whatever is replayed, retried, raced, failed or confirmed late, the receipts
\* of one evidence sum to at most twice a first credit in each decay window:
\* what its replays may still earn is at most what is left of the bound, and a
\* reservation takes its credit out of it before the receipt is written.
THEOREM ReplaysAreBounded == SpecPending => []ReplayBounded
  <1>1. Inv /\ Earning => ReplayBounded
    <2> SUFFICES ASSUME Inv, Earning, NEW e \in Evidence
                 PROVE  Total(RowsOf(e)) <= 2 * Full * (windows[e] + 1)
      BY DEF ReplayBounded
    <2>1. Total(RowsOf(e)) + Left(e) <= Bound(e)
      BY DEF Earning, Bounded
    <2>2. Total(RowsOf(e)) \in Nat
      BY RowsFinite DEF RowsOf, Inv, Earning
    <2>3. Halved[decay[e]] \in Nat /\ windows[e] \in Nat /\ Full \in Nat
      BY HalvedFacts, DecayAssumption DEF Earning, Amounts
    <2>4. Left(e) \in Nat /\ Bound(e) \in Nat
      BY <2>3 DEF Left, Bound
    <2>5. Total(RowsOf(e)) <= Bound(e)
      BY <2>1, <2>2, <2>4
    <2> QED BY <2>5 DEF Bound
  <1> QED BY <1>1, AlwaysEarning, PTL

\* The ledger never holds more earnings than the receipts in the log are
\* worth: the credit of a mint comes after its receipt and under its lock,
\* and a reconciliation waits for that lock.
THEOREM EarningsHaveReceipts == SpecPending => []EarningsBacked
  <1>1. Earning => EarningsBacked
    BY DEF Earning, Backed, EarningsBacked
  <1> QED BY <1>1, AlwaysEarning, PTL
=============================================================================
