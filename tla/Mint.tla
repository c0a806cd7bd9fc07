-------------------------------- MODULE Mint --------------------------------
(***************************************************************************)
(* The mint receipt chain (kry_mint.py): an append-only log of receipts,   *)
(* its checkpoint, the decay record that bounds replays, and the credit of *)
(* the balance ledger, under one cross-process lock; and the verifiers     *)
(* (kry_tlsn_verify.py, kry_tee_verify.py) that upgrade a receipt the host *)
(* minted or mint a fresh one.                                             *)
(*                                                                         *)
(* A receipt's chain hash is the log up to it, so the checkpoint is a      *)
(* sequence; its id is its position.  Tokens are counted in units of the   *)
(* smallest credit, and one token earns one KRY or, where nothing was      *)
(* displaced, none (worth = 0).                                            *)
(***************************************************************************)
EXTENDS Integers, Sequences, FiniteSets, FiniteSetsExt

CONSTANTS
  Process,      \* processes that mint, verify, reconcile and spend
  Call,         \* the calls they make
  Evidence, Gen, Detail,   \* what a call is about
  Full,         \* tokens of a first avoidance
  Dust,         \* replays after which nothing is left of Full
  MaxReceipts,  \* bound: receipts in the log
  MaxFaults,    \* bound: failures, kills, losses and windows that elapse
  MaxSpent,     \* bound: debits of the ledger
  NoProcess, NoCall

Tiers == {"self", "tlsn", "tee"}

\* kind: how the call mints; gen: the provider generation or measurement it
\* names; detail: the text that identifies the caller's request.
CallRecord == [kind : {"host", "strict", "tlsn", "tee"}, evidence : Evidence,
               gen : Gen, worth : {0, 1}, detail : Detail]

ASSUME CallsAssumption == Call \subseteq CallRecord /\ NoCall \notin CallRecord
ASSUME ProcessAssumption == NoProcess \notin Process

\* What is left of a first credit after a number of replays.
Halved[count \in 0..Dust] == IF count = 0 THEN Full ELSE Halved[count - 1] \div 2

ASSUME DecayAssumption == Full \in Nat /\ Dust \in Nat /\ Halved[Dust] = 0

VARIABLES
  log,      \* the receipts that were written completely
  tail,     \* how the file ends: "absent", "whole", "bare" (no newline),
            \* "torn" (part of a record), "joined" (two records in a line)
  tip,      \* the checkpoint
  decay,    \* the reservations of an evidence in its window
  books,    \* the balance ledger: is its file "none", "here" or "lost"
  holder,   \* who has the mint lock
  pc, job,  \* where a process is, and with what
  windows,  \* history: the windows of an evidence that elapsed
  faults    \* history: how much of MaxFaults has happened

files == <<log, tail, tip, decay, books, windows>>
vars == <<files, faults, holder, pc, job>>

Stages == {"idle", "find", "refind", "precheck", "promote", "mint", "reserve",
           "append", "tip", "earn"}
Job == [call : CallRecord \cup {NoCall}, prior : Nat, tokens : Nat]
Task(c, prior, tokens) == [call |-> c, prior |-> prior, tokens |-> tokens]
NoJob == Task(NoCall, 0, 0)

Init ==
  /\ log = <<>> /\ tail = "absent" /\ tip = <<>>
  /\ decay = [e \in Evidence |-> 0] /\ windows = [e \in Evidence |-> 0]
  /\ books = [file |-> "none", earned |-> 0, spent |-> 0]
  /\ holder = NoProcess /\ faults = 0
  /\ pc = [p \in Process |-> "idle"] /\ job = [p \in Process |-> NoJob]

-----------------------------------------------------------------------------
(* What the log says *)

\* A line that is no record stops every reader of the whole log.
Readable == tail \notin {"torn", "joined"}

\* verify_chain: the log is read and the checkpoint does not contradict it.
ChainValid ==
  /\ Readable
  /\ Len(log) >= Len(tip)
  /\ Len(log) = Len(tip) => log = tip

\* What some rows are worth, and the whole chain.
Total(rows) == SumFunctionOnSet([i \in DOMAIN log |-> log[i].kry], rows)
Supply == Total(DOMAIN log)
RowsOf(e) == {i \in DOMAIN log : log[i].evidence = e}

\* The rows a verifier would upgrade, and the last of them.
Upgradable(c) == {i \in DOMAIN log : log[i].gen = c.gen /\ log[i].tier = "self" /\ log[i].kry > 0}
PriorCredit(c) == IF Readable /\ Upgradable(c) # {} THEN Max(Upgradable(c)) ELSE 0

\* A credit of the verifier's own tier that is no promotion.
FreshCredit(c) ==
  Readable /\ \E i \in DOMAIN log :
    log[i].gen = c.gen /\ log[i].tier = c.kind /\ log[i].supersedes = 0 /\ log[i].kry > 0

\* Fault: promotions are looked up by the tier promoted to.
PromotedTo(i, tier) == \E j \in DOMAIN log : log[j].supersedes = i /\ log[j].tier = tier

\* _already_promoted: to any anchored tier.
AlreadyPromoted(i, tier) == \E j \in DOMAIN log : log[j].supersedes = i /\ log[j].tier # "self"

EvidenceRetained(e) == \E i \in DOMAIN log : log[i].evidence = e

Verifies(c) == c.kind \in {"tlsn", "tee"}
Replayed(count) == IF count < Dust THEN count + 1 ELSE count

-----------------------------------------------------------------------------
Goto(p, stage) == pc' = [pc EXCEPT ![p] = stage]
Leave(p) == /\ Goto(p, "idle")
            /\ job' = [job EXCEPT ![p] = NoJob]
Unlock(p) == holder' = IF holder = p THEN NoProcess ELSE holder
\* The call is over; its lock, if it has it, is free.
Return(p) == Leave(p) /\ Unlock(p)
\* Something that need not happen: a failure, a kill, a loss, a window.
Mishap == faults < MaxFaults /\ faults' = faults + 1

InFlight == {p \in Process : pc[p] # "idle"}

Begin(p, c) ==
  /\ pc[p] = "idle"
  /\ Len(log) + Cardinality(InFlight) < MaxReceipts
  /\ Goto(p, IF Verifies(c) THEN "find" ELSE "mint")
  /\ job' = [job EXCEPT ![p] = Task(c, 0, 0)]
  /\ UNCHANGED <<faults, files, holder>>

-----------------------------------------------------------------------------
(* A verifier looks at the log before it has any lock *)

FindPrior(p) ==
  LET c == job[p].call
  IN  /\ pc[p] = "find"
      /\ Goto(p, CASE PriorCredit(c) # 0 -> "refind"
                   [] PriorCredit(c) = 0 /\ c.kind = "tlsn" -> "precheck"
                   [] OTHER -> "mint")
      /\ UNCHANGED <<faults, files, holder, job>>

\* The promotion reads its receipt again; none means "already upgraded".
FindAgain(p) ==
  LET prior == PriorCredit(job[p].call)
  IN  /\ pc[p] = "refind"
      /\ IF prior = 0
           THEN Leave(p)
           ELSE /\ Goto(p, "promote")
                /\ job' = [job EXCEPT ![p] = Task(@.call, prior, 0)]
      /\ UNCHANGED <<faults, files, holder>>

PreCheck(p) ==
  /\ pc[p] = "precheck"
  /\ IF FreshCredit(job[p].call) THEN Leave(p) ELSE Goto(p, "mint") /\ UNCHANGED job
  /\ UNCHANGED <<faults, files, holder>>

-----------------------------------------------------------------------------
(* promote_to_tlsn, promote_to_tee *)

Promotes(p) == pc[p] = "promote" /\ Readable /\ ~AlreadyPromoted(job[p].prior, job[p].call.kind)

Promote(p) ==
  /\ Promotes(p) /\ holder = NoProcess
  /\ holder' = p
  /\ Goto(p, "append")
  /\ UNCHANGED <<faults, files, job>>

RefusePromotion(p) ==
  /\ pc[p] = "promote" /\ ~Promotes(p) /\ holder = NoProcess
  /\ Leave(p)
  /\ UNCHANGED <<faults, files, holder>>

-----------------------------------------------------------------------------
(* mint *)

\* Fault: a lost ledger is taken for one that was never there.
MintableWithoutBooks(p) ==
  LET c == job[p].call
  IN  /\ tail \in {"absent", "whole"}
      /\ c.kind = "strict" => ChainValid /\ ~EvidenceRetained(c.evidence)

\* Fault: a strict mint trusts the decay record to refuse a retry.
MintableOnReserve(p) == tail = "absent" \/ (tail = "whole" /\ books.file = "here")

\* What mint refuses once it has the lock: an unterminated or unreadable log;
\* strictly, a chain that does not verify or retains the evidence; a log
\* whose ledger is gone.
Mintable(p) ==
  LET c == job[p].call
  IN  /\ tail \in {"absent", "whole"}
      /\ c.kind = "strict" => ChainValid /\ ~EvidenceRetained(c.evidence)
      /\ tail = "absent" \/ books.file = "here"

\* The ledger exists before the first receipt.
Established ==
  IF books.file = "here" THEN books ELSE [file |-> "here", earned |-> 0, spent |-> 0]

Enter(p) ==
  /\ pc[p] = "mint" /\ holder = NoProcess
  /\ Mintable(p)
  /\ books' = Established
  /\ holder' = p
  /\ Goto(p, "reserve")
  /\ UNCHANGED <<faults, log, tail, tip, decay, windows, job>>

RefuseMint(p) ==
  /\ pc[p] = "mint" /\ holder = NoProcess
  /\ ~Mintable(p)
  /\ Leave(p)
  /\ UNCHANGED <<faults, files, holder>>

\* Full credit for a strict first event, what the decay leaves otherwise.
Effective(c) == IF c.kind = "strict" THEN Full ELSE Halved[decay[c.evidence]]

\* Fault: a strict first event reserves nothing.
StrictUnreserved(p) ==
  decay' = IF job[p].call.kind = "strict" THEN decay
           ELSE [decay EXCEPT ![job[p].call.evidence] = Replayed(@)]

\* The count is on disk before the receipt is.
PersistReservation(p) == decay' = [decay EXCEPT ![job[p].call.evidence] = Replayed(@)]

\* Fault: the fresh credit is looked up before the lock only.
CheckedBefore(c) == FALSE

\* dedup_check of the verifiers, under the lock.
Duplicate(c) == Verifies(c) /\ FreshCredit(c)

Reserve(p) ==
  LET c == job[p].call
  IN  /\ pc[p] = "reserve"
      /\ PersistReservation(p)
      /\ IF Effective(c) < 1 \/ Duplicate(c)
           THEN Return(p)
           ELSE /\ job' = [job EXCEPT ![p] = Task(c, 0, Effective(c))]
                /\ Goto(p, "append")
                /\ UNCHANGED holder
      /\ UNCHANGED <<faults, log, tail, tip, books, windows>>

\* A decay record that cannot be read or written refuses the mint.
ReserveFails(p) ==
  /\ Mishap
  /\ pc[p] = "reserve"
  /\ Return(p)
  /\ UNCHANGED files

-----------------------------------------------------------------------------
(* The append, the checkpoint and the credit *)

Promotion(p) == job[p].prior # 0

Receipt(p) ==
  LET c == job[p].call
  IN  [detail |-> c.detail, evidence |-> c.evidence, gen |-> c.gen,
       tier |-> IF Verifies(c) THEN c.kind ELSE "self",
       strict |-> c.kind = "strict",
       kry |-> job[p].tokens * c.worth, supersedes |-> job[p].prior]

\* A promotion does not look at the end of the file and may join a record.
AppendReceipt(p) ==
  /\ pc[p] = "append"
  /\ log' = Append(log, Receipt(p))
  /\ tail' = IF tail = "bare" THEN "joined" ELSE "whole"
  /\ Goto(p, "tip")
  /\ UNCHANGED <<faults, tip, decay, books, windows, holder, job>>

\* Fault: the checkpoint is written before the receipt.
CheckpointFirst(p) ==
  /\ Mishap
  /\ pc[p] = "append"
  /\ tip' = Append(log, Receipt(p))
  /\ Return(p)
  /\ UNCHANGED <<log, tail, decay, books, windows>>

\* The write fails, or the process dies in it: nothing, a part, or all of
\* the record is in the file and nobody hears of it.
AppendFails(p) ==
  /\ Mishap
  /\ pc[p] = "append"
  /\ \/ /\ tail' = IF tail = "absent" THEN "whole" ELSE tail
        /\ UNCHANGED log
     \/ /\ tail' = IF tail = "bare" THEN "joined" ELSE "torn"
        /\ UNCHANGED log
     \/ /\ tail # "bare"
        /\ log' = Append(log, Receipt(p))
        /\ tail' \in {"whole", "bare"}
  /\ Return(p)
  /\ UNCHANGED <<tip, decay, books, windows>>

AfterTip(p) == IF Promotion(p) THEN Return(p) ELSE Goto(p, "earn") /\ UNCHANGED <<job, holder>>

AdvanceTip(p) ==
  /\ pc[p] = "tip"
  /\ tip' = log
  /\ AfterTip(p)
  /\ UNCHANGED <<faults, log, tail, decay, books, windows>>

\* A mint goes on without its checkpoint; a promotion answers None.
TipFails(p) ==
  /\ Mishap
  /\ pc[p] = "tip"
  /\ AfterTip(p)
  /\ UNCHANGED files

Credited(p) ==
  books' = IF books.file = "here"
             THEN [books EXCEPT !.earned = @ + job[p].tokens * job[p].call.worth]
             ELSE books

\* Still under the mint lock; what earn reports is only logged.
Earn(p) ==
  /\ pc[p] = "earn"
  /\ Credited(p)
  /\ Return(p)
  /\ UNCHANGED <<faults, log, tail, tip, decay, windows>>

EarnFails(p) ==
  /\ Mishap
  /\ pc[p] = "earn"
  /\ Return(p)
  /\ UNCHANGED files

\* The process dies with what it had written, or an exception ends its call
\* (a file or the ledger cannot be used); its lock is free.
Kill(p) ==
  /\ Mishap
  /\ pc[p] # "idle"
  /\ Return(p)
  /\ UNCHANGED files

-----------------------------------------------------------------------------
(* The ledger *)

\* Fault: the reconciliation does not wait for the mint in progress.
ReconcilesAnytime(p) == pc[p] = "idle"

ReconcileAllowed(p) == pc[p] = "idle" /\ holder = NoProcess

\* reconcile_ledger_from_chain, under the mint lock and the ledger's.
Reconcile(p) ==
  /\ ReconcileAllowed(p)
  /\ ChainValid
  /\ books.file = "here" \/ tail = "absent"
  /\ books.spent <= Supply
  /\ books' = [Established EXCEPT !.earned = Supply]
  /\ UNCHANGED <<faults, log, tail, tip, decay, windows, holder, pc, job>>

Spend ==
  /\ books.file = "here" /\ books.spent < books.earned /\ books.spent < MaxSpent
  /\ books' = [books EXCEPT !.spent = @ + 1]
  /\ UNCHANGED <<faults, log, tail, tip, decay, windows, holder, pc, job>>

\* The ledger file is quarantined or gone.
LoseLedger ==
  /\ Mishap
  /\ books.file = "here"
  /\ books' = [file |-> "lost", earned |-> 0, spent |-> 0]
  /\ UNCHANGED <<log, tail, tip, decay, windows, holder, pc, job>>

\* The decay window of an evidence is over: its next mint is a first again.
WindowElapses(e) ==
  /\ Mishap
  /\ decay[e] > 0
  /\ decay' = [decay EXCEPT ![e] = 0]
  /\ windows' = [windows EXCEPT ![e] = @ + 1]
  /\ UNCHANGED <<log, tail, tip, books, holder, pc, job>>

-----------------------------------------------------------------------------
Work(p) ==
  \/ FindPrior(p) \/ FindAgain(p) \/ PreCheck(p)
  \/ Promote(p) \/ RefusePromotion(p)
  \/ Enter(p) \/ RefuseMint(p) \/ Reserve(p) \/ ReserveFails(p)
  \/ AppendReceipt(p) \/ AppendFails(p) \/ AdvanceTip(p) \/ TipFails(p)
  \/ Earn(p) \/ EarnFails(p) \/ Kill(p)

Environment ==
  \/ \E p \in Process : Reconcile(p)
  \/ Spend \/ LoseLedger
  \/ \E e \in Evidence : WindowElapses(e)

Next ==
  \/ \E p \in Process : Work(p) \/ \E c \in Call : Begin(p, c)
  \/ Environment

Spec == Init /\ [][Next]_vars

-----------------------------------------------------------------------------
(* Properties *)

\* Without tampering no failure or crash between the append, the checkpoint
\* and the credit makes verify_chain reject a log that can be read.
CrashKeepsChain == Readable => ChainValid

\* Whatever is replayed, retried or failed, the receipts of one evidence sum
\* to at most twice a first credit in each decay window (_decayed_tokens).
ReplayBounded ==
  \A e \in Evidence :
    Total(RowsOf(e)) <= 2 * Full * (windows[e] + 1)

\* idempotent_evidence: no strict receipt joins a log that already retains
\* its evidence, be it from an unacknowledged append or another process.
StrictOnce ==
  \A i, j \in DOMAIN log :
    i < j /\ log[j].strict => log[i].evidence # log[j].evidence

\* One generation earns at most one fresh receipt per attested tier, from
\* however many presentations and processes (dedup_check under the lock).
FreshOnce ==
  \A i, j \in DOMAIN log :
    /\ log[i].tier # "self" /\ log[i].supersedes = 0 /\ log[i].kry > 0
    /\ log[j].tier = log[i].tier /\ log[j].supersedes = 0 /\ log[j].kry > 0
    /\ log[j].gen = log[i].gen
    => i = j

\* A receipt is promoted at most once, to either tier, by a later receipt of
\* no value of its own, and only if it earned: the overlay of
\* veracity_breakdown moves value it has and moves it once.
PromotedOnce ==
  /\ \A i, j \in DOMAIN log :
       log[i].supersedes # 0 /\ log[i].supersedes = log[j].supersedes => i = j
  /\ \A j \in DOMAIN log :
       log[j].supersedes # 0 =>
         /\ log[j].supersedes < j /\ log[j].kry = 0
         /\ log[log[j].supersedes].kry > 0 /\ log[log[j].supersedes].gen = log[j].gen

\* However evidence is presented, retried, raced or promoted, what it earns is
\* credited once: the three ways the code has to recognise it agree.
CreditedOnce == StrictOnce /\ FreshOnce /\ PromotedOnce

\* The ledger never holds earnings without their receipts: a reconciliation
\* and the credit of a mint do not both count one receipt.
EarningsBacked == books.earned <= Supply

\* Once receipts exist, a ledger that is lost stays lost: neither minting nor
\* reconciling starts a fresh one without the recorded debits.
DebitsNotForgotten ==
  [][books.file = "lost" /\ log # <<>> => books'.file = "lost"]_vars

\* What kry_tlsn_verify says of a fresh credit: it is minted only when no
\* receipt of the host exists for the generation.
FreshWithoutPrior ==
  \A i, j \in DOMAIN log :
    /\ i < j /\ log[i].tier = "self" /\ log[i].kry > 0
    /\ log[j].tier # "self" /\ log[j].supersedes = 0 /\ log[j].kry > 0
    => log[i].gen # log[j].gen

-----------------------------------------------------------------------------
(* Why they hold *)

\* The mint lock is held exactly from the checks to the credit.
LockExclusive ==
  \A p \in Process : holder = p <=> pc[p] \in {"reserve", "append", "tip", "earn"}

TipIsPrefix ==
  /\ Len(tip) <= Len(log)
  /\ \A i \in 1..Len(tip) : tip[i] = log[i]

\* What a call knows before its lock: a verifier that did not find a receipt
\* to promote has none, and the one it found stays in the log.
Prepared(p) ==
  LET j == job[p]
  IN  /\ pc[p] # "idle" => j.call \in CallRecord
      /\ pc[p] \in {"find", "refind", "precheck", "promote"} => Verifies(j.call)
      /\ pc[p] \in {"find", "refind", "precheck", "mint", "reserve"} => j.prior = 0
      /\ pc[p] = "promote" => j.prior # 0
      /\ pc[p] \in {"promote", "append"} /\ j.prior # 0 =>
           /\ Verifies(j.call) /\ j.tokens = 0
           /\ j.prior \in DOMAIN log
           /\ log[j.prior].kry > 0 /\ log[j.prior].gen = j.call.gen

\* What it knows under the lock, until its receipt is in the log.
Checked(p) ==
  LET j == job[p]
  IN  /\ pc[p] = "reserve" => tail \in {"absent", "whole"}
      /\ pc[p] \in {"reserve", "append"} /\ j.call.kind = "strict"
           => ~EvidenceRetained(j.call.evidence)
      /\ pc[p] = "append" /\ j.prior # 0 => \A i \in DOMAIN log : log[i].supersedes # j.prior
      /\ pc[p] = "append" /\ j.prior = 0 /\ Verifies(j.call) =>
           \A i \in DOMAIN log :
             ~(/\ log[i].gen = j.call.gen /\ log[i].tier = j.call.kind
               /\ log[i].supersedes = 0 /\ log[i].kry > 0)

PromotionsAnchored ==
  \A i \in DOMAIN log :
    log[i].supersedes # 0 => log[i].tier # "self" /\ log[i].supersedes \in DOMAIN log

MintInvariant ==
  /\ LockExclusive /\ TipIsPrefix
  /\ \A p \in Process : Prepared(p) /\ Checked(p)
  /\ PromotionsAnchored
  /\ StrictOnce /\ FreshOnce /\ PromotedOnce
=============================================================================
