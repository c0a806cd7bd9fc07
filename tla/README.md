# TLA+ verification of KRY

KRY is a local accounting system in Python: efficiency events are minted into a
hash-chained receipt log, credited to a balance ledger, spent or debited, and settled
between two nodes; from the receipts an operator makes attestations and evidence packets
that strangers verify. Its core is not arithmetic but durability and agreement: several
processes, threads and nodes share small files, every function has to say truthfully whether
a change was recorded, was not, or is uncertain, and every verifier has to reach the verdict
the others reach. This directory models that core, checks it with TLC and proves the central
results with TLAPS.

## Inventory

| Component | State | Operations | Interacts with | Hard behaviour |
| --- | --- | --- | --- | --- |
| Balance ledger (`kry_token.py`, `_locks.py`) | one ledger file (totals, events, operation journal, recovery record), intent and quarantine files beside it, one cached `KRYLedger` per process | load, earn, spend, keyed debit, lookup, save, acknowledge recovery | file system, mint (credit), settlement (debit), journal activation | several processes, failed and lost replaces, interrupts, kills, power loss, retries |
| Journal activation (`_journal_activation.py`) | legacy file, v2 journal, tombstone, backup, sentinel, intent, plan and receipt files | activate, complete, archive, abandon, resume, check fence | ledger save, ledger storage path | a crash after any of the published files |
| Settlement (`kry_settlement.py`) | in-process reservations, append-only settled registry, tip checkpoint, anchors | verify and accept an offer, settle, record partial debit, roll back, compact, verify | debit callback on the provider, credit on the receiver, lease | crash between append and tip, debit that raises, pays less or nothing, replayed offers, TTL |
| Supply lease (`kry_settlement.py`) | shared lease file and its O_EXCL lock file | acquire, prune by TTL | settlement of several nodes | stale lock steal, expiry, ceiling |
| Mint (`kry_mint.py`) and its verifiers (`kry_tlsn_verify.py`, `kry_tee_verify.py`) | receipt chain, tip, decay table | mint, strict mint, promote, reconcile ledger | ledger credit, pending, attestation | lock order, torn tail, evidence presented twice, crash between receipt and credit |
| Pending receipts (`kry_pending.py`) | side store of displacements | record, confirm, reject, sweep | mint | write-ahead confirmation, double confirm |
| Action receipts (`kry_action.py`, `kry_action_verify.py`) | action chain, anchors | record, attest, verify | mint evidence | unsynced lines, readers without locks |
| Referee, sanctions, holdout (`kry_referee.py`, `kry_sanctions.py`, `kry_baseline.py`) | ratified rules, reputation, holdout counts, review window, escalation log | review, escalate, ratify, revoke, record, observe | each other through the operator | lost counts, probation, torn log |
| Attestation (`kry_mint.py`, `kry_attest.py`, `kry_verify.py`) | the receipt log and its checkpoint, public documents, head anchor | verify chain, veracity breakdown, build and verify an attestation, export and check an anchor | mint, evidence packets | five verifiers with one verdict, formats 1 to 7, promotions, rollback |
| Evidence packets (`kry_verified_artifact.py`, `kry_artifact_privacy.py`, `kry_reconcile.py`, `kry_research_grade.py`, `kry_doctor.py`, `kry_savings_report.py`, `kry_capabilities.py`) | the operator's inputs, a bundle directory | write manifests and templates, review, bundle, verify, doctor | attestation, mint log | files that change between the look and the use, dates, bundles of mixed ages |
| Prompt cache, carbon, pricing, demo, host scripts | tables and reports | pure functions, adapters | mint | not modelled: no shared state of their own |
| Lab, vectors, other verifiers, PQC signing, TLSNotary, enclave | offline tools, experiments, cryptography | none | files | not modelled: I/O, cryptography, further implementations |

What makes each of them correct: the ledger keeps its books balanced, loses and repeats
nothing, and never contradicts what it told a caller; activation never leaves two
accountings that could both be taken for the ledger; settlement never debits or credits
an offer twice and never settles more than the provider has; a lease never exceeds the
shared ceiling; the chain is append-only, one receipt per evidence, and the ledger's
earnings can be rebuilt from it; what is read of the action log verifies and what was
answered stays; a rule passes no more often than the operator allowed; verifiers agree; a
packet that claims verified savings was signed as it lies there and reconciles.

## Modules

| Module | Models | Runs | Proofs |
| --- | --- | --- | --- |
| `KryLedger`, abstract `LedgerService` | balance ledger and its save protocol | `ledger` | `KryLedgerProofs` |
| `JournalActivation` | activation of the v2 journal and its recoveries | `activation` | `JournalActivationProofs` |
| `Settlement`, composed into `SettlementAnchor` | the registry block of several hosts; its anchors | `hosts`, `threads` | `SettlementProofs` |
| `Lease` | the lock file and the leases | `lease`, `lease_stolen` | `SharedFileProofs` |
| `Mint`, composed into `Pending` | the receipt chain with ledger credit and verifiers; deferred displacements over it | `mint`, `fresh_without_prior` | `MintProofs` |
| `ActionLog` | action receipts | `actions` | `SharedFileProofs` |
| `PolicyStores` | referee, sanctions, holdout | `policy` | `PolicyProofs` |
| `Attestation` | what the rows of the mint log prove, to whom | `attestation` | `EvidenceProofs` |
| `Reconciliation`, used by `EvidencePacket` | receipts against provider rows; the packet | `packet` | `EvidenceProofs` |

An `MC` module beside each (where needed) names the values of a small instance.
`SettlementAnchor` and `Pending` extend the module they compose and let its steps interleave
with theirs. `LedgerService` is the abstract specification `KryLedger` implements.
`SumTheorems` is the lemma library of the proofs: sums over finite sets, and folds.

Bounds. Every constant named `Max...`, and `Slips`, `Edits` and `LastDay`, bounds how often
something happens or how long the clock runs, and nothing else; the sections below say why
each is enough. A cfg has `CHECK_DEADLOCK FALSE` where such bounded inputs run out (a bounded
number of calls, records, debits or days); `ledger`, `hosts` and `threads` check for deadlock.

## The ledger: `KryLedger`

`disk` is the content of the visible ledger file and `incidents` the set of pending
(`.pending.*`) and quarantine (`.corrupt*`) files beside it. `stableDisk` and
`stableIncidents` are what is certain to survive a power failure: `_sync_ledger_directory`
(`Sync`) copies one into the other, and `PowerFailure` chooses, for each directory change
since the last barrier, whether it survives. `mem[p]` is the `KRYLedger` singleton of a
process: cached account, merge baseline, `_recovery_required`. `lock` is the file lock
(held together with the in-process lock, so one process is one actor). `job[p]` holds the
operation being performed: the bytes encoded in the temporary file and its own intent.
`answer` and `told` are history variables: what callers have been told.

The step of an operation from taking the lock to the temporary file reads the file, checks
that its incidents are exactly the acknowledged ones (`Readable`), refreshes the cache,
mutates it and encodes the merged account: all of it happens under the lock and touches no
file, so it is one action per operation (`Earn`, `Spend`, `KeyedDebit`, `Acknowledge`) with
one action per early return (`Refuse`, `EndUnwritten`, `InterruptRefresh`, `Replay`). From
there on each durable effect is an action: `PublishIntent`, `SyncIntent`, `Replace`,
`SyncReplace`, `Commit`. The `except BaseException` branch gives `FailKnown` (temporary file
still there: nothing happened), `FailCleanup`, `FailUncertain`, `CommitMarkerStays` and
`InterruptCommitted`. A replace whose acknowledgement is lost but whose bytes read back is
the same transition as a replace that returned, followed by the same barrier. `Kill` ends
one process anywhere; `Damage` rots the file while nobody writes; `Restore` is the operator
putting the established accounting back before `Acknowledge`.

Abstractions. Amounts are small integers (the code uses floats; rounding is not modelled).
Events are kept by `tx_id`; the cap of 500 retained events is not modelled, no property
depends on old events being dropped. The v2 journal is taken as active: the first keyed debit
of a legacy ledger goes through journal activation. A quarantine rename is treated as durable.
A ledger edited in memory and saved with `save()` is not modelled, and so the merge of a
change over a baseline that another process has since replaced (`_save_locked`) is never
exercised: every public operation refreshes under the lock it writes under, which makes the
baseline what is on disk (`Refreshed`). What the model shows of that merge is that it is right
over a fresh baseline, and by the cache part of `AnswersHold` that the public operations never
leave a change behind that a later save would merge over a stale one. The
negative-balance guards of the code are unreachable from these states, by `DoubleEntry` (a
part of `AccountsMatchEvents`).

`LedgerService` has no processes, files or locks: an account that is written atomically, may
be undone until it is stable, and tells callers only stable outcomes. `KeepsPromise` maps
`cur` and `stable` to the two contents of the file and says that every step of the detailed
model is a step of the service or a stutter.

### Run `ledger` (`KryLedger.cfg`)

Two processes, one operation identity, two event identities, two marker names, amount 2,
opening balance 1. Two processes are what every hazard listed needs (the failing one and the
one that reads after it). Two events allow a failed or uncertain write followed by another
one; an amount above the opening balance makes a debit partial and the next one zero. Two
marker names allow an open incident together with the marker of the acknowledging write, or
a quarantined file. `Tx` bounds the number of nonzero writes and `Incident` the number of
failures that leave a marker; when they are used up the model can still read, refuse and
restart. There is no liveness property: nothing in the code schedules retries.

- `ToldIsDurable`, `AnswersHold`, `OutcomeIsForever`: a positive answer survives every later
  failure, a write denied to its caller is nowhere and cannot come back, no recorded outcome
  changes, and no cache keeps an edit its file does not have.
- `IncidentsRespected`: an unproved file is always marked, and never written over without a
  review.
- `AccountsMatchEvents` (no stale baseline is merged here, see above): the books balance in
  every content, cache and prepared image, and are exactly the opening balance plus the retained
  events.
- `KeepsPromise`: refinement of `LedgerService`.

### Proofs (`KryLedgerProofs`)

For any sets of processes, operations, events and markers and any amounts, from the
assumptions that amounts are positive naturals, the opening balance is a natural and the
"none" values are distinct. `WellFormed` proves types and double entry together, because an
outcome is a natural number only as the balance that bounds it is not negative. `Protocol`
is the inductive invariant behind the rest. Its parts: only the lock holder is inside an
operation; the image about to be published keeps every outcome of the file it was derived
from; the operation's marker is on disk under a name no acknowledgement covers; a write
starts from covered incidents; a file that is not stable has an uncovered incident older
than the writer's own marker; stable outcomes are in the visible file. `UncertainIsMarked`
alone is not inductive: a write could remove the only marker that warns of an earlier
unproved file, which the part `Marked` excludes by naming an incident that is not the
writer's own. `ProtocolHolds` yields `UncertaintyIsMarked`, `WritesStartClean`,
`IncidentsAreRespected`, `DurableForever` (an action property) and `ToldStaysDurable`.

`AnswersAreTrue` (`AnswersHold`) adds `EventInv`: the event of a write that may still fail is
in its image and in the writer's cache and nowhere else, it is nowhere after a negative answer
and in the stable file after a positive one. `ImageInv` says that both contents of the file
and every image match their events, and that an image is one decision (`Decided`) away from
the file it goes over. So the sum over the events follows from `SumTheorems` one event at a
time (`BooksHold`, `TotalsAreEvents` for `AccountsMatchEvents`), and `LedgerKeepsPromise`, the
refinement, is a step by step proof: `Replace` publishes a decision and is an operation of the
service, a synchronization makes it stable, a power failure does that or undoes it, telling an
outcome is `Tell` (stable, by `ToldIsDurable`), and every other step is a stutter.

## Journal activation: `JournalActivation`

The first keyed debit of a legacy ledger moves the accounting into a journal by six
publications (`ActivateSteps`), each followed by a directory synchronization. `view` is the
directory as processes see it, `disk` what a power failure leaves at worst; `job` is the rest
of the sequence the holder of the legacy lock has to do, one `Publish` and one `Sync` per
name. All of the code runs under that lock, so one activity at a time is modelled.
`Interrupt` ends it by an exception or a kill, `PowerFails` takes any part of what is not
synchronized. What stays blocks the ledger (`Readable`, that is `_ledger_storage_path` and its
incident check) until the operator runs `Complete` (`CompleteSteps`) or `Abandon`, which
freezes a review in a plan and works it off (`AbandonSteps`, `ResumeSteps`); `Resume` goes on
from a plan. Digests are the contents they are of. `Spend` includes a legacy writer that knows
nothing of the journal and looks at its own file only.

### Run `activation` (`JournalActivation.cfg`)

Two debit ids, two activations, two debits without an id, four exceptions, kills or power
failures. Two attempts are an abandoned one and its successor (or a completed one and its
retry); four faults interrupt the attempt, its recovery, the recovery's continuation and the
second attempt. `AccountingExact`: accounting that can be read has each debit once and every
id a caller was told of, and at every moment what a power failure would leave has a complete
copy. `OneOutcome`: an abandoned attempt's debit never appears in a journal. `Recovers`: with
legacy writers stopped and the power on, the two recoveries make the accounting readable
again. Fairness: `Publish` and `Sync` (a holder of the lock goes on) and `Complete` and
`Abandon \/ Resume` (an operator recovers what is blocked: the code itself never does, its
error messages tell the operator to).

### Proofs (`JournalActivationProofs`)

For any names of debits, any number of attempts, debits and faults: `ActivationSafe`
(the invariant), `AccountingIsExact` (`AccountingExact`) and `AttemptHasOneOutcome`
(`OneOutcome`). `NamesAssumption` says that the tags of absent files and of the tombstone are
not contents. `Safe` has two halves. The first speaks of the two directories whoever is at work and
holds of every mixture of them that a power failure may leave: an unfenced legacy file is
exact (`LegacyInv`), a journal behind a fence is exact (`JournalInv`), a fence whose journal
may be lost has an exact backup (`BackupInv`), an intent's candidate is its original and one
debit (`IntentInv`), and an attempt that was resolved never has the journal (`ArchiveInv`,
which is `OneOutcome`'s strengthening). The second says how far the holder of the lock is and
what is in the directories by then (`JobInv`, that is `ActivationInv` or `RecoveryInv`).
`AccountingExact` counts the debits once each; counting needs the first half at every one of
the steps, since a failure may leave any of them behind.

## Settlement: `Settlement`, `SettlementAnchor`

`reg` and `tail` are the registry file: its readable entries (`[party, amt, gids]`) and how
its last line ends, `torn` when it no longer parses. `tip` is the checkpoint file
(`.tip`): a count and the hash of the last entry determine the chain they were taken
of, so the model stores that chain, and `RegistryValid` compares lengths and, at equal
length, chains. `holder` is whoever has the registry's locks (the in-process `RLock` and the
`flock` are taken and given back together). `pending[p]` are the offers reserved in
process `p`, `seller[p]` its receiver (lock, `received_kry`, settled grants), `grants` the
grants handed out with the ceiling they carry. `moved` is a history variable: the value the
payer's debit callback really moved for each grant.

`verify_and_accept` is `Accept` (or `RefuseOffer`) under the registry locks, then
`IssueGrant` or `DenyLease` when the lease authority has answered, or `InterruptAccept`: the
`try` around the lease gives the reservation back, but nothing does so for an interrupt between
the reservation and that `try`, or between it and the return, and the reservation then stays
until the TTL prunes it. The history variable `stranded[p]` names those offers. A refusal after the TTL
pruning also loses an earlier reservation of the same offer, as in the code. An operator
may build a grant directly (`BuildGrant`): it has no ceiling and is exempt from the checks a
ceiling brings. `settle` is `BeginSettle` (the receiver's lock, balance snapshot),
`AppendObligation`, `AdvanceTip`, the debit (`DebitAll`, `DebitLess`, `DebitRaises`),
the adjustment (`ReplacePartial`, `AdvancePartialTip`) or rollback (`RollBack`,
`RollBackTip`), and `Credit`, which happens after the registry has been given back. Every
early return is an action of its own (`RefuseSettle`, `AppendFails`, `UndoAppend`), and
`Abandon` ends the call by an exception between any two durable effects: the `finally`
blocks run, the files stay as they are. `Compact` and `CompactTip` are `compact_registry`;
`Kill` ends a process with all its threads.

Abstractions. Amounts are small integers; the float precision test before the commit is a free
Boolean. A grant id is a hash of offer, receiver and the caller's time, so accepting an offer
again at the same time yields the same id; the model gives every accept an identity of its own,
which only adds grants: a repeated id is a grant that is settled again. A grant may be settled
again any number of times, by any process. The order of the checkpoints of a compaction (the
code sorts parties) matters only to hashes and is left open by a `CHOOSE`. The debit callback
is truthful and moves at most what it is asked for, except that a raising callback may have
moved any part. Offers that fail signature, policy or attestation checks change nothing and do
not appear. Reservations expire at any time (the caller passes the clock). Power failures are
not modelled: compaction and rollback use no directory barrier, so a claim about them would be
about the file system.

`SettlementAnchor` adds the operator's `ExportAnchor`, which reads the registry without its
locks, and `Contradicted`, the verdict of `verify_registry_against_anchor`.

### Runs

| Run | Instance | Question |
| --- | --- | --- |
| `hosts` | `SettlementAnchor`: two processes of one thread, one offer of amount 2, three grants, attested balance 3 | Is a grant debited once (`DebitedOnce`), is one attested balance paid to two providers (`WithinAttested`), does the registry keep covering what was debited (`ObligationCovers`), has each credit its debit (`CreditBacked`), is an anchor exported outside a settlement ever contradicted (`QuietAnchorHolds`)? |
| `threads` | one process of two threads, two offers of amount 2 of one payer, attested balance 3, one grant settled before for 1 and two to come | Are credits exact under concurrent settlements (`ReceiverExact`), are reservations released, those of an interrupted accept excepted, and do all of them together fit one attestation (`ReservationsKept`), does every path out give the registry back (`RegistryFreed`)? |

`Grant` bounds the accepts tried, and with them every other sequence: three grants are a settled
one, a second one competing for what is left of the ceiling, and, with `KeepRecent = 1`, a third
one that makes the registry long enough to be compacted (`Len > 2 * KeepRecent`) while a call is
still in progress. `hosts` starts from the empty registry; `threads` starts from `InitLater`, a
state of the former in which one grant has been settled for part of its amount, so that three
grants fit a run without symmetry. Two threads are what the hazards need (one inside the block,
one before or after it). The attested balances are chosen so that two offers do not fit
together. In `hosts` grants are symmetric, and so are the two processes with their thread,
exchanged together; `threads` uses no symmetry, as it checks liveness. `hosts` leaves `stranded`
out of its view (`SeenByHosts`): no guard reads it and only `ReservationsKept`, a property of
`threads`, speaks of it. Both runs check for deadlock too: a process can always be killed, so
that check is weak, and `RegistryFreed` is the property that says the registry does not stay
taken.

Fairness: `Spec` assumes weak fairness of `Proceed(t)` of each thread, the steps that carry
on a call which already has the registry. The code runs them one after the other and waits only
for the debit callback, whose docstring requires it to be bounded. Nothing is assumed of
accepting, settling, compacting or killing.

`WithinAttested` speaks of grants with a ceiling: grants built directly bypass it by
design. It compares with the largest ceiling among the grants of a party that moved
anything, since a later attestation may show a larger balance.

Two things the model shows and no property claims. An anchor exported while a settlement is
open counts an obligation that may still be undone or reduced, and a correct registry then
contradicts it; the model therefore forgets such an anchor, and `QuietAnchorHolds` is what
does hold of the others: it says nothing of that hazard (`kry_settlement.py:438`), for which
the code gives no protection to claim. A mismatched checkpoint stops the
ceiling check only: a grant built directly has no ceiling and is recorded in a mismatched
registry, although the comment at `kry_settlement.py:582` reads more generally.

### Proofs (`SettlementProofs`)

For any processes, threads, parties, offers and grants, with positive costs, a positive
`KeepRecent` and distinct "none" values. The registry's first part is a theory of the log as
a set of consumed grants: appending adds the entry's grants (`AppendedLog`), collapsing
into one checkpoint per party forgets none and invents none (`CheckpointsLog`,
`CompactedLog`). Since the order of checkpoints is a `CHOOSE` of a bijection, that part needs
that the parties of a log are finitely many (`PartiesListed`).

`SInv` is the inductive invariant. `Consumption` (a grant that moved value is consumed, or
the registry is unreadable and nothing can be recorded) is what makes a second debit
impossible, and is not inductive: a rollback replaces the registry by an older one. It needs
`SnapshotOf`: the snapshot a settlement may restore lacks no consumed grant but its own, and
its own has moved nothing for as long as a rollback is possible. That in turn needs `CallOf`,
which makes the block exclusive. `CreditOf` carries a complete debit over the gap between
giving the registry back and crediting the receiver, where other threads run.
`SettlementInvariant` yields `GrantsDebitOnce` (the action property `DebitedOnce`) and
`CreditsHaveDebits` (`CreditBacked`).

Entries are left untyped there, because those proofs need which grants the registry has
consumed and never its sums. The sums come with a second layer (`FiniteAssumption`: finitely
many grants, offers, parties and threads; a party has an attested balance at all).
`AmountsInv` types the entries and says what the snapshot of a settlement is
worth (`SumsOf`): it holds what was moved; before the debit the settlement's own entry is on
top of it and fits the ceiling; a short debit is in the entry that will replace it. With
`SumTheorems`, a party's total survives appending, adjusting, rolling back and collapsing into
checkpoints. That gives `DebitsAreCovered` (`ObligationCovers`) and `AttestationNotSpentTwice`
(`WithinAttested`). `AnchorInv` says that the readable registry, and every snapshot that may
be put back, reaches what the anchor says of each party (`AnchorNeverContradicted`, for
`QuietAnchorHolds`). `ReceiverInv` adds to `ReceiverExact` that a settlement holds its
receiver's lock from reading the balance to crediting it (`ReceiversAddUp`).
`NoReservationLeft` is `ReservationsKept`, which is inductive once the reservations are typed;
it says that interruption is the only way to leave a reservation, and that one left behind still
counts against the attested balance.
`RegistryFreed` is a liveness property and is model-checked only.

## The lease: `Lease`

`lock` is the O_EXCL lock file with its age, `leases` the shared file, `now` a clock in units
of thirty seconds. `Accept` takes its time before it waits; `Create`, `SeeStale` and `Steal`
are the three file operations of `_lease_lock`, in which a process first reads the age of the
lock and then removes whatever lock is there; `GiveUp` is the deadline. `Read`, `Write` and
`Fail` are `_acquire_lease` under the lock, `Unlock` removes whatever lock is there at its
end. `Crash` leaves the lock file behind. `Prompt` states that no step under the lock is slow,
which the comment at `kry_settlement.py:652` makes a condition of stealing. One clock serves all
hosts: the code compares a file's modification time with the local `time.time()` and expires
leases by the time each caller passes, and clocks that differ are not modelled.

| Run | Instance | Shows |
| --- | --- | --- |
| `lease` | two processes of which one steals, offers of 1 and 2 against a ceiling of 2, TTL 3, staleness 1, deadline 2, six units of time, one crash, `Prompt` | leases in force keep within the ceiling (`ActiveWithinCeiling`), none is lost (`LeaseKept`), every accept is answered (`Answered`) |
| `lease_stolen` | the same with three processes that all steal | `ActiveWithinCeiling` is violated: see Findings |

The slow holder, half of the hazard at `kry_settlement.py:699`, is outside run `lease` and the
theorems, which assume `Prompt` and at most one process that steals (or no stealing).

Six units cover an orphaned lock, its steal, a lease, its expiry and the next one. Fairness:
weak for `Step(p)` (a process that waits polls, a holder goes on), strong for `Tick`, because
time passes however often it stands still while some process is under the lock.

Proof (`SharedFileProofs`): for any processes, offers, amounts and times, if nobody steals, or at
most one process does and no step under the lock is slow (`LimitedStealing`), no lease in
force is lost (`LeasesAreKept`). The invariant is that the lock names its live holder
(`Exclusive`) and that a holder knows every lease in force until it has written (`UpToDate`).
`LeasesKeepTheCeiling` (`ActiveWithinCeiling`) adds `ReservedFits`: the leases of the file,
expired or not, fit the ceiling, and so do those a holder is about to write, because each was
added to all that were kept.

## The mint: `Mint`, `Pending`

`log` and `tail` are the receipt file (its complete records and how it ends: whole, without
newline, torn, or two records joined), `tip` the checkpoint, `decay` the reservations that
bound replays, `books` the ledger as far as the mint uses it. A chain hash is the log up to
the receipt. `Enter`/`RefuseMint` are the checks of `mint` under the cross-process lock,
`Reserve` the decay written before the receipt and the verifier's second look for a fresh
receipt, then `AppendReceipt`, `AdvanceTip`, `Earn`, each with its failure; `AppendFails`
leaves nothing, a part, or all of the record, also without newline. A verifier looks
for the host's receipt without any lock (`FindPrior`), again when it promotes (`FindAgain`),
and for a fresh one before its mint (`PreCheck`); `Promote` checks under the lock that the
receipt was not promoted to any attested tier. `Reconcile` rebuilds the ledger's earnings,
`LoseLedger` and `WindowElapses` are the environment. A promotion does not look at the end of
the file, as in the code, and may join records; the log is then unreadable, never wrong.
Rates and prices are one `worth` per call.

`Pending` puts the side store of displacements over it: `Confirm` writes the flip before it
calls `mint`, under the store's own lock, and `FinishConfirm` writes again; a kill in
between, a quarantined store (`Quarantine`), expiry, rejection and sweeping interleave.

| Run | Instance | Shows |
| --- | --- | --- |
| `mint` | two processes; a host's and a strict call of one evidence, two notary presentations and an enclave measurement of the host's generation, one deferred displacement; `Full = 2`, `Dust = 2`; three receipts, two faults, one debit | `CrashKeepsChain`, `ReplayBounded`, `CreditedOnce`, `EarningsBacked`, `MintedOnce`, `DebitsNotForgotten` |
| `fresh_without_prior` | the host's call and the two presentations | `FreshWithoutPrior` is violated: see Findings |

Three receipts are a host's, its promotion or a fresh one, and one that should not be
there; two faults are a failure and a kill of what repairs it. `Full = 2` is halved once and
then dust.

Proofs. `MintProofs`, for any processes, calls and presentations: `CrashesKeepTheChain`,
`CreditIsGivenOnce` (strict receipts, fresh receipts per tier, promotions) and
`DebitsStayLost`. The invariant adds what a call knows: the mint lock is held from the checks
to the credit (`LockExclusive`), the checkpoint is a prefix (`TipIsPrefix`), what a verifier
found without a lock stays true because the log only grows (`Prepared`), and what was checked
under the lock stays true until the append (`Checked`). A deferred displacement mints at most
once and only when confirmed (`DeferredMintedOnce`); the invariant says that until the append
of the confirming process nothing was minted for its id (`NotYetMinted`).

`ReplaysAreBounded` (`ReplayBounded`) and `EarningsHaveReceipts` (`EarningsBacked`) are about
sums over receipts. `Bounded`: what an evidence has earned and what its replays may still earn
(`Left`, twice the credit of the next one, which is halved each time) is at most two first
credits for each of its windows, and the credit a mint has reserved is no longer among what
the replays may; so a crash between the reservation and the receipt loses credit and never
adds it. `Backed`: the ledger's earnings and the credits still owed for receipts in the log
are at most the supply. `DecayAssumption` says that a credit halved `Dust` times is nothing.

## Action receipts: `ActionLog`

`record()` holds its two locks from the look at the file to the answer: `Begin`, `Write`,
`Return` (fsync and answer), with `FailWrite` and `FailSync`. Readers and `ExportAnchor` take
no lock and see every step. `synced` and `named` are what a power failure may not take. The
two verifiers, in the package and standalone, are operators over hashes that are what they
cover. Of the veracity table the standalone verifier reads the floor alone, compares it within
a hundredth (`Tolerance`, in units of a ten-thousandth, the rounding of `_veracity`) and accepts
an envelope without one; `anchored_actions` and `by_tier` are read by nobody, so `Attestation`
does not carry them. The operator's recovery of an unterminated file is `Recover`.

Run `actions`: two workers, one tool, three records, two faults, one anchor. `BuiltVerifies`:
what is read at any moment verifies for both; `HistoryKept`: a receipt that was answered and an
anchor over durable lines are never contradicted (an anchor over a line that no fsync has
covered may be, and the property says so); `TamperCaught`: whatever passes against a published
anchor, for every edit of a row, removal, repetition, exchange or second minting and every other
floor or none, continues the actions the anchor was published over, and a floor it declares is
within the tolerance and the rounding of the share of actions with a witness. An anchor over a
line that no fsync has covered is outside `HistoryKept`, so the hazard at `kry_action.py:384` is
disclosed and not covered. Three records let an edit have a predecessor and a successor.

Proofs (`SharedFileProofs`): `ActionsVerify`, `AnswersStay` and `TamperIsCaught`, for any
workers, tools, records and failures (`WorkerAssumption`: "no worker" is not one of them).
`ActionInvariant` says that the lines are what `record()` makes one after the other, that the
worker inside has both locks and writes the line after the last, and that what was answered,
and what an anchor over durable lines counted, lies in the part an fsync has covered. A
derived chain hash is the list of the bodies it was derived from, by induction on the position,
so two logs with one anchored head have the same bodies: with the arithmetic of the floor,
that is `TamperCaught`, for a log of any length and every altered document at once.

## Policy stores: `PolicyStores`

The files of ratified rules, reputation and holdout counts, each read, changed and replaced
under its own lock of threads and processes (`Load`, `Refuse`, `Replace`, `Answer`, `Fail`);
the referee's window of recent decisions in each process (`Judge`, `LogDecision`, two steps,
with nothing held in between); the escalation log, appended to without a lock and
read up to its first bad line.

Run `policy`: two threads of one process and one of another, one rule, party and class, a
probation of one use, a window of two, a budget of one escalation, two lines, three calls, one
fault. Three calls are what a lost update or an exceeded cap needs (ratify and two uses).
`PassesBounded`, `StoresExact`, `DriftFlagged`. The last excepts what the code lets through: a
review that spends a pass of the operator's ratification is answered `consistent=True` without a
look at the window (`kry_referee.py:250`; its attack type says so, `ascension`); of two reviews
that overlap neither need see the other, so both may be consistent and only the next one is
flagged; and a decision that more than `Window` later ones have pushed out is forgotten. What is
left to go wrong is a decision that is in the window and missed, or dropped early.
`PolicyProofs` proves the three for any workers, processes, caps, windows and failures
(`ProbationBounded`, `StoresKeepOutcomes`, `NoDriftUnflagged`): a store is what the committed
calls made of it, because what a holder of the lock has loaded is still in the file; and the
window of a process is the end of what was reviewed in it (`Logged`), so a review that is called
consistent, and passed on no ratification, has seen every decision that was logged before it
began and is still in the window. The reputation float follows from the outcomes and is not
modelled. Seen in the model, not claimed as defects: a revoked rule can be ratified again from
the same pending line; a torn escalation line blocks later ratifications until an operator
repairs the log (it fails closed).

## Attestation: `Attestation`

The rows of the mint log with their versions, ids, tiers, values, promotions and hashes, a
hash being what it covers in that version (`ReceiptOf`, `Block`, `Covered`). Five judges read
them: `VerifyChain` and `Breakdown` (private), `Attest` and `Accepts` (the package),
`Scanned`/`StrangerAccepts` (the standalone verifier, one pass over the links, modelled as
the second implementation it is), and the anchored checks `MatchesAnchor` and
`StrangerAnchored`. Rows are minted and promoted, also to both tiers as older program
versions did, rewritten in place, minted again or rolled back with or without the checkpoint.

Run `attestation`: logs that start with a row of version 3 or 5 or none, tiers self, notary
and enclave, multipliers 1 and 2, three rows, one change. Version 3 does not bind its tier in
public, 5 binds no id, 7 is current: the three behaviours the rules distinguish. Three rows
are a value and two promotions of it. Rows of the present format are minted at the higher
multiplier until somebody changes the files (`HighestPriceFirst`), so that values still differ
between old and new rows and after a change. `SurfacesAgree`, `VerifiersAgree`,
`HeadBindsAnchored`, `AnchorPins`. `SurfacesAgree` is limited to `Portable` logs:
`verify_chain` passes a tier other than self in versions 2 and 3, and versions above 7, that
the public verifiers refuse. A promotion that names a row before version 6 moves nothing, in
every judge alike. `verify_chain` also reads the log and then the checkpoint without the mint
lock and can report "truncated" when a mint falls in between; here it is one step.

Proof (`EvidenceProofs`): `AnchorHolds` (`AnchorPins`), for any tiers, prices and old formats
and any number of receipts and changes. `minted` keeps the rows as they were written while
`log` is rewritten; `LogInvariant` says that the two have the same chain hashes row for row
(`Alike`), that the written rows are linked, and that a log nobody changed is the written one.
A second minting preserves that because a row's hash depends on the row and the head alone
(`MintedAlike`, by induction over the fold that mints the rest again). A linked log spells out
in its head what its rows cover (`LinkedChain`, by induction), so equal heads mean equal rows
(`SameHead`); and links that the standalone verifier's one pass finds nothing wrong with are
linked (`ScannedLinked`).

`VerifiersGiveOneVerdict` (`VerifiersAgree`): by induction over the fold, the state of the
standalone verifier's pass says what `LinksHold` says of the links read so far, and holds their
sums and the last bearer of each id (`Known`, `ScanJudges`). The package asks its questions of
all pairs of rows, the pass of each row and what it remembers of those before it:
`KnownDecides` shows that a remembered version and id are enough. Both verdicts then follow
from the same values for every document over such links (`OneVerdict`), whatever it claims.

`SurfacesGiveOneBreakdown` (`SurfacesAgree`): after the promotions among the first k rows the
overlay holds every value at the tier of the first promotion of its row, and a row is a target
until it is promoted (`Applied`, `AppliedGrows`, by induction over the fold; `SumsMove` says how
a sum by tier changes when one row moves). The ids must be unique, which `VerifyChain` asks.

`HeadBinds` (`HeadBindsAnchored`): under one head two logs agree in what their formats publish
(`CoversPublic`); from a row with a bound id on, every later row has one too, as the versions
never go down, so the promotions of that row are the same in both (`BoundAlike`); a row
without a bound id keeps its public tier, which is bound or self-reported.

## Evidence packets: `Reconciliation`, `EvidencePacket`

`Reconciliation` has the pure parts: `LoadT1`, the matching of receipts with provider rows by
identifier or greedily, exact before legacy counts (`Matching`), `PerRequest`, `Aggregate`,
`Assess`, `ReadinessLabel`. One number stands for a call's token counts.

`EvidencePacket` is the life of a packet: receipts are minted (`Serve`), the operator writes
evidence files and manifests that bind each other by hash (a hash is the content), shows three
reviewers a template (`WriteTemplates`), who sign it (`Review`), and bundles copies
(`BeginBundle`, one `CopyFile` per file, `DeriveT1Manifest`, `WriteArtifact`,
`WriteChecklist`, `WriteReport`, `Seal`) with a kill anywhere. `Build` is `build_artifact`:
every gate, the ship scope and the claim register as operators named for those of the code.
`Verifies` is `verify_artifact_file`, `DoctorClean` the packet checks of `kry_doctor`.

Run `packet`: three reviewers, three calls (two metered), a tolerance of one token per call,
three provider exports (correct with cache traffic, a row twice, without identifiers), plans per
request and aggregate, three days, one slip and one edit. A straight run writes each file once
in order and takes a reviewer each; `Slips` bounds departures from it: a file written again or
too early or with a defect, other arguments, an upgraded tool, a kill, a second bundle. `Edits`
bounds changes in the bundle directory. `RewriteT1Manifest` is a slip that edits the T1
manifest: names are exchanged or lost, a count falls, a receipt goes. The binding of the
manifest to the attestation compares hashes, tokens and times, and no chain hash covers a
request id (`kry_reconcile.py:269`). One departure is what each hazard listed needs, and the
packet may then be finished as if nothing had happened; LastDay 3 is a window of two days and a
day on which the packet is judged again.

- `ClaimEarned`: what verifies and claims verified savings was signed, exactly as it lies
  there, by three different people, and holds no private text.
- `ClaimBacked`: it reconciles, stated of the receipts and rows themselves rather than
  through the matching: each metered link of the attestation is in the manifest, and the request
  the manifest names for it was billed once and with its tokens. That the request is the
  receipt's own is not claimed: a manifest with exchanged names passes, in the code and here.
- `SealedStands`: a bundle reported as written that claims savings verifies on any later day
  with the checkout it was written with. `tools` stands for the whole checkout: the readiness
  self-audit reads files the tool manifest does not list.
- `EditCaught`: a changed bundle directory is refused.

### Proofs (`EvidenceProofs`)

They are proved: `ClaimsAreEarned`, `ClaimsAreBacked`, `SealedClaimsStand` and `EditsAreCaught`.
A verifier computes the artifact again from the files beside it, and an artifact that was
computed allows the claim only when no gate failed (`ClaimComputed`), so what the gates ask of
the files holds of the files that lie there (`ClaimJudged`). That they were *signed* needs the
history: `PacketInvariant` says that a favourable review, wherever it was copied, is one its
reviewer approved. That a verdict does not age is `VerdictAges`: dates are days (`Dated`), and
each gate that passes on one day passes on the next; `SealInvariant` carries the verdict of the
last written bundle from day to day. `EditCaught` follows because two directories with one
artifact that recomputes have the same inputs, and the surface checks speak for every other
file. `ClaimsAreBacked` (`ClaimBacked`) is about what the gates compute. The loop of
`load_t1_receipts` and the two passes of the matching are folds; a fold over a sequence is some
function of its prefixes (`FoldExists`), and induction on the prefix gives what it returns:
receipts in the window and nothing else (`LoadedT1`), rows that fit their receipts
(`MatchedFits`), and, when a per-request reconciliation has identity, for every receipt the one
row that bears its identifier (`AllMatched`). The grade that allows the claim needs that
(`GradeNeeds`); equal token totals are sums over the same receipts (`SameTokens`).
`SourceInvariant` says where the files come from: what an attestation shows is the log's, rows are an export's,
arguments the operator's. `PacketAssumption` states the types of those inputs: receipts differ
from each other, tokens are natural.

Seen in the model: receipts outside the window of a per-request plan make the manifest of
the window incomplete against the attestation and end in `do_not_ship`;
`write_corpus_manifest` takes one date for the manifest and for the registration of its plan,
which must not be later than the start of the window, so the manifest of a claimable packet is
necessarily dated before the evidence it binds; inputs are scanned where they lie and copied
afterwards, which only the verifier of a claimable packet and the doctor make good; a packet
that claims no savings and holds a review dated in the future stops verifying once that day
comes; the greedy legacy match depends on the order of the receipts; reviews and exports are
not authenticated, and the model takes them as what their authors wrote.

## Findings

- `fresh_without_prior` (`FreshWithoutPrior`): the comment at `kry_tlsn_verify.py:403` says
  that fresh value is minted only when no prior host receipt exists. The look for one is
  before any lock, and the check under the mint lock asks for fresh receipts of its own tier
  only: a host that mints in between and the verifier are both credited. What does hold, and
  is proved, is one fresh receipt per attested tier (`CreditIsGivenOnce`).
- `lease_stolen` (`ActiveWithinCeiling`): the docstring at `kry_settlement.py:728` calls the
  lock cross-host safe, and the comment at 652 names a slow holder as the one danger of
  stealing. Two waiters that both saw the age of an orphaned lock suffice: one removes it and
  locks, the other removes the new lock. With at most one stealing process the leases are
  kept, which is proved.

## Proved, and only checked

Theorems hold for every value of the constants, under the `ASSUME`s of the modules: the "none"
values are distinct from what they stand in for, amounts and bounds are naturals, and
`FiniteAssumption`, `DecayAssumption`, `NamesAssumption` and `PacketAssumption` as described
above. `PROJECT.json` lists them; each of these states a property of a run:

| Module | Theorems |
| --- | --- |
| `KryLedgerProofs` | `IncidentsAreRespected`, `DurableForever`, `ToldStaysDurable`, `AnswersAreTrue`, `TotalsAreEvents`, `LedgerKeepsPromise` (the refinement) |
| `JournalActivationProofs` | `AccountingIsExact`, `AttemptHasOneOutcome` |
| `SettlementProofs` | `CreditsHaveDebits`, `GrantsDebitOnce`, `DebitsAreCovered`, `AttestationNotSpentTwice`, `AnchorNeverContradicted`, `ReceiversAddUp`, `NoReservationLeft` |
| `SharedFileProofs` | `LeasesAreKept`, `LeasesKeepTheCeiling`, `ActionsVerify`, `AnswersStay`, `TamperIsCaught` |
| `MintProofs` | `CrashesKeepTheChain`, `CreditIsGivenOnce`, `DebitsStayLost`, `DeferredMintedOnce`, `ReplaysAreBounded`, `EarningsHaveReceipts` |
| `PolicyProofs` | `ProbationBounded`, `StoresKeepOutcomes`, `NoDriftUnflagged` |
| `EvidenceProofs` | `ClaimsAreEarned`, `ClaimsAreBacked`, `SealedClaimsStand`, `EditsAreCaught`, `AnchorHolds`, `VerifiersGiveOneVerdict`, `SurfacesGiveOneBreakdown`, `HeadBinds` |

Sums and folds are within reach without the library's induction theorems, which take an
operator as a parameter: `SumTheorems` states induction of a set (`SetInduction`,
`SubsetInduction`: a set closed under the step has everything, for its complement has no least
element), and a fold is shown to be one of the functions its definition chooses from.
Type correctness is proved inside the invariants where a proof needs it, not run as a property
of its own.

Only model-checked: liveness (`Recovers`, `Answered`, `RegistryFreed`), which is out of the
prover's reach; and the two violated properties of Findings, which have no proof. Every safety
and action property of a passing run is stated by one of these theorems.

## Plan

Done: every module of the table above, and a proof of every safety and action property their
passing runs check. Left: `Lease` composed with `Settlement`, whose `IssueGrant` and
`DenyLease` answer freely today.

## Not modelled

- Ledger: `KRYLedger.save()` of fields edited by hand, the cap of 500 events, prices.
- Settlement: power failures (compaction and rollback use no directory barrier), signatures,
  attestation and policy checks of an offer, which change nothing when they fail.
- Mint: `kry_token.earn()` called directly, without a receipt (`EarningsBacked` is about what
  mints credit), rate and price arithmetic, the optional issuance cap, what notary and enclave evidence
  means cryptographically.
- Policy: replacement without fsync under power failures, the classification of an attack,
  the confidence interval of the holdout.
- Attestation: float formatting, the schema of metered counts and JSON limits, the
  content-leak check, the settlement part of the standalone verifier beyond its anchor check.
- Packets: the bundled sample corpus (its gate is left out, since exports here are the
  operator's), artifacts written outside a bundle, absolute and escaping paths, the statement
  texts of a review, the replay pass rate, prices of the savings report, the doctor's checks
  of the repository itself.
- Prompt cache, carbon, demo and host scripts: stateless arithmetic and adapters. Post-quantum
  signing, TLSNotary and enclave: cryptography and external services. Lab, vectors and the
  verifiers in other languages: experiments, data and further implementations.
