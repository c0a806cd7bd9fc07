----------------------------- MODULE ActionLog -----------------------------
(***************************************************************************)
(* The log of an agent's actions (kry_action.py), the attestation built    *)
(* from it, the anchors published from it and the verifier a stranger runs *)
(* (scripts/kry_action_verify.py).                                         *)
(*                                                                         *)
(* Hashes are ideal: the hash of a receipt is its body and the chain hash  *)
(* is the sequence of the bodies from genesis.  A reader takes no lock, so *)
(* it sees every step of a writer.                                         *)
(***************************************************************************)
EXTENDS Naturals, Sequences, FiniteSets, SequencesExt

CONSTANTS
  Worker,        \* workers that share the log
  Tool,           \* what an action may be: a tool with its commitments
  MaxRecords,     \* bound: records in the log
  MaxFaults,      \* bound: failed writes, kills and power failures
  MaxAnchors,     \* bound: anchors published
  NoWorker       \* the lock is free

ASSUME WorkerAssumption == NoWorker \notin Worker

VARIABLES
  log,       \* the lines of the file
  tail,      \* how the file ends: "clean", an "open" complete line, a "torn" one
  synced,    \* how many lines are known to be on the disk
  named,     \* the directory entry of the file is on the disk
  holder,    \* who holds the two locks of record()
  call,      \* the call of record() each worker is in
  returned,  \* history: the receipts callers got
  anchors,   \* history: the anchors published, and whether their lines were on the disk
  lost,      \* history: the whole file was lost with its directory entry
  faults     \* failures so far

actionVars == <<log, tail, synced, named, holder, call, returned, anchors, lost, faults>>

-----------------------------------------------------------------------------
(* Receipts. *)

Tiers == {"self_reported", "server_witnessed"}
Anchored == {"server_witnessed"}

Bodies == [tool: Tool, tier: Tiers, witness: BOOLEAN]

\* What create() refuses, and the witness it drops.
Creatable(b) == b.tier \in Anchored => b.witness
Created(b) == IF b.tier \in Anchored THEN b ELSE [b EXCEPT !.witness = FALSE]

GENESIS == << >>
ChainHash(prev, receipt) == Append(prev, receipt)

Receipt(n, prev, b) ==
  [id |-> n, body |-> b, receipt |-> b, chain |-> ChainHash(prev, b)]

Tip(lines) == IF lines = << >> THEN GENESIS ELSE Last(lines).chain

-----------------------------------------------------------------------------
(* The attestation and its verifiers. *)

\* An anchored tier without a witness is not credited.
EffectiveTier(b) == IF b.tier \in Anchored /\ ~b.witness THEN "self_reported" ELSE b.tier

AnchoredActions(links) ==
  Cardinality({i \in DOMAIN links : EffectiveTier(links[i].body) \in Anchored})

\* A share is declared in four decimals, here in ten-thousandths; a tie is rounded up.
Units == 10000
Share(part, total) ==
  IF total = 0 THEN 0 ELSE (2 * Units * part + total) \div (2 * total)

Floor(links) == Share(AnchoredActions(links), Len(links))

\* The floor is a set, empty when none is declared.  What else the veracity table says
\* (anchored_actions, by_tier, total_actions) no verifier reads, so it is left out.
Attestation(links) ==
  [links |-> links, tip |-> Tip(links), count |-> Len(links), floor |-> {Floor(links)}]

Prior(links, i) == IF i = 1 THEN GENESIS ELSE links[i - 1].chain

\* Fault: the chain is followed by its declared hashes, each checked for length alone.
DerivesReceiptsOnly(links) ==
  \A i \in DOMAIN links : /\ links[i].receipt = links[i].body
                          /\ Len(links[i].chain) = i

\* Every receipt and chain hash is derived again, from genesis.
Derives(links) ==
  \A i \in DOMAIN links : /\ links[i].receipt = links[i].body
                          /\ links[i].chain = ChainHash(Prior(links, i), links[i].receipt)

\* The check inside the package.
VerifyActionChain(lines) == Derives(lines)

\* A declared floor may be off by 0.01, and none declared is only a warning.
Tolerance == 100
Close(f, g) == f <= g + Tolerance /\ g <= f + Tolerance

\* Fault: the declared floor is not compared.
FloorUnread(att) == TRUE

FloorHolds(att) == \A f \in att.floor : Close(f, Floor(att.links))

\* The check a stranger runs.
VerifyAttestation(att) ==
  /\ \A i, j \in DOMAIN att.links : att.links[i].id = att.links[j].id => i = j
  /\ Derives(att.links)
  /\ att.tip = Tip(att.links)
  /\ att.count = Len(att.links)
  /\ FloorHolds(att)

VerifyAgainstAnchor(att, a) ==
  /\ a.count <= Len(att.links)
  /\ a.tip = Tip(SubSeq(att.links, 1, a.count))

\* The verdict of the command line with --anchor.
Valid(att, a) == VerifyAttestation(att) /\ VerifyAgainstAnchor(att, a)

-----------------------------------------------------------------------------
(* record(): both locks are held from the look at the file to its answer.  *)

Idle == [at |-> "idle"]
At(p, step) == call[p].at = step

ActionInit ==
  /\ log = << >> /\ tail = "clean" /\ synced = 0 /\ named = FALSE
  /\ holder = NoWorker /\ call = [p \in Worker |-> Idle]
  /\ returned = {} /\ anchors = {} /\ lost = FALSE /\ faults = 0

\* Fault: the tip is read before the lock is waited for, with another worker's call inside.
BeginWithoutLock(p, b) ==
  /\ At(p, "idle")
  /\ tail = "clean" /\ Len(log) < MaxRecords /\ Creatable(b)
  /\ holder' = p
  /\ call' = [call EXCEPT ![p] = [at |-> "loaded", receipt |->
                                    Receipt(Len(log) + 1, Tip(log), Created(b))]]
  /\ UNCHANGED <<log, tail, synced, named, returned, anchors, lost, faults>>

\* The file ends in a newline, the tip is read again under the lock, the receipt is made.
Begin(p, b) ==
  /\ At(p, "idle") /\ holder = NoWorker
  /\ tail = "clean" /\ Len(log) < MaxRecords /\ Creatable(b)
  /\ holder' = p
  /\ call' = [call EXCEPT ![p] = [at |-> "loaded", receipt |->
                                    Receipt(Len(log) + 1, Tip(log), Created(b))]]
  /\ UNCHANGED <<log, tail, synced, named, returned, anchors, lost, faults>>

\* The line reaches the file and is visible to every reader.
WriteLine(p) ==
  /\ At(p, "loaded")
  /\ log' = Append(log, call[p].receipt)
  /\ call' = [call EXCEPT ![p].at = "written"]
  /\ UNCHANGED <<tail, synced, named, holder, returned, anchors, lost, faults>>

\* Fault: the answer does not wait for the disk.
ReturnUnsynced(p) ==
  /\ At(p, "written")
  /\ returned' = returned \cup {[count |-> call[p].receipt.id, chain |-> call[p].receipt.chain]}
  /\ holder' = NoWorker
  /\ call' = [call EXCEPT ![p] = Idle]
  /\ UNCHANGED <<log, tail, synced, named, anchors, lost, faults>>

\* fsync succeeds, the locks are given back and the caller has its receipt.
Return(p) ==
  /\ At(p, "written")
  /\ synced' = Len(log)
  /\ returned' = returned \cup {[count |-> call[p].receipt.id, chain |-> call[p].receipt.chain]}
  /\ holder' = NoWorker
  /\ call' = [call EXCEPT ![p] = Idle]
  /\ UNCHANGED <<log, tail, named, anchors, lost, faults>>

\* The write raises, or the worker is killed in it, with nothing, a part, or all of the line
\* but its newline in the file; the locks are given back either way.
FailWrite(p) ==
  /\ At(p, "loaded") /\ faults < MaxFaults
  /\ \/ UNCHANGED <<log, tail>>
     \/ tail' = "torn" /\ UNCHANGED log
     \/ tail' = "open" /\ log' = Append(log, call[p].receipt)
  /\ holder' = NoWorker
  /\ call' = [call EXCEPT ![p] = Idle]
  /\ faults' = faults + 1
  /\ UNCHANGED <<synced, named, returned, anchors, lost>>

\* fsync raises, or the worker is killed before its answer: the line stays.
FailSync(p) ==
  /\ At(p, "written") /\ faults < MaxFaults
  /\ holder' = NoWorker
  /\ call' = [call EXCEPT ![p] = Idle]
  /\ faults' = faults + 1
  /\ UNCHANGED <<log, tail, synced, named, returned, anchors, lost>>

-----------------------------------------------------------------------------
(* Readers, the operator and the machine. *)

\* export_anchor() reads the file without the locks; a torn line raises.
ExportAnchor ==
  /\ tail # "torn" /\ Cardinality(anchors) < MaxAnchors
  /\ anchors' = anchors \cup {[count |-> Len(log), tip |-> Tip(log),
                               durable |-> Len(log) <= synced]}
  /\ UNCHANGED <<log, tail, synced, named, holder, call, returned, lost, faults>>

\* "Recover before appending": the operator ends a complete line and removes a torn one.
Recover ==
  /\ tail # "clean" /\ holder = NoWorker
  /\ tail' = "clean"
  /\ UNCHANGED <<log, synced, named, holder, call, returned, anchors, lost, faults>>

\* Power fails: lines that no fsync covered may be gone or torn, and so may the whole file
\* while its directory entry was never synchronized.
PowerFail ==
  /\ faults < MaxFaults /\ log # << >>
  /\ \/ \E n \in synced..Len(log) :
          /\ log' = SubSeq(log, 1, n)
          /\ tail' \in IF n < Len(log) THEN {"clean", "torn"} ELSE {tail}
          /\ synced' = n /\ named' = TRUE /\ lost' = lost
     \/ /\ ~named
        /\ log' = << >> /\ tail' = "clean" /\ synced' = 0 /\ named' = FALSE /\ lost' = TRUE
  /\ holder' = NoWorker
  /\ call' = [p \in Worker |-> Idle]
  /\ faults' = faults + 1
  /\ UNCHANGED <<returned, anchors>>

ActionNext ==
  \/ \E p \in Worker :
       \/ \E b \in Bodies : Begin(p, b)
       \/ WriteLine(p) \/ Return(p) \/ FailWrite(p) \/ FailSync(p)
  \/ ExportAnchor \/ Recover \/ PowerFail

ActionSpec == ActionInit /\ [][ActionNext]_actionVars

-----------------------------------------------------------------------------
(* Properties. *)

\* What the log's readers make of it at any moment, between the steps of any writer and after
\* any failure and recovery: both verifiers accept what record() wrote, receipt ids included.
BuiltVerifies ==
  tail # "torn" => VerifyActionChain(log) /\ VerifyAttestation(Attestation(log))

\* Nothing is taken back: a receipt a caller got stays where it is in the chain, and an anchor
\* over lines that were on the disk agrees with every later attestation, unless the file
\* itself was lost before its directory entry reached the disk.
HistoryKept ==
  lost \/ /\ \A r \in returned : r.count <= Len(log) /\ log[r.count].chain = r.chain
          /\ \A a \in anchors : a.durable => VerifyAgainstAnchor(Attestation(log), a)

\* What somebody could make of the log's links: one edited (with its own hash or not), dropped,
\* repeated or exchanged with the next, or the whole chain made again from other bodies.
EditedAt(links, i, b) ==
  {[links EXCEPT ![i].body = b], [links EXCEPT ![i].body = b, ![i].receipt = b],
   RemoveAt(links, i), Append(links, links[i])}

Swapped(links, i) == [links EXCEPT ![i] = links[i + 1], ![i + 1] = links[i]]

Edited(links) ==
  {Swapped(links, i) : i \in 1..Len(links) - 1}
  \cup UNION {EditedAt(links, i, b) : i \in DOMAIN links, b \in Bodies}

Chain(bodies) ==
  [i \in DOMAIN bodies |-> [id |-> i, body |-> bodies[i], receipt |-> bodies[i],
                            chain |-> SubSeq(bodies, 1, i)]]

Reminted(links) ==
  LET bodies == [i \in DOMAIN links |-> links[i].body]
  IN {Chain([bodies EXCEPT ![i] = b]) : i \in DOMAIN links, b \in Bodies}
     \cup {Chain(RemoveAt(bodies, i)) : i \in DOMAIN links}

\* No floor at all, or every share there could be: as it is, and a little or a lot above it.
Floors(links) ==
  {{}} \cup {{Share(k, Len(links)) + d} : k \in 0..Len(links), d \in {0, 99, 101}}

\* The envelope is made to fit, or declares another floor or none.
Altered(links) ==
  {Attestation(l) : l \in Edited(links) \cup Reminted(links)}
  \cup {[Attestation(links) EXCEPT !.floor = f] : f \in Floors(links)}

\* The actions with a witness in an anchored tier, the only ones that count as anchored.
Witnessed(links) ==
  {i \in DOMAIN links : links[i].body.tier \in Anchored /\ links[i].body.witness}

\* A stranger who holds a published anchor accepts nothing but a continuation of the actions
\* it was published over, and no declared floor that is further from the share of witnessed
\* actions than the tolerance and the rounding.  (What else the veracity table declares passes
\* unread: a stranger has only the floor and the links.)
TamperCaught ==
  \A a \in anchors, x \in Altered(log) :
    Valid(x, a) =>
      /\ [i \in 1..a.count |-> x.links[i].body] = a.tip
      /\ \A f \in x.floor :
           LET n == Len(x.links)
               share == Units * Cardinality(Witnessed(x.links))
               slack == (Tolerance + 1) * n
           IN  f * n <= share + slack /\ share <= f * n + slack
=============================================================================
