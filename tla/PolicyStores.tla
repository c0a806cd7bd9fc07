---------------------------- MODULE PolicyStores ----------------------------
(***************************************************************************)
(* The three small files policy decisions rest on: the rules an operator   *)
(* ratified (kry_referee.py), the reputation of the parties                *)
(* (kry_sanctions.py) and the holdout counts (kry_baseline.py).  Each is   *)
(* read, changed and replaced under a lock of threads and processes.  The  *)
(* referee also keeps a window of recent decisions in the memory of each   *)
(* process and a log of escalations, which no lock protects.               *)
(***************************************************************************)
EXTENDS Integers, Sequences, FiniteSets, SequencesExt

CONSTANTS
  Worker,       \* threads that call the three modules
  Process,      \* the processes they run in
  Home,         \* the process of each worker
  Rule,         \* gate_class:rule keys
  Party,        \* parties with a reputation
  Class,        \* request classes of the holdout
  Cap,          \* uses of a rule on probation
  Window,       \* decisions the referee remembers
  Budget,       \* escalations of a process in one time window
  MaxLines,     \* bound: lines of the escalation log
  MaxCalls,     \* bound: calls
  MaxFaults,    \* bound: failed writes and kills
  NoWorker      \* a lock is free

ASSUME PolicyAssumption ==
  /\ Cap \in Nat /\ Window \in Nat
  /\ Home \in [Worker -> Process] /\ NoWorker \notin Worker

Store == {"rules", "reputation", "holdout"}

VARIABLES
  file,      \* what each store holds
  holder,    \* who holds the lock of each store
  call,      \* the call each worker is in
  recent,    \* the referee's window, per process
  escalated, \* escalations of each process in its time window
  evidence,  \* the lines of the escalation log
  decision,  \* history: the last committed operator decision on each rule
  granted,   \* history: passes of each rule since that decision
  outcomes,  \* history: the committed outcomes of each party and class, counted
  reviews,   \* history: the reviews of each process, in the order they were logged
  calls, faults

vars == <<file, holder, call, recent, escalated, evidence, decision, granted, outcomes, reviews,
          calls, faults>>

-----------------------------------------------------------------------------
(* What a call does to the entry of its key. *)

Kinds == [rules |-> {"review", "ratify", "revoke"},
          reputation |-> {"confirmed", "discrepancy"},
          holdout |-> {"paid", "unpaid", "treated"}]
Keys == [rules |-> Rule, reputation |-> Party, holdout |-> Class]

Outcome == {"allow", "redirect"}

Ops == UNION {[store: {s}, kind: Kinds[s], key: Keys[s], outcome: Outcome] : s \in Store}

Asked(op) == op.kind = "review" \/ op.outcome = "allow"

\* A rule is live with its uses; the other entries count outcomes.  The reputation itself, a
\* float between 0 and 1, follows from the outcomes and is left out.
Gated == [live |-> FALSE, uses |-> 0]
Unseen(store) == [k \in Kinds[store] |-> 0]

\* Fault: one use more than the cap.
RefusedAfter(op, entry) ==
  \/ op.kind = "review" /\ (~entry.live \/ entry.uses > Cap)
  \/ op.kind = "revoke" /\ ~entry.live

\* The calls that answer False without a write.
Refused(op, entry) ==
  \/ op.kind = "review" /\ (~entry.live \/ entry.uses >= Cap)
  \/ op.kind = "revoke" /\ ~entry.live

\* A pass is counted, a ratification starts a probation, a revocation removes the rule.
RuleChanged(op, entry) ==
  CASE op.kind = "review" -> [entry EXCEPT !.uses = @ + 1]
    [] op.kind = "ratify" -> [live |-> TRUE, uses |-> 0]
    [] op.kind = "revoke" -> Gated

ReputationChanged(op, entry) == [entry EXCEPT ![op.kind] = @ + 1]

HoldoutChanged(op, entry) == [entry EXCEPT ![op.kind] = @ + 1]

Changed(op, entry) ==
  CASE op.store = "rules" -> RuleChanged(op, entry)
    [] op.store = "reputation" -> ReputationChanged(op, entry)
    [] op.store = "holdout" -> HoldoutChanged(op, entry)

-----------------------------------------------------------------------------
(* The escalation log.  A line a failed append or a kill left unterminated *)
(* spoils the next line as well, and the reader stops at the first line it *)
(* cannot parse.                                                           *)

Line(rule, status) == [key |-> rule, status |-> status]

EndsTorn == evidence # << >> /\ Last(evidence).status = "torn"

Appended(line) ==
  IF EndsTorn THEN [evidence EXCEPT ![Len(evidence)].status = "spoilt"] ELSE Append(evidence, line)

Torn(rule) == IF EndsTorn THEN evidence ELSE Append(evidence, Line(rule, "torn"))

PendingEscalation(rule) ==
  \E i \in DOMAIN evidence :
    /\ evidence[i] = Line(rule, "pending_operator_review")
    /\ \A j \in 1..i : evidence[j].status \notin {"torn", "spoilt"}

-----------------------------------------------------------------------------
Idle == [at |-> "idle"]
At(w, step) == call[w].at = step
Now(w) == call[w].op

Init ==
  /\ file = [rules |-> [r \in Rule |-> Gated],
             reputation |-> [p \in Party |-> Unseen("reputation")],
             holdout |-> [c \in Class |-> Unseen("holdout")]]
  /\ holder = [s \in Store |-> NoWorker]
  /\ call = [w \in Worker |-> Idle]
  /\ recent = [p \in Process |-> << >>]
  /\ escalated = [p \in Process |-> 0]
  /\ evidence = << >>
  /\ decision = [r \in Rule |-> "none"]
  /\ granted = [r \in Rule |-> 0]
  /\ outcomes = [s \in {"reputation", "holdout"} |-> [k \in Keys[s] |-> Unseen(s)]]
  /\ reviews = [p \in Process |-> << >>]
  /\ calls = 0 /\ faults = 0

history == <<decision, granted, outcomes>>
referee == <<recent, escalated, evidence, reviews>>

\* A call starts; ratify_ascension looks for its evidence before it takes any lock.
Call(w, op) ==
  /\ At(w, "idle") /\ calls < MaxCalls /\ Asked(op)
  /\ op.kind = "ratify" => PendingEscalation(op.key)
  /\ call' = [call EXCEPT ![w] = [at |-> "called", op |-> op, began |-> Len(reviews[Home[w]])]]
  /\ calls' = calls + 1
  /\ UNCHANGED <<file, holder, faults, history, referee>>

\* Fault: the file is read before the lock is free.
LoadUnlocked(w) ==
  /\ At(w, "called")
  /\ ~Refused(Now(w), file[Now(w).store][Now(w).key])
  /\ holder' = [holder EXCEPT ![Now(w).store] = w]
  /\ call' = [call EXCEPT ![w] = @ @@ [seen |-> file[Now(w).store]], ![w].at = "loaded"]
  /\ UNCHANGED <<file, calls, faults, history, referee>>

\* The lock is taken and the file read.
Load(w) ==
  /\ At(w, "called") /\ holder[Now(w).store] = NoWorker
  /\ ~Refused(Now(w), file[Now(w).store][Now(w).key])
  /\ holder' = [holder EXCEPT ![Now(w).store] = w]
  /\ call' = [call EXCEPT ![w] = [at |-> "loaded", op |-> @.op, began |-> @.began,
                                  seen |-> file[@.op.store]]]
  /\ UNCHANGED <<file, calls, faults, history, referee>>

\* The call is refused under the lock; a review goes on to judge the decision.
Refuse(w) ==
  /\ At(w, "called") /\ holder[Now(w).store] = NoWorker
  /\ Refused(Now(w), file[Now(w).store][Now(w).key])
  /\ call' = [call EXCEPT ![w] = IF @.op.kind = "review" THEN [@ EXCEPT !.at = "gated"] ELSE Idle]
  /\ UNCHANGED <<file, holder, calls, faults, history, referee>>

Committed(op) ==
  /\ decision' = IF op.kind \in {"ratify", "revoke"}
                 THEN [decision EXCEPT ![op.key] = op.kind] ELSE decision
  /\ granted' = CASE op.kind = "review" -> [granted EXCEPT ![op.key] = @ + 1]
                  [] op.kind \in {"ratify", "revoke"} -> [granted EXCEPT ![op.key] = 0]
                  [] OTHER -> granted
  /\ outcomes' = IF op.store = "rules" THEN outcomes
                 ELSE [outcomes EXCEPT ![op.store][op.key][op.kind] = @ + 1]

\* The new content replaces the file.
Replace(w) ==
  /\ At(w, "loaded")
  /\ file' = [file EXCEPT ![Now(w).store] =
                [call[w].seen EXCEPT ![Now(w).key] = Changed(Now(w), @)]]
  /\ Committed(Now(w))
  /\ call' = [call EXCEPT ![w].at = "replaced"]
  /\ UNCHANGED <<holder, calls, faults, referee>>

Free(w) == [s \in Store |-> IF holder[s] = w THEN NoWorker ELSE holder[s]]

\* The locks are given back; a revocation has first left its line, if the append succeeds.  A
\* review that passed on a sanctioned rule is called consistent, as an ascension, and nobody
\* looks at the window; it is logged next.
Answer(w) ==
  /\ At(w, "replaced")
  /\ holder' = Free(w)
  /\ IF Now(w).kind = "revoke" /\ Len(evidence) < MaxLines
     THEN evidence' \in {Appended(Line(Now(w).key, "revoked")), evidence, Torn(Now(w).key)}
     ELSE UNCHANGED evidence
  /\ call' = [call EXCEPT ![w] = IF @.op.kind = "review"
                                 THEN [at |-> "judged", op |-> @.op, began |-> @.began,
                                       verdict |-> "consistent", ascension |-> TRUE]
                                 ELSE Idle]
  /\ UNCHANGED <<file, calls, faults, history, recent, escalated, reviews>>

\* The new content cannot be written: the file and the answer stay as they were.  The pass of
\* a review is denied and its decision is judged.
Fail(w) ==
  /\ At(w, "loaded") /\ faults < MaxFaults
  /\ holder' = Free(w)
  /\ call' = [call EXCEPT ![w] = IF @.op.kind = "review"
                                 THEN [at |-> "gated", op |-> @.op, began |-> @.began] ELSE Idle]
  /\ faults' = faults + 1
  /\ UNCHANGED <<file, calls, history, referee>>

-----------------------------------------------------------------------------
(* The referee's own judgement, in the memory of the process. *)

Conflicts(w) ==
  \E i \in DOMAIN recent[Home[w]] :
    LET prior == recent[Home[w]][i]
    IN prior.key = Now(w).key /\ prior.outcome # Now(w).outcome

\* The window is searched for a decision of the same rule (and the same confidence, of which
\* there is one here) with the other outcome.
Judge(w) ==
  /\ At(w, "gated")
  /\ call' = [call EXCEPT ![w] = [at |-> "judged", op |-> @.op, began |-> @.began,
                                  verdict |-> IF Conflicts(w) THEN "quarantine" ELSE "consistent",
                                  ascension |-> FALSE]]
  /\ UNCHANGED <<file, holder, calls, faults, history, referee>>

\* Fault: room is made before the new decision and once more after it.
KeptOneLess(seq) == IF Len(seq) >= Window THEN Tail(seq) ELSE seq

\* The oldest decision leaves a full window.
Kept(seq) == IF Len(seq) > Window THEN Tail(seq) ELSE seq

\* The decision enters the window and the review answers.
LogDecision(w) ==
  /\ At(w, "judged")
  /\ recent' = [recent EXCEPT ![Home[w]] = Kept(Append(@, [key |-> Now(w).key,
                                                          outcome |-> Now(w).outcome]))]
  /\ reviews' = [reviews EXCEPT ![Home[w]] =
                    Append(@, [key |-> Now(w).key, outcome |-> Now(w).outcome,
                               verdict |-> call[w].verdict, ascension |-> call[w].ascension,
                               began |-> call[w].began])]
  /\ call' = [call EXCEPT ![w] = Idle]
  /\ UNCHANGED <<file, holder, escalated, evidence, calls, faults, history>>

\* escalate_quarantine(): the budget is spent even when the append fails.
Escalate(w, rule) ==
  /\ At(w, "idle")
  /\ escalated[Home[w]] < Budget /\ Len(evidence) < MaxLines
  /\ \/ evidence' = Appended(Line(rule, "pending_operator_review"))
        /\ UNCHANGED faults
     \/ evidence' \in {evidence, Torn(rule)} /\ faults < MaxFaults /\ faults' = faults + 1
  /\ escalated' = [escalated EXCEPT ![Home[w]] = @ + 1]
  /\ UNCHANGED <<file, holder, call, calls, recent, reviews, history>>

\* The oldest escalation leaves the time window.
WindowMoves(p) ==
  /\ escalated[p] > 0
  /\ escalated' = [escalated EXCEPT ![p] = @ - 1]
  /\ UNCHANGED <<file, holder, call, recent, evidence, reviews, calls, faults, history>>

\* A process dies: its locks and its memory are gone, the files are as they are.
Kill(p) ==
  /\ faults < MaxFaults
  /\ LET dead == {w \in Worker : Home[w] = p}
     IN /\ holder' = [s \in Store |-> IF holder[s] \in dead THEN NoWorker ELSE holder[s]]
        /\ call' = [w \in Worker |-> IF w \in dead THEN Idle ELSE call[w]]
  /\ recent' = [recent EXCEPT ![p] = << >>]
  /\ reviews' = [reviews EXCEPT ![p] = << >>]
  /\ escalated' = [escalated EXCEPT ![p] = 0]
  /\ faults' = faults + 1
  /\ UNCHANGED <<file, evidence, calls, history>>

Next ==
  \/ \E w \in Worker :
       \/ \E op \in Ops : Call(w, op)
       \/ \E r \in Rule : Escalate(w, r)
       \/ Load(w) \/ Refuse(w) \/ Replace(w) \/ Answer(w) \/ Fail(w)
       \/ Judge(w) \/ LogDecision(w)
  \/ \E p \in Process : WindowMoves(p) \/ Kill(p)

Spec == Init /\ [][Next]_vars

-----------------------------------------------------------------------------
(* Properties. *)

\* A rule passes at most Cap times after the operator's last ratification and never after the
\* operator's revocation, whatever was in progress in any worker when they were committed.
PassesBounded ==
  \A r \in Rule : granted[r] <= IF decision[r] = "ratify" THEN Cap ELSE 0

\* No committed decision or outcome is lost or comes back: every file is what the committed
\* calls make of it, in their order.
StoresExact ==
  /\ \A r \in Rule : file.rules[r] = [live |-> decision[r] = "ratify", uses |-> granted[r]]
  /\ \A s \in DOMAIN outcomes : file[s] = outcomes[s]

\* Of two opposite decisions of one rule in one process the later is not called consistent,
\* with three exceptions of the code.  A review that spent a pass of the operator's ratification
\* is called consistent whatever came before it, and says so (its attack type).  A review that
\* had begun when the other was logged need not see it: two that overlap may both be called
\* consistent, but then both outcomes are remembered and the next review is flagged whatever
\* it decides.  And the window forgets.
DriftFlagged ==
  \A p \in Process : \A i, j \in DOMAIN reviews[p] :
    LET a == reviews[p][i]
        b == reviews[p][j]
    IN /\ a.key = b.key /\ a.outcome # b.outcome
       /\ i <= b.began /\ j - i <= Window
       => b.verdict # "consistent" \/ b.ascension
=============================================================================
