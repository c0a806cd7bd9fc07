---------------------------- MODULE PolicyProofs ----------------------------
(***************************************************************************)
(* For any workers, processes, rules, parties, classes and bounds: the     *)
(* policy files are what the committed calls made of them, and a rule on   *)
(* probation passes at most Cap times.  A worker that has read a store     *)
(* holds its lock, so what it read is what the store still holds.  And no  *)
(* drift goes unflagged: the window a process remembers is the end of what *)
(* it reviewed.                                                            *)
(***************************************************************************)
EXTENDS PolicyStores, SequenceTheorems, TLAPS

Counted == {"reputation", "holdout"}

\* What the committed calls make of the files.
Exact ==
  [s \in Store |-> IF s = "rules"
                   THEN [r \in Rule |-> [live |-> decision[r] = "ratify", uses |-> granted[r]]]
                   ELSE outcomes[s]]

\* A call that has read its store holds the lock, has read what is there and is not refused.
CallOK(w) ==
  /\ "at" \in DOMAIN call[w]
  /\ \/ call[w].at = "idle"
     \/ /\ call[w].at \in {"called", "gated", "judged"}
        /\ call[w].op \in Ops
     \/ /\ call[w].at \in {"loaded", "replaced"}
        /\ call[w].op \in Ops
        /\ holder[call[w].op.store] = w
        /\ call[w].at = "loaded" => /\ call[w].seen = file[call[w].op.store]
                                    /\ ~Refused(call[w].op, file[call[w].op.store][call[w].op.key])

HistoryTyped ==
  /\ decision \in [Rule -> {"none", "ratify", "revoke"}]
  /\ granted \in [Rule -> Nat]
  /\ outcomes \in [Counted -> {outcomes["reputation"], outcomes["holdout"]}]
  /\ \A s \in Counted : outcomes[s] \in [Keys[s] -> [Kinds[s] -> Nat]]

Inv ==
  /\ HistoryTyped
  /\ file = Exact
  /\ holder \in [Store -> Worker \cup {NoWorker}]
  /\ DOMAIN call = Worker
  /\ \A w \in Worker : CallOK(w)
  /\ PassesBounded

LEMMA OpsShape ==
  ASSUME NEW op \in Ops
  PROVE  /\ op.store \in Store /\ op.kind \in Kinds[op.store] /\ op.key \in Keys[op.store]
         /\ op.store = "rules" <=> op.kind \in {"review", "ratify", "revoke"}
  BY DEF Ops, Store, Kinds, Keys

LEMMA Initially == Init => Inv
  <1>1. ASSUME Init PROVE HistoryTyped
    BY <1>1 DEF Init, HistoryTyped, Counted, Unseen, Keys, Kinds
  <1>2. ASSUME Init PROVE file = Exact
    <2>1. DOMAIN file = Store /\ file = [t \in Store |-> file[t]] BY <1>2 DEF Init, Store
    <2>2. file["rules"] = Exact["rules"] BY <1>2 DEF Init, Exact, Store, Gated
    <2>3. file["reputation"] = Exact["reputation"] /\ file["holdout"] = Exact["holdout"]
      BY <1>2 DEF Init, Exact, Store, Keys, Unseen
    <2>4. DOMAIN Exact = Store /\ Exact = [t \in Store |-> Exact[t]] BY DEF Exact
    <2> QED BY <2>1, <2>2, <2>3, <2>4 DEF Store
  <1> QED BY <1>1, <1>2, PolicyAssumption DEF Init, Inv, PassesBounded, CallOK, Idle

\* A step that commits nothing keeps the invariant if it keeps what the calls rest on.
LEMMA NothingCommitted ==
  ASSUME Inv, UNCHANGED <<file, history>>,
         holder' \in [Store -> Worker \cup {NoWorker}], DOMAIN call' = Worker,
         \A w \in Worker : CallOK(w)'
  PROVE  Inv'
  BY DEF Inv, HistoryTyped, Exact, PassesBounded, history

\* A call of another worker stays as good as it was.
LEMMA OthersKeep ==
  ASSUME Inv, NEW w \in Worker, NEW v \in Worker, v # w,
         UNCHANGED file, call'[v] = call[v],
         \A s \in Store : holder[s] \notin {w, NoWorker} => holder'[s] = holder[s]
  PROVE  CallOK(v)'
  <1>1. CallOK(v) BY DEF Inv
  <1>2. call[v].at \in {"loaded", "replaced"} => call[v].op.store \in Store
    BY <1>1, OpsShape DEF CallOK
  <1> QED BY <1>1, <1>2, PolicyAssumption DEF CallOK, Refused

LEMMA KeepsInv == Inv /\ [Next]_vars => Inv'
<1> SUFFICES ASSUME Inv, [Next]_vars PROVE Inv'
  OBVIOUS
<1>1. ASSUME NEW w \in Worker, NEW op \in Ops, Call(w, op) PROVE Inv'
  <2>1. call' = [call EXCEPT ![w] = [at |-> "called", op |-> op, began |-> Len(reviews[Home[w]])]]
    BY <1>1 DEF Call
  <2>2. UNCHANGED <<file, holder, history>> BY <1>1 DEF Call
  <2>3. DOMAIN call = Worker /\ DOMAIN call' = Worker BY <2>1 DEF Inv
  <2>4. CallOK(w)' BY <2>1, <2>3 DEF CallOK
  <2>5. ASSUME NEW v \in Worker, v # w PROVE CallOK(v)'
    BY <2>1, <2>2, <2>3, <2>5, OthersKeep
  <2> QED BY <2>2, <2>3, <2>4, <2>5, NothingCommitted DEF Inv
<1>2. ASSUME NEW w \in Worker, NEW r \in Rule, Escalate(w, r) PROVE Inv'
  <2>1. UNCHANGED <<file, holder, call, history>> BY <1>2 DEF Escalate
  <2>2. \A v \in Worker : CallOK(v)' BY <2>1 DEF Inv, CallOK, Refused
  <2> QED BY <2>1, <2>2, NothingCommitted DEF Inv
<1>3. ASSUME NEW w \in Worker, Load(w) PROVE Inv'
  <2> DEFINE s == call[w].op.store
  <2>1. /\ call[w].at = "called" /\ holder[s] = NoWorker
        /\ ~Refused(call[w].op, file[s][call[w].op.key])
        /\ holder' = [holder EXCEPT ![s] = w]
    BY <1>3 DEF Load, At, Now
  <2>2. call' = [call EXCEPT ![w] = [at |-> "loaded", op |-> @.op, began |-> @.began,
                                     seen |-> file[@.op.store]]]
    BY <1>3 DEF Load
  <2>3. UNCHANGED <<file, history>> BY <1>3 DEF Load
  <2>4. CallOK(w) /\ DOMAIN call = Worker BY DEF Inv
  <2>5. call[w].op \in Ops /\ s \in Store BY <2>1, <2>4, OpsShape DEF CallOK
  <2>6. holder' \in [Store -> Worker \cup {NoWorker}] /\ holder'[s] = w
    BY <2>1, <2>5 DEF Inv
  <2>7. DOMAIN call' = Worker BY <2>2, <2>4
  <2>8. CallOK(w)'
    <3>1. /\ call'[w].at = "loaded" /\ call'[w].op = call[w].op /\ call'[w].seen = file[s]
          /\ "at" \in DOMAIN call'[w]
      BY <2>2, <2>4
    <3> QED BY <3>1, <2>1, <2>3, <2>5, <2>6 DEF CallOK, Refused
  <2>9. ASSUME NEW v \in Worker, v # w PROVE CallOK(v)'
    <3>1. call'[v] = call[v] BY <2>2, <2>4, <2>9
    <3>2. \A t \in Store : holder[t] \notin {w, NoWorker} => holder'[t] = holder[t]
      BY <2>1, <2>5 DEF Inv
    <3> QED BY <3>1, <3>2, <2>3, <2>9, OthersKeep
  <2> QED BY <2>3, <2>6, <2>7, <2>8, <2>9, NothingCommitted
<1>4. ASSUME NEW w \in Worker, Refuse(w) PROVE Inv'
  <2>1. /\ call[w].at = "called" /\ UNCHANGED <<file, holder, history>>
        /\ call' = [call EXCEPT ![w] = IF @.op.kind = "review" THEN [@ EXCEPT !.at = "gated"]
                                                               ELSE Idle]
    BY <1>4 DEF Refuse, At
  <2>2. CallOK(w) /\ DOMAIN call = Worker BY DEF Inv
  <2>3. call[w].op \in Ops BY <2>1, <2>2 DEF CallOK
  <2>4. CallOK(w)'
    <3>1. CASE call[w].op.kind = "review"
      <4>1. call'[w] = [call[w] EXCEPT !.at = "gated"] BY <2>1, <2>2, <3>1
      <4>2. call'[w].op = call[w].op BY <4>1
      <4>3. call'[w].at = "gated" /\ "at" \in DOMAIN call'[w] BY <2>2, <4>1 DEF CallOK
      <4> QED BY <4>1, <4>2, <4>3, <2>1, <2>3 DEF CallOK
    <3>2. CASE call[w].op.kind # "review"
      <4>1. call'[w] = Idle BY <2>1, <2>2, <3>2
      <4> QED BY <4>1 DEF CallOK, Idle
    <3> QED BY <3>1, <3>2
  <2>5. ASSUME NEW v \in Worker, v # w PROVE CallOK(v)'
    BY <2>1, <2>2, <2>5, OthersKeep
  <2> QED BY <2>1, <2>2, <2>4, <2>5, NothingCommitted DEF Inv
<1>5. ASSUME NEW w \in Worker, Replace(w) PROVE Inv'
  <2> DEFINE op == call[w].op
             s == op.store
             k == op.key
  <2>1. CallOK(w) /\ call[w].at = "loaded" BY <1>5 DEF Inv, Replace, At
  <2>2. /\ op \in Ops /\ s \in Store /\ k \in Keys[s] /\ op.kind \in Kinds[s]
        /\ holder[s] = w /\ call[w].seen = file[s] /\ ~Refused(op, file[s][k])
    BY <2>1, OpsShape DEF CallOK
  <2>3. file' = [file EXCEPT ![s] = [file[s] EXCEPT ![k] = Changed(op, @)]]
    BY <1>5, <2>2 DEF Replace, Now
  <2>4. Committed(op) /\ UNCHANGED holder /\ call' = [call EXCEPT ![w].at = "replaced"]
    BY <1>5 DEF Replace, Now
  <2>5. file = Exact /\ HistoryTyped /\ PassesBounded /\ DOMAIN call = Worker BY DEF Inv
  <2>6. HistoryTyped' /\ file' = Exact' /\ PassesBounded'
    <3>1. CASE s = "rules"
      <4>1. k \in Rule /\ op.kind \in {"review", "ratify", "revoke"} BY <2>2, <3>1 DEF Keys, Kinds
      <4>2. outcomes' = outcomes BY <2>4, <3>1 DEF Committed
      <4>3. file["rules"] = [r \in Rule |-> [live |-> decision[r] = "ratify", uses |-> granted[r]]]
        BY <2>5 DEF Exact, Store
      <4>4. /\ decision' \in [Rule -> {"none", "ratify", "revoke"}] /\ granted' \in [Rule -> Nat]
        BY <2>4, <2>5, <4>1 DEF Committed, HistoryTyped
      <4>5. [file["rules"] EXCEPT ![k] = Changed(op, @)]
              = [r \in Rule |-> [live |-> decision'[r] = "ratify", uses |-> granted'[r]]]
        <5>1. CASE op.kind = "review"
          BY <2>2, <2>4, <2>5, <3>1, <4>1, <4>3, <5>1 DEF Committed, Changed, RuleChanged, HistoryTyped
        <5>2. CASE op.kind = "ratify"
          BY <2>2, <2>4, <2>5, <3>1, <4>1, <4>3, <5>2 DEF Committed, Changed, RuleChanged, HistoryTyped
        <5>3. CASE op.kind = "revoke"
          BY <2>2, <2>4, <2>5, <3>1, <4>1, <4>3, <5>3 DEF Committed, Changed, RuleChanged, HistoryTyped, Gated
        <5> QED BY <4>1, <5>1, <5>2, <5>3
      <4>6. file' = Exact'
        <5>1. DOMAIN file' = Store /\ file' = [t \in Store |-> file'[t]] BY <2>3, <2>5 DEF Exact
        <5>2. file'["rules"] = [file["rules"] EXCEPT ![k] = Changed(op, @)]
          BY <2>3, <2>5, <3>1 DEF Exact, Store
        <5>3. \A t \in Store : t # "rules" => file'[t] = outcomes'[t]
          BY <2>3, <2>5, <3>1, <4>2 DEF Exact
        <5> QED BY <4>5, <5>1, <5>2, <5>3 DEF Exact
      <4>7. PassesBounded'
        <5>1. op.kind = "review" => decision[k] = "ratify" /\ granted[k] < Cap
          <6>1. file[s][k] = [live |-> decision[k] = "ratify", uses |-> granted[k]]
            BY <3>1, <4>1, <4>3
          <6>2. op.kind = "review" => file[s][k].live /\ ~(file[s][k].uses >= Cap)
            BY <2>2 DEF Refused
          <6>3. op.kind = "review" => decision[k] = "ratify"
            <7>1. file[s][k].live = (decision[k] = "ratify") BY <6>1
            <7> QED BY <6>2, <7>1, Zenon
          <6>4. op.kind = "review" => ~(granted[k] >= Cap) BY <6>1, <6>2
          <6> QED BY <2>5, <4>1, <6>3, <6>4, PolicyAssumption DEF HistoryTyped
        <5>2. CASE op.kind = "review"
          BY <2>4, <2>5, <4>1, <5>1, <5>2, PolicyAssumption DEF Committed, PassesBounded, HistoryTyped
        <5>3. CASE op.kind \in {"ratify", "revoke"}
          BY <2>4, <2>5, <4>1, <5>3, PolicyAssumption DEF Committed, PassesBounded, HistoryTyped
        <5> QED BY <4>1, <5>2, <5>3
      <4> QED BY <2>5, <4>2, <4>4, <4>6, <4>7 DEF HistoryTyped
    <3>2. CASE s # "rules"
      <4>1. s \in Counted /\ op.kind \notin {"review", "ratify", "revoke"}
        BY <2>2, <3>2, OpsShape DEF Store, Counted
      <4>2. decision' = decision /\ granted' = granted
            /\ outcomes' = [outcomes EXCEPT ![s][k][op.kind] = @ + 1]
        BY <2>4, <3>2, <4>1 DEF Committed
      <4>3. file[s] = outcomes[s] /\ outcomes[s] \in [Keys[s] -> [Kinds[s] -> Nat]]
            /\ DOMAIN outcomes = Counted
        BY <2>2, <2>5, <3>2, <4>1 DEF Exact, HistoryTyped
      <4>4. outcomes'[s] = [outcomes[s] EXCEPT ![k] = Changed(op, @)]
        BY <4>1, <4>2, <4>3 DEF Changed, ReputationChanged, HoldoutChanged, Counted
      <4>5. outcomes'[s] \in [Keys[s] -> [Kinds[s] -> Nat]]
        <5>1. outcomes[s][k] \in [Kinds[s] -> Nat] BY <2>2, <4>3
        <5>2. Changed(op, outcomes[s][k]) = [outcomes[s][k] EXCEPT ![op.kind] = @ + 1]
          BY <4>1 DEF Changed, ReputationChanged, HoldoutChanged, Counted
        <5>3. outcomes[s][k][op.kind] + 1 \in Nat BY <2>2, <5>1
        <5>4. Changed(op, outcomes[s][k]) \in [Kinds[s] -> Nat] BY <2>2, <5>1, <5>2, <5>3
        <5> QED BY <2>2, <4>3, <4>4, <5>4
      <4>6. \A t \in Counted : t # s => outcomes'[t] = outcomes[t] BY <4>2, <4>3
      <4>7. DOMAIN outcomes' = Counted /\ outcomes' = [t \in Counted |-> outcomes'[t]]
        BY <2>5, <4>2, <4>3 DEF HistoryTyped
      <4>8. HistoryTyped'
        <5>1. \A t \in Counted : outcomes'[t] \in [Keys[t] -> [Kinds[t] -> Nat]]
          BY <2>5, <4>5, <4>6 DEF HistoryTyped
        <5>2. outcomes' \in [Counted -> {outcomes'["reputation"], outcomes'["holdout"]}]
          BY <4>7 DEF Counted
        <5> QED BY <2>5, <4>2, <5>1, <5>2 DEF HistoryTyped
      <4>9. file' = Exact'
        <5>1. DOMAIN file' = Store /\ file' = [t \in Store |-> file'[t]] BY <2>3, <2>5 DEF Exact
        <5>2. file'[s] = outcomes'[s] BY <2>2, <2>3, <2>5, <4>3, <4>4 DEF Exact
        <5>3. \A t \in Store : t # s => file'[t] = file[t] BY <2>3, <2>5 DEF Exact
        <5>4. \A t \in Store : t # "rules" => file'[t] = outcomes'[t]
          BY <2>5, <4>6, <5>2, <5>3 DEF Exact, Store, Counted
        <5> QED BY <2>5, <3>2, <4>2, <5>1, <5>3, <5>4 DEF Exact, Store
      <4> QED BY <2>5, <4>2, <4>8, <4>9 DEF PassesBounded
    <3> QED BY <3>1, <3>2
  <2>7. \A v \in Worker : CallOK(v)'
    <3> TAKE v \in Worker
    <3>1. CASE v = w
      <4>1. call'[w] = [call[w] EXCEPT !.at = "replaced"] BY <2>4, <2>5
      <4>2. call'[w].op = op /\ call'[w].at = "replaced" /\ "at" \in DOMAIN call'[w]
        BY <2>1, <4>1 DEF CallOK
      <4> QED BY <2>2, <2>4, <3>1, <4>2 DEF CallOK
    <3>2. CASE v # w
      <4>1. call'[v] = call[v] /\ CallOK(v) BY <2>4, <2>5, <3>2 DEF Inv
      <4>2. CASE call[v].at = "loaded"
        <5>1. call[v].op.store # s /\ call[v].op.store \in Store
          BY <2>2, <3>2, <4>1, <4>2, OpsShape DEF CallOK
        <5>2. file'[call[v].op.store] = file[call[v].op.store] BY <2>3, <2>5, <5>1 DEF Exact
        <5> QED BY <2>4, <4>1, <4>2, <5>2 DEF CallOK, Refused
      <4>3. CASE call[v].at # "loaded"
        BY <2>4, <4>1, <4>3 DEF CallOK
      <4> QED BY <4>2, <4>3
    <3> QED BY <3>1, <3>2
  <2>8. DOMAIN call' = Worker /\ holder' \in [Store -> Worker \cup {NoWorker}]
    BY <2>4, <2>5 DEF Inv
  <2> QED BY <2>6, <2>7, <2>8 DEF Inv
<1>6. ASSUME NEW w \in Worker, Answer(w) \/ Fail(w) PROVE Inv'
  <2>1. CallOK(w) /\ DOMAIN call = Worker /\ call[w].at \in {"loaded", "replaced"}
    BY <1>6 DEF Inv, Answer, Fail, At
  <2>2. call[w].op \in Ops BY <2>1 DEF CallOK
  <2>3. UNCHANGED <<file, history>> /\ holder' = Free(w) BY <1>6 DEF Answer, Fail
  <2>4. /\ holder' \in [Store -> Worker \cup {NoWorker}]
        /\ \A t \in Store : holder[t] \notin {w, NoWorker} => holder'[t] = holder[t]
    BY <2>3 DEF Inv, Free
  <2>5. \/ call' = [call EXCEPT ![w] = Idle]
        \/ call' = [call EXCEPT ![w] = [at |-> "judged", op |-> @.op, began |-> @.began,
                                        verdict |-> "consistent", ascension |-> TRUE]]
        \/ call' = [call EXCEPT ![w] = [at |-> "gated", op |-> @.op, began |-> @.began]]
    <3>1. CASE Answer(w) /\ call[w].op.kind = "review" BY <2>1, <3>1 DEF Answer
    <3>2. CASE Answer(w) /\ call[w].op.kind # "review" BY <2>1, <3>2 DEF Answer
    <3>3. CASE Fail(w) /\ call[w].op.kind = "review" BY <2>1, <3>3 DEF Fail
    <3>4. CASE Fail(w) /\ call[w].op.kind # "review" BY <2>1, <3>4 DEF Fail
    <3> QED BY <1>6, <3>1, <3>2, <3>3, <3>4
  <2>6. DOMAIN call' = Worker /\ CallOK(w)' BY <2>1, <2>2, <2>5 DEF CallOK, Idle
  <2>7. ASSUME NEW v \in Worker, v # w PROVE CallOK(v)'
    <3>1. call'[v] = call[v] BY <2>1, <2>5, <2>7
    <3> QED BY <2>3, <2>4, <2>7, <3>1, OthersKeep
  <2> QED BY <2>3, <2>4, <2>6, <2>7, NothingCommitted
<1>7. ASSUME NEW w \in Worker, Judge(w) \/ LogDecision(w) PROVE Inv'
  <2>1. CallOK(w) /\ DOMAIN call = Worker /\ call[w].at \in {"gated", "judged"}
    BY <1>7 DEF Inv, Judge, LogDecision, At
  <2>2. call[w].op \in Ops BY <2>1 DEF CallOK
  <2>3. UNCHANGED <<file, holder, history>> BY <1>7 DEF Judge, LogDecision
  <2>4. DOMAIN call' = Worker /\ CallOK(w)'
    BY <1>7, <2>1, <2>2 DEF Judge, LogDecision, CallOK, Idle
  <2>5. ASSUME NEW v \in Worker, v # w PROVE CallOK(v)'
    <3>1. call'[v] = call[v] BY <1>7, <2>1, <2>5 DEF Judge, LogDecision
    <3> QED BY <2>3, <2>5, <3>1, OthersKeep
  <2> QED BY <2>3, <2>4, <2>5, NothingCommitted DEF Inv
<1>8. ASSUME NEW p \in Process, WindowMoves(p) PROVE Inv'
  <2>1. UNCHANGED <<file, holder, call, history>> BY <1>8 DEF WindowMoves
  <2>2. \A v \in Worker : CallOK(v)' BY <2>1 DEF Inv, CallOK, Refused
  <2> QED BY <2>1, <2>2, NothingCommitted DEF Inv
<1>9. ASSUME NEW p \in Process, Kill(p) PROVE Inv'
  <2> DEFINE dead == {w \in Worker : Home[w] = p}
  <2>1. /\ holder' = [s \in Store |-> IF holder[s] \in dead THEN NoWorker ELSE holder[s]]
        /\ call' = [w \in Worker |-> IF w \in dead THEN Idle ELSE call[w]]
        /\ UNCHANGED <<file, history>>
    BY <1>9 DEF Kill
  <2>2. holder' \in [Store -> Worker \cup {NoWorker}] BY <2>1 DEF Inv
  <2>3. ASSUME NEW v \in Worker PROVE CallOK(v)'
    <3>1. CASE v \in dead BY <2>1, <3>1 DEF CallOK, Idle
    <3>2. CASE v \notin dead
      <4>1. call'[v] = call[v] /\ CallOK(v) BY <2>1, <3>2 DEF Inv
      <4>2. call[v].at \in {"loaded", "replaced"} => holder'[call[v].op.store] = v
        BY <2>1, <3>2, <4>1, OpsShape DEF CallOK
      <4> QED BY <2>1, <4>1, <4>2 DEF CallOK, Refused
    <3> QED BY <3>1, <3>2
  <2> QED BY <2>1, <2>2, <2>3, NothingCommitted
<1>10. CASE UNCHANGED vars
  <2>1. UNCHANGED <<file, holder, call, history>> BY <1>10 DEF vars, history
  <2>2. \A v \in Worker : CallOK(v)' BY <2>1 DEF Inv, CallOK, Refused
  <2> QED BY <2>1, <2>2, NothingCommitted DEF Inv
<1> QED
  BY <1>1, <1>2, <1>3, <1>4, <1>5, <1>6, <1>7, <1>8, <1>9, <1>10 DEF Next

LEMMA Always == Spec => []Inv
  BY Initially, KeepsInv, PTL DEF Spec

\* A rule on probation passes at most Cap times after the operator's last ratification, and
\* not at all after a revocation, with any number of workers and processes (is_sanctioned,
\* ratify_ascension and revoke_ascension of kry_referee.py).
THEOREM ProbationBounded == Spec => []PassesBounded
  <1>1. Inv => PassesBounded
    BY DEF Inv
  <1> QED BY <1>1, Always, PTL

\* No operator decision, reputation outcome or holdout observation that was written is lost to
\* another worker's write, and none comes back.
THEOREM StoresKeepOutcomes == Spec => []StoresExact
  <1>1. Inv => StoresExact
    BY DEF Inv, StoresExact, Exact, HistoryTyped, Store, Counted
  <1> QED BY <1>1, Always, PTL

-----------------------------------------------------------------------------
(* The window of decisions *)

Key == UNION {Keys[s] : s \in Store}
Verdict == {"quarantine", "consistent"}
Decision == [key : Key, outcome : Outcome]
Review == [key : Key, outcome : Outcome, verdict : Verdict, ascension : BOOLEAN, began : Nat]

\* The window holds the last decisions that were logged.
Follows(window, past) ==
  /\ Len(window) = IF Len(past) < Window THEN Len(past) ELSE Window
  /\ \A i \in 1..Len(window) :
       /\ window[i].key = past[Len(past) - Len(window) + i].key
       /\ window[i].outcome = past[Len(past) - Len(window) + i].outcome

\* A review called consistent on the window contradicts none of those before it
\* that the window holds still when it is logged.
Agrees(c, past) ==
  \A i \in 1..c.began :
    Len(past) - i < Window => ~(past[i].key = c.op.key /\ past[i].outcome # c.op.outcome)

Knows(c, past) ==
  c.at # "idle" =>
    /\ c.began \in 0..Len(past)
    /\ c.at = "judged" => /\ c.verdict \in Verdict /\ c.ascension \in BOOLEAN
                          /\ c.verdict = "quarantine" \/ c.ascension \/ Agrees(c, past)

\* DriftFlagged of one process, and that a review is logged after it began.
Flagged(past) ==
  \A j \in DOMAIN past :
    /\ past[j].began < j
    /\ \A i \in DOMAIN past :
         /\ past[i].key = past[j].key /\ past[i].outcome # past[j].outcome
         /\ i <= past[j].began /\ j - i <= Window
         => past[j].verdict # "consistent" \/ past[j].ascension

Logged ==
  /\ reviews \in [Process -> Seq(Review)] /\ recent \in [Process -> Seq(Decision)]
  /\ \A p \in Process : Follows(recent[p], reviews[p]) /\ Flagged(reviews[p])
  /\ \A w \in Worker : Knows(call[w], reviews[Home[w]])

LEMMA OpsTyped ==
  ASSUME NEW op \in Ops
  PROVE  op.key \in Key /\ op.outcome \in Outcome
  BY DEF Ops, Key

LEMMA NothingLogged == Follows(<< >>, << >>) /\ Flagged(<< >>)
  <1>1. Len(<< >>) = 0
    OBVIOUS
  <1>2. 0 = IF 0 < Window THEN 0 ELSE Window
    BY PolicyAssumption
  <1>3. Follows(<< >>, << >>)
    BY <1>1, <1>2 DEF Follows
  <1>4. Flagged(<< >>)
    BY DEF Flagged
  <1> QED BY <1>3, <1>4

LEMMA LoggedInit == Init => Logged
  <1> SUFFICES ASSUME Init PROVE Logged
    OBVIOUS
  <1>1. /\ reviews = [p \in Process |-> << >>] /\ recent = [p \in Process |-> << >>]
        /\ call = [w \in Worker |-> Idle]
    BY DEF Init
  <1>2. reviews \in [Process -> Seq(Review)] /\ recent \in [Process -> Seq(Decision)]
    BY <1>1
  <1>3. \A w \in Worker : Knows(call[w], reviews[Home[w]])
    BY <1>1 DEF Knows, Idle
  <1> QED BY <1>1, <1>2, <1>3, NothingLogged DEF Logged

\* A call goes on and nothing is logged.
LEMMA CallGoesOn ==
  ASSUME Logged, UNCHANGED <<reviews, recent>>, NEW w \in Worker,
         \A v \in Worker : v # w => call'[v] = call[v],
         Knows(call'[w], reviews[Home[w]])
  PROVE  Logged'
  <1>1. \A v \in Worker : Knows(call'[v], reviews[Home[v]])
    BY DEF Logged
  <1> QED BY <1>1 DEF Logged

\* What a call knows of when it began stays with it.
LEMMA BeganStays ==
  ASSUME Logged, UNCHANGED reviews, NEW w \in Worker, call[w].at # "idle",
         call'[w].began = call[w].began, call'[w].at # "judged"
  PROVE  Knows(call'[w], reviews[Home[w]])
  BY DEF Logged, Knows

\* The window is searched under no lock; what was logged before is in it.
LEMMA JudgeLogs ==
  ASSUME Inv, Logged, NEW w \in Worker, Judge(w)
  PROVE  Logged'
  <1> DEFINE c == [at |-> "judged", op |-> call[w].op, began |-> call[w].began,
                   verdict |-> IF Conflicts(w) THEN "quarantine" ELSE "consistent",
                   ascension |-> FALSE]
  <1>1. /\ UNCHANGED <<reviews, recent>> /\ call[w].at = "gated"
        /\ call' = [call EXCEPT ![w] = c]
    BY DEF Judge, At, referee
  <1>2. /\ c.at = "judged" /\ c.op = call[w].op /\ c.began = call[w].began
        /\ c.verdict = IF Conflicts(w) THEN "quarantine" ELSE "consistent"
        /\ c.ascension = FALSE
    OBVIOUS
  <1> HIDE DEF c
  <1>3. call'[w] = c /\ \A v \in Worker : v # w => call'[v] = call[v]
    BY <1>1 DEF Inv
  <1>4. PICK p \in Process : p = Home[w]
    BY PolicyAssumption
  <1>5. PICK past \in Seq(Review), window \in Seq(Decision) :
          past = reviews[p] /\ window = recent[p]
    BY DEF Logged
  <1>6. call[w].began \in 0..Len(past)
    BY <1>1, <1>4, <1>5 DEF Logged, Knows
  <1>7. ASSUME ~Conflicts(w), NEW i \in 1..call[w].began, Len(past) - i < Window,
               past[i].key = call[w].op.key, past[i].outcome # call[w].op.outcome
        PROVE  FALSE
    <2>1. PICK n \in Nat, m \in Nat :
            n = Len(past) /\ m = Len(window) /\ DOMAIN window = 1..m /\ Window \in Nat
      BY LenProperties, PolicyAssumption
    <2>2. /\ m = IF n < Window THEN n ELSE Window
          /\ \A j \in 1..m : /\ window[j].key = past[n - m + j].key
                             /\ window[j].outcome = past[n - m + j].outcome
      BY <1>5, <2>1 DEF Logged, Follows
    <2>3. i \in 1..n /\ n - i < Window
      BY <1>6, <1>7, <2>1
    <2>4. PICK k \in 1..m : n - m + k = i
      <3>1. i - (n - m) \in 1..m
        BY <2>1, <2>2, <2>3
      <3>2. n - m + (i - (n - m)) = i
        BY <2>1, <2>3
      <3> QED BY <3>1, <3>2
    <2>5. window[k].key = past[i].key /\ window[k].outcome = past[i].outcome
      BY <2>2, <2>4
    <2>6. k \in DOMAIN recent[Home[w]] /\ recent[Home[w]][k] = window[k]
      BY <1>4, <1>5, <2>1, <2>4
    <2> QED BY <1>7, <2>5, <2>6 DEF Conflicts, Now
  <1>8. Knows(c, past)
    <2>1. c.verdict \in Verdict /\ (c.verdict = "consistent" => ~Conflicts(w))
      BY <1>2 DEF Verdict
    <2>2. c.verdict = "quarantine" \/ Agrees(c, past)
      BY <1>2, <1>7, <2>1 DEF Agrees
    <2> QED BY <1>2, <1>6, <2>1, <2>2 DEF Knows
  <1> QED BY <1>1, <1>3, <1>4, <1>5, <1>8, CallGoesOn

\* A full window loses its oldest decision, as what it remembers moves on.
LEMMA KeptFollows ==
  ASSUME NEW past \in Seq(Review), NEW window \in Seq(Decision), Follows(window, past),
         NEW r \in Review, NEW d \in Decision, d.key = r.key, d.outcome = r.outcome
  PROVE  /\ Kept(Append(window, d)) \in Seq(Decision)
         /\ Follows(Kept(Append(window, d)), Append(past, r))
  <1>1. PICK n \in Nat, m \in Nat : n = Len(past) /\ m = Len(window) /\ Window \in Nat
    BY LenProperties, PolicyAssumption
  <1>2. PICK more \in Seq(Review) : more = Append(past, r)
    BY AppendProperties
  <1>3. Len(more) = n + 1 /\ more[n + 1] = r /\ \A i \in 1..n : more[i] = past[i]
    BY <1>1, <1>2, AppendProperties
  <1>4. PICK wide \in Seq(Decision) : wide = Append(window, d)
    BY AppendProperties
  <1>5. Len(wide) = m + 1 /\ wide[m + 1] = d /\ \A i \in 1..m : wide[i] = window[i]
    BY <1>1, <1>4, AppendProperties
  <1>6. /\ m = IF n < Window THEN n ELSE Window
        /\ \A i \in 1..m : /\ window[i].key = past[n - m + i].key
                           /\ window[i].outcome = past[n - m + i].outcome
    BY <1>1 DEF Follows
  <1>7. ASSUME NEW i \in 1..(m + 1)
        PROVE  wide[i].key = more[n - m + i].key /\ wide[i].outcome = more[n - m + i].outcome
    <2>1. CASE i = m + 1
      <3>1. n - m + i = n + 1
        BY <1>1, <2>1
      <3> QED BY <1>3, <1>5, <2>1, <3>1
    <2>2. CASE i # m + 1
      <3>1. i \in 1..m /\ n - m + i \in 1..n
        BY <1>1, <1>6, <2>2
      <3> QED BY <1>3, <1>5, <1>6, <3>1
    <2> QED BY <2>1, <2>2
  <1>8. CASE m + 1 > Window
    <2>1. wide # << >> /\ Kept(wide) = Tail(wide)
      BY <1>1, <1>5, <1>8 DEF Kept
    <2>2. PICK kept \in Seq(Decision) : kept = Tail(wide)
      BY <2>1, HeadTailProperties
    <2>3. Len(kept) = m /\ \A i \in 1..m : kept[i] = wide[i + 1]
      BY <1>1, <1>5, <2>1, <2>2, HeadTailProperties
    <2>4. m = IF n + 1 < Window THEN n + 1 ELSE Window
      BY <1>1, <1>6, <1>8
    <2>5. ASSUME NEW i \in 1..m
          PROVE  /\ kept[i].key = more[(n + 1) - m + i].key
                 /\ kept[i].outcome = more[(n + 1) - m + i].outcome
      <3>1. i + 1 \in 1..(m + 1) /\ (n + 1) - m + i = n - m + (i + 1)
        BY <1>1
      <3> QED BY <1>7, <2>3, <3>1
    <2>6. Follows(kept, more)
      BY <1>3, <2>3, <2>4, <2>5 DEF Follows
    <2> QED BY <1>2, <1>4, <2>1, <2>2, <2>6
  <1>9. CASE ~(m + 1 > Window)
    <2>1. Kept(wide) = wide
      BY <1>1, <1>5, <1>9 DEF Kept
    <2>2. m + 1 = IF n + 1 < Window THEN n + 1 ELSE Window
      BY <1>1, <1>6, <1>9
    <2>3. ASSUME NEW i \in 1..(m + 1)
          PROVE  /\ wide[i].key = more[(n + 1) - (m + 1) + i].key
                 /\ wide[i].outcome = more[(n + 1) - (m + 1) + i].outcome
      <3>1. (n + 1) - (m + 1) + i = n - m + i
        BY <1>1
      <3> QED BY <1>7, <3>1
    <2>4. Follows(wide, more)
      BY <1>3, <1>5, <2>2, <2>3 DEF Follows
    <2> QED BY <1>2, <1>4, <2>1, <2>4
  <1> QED BY <1>8, <1>9

\* What a review agrees with it agrees with when more is logged.
LEMMA StillKnows ==
  ASSUME NEW past \in Seq(Review), NEW r \in Review, NEW c, Knows(c, past)
  PROVE  Knows(c, Append(past, r))
  <1>1. PICK n \in Nat : n = Len(past) /\ Window \in Nat
    BY LenProperties, PolicyAssumption
  <1>2. PICK more : more = Append(past, r)
    OBVIOUS
  <1>3. Len(more) = n + 1 /\ \A i \in 1..n : more[i] = past[i]
    BY <1>1, <1>2, AppendProperties
  <1>4. c.at # "idle" => c.began \in 0..n /\ c.began \in 0..Len(more)
    BY <1>1, <1>3 DEF Knows
  <1>5. ASSUME c.began \in 0..n, Agrees(c, past) PROVE Agrees(c, more)
    <2> SUFFICES ASSUME NEW i \in 1..c.began, (n + 1) - i < Window
                 PROVE  ~(more[i].key = c.op.key /\ more[i].outcome # c.op.outcome)
      BY <1>3 DEF Agrees
    <2>1. i \in 1..n /\ n - i < Window
      BY <1>1, <1>5
    <2> QED BY <1>1, <1>3, <1>5, <2>1 DEF Agrees
  <1> QED BY <1>2, <1>4, <1>5 DEF Knows

\* The review of a call that knows what came before it.
LEMMA OneMoreFlagged ==
  ASSUME NEW past \in Seq(Review), Flagged(past), NEW c, Knows(c, past), c.at = "judged",
         NEW r \in Review, r.key = c.op.key, r.outcome = c.op.outcome,
         r.verdict = c.verdict, r.ascension = c.ascension, r.began = c.began
  PROVE  Flagged(Append(past, r))
  <1>1. PICK n \in Nat : n = Len(past) /\ Window \in Nat
    BY LenProperties, PolicyAssumption
  <1>2. PICK more \in Seq(Review) : more = Append(past, r)
    BY AppendProperties
  <1>3. /\ DOMAIN past = 1..n /\ DOMAIN more = 1..(n + 1)
        /\ more[n + 1] = r /\ \A i \in 1..n : more[i] = past[i]
    BY <1>1, <1>2, AppendProperties, LenProperties
  <1>4. r.began \in 0..n
    BY <1>1 DEF Knows
  <1>5. ASSUME NEW j \in 1..(n + 1)
        PROVE  more[j].began < j /\ more[j].began \in Nat
    <2>1. CASE j = n + 1
      BY <1>1, <1>3, <1>4, <2>1
    <2>2. CASE j # n + 1
      <3>1. j \in 1..n
        BY <1>1, <2>2
      <3>2. past[j] \in Review
        BY <1>3, <3>1, ElementOfSeq
      <3> QED BY <1>3, <3>1, <3>2 DEF Flagged, Review
    <2> QED BY <2>1, <2>2
  <1>6. ASSUME NEW j \in 1..(n + 1), NEW i \in 1..(n + 1),
               more[i].key = more[j].key, more[i].outcome # more[j].outcome,
               i <= more[j].began, j - i <= Window
        PROVE  more[j].verdict # "consistent" \/ more[j].ascension
    <2>1. i \in 1..n /\ more[i] = past[i]
      <3>1. i \in 1..n
        BY <1>1, <1>5, <1>6
      <3> QED BY <1>3, <3>1
    <2>2. CASE j = n + 1
      <3>1. more[j] = r
        BY <1>3, <2>2
      <3>2. i \in 1..c.began /\ n - i < Window
        BY <1>1, <1>4, <1>6, <2>1, <2>2, <3>1
      <3>3. ~Agrees(c, past)
        BY <1>1, <1>6, <2>1, <3>1, <3>2 DEF Agrees
      <3> QED BY <3>1, <3>3 DEF Knows
    <2>3. CASE j # n + 1
      <3>1. j \in 1..n
        BY <1>1, <2>3
      <3>2. more[j] = past[j]
        BY <1>3, <3>1
      <3> QED BY <1>3, <1>6, <2>1, <3>1, <3>2 DEF Flagged
    <2> QED BY <2>2, <2>3
  <1> QED BY <1>2, <1>3, <1>5, <1>6 DEF Flagged

\* A decision is logged: it contradicts none it should have been flagged for.
LEMMA DecisionLogs ==
  ASSUME Inv, Logged, NEW w \in Worker, LogDecision(w)
  PROVE  Logged'
  <1> DEFINE d == [key |-> call[w].op.key, outcome |-> call[w].op.outcome]
             r == [key |-> call[w].op.key, outcome |-> call[w].op.outcome,
                   verdict |-> call[w].verdict, ascension |-> call[w].ascension,
                   began |-> call[w].began]
  <1>1. PICK p \in Process : p = Home[w]
    BY PolicyAssumption
  <1>2. PICK past \in Seq(Review), window \in Seq(Decision) :
          past = reviews[p] /\ window = recent[p]
    BY DEF Logged
  <1>3. /\ call[w].at = "judged" /\ call' = [call EXCEPT ![w] = Idle]
        /\ recent' = [recent EXCEPT ![p] = Kept(Append(window, d))]
        /\ reviews' = [reviews EXCEPT ![p] = Append(past, r)]
    BY <1>1, <1>2 DEF LogDecision, At, Now
  <1>4. Knows(call[w], past) /\ call[w].op \in Ops /\ Len(past) \in Nat
    BY <1>1, <1>2, <1>3, LenProperties DEF Inv, CallOK, Logged
  <1>5. /\ r \in Review /\ d \in Decision /\ d.key = r.key /\ d.outcome = r.outcome
        /\ r.key = call[w].op.key /\ r.outcome = call[w].op.outcome
        /\ r.verdict = call[w].verdict /\ r.ascension = call[w].ascension
        /\ r.began = call[w].began
    BY <1>3, <1>4, OpsTyped DEF Review, Decision, Knows
  <1> HIDE DEF d, r
  <1>6. /\ Kept(Append(window, d)) \in Seq(Decision)
        /\ Follows(Kept(Append(window, d)), Append(past, r))
    BY <1>2, <1>5, KeptFollows DEF Logged
  <1>7. Append(past, r) \in Seq(Review) /\ Flagged(Append(past, r))
    BY <1>2, <1>3, <1>4, <1>5, OneMoreFlagged, AppendProperties DEF Logged
  <1>8. /\ reviews' \in [Process -> Seq(Review)] /\ recent' \in [Process -> Seq(Decision)]
        /\ reviews'[p] = Append(past, r) /\ recent'[p] = Kept(Append(window, d))
        /\ \A q \in Process : q # p => reviews'[q] = reviews[q] /\ recent'[q] = recent[q]
    BY <1>3, <1>6, <1>7 DEF Logged
  <1>9. \A q \in Process : Follows(recent'[q], reviews'[q]) /\ Flagged(reviews'[q])
    BY <1>6, <1>7, <1>8 DEF Logged
  <1>10. ASSUME NEW v \in Worker PROVE Knows(call'[v], reviews'[Home[v]])
    <2>1. CASE v = w
      <3>1. call'[v] = Idle
        BY <1>3, <2>1 DEF Inv
      <3> QED BY <3>1 DEF Knows, Idle
    <2>2. CASE v # w
      <3>1. call'[v] = call[v] /\ Knows(call[v], reviews[Home[v]]) /\ Home[v] \in Process
        BY <1>3, <2>2, PolicyAssumption DEF Inv, Logged
      <3>2. CASE Home[v] = p
        BY <1>2, <1>5, <1>8, <3>1, <3>2, StillKnows
      <3>3. CASE Home[v] # p
        BY <1>8, <3>1, <3>3
      <3> QED BY <3>2, <3>3
    <2> QED BY <2>1, <2>2
  <1> QED BY <1>8, <1>9, <1>10 DEF Logged

\* A process that dies forgets, and so do its workers.
LEMMA KillLogs ==
  ASSUME Inv, Logged, NEW p \in Process, Kill(p)
  PROVE  Logged'
  <1>1. /\ recent' = [recent EXCEPT ![p] = << >>] /\ reviews' = [reviews EXCEPT ![p] = << >>]
        /\ call' = [w \in Worker |-> IF w \in {v \in Worker : Home[v] = p} THEN Idle ELSE call[w]]
    BY DEF Kill
  <1>2. /\ reviews' \in [Process -> Seq(Review)] /\ recent' \in [Process -> Seq(Decision)]
        /\ reviews'[p] = << >> /\ recent'[p] = << >>
        /\ \A q \in Process : q # p => reviews'[q] = reviews[q] /\ recent'[q] = recent[q]
    BY <1>1 DEF Logged
  <1>3. \A q \in Process : Follows(recent'[q], reviews'[q]) /\ Flagged(reviews'[q])
    BY <1>2, NothingLogged DEF Logged
  <1>4. ASSUME NEW v \in Worker PROVE Knows(call'[v], reviews'[Home[v]])
    <2>1. CASE Home[v] = p
      BY <1>1, <2>1 DEF Knows, Idle
    <2>2. CASE Home[v] # p
      <3>1. call'[v] = call[v] /\ reviews'[Home[v]] = reviews[Home[v]]
            /\ Knows(call[v], reviews[Home[v]])
        BY <1>1, <1>2, <2>2, PolicyAssumption DEF Logged
      <3> QED BY <3>1
    <2> QED BY <2>1, <2>2
  <1> QED BY <1>2, <1>3, <1>4 DEF Logged

LEMMA LoggedStep == Inv /\ Logged /\ [Next]_vars => Logged'
  <1> SUFFICES ASSUME Inv, Logged, [Next]_vars PROVE Logged'
    OBVIOUS
  <1>0. DOMAIN call = Worker /\ \A w \in Worker : CallOK(w)
    BY DEF Inv
  <1>1. ASSUME NEW w \in Worker, NEW op \in Ops, Call(w, op) PROVE Logged'
    <2>1. /\ UNCHANGED <<reviews, recent>>
          /\ call'[w] = [at |-> "called", op |-> op, began |-> Len(reviews[Home[w]])]
          /\ \A v \in Worker : v # w => call'[v] = call[v]
      BY <1>0, <1>1 DEF Call, referee
    <2>2. Len(reviews[Home[w]]) \in Nat
      BY PolicyAssumption, LenProperties DEF Logged
    <2>3. Knows(call'[w], reviews[Home[w]])
      BY <2>1, <2>2 DEF Knows
    <2> QED BY <2>1, <2>3, CallGoesOn
  <1>2. ASSUME NEW w \in Worker,
               UNCHANGED <<reviews, recent>>, call[w].at # "idle",
               \A v \in Worker : v # w => call'[v] = call[v],
               call'[w].at # "judged", call'[w].at = "idle" \/ call'[w].began = call[w].began
        PROVE  Logged'
    <2>1. Knows(call'[w], reviews[Home[w]])
      BY <1>2, BeganStays DEF Knows
    <2> QED BY <1>2, <2>1, CallGoesOn
  <1>3. ASSUME NEW w \in Worker, Load(w) PROVE Logged'
    <2>1. /\ UNCHANGED <<reviews, recent>> /\ call[w].at = "called"
          /\ call' = [call EXCEPT ![w] = [at |-> "loaded", op |-> call[w].op, began |-> call[w].began,
                                          seen |-> file[call[w].op.store]]]
      BY <1>3 DEF Load, At, referee
    <2>2. /\ call'[w].at = "loaded" /\ call'[w].began = call[w].began
          /\ \A v \in Worker : v # w => call'[v] = call[v]
      BY <1>0, <2>1
    <2> QED BY <1>2, <2>1, <2>2
  <1>4. ASSUME NEW w \in Worker, Refuse(w) \/ Replace(w) PROVE Logged'
    <2>1. /\ UNCHANGED <<reviews, recent>> /\ call[w].at \in {"called", "loaded"}
          /\ \/ call' = [call EXCEPT ![w] = Idle]
             \/ \E s \in {"gated", "replaced"} :
                  call' = [call EXCEPT ![w] = [call[w] EXCEPT !.at = s]]
      <3>1. CASE Refuse(w) /\ call[w].op.kind = "review"
        BY <1>0, <3>1 DEF Refuse, At, referee
      <3>2. CASE Refuse(w) /\ call[w].op.kind # "review"
        BY <1>0, <3>2 DEF Refuse, At, referee
      <3>3. CASE Replace(w)
        BY <1>0, <3>3 DEF Replace, At, referee
      <3> QED BY <1>4, <3>1, <3>2, <3>3
    <2>2. \A v \in Worker : v # w => call'[v] = call[v]
      BY <1>0, <2>1
    <2>3. CASE call' = [call EXCEPT ![w] = Idle]
      <3>1. call'[w].at = "idle"
        BY <1>0, <2>3 DEF Idle
      <3> QED BY <1>2, <2>1, <2>2, <3>1
    <2>4. ASSUME NEW s \in {"gated", "replaced"},
                 call' = [call EXCEPT ![w] = [call[w] EXCEPT !.at = s]]
          PROVE  Logged'
      <3>1. call'[w] = [call[w] EXCEPT !.at = s] /\ "at" \in DOMAIN call[w]
        BY <1>0, <2>4 DEF CallOK
      <3>2. call'[w].began = call[w].began
        BY <3>1
      <3>3. call'[w].at = s
        BY <3>1
      <3> QED BY <1>2, <2>1, <2>2, <3>2, <3>3
    <2> QED BY <2>1, <2>3, <2>4
  <1>5. ASSUME NEW w \in Worker, Answer(w) \/ Fail(w) PROVE Logged'
    <2>1. UNCHANGED <<reviews, recent>> /\ call[w].at \in {"loaded", "replaced"}
      BY <1>5 DEF Answer, Fail, At, referee
    <2>2. \/ call' = [call EXCEPT ![w] = Idle]
          \/ call' = [call EXCEPT ![w] = [at |-> "judged", op |-> call[w].op,
                                          began |-> call[w].began, verdict |-> "consistent",
                                          ascension |-> TRUE]]
          \/ call' = [call EXCEPT ![w] = [at |-> "gated", op |-> call[w].op,
                                          began |-> call[w].began]]
      <3>1. CASE Answer(w) /\ call[w].op.kind = "review" BY <1>0, <3>1 DEF Answer
      <3>2. CASE Answer(w) /\ call[w].op.kind # "review" BY <1>0, <3>2 DEF Answer
      <3>3. CASE Fail(w) /\ call[w].op.kind = "review" BY <1>0, <3>3 DEF Fail
      <3>4. CASE Fail(w) /\ call[w].op.kind # "review" BY <1>0, <3>4 DEF Fail
      <3> QED BY <1>5, <3>1, <3>2, <3>3, <3>4
    <2>3. \A v \in Worker : v # w => call'[v] = call[v]
      BY <1>0, <2>2
    <2>4. \/ call'[w].at = "idle"
          \/ /\ call'[w].began = call[w].began
             /\ \/ call'[w].at = "gated"
                \/ /\ call'[w].at = "judged" /\ call'[w].verdict = "consistent"
                   /\ call'[w].ascension = TRUE
      BY <1>0, <2>2 DEF Idle
    <2>5. CASE call'[w].at = "judged"
      <3>1. Knows(call'[w], reviews[Home[w]])
        BY <2>1, <2>4, <2>5 DEF Logged, Knows, Verdict
      <3> QED BY <2>1, <2>3, <3>1, CallGoesOn
    <2> QED BY <1>2, <2>1, <2>3, <2>4, <2>5
  <1>6. ASSUME UNCHANGED <<reviews, recent, call>> PROVE Logged'
    BY <1>6 DEF Logged
  <1>7. ASSUME NEW w \in Worker, NEW r \in Rule, Escalate(w, r) PROVE Logged'
    BY <1>6, <1>7 DEF Escalate
  <1>8. ASSUME NEW p \in Process, WindowMoves(p) PROVE Logged'
    BY <1>6, <1>8 DEF WindowMoves
  <1>9. CASE UNCHANGED vars
    BY <1>6, <1>9 DEF vars
  <1> QED BY <1>1, <1>3, <1>4, <1>5, <1>7, <1>8, <1>9, JudgeLogs, DecisionLogs, KillLogs DEF Next

\* Of two opposite decisions of one rule in one process the later is not
\* called consistent, unless it spent a pass of the operator's ratification and
\* says so, their reviews overlapped or the window has moved on in between (the
\* memory of kry_referee.py, which no lock protects).
THEOREM NoDriftUnflagged == Spec => []DriftFlagged
  <1>1. Logged => DriftFlagged
    BY DEF Logged, Flagged, DriftFlagged
  <1> QED BY <1>1, Initially, KeepsInv, LoggedInit, LoggedStep, PTL DEF Spec
=============================================================================
