---------------------------- MODULE MCSettlement ----------------------------
(***************************************************************************)
(* Small instances of Settlement for TLC.                                  *)
(***************************************************************************)
EXTENDS Settlement, TLC

CONSTANTS p1, p2, t1, t2, a, b, o1, o2, g1, g2, g3

OneProcess == [t \in Thread |-> p1]
TwoProcesses == (t1 :> p1) @@ (t2 :> p2)

OnePayer == [o \in Offer |-> a]
Costs == [o \in Offer |-> 2]

\* A later start, reached from Init: the payer has settled g3, and its debit
\* moved one of the two it was asked for.
InitLater ==
  /\ reg = <<[party |-> a, amt |-> 1, gids |-> {g3}]>> /\ tail = "whole" /\ tip = reg
  /\ holder = NoThread
  /\ pending = [p \in Process |-> {}]
  /\ grants = [g \in Grant |->
       IF g = g3 THEN [offer |-> o1, ceiling |-> 3, held |-> NoProcess] ELSE Unissued]
  /\ seller = [p \in Process |-> Opened]
  /\ pc = [t \in Thread |-> "idle"]
  /\ job = [t \in Thread |-> NoJob]
  /\ moved = [g \in Grant |-> IF g = g3 THEN 1 ELSE 0]
  /\ stranded = [p \in Process |-> {}]

SpecLater == InitLater /\ [][Next]_vars /\ \A t \in Thread : WF_vars(Proceed(t))

\* Grants are alike, and so are two processes with a thread each.
HostsAlike ==
  Permutations(Grant)
    \cup {(t1 :> t2) @@ (t2 :> t1) @@ (p1 :> p2) @@ (p2 :> p1)}
=============================================================================
