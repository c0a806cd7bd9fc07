--------------------------- MODULE LedgerService ---------------------------
(***************************************************************************)
(* What the ledger of kry_token.py promises the callers of earn, spend,    *)
(* debit_kry and ledger_operation, with no processes, locks or files.      *)
(*                                                                         *)
(* `cur' is the account a reader would see, `stable' the account a power   *)
(* failure leaves.  Writes happen one at a time, each decided on a stable  *)
(* account; a write may be undone until it is stable, and a caller of a    *)
(* keyed debit is only ever told a stable outcome.                         *)
(***************************************************************************)
EXTENDS Integers

CONSTANTS Op, Amount, Opening, NoOutcome

VARIABLES cur, stable, told

serviceVars == <<cur, stable, told>>

Lesser(x, y) == IF x <= y THEN x ELSE y

Record(bal, earned, spent, ops) ==
  [bal |-> bal, earned |-> earned, spent |-> spent, ops |-> ops]

FirstRecord == Record(Opening, Opening, 0, [o \in Op |-> NoOutcome])

ServiceInit ==
  /\ cur = FirstRecord
  /\ stable = FirstRecord
  /\ told = [o \in Op |-> NoOutcome]

\* A write is decided on an account that no failure can take back.
Write(record) == cur = stable /\ cur' = record /\ UNCHANGED <<stable, told>>

Credit(n) == Write(Record(cur.bal + n, cur.earned + n, cur.spent, cur.ops))

Debit(n) ==
  LET paid == Lesser(n, cur.bal)
  IN  Write(Record(cur.bal - paid, cur.earned, cur.spent + paid, cur.ops))

DebitOnce(o, n) ==
  LET paid == Lesser(n, cur.bal)
  IN  /\ cur.ops[o] = NoOutcome
      /\ Write(Record(cur.bal - paid, cur.earned, cur.spent + paid,
                      [cur.ops EXCEPT ![o] = [asked |-> n, paid |-> paid]]))

Stabilise == stable' = cur /\ UNCHANGED <<cur, told>>

Revert == cur' = stable /\ UNCHANGED <<stable, told>>

Tell(o) ==
  /\ stable.ops[o] # NoOutcome
  /\ told' = [told EXCEPT ![o] = stable.ops[o]]
  /\ UNCHANGED <<cur, stable>>

ServiceNext ==
  \/ \E n \in Amount : Credit(n) \/ Debit(n)
  \/ \E o \in Op, n \in Amount : DebitOnce(o, n)
  \/ Stabilise \/ Revert
  \/ \E o \in Op : Tell(o)

ServiceSpec == ServiceInit /\ [][ServiceNext]_serviceVars
=============================================================================
