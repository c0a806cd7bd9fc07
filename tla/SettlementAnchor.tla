-------------------------- MODULE SettlementAnchor --------------------------
(***************************************************************************)
(* The external anchor of the settlement registry: an operator exports the *)
(* settled totals, publishes them, and anybody holding them later checks a *)
(* registry against them.  Neither function takes the registry's locks.    *)
(***************************************************************************)
EXTENDS Settlement

VARIABLE anchor   \* the last published totals, as far as anything is claimed of them

Totals == [party \in Party |-> IF RegistryValid THEN Settled(reg, party) ELSE 0]
Nothing == [party \in Party |-> 0]

InitAnchored == Init /\ anchor = Nothing

\* export_registry_anchor; a registry that does not verify exports nothing.
\* Totals exported while a settlement or a compaction is under way may count
\* an obligation that is undone; nothing is claimed of those, and the model
\* forgets them.
ExportAnchor ==
  /\ anchor' = IF holder = NoThread THEN Totals ELSE Nothing
  /\ UNCHANGED vars

NextAnchored == (Next /\ UNCHANGED anchor) \/ ExportAnchor

SpecAnchored ==
  /\ InitAnchored
  /\ [][NextAnchored]_<<vars, anchor>>
  /\ \A t \in Thread : WF_vars(Proceed(t))

\* The parties the anchor names are those that had settled something.
Below == \E party \in Party : anchor[party] > 0 /\ Settled(reg, party) < anchor[party]

\* verify_registry_against_anchor on a registry that is itself valid.
Contradicted == RegistryValid /\ Below

\* verify_registry_anchor of the standalone verifier: it replays the entries of
\* any file it can parse, and knows no checkpoint.
StrangerContradicted == tail # "torn" /\ Below

\* An anchor exported while no settlement is under way is never contradicted,
\* for either verifier, by what the program does afterwards: settlements that
\* fail, pay less or are undone, compactions and kills.
QuietAnchorHolds == ~Contradicted /\ ~StrangerContradicted
=============================================================================
