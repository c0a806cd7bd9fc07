------------------------- MODULE MCJournalActivation -------------------------
(* A small instance of JournalActivation for TLC. *)
EXTENDS JournalActivation, TLC

CONSTANTS o1, o2
=============================================================================
