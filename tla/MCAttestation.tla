--------------------------- MODULE MCAttestation ---------------------------
(***************************************************************************)
(* Small instances of Attestation for TLC.                                 *)
(***************************************************************************)
EXTENDS Attestation, TLC

CONSTANTS self, tlsn, tee

\* Bound: until somebody changes the files, rows of the present format have the highest price.
HighestPriceFirst ==
  changes = 0 =>
    \A i \in DOMAIN minted :
      minted[i].version = Current => minted[i].kry \in {0, Max(Multiplier)}

AttestersAlike == Permutations(Attested)
=============================================================================
