CONSTANTS
  self = self
  tlsn = tlsn
  tee = tee
  OldVersion = {3, 5}
  Tier = {self, tlsn, tee}
  SelfReported = self
  Attested = {tlsn, tee}
  Multiplier = {1, 2}
  MaxReceipts = 3
  MaxChanges = 1
SYMMETRY AttestersAlike
CONSTRAINT HighestPriceFirst
SPECIFICATION AttestationSpec
INVARIANTS
  SurfacesAgree
  VerifiersAgree
  HeadBindsAnchored
  AnchorPins
CHECK_DEADLOCK FALSE
