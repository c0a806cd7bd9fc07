CONSTANTS
  p1 = p1
  p2 = p2
  t1 = t1
  t2 = t2
  a = a
  b = b
  o1 = o1
  o2 = o2
  g1 = g1
  g2 = g2
  g3 = g3
  Process = {p1, p2}
  Thread = {t1, t2}
  Home <- TwoProcesses
  Party = {a}
  Offer = {o1}
  Payer <- OnePayer
  Cost <- Costs
  Grant = {g1, g2, g3}
  Attested = {3}
  KeepRecent = 1
  NoThread = NoThread
  NoProcess = NoProcess
  NoOffer = NoOffer
  NoGrant = NoGrant
  NoCeiling = NoCeiling
SYMMETRY HostsAlike
VIEW SeenByHosts
SPECIFICATION SpecAnchored
INVARIANTS
  QuietAnchorHolds
  ObligationCovers
  WithinAttested
  CreditBacked
PROPERTIES
  DebitedOnce
