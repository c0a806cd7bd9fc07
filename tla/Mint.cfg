CONSTANTS
  p1 = p1
  p2 = p2
  e1 = e1
  e2 = e2
  e3 = e3
  g1 = g1
  g2 = g2
  i1 = i1
  Process = {p1, p2}
  Call <- Calls
  Evidence = {e1, e2, e3}
  Gen = {g1, g2}
  Detail <- Details
  Full = 2
  Dust = 2
  MaxReceipts = 3
  MaxFaults = 2
  MaxSpent = 1
  Id = {i1}
  Deferred <- Deferral
  NoProcess = NoProcess
  NoCall = NoCall
  NoId = NoId
SYMMETRY ProcessesAlike
SPECIFICATION SpecPending
INVARIANTS
  CrashKeepsChain
  ReplayBounded
  CreditedOnce
  EarningsBacked
  MintedOnce
PROPERTIES
  DebitsNotForgotten
CHECK_DEADLOCK FALSE
