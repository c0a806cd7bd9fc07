CONSTANTS
  p1 = p1
  p2 = p2
  t1 = t1
  t2 = t2
  a = a
  b = b
  o1 = o1
  o2 = o2
  g1 = g1
  g2 = g2
  g3 = g3
  Process = {p1}
  Thread = {t1, t2}
  Home <- OneProcess
  Party = {a}
  Offer = {o1, o2}
  Payer <- OnePayer
  Cost <- Costs
  Grant = {g1, g2, g3}
  Attested = {3}
  KeepRecent = 1
  NoThread = NoThread
  NoProcess = NoProcess
  NoOffer = NoOffer
  NoGrant = NoGrant
  NoCeiling = NoCeiling
SPECIFICATION SpecLater
INVARIANTS
  ReceiverExact
  ReservationsKept
PROPERTIES
  RegistryFreed
