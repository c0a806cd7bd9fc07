CONSTANTS
  p1 = p1
  p2 = p2
  p3 = p3
  o1 = o1
  o2 = o2
  Process = {p1, p2, p3}
  Stealing = {p1, p2, p3}
  Offer = {o1, o2}
  Amount <- Amounts
  Ceiling = 2
  Ttl = 3
  Stale = 1
  Deadline = 2
  Prompt = TRUE
  MaxTime = 6
  MaxCrashes = 1
  NoProcess = NoProcess
  NoOffer = NoOffer
SPECIFICATION Spec
INVARIANTS
  ActiveWithinCeiling
CHECK_DEADLOCK FALSE
SYMMETRY ProcessesAlike
