CONSTANTS
  w1 = w1
  w2 = w2
  w3 = w3
  p1 = p1
  p2 = p2
  r1 = r1
  r2 = r2
  a1 = a1
  c1 = c1
  Worker = {w1, w2, w3}
  Process = {p1, p2}
  Home <- TwoProcesses
  Rule = {r1}
  Party = {a1}
  Class = {c1}
  Cap = 1
  Window = 2
  Budget = 1
  MaxLines = 2
  MaxCalls = 3
  MaxFaults = 1
  NoWorker = NoWorker
SYMMETRY Alike
SPECIFICATION Spec
INVARIANTS
  PassesBounded
  StoresExact
  DriftFlagged
CHECK_DEADLOCK FALSE
