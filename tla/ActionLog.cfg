CONSTANTS
  p1 = p1
  p2 = p2
  t1 = t1
  Worker = {p1, p2}
  Tool = {t1}
  MaxRecords = 3
  MaxFaults = 2
  MaxAnchors = 1
  NoWorker = NoWorker
SYMMETRY Alike
SPECIFICATION ActionSpec
INVARIANTS
  BuiltVerifies
  HistoryKept
  TamperCaught
CHECK_DEADLOCK FALSE
