CONSTANTS
  o1 = o1
  o2 = o2
  Op = {o1, o2}
  NoOp = NoOp
  Absent = Absent
  Tombstone = Tombstone
  MaxAttempts = 2
  MaxUnkeyed = 2
  MaxFaults = 4
SPECIFICATION FairSpec
INVARIANTS
  AccountingExact
  OneOutcome
PROPERTIES
  Recovers
CHECK_DEADLOCK FALSE
