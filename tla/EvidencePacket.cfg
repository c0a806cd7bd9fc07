CONSTANTS
  r1 = r1
  r2 = r2
  NoId = NoId
  BadId = BadId
  NoFile = NoFile
  Tolerance = 1
  v1 = v1
  v2 = v2
  v3 = v3
  Reviewer = {v1, v2, v3}
  Traffic <- Calls
  Exports <- Exported
  Configs <- Plans
  LastDay = 3
  Slips = 1
  Edits = 1
SYMMETRY ReviewersAlike
SPECIFICATION Spec
INVARIANTS
  ClaimEarned
  ClaimBacked
  SealedStands
  EditCaught
CHECK_DEADLOCK FALSE
