CONSTANTS
  p1 = p1
  p2 = p2
  o1 = o1
  t1 = t1
  t2 = t2
  i1 = i1
  i2 = i2
  Proc = {p1, p2}
  Op = {o1}
  Tx = {t1, t2}
  Incident = {i1, i2}
  Amount = {2}
  Opening = 1
  NoProc = NoProc
  NoOp = NoOp
  NoTx = NoTx
  NoIncident = NoIncident
  NoOutcome = NoOutcome
SYMMETRY Symmetric
SPECIFICATION Spec
INVARIANTS
  ToldIsDurable
  AnswersHold
  IncidentsRespected
  AccountsMatchEvents
PROPERTIES
  OutcomeIsForever
  KeepsPromise
