SPECIFICATION Spec
CONSTANTS
  Deployments = {d1}
  Site = d1
  Clients = {c1, c2}
  MaxIterations = 1
  MaxRounds = 1
  MaxPosts = 2
  MaxRestarts = 1
  OrderlyDesk = FALSE
  LateEdits = TRUE
INVARIANTS TypeOK RoundCap StatusTracksStep GateAgreement FailedIsStopped
PROPERTIES EndedIsLeftByFailureOnly KeepsContract
SYMMETRY ClientSymmetry
CHECK_DEADLOCK FALSE
