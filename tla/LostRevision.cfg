\* The code's two writer passes and a reviewer who asks for one revision.
SPECIFICATION Spec
CONSTANTS
  Deployments = {d1}
  Clients = {c1}
  MaxIterations = 2
  MaxRounds = 2
  MaxPosts = 2
  MaxRestarts = 0
  OrderlyDesk = TRUE
  LateEdits = FALSE
INVARIANT RevisionIsShown
CHECK_DEADLOCK FALSE
