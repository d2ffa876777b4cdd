SPECIFICATION FairSpec
CONSTANTS
  Deployments = {d1}
  Clients = {c1, c2}
  MaxIterations = 1
  MaxRounds = 1
  MaxPosts = 3
  MaxRestarts = 1
  OrderlyDesk = TRUE
  LateEdits = FALSE
INVARIANTS PublishedWasSeen ApproverOnRecord GateIsInOrder
PROPERTIES Settles
CHECK_DEADLOCK FALSE
