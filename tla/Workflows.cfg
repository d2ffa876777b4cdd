\* The bounds of the instances are set in MCWorkflows.
SPECIFICATION FairSpec
CONSTANTS
  Requests = {r1, r2}
  Cap = 2
  MaxPosts = 2
  MaxFaults = 1
  MaxCrashes = 1
  r1 = r1
  r2 = r2
  NoRun = NoRun
  a1 = a1
  a2 = a2
  cron = cron
  manual = manual
  request = request
INVARIANTS
  ListsAreTrue
  RunIsDriven
PROPERTIES
  BatchSettles
  DueIsScanned
  ExecutorSettles
\* At its bounds the desk may have nothing left to do.
CHECK_DEADLOCK FALSE
