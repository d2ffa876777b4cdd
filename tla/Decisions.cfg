\* A batch of one topic with two requests, one fault and one verdict asked for again; two
\* deployments and two clients, one request at a time and three decisions; three requests at a
\* run of the Python backend (the bounds of the last two are in the module).
SPECIFICATION DecisionsSpec
SYMMETRY SiteSymmetry
CONSTANTS
  Requests = {r1, r2}
  Topics = 1
  Concurrency = 2
  MaxCandidates = 2
  MaxRuns = 2
  MaxFaults = 1
  MaxVerdicts = 1
  NoRun = no_run
  d1 = d1
  d2 = d2
  c1 = c1
  c2 = c2
  r1 = r1
  r2 = r2
INVARIANTS
  RunsMatchCandidates
  StatusFollowsCandidates
  DecisionIsDone
PROPERTY
  ResolvedIsFinal
\* A run ends, and at the bounds nothing is left to do.
CHECK_DEADLOCK FALSE
CONSTRAINT OneRevisedDraft
