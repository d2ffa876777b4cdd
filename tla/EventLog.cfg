SPECIFICATION FairSpec
CONSTANTS
  Emitters = {e1, e2}
  Viewers = {v1}
  BufferSize = 1
  PersistThinking = TRUE
  MaxEvents = 2
  MaxFailures = 1
  MaxCrashes = 1
  MaxReviews = 1
INVARIANTS AcceptedIsKept QueueIsSound ViewerMissesNothing
PROPERTIES AcceptedIsLogged
CHECK_DEADLOCK FALSE
