SPECIFICATION Spec
CONSTANTS
  Clients = {a, b}
  Writers = {}
  NoOne = no_one
  NoText = no_text
  MaxEdits = 0
  MaxFaults = 0
  MaxCrashes = 0
INVARIANT ArticleIsOnce
CHECK_DEADLOCK FALSE
