\* Template and policy editing: two editors in a page each, one or two isolates,
\* at most two texts typed and two versions stored; two admins, a third person and two
\* requests (the bounds of each instance are in the module).
SPECIFICATION DeskSpec
SYMMETRY Symmetry
CONSTANTS
  N = 3
  Eligible = {1, 2}
  MaxIds = 4
  MaxTime = 1
  MaxRequests = 2
  a = a
  b = b
  c = c
  d = d
  i1 = i1
  i2 = i2
  NoRow = no_row
  NoToken = no_token
INVARIANTS
  HistoryIsChain
  NoBlindOverwrite
  AnAdminRemains
  DeniedIsKeptOut
PROPERTIES
  TypingIsKept
\* At its bounds the desk may have nothing left to do.
CHECK_DEADLOCK FALSE
