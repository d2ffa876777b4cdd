\* Two tabs at the second gate with two edits, two saves and one version kept; the
\* ledger with two edits; review notes with three messages; tracked changes of two
\* edits; the shared document in two tabs with a crash, and an edit or a failure (the
\* bounds of each instance are in the module).
SPECIFICATION SideSpec
CONSTANTS
  a = a
  b = b
  x = x
  y = y
  Editors = {a, b}
  Writers = {a}
  HITL2_SNAPSHOT_KEEP = 1
  MaxEdits = 2
  MaxSaves = 2
  NoOne = no_one
  NoText = no_text
  NoRow = no_row
  Asked = asked
  NoNote = no_note
INVARIANTS
  NoSilentLoss
  HistoryIsTrue
  DrawerIsCurrent
  NotesMatch
  ChangesAreSound
  DocumentIsShared
PROPERTIES
  FieldsKeep
  ClickTakesWhatItShows
  BackupsGrow
\* The tabs close, the notes are all written and the run is deleted in the end.
CHECK_DEADLOCK FALSE
CONSTRAINT OneOverlap
