----------------------------- MODULE MCRunEditing -----------------------------
(***************************************************************************)
(* Instances for TLC of what people change about one run, which a run      *)
(* explores one beside the other:                                          *)
(*   - editing: two tabs on the page of the second gate, in the variables  *)
(*     of RunEditing;                                                      *)
(*   - drawer: one tab of the ledger with its drawer and its bulk bar;     *)
(*   - bulk: a drawer and a bulk selection in two tabs (LedgerDrawer);     *)
(*   - thread: a note of one tab, answered by it and by another;           *)
(*   - composer: two notes begun in one tab, and its own answers           *)
(*     (ReviewNotes);                                                      *)
(*   - changes: the tracked changes of an article that two people edit;    *)
(*   - model: the same with an edit of the model (ReviewChanges);          *)
(*   - document: the shared document in two tabs, one of which writes;     *)
(*   - failures: no typing, but reads and writes of its backups that fail  *)
(*     (RunDoc).                                                           *)
(* The other instances keep their state in as many of s1, ..., s13 as they *)
(* need.                                                                   *)
(***************************************************************************)
EXTENDS RunEditing

CONSTANTS a, b, x, y, NoRow, Asked, NoNote

VARIABLES scene, s1, s2, s3, s4, s5, s6, s7, s8, s9, s10, s11, s12, s13
shared == <<s1, s2, s3, s4, s5, s6, s7, s8, s9, s10, s11, s12, s13>>

Drawer == INSTANCE LedgerDrawer WITH
    Drawers <- {a}, Bulks <- {a}, Carried <- {"slug"}, Others <- {"tags"}, MaxEdits <- 2,
    row <- s1, atGate <- s2, list <- s3, detail <- s4, fetch <- s5, form <- s6,
    reqs <- s7, edits <- s8, foreign <- s9
Bulk == INSTANCE LedgerDrawer WITH
    Drawers <- {a}, Bulks <- {b}, Carried <- {"slug"}, Others <- {"tags"}, MaxEdits <- 2,
    row <- s1, atGate <- s2, list <- s3, detail <- s4, fetch <- s5, form <- s6,
    reqs <- s7, edits <- s8, foreign <- s9
Thread == INSTANCE ReviewNotes WITH
    Writers <- {a}, Readers <- {a, b}, MaxNotes <- 1, MaxMessages <- 3,
    run <- s1, linked <- s2, threads <- s3, log <- s4, spans <- s5, pending <- s6,
    reqs <- s7, notes <- s8, messages <- s9, acked <- s10, raced <- s11, loose <- s12,
    late <- s13
Composer == INSTANCE ReviewNotes WITH
    Writers <- {a}, Readers <- {a}, MaxNotes <- 2, MaxMessages <- 2,
    run <- s1, linked <- s2, threads <- s3, log <- s4, spans <- s5, pending <- s6,
    reqs <- s7, notes <- s8, messages <- s9, acked <- s10, raced <- s11, loose <- s12,
    late <- s13
Changes == INSTANCE ReviewChanges WITH
    Users <- {a, b}, Reviewer <- a, Letters <- {x, y}, Draft <- <<x, y>>,
    MaxEdits <- 2, MaxAsked <- 0,
    items <- s1, html <- s2, committed <- s3, parts <- s4, mode <- s5, popover <- s6,
    ai <- s7, edits <- s8, asked <- s9, behind <- s10, moved <- s11, left <- s12
Model == INSTANCE ReviewChanges WITH
    Users <- {a, b}, Reviewer <- a, Letters <- {x, y}, Draft <- <<x, y>>,
    MaxEdits <- 1, MaxAsked <- 1,
    items <- s1, html <- s2, committed <- s3, parts <- s4, mode <- s5, popover <- s6,
    ai <- s7, edits <- s8, asked <- s9, behind <- s10, moved <- s11, left <- s12
Document == INSTANCE RunDoc WITH
    Clients <- {a, b}, Writers <- {a}, MaxEdits <- 1, MaxFaults <- 0, MaxCrashes <- 1,
    hub <- s1, flights <- s2, stored <- s3, backup <- s4, page <- s5, down <- s6, up <- s7,
    edits <- s8, faults <- s9, crashes <- s10, overlapped <- s11
Failures == INSTANCE RunDoc WITH
    Clients <- {a, b}, Writers <- {}, MaxEdits <- 0, MaxFaults <- 1, MaxCrashes <- 1,
    hub <- s1, flights <- s2, stored <- s3, backup <- s4, page <- s5, down <- s6, up <- s7,
    edits <- s8, faults <- s9, crashes <- s10, overlapped <- s11

Unused == /\ s1 = 0 /\ s2 = 0 /\ s3 = 0 /\ s4 = 0 /\ s5 = 0 /\ s6 = 0 /\ s7 = 0
          /\ s8 = 0 /\ s9 = 0 /\ s10 = 0 /\ s11 = 0 /\ s12 = 0 /\ s13 = 0
Spare == s10 = 0 /\ s11 = 0 /\ s12 = 0 /\ s13 = 0
SideInit ==
    /\ Init
    /\ \/ scene = "editing" /\ Unused
       \/ scene = "drawer" /\ Drawer!Init /\ Spare
       \/ scene = "bulk" /\ Bulk!Init /\ Spare
       \/ scene = "thread" /\ Thread!Init
       \/ scene = "composer" /\ Composer!Init
       \/ scene = "changes" /\ Changes!Init /\ s13 = 0
       \/ scene = "model" /\ Model!Init /\ s13 = 0
       \/ scene = "document" /\ Document!Init /\ s12 = 0 /\ s13 = 0
       \/ scene = "failures" /\ Failures!Init /\ s12 = 0 /\ s13 = 0
SideNext ==
    /\ UNCHANGED scene
    /\ \/ scene = "editing" /\ Next /\ UNCHANGED shared
       \/ /\ UNCHANGED vars
          /\ \/ scene = "drawer" /\ Drawer!Next /\ UNCHANGED <<s10, s11, s12, s13>>
             \/ scene = "bulk" /\ Bulk!Next /\ UNCHANGED <<s10, s11, s12, s13>>
             \/ scene = "thread" /\ Thread!Next
             \/ scene = "composer" /\ Composer!Next
             \/ scene = "changes" /\ Changes!Next /\ UNCHANGED s13
             \/ scene = "model" /\ Model!Next /\ UNCHANGED s13
             \/ scene = "document" /\ Document!Next /\ UNCHANGED <<s12, s13>>
             \/ scene = "failures" /\ Failures!Next /\ UNCHANGED <<s12, s13>>
SideSpec == SideInit /\ [][SideNext]_<<scene, vars, shared>>

\* Bound: after two listings that both look for the baseline a behaviour has its second
\* edit or its second save, not both.
OneOverlap == ~(overlapped /\ edits = 2 /\ saves = 2)

-----------------------------------------------------------------------------
\* A destination field never goes back to an older value unless whoever sends
\* it was legitimately behind: LedgerDrawer!FieldsKeepStep.
FieldsKeep ==
    [][/\ scene = "drawer" => Drawer!FieldsKeepStep
       /\ scene = "bulk" => Bulk!FieldsKeepStep]_shared

\* A drawer at rest shows the row: LedgerDrawer!DrawerIsCurrent.
DrawerIsCurrent ==
    /\ scene = "drawer" => Drawer!TypeOK /\ Drawer!DrawerIsCurrent
    /\ scene = "bulk" => Bulk!TypeOK /\ Bulk!DrawerIsCurrent

\* Highlights, composer and threads stay in step, a note has one thread, and a
\* message whose sender was told stays in it; and a deleted run leaves nothing behind
\* (ReviewNotes!NotesMatch, OneThreadPerNote, AckedMessageStays, NothingOutlivesTheRun).
NotesMatch ==
    /\ scene = "thread" =>
        /\ Thread!TypeOK /\ Thread!NotesMatch /\ Thread!OneThreadPerNote
        /\ Thread!AckedMessageStays /\ Thread!NothingOutlivesTheRun
    /\ scene = "composer" =>
        /\ Composer!TypeOK /\ Composer!NotesMatch
        /\ Composer!OneThreadPerNote /\ Composer!AckedMessageStays
        /\ Composer!NothingOutlivesTheRun

\* Resolving a change leaves the others, and a change carries the name of whoever made
\* the most of it: ReviewChanges!OthersRemain, AddedByItsAuthor, RemovedByItsDeleter.
ChangesAreSound ==
    /\ scene = "changes" =>
        /\ Changes!TypeOK /\ Changes!OthersRemain
        /\ Changes!AddedByItsAuthor /\ Changes!RemovedByItsDeleter
    /\ scene = "model" =>
        /\ Model!TypeOK /\ Model!OthersRemain
        /\ Model!AddedByItsAuthor /\ Model!RemovedByItsDeleter

\* A click takes from the document what it shows: ReviewChanges!ClickStep.
ClickTakesWhatItShows ==
    [][/\ scene = "changes" => Changes!ClickStep
       /\ scene = "model" => Model!ClickStep]_shared

\* The pages, the object and its storage hold one document, which is seeded once:
\* RunDoc!DocumentIsShared.
DocumentIsShared ==
    /\ scene = "document" => Document!DocumentIsShared
    /\ scene = "failures" => Failures!DocumentIsShared

\* Neither backup of the document loses an edit it had: RunDoc!BackupsGrow.
BackupsGrow ==
    [][/\ scene = "document" => Document!BackupStep
       /\ scene = "failures" => Failures!BackupStep]_shared
=============================================================================
