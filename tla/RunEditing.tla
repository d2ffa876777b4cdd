------------------------------ MODULE RunEditing ------------------------------
(***************************************************************************)
(* Editing a run at the second gate: the page with its autosave            *)
(* (web/lib/run-editor/useSnapshotAutosave.ts, web/app/runs/[runId]/hitl2, *)
(* web/lib/useApplyEdits.ts) and the version history behind it             *)
(* (routes/runs.ts, hitl2-snapshots).  A text is the set of the edits it   *)
(* holds, on top of the draft the workflow rendered; the empty set is the  *)
(* blank body an editor reports while it is torn down.  The live document  *)
(* of several cursors is RunDoc; here every tab has a text of its own.     *)
(***************************************************************************)
EXTENDS Naturals, FiniteSets, Sequences, SequencesExt, FiniteSetsExt

CONSTANTS
    Editors,             \* browser tabs, each opened once
    Writers,             \* those in which something is changed; the others read and restore
    NoOne,               \* the sender of a save whose tab has gone
    NoText,              \* null, for a text
    HITL2_SNAPSHOT_KEEP, \* snapshots kept
    MaxEdits,            \* bound: edits made, by hand or by the model
    MaxSaves             \* bound: saves sent

VARIABLES
    snaps,     \* hitl2_snapshots in the order of created_at, oldest first
    ed,        \* the page of each editor
    posts,     \* saves on their way
    edits,     \* number of edits so far
    saves,     \* number of saves so far: the id of the newest
    decided,   \* the text the approval carried
    acked,     \* history: saves whose client was told so
    excused,   \* history: edits a user threw away or was told of losing
    overlapped \* history: two listings looked for the baseline at once

vars == <<snaps, ed, posts, edits, saves, decided, acked, excused, overlapped>>

-----------------------------------------------------------------------------
Draft == {0}
Blank == {}
Text == SUBSET (0..MaxEdits)
Generated == 0         \* instead of a save's id: the row is the seeded baseline

Row == [id : 0..MaxSaves, text : Text]
Rows == Range(snaps)
RowIds == {r.id : r \in Rows}

\* A page: hyd is where the hydration is, found what its listing returned, ai the
\* text sent to the model, restoring the version that waits for a save.
Away == [pc |-> "closed", text |-> Draft, saved |-> NoText, hyd |-> "done", found |-> NoText,
         ai |-> NoText, restoring |-> NoText]

Post == [id : 1..MaxSaves, by : Editors \cup {NoOne}, text : Text, pc : {"sent", "prune"}]

TypeOK ==
    /\ snaps \in Seq(Row) /\ Len(snaps) <= MaxSaves + Cardinality(Editors)
    /\ ed \in [Editors -> [pc : {"closed", "open", "gone"}, text : Text, saved : Text \cup {NoText},
                           hyd : {"check", "seed", "answer", "done"}, found : Text \cup {NoText},
                           ai : Text \cup {NoText}, restoring : Text \cup {NoText}]]
    /\ posts \subseteq Post
    /\ edits \in 0..MaxEdits /\ saves \in 0..MaxSaves
    /\ decided \in Text \cup {NoText}
    /\ acked \subseteq 1..MaxSaves /\ excused \subseteq 0..MaxEdits /\ overlapped \in BOOLEAN

Init ==
    /\ snaps = <<>> /\ ed = [e \in Editors |-> Away] /\ posts = {}
    /\ edits = 0 /\ saves = 0 /\ decided = NoText
    /\ acked = {} /\ excused = {} /\ overlapped = FALSE

-----------------------------------------------------------------------------
(* Opening the page and resuming at the newest snapshot.                   *)

Open(e) ==
    /\ ed[e].pc = "closed"
    /\ ed' = [ed EXCEPT ![e] = [Away EXCEPT !.pc = "open", !.saved = Draft, !.hyd = "check"]]
    /\ UNCHANGED <<snaps, posts, edits, saves, decided, acked, excused, overlapped>>

\* The newest row of those listed whose body is not blank.
Resumed(rows) ==
    LET listed == {i \in DOMAIN rows : i > Len(rows) - HITL2_SNAPSHOT_KEEP /\ rows[i].text # Blank}
    IN  IF listed = {} THEN NoText ELSE rows[Max(listed)].text

\* GET /:id/hitl2-snapshots: ensureGeneratedBaseline looks, inserts, and the list is read.
BaselineCheck(e) ==
    /\ ed[e].pc = "open" /\ ed[e].hyd = "check"
    /\ ed' = IF Generated \in RowIds
             THEN [ed EXCEPT ![e].hyd = "answer", ![e].found = Resumed(snaps)]
             ELSE [ed EXCEPT ![e].hyd = "seed"]
    /\ overlapped' = (overlapped \/ \E f \in Editors \ {e} : ed[f].hyd = "seed")
    /\ UNCHANGED <<snaps, posts, edits, saves, decided, acked, excused>>

\* The baseline is dated before every other row.
BaselineSeed(e) ==
    /\ ed[e].pc = "open" /\ ed[e].hyd = "seed"
    /\ snaps' = <<[id |-> Generated, text |-> Draft]>> \o snaps
    /\ ed' = [ed EXCEPT ![e].hyd = "answer", ![e].found = Resumed(snaps')]
    /\ UNCHANGED <<posts, edits, saves, decided, acked, excused, overlapped>>

\* What was typed before the listing arrived is replaced.  A listing that fails is
\* one that is not answered: the page stays at the draft.
Hydrate(e) ==
    /\ ed[e].pc = "open" /\ ed[e].hyd = "answer"
    /\ IF ed[e].found = NoText
       THEN /\ ed' = [ed EXCEPT ![e].hyd = "done"]
            /\ UNCHANGED excused
       ELSE /\ ed' = [ed EXCEPT ![e].hyd = "done", ![e].text = ed[e].found, ![e].saved = ed[e].found, ![e].found = NoText]
            /\ excused' = excused \cup (ed[e].text \ ed[e].found)
    /\ UNCHANGED <<snaps, posts, edits, saves, decided, acked, overlapped>>

-----------------------------------------------------------------------------
(* Editing.                                                                *)

Type(e) ==
    /\ e \in Writers /\ ed[e].pc = "open" /\ edits < MaxEdits
    /\ edits' = edits + 1
    /\ ed' = [ed EXCEPT ![e].text = @ \cup {edits + 1}]
    /\ UNCHANGED <<snaps, posts, saves, decided, acked, excused, overlapped>>

\* POST /:id/apply-edits is given the text and returns another; no row changes.
RequestEdit(e) ==
    /\ e \in Writers /\ ed[e].pc = "open" /\ ed[e].ai = NoText /\ ed[e].text # Blank
    /\ ed' = [ed EXCEPT ![e].ai = ed[e].text]
    /\ UNCHANGED <<snaps, posts, edits, saves, decided, acked, excused, overlapped>>

\* The answer replaces the text, with what was typed while the model worked.
EditApplied(e) ==
    /\ ed[e].pc = "open" /\ ed[e].ai # NoText /\ edits < MaxEdits
    /\ edits' = edits + 1
    /\ ed' = [ed EXCEPT ![e].text = ed[e].ai \cup {edits + 1}, ![e].ai = NoText]
    /\ excused' = excused \cup (ed[e].text \ ed[e].ai)
    /\ UNCHANGED <<snaps, posts, saves, decided, acked, overlapped>>

EditFails(e) ==
    /\ ed[e].pc = "open" /\ ed[e].ai # NoText
    /\ ed' = [ed EXCEPT ![e].ai = NoText]
    /\ UNCHANGED <<snaps, posts, edits, saves, decided, acked, excused, overlapped>>

-----------------------------------------------------------------------------
(* Saving.                                                                 *)

\* saveSnapshot saves a text that differs from the one the server is known to have.
Dirty(e) == ed[e].text # Blank /\ ed[e].saved # NoText /\ ed[e].text # ed[e].saved

Send(who, text, exit) ==
    /\ saves < MaxSaves
    /\ saves' = saves + 1
    /\ posts' = {[p EXCEPT !.by = IF exit /\ @ = who THEN NoOne ELSE @] : p \in posts}
                \cup {[id |-> saves + 1, by |-> IF exit THEN NoOne ELSE who, text |-> text, pc |-> "sent"]}

\* The button, or the interval.
Save(e) ==
    /\ ed[e].pc = "open" /\ Dirty(e)
    /\ Send(e, ed[e].text, FALSE)
    /\ UNCHANGED <<snaps, ed, edits, decided, acked, excused, overlapped>>

\* POST /:id/hitl2-snapshots.
InsertSnapshot(p) ==
    /\ p \in posts /\ p.pc = "sent"
    /\ snaps' = Append(snaps, [id |-> p.id, text |-> p.text])
    /\ posts' = (posts \ {p}) \cup {[p EXCEPT !.pc = "prune"]}
    /\ UNCHANGED <<ed, edits, saves, decided, acked, excused, overlapped>>

\* The answer marks the text that is on the page now.
SettledNow(e, text, kept, gone) ==
    LET after == IF ed[e].restoring = NoText THEN ed[e].text ELSE ed[e].restoring
    IN  /\ ed' = [ed EXCEPT ![e].saved = ed[e].text, ![e].text = after, ![e].restoring = NoText]
        /\ excused' = excused \cup gone \cup (ed[e].text \ (after \cup kept))

\* The page takes the outcome of its save: a restore that waited for it goes on,
\* whatever it is.  kept is what the history holds by it, gone what it lost.
Settled(e, text, kept, gone) ==
    LET after == IF ed[e].restoring = NoText THEN ed[e].text ELSE ed[e].restoring
    IN  /\ ed' = [ed EXCEPT ![e].saved = text, ![e].text = after, ![e].restoring = NoText]
        /\ excused' = excused \cup gone \cup (ed[e].text \ (after \cup kept))

\* The handler prunes, and the client is told.
SaveAnswered(p) ==
    /\ p \in posts /\ p.pc = "prune"
    /\ LET cut == IF Len(snaps) > HITL2_SNAPSHOT_KEEP THEN Len(snaps) - HITL2_SNAPSHOT_KEEP ELSE 0
           pruned == UNION {snaps[i].text : i \in 1..cut}
       IN  /\ snaps' = SubSeq(snaps, cut + 1, Len(snaps))
           /\ IF p.by = NoOne THEN excused' = excused \cup pruned /\ UNCHANGED ed
              ELSE Settled(p.by, p.text, p.text, pruned)
    /\ posts' = posts \ {p} /\ acked' = acked \cup {p.id}
    /\ UNCHANGED <<edits, saves, decided, overlapped>>

\* The save fails, or its answer is lost.
SaveFails(p) ==
    /\ p \in posts
    /\ posts' = posts \ {p}
    /\ IF p.by # NoOne THEN Settled(p.by, ed[p.by].saved, {}, {})
       ELSE /\ excused' = IF p.pc = "sent" THEN excused \cup p.text ELSE excused
            /\ UNCHANGED ed
    /\ UNCHANGED <<snaps, edits, saves, decided, acked, overlapped>>

\* A restore that drops the current text.
RestoreAtOnce(e) ==
    /\ ed[e].pc = "open" /\ ed[e].restoring = NoText
    /\ \E r \in Rows : ed' = [ed EXCEPT ![e].text = r.text]
    /\ UNCHANGED <<snaps, posts, edits, saves, decided, acked, excused, overlapped>>

\* Restoring a version saves the current text first.
Restore(e) ==
    /\ ed[e].pc = "open" /\ ed[e].restoring = NoText
    /\ \E r \in Rows :
          IF Dirty(e)
          THEN /\ ed' = [ed EXCEPT ![e].restoring = r.text]
               /\ Send(e, ed[e].text, FALSE)
          ELSE /\ ed' = [ed EXCEPT ![e].text = r.text]
               /\ UNCHANGED <<posts, saves>>
    /\ UNCHANGED <<snaps, edits, decided, acked, excused, overlapped>>

Gone(e) == [ed EXCEPT ![e] = [Away EXCEPT !.pc = "gone"]]
Forgotten(e) == {[p EXCEPT !.by = IF @ = e THEN NoOne ELSE @] : p \in posts}

\* Navigating away and closing the tab flush what is dirty.
Leave(e) ==
    /\ ed[e].pc = "open"
    /\ ed' = Gone(e)
    /\ IF Dirty(e) THEN Send(e, ed[e].text, TRUE) ELSE posts' = Forgotten(e) /\ UNCHANGED saves
    /\ UNCHANGED <<snaps, edits, decided, acked, excused, overlapped>>

\* The editor reports a blank body before the flush: nothing is saved.
Teardown(e) ==
    /\ ed[e].pc = "open"
    /\ ed' = Gone(e) /\ posts' = Forgotten(e)
    /\ excused' = excused \cup ed[e].text
    /\ UNCHANGED <<snaps, edits, saves, decided, acked, overlapped>>

\* The approval carries the text; the page leaves without a flush.
Decide(e) ==
    /\ ed[e].pc = "open" /\ decided = NoText
    /\ decided' = ed[e].text
    /\ ed' = Gone(e) /\ posts' = Forgotten(e)
    /\ UNCHANGED <<snaps, edits, saves, acked, excused, overlapped>>

Next ==
    \/ \E e \in Editors :
          \/ Open(e) \/ BaselineCheck(e) \/ BaselineSeed(e) \/ Hydrate(e)
          \/ Type(e) \/ RequestEdit(e) \/ EditApplied(e) \/ EditFails(e)
          \/ Save(e) \/ Restore(e) \/ Leave(e) \/ Teardown(e) \/ Decide(e)
    \/ \E p \in posts : InsertSnapshot(p) \/ SaveAnswered(p) \/ SaveFails(p)

Spec == Init /\ [][Next]_vars

-----------------------------------------------------------------------------
(* An edit is never lost in silence: it is in an open page, on its way to  *)
(* the server, in the version history or in the approved text, or it was   *)
(* given up: in a version that fell out of the history, by a save on exit  *)
(* that failed or found a blank editor, or under an answer of the model, a *)
(* late hydration or a restore (useSnapshotAutosave, restore).             *)
NoSilentLoss ==
    1..edits \subseteq excused
                       \cup (UNION {ed[e].text : e \in {f \in Editors : ed[f].pc = "open"}})
                       \cup (UNION {p.text : p \in posts}) \cup (UNION {r.text : r \in Rows})
                       \cup (IF decided = NoText THEN {} ELSE decided)

(* A save whose client was told of it is in the history until that many    *)
(* newer ones are, whichever saves and listings overlap (the prune).       *)
AcknowledgedIsKept ==
    \A i \in acked : i \in RowIds \/ Cardinality({j \in RowIds : j # Generated}) >= HITL2_SNAPSHOT_KEEP

(* A page that shows no unsaved changes shows the draft or a text that the *)
(* history holds or held, whatever order saves and answers come in         *)
(* (lastSavedKey).                                                         *)
CleanIsStored ==
    \A e \in Editors : ed[e].pc = "open" /\ ed[e].text = ed[e].saved =>
       ed[e].text = Draft \/ (\E r \in Rows : r.text = ed[e].text) \/ ed[e].text \subseteq excused

(* The history has one baseline, unless two listings looked for it at once *)
(* (ensureGeneratedBaseline).                                              *)
BaselineIsSeededOnce ==
    overlapped \/ Cardinality({i \in DOMAIN snaps : snaps[i].id = Generated}) <= 1

(* What a page takes for stored is stored.                                 *)
HistoryIsTrue == TypeOK /\ AcknowledgedIsKept /\ CleanIsStored /\ BaselineIsSeededOnce
=============================================================================
