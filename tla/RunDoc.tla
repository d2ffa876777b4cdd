-------------------------------- MODULE RunDoc --------------------------------
(***************************************************************************)
(* The shared document of a run: the Durable Object (run-doc.ts) with its  *)
(* two backups, and the pages that edit it (web/lib/run-editor:            *)
(* useCollabDoc, useSeedCollabDoc, useWorkingBody, and the hydration of    *)
(* useSnapshotAutosave).  A Yjs document is the set of the operations it   *)
(* has, and a merge is a union; what an operation holds is one piece of    *)
(* the article.  Presence, cursors and colours are left out.               *)
(***************************************************************************)
EXTENDS Naturals, FiniteSets, Sequences, SequencesExt

CONSTANTS
    Clients,    \* browser tabs, each opened once
    Writers,    \* those in which somebody types
    NoOne,      \* nobody, for the seeder
    NoText,     \* null, for a text
    MaxEdits,   \* bound: edits by hand
    MaxFaults,  \* bound: failing writes and reads of a backup
    MaxCrashes  \* bound: times the object is lost

VARIABLES
    hub,       \* the object's memory
    flights,   \* documents on their way to the database, oldest first
    stored,    \* the document in the object's storage
    backup,    \* the document in content_tool.run_collab_state
    page,      \* the page of each tab
    down, up,  \* the two directions of each tab's socket
    edits, faults, crashes, \* counters
    overlapped \* history: two persists were under way at once

vars == <<hub, flights, stored, backup, page, down, up, edits, faults, crashes, overlapped>>

-----------------------------------------------------------------------------
\* The generated article is piece 0, an edit adds one.  setUserMapping writes too.
Draft == 0
Piece == 0..MaxEdits
Op == [piece : Piece, by : Clients, how : {"seed", "replace", "type", "user"}, dead : BOOLEAN]
Doc == SUBSET Op
Empty == {}

Made(c, p, how) == [piece |-> p, by |-> c, how |-> how, dead |-> FALSE]
User(c) == Made(c, Draft, "user")
Dead(op) == [op EXCEPT !.dead = TRUE]
Visible(doc) == {op \in doc : op.how # "user" /\ ~op.dead /\ Dead(op) \notin doc}
Pieces(doc) == {op.piece : op \in Visible(doc)}

\* replaceCollabDoc: the editor deletes what is not in the text and inserts what is missing.
Replaced(c, doc, text) == doc \cup {Dead(op) : op \in {o \in Visible(doc) : o.piece \notin text}}
                              \cup {Made(c, p, "replace") : p \in text \ Pieces(doc)}

\* seedCollabDocIfEmpty
Seeded(c, doc) == IF Visible(doc) = {} THEN doc \cup {Made(c, Draft, "seed")} ELSE doc

Msg == [kind : {"step1", "close"}] \cup [kind : {"step2", "update"}, ops : Doc]

\* createInstances, and a page whose socket closed: the hook does not reconnect.
Opened(c) == [pc |-> "connecting", doc |-> {User(c)}, primary |-> FALSE, pending |-> NoText, hydrated |-> FALSE]
NoPage == [pc |-> "gone", doc |-> Empty, primary |-> FALSE, pending |-> NoText, hydrated |-> FALSE]
PageState == [pc : {"connecting", "open", "connected", "gone"}, doc : Doc, primary : BOOLEAN,
              pending : (SUBSET Piece) \cup {NoText}, hydrated : BOOLEAN]

Asleep == [loaded |-> FALSE, doc |-> Empty, conns |-> {}, seeder |-> NoOne, timer |-> FALSE]

TypeOK ==
    /\ hub \in [loaded : BOOLEAN, doc : Doc, conns : SUBSET Clients, seeder : Clients \cup {NoOne}, timer : BOOLEAN]
    /\ flights \in Seq(Doc)
    /\ stored \in Doc /\ backup \in Doc
    /\ page \in [Clients -> PageState]
    /\ down \in [Clients -> Seq(Msg)] /\ up \in [Clients -> Seq(Msg)]
    /\ edits \in 0..MaxEdits /\ faults \in 0..MaxFaults /\ crashes \in 0..MaxCrashes /\ overlapped \in BOOLEAN

Init ==
    /\ hub = Asleep /\ flights = <<>> /\ stored = Empty /\ backup = Empty
    /\ page = [c \in Clients |-> Opened(c)]
    /\ down = [c \in Clients |-> <<>>] /\ up = [c \in Clients |-> <<>>]
    /\ edits = 0 /\ faults = 0 /\ crashes = 0 /\ overlapped = FALSE

counters == <<edits, faults, crashes>>
disk == <<flights, stored, backup, overlapped>>

-----------------------------------------------------------------------------
(* The page.                                                               *)

\* An update of the page's document is sent while its socket is open.
Edited(c, pg, doc) ==
    /\ page' = [page EXCEPT ![c] = [pg EXCEPT !.doc = doc]]
    /\ up' = IF doc = page[c].doc \/ pg.pc \notin {"open", "connected"} THEN up
             ELSE [up EXCEPT ![c] = Append(@, [kind |-> "update", ops |-> doc \ page[c].doc])]

\* The document is there: the seeder seeds it, and a replace that waited is made.
Synced(c) ==
    /\ down[c] # <<>> /\ Head(down[c]).kind = "step2"
    /\ LET met == page[c].doc \cup Head(down[c]).ops
           sown == IF page[c].primary THEN Seeded(c, met) ELSE met
           doc == IF page[c].pending = NoText THEN sown ELSE Replaced(c, sown, page[c].pending)
       IN  /\ page' = [page EXCEPT ![c] = [@ EXCEPT !.pc = "connected", !.doc = doc, !.pending = NoText]]
           /\ up' = IF doc = met THEN up ELSE [up EXCEPT ![c] = Append(@, [kind |-> "update", ops |-> doc \ met])]
    /\ down' = [down EXCEPT ![c] = Tail(@)]
    /\ UNCHANGED <<hub, disk, counters>>

Updated(c) ==
    /\ down[c] # <<>> /\ Head(down[c]).kind = "update"
    /\ page' = [page EXCEPT ![c].doc = @ \cup Head(down[c]).ops]
    /\ down' = [down EXCEPT ![c] = Tail(@)]
    /\ UNCHANGED <<hub, up, disk, counters>>

\* The history is listed, and its newest text, here the baseline, replaces the document;
\* before the sync the replace waits.
Hydrate(c) ==
    /\ page[c].pc # "gone" /\ ~page[c].hydrated
    /\ IF page[c].pc = "connected"
       THEN Edited(c, [page[c] EXCEPT !.hydrated = TRUE], Replaced(c, page[c].doc, {Draft}))
       ELSE /\ page' = [page EXCEPT ![c].hydrated = TRUE, ![c].pending = {Draft}]
            /\ UNCHANGED up
    /\ UNCHANGED <<hub, down, disk, counters>>

\* The editor is mounted whatever the status.
Type(c) ==
    /\ c \in Writers /\ page[c].pc # "gone" /\ edits < MaxEdits
    /\ edits' = edits + 1
    /\ Edited(c, page[c], page[c].doc \cup {Made(c, edits + 1, "type")})
    /\ UNCHANGED <<hub, down, disk, faults, crashes>>

\* The page is left or its link breaks; what it sent may be lost.
Leave(c) ==
    /\ page[c].pc # "gone"
    /\ page' = [page EXCEPT ![c] = NoPage]
    /\ down' = [down EXCEPT ![c] = <<>>]
    /\ \E sent \in {up[c], <<>>} :
          up' = [up EXCEPT ![c] = IF c \in hub.conns THEN Append(sent, [kind |-> "close"]) ELSE <<>>]
    /\ UNCHANGED <<hub, disk, counters>>

-----------------------------------------------------------------------------
(* The object.                                                             *)

\* The database first.
LoadsBackup(doc, failed) ==
    \/ hub.loaded /\ doc = hub.doc /\ ~failed
    \/ ~hub.loaded /\ doc = (IF backup # Empty THEN backup ELSE stored) /\ ~failed

\* ensureLoaded: storage first, and the database only when storage has nothing.
Loads(doc, failed) ==
    \/ hub.loaded /\ doc = hub.doc /\ ~failed
    \/ ~hub.loaded /\ stored # Empty /\ doc = stored /\ ~failed
    \/ ~hub.loaded /\ stored = Empty /\ doc = backup /\ ~failed
    \/ ~hub.loaded /\ stored = Empty /\ backup # Empty /\ doc = Empty /\ failed /\ faults < MaxFaults

\* Every page that finds the document empty is told to seed it.
ConnectAll(c) ==
    /\ page[c].pc = "connecting"
    /\ \E doc \in {hub.doc, stored, backup, Empty}, failed \in BOOLEAN :
          /\ Loads(doc, failed)
          /\ LET primary == doc = Empty
             IN  /\ hub' = [hub EXCEPT !.loaded = TRUE, !.doc = doc, !.conns = @ \cup {c},
                                       !.timer = @ \/ doc # hub.doc, !.seeder = IF primary THEN c ELSE @]
                 /\ page' = [page EXCEPT ![c].pc = "open", ![c].primary = primary]
          /\ faults' = faults + (IF failed THEN 1 ELSE 0)
    /\ up' = [up EXCEPT ![c] = <<[kind |-> "step1"], [kind |-> "step2", ops |-> page[c].doc]>>]
    /\ UNCHANGED <<down, disk, edits, crashes>>

\* fetch, and the page's handling of its first two frames: the grant, and a step 1 that it
\* answers with its own document.  Loading applies an update, which sets the timer.
Connect(c) ==
    /\ page[c].pc = "connecting"
    /\ \E doc \in {hub.doc, stored, backup, Empty}, failed \in BOOLEAN :
          /\ Loads(doc, failed)
          /\ LET primary == hub.seeder = NoOne /\ doc = Empty
             IN  /\ hub' = [hub EXCEPT !.loaded = TRUE, !.doc = doc, !.conns = @ \cup {c},
                                       !.timer = @ \/ doc # hub.doc, !.seeder = IF primary THEN c ELSE @]
                 /\ page' = [page EXCEPT ![c].pc = "open", ![c].primary = primary]
          /\ faults' = faults + (IF failed THEN 1 ELSE 0)
    /\ up' = [up EXCEPT ![c] = <<[kind |-> "step1"], [kind |-> "step2", ops |-> page[c].doc]>>]
    /\ UNCHANGED <<down, disk, edits, crashes>>

\* A frame for a socket that is gone is lost.
Send(d, msg) == IF page[d].pc \in {"open", "connected"} THEN Append(down[d], msg) ELSE down[d]

Answer(c) ==
    /\ up[c] # <<>> /\ Head(up[c]).kind = "step1"
    /\ up' = [up EXCEPT ![c] = Tail(@)]
    /\ down' = [down EXCEPT ![c] = Send(c, [kind |-> "step2", ops |-> hub.doc])]
    /\ UNCHANGED <<hub, page, disk, counters>>

\* The others get what is new of an update, and the timer is set.
Relay(c) ==
    /\ up[c] # <<>> /\ Head(up[c]).kind \in {"step2", "update"}
    /\ LET new == Head(up[c]).ops \ hub.doc
       IN  IF new = {} THEN UNCHANGED <<hub, down>>
           ELSE /\ hub' = [hub EXCEPT !.doc = @ \cup new, !.timer = TRUE]
                /\ down' = [d \in Clients |-> IF d \in hub.conns \ {c} THEN Send(d, [kind |-> "update", ops |-> new])
                                              ELSE down[d]]
    /\ up' = [up EXCEPT ![c] = Tail(@)]
    /\ UNCHANGED <<page, disk, counters>>

OnClose(c) ==
    /\ up[c] # <<>> /\ Head(up[c]).kind = "close"
    /\ hub' = [hub EXCEPT !.conns = @ \ {c}, !.seeder = IF @ = c THEN NoOne ELSE @]
    /\ up' = [up EXCEPT ![c] = Tail(@)]
    /\ UNCHANGED <<page, down, disk, counters>>

-----------------------------------------------------------------------------
(* The backups.                                                            *)

\* The timer fires: the document goes to storage, whose put counts as soon as it is made,
\* and then to the database.  A failure is swallowed.
Persist ==
    /\ hub.timer /\ Len(flights) < 2
    /\ hub' = [hub EXCEPT !.timer = FALSE]
    /\ flights' = Append(flights, hub.doc)
    /\ overlapped' = (overlapped \/ flights # <<>>)
    /\ \/ stored' = hub.doc /\ UNCHANGED faults
       \/ faults < MaxFaults /\ faults' = faults + 1 /\ UNCHANGED stored
    /\ UNCHANGED <<backup, page, down, up, edits, crashes>>

\* backupToDb: an upsert with no condition.
BackUp(i) ==
    /\ i \in DOMAIN flights
    /\ flights' = RemoveAt(flights, i)
    /\ \/ backup' = flights[i] /\ UNCHANGED faults
       \/ faults < MaxFaults /\ faults' = faults + 1 /\ UNCHANGED backup
    /\ UNCHANGED <<hub, stored, overlapped, page, down, up, edits, crashes>>

\* The object is evicted or lost: its memory and its sockets are gone, its storage may be.
Evict ==
    /\ hub.loaded /\ crashes < MaxCrashes
    /\ crashes' = crashes + 1
    /\ hub' = Asleep /\ flights' = <<>>
    /\ page' = [c \in Clients |-> IF c \in hub.conns THEN NoPage ELSE page[c]]
    /\ down' = [c \in Clients |-> <<>>] /\ up' = [c \in Clients |-> <<>>]
    /\ stored' \in {stored, Empty}
    /\ UNCHANGED <<backup, overlapped, edits, faults>>

Next ==
    \/ \E c \in Clients :
          \/ Connect(c) \/ Synced(c) \/ Updated(c) \/ Hydrate(c) \/ Type(c)
          \/ Leave(c) \/ Answer(c) \/ Relay(c) \/ OnClose(c)
    \/ Persist \/ (\E i \in DOMAIN flights : BackUp(i)) \/ Evict

Spec == Init /\ [][Next]_vars

-----------------------------------------------------------------------------
(* Whoever comes and goes, at most one page seeds a document: two seeds    *)
(* never meet in the object or in a page that is connected (the grant in   *)
(* fetch and onClose).                                                     *)
Seeders(doc) == {op.by : op \in {o \in doc : o.how = "seed"}}
OneSeed ==
    /\ Cardinality(Seeders(hub.doc)) <= 1
    /\ \A c \in Clients : page[c].pc = "connected" => Cardinality(Seeders(page[c].doc)) <= 1

(* When nothing is on its way, a connected page shows the object's         *)
(* document, whatever was typed before the sync and whatever was replaced  *)
(* (the doc's update handler, readSyncMessage).                            *)
Converged ==
    \A c \in hub.conns : page[c].pc = "connected" /\ down[c] = <<>> /\ up[c] = <<>> => page[c].doc = hub.doc

(* While no write fails, what the object holds beyond its storage waits    *)
(* for the timer, through loads, relays and evictions (schedulePersist     *)
(* clears the timer before it takes the document).                         *)
UnsavedIsScheduled == hub.loaded /\ ~hub.timer /\ faults = 0 => hub.doc = stored

(* The pages, the object and its storage hold one document, seeded once:   *)
(* whatever differs is on its way or waits for the timer.                  *)
DocumentIsShared == TypeOK /\ OneSeed /\ Converged /\ UnsavedIsScheduled

(* Neither backup ever loses an operation, across evictions and the loss   *)
(* of the whole storage: while no write or load has failed, and for the    *)
(* database, no two persists overlapped (ensureLoaded, persist).           *)
BackupStep ==
    /\ faults' = 0 /\ stored' # Empty => stored \subseteq stored'
    /\ faults' = 0 /\ ~overlapped' => backup \subseteq backup'
BackupsGrow == [][BackupStep]_vars

(* However many pages join a run nobody has edited, none shows a piece of  *)
(* the article twice (useSeedCollabDoc: "now closed").                     *)
ArticleIsOnce ==
    \A c \in Clients : page[c].pc = "connected" =>
       \A o1, o2 \in Visible(page[c].doc) : o1.piece = o2.piece => o1 = o2
=============================================================================
