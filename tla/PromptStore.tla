----------------------------- MODULE PromptStore -----------------------------
(***************************************************************************)
(* One editable text of a voice - a prompt template or its source policy - *)
(* with its version history, the cache every isolate of the Worker keeps   *)
(* of it, and the pages that edit it: the /prompts library page, which     *)
(* holds its own buffer, and the Voice Studio, whose draft store outlives  *)
(* the selection of a node.                                                *)
(*                                                                         *)
(* A text is a number and its own sha: 0 is the seeded text, Blank the     *)
(* empty one, and every edit makes a new number.                           *)
(***************************************************************************)
EXTENDS Integers, Sequences, FiniteSets, SequencesExt

CONSTANTS
    Library, Studio,    \* editors by the page they use
    Isolates,           \* isolates of the Worker, each with its cache
    Inherits,           \* TRUE: the voice has no row yet and shows __shared__
    Policy,             \* TRUE: a source policy, FALSE: a prompt template
    MaxTexts,           \* bound: edits
    MaxVersions         \* bound: accepted saves and reverts

Editors == Library \cup Studio
Blank == -1
NoText == -2            \* nothing fetched, no draft
NoSha == -3             \* parent_sha256 is null
Null == -4              \* _cache is null
Empty == -5             \* _cache is a map without the voice
Texts == Blank .. MaxTexts

VARIABLES
    own,        \* the voice has a row of its own
    row,        \* the text in force
    versions,   \* prompt_versions, oldest first
    lock,       \* transactions that hold the row FOR UPDATE
    cache,      \* isolate -> _cache
    page,       \* editor -> query data, sha, buffer or draft, draft's baseSha
    fetch,      \* editor -> the page's GET
    save,       \* editor -> the page's PUT or revert
    edits,      \* texts typed so far
    excused,    \* isolates whose cache may be stale (history)
    shown       \* editor -> texts its page displayed (history)
vars == <<own, row, versions, lock, cache, page, fetch, save, edits, excused, shown>>

NoFetch == [phase |-> "none", at |-> NoText, text |-> NoText, overlap |-> FALSE]
NoSave == [phase |-> "none", at |-> NoText, text |-> NoText, expected |-> NoText,
           kind |-> "save"]

\* What e's editor displays on a page p.
On(e, p) == IF e \in Studio /\ p.buffer = NoText THEN p.data ELSE p.buffer

\* The page of e changes to p, and displays what p has.
Show(e, p) ==
    /\ page' = [page EXCEPT ![e] = p]
    /\ shown' = [shown EXCEPT ![e] = @ \cup {On(e, p)}]

-----------------------------------------------------------------------------
(* GET through an isolate: snapshot().                                     *)

Hit(e, i) ==
    /\ fetch[e].phase = "none" /\ cache[i] \in Texts
    /\ fetch' = [fetch EXCEPT ![e] = [NoFetch EXCEPT !.phase = "answered", !.text = cache[i]]]
    /\ UNCHANGED <<own, row, versions, lock, cache, page, save, edits, excused, shown>>

StartLoad(e, i) ==
    /\ fetch[e].phase = "none" /\ cache[i] \notin Texts
    /\ cache' = [cache EXCEPT ![i] = IF Policy THEN Empty ELSE cache[i]]
    /\ fetch' = [fetch EXCEPT ![e] = [phase |-> "loading", at |-> i, text |-> row,
                                      overlap |-> FALSE]]
    /\ UNCHANGED <<own, row, versions, lock, page, save, edits, excused, shown>>

\* The map of a keyed cache may be gone by now: the request fails.
EndLoad(e) ==
    /\ fetch[e].phase = "loading"
    /\ LET i == fetch[e].at IN
       IF Policy /\ cache[i] = Null
       THEN fetch' = [fetch EXCEPT ![e] = NoFetch] /\ UNCHANGED <<cache, excused>>
       ELSE /\ cache' = [cache EXCEPT ![i] = fetch[e].text]
            /\ excused' = IF fetch[e].overlap THEN excused \cup {i} ELSE excused \ {i}
            /\ fetch' = [fetch EXCEPT ![e] = [NoFetch EXCEPT !.phase = "answered",
                                                             !.text = fetch[e].text]]
    /\ UNCHANGED <<own, row, versions, lock, page, save, edits, shown>>

\* Every answer primes the buffer (mutant).
PrimedAlways(e) ==
    LET t == fetch[e].text
        changed == t # page[e].data
    IN  [data |-> t, sha |-> IF changed THEN t ELSE page[e].sha,
         buffer |-> IF e \in Library THEN t ELSE page[e].buffer,
         base |-> IF changed /\ Policy /\ page[e].base # NoText THEN t ELSE page[e].base]

\* The page after an answer.  Data that is equal keeps its identity, so the
\* effect that primes the buffer runs only when the text has changed.  A policy
\* draft of the Studio keeps its text and takes the new sha.
Primed(e) ==
    LET t == fetch[e].text
        changed == t # page[e].data
    IN  [data |-> t, sha |-> IF changed THEN t ELSE page[e].sha,
         buffer |-> IF changed /\ e \in Library THEN t ELSE page[e].buffer,
         base |-> IF changed /\ Policy /\ page[e].base # NoText THEN t ELSE page[e].base]

Arrive(e) ==
    /\ fetch[e].phase = "answered"
    /\ fetch' = [fetch EXCEPT ![e] = NoFetch]
    /\ Show(e, Primed(e))
    /\ UNCHANGED <<own, row, versions, lock, cache, save, edits, excused>>

-----------------------------------------------------------------------------
(* The page.                                                               *)

\* In the Studio the first edit of a draft takes the sha it started from.
Typed(e) ==
    [data |-> page[e].data, sha |-> page[e].sha, buffer |-> edits + 1,
     base |-> IF e \in Studio /\ (Policy \/ page[e].buffer = NoText)
              THEN page[e].sha ELSE page[e].base]

Type(e) ==
    /\ page[e].data # NoText /\ edits < MaxTexts
    /\ edits' = edits + 1
    /\ Show(e, Typed(e))
    /\ UNCHANGED <<own, row, versions, lock, cache, fetch, save, excused>>

\* Reload empties the buffer of the library page and refetches.
Reload(e) ==
    /\ e \in Library /\ ~Policy /\ fetch[e].phase = "none" /\ save[e].phase = "none"
    /\ page[e].data # NoText
    /\ Show(e, [page[e] EXCEPT !.buffer = Blank])
    /\ UNCHANGED <<own, row, versions, lock, cache, fetch, save, edits, excused>>

\* Save all expects the sha fetched last (mutant).
StartSaveOnLatest(e, i) ==
    /\ save[e].phase = "none" /\ page[e].data # NoText
    /\ On(e, page[e]) # page[e].data
    /\ save' = [save EXCEPT ![e] = [phase |-> "sent", at |-> i, text |-> On(e, page[e]),
                  expected |-> page[e].sha,
                  kind |-> "save"]]
    /\ UNCHANGED <<own, row, versions, lock, cache, page, fetch, edits, excused, shown>>

\* Save, or Save all with one draft.
StartSave(e, i) ==
    /\ save[e].phase = "none" /\ page[e].data # NoText
    /\ On(e, page[e]) # page[e].data
    /\ save' = [save EXCEPT ![e] = [phase |-> "sent", at |-> i, text |-> On(e, page[e]),
                  expected |-> IF e \in Studio THEN page[e].base ELSE page[e].sha,
                  kind |-> "save"]]
    /\ UNCHANGED <<own, row, versions, lock, cache, page, fetch, edits, excused, shown>>

StartRevert(e, i) ==
    /\ save[e].phase = "none" /\ page[e].data # NoText
    /\ \E v \in ToSet(versions) :
         /\ save' = [save EXCEPT ![e] = [phase |-> "sent", at |-> i, text |-> v.sha,
                                      expected |-> page[e].sha, kind |-> "revert"]]
         /\ shown' = [shown EXCEPT ![e] = @ \cup {v.sha}]
    /\ UNCHANGED <<own, row, versions, lock, cache, page, fetch, edits, excused>>

-----------------------------------------------------------------------------
(* PUT and POST revert: one transaction, then invalidate().                *)

\* The sha expected is that of the text in force, own or inherited.
Accepts(e) == save[e].expected = row /\ (own \/ save[e].kind = "save")

NewVersion(e) ==
    [sha |-> save[e].text, by |-> e, kind |-> save[e].kind,
     parent |-> IF save[e].phase = "update" THEN save[e].expected ELSE NoSha]

\* The row is read without FOR UPDATE (mutant).
BeginUnlocked(e) ==
    /\ save[e].phase = "sent"
    /\ own => lock = {}
    /\ IF Accepts(e)
       THEN /\ save' = [save EXCEPT ![e].phase = IF own THEN "update" ELSE "insert"]
            /\ lock' = lock
       ELSE /\ save' = [save EXCEPT ![e].phase = "refused"]
            /\ UNCHANGED lock
    /\ UNCHANGED <<own, row, versions, cache, page, fetch, edits, excused, shown>>

\* SELECT ... FOR UPDATE and the comparison of shas.  A row that does not
\* exist yet is locked by nobody; a revert of it is refused.
Begin(e) ==
    /\ save[e].phase = "sent"
    /\ own => lock = {}
    /\ IF Accepts(e)
       THEN /\ save' = [save EXCEPT ![e].phase = IF own THEN "update" ELSE "insert"]
            /\ lock' = IF own THEN {e} ELSE lock
       ELSE /\ save' = [save EXCEPT ![e].phase = "refused"]
            /\ UNCHANGED lock
    /\ UNCHANGED <<own, row, versions, cache, page, fetch, edits, excused, shown>>

\* The upsert of a first save waits for a row lock taken since.
Commit(e) ==
    /\ save[e].phase \in {"update", "insert"}
    /\ lock \subseteq {e}
    /\ Len(versions) < MaxVersions
    /\ own' = TRUE
    /\ row' = save[e].text
    /\ versions' = Append(versions, NewVersion(e))
    /\ lock' = lock \ {e}
    /\ save' = [save EXCEPT ![e].phase = "committed"]
    /\ fetch' = [f \in Editors |-> IF fetch[f].phase = "loading"
                                   THEN [fetch[f] EXCEPT !.overlap = TRUE] ELSE fetch[f]]
    /\ excused' = excused \cup {i \in Isolates : cache[i] \in Texts}
    /\ UNCHANGED <<cache, page, edits, shown>>

Invalidate(e) ==
    /\ save[e].phase = "committed"
    /\ cache' = [cache EXCEPT ![save[e].at] = Null]
    /\ excused' = excused \ {save[e].at}
    /\ save' = [save EXCEPT ![e].phase = "saved"]
    /\ UNCHANGED <<own, row, versions, lock, page, fetch, edits, shown>>

\* The page after its save.  Save all drops the draft, whatever it holds by now;
\* otherwise the page takes the new sha, and that of a policy the saved text too.
Settled(e) ==
    IF e \in Studio /\ save[e].kind = "save"
    THEN [page[e] EXCEPT !.buffer = NoText, !.base = NoText]
    ELSE IF Policy THEN [data |-> save[e].text, sha |-> save[e].text, base |-> NoText,
                         buffer |-> IF e \in Library THEN save[e].text ELSE NoText]
    ELSE [page[e] EXCEPT !.sha = save[e].text]

SaveOk(e) ==
    /\ save[e].phase = "saved"
    /\ save' = [save EXCEPT ![e] = NoSave]
    /\ Show(e, Settled(e))
    /\ UNCHANGED <<own, row, versions, lock, cache, fetch, edits, excused>>

SaveRefused(e) ==
    /\ save[e].phase = "refused"
    /\ save' = [save EXCEPT ![e] = NoSave]
    /\ UNCHANGED <<own, row, versions, lock, cache, page, fetch, edits, excused, shown>>

\* An isolate is replaced; loads it had under way are lost with it.
Recycle(i) ==
    /\ cache[i] # Null
    /\ cache' = [cache EXCEPT ![i] = Null]
    /\ excused' = excused \ {i}
    /\ fetch' = [e \in Editors |-> IF fetch[e].at = i THEN NoFetch ELSE fetch[e]]
    /\ UNCHANGED <<own, row, versions, lock, page, save, edits, shown>>

-----------------------------------------------------------------------------
Init ==
    /\ own = ~Inherits
    /\ row = 0 /\ versions = <<>> /\ lock = {} /\ edits = 0 /\ excused = {}
    /\ cache = [i \in Isolates |-> Null]
    /\ page = [e \in Editors |-> [data |-> NoText, sha |-> NoText,
                 buffer |-> IF e \in Library THEN Blank ELSE NoText, base |-> NoText]]
    /\ fetch = [e \in Editors |-> NoFetch]
    /\ save = [e \in Editors |-> NoSave]
    /\ shown = [e \in Editors |-> {}]

Next ==
    \/ \E e \in Editors : \/ EndLoad(e) \/ Arrive(e) \/ Type(e) \/ Reload(e)
                          \/ Begin(e) \/ Commit(e) \/ Invalidate(e)
                          \/ SaveOk(e) \/ SaveRefused(e)
    \/ \E e \in Editors, i \in Isolates :
         Hit(e, i) \/ StartLoad(e, i) \/ StartSave(e, i) \/ StartRevert(e, i)
    \/ \E i \in Isolates : Recycle(i)

Spec == Init /\ [][Next]_vars

-----------------------------------------------------------------------------
TypeOK ==
    /\ own \in BOOLEAN /\ row \in Texts /\ lock \subseteq Editors
    /\ cache \in [Isolates -> Texts \cup {Null, Empty}]
    /\ \A e \in Editors :
         /\ page[e].data \in Texts \cup {NoText}
         /\ e \in Studio => (page[e].buffer = NoText) = (page[e].base = NoText)
         /\ save[e].phase = "update" => e \in lock
    /\ Cardinality(lock) <= 1

\* The history is one chain that ends in the text in force: every version
\* replaces the one before it.  Only first saves of a voice that had no row
\* can stand beside each other without one naming the other.
HistoryIsChain ==
    /\ versions # <<>> => Last(versions).sha = row
    /\ \A n \in 2 .. Len(versions) :
         \/ versions[n].parent = versions[n - 1].sha
         \/ Inherits /\ versions[n].parent = NoSha
    /\ versions # <<>> /\ ~Inherits => versions[1].parent = 0

\* The text that version n replaced; the first one replaces the seeded or the
\* inherited text.
Replaced(n) == IF n = 1 THEN 0 ELSE versions[n - 1].sha

\* Nobody overwrites a text unseen: whoever saved or reverted had the text that
\* this replaced in front of them, in the buffer or under the draft, although a
\* page tracks a sha that is newer than what it displays, and a cache may be
\* older than either.  Three writes are exempt, because the code lets them
\* overwrite what their author never saw:
\*   - a first save that overlapped another one: no row is there to be locked,
\*     both compare their sha with the inherited text, and the later upsert
\*     replaces the text of the earlier (routes/source_policy.ts:193-229);
\*   - a policy draft of the Studio, which takes the sha of whatever was fetched
\*     last, and Save all overwrites that text (SourcePolicyEditor.tsx:233);
\*   - a revert in the Studio, which sends the sha of the text that was fetched,
\*     while the draft hides that text.
NoBlindOverwrite ==
    \A n \in DOMAIN versions :
        LET v == versions[n] IN
        \/ n > 1 /\ v.parent = NoSha
        \/ v.by \in Studio /\ (Policy \/ v.kind = "revert")
        \/ Replaced(n) \in shown[v.by]

\* An isolate serves a replaced text only if another isolate saved since it
\* loaded, or if a load of its own overlapped the commit: a save through the
\* isolate itself clears what it had cached.
StaleIsForeign == \A i \in Isolates : cache[i] \in Texts /\ cache[i] # row => i \in excused

\* A text that was typed and not saved leaves the screen only when its editor
\* types or reloads, when the library page fetches a text that others, or its
\* own save, changed, or when a save it is not part of ends: Save all, or any
\* save and revert of a policy.
Unsaved(e) == page[e].buffer > 0 /\ \A v \in ToSet(versions) : v.sha # page[e].buffer
TypingStep ==
    \A e \in Editors :
        Unsaved(e) /\ page'[e].buffer # page[e].buffer =>
            \/ edits' > edits \/ page'[e].buffer = Blank
            \/ e \in Library /\ page'[e].data # page[e].data
            \/ save[e].phase = "saved" /\ (e \in Studio \/ Policy)
TypingIsKept == [][TypingStep]_vars
=============================================================================
