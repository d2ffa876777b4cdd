----------------------------- MODULE LedgerDrawer -----------------------------
(***************************************************************************)
(* The destination fields of one run, edited from the Runs ledger: the     *)
(* drawer with its debounced autosave (web/components/runs-ledger,         *)
(* useCmsAutosave, RunDrawer), the bulk bar and the bulk form, and behind  *)
(* them PATCH /runs/:id and the fields of an approval (routes/runs.ts).    *)
(* A tab keeps two cached copies of the row, the list and the drawer's     *)
(* detail, and seeds the drawer's form from one of them.                   *)
(* A value is the number of the edit that made it; 0 is the run's own.     *)
(***************************************************************************)
EXTENDS Integers, FiniteSets

CONSTANTS
    Drawers,     \* browser tabs on the ledger that open the drawer
    Bulks,       \* browser tabs on the ledger that select rows
    Carried,     \* fields a bulk approval carries: author, category, slug, status
    Others,      \* those it leaves null: the authors and tags of Ghost
    NoRow, Asked,
    MaxEdits     \* bound: edits and approvals

Tabs == Drawers \cup Bulks
Fields == Carried \cup Others
Null == -1
Keep == -2       \* a field that a request leaves out
Values == Null .. MaxEdits

VARIABLES
    row,         \* the fields in content_tool.runs
    atGate,      \* the run waits for its second decision
    list,        \* tab -> ["runs", "ledger"], this run
    detail,      \* tab -> ["run", runId]
    fetch,       \* tab -> the two GETs: NoRow, Asked or the answer on its way
    form,        \* tab -> the drawer
    reqs,        \* PATCHes and approvals on their way
    edits,
    foreign      \* history: tab -> fields others stored since its list was read
vars == <<row, atGate, list, detail, fetch, form, reqs, edits, foreign>>

-----------------------------------------------------------------------------
\* History: old are the fields that the form may show or send as they were,
\* again those that it does because the detail was cached by an earlier opening.
Shut == [open |-> FALSE, val |-> [f \in Fields |-> 0], timer |-> FALSE, dry |-> FALSE,
         old |-> {}, again |-> {}]

Mine(t) == {q \in reqs : q.by = t}
Quiet(t) == Mine(t) = {} /\ fetch[t].list = NoRow

\* Invalidating a query starts it anew.
Ask(t, q) == fetch' = [fetch EXCEPT ![t][q] = Asked]

Request(t, kind, val, old) ==
    [id |-> edits, by |-> t, kind |-> kind, val |-> val, old |-> old, pc |-> "sent"]

\* Requests of one tab that overlap may be stored in any order.
Send(q) ==
    reqs' = {IF p.by = q.by THEN [p EXCEPT !.old = Fields] ELSE p : p \in reqs}
            \cup {IF Mine(q.by) = {} THEN q ELSE [q EXCEPT !.old = Fields]}

-----------------------------------------------------------------------------
(* The drawer.                                                             *)

\* The form is seeded once, from the detail if the tab has one cached.
Open(t) ==
    /\ ~form[t].open
    /\ LET again == detail[t] # NoRow
           seed == IF again THEN detail[t] ELSE list[t] IN
       /\ form' = [form EXCEPT ![t] =
            [Shut EXCEPT !.open = TRUE, !.val = seed,
                         !.again = {f \in Fields : again /\ seed[f] # row[f]},
                         !.old = IF Quiet(t) THEN foreign[t] ELSE Fields]]
       /\ detail' = [detail EXCEPT ![t] = seed]
    /\ Ask(t, "detail")
    /\ UNCHANGED <<row, atGate, list, reqs, edits, foreign>>

SetField(t, f) ==
    /\ form[t].open /\ edits < MaxEdits
    /\ edits' = edits + 1
    /\ form' = [form EXCEPT ![t].val[f] = edits + 1, ![t].timer = TRUE]
    /\ UNCHANGED <<row, atGate, list, detail, fetch, reqs, foreign>>

\* buildPatch: every field, whatever was touched.
Autosave(t) ==
    /\ form[t].timer
    /\ form' = [form EXCEPT ![t].timer = FALSE,
                            ![t].old = IF Mine(t) = {} THEN @ ELSE Fields]
    /\ Send(Request(t, "patch", form[t].val, form[t].old \cup form[t].again))
    /\ UNCHANGED <<row, atGate, list, detail, fetch, edits, foreign>>

\* A close drops the timer, and what it was to save.
Close(t) ==
    /\ form[t].open
    /\ form' = [form EXCEPT ![t] = Shut]
    /\ UNCHANGED <<row, atGate, list, detail, fetch, reqs, edits, foreign>>

\* Approve & publish: the preview cancels the timer, the confirmation carries
\* the form as it is by then.
Preview(t) ==
    /\ form[t].open /\ ~form[t].dry
    /\ form' = [form EXCEPT ![t].dry = TRUE, ![t].timer = FALSE,
                            ![t].old = IF form[t].timer THEN Fields ELSE @]
    /\ UNCHANGED <<row, atGate, list, detail, fetch, reqs, edits, foreign>>

\* Nothing saves what the timer was to save.
Dismiss(t) ==
    /\ form[t].dry
    /\ form' = [form EXCEPT ![t].dry = FALSE]
    /\ UNCHANGED <<row, atGate, list, detail, fetch, reqs, edits, foreign>>

Confirm(t) ==
    /\ form[t].open /\ form[t].dry /\ edits < MaxEdits
    /\ edits' = edits + 1
    /\ form' = [form EXCEPT ![t].dry = FALSE, ![t].old = IF Mine(t) = {} THEN @ ELSE Fields]
    /\ Send(Request(t, "approve", form[t].val, form[t].old \cup form[t].again))
    /\ UNCHANGED <<row, atGate, list, detail, fetch, foreign>>

-----------------------------------------------------------------------------
(* Bulk actions, on the rows of the list.                                  *)

BulkSet(t, f) ==
    /\ edits < MaxEdits
    /\ edits' = edits + 1
    /\ Send(Request(t, "patch", [g \in Fields |-> IF g = f THEN edits + 1 ELSE Keep], {}))
    /\ form' = [form EXCEPT ![t].old = IF form[t].open THEN @ \cup {f} ELSE @]
    /\ UNCHANGED <<row, atGate, list, detail, fetch, foreign>>

\* publishBody.
BulkApprove(t) ==
    /\ edits < MaxEdits
    /\ edits' = edits + 1
    /\ Send(Request(t, "approve", [f \in Fields |-> IF f \in Carried THEN list[t][f] ELSE Null],
                    IF Quiet(t) THEN foreign[t] ELSE Fields))
    /\ form' = [form EXCEPT ![t].old = IF form[t].open THEN Fields ELSE @]
    /\ UNCHANGED <<row, atGate, list, detail, fetch, foreign>>

-----------------------------------------------------------------------------
(* The Worker.                                                             *)

\* What a PATCH leaves out is written too (mutant).
Replaced(q) == [f \in Fields |-> IF q.val[f] = Keep THEN Null ELSE q.val[f]]

\* PATCH merges: null keeps a field, and the arrays of Ghost are never null.
Merged(q) ==
    [f \in Fields |-> IF q.kind = "patch" /\ (q.val[f] = Keep \/ (q.val[f] = Null /\ f \in Carried))
                      THEN row[f] ELSE q.val[f]]

Changed(q) == {f \in Fields : row[f] # Merged(q)[f]}

\* The write is one statement.  An approval assigns every field, and only once.
Store(q) ==
    /\ q \in reqs /\ q.pc = "sent"
    /\ LET ok == q.kind = "patch" \/ atGate
           told(p) == IF ok /\ p.by # q.by THEN [p EXCEPT !.old = @ \cup Changed(q)] ELSE p IN
       /\ row' = IF ok THEN Merged(q) ELSE row
       /\ atGate' = (atGate /\ q.kind = "patch")
       /\ reqs' = {told(p) : p \in reqs \ {q}} \cup {[q EXCEPT !.pc = IF ok THEN "ok" ELSE "failed"]}
       /\ foreign' = [t \in Tabs |-> IF ok /\ t # q.by THEN foreign[t] \cup Changed(q) ELSE foreign[t]]
       /\ form' = [t \in Tabs |-> IF ok /\ t # q.by /\ form[t].open
                                  THEN [form[t] EXCEPT !.old = @ \cup Changed(q)] ELSE form[t]]
    /\ UNCHANGED <<list, detail, fetch, edits>>

\* A request fails, or its answer is lost.
Fail(q) ==
    /\ q \in reqs /\ q.pc \in {"sent", "ok"}
    /\ reqs' = (reqs \ {q}) \cup {[q EXCEPT !.pc = "failed"]}
    /\ UNCHANGED <<row, atGate, list, detail, fetch, form, edits, foreign>>

\* The answer leaves the list alone (mutant).
AnswerOnly(q) ==
    /\ q \in reqs /\ q.pc \in {"ok", "failed"}
    /\ reqs' = reqs \ {q}
    /\ form' = [form EXCEPT ![q.by] =
         IF q.pc = "ok" /\ q.kind = "approve" THEN Shut
         ELSE IF q.pc = "failed" /\ @.open THEN [@ EXCEPT !.old = Fields] ELSE @]
    /\ fetch' = fetch
    /\ UNCHANGED <<row, atGate, list, detail, edits, foreign>>

\* Whatever the answer, the list is read again; an approval refreshes the detail
\* too, and closes the drawer.  After a failure the form stays as it is.
Answer(q) ==
    /\ q \in reqs /\ q.pc \in {"ok", "failed"}
    /\ reqs' = reqs \ {q}
    /\ form' = [form EXCEPT ![q.by] =
         IF q.pc = "ok" /\ q.kind = "approve" THEN Shut
         ELSE IF q.pc = "failed" /\ @.open THEN [@ EXCEPT !.old = Fields] ELSE @]
    /\ fetch' = [fetch EXCEPT ![q.by] =
         [list |-> Asked, detail |-> IF q.pc = "ok" /\ q.kind = "approve" THEN Asked ELSE @.detail]]
    /\ UNCHANGED <<row, atGate, list, detail, edits, foreign>>

Read(t, k) ==
    /\ fetch[t][k] = Asked
    /\ fetch' = [fetch EXCEPT ![t][k] = row]
    /\ foreign' = IF k = "list" THEN [foreign EXCEPT ![t] = {}] ELSE foreign
    /\ UNCHANGED <<row, atGate, list, detail, form, reqs, edits>>

\* The data arrives; an open form keeps what it was seeded with.
Arrive(t, k) ==
    /\ fetch[t][k] \notin {NoRow, Asked}
    /\ fetch' = [fetch EXCEPT ![t][k] = NoRow]
    /\ IF k = "list" THEN list' = [list EXCEPT ![t] = fetch[t][k]] /\ UNCHANGED detail
                     ELSE detail' = [detail EXCEPT ![t] = fetch[t][k]] /\ UNCHANGED list
    /\ UNCHANGED <<row, atGate, form, reqs, edits, foreign>>

-----------------------------------------------------------------------------
Init ==
    /\ row = [f \in Fields |-> 0] /\ atGate = TRUE
    /\ list = [t \in Tabs |-> row] /\ detail = [t \in Tabs |-> NoRow]
    /\ fetch = [t \in Tabs |-> [list |-> NoRow, detail |-> NoRow]]
    /\ form = [t \in Tabs |-> Shut]
    /\ reqs = {} /\ edits = 0 /\ foreign = [t \in Tabs |-> {}]

Next ==
    \/ \E t \in Drawers :
          \/ Open(t) \/ Autosave(t) \/ Close(t) \/ Preview(t) \/ Dismiss(t) \/ Confirm(t)
          \/ \E f \in Fields : SetField(t, f)
    \/ \E t \in Bulks : BulkApprove(t) \/ \E f \in Carried : BulkSet(t, f)
    \/ \E t \in Tabs, k \in {"list", "detail"} : Read(t, k) \/ Arrive(t, k)
    \/ \E q \in reqs : Store(q) \/ Fail(q) \/ Answer(q)

Spec == Init /\ [][Next]_vars

-----------------------------------------------------------------------------
TypeOK ==
    /\ row \in [Fields -> Values] /\ atGate \in BOOLEAN /\ edits \in 0 .. MaxEdits
    /\ list \in [Tabs -> [Fields -> Values]]
    /\ detail \in [Tabs -> [Fields -> Values] \cup {NoRow}]
    /\ \A t \in Tabs : form[t].timer => form[t].open /\ detail[t] # NoRow
    /\ \A q \in reqs : Keep \notin {row[f] : f \in Fields} /\ q.by \in Tabs

\* A field never goes back to an older value, or to none, except by a form or a
\* list that was legitimately behind: others stored the field since it was read,
\* requests of the tab overlapped or failed, or the drawer was reopened on the
\* detail of an earlier opening; and by a bulk approval, which assigns null to
\* the fields it does not carry.
FieldsKeepStep ==
    \A q \in reqs : Store(q) =>
        \A f \in Fields : row'[f] < row[f] =>
            f \in q.old \/ (f \in Others /\ q.kind = "approve" /\ row'[f] = Null)
FieldsKeep == [][FieldsKeepStep]_vars

\* A drawer at rest, with nothing to save or on its way, shows the row: the
\* debounce, the list cache and the seeding lose nothing, but for fields that
\* others stored since, and after overlaps, failures and dropped timers.
Rests(t) == form[t].open /\ ~form[t].timer /\ Quiet(t)
DrawerIsCurrent ==
    \A t \in Tabs : Rests(t) =>
        \A f \in Fields \ (form[t].old \cup form[t].again) : form[t].val[f] = row[f]

=============================================================================
