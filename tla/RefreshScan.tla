----------------------------- MODULE RefreshScan -----------------------------
(***************************************************************************)
(* The refresh scan of onboarded articles: workflow instances that select  *)
(* the due articles and scan them in chunks of durable steps, the route    *)
(* that scans one article synchronously, and the dismissal of an article.  *)
(*                                                                         *)
(* An article's next_scan_due_at is its place in queue (the due articles,  *)
(* the longest overdue first) or its absence from it.  Its evaluations are *)
(* counted: open[a] is the number whose outcome is still 'open'.           *)
(*                                                                         *)
(* CronTicks are the instances the Cron Trigger creates, ManualTicks       *)
(* those of POST /refresh/scan: without article_ids one selects as a cron  *)
(* tick does, so one of each is also two overlapping cron ticks.           *)
(***************************************************************************)
EXTENDS Naturals, FiniteSets, SequencesExt

CONSTANTS
    Articles,
    CronTicks, ManualTicks, \* the workflow instances
    Requests,               \* the POST /refresh/scan/:articleId requests
    Concurrency,            \* refresh.scan.concurrency: articles of a chunk
    BatchSize,              \* refresh.scan.batch_size
    Cap,                    \* refresh.scan.llm_cap_per_tick
    MaxFaults,              \* bound: failed statements and lost isolates
    MaxDismissals           \* bound: dismissals

Ticks == CronTicks \cup ManualTicks
Scanners == Ticks \cup Requests

VARIABLES
    queue,      \* the due articles, ORDER BY next_scan_due_at ASC
    snoozed,    \* articles whose next_scan_due_at is the end of a dismissal
    dismissed,  \* dismissed_until: "no", "marking" and "active" (future), "past"
    inflight,   \* articles with a run in one of IN_FLIGHT_STATUSES
    open,       \* article -> number of its open evaluations
    tick,       \* workflow instance -> its progress
    job,        \* scanner, article -> the scan of that article
    faults, dismissals,     \* what the bounds count
    overlap,    \* articles two scans of which were inserting together (history)
    excused     \* articles dismissed around a scan (history)
vars == <<queue, snoozed, dismissed, inflight, open, tick, job, faults,
          dismissals, overlap, excused>>

Busy == {"audited", "superseded", "inserted"}
NoJob == [pc |-> "idle", grant |-> 0, advance |-> FALSE, used |-> 0]
NoTick == [running |-> FALSE, list |-> <<>>, at |-> 1, budget |-> 0]
Snoozing(a) == dismissed[a] \in {"marking", "active"}

-----------------------------------------------------------------------------
(* The verdict on a published page.                                        *)

\* A page by what the checks see of it: external links that fail, the FAQ
\* widget without or with its JSON-LD, and its heading levels.
Pages == [broken : 0 .. 12, faq : {"none", "bare", "marked"},
          headings : {<<2, 3, 2>>, <<2, 4, 6>>}]
Ages == 0 .. 400

\* Only the first skipped level is reported.
HeadingSkip(page) ==
    IF \E i \in 2 .. Len(page.headings) : page.headings[i] > page.headings[i - 1] + 1
    THEN 1 ELSE 0
SeverityHigh(page) == IF page.faq = "bare" THEN 1 ELSE 0
SeverityMedium(page) == page.broken + HeadingSkip(page)
Passed(page) == SeverityHigh(page) = 0 /\ SeverityMedium(page) <= 1

\* The score in hundredths, clamped to [0, 1000].
Score(high, medium, llm, age) ==
    LET ageTerm == IF age >= 180 THEN 400 ELSE (400 * age) \div 180
        llmTerm == CASE llm = "high" -> 300 [] llm = "medium" -> 150 [] OTHER -> 0
        raw == ageTerm + 200 * high + 50 * medium + llmTerm
    IN IF raw > 1000 THEN 1000 ELSE raw
Recommended(page, llm, age) ==
    LET score == Score(SeverityHigh(page), SeverityMedium(page), llm, age)
    IN IF score >= 600 \/ SeverityHigh(page) > 0 \/ llm = "high" THEN "refresh"
       ELSE IF score >= 300 THEN "monitor" ELSE "ok"

\* advance_schedule: "refresh" leaves the article overdue.
Advances(action) == action # "refresh"

\* How the fetch and the audits of scanArticle can end: does the schedule
\* advance, and does the step report an LLM call.  A failed fetch advances it
\* by a day, a page that is not found is a "refresh"; a page that passed, that
\* may not call the LLM or whose call fails reports none; a page that was
\* audited by the LLM can be given every verdict.
Audits(grant) == [advance : {Advances(r) : r \in {"refresh", "monitor", "ok"}},
                  used : 0 .. grant]

-----------------------------------------------------------------------------
(* Selecting and fanning out: RefreshScanWorkflow.run.                     *)

\* ORDER BY next_scan_due_at: what is not due comes after what is.
Before(a, b) == \E i \in DOMAIN queue :
                  queue[i] = a /\ \A j \in DOMAIN queue : queue[j] = b => i < j
Ordered(ids) == {list \in SetToSeqs(ids) :
                   \A i, j \in DOMAIN list : Before(list[i], list[j]) => i < j}

Eligible(a) == a \in ToSet(queue) /\ ~Snoozing(a) /\ a \notin inflight

\* Mutant: the batches of the most recently due.
BatchesNewest ==
    LET eligible == {a \in Articles : Eligible(a)}
    IN {ids \in SUBSET eligible :
          /\ Cardinality(ids) <= BatchSize
          /\ ids # eligible => Cardinality(ids) = BatchSize
          /\ \A a \in ids, b \in eligible \ ids : Before(b, a)}

\* LIMIT: the batches of eligible articles before all others.
Batches ==
    LET eligible == {a \in Articles : Eligible(a)}
    IN {ids \in SUBSET eligible :
          /\ Cardinality(ids) <= BatchSize
          /\ ids # eligible => Cardinality(ids) = BatchSize
          /\ \A a \in ids, b \in eligible \ ids : Before(a, b)}

\* Named articles: neither a dismissal nor a run in flight excludes one; the
\* due date does unless the request says force.
NamedSelection(ids, force) == Ordered(IF force THEN ids ELSE ids \cap ToSet(queue))

StartTick(t, list) ==
    /\ ~tick[t].running
    /\ tick' = [tick EXCEPT ![t] = [running |-> TRUE, list |-> list, at |-> 1,
                                    budget |-> Cap]]
    /\ UNCHANGED <<queue, snoozed, dismissed, inflight, open, job, faults,
                   dismissals, overlap>>

SelectDue(t) ==
    \E ids \in Batches : \E list \in Ordered(ids) : StartTick(t, list) /\ UNCHANGED excused
CronScan(t) == t \in CronTicks /\ SelectDue(t)
ManualScan(t) ==
    /\ t \in ManualTicks
    /\ \/ SelectDue(t)
       \/ \E ids \in (SUBSET Articles) \ {{}}, force \in BOOLEAN :
            \E list \in NamedSelection(ids, force) :
              /\ StartTick(t, list)
              /\ excused' = excused \cup {a \in ToSet(list) : Snoozing(a)}

Chunk(t) == SubSeq(tick[t].list, tick[t].at,
                   IF tick[t].at + Concurrency - 1 < Len(tick[t].list)
                   THEN tick[t].at + Concurrency - 1 ELSE Len(tick[t].list))

\* The first reservedThisChunk articles of a chunk may call the LLM.
Grant(t, i) == IF i <= tick[t].budget THEN 1 ELSE 0
StartChunk(t) ==
    /\ tick[t].running /\ tick[t].at <= Len(tick[t].list)
    /\ \A a \in Articles : job[t][a].pc = "idle"
    /\ job' = [job EXCEPT ![t] = [a \in Articles |->
                 IF a \in ToSet(Chunk(t))
                 THEN [NoJob EXCEPT !.pc = "ready",
                         !.grant = Grant(t, CHOOSE i \in DOMAIN Chunk(t) : Chunk(t)[i] = a)]
                 ELSE NoJob]]
    /\ UNCHANGED <<queue, snoozed, dismissed, inflight, open, tick, faults,
                   dismissals, overlap, excused>>

Settled(t) == \A a \in ToSet(Chunk(t)) : job[t][a].pc \in {"ok", "failed"}
\* A step reports one call or none.
UsedThisChunk(t) == Cardinality({a \in ToSet(Chunk(t)) : job[t][a].used = 1})
EndChunk(t) ==
    /\ tick[t].running /\ tick[t].at <= Len(tick[t].list)
    /\ Settled(t)
    /\ tick' = [tick EXCEPT ![t].at = @ + Concurrency,
                            ![t].budget = @ - UsedThisChunk(t)]
    /\ job' = [job EXCEPT ![t] = [a \in Articles |-> NoJob]]
    /\ UNCHANGED <<queue, snoozed, dismissed, inflight, open, faults, dismissals,
                   overlap, excused>>

EndTick(t) ==
    /\ tick[t].running /\ tick[t].at > Len(tick[t].list)
    /\ tick' = [tick EXCEPT ![t] = NoTick]
    /\ UNCHANGED <<queue, snoozed, dismissed, inflight, open, job, faults,
                   dismissals, overlap, excused>>

\* POST /refresh/scan/:articleId: any dismissal, also one that is over,
\* refuses the scan unless forced; a run in flight always does.
ScanOneRequest(r, a, force) ==
    /\ \A b \in Articles : job[r][b].pc = "idle"
    /\ dismissed[a] = "no" \/ force
    /\ a \notin inflight
    /\ job' = [job EXCEPT ![r][a] = [NoJob EXCEPT !.pc = "ready", !.grant = 1]]
    /\ excused' = IF Snoozing(a) THEN excused \cup {a} ELSE excused
    /\ UNCHANGED <<queue, snoozed, dismissed, inflight, open, tick, faults,
                   dismissals, overlap>>

-----------------------------------------------------------------------------
(* One scan: scanArticle, one action between two statements.               *)

Audit(s, a) ==
    /\ job[s][a].pc = "ready"
    /\ \E r \in Audits(job[s][a].grant) :
         job' = [job EXCEPT ![s][a] = [pc |-> "audited", grant |-> 0,
                   advance |-> r.advance, used |-> IF s \in Requests THEN 0 ELSE r.used]]
    /\ UNCHANGED <<queue, snoozed, dismissed, inflight, open, tick, faults,
                   dismissals, overlap, excused>>

\* Mutant: a scan by the route leaves the old evaluation open.
SupersedeKeeps(s, a) ==
    /\ job[s][a].pc = "audited"
    /\ job' = [job EXCEPT ![s][a].pc = "superseded"]
    /\ open' = [open EXCEPT ![a] = IF s \in Ticks THEN 0 ELSE @]
    /\ overlap' = IF \E r \in Scanners \ {s} : job[r][a].pc = "superseded"
                  THEN overlap \cup {a} ELSE overlap \ {a}
    /\ UNCHANGED <<queue, snoozed, dismissed, inflight, tick, faults, dismissals,
                   excused>>

Supersede(s, a) ==
    /\ job[s][a].pc = "audited"
    /\ job' = [job EXCEPT ![s][a].pc = "superseded"]
    /\ open' = [open EXCEPT ![a] = 0]
    /\ overlap' = IF \E r \in Scanners \ {s} : job[r][a].pc = "superseded"
                  THEN overlap \cup {a} ELSE overlap \ {a}
    /\ UNCHANGED <<queue, snoozed, dismissed, inflight, tick, faults, dismissals,
                   excused>>

InsertOpen(s, a) ==
    /\ job[s][a].pc = "superseded"
    /\ job' = [job EXCEPT ![s][a].pc = "inserted"]
    /\ open' = [open EXCEPT ![a] = @ + 1]
    /\ UNCHANGED <<queue, snoozed, dismissed, inflight, tick, faults, dismissals,
                   overlap, excused>>

\* A route scan is over once it has answered; a tick's waits for its chunk.
Ended(s, a, end) ==
    IF s \in Requests THEN NoJob
    ELSE [NoJob EXCEPT !.pc = end, !.used = IF end = "ok" THEN job[s][a].used ELSE 0]

PersistSchedule(s, a) ==
    /\ job[s][a].pc = "inserted"
    /\ job' = [job EXCEPT ![s][a] = Ended(s, a, "ok")]
    /\ IF job[s][a].advance
       THEN /\ queue' = SelectSeq(queue, LAMBDA b : b # a)
            /\ snoozed' = snoozed \ {a}
       ELSE UNCHANGED <<queue, snoozed>>
    /\ UNCHANGED <<dismissed, inflight, open, tick, faults, dismissals, overlap, excused>>

\* A statement throws: scanOne reports a scan_exception and no LLM call.
Throw(s, a) ==
    /\ job[s][a].pc \in Busy \cup {"ready"}
    /\ faults < MaxFaults
    /\ faults' = faults + 1
    /\ job' = [job EXCEPT ![s][a] = Ended(s, a, "failed")]
    /\ UNCHANGED <<queue, snoozed, dismissed, inflight, open, tick, dismissals,
                   overlap, excused>>

\* The isolate is lost before the step's result is stored: the step runs again.
Rerun(t, a) ==
    /\ job[t][a].pc \in Busy \cup {"ok", "failed"}
    /\ faults < MaxFaults
    /\ faults' = faults + 1
    /\ job' = [job EXCEPT ![t][a] = [NoJob EXCEPT !.pc = "ready",
                 !.grant = Grant(t, CHOOSE i \in DOMAIN Chunk(t) : Chunk(t)[i] = a)]]
    /\ UNCHANGED <<queue, snoozed, dismissed, inflight, open, tick, dismissals,
                   overlap, excused>>

-----------------------------------------------------------------------------
(* Dismissals, runs and the passing of time.                               *)

Scanning(a) == \E s \in Scanners : job[s][a].pc \notin {"idle", "ok", "failed"}
Selected(a) == \E t \in Ticks : tick[t].running /\ a \in ToSet(tick[t].list)

\* POST /articles/:id/dismiss sets the columns first ...
Dismiss(a) ==
    /\ dismissals < MaxDismissals /\ dismissed[a] # "marking"
    /\ dismissals' = dismissals + 1
    /\ dismissed' = [dismissed EXCEPT ![a] = "marking"]
    /\ snoozed' = snoozed \cup {a}
    /\ queue' = SelectSeq(queue, LAMBDA b : b # a)
    /\ excused' = IF Scanning(a) \/ Selected(a) THEN excused \cup {a} ELSE excused \ {a}
    /\ UNCHANGED <<inflight, open, tick, job, faults, overlap>>

\* ... and then takes the latest open evaluation, if any, out of the list.
\* An evaluation superseded between its SELECT and its UPDATE only changes
\* label, as if both had run before.
MarkEvaluation(a) ==
    /\ dismissed[a] = "marking"
    /\ dismissed' = [dismissed EXCEPT ![a] = "active"]
    /\ open' = [open EXCEPT ![a] = IF @ > 0 THEN @ - 1 ELSE 0]
    /\ excused' = IF open[a] > 1 THEN excused \cup {a} ELSE excused
    /\ UNCHANGED <<queue, snoozed, inflight, tick, job, faults, dismissals, overlap>>

DismissalDies(a) ==
    /\ dismissed[a] = "marking" /\ faults < MaxFaults
    /\ faults' = faults + 1
    /\ dismissed' = [dismissed EXCEPT ![a] = "active"]
    /\ excused' = excused \cup {a}
    /\ UNCHANGED <<queue, snoozed, inflight, open, tick, job, dismissals, overlap>>

\* DELETE /articles/:id/dismiss leaves next_scan_due_at where it was.
ClearDismissal(a) ==
    /\ dismissed[a] \in {"active", "past"}
    /\ dismissed' = [dismissed EXCEPT ![a] = "no"]
    /\ UNCHANGED <<queue, snoozed, inflight, open, tick, job, faults, dismissals,
                   overlap, excused>>

DismissalPasses(a) ==
    /\ dismissed[a] = "active"
    /\ dismissed' = [dismissed EXCEPT ![a] = "past"]
    /\ snoozed' = snoozed \ {a}
    /\ queue' = IF a \in snoozed THEN Append(queue, a) ELSE queue
    /\ UNCHANGED <<inflight, open, tick, job, faults, dismissals,
                   overlap, excused>>

BecomesDue(a) ==
    /\ a \notin ToSet(queue)
    /\ ~(a \in snoozed /\ Snoozing(a))
    /\ queue' = Append(queue, a)
    /\ snoozed' = snoozed \ {a}
    /\ UNCHANGED <<dismissed, inflight, open, tick, job, faults, dismissals,
                   overlap, excused>>

RunStarts(a) == /\ a \notin inflight /\ inflight' = inflight \cup {a}
                /\ UNCHANGED <<queue, snoozed, dismissed, open, tick, job, faults,
                               dismissals, overlap, excused>>
RunEnds(a) == /\ a \in inflight /\ inflight' = inflight \ {a}
              /\ UNCHANGED <<queue, snoozed, dismissed, open, tick, job, faults,
                             dismissals, overlap, excused>>

-----------------------------------------------------------------------------
Init ==
    /\ queue \in SetToSeqs(Articles)
    /\ snoozed = {} /\ inflight = {} /\ overlap = {} /\ excused = {}
    /\ dismissed = [a \in Articles |-> "no"]
    /\ open = [a \in Articles |-> 0]
    /\ tick = [t \in Ticks |-> NoTick]
    /\ job = [s \in Scanners |-> [a \in Articles |-> NoJob]]
    /\ faults = 0 /\ dismissals = 0

ScanStep(s, a) ==
    \/ Audit(s, a) \/ Supersede(s, a) \/ InsertOpen(s, a) \/ PersistSchedule(s, a)
TickStep(t) == StartChunk(t) \/ EndChunk(t) \/ EndTick(t)

Next ==
    \/ \E t \in Ticks : CronScan(t) \/ ManualScan(t) \/ TickStep(t)
    \/ \E a \in Articles :
         \/ \E r \in Requests, force \in BOOLEAN : ScanOneRequest(r, a, force)
         \/ \E s \in Scanners : ScanStep(s, a) \/ Throw(s, a)
         \/ \E t \in Ticks : Rerun(t, a)
         \/ Dismiss(a) \/ MarkEvaluation(a) \/ DismissalDies(a)
         \/ ClearDismissal(a) \/ DismissalPasses(a) \/ BecomesDue(a)
         \/ RunStarts(a) \/ RunEnds(a)

Spec == Init /\ [][Next]_vars

\* The Cron Trigger keeps firing and the platform keeps running the steps of
\* an instance.  Nothing else is owed.
Fairness ==
    /\ \A t \in Ticks : WF_vars(CronScan(t)) /\ WF_vars(TickStep(t))
    /\ \A t \in Ticks, a \in Articles : WF_vars(ScanStep(t, a))
FairSpec == Spec /\ Fairness
-----------------------------------------------------------------------------
TypeOK ==
    /\ ToSet(queue) \subseteq Articles
    /\ Len(queue) = Cardinality(ToSet(queue))
    /\ snoozed \subseteq Articles \ ToSet(queue)
    /\ dismissed \in [Articles -> {"no", "marking", "active", "past"}]
    /\ inflight \subseteq Articles
    /\ open \in [Articles -> 0 .. Cardinality(Scanners)]
    /\ \A t \in Ticks : /\ ToSet(tick[t].list) \subseteq Articles
                        /\ tick[t].budget \in 0 .. Cap
    /\ \A s \in Scanners, a \in Articles :
         job[s][a].pc \in Busy \cup {"idle", "ready", "ok", "failed"}

\* An article has one open evaluation at most, although superseding the old
\* one and inserting the new one are two statements of no transaction: only
\* two scans of the article that were both between the two leave two open.
OneOpenEvaluation == \A a \in Articles : open[a] > 1 => a \in overlap

\* A tick spends no more LLM calls than its cap, however its chunks reserve
\* and refund the budget in parallel: what the scans under way have used never
\* exceeds what the chunks before them have left.  (Calls that no step
\* reports escape the count: one that failed, one whose scan threw after it or
\* ran again.)
CapIsKept ==
    \A t \in Ticks : tick[t].running =>
        Cardinality({a \in Articles : job[t][a].used = 1}) <= tick[t].budget

\* A dismissed article is out of the refresh list: it keeps no open
\* evaluation, except where it was scanned while dismissed by name, selected
\* before it was dismissed, dismissed with two open, or its dismissal died
\* half-way.
DismissedIsQuiet ==
    \A a \in Articles : dismissed[a] = "active" /\ open[a] > 0 => a \in excused

\* What the refresh list promises the desk.
RefreshListIsTrue == OneOpenEvaluation /\ DismissedIsQuiet /\ CapIsKept

\* What spares a page the LLM audit spares it the refresh: a page that passed
\* the deterministic audit is never recommended for one, however old it is,
\* so that its schedule always advances.
PassedIsNotRefreshed ==
    \A p \in Pages, age \in Ages : Passed(p) => Recommended(p, "skipped", age) # "refresh"

\* An article that is due, not dismissed and without a run in flight is scanned
\* in the end or is no longer so, unless a batch of longer overdue articles
\* stays in front of it: a "refresh" verdict leaves an article at the head of
\* the queue, and a batch of those keeps everything behind it from any scan.
Crowded(a) ==
    \E batch \in SUBSET {b \in Articles \ {a} : Eligible(b)} :
        /\ Cardinality(batch) = BatchSize
        /\ \A b \in batch : Before(b, a)
Waits(a) == Eligible(a) /\ ~Scanning(a) /\ ~Crowded(a)
DueIsScanned == \A a \in Articles : Waits(a) ~> ~Waits(a)
=============================================================================
