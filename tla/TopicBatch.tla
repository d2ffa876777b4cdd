------------------------------ MODULE TopicBatch ------------------------------
(***************************************************************************)
(* A topic batch: the expansion workflow that generates and analyses its   *)
(* candidates (workflows/topic_expansion.ts, agents/analyse_candidate.ts), *)
(* the routes by which the desk skips, faults, promotes, closes and       *)
(* deletes (routes/topic_batches.ts), and the page that decides which of   *)
(* them it offers (web/app/topic-batches/[id]/page.tsx).                   *)
(*                                                                         *)
(* A request is a chain of statements with no transaction around them: the *)
(* reads that guard it, the updates, the recomputation of the batch's      *)
(* status, and for a promotion one workflow instance per run.  What a run  *)
(* is promoted with (mode, article, voice, keywords) is data left out.     *)
(***************************************************************************)
EXTENDS Naturals, FiniteSets, Sequences

CONSTANTS
    Requests,       \* requests in flight at the routes
    NoRun,          \* null, for promoted_run_id
    Topics,         \* the most topics the model generates for the brief
    Concurrency,    \* CONCURRENCY_CAP
    MaxCandidates,  \* bound: rows of topic_candidates
    MaxRuns,        \* bound: runs promoted
    MaxFaults,     \* bound: steps the engine runs again, and requests that fail half way
    MaxVerdicts     \* bound: verdicts an operator asks for again

VARIABLES
    batch,      \* topic_batches: the status, or Deleted
    cand,       \* topic_candidates, in order of insertion
    runs,       \* the runs promoted from the batch, in order of insertion
    wf,         \* the expansion workflow
    req,        \* what each request is doing
    page,       \* the status the batch page shows
    faults,     \* steps run again and requests failed so far
    verdicts,   \* verdicts asked for again so far
    closed,     \* history: somebody closed the batch
    contested,  \* history: candidates validated by two requests at once, or twice by one
    reported    \* history: runs of promotions that answered an error

vars == <<batch, cand, runs, wf, req, page, faults, verdicts, closed, contested, reported>>

-----------------------------------------------------------------------------
TERMINAL_STATUSES == {"done", "failed"}
RESOLVED_CANDIDATE_STATUSES == {"promoted", "skipped"}
REVIEW == {"ready_for_review", "partially_promoted"}
Deleted == "deleted"
BatchStatus == {"pending", "generating", "analysing"} \cup REVIEW \cup TERMINAL_STATUSES

CandidateIds == 1..MaxCandidates
RunIds == 1..MaxRuns

\* A row of topic_candidates: its verdicts are both set or both null.
CandidateRow == [status : {"candidate"} \cup RESOLVED_CANDIDATE_STATUSES,
                 analysed : BOOLEAN, last_error : BOOLEAN,
                 promoted_run_id : RunIds \cup {NoRun}]

\* A row of runs; of is topic_candidate_id, 0 for null.
RunRow == [of : CandidateIds \cup {0}, instance : BOOLEAN]

\* A request that promotes has candidates to do, some of which it was given twice.
Idle == [pc |-> "idle", todo |-> {}, twice |-> {}, made |-> {}, status |-> "pending", done |-> FALSE]

Candidates == DOMAIN cand
Exists == batch # Deleted
RunsOf(c) == {i \in DOMAIN runs : runs[i].of = c}
AllResolved == Candidates # {} /\ \A c \in Candidates : cand[c].status \in RESOLVED_CANDIDATE_STATUSES

WorkflowPc == {"none", "load", "generating", "gen", "analysing", "fan_out", "analyse", "aggregate",
               "emit", "error", "complete", "errored"}

TypeOK ==
    /\ batch \in BatchStatus \cup {Deleted}
    /\ \E n \in 0..MaxCandidates : cand \in [1..n -> CandidateRow]
    /\ \E n \in 0..MaxRuns : runs \in [1..n -> RunRow]
    /\ wf \in [pc : WorkflowPc, topics : 0..Topics, ids : SUBSET CandidateIds, next : 0..Topics,
               work : [CandidateIds -> {"todo", "gemini", "ok"}]]
    /\ req \in [Requests ->
          [pc : {"idle", "skip", "verdict", "lift", "insert", "mark", "tally", "store", "launch", "close", "unlink", "drop"},
           todo : SUBSET CandidateIds, twice : SUBSET CandidateIds, made : SUBSET RunIds,
           status : BatchStatus, done : BOOLEAN]]
    /\ page \in BatchStatus \cup {"loading"}
    /\ faults \in 0..MaxFaults /\ verdicts \in 0..MaxVerdicts /\ closed \in BOOLEAN
    /\ contested \subseteq CandidateIds /\ reported \subseteq RunIds

-----------------------------------------------------------------------------
(* The expansion workflow.  Each action is one step.do with the events     *)
(* emitted beside it, which are steps too and fail like them.              *)

NewWorkflow == [pc |-> "none", topics |-> 0, ids |-> {}, next |-> 0, work |-> [c \in CandidateIds |-> "todo"]]

\* POST / inserts the row and then creates the instance, which may throw.
Init ==
    /\ batch = "pending" /\ cand = <<>> /\ runs = <<>>
    /\ wf \in {NewWorkflow, [NewWorkflow EXCEPT !.pc = "load"]}
    /\ req = [r \in Requests |-> Idle] /\ page = "loading"
    /\ faults = 0 /\ verdicts = 0 /\ closed = FALSE /\ contested = {} /\ reported = {}

DeskUnchanged == UNCHANGED <<runs, req, page, verdicts, closed, contested, reported>>

\* An UPDATE of the batch: of no row once the batch is deleted.
SetStatus(s) == batch' = IF Exists THEN s ELSE batch

Load ==
    /\ wf.pc = "load"
    /\ wf' = [wf EXCEPT !.pc = IF Exists THEN "generating" ELSE "error"]
    /\ UNCHANGED <<batch, cand, faults>> /\ DeskUnchanged

StatusStep ==
    /\ wf.pc \in {"generating", "analysing"}
    /\ SetStatus(wf.pc)
    /\ wf' = [wf EXCEPT !.pc = IF @ = "generating" THEN "gen" ELSE "fan_out"]
    /\ UNCHANGED <<cand, faults>> /\ DeskUnchanged

\* The model may return fewer topics than it was asked for, or none.
TopicGen ==
    /\ wf.pc = "gen"
    /\ \E n \in 0..Topics : wf' = [wf EXCEPT !.pc = "analysing", !.topics = n]
    /\ UNCHANGED <<batch, cand, faults>> /\ DeskUnchanged

NewCandidate == [status |-> "candidate", analysed |-> FALSE, last_error |-> FALSE,
                 promoted_run_id |-> NoRun]

\* One INSERT of the fan-out; it fails when the batch is gone.
FanOut ==
    /\ wf.pc = "fan_out" /\ wf.next < wf.topics
    /\ IF Exists
       THEN /\ Len(cand) < MaxCandidates
            /\ cand' = Append(cand, NewCandidate)
            /\ wf' = [wf EXCEPT !.next = @ + 1, !.ids = @ \cup {Len(cand) + 1}]
       ELSE /\ wf' = [wf EXCEPT !.pc = "error"]
            /\ UNCHANGED cand
    /\ UNCHANGED <<batch, faults>> /\ DeskUnchanged

\* The engine runs the fan-out again from its start: the rows it inserted stay.
FanOutAgain ==
    /\ wf.pc = "fan_out" /\ wf.next > 0 /\ faults < MaxFaults
    /\ Len(cand) + wf.topics <= MaxCandidates
    /\ wf' = [wf EXCEPT !.next = 0, !.ids = {}]
    /\ faults' = faults + 1
    /\ UNCHANGED <<batch, cand>> /\ DeskUnchanged

FannedOut ==
    /\ wf.pc = "fan_out" /\ wf.next = wf.topics
    /\ wf' = [wf EXCEPT !.pc = "analyse"]
    /\ UNCHANGED <<batch, cand, faults>> /\ DeskUnchanged

\* The chunk in progress: the first Concurrency ids that are not all analysed.
Chunk == LET left == {c \in wf.ids : wf.work[c] # "ok"}
             first == CHOOSE c \in left : \A d \in left : c <= d
             low == CHOOSE c \in wf.ids : \A d \in wf.ids : c <= d
             start == low + ((first - low) \div Concurrency) * Concurrency
         IN  IF left = {} THEN {} ELSE left \cap start..(start + Concurrency - 1)

\* analyseCandidateVerdict reads the candidate; it throws when there is none.
AnalyseStart(c) ==
    /\ wf.pc = "analyse" /\ c \in Chunk /\ wf.work[c] = "todo"
    /\ wf' = IF c \in Candidates THEN [wf EXCEPT !.work[c] = "gemini"] ELSE [wf EXCEPT !.pc = "error"]
    /\ UNCHANGED <<batch, cand, faults>> /\ DeskUnchanged

\* What it writes: both verdicts and no error, or the error and the verdicts as they were.
Verdict(c, ok) ==
    cand' = IF c \notin Candidates THEN cand
            ELSE IF ok THEN [cand EXCEPT ![c].analysed = TRUE, ![c].last_error = FALSE]
            ELSE [cand EXCEPT ![c].last_error = TRUE]

\* It lands even when another analysis of the chunk has failed the workflow.
Analysed(c) ==
    /\ wf.pc \in {"analyse", "error", "errored"} /\ wf.work[c] = "gemini"
    /\ \E ok \in BOOLEAN : Verdict(c, ok)
    /\ wf' = [wf EXCEPT !.work[c] = "ok"]
    /\ UNCHANGED <<batch, faults>> /\ DeskUnchanged

\* An analysis whose result the engine did not record is done again.
AnalyseAgain(c) ==
    /\ wf.pc = "analyse" /\ wf.work[c] = "gemini" /\ faults < MaxFaults
    /\ \E ok \in BOOLEAN : Verdict(c, ok)
    /\ wf' = [wf EXCEPT !.work[c] = "todo"]
    /\ faults' = faults + 1
    /\ UNCHANGED batch /\ DeskUnchanged

AllAnalysed ==
    /\ wf.pc = "analyse" /\ \A c \in wf.ids : wf.work[c] = "ok"
    /\ wf' = [wf EXCEPT !.pc = "aggregate"]
    /\ UNCHANGED <<batch, cand, faults>> /\ DeskUnchanged

\* Fault for a mutant: only a batch without candidates fails.
AggregateErrors ==
    /\ wf.pc = "aggregate"
    /\ SetStatus(IF Candidates = {} THEN "failed" ELSE "ready_for_review")
    /\ wf' = [wf EXCEPT !.pc = "emit"]
    /\ UNCHANGED <<cand, faults>> /\ DeskUnchanged

Aggregate ==
    /\ wf.pc = "aggregate"
    /\ SetStatus(IF \A c \in Candidates : cand[c].last_error THEN "failed" ELSE "ready_for_review")
    /\ wf' = [wf EXCEPT !.pc = "emit"]
    /\ UNCHANGED <<cand, faults>> /\ DeskUnchanged

Complete ==
    /\ wf.pc = "emit"
    /\ wf' = [wf EXCEPT !.pc = "complete"]
    /\ UNCHANGED <<batch, cand, faults>> /\ DeskUnchanged

\* A step, or the step that emits an event, fails for good.
StepFails ==
    /\ wf.pc \in {"load", "generating", "gen", "analysing", "fan_out", "analyse", "aggregate", "emit"}
    /\ wf' = [wf EXCEPT !.pc = "error"]
    /\ UNCHANGED <<batch, cand, faults>> /\ DeskUnchanged

\* Fault for a mutant: the error is thrown on with nothing persisted.
OnErrorUnrecorded ==
    /\ wf.pc = "error"
    /\ wf' = [wf EXCEPT !.pc = "errored"]
    /\ UNCHANGED <<batch, cand, faults>> /\ DeskUnchanged

OnError ==
    /\ wf.pc = "error"
    /\ SetStatus("failed")
    /\ wf' = [wf EXCEPT !.pc = "errored"]
    /\ UNCHANGED <<cand, faults>> /\ DeskUnchanged

-----------------------------------------------------------------------------
(* The page polls the batch until it shows a terminal status.              *)

Poll ==
    /\ page \notin TERMINAL_STATUSES /\ Exists
    /\ page' = batch
    /\ UNCHANGED <<batch, cand, runs, wf, req, faults, verdicts, closed, contested, reported>>

-----------------------------------------------------------------------------
(* The routes.  A request whose guards fail answers 4xx and changes nothing.*)

WorkUnchanged == UNCHANGED <<wf, page, faults>>
Unresolved(c) == cand[c].status \notin RESOLVED_CANDIDATE_STATUSES

\* Candidates a request has validated and not written yet.
Claimed(r) == IF req[r].pc \in {"skip", "insert", "mark"} THEN req[r].todo ELSE {}

Validated(r, S) == contested' = contested \cup (S \cap UNION {Claimed(q) : q \in Requests \ {r}})

Go(r, pc) == req' = [req EXCEPT ![r].pc = pc]
Answer(r) == req' = [req EXCEPT ![r] = Idle]

SkipRead(r, c) ==
    /\ req[r].pc = "idle" /\ page \in REVIEW
    /\ Exists /\ batch \notin TERMINAL_STATUSES /\ Unresolved(c)
    /\ req' = [req EXCEPT ![r] = [Idle EXCEPT !.pc = "skip", !.todo = {c}]]
    /\ Validated(r, {c})
    /\ UNCHANGED <<batch, cand, runs, verdicts, closed, reported>> /\ WorkUnchanged

Skip(r) ==
    /\ req[r].pc = "skip"
    /\ cand' = [c \in Candidates |-> IF c \in req[r].todo THEN [cand[c] EXCEPT !.status = "skipped"] ELSE cand[c]]
    /\ Go(r, "tally")
    /\ UNCHANGED <<batch, runs, verdicts, closed, contested, reported>> /\ WorkUnchanged

\* The two statements of recomputeBatchStatus.
Tally(r) ==
    /\ req[r].pc = "tally"
    /\ req' = [req EXCEPT ![r].pc = "store", ![r].done = AllResolved]
    /\ UNCHANGED <<batch, cand, runs, verdicts, closed, contested, reported>> /\ WorkUnchanged

StoreStatus(r) ==
    /\ req[r].pc = "store"
    /\ SetStatus(IF req[r].done THEN "done" ELSE "partially_promoted")
    /\ IF req[r].made = {} THEN Answer(r) ELSE Go(r, "launch")
    /\ UNCHANGED <<cand, runs, verdicts, closed, contested, reported>> /\ WorkUnchanged

\* Fault for a mutant: a candidate that is resolved may be promoted.
PromoteReadResolved(r, S, T) ==
    /\ req[r].pc = "idle" /\ page \in REVIEW
    /\ Exists /\ batch \notin TERMINAL_STATUSES
    /\ \A c \in S : cand[c].analysed
    /\ req' = [req EXCEPT ![r] = [Idle EXCEPT !.pc = "insert", !.todo = S, !.twice = T]]
    /\ contested' = contested \cup T \cup (S \cap UNION {Claimed(q) : q \in Requests \ {r}})
    /\ UNCHANGED <<batch, cand, runs, verdicts, closed, reported>> /\ WorkUnchanged

\* The body is a list that nothing de-duplicates: the page names a candidate
\* once, another client may name those of T twice.
PromoteRead(r, S, T) ==
    /\ req[r].pc = "idle" /\ page \in REVIEW
    /\ Exists /\ batch \notin TERMINAL_STATUSES
    /\ \A c \in S : cand[c].analysed /\ Unresolved(c)
    /\ req' = [req EXCEPT ![r] = [Idle EXCEPT !.pc = "insert", !.todo = S, !.twice = T]]
    /\ contested' = contested \cup T \cup (S \cap UNION {Claimed(q) : q \in Requests \ {r}})
    /\ UNCHANGED <<batch, cand, runs, verdicts, closed, reported>> /\ WorkUnchanged

NextOf(r) == CHOOSE c \in req[r].todo : \A d \in req[r].todo : c <= d

\* What is left to promote after the next one.
Rest(r) == IF NextOf(r) \in req[r].twice THEN req[r].todo ELSE req[r].todo \ {NextOf(r)}

\* The foreign key of runs.topic_candidate_id needs the candidate.
InsertRun(r) ==
    /\ req[r].pc = "insert" /\ NextOf(r) \in Candidates /\ Len(runs) < MaxRuns
    /\ runs' = Append(runs, [of |-> NextOf(r), instance |-> FALSE])
    /\ req' = [req EXCEPT ![r].pc = "mark", ![r].made = @ \cup {Len(runs) + 1}]
    /\ UNCHANGED <<batch, cand, verdicts, closed, contested, reported>> /\ WorkUnchanged

MarkPromoted(r) ==
    /\ req[r].pc = "mark"
    /\ cand' = [c \in Candidates |->
                  IF c = NextOf(r)
                  THEN [cand[c] EXCEPT !.status = "promoted", !.promoted_run_id = CHOOSE i \in req[r].made : \A j \in req[r].made : j <= i]
                  ELSE cand[c]]
    /\ req' = [req EXCEPT ![r].todo = Rest(r), ![r].twice = @ \ {NextOf(r)},
                          ![r].pc = IF Rest(r) = {} THEN "tally" ELSE "insert"]
    /\ UNCHANGED <<batch, runs, verdicts, closed, contested, reported>> /\ WorkUnchanged

\* PRODUCTION.create for each run, after every row is committed.
Launch(r) ==
    /\ req[r].pc = "launch"
    /\ LET left == {i \in req[r].made : ~runs[i].instance}
           i == CHOOSE x \in left : \A y \in left : x <= y
       IN  /\ runs' = [runs EXCEPT ![i].instance = TRUE]
           /\ IF left = {i} THEN Answer(r) ELSE UNCHANGED req
    /\ UNCHANGED <<batch, cand, verdicts, closed, contested, reported>> /\ WorkUnchanged

VerdictRead(r, c) ==
    /\ req[r].pc = "idle" /\ page \notin {"loading", "done"} /\ verdicts < MaxVerdicts
    /\ Exists /\ batch # "done" /\ Unresolved(c) /\ cand[c].last_error
    /\ req' = [req EXCEPT ![r] = [Idle EXCEPT !.pc = "verdict", !.todo = {c}, !.status = batch]]
    /\ verdicts' = verdicts + 1
    /\ UNCHANGED <<batch, cand, runs, closed, contested, reported>> /\ WorkUnchanged

\* The page fetches the batch again after its answer.
RetryVerdict(r) ==
    /\ req[r].pc = "verdict"
    /\ \E ok \in BOOLEAN :
          /\ \A c \in req[r].todo : Verdict(c, ok)
          /\ IF ok /\ req[r].status = "failed" THEN Go(r, "lift") /\ UNCHANGED page ELSE Answer(r) /\ page' = "loading"
    /\ UNCHANGED <<batch, runs, wf, faults, verdicts, closed, contested, reported>>

Lift(r) ==
    /\ req[r].pc = "lift"
    /\ batch' = IF batch = "failed" THEN "ready_for_review" ELSE batch
    /\ Answer(r) /\ page' = "loading"
    /\ UNCHANGED <<cand, runs, wf, faults, verdicts, closed, contested, reported>>

CloseRead(r) ==
    /\ req[r].pc = "idle" /\ Exists /\ batch \notin TERMINAL_STATUSES /\ ~closed
    /\ req' = [req EXCEPT ![r] = [Idle EXCEPT !.pc = "close"]]
    /\ UNCHANGED <<batch, cand, runs, verdicts, closed, contested, reported>> /\ WorkUnchanged

Close(r) ==
    /\ req[r].pc = "close"
    /\ SetStatus("done") /\ closed' = TRUE
    /\ Answer(r)
    /\ UNCHANGED <<cand, runs, verdicts, contested, reported>> /\ WorkUnchanged

DeleteRead(r) ==
    /\ req[r].pc = "idle" /\ Exists
    /\ req' = [req EXCEPT ![r] = [Idle EXCEPT !.pc = "unlink"]]
    /\ UNCHANGED <<batch, cand, runs, verdicts, closed, contested, reported>> /\ WorkUnchanged

Unlink(r) ==
    /\ req[r].pc = "unlink"
    /\ runs' = [i \in DOMAIN runs |-> [runs[i] EXCEPT !.of = IF @ \in Candidates THEN 0 ELSE @]]
    /\ Go(r, "drop")
    /\ UNCHANGED <<batch, cand, verdicts, closed, contested, reported>> /\ WorkUnchanged

\* The candidates go with their batch, unless a run refers to one.
Drop(r) ==
    /\ req[r].pc = "drop" /\ \A c \in Candidates : RunsOf(c) = {}
    /\ batch' = Deleted /\ cand' = <<>>
    /\ Answer(r)
    /\ UNCHANGED <<runs, verdicts, closed, contested, reported>> /\ WorkUnchanged

\* A statement or a create throws, or the worker stops: the client gets an error.
RequestFails(r) ==
    /\ req[r].pc # "idle" /\ faults < MaxFaults
    /\ faults' = faults + 1
    /\ reported' = reported \cup {i \in req[r].made : ~runs[i].instance}
    /\ Answer(r)
    /\ UNCHANGED <<batch, cand, runs, wf, page, verdicts, closed, contested>>

-----------------------------------------------------------------------------
Workflow == \/ Load \/ StatusStep \/ TopicGen \/ FanOut \/ FannedOut \/ AllAnalysed \/ Aggregate \/ Complete
            \/ OnError
            \/ \E c \in CandidateIds : AnalyseStart(c) \/ Analysed(c)

Faults == FanOutAgain \/ StepFails \/ \E c \in CandidateIds : AnalyseAgain(c)

Routes == \E r \in Requests :
             \/ Skip(r) \/ Tally(r) \/ StoreStatus(r) \/ InsertRun(r) \/ MarkPromoted(r) \/ Launch(r)
             \/ RetryVerdict(r) \/ Lift(r) \/ CloseRead(r) \/ Close(r) \/ DeleteRead(r) \/ Unlink(r) \/ Drop(r)
             \/ RequestFails(r)
             \/ \E c \in Candidates : SkipRead(r, c) \/ VerdictRead(r, c)
             \/ \E S \in (SUBSET Candidates) \ {{}} : \E T \in SUBSET S : PromoteRead(r, S, T)

Next == Workflow \/ Faults \/ Poll \/ Routes

\* The engine runs the workflow to its end, and the page keeps polling; the desk promises nothing.
Spec == Init /\ [][Next]_vars /\ WF_vars(Workflow) /\ WF_vars(Poll)

-----------------------------------------------------------------------------
(* A candidate that no two requests had validated at once, and none twice, *)
(* has at most one run that its promotion did not report as failed,        *)
(* whatever the workflow, a retry of a verdict or a failed request did in  *)
(* between (POST /:id/promote, "Atomic validation").                       *)
OneRunPerCandidate ==
    \A c \in Candidates \ contested : Cardinality(RunsOf(c) \ reported) <= 1

(* A candidate the desk skipped is not being produced: it names no run and *)
(* no run of it has a workflow instance, unless requests for it overlapped *)
(* or one named it twice (POST /:id/candidates/:cid/skip).                 *)
SkippedIsNotProduced ==
    \A c \in Candidates \ contested :
       cand[c].status = "skipped" =>
          cand[c].promoted_run_id = NoRun /\ \A i \in RunsOf(c) : ~runs[i].instance

(* A promoted candidate names a run that exists and is its own, at every   *)
(* point of a promotion, of two, or of a delete that fails half way        *)
(* (runs.topic_candidate_id and topic_candidates.promoted_run_id).         *)
PromotedRunExists ==
    \A c \in Candidates : cand[c].status = "promoted" =>
       cand[c].promoted_run_id \in DOMAIN runs /\ runs[cand[c].promoted_run_id].of \in {c, 0}

(* A run left without a workflow instance is one whose promotion is still  *)
(* at work or has answered an error (the PRODUCTION.create loop).          *)
UnlaunchedIsReported ==
    \A i \in DOMAIN runs : runs[i].instance \/ i \in reported \cup UNION {req[r].made : r \in Requests}

(* A batch that nobody closed is done only when every one of its           *)
(* candidates is promoted or skipped, although the status is computed from *)
(* an earlier read (recomputeBatchStatus): the page offers skip and        *)
(* promote only after the last candidate was inserted.                     *)
DoneIsResolved == batch = "done" /\ ~closed => AllResolved

(* A batch offered for review holds a verdict to review, except for a row  *)
(* that a fan-out run again has left unanalysed (aggregate; retry-verdict).*)
ReadyIsEarned ==
    batch = "ready_for_review" => \E c \in Candidates : cand[c].analysed \/ c \notin wf.ids

(* Runs and candidates match, and the status of the batch follows both:    *)
(* what the desk may rely on of a promotion, and of what it is shown.      *)
RunsMatchCandidates ==
    /\ TypeOK /\ OneRunPerCandidate /\ SkippedIsNotProduced
    /\ PromotedRunExists /\ UnlaunchedIsReported /\ DoneIsResolved
StatusFollowsCandidates == ReadyIsEarned /\ PromotedRunExists /\ UnlaunchedIsReported

(* A resolved candidate keeps its resolution and its run, unless requests  *)
(* for it overlapped or one named it twice (RESOLVED_CANDIDATE_STATUSES).  *)
ResolutionStep ==
    \A c \in Candidates \cap DOMAIN cand' :
       ~Unresolved(c) /\ c \notin contested' =>
          cand'[c].status = cand[c].status /\ cand'[c].promoted_run_id = cand[c].promoted_run_id
ResolvedIsFinal == [][ResolutionStep]_vars

(* A batch whose instance was created ends up reviewable, done, failed or  *)
(* deleted for good, and its page stops showing progress, whichever step   *)
(* fails and whatever the desk does meanwhile.                             *)
Launched == wf.pc # "none"
Rests == /\ batch \in REVIEW \cup TERMINAL_STATUSES \cup {Deleted}
         /\ page \notin {"pending", "generating", "analysing"}
BatchSettles == Launched ~> (batch = Deleted \/ []Rests)
=============================================================================
