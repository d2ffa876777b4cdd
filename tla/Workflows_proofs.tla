--------------------------- MODULE Workflows_proofs ---------------------------
(***************************************************************************)
(* Proofs about the two workflows beside the run, for any number of        *)
(* instances, requests and failures.  Part one, TopicBatch: a candidate    *)
(* becomes one run, a skipped one none, a promoted one names its run, and  *)
(* the batch's status tells what its candidates are.  Part two,            *)
(* RefreshScan: an article has one open evaluation, and a dismissed one is *)
(* left alone.                                                             *)
(***************************************************************************)
EXTENDS TopicBatch, FiniteSetTheorems, WellFoundedInduction, TLAPS

\* What an instance has to give.
Setting == /\ Topics \in Nat /\ MaxCandidates \in Nat /\ MaxRuns \in Nat
           /\ MaxFaults \in Nat /\ MaxVerdicts \in Nat /\ NoRun \notin RunIds

-----------------------------------------------------------------------------
(* The inductive invariant. *)

\* TypeOK with the two tables as sequences.
Pcs == {"idle", "skip", "verdict", "lift", "insert", "mark", "tally", "store", "launch",
        "close", "unlink", "drop"}
Req == [pc : Pcs, todo : SUBSET CandidateIds, twice : SUBSET CandidateIds, made : SUBSET RunIds,
        status : BatchStatus, done : BOOLEAN]
Wf == [pc : WorkflowPc, topics : 0..Topics, ids : SUBSET CandidateIds, next : 0..Topics,
       work : [CandidateIds -> {"todo", "gemini", "ok"}]]

Types ==
  /\ batch \in BatchStatus \cup {Deleted}
  /\ cand \in Seq(CandidateRow) /\ Len(cand) <= MaxCandidates
  /\ runs \in Seq(RunRow) /\ Len(runs) <= MaxRuns
  /\ wf \in Wf /\ req \in [Requests -> Req]
  /\ page \in BatchStatus \cup {"loading"}
  /\ faults \in 0..MaxFaults /\ verdicts \in 0..MaxVerdicts /\ closed \in BOOLEAN
  /\ contested \subseteq CandidateIds /\ reported \subseteq RunIds

\* The rows: none without the batch; requests and runs refer to candidates that are there,
\* and a candidate that is not resolved names no run.
Rows ==
  /\ ~Exists => Candidates = {}
  /\ Exists => \A r \in Requests : req[r].todo \subseteq Candidates
  /\ \A i \in DOMAIN runs : runs[i].of \in Candidates \cup {0}
  /\ \A c \in Candidates : cand[c].status = "candidate" => cand[c].promoted_run_id = NoRun
  /\ \A c \in Candidates : cand[c].status = "promoted" =>
       /\ cand[c].promoted_run_id \in DOMAIN runs
       /\ runs[cand[c].promoted_run_id].of \in {c, 0}

\* The run a request inserted last.
IsLast(S, i) == i \in S /\ \A j \in S : j <= i
GreatestOf(S) == CHOOSE i \in S : \A j \in S : j <= i
Last(r) == GreatestOf(req[r].made)

\* The runs a promotion has made are its own and have no instance until it has stored the
\* batch's status; the run it marks a candidate with is of that candidate.
Making == {"insert", "mark", "tally", "store"}
Made ==
  /\ \A r \in Requests :
       /\ req[r].made \subseteq DOMAIN runs
       /\ req[r].made # {} => \E i \in req[r].made : IsLast(req[r].made, i)
       /\ req[r].pc \notin Making \cup {"launch"} => req[r].made = {}
       /\ req[r].pc \in Making => \A i \in req[r].made : ~runs[i].instance
       /\ req[r].pc = "launch" => \E i \in req[r].made : ~runs[i].instance
       /\ req[r].pc \in {"insert", "mark", "verdict"} => req[r].todo # {}
       /\ req[r].pc = "mark" => req[r].made # {} /\ runs[Last(r)].of \in {NextOf(r), 0}
       /\ req[r].made \cap reported = {}
  /\ \A r, q \in Requests : r # q => req[r].made \cap req[q].made = {}
  /\ reported \subseteq DOMAIN runs
  /\ \A i \in reported : ~runs[i].instance
  /\ \A i \in DOMAIN runs : runs[i].instance \/ i \in reported \/ \E r \in Requests : i \in req[r].made

\* A candidate that no two requests had validated at once, and none twice: whoever has it validated is
\* alone, and finds it open still; an open candidate has runs of failed promotions, and one
\* that is about to be named in its row; there is one run that was not reported, and none
\* of a skipped candidate.
Unreported(c) == RunsOf(c) \ reported
Calm(c) ==
  /\ \A r, q \in Requests : c \in Claimed(r) /\ c \in Claimed(q) => r = q
  /\ \A r \in Requests : c \in Claimed(r) => cand[c].status = "candidate"
  /\ cand[c].status = "candidate" => \A i \in Unreported(c) :
       \E r \in Requests : req[r].pc = "mark" /\ NextOf(r) = c /\ i \in req[r].made
  /\ \A i, j \in Unreported(c) : i = j
  /\ cand[c].status = "skipped" => Unreported(c) = {}
Claims == \A c \in Candidates \ contested : Calm(c)

\* A candidate that a request names twice is contested from then on.
Repeats == \A r \in Requests : req[r].twice \subseteq contested

\* Where the workflow is when the page offers skipping and promoting, and once the batch
\* is done though nobody closed it: past its last insertion.
Past == {"emit", "error", "complete", "errored"}
Offering == {"skip", "insert", "mark", "tally", "store", "launch", "lift"}
Phase ==
  /\ batch \in REVIEW \cup {"failed"} \/ (batch = "done" /\ ~closed) => wf.pc \in Past
  /\ page \in REVIEW => wf.pc \in Past
  /\ \A r \in Requests : req[r].pc \in Offering \/ (req[r].pc = "verdict" /\ req[r].status = "failed")
                           => wf.pc \in Past

\* What a request read of the candidates stays true: a resolved candidate stays so.
Done ==
  /\ batch = "done" /\ ~closed => AllResolved
  /\ \A r \in Requests : req[r].pc = "store" /\ req[r].done /\ Exists => AllResolved

\* An analysis that is done left a verdict or an error; the fan-out knows none yet.
Before == {"none", "load", "generating", "gen", "analysing", "fan_out"}
Verdicts ==
  /\ wf.pc \in Before =>
       \A c \in CandidateIds : wf.work[c] = "todo"
  /\ \A c \in CandidateIds : wf.work[c] = "ok" /\ c \in Candidates =>
       cand[c].analysed \/ cand[c].last_error
  /\ wf.pc = "aggregate" => \A c \in wf.ids : wf.work[c] = "ok"
  /\ \A r \in Requests : req[r].pc = "lift" /\ Exists =>
       \E c \in Candidates : cand[c].analysed
  /\ ReadyIsEarned

\* A skipped candidate had no run when it was skipped.
Skips == \A c \in Candidates \ contested : cand[c].status = "skipped" => cand[c].promoted_run_id = NoRun

Inv == Types /\ Rows /\ Made /\ Claims /\ Repeats /\ Skips /\ Phase /\ Done /\ Verdicts

-----------------------------------------------------------------------------
(* Types. *)

LEMMA Consts ==
  ASSUME Setting
  PROVE  /\ CandidateIds \subseteq Nat \ {0} /\ RunIds \subseteq Nat \ {0}
         /\ NoRun \notin RunIds
         /\ \A c : c \in CandidateIds <=> c \in Nat /\ 1 <= c /\ c <= MaxCandidates
         /\ \A i : i \in RunIds <=> i \in Nat /\ 1 <= i /\ i <= MaxRuns
BY DEF Setting, CandidateIds, RunIds

LEMMA Domains ==
  ASSUME Setting, Types
  PROVE  /\ Candidates = 1 .. Len(cand) /\ DOMAIN runs = 1 .. Len(runs)
         /\ Len(cand) \in Nat /\ Len(runs) \in Nat
         /\ Candidates \subseteq CandidateIds /\ DOMAIN runs \subseteq RunIds
         /\ Candidates \subseteq Nat \ {0} /\ DOMAIN runs \subseteq Nat \ {0}
         /\ \A c \in Candidates : cand[c] \in CandidateRow
         /\ \A i \in DOMAIN runs : runs[i] \in RunRow
BY DEF Setting, Types, Candidates, CandidateIds, RunIds

LEMMA TypesMean == Setting /\ Types => TypeOK
<1> SUFFICES ASSUME Setting, Types PROVE TypeOK OBVIOUS
<1>1. cand \in [1..Len(cand) -> CandidateRow] /\ Len(cand) \in 0..MaxCandidates
  BY DEF Types, Setting
<1>2. runs \in [1..Len(runs) -> RunRow] /\ Len(runs) \in 0..MaxRuns
  BY DEF Types, Setting
<1> QED BY <1>1, <1>2 DEF Types, TypeOK, Wf, Req, Pcs

LEMMA IdleType == Idle \in Req
BY DEF Idle, Req, Pcs, BatchStatus

\* What a request becomes, and the others stay.
Becomes(r, q) == /\ req' \in [Requests -> Req] /\ req'[r] = q
                 /\ \A x \in Requests : x # r => req'[x] = req[x]

LEMMA ReqBecomes ==
  ASSUME Types, NEW r \in Requests, NEW q \in Req, req' = [req EXCEPT ![r] = q]
  PROVE  Becomes(r, q)
BY DEF Becomes, Types

LEMMA GoBecomes ==
  ASSUME Types, NEW r \in Requests, NEW pc \in Pcs, Go(r, pc)
  PROVE  Becomes(r, [req[r] EXCEPT !.pc = pc])
<1>1. req[r] \in Req /\ [req[r] EXCEPT !.pc = pc] \in Req BY DEF Types, Req
<1> QED BY <1>1, ReqBecomes DEF Go

LEMMA AnswerBecomes ==
  ASSUME Types, NEW r \in Requests, Answer(r)
  PROVE  Becomes(r, Idle)
BY IdleType, ReqBecomes DEF Answer

\* The rows of the two tables, when one is added or some are changed.
LEMMA AppendRow ==
  ASSUME NEW S, NEW s \in Seq(S), NEW x \in S, NEW t, t = Append(s, x)
  PROVE  /\ t \in Seq(S) /\ Len(t) = Len(s) + 1 /\ DOMAIN t = DOMAIN s \cup {Len(s) + 1}
         /\ \A i \in DOMAIN s : t[i] = s[i]
         /\ t[Len(s) + 1] = x /\ Len(s) + 1 \notin DOMAIN s
OBVIOUS

LEMMA SameRows ==
  ASSUME NEW S, NEW s \in Seq(S), NEW t, DOMAIN t = DOMAIN s, \A i \in DOMAIN s : t[i] \in S,
         t = [i \in DOMAIN t |-> t[i]]
  PROVE  t \in Seq(S) /\ Len(t) = Len(s)
<1>1. DOMAIN t = 1 .. Len(s) /\ Len(s) \in Nat OBVIOUS
<1>2. t \in [1 .. Len(s) -> S] BY <1>1
<1> QED BY <1>1, <1>2

\* The verdict of an analysis changes one row, and keeps what the desk decided about it.
Judged(c) ==
  /\ cand' \in Seq(CandidateRow) /\ Len(cand') = Len(cand) /\ DOMAIN cand' = Candidates
  /\ \A d \in Candidates :
       /\ cand'[d].status = cand[d].status /\ cand'[d].promoted_run_id = cand[d].promoted_run_id
       /\ cand[d].analysed => cand'[d].analysed
       /\ d # c => cand'[d] = cand[d]
  /\ c \in Candidates => cand'[c].analysed \/ cand'[c].last_error

LEMMA VerdictJudges ==
  ASSUME Setting, Types, NEW c, NEW ok \in BOOLEAN, Verdict(c, ok)
  PROVE  Judged(c) /\ (ok /\ c \in Candidates => cand'[c].analysed)
<1>1. CASE c \notin Candidates
  <2>1. cand' = cand BY <1>1 DEF Verdict
  <2> QED BY <1>1, <2>1, Domains DEF Judged, Candidates, Types
<1>2. CASE c \in Candidates /\ ok
  <2> DEFINE row == [cand[c] EXCEPT !.analysed = TRUE, !.last_error = FALSE]
  <2>1. cand[c] \in CandidateRow BY <1>2, Domains
  <2>2. /\ row \in CandidateRow /\ row.status = cand[c].status /\ row.analysed
        /\ row.promoted_run_id = cand[c].promoted_run_id
    BY <2>1 DEF CandidateRow
  <2>3. cand' = [cand EXCEPT ![c] = row] BY <1>2, <2>1 DEF Verdict, CandidateRow
  <2> HIDE DEF row
  <2>4. DOMAIN cand' = Candidates /\ cand'[c] = row /\ \A d \in Candidates \ {c} : cand'[d] = cand[d]
    BY <1>2, <2>3 DEF Candidates
  <2>5. cand' = [i \in DOMAIN cand' |-> cand'[i]] BY <2>3
  <2>6. cand' \in Seq(CandidateRow) /\ Len(cand') = Len(cand)
    BY <2>2, <2>4, <2>5, Domains, SameRows DEF Types, Candidates
  <2> QED BY <1>2, <2>2, <2>4, <2>6 DEF Judged
<1>3. CASE c \in Candidates /\ ~ok
  <2> DEFINE row == [cand[c] EXCEPT !.last_error = TRUE]
  <2>1. cand[c] \in CandidateRow BY <1>3, Domains
  <2>2. /\ row \in CandidateRow /\ row.status = cand[c].status /\ row.last_error
        /\ row.promoted_run_id = cand[c].promoted_run_id /\ row.analysed = cand[c].analysed
    BY <2>1 DEF CandidateRow
  <2>3. cand' = [cand EXCEPT ![c] = row] BY <1>3, <2>1 DEF Verdict, CandidateRow
  <2> HIDE DEF row
  <2>4. DOMAIN cand' = Candidates /\ cand'[c] = row /\ \A d \in Candidates \ {c} : cand'[d] = cand[d]
    BY <1>3, <2>3 DEF Candidates
  <2>5. cand' = [i \in DOMAIN cand' |-> cand'[i]] BY <2>3
  <2>6. cand' \in Seq(CandidateRow) /\ Len(cand') = Len(cand)
    BY <2>2, <2>4, <2>5, Domains, SameRows DEF Types, Candidates
  <2> QED BY <1>3, <2>2, <2>4, <2>6 DEF Judged
<1> QED BY <1>1, <1>2, <1>3

-----------------------------------------------------------------------------
(* What the workflow's steps do.                                           *)

\* They leave runs and requests alone, keep what was decided about a candidate, and add
\* candidates while the batch is there, in the fan-out.
Working ==
  /\ UNCHANGED <<runs, req, page, verdicts, closed, contested, reported>>
  /\ Candidates \subseteq DOMAIN cand'
  /\ \A c \in Candidates : /\ cand'[c].status = cand[c].status
                           /\ cand'[c].promoted_run_id = cand[c].promoted_run_id
                           /\ cand[c].analysed => cand'[c].analysed
                           /\ cand[c].analysed \/ cand[c].last_error
                                => cand'[c].analysed \/ cand'[c].last_error
  /\ \A c \in DOMAIN cand' \ Candidates : /\ Exists /\ wf.pc = "fan_out"
                                          /\ cand'[c].status = "candidate"
                                          /\ cand'[c].promoted_run_id = NoRun
                                          /\ c \notin Candidates /\ c \in CandidateIds
  /\ Exists <=> batch' # Deleted

LEMMA SameCandidates ==
  ASSUME cand' = cand
  PROVE  /\ Candidates \subseteq DOMAIN cand' /\ DOMAIN cand' \ Candidates = {}
         /\ \A c \in Candidates : cand'[c] = cand[c]
BY DEF Candidates

LEMMA SetStatusType ==
  ASSUME Types, NEW s \in BatchStatus, SetStatus(s)
  PROVE  /\ batch' \in BatchStatus \cup {Deleted} /\ (Exists <=> batch' # Deleted)
         /\ Exists => batch' = s
         /\ ~Exists => batch' = batch
BY DEF SetStatus, Exists, Types, Deleted, BatchStatus, REVIEW, TERMINAL_STATUSES

LEMMA WfAt ==
  ASSUME Types, NEW pc \in WorkflowPc, wf' = [wf EXCEPT !.pc = pc]
  PROVE  /\ wf' \in Wf /\ wf'.pc = pc /\ wf'.topics = wf.topics /\ wf'.ids = wf.ids
         /\ wf'.next = wf.next /\ wf'.work = wf.work
BY DEF Types, Wf

LEMMA WfWork ==
  ASSUME Types, NEW c \in CandidateIds, NEW w \in {"todo", "gemini", "ok"},
         wf' = [wf EXCEPT !.work[c] = w]
  PROVE  /\ wf' \in Wf /\ wf'.pc = wf.pc /\ wf'.topics = wf.topics /\ wf'.ids = wf.ids
         /\ wf'.next = wf.next /\ wf'.work[c] = w
         /\ \A d \in CandidateIds : d # c => wf'.work[d] = wf.work[d]
BY DEF Types, Wf

\* A step that changes neither candidates nor results.
Plain == Load \/ StatusStep \/ FannedOut \/ AllAnalysed \/ Aggregate \/ Complete \/ OnError \/ StepFails

LEMMA PlainWorks ==
  ASSUME Setting, Types, Plain
  PROVE  /\ Types' /\ Working /\ cand' = cand
         /\ wf'.ids = wf.ids /\ wf'.work = wf.work
<1>1. \E pc \in WorkflowPc : wf' = [wf EXCEPT !.pc = pc]
  BY DEF Plain, Load, StatusStep, FannedOut, AllAnalysed, Aggregate, Complete, OnError, StepFails,
         WorkflowPc
<1>2. wf' \in Wf /\ wf'.ids = wf.ids /\ wf'.work = wf.work BY <1>1, WfAt
<1>3. batch' = batch \/ \E s \in BatchStatus : SetStatus(s)
  BY DEF Plain, Load, StatusStep, FannedOut, AllAnalysed, Aggregate, Complete, OnError, StepFails,
         BatchStatus, REVIEW, TERMINAL_STATUSES
<1>4. batch' \in BatchStatus \cup {Deleted} /\ (Exists <=> batch' # Deleted)
  BY <1>3, SetStatusType DEF Types, Exists
<1>5. UNCHANGED <<cand, faults, runs, req, page, verdicts, closed, contested, reported>>
  BY DEF Plain, Load, StatusStep, FannedOut, AllAnalysed, Aggregate, Complete, OnError, StepFails,
         DeskUnchanged
<1>6. Types' BY <1>2, <1>4, <1>5 DEF Types
<1>7. Working BY <1>4, <1>5, SameCandidates DEF Working
<1> QED BY <1>2, <1>5, <1>6, <1>7

LEMMA TopicGenWorks ==
  ASSUME Setting, Types, TopicGen
  PROVE  Types' /\ Working /\ UNCHANGED <<cand, batch>> /\ wf'.work = wf.work /\ wf'.pc = "analysing"
<1>1. wf' \in Wf /\ wf'.work = wf.work /\ wf'.pc = "analysing" BY DEF TopicGen, Types, Wf, WorkflowPc
<1>2. UNCHANGED <<batch, cand, faults, runs, req, page, verdicts, closed, contested, reported>>
  BY DEF TopicGen, DeskUnchanged
<1>3. Types' BY <1>1, <1>2 DEF Types
<1>4. Working BY <1>2, SameCandidates DEF Working, Exists
<1> QED BY <1>1, <1>2, <1>3, <1>4

\* One insertion, of a candidate that is new.
LEMMA FanOutWorks ==
  ASSUME Setting, Types, FanOut
  PROVE  /\ Types' /\ Working /\ batch' = batch
         /\ wf'.work = wf.work /\ wf'.pc \in {"fan_out", "error"}
<1>1. UNCHANGED <<batch, faults, runs, req, page, verdicts, closed, contested, reported>>
      /\ wf.pc = "fan_out"
  BY DEF FanOut, DeskUnchanged
<1>2. CASE Exists
  <2> DEFINE c == Len(cand) + 1
  <2>1. c \in CandidateIds /\ c \notin Candidates /\ Len(cand) < MaxCandidates
    BY <1>2, Domains, Consts DEF FanOut, Setting
  <2>2. NewCandidate \in CandidateRow BY DEF NewCandidate, CandidateRow
  <2>3. cand' = Append(cand, NewCandidate) BY <1>2 DEF FanOut
  <2>4. /\ cand' \in Seq(CandidateRow) /\ Len(cand') = c /\ DOMAIN cand' = Candidates \cup {c}
        /\ \A d \in Candidates : cand'[d] = cand[d]
        /\ cand'[c] = NewCandidate
    BY <2>2, <2>3, AppendRow DEF Types, Candidates
  <2>5. wf' \in Wf /\ wf'.work = wf.work /\ wf'.pc = "fan_out"
    <3>1. wf' = [wf EXCEPT !.next = wf.next + 1, !.ids = wf.ids \cup {c}]
      BY <1>2 DEF FanOut, Types, Wf
    <3>2. wf.next + 1 \in 0..Topics BY DEF FanOut, Types, Wf, Setting
    <3> QED BY <1>1, <2>1, <3>1, <3>2 DEF Types, Wf
  <2>6. Types' BY <1>1, <2>1, <2>4, <2>5, Domains DEF Types, Setting
  <2>7. NewCandidate.status = "candidate" /\ NewCandidate.promoted_run_id = NoRun
    BY DEF NewCandidate
  <2>8. Working BY <1>1, <1>2, <2>1, <2>4, <2>7 DEF Working, Exists
  <2> QED BY <1>1, <2>5, <2>6, <2>8
<1>3. CASE ~Exists
  <2>1. wf' = [wf EXCEPT !.pc = "error"] /\ cand' = cand BY <1>3 DEF FanOut
  <2>2. wf' \in Wf /\ wf'.work = wf.work /\ wf'.pc = "error" BY <2>1, WfAt DEF WorkflowPc
  <2>3. Types' BY <1>1, <2>1, <2>2 DEF Types
  <2>4. Working BY <1>1, <2>1, SameCandidates DEF Working, Exists
  <2> QED BY <1>1, <2>2, <2>3, <2>4
<1> QED BY <1>2, <1>3

LEMMA FanOutAgainWorks ==
  ASSUME Setting, Types, FanOutAgain
  PROVE  Types' /\ Working /\ UNCHANGED <<cand, batch>> /\ wf'.work = wf.work /\ wf'.pc = "fan_out"
<1>1. wf' \in Wf /\ wf'.work = wf.work /\ wf'.pc = "fan_out"
  <2>1. wf' = [wf EXCEPT !.next = 0, !.ids = {}] /\ wf.pc = "fan_out" BY DEF FanOutAgain
  <2>2. 0 \in 0..Topics BY DEF Setting
  <2> QED BY <2>1, <2>2 DEF Types, Wf
<1>2. UNCHANGED <<batch, cand, runs, req, page, verdicts, closed, contested, reported>>
      /\ faults' \in 0..MaxFaults
  BY DEF FanOutAgain, DeskUnchanged, Types, Setting
<1>3. Types' BY <1>1, <1>2 DEF Types
<1>4. Working BY <1>2, SameCandidates DEF Working, Exists
<1> QED BY <1>1, <1>2, <1>3, <1>4

LEMMA AnalyseStartWorks ==
  ASSUME Setting, Types, NEW c \in CandidateIds, AnalyseStart(c)
  PROVE  /\ Types' /\ Working /\ UNCHANGED <<cand, batch>> /\ wf'.ids = wf.ids
         /\ wf'.pc \in {"analyse", "error"} /\ wf.pc = "analyse" /\ c \in wf.ids
         /\ wf'.work[c] \in {"todo", "gemini"}
         /\ \A d \in CandidateIds : d # c => wf'.work[d] = wf.work[d]
<1>1. /\ UNCHANGED <<batch, cand, faults, runs, req, page, verdicts, closed, contested, reported>>
      /\ wf.pc = "analyse" /\ c \in Chunk /\ wf.work[c] = "todo"
  BY DEF AnalyseStart, DeskUnchanged
<1>2. c \in wf.ids BY <1>1 DEF Chunk
<1>3. wf' = [wf EXCEPT !.work[c] = "gemini"] \/ wf' = [wf EXCEPT !.pc = "error"]
  BY DEF AnalyseStart
<1>4. /\ wf' \in Wf /\ wf'.ids = wf.ids /\ wf'.pc \in {"analyse", "error"}
      /\ wf'.work[c] \in {"todo", "gemini"}
      /\ \A d \in CandidateIds : d # c => wf'.work[d] = wf.work[d]
  <2>1. CASE wf' = [wf EXCEPT !.work[c] = "gemini"] BY <1>1, <2>1, WfWork
  <2>2. CASE wf' = [wf EXCEPT !.pc = "error"] BY <1>1, <2>2, WfAt DEF WorkflowPc
  <2> QED BY <1>3, <2>1, <2>2
<1>5. Types' BY <1>1, <1>4 DEF Types
<1>6. Working BY <1>1, SameCandidates DEF Working, Exists
<1> QED BY <1>1, <1>2, <1>4, <1>5, <1>6

LEMMA JudgedWorks ==
  ASSUME Setting, Types, NEW c, Judged(c), batch' = batch,
         UNCHANGED <<runs, req, page, verdicts, closed, contested, reported>>
  PROVE  Working
BY DEF Judged, Working, Exists, Candidates

LEMMA AnalysedWorks ==
  ASSUME Setting, Types, NEW c \in CandidateIds, Analysed(c) \/ AnalyseAgain(c)
  PROVE  /\ Types' /\ Working /\ UNCHANGED batch /\ wf'.ids = wf.ids /\ wf'.pc = wf.pc
         /\ wf.pc \in {"analyse", "error", "errored"} /\ wf.work[c] = "gemini"
         /\ Judged(c)
         /\ \A d \in CandidateIds : d # c => wf'.work[d] = wf.work[d]
<1>1. /\ UNCHANGED <<batch, runs, req, page, verdicts, closed, contested, reported>>
      /\ wf.pc \in {"analyse", "error", "errored"} /\ wf.work[c] = "gemini"
      /\ faults' \in 0..MaxFaults
  BY DEF Analysed, AnalyseAgain, DeskUnchanged, Types, Setting
<1>2. Judged(c) BY VerdictJudges DEF Analysed, AnalyseAgain
<1>3. \E w \in {"todo", "ok"} : wf' = [wf EXCEPT !.work[c] = w] BY DEF Analysed, AnalyseAgain
<1>4. /\ wf' \in Wf /\ wf'.ids = wf.ids /\ wf'.pc = wf.pc
      /\ \A d \in CandidateIds : d # c => wf'.work[d] = wf.work[d]
  BY <1>3, WfWork
<1>5. Types' BY <1>1, <1>2, <1>4 DEF Types, Judged
<1> QED BY <1>1, <1>2, <1>4, <1>5, JudgedWorks

-----------------------------------------------------------------------------
(* What the requests' steps do.  Each either changes neither table, or is   *)
(* one of Skip, InsertRun, MarkPromoted, Launch, RetryVerdict, Unlink, Drop.*)

\* Another step of a request leaves the tables alone.
Tables == UNCHANGED <<cand, runs, wf, reported>>

\* Of what a request has validated, others' candidates are contested.
Contests(r, S) == /\ contested \subseteq contested'
                  /\ S \cap UNION {Claimed(q) : q \in Requests \ {r}} \subseteq contested'

LEMMA SkipReadDoes ==
  ASSUME Setting, Types, NEW r \in Requests, NEW c \in Candidates, SkipRead(r, c)
  PROVE  /\ Types' /\ Tables /\ UNCHANGED <<batch, page, closed>>
         /\ Becomes(r, [Idle EXCEPT !.pc = "skip", !.todo = {c}])
         /\ Contests(r, {c})
         /\ req[r].pc = "idle" /\ page \in REVIEW /\ Exists /\ Unresolved(c)
<1>1. [Idle EXCEPT !.pc = "skip", !.todo = {c}] \in Req
  BY Domains DEF Idle, Req, Pcs, BatchStatus
<1>2. Becomes(r, [Idle EXCEPT !.pc = "skip", !.todo = {c}]) BY <1>1, ReqBecomes DEF SkipRead
<1>3. contested' \subseteq CandidateIds BY Domains DEF SkipRead, Validated, Types
<1>4. UNCHANGED <<batch, cand, runs, wf, page, faults, verdicts, closed, reported>>
  BY DEF SkipRead, WorkUnchanged
<1>5. Types' BY <1>2, <1>3, <1>4 DEF Types, Becomes
<1>6. Contests(r, {c}) BY DEF SkipRead, Validated, Contests
<1> QED BY <1>2, <1>4, <1>5, <1>6 DEF Tables, SkipRead

\* A promotion of the candidates S, some of them named twice, whichever.
Promotes(r, S) == \E T \in SUBSET S : PromoteRead(r, S, T)

LEMMA PromoteReadDoes ==
  ASSUME Setting, Types, NEW r \in Requests, NEW S \in (SUBSET Candidates) \ {{}}, Promotes(r, S)
  PROVE  /\ Types' /\ Tables /\ UNCHANGED <<batch, page, closed>>
         /\ \E T \in SUBSET S : /\ Becomes(r, [Idle EXCEPT !.pc = "insert", !.todo = S, !.twice = T])
                                /\ T \subseteq contested'
         /\ Contests(r, S)
         /\ req[r].pc = "idle" /\ page \in REVIEW /\ Exists
         /\ S # {} /\ \A c \in S : c \in Candidates /\ Unresolved(c)
<1>0. PICK T \in SUBSET S : PromoteRead(r, S, T) BY DEF Promotes
<1>1. [Idle EXCEPT !.pc = "insert", !.todo = S, !.twice = T] \in Req
  BY Domains DEF Idle, Req, Pcs, BatchStatus
<1>2. Becomes(r, [Idle EXCEPT !.pc = "insert", !.todo = S, !.twice = T])
  BY <1>0, <1>1, ReqBecomes DEF PromoteRead
<1>3. contested' = contested \cup T \cup (S \cap UNION {Claimed(q) : q \in Requests \ {r}})
  BY <1>0 DEF PromoteRead
<1>4. contested' \subseteq CandidateIds BY <1>3, Domains DEF Types
<1>5. T \subseteq contested' /\ Contests(r, S) BY <1>3 DEF Contests
<1>6. UNCHANGED <<batch, cand, runs, wf, page, faults, verdicts, closed, reported>>
  BY <1>0 DEF PromoteRead, WorkUnchanged
<1>7. Types' BY <1>2, <1>4, <1>6 DEF Types, Becomes
<1>8. req[r].pc = "idle" /\ page \in REVIEW /\ Exists /\ \A c \in S : c \in Candidates /\ Unresolved(c)
  BY <1>0 DEF PromoteRead
<1> QED BY <1>2, <1>5, <1>6, <1>7, <1>8 DEF Tables

LEMMA VerdictReadDoes ==
  ASSUME Setting, Types, NEW r \in Requests, NEW c \in Candidates, VerdictRead(r, c)
  PROVE  /\ Types' /\ Tables /\ UNCHANGED <<batch, page, closed, contested>>
         /\ Becomes(r, [Idle EXCEPT !.pc = "verdict", !.todo = {c}, !.status = batch])
         /\ req[r].pc = "idle"
<1>1. [Idle EXCEPT !.pc = "verdict", !.todo = {c}, !.status = batch] \in Req
  BY Domains DEF Idle, Req, Pcs, BatchStatus, VerdictRead, Exists, Types
<1>2. Becomes(r, [Idle EXCEPT !.pc = "verdict", !.todo = {c}, !.status = batch])
  BY <1>1, ReqBecomes DEF VerdictRead
<1>3. verdicts' \in 0..MaxVerdicts BY DEF VerdictRead, Types, Setting
<1>4. UNCHANGED <<batch, cand, runs, wf, page, faults, contested, closed, reported>>
  BY DEF VerdictRead, WorkUnchanged
<1>5. Types' BY <1>2, <1>3, <1>4 DEF Types, Becomes
<1> QED BY <1>2, <1>4, <1>5 DEF Tables, VerdictRead

\* Close and delete begin with a read that asks little.
LEMMA SmallReadsDo ==
  ASSUME Setting, Types, NEW r \in Requests, CloseRead(r) \/ DeleteRead(r)
  PROVE  /\ Types' /\ Tables /\ UNCHANGED <<batch, page, closed, contested>>
         /\ \E pc \in {"close", "unlink"} : Becomes(r, [Idle EXCEPT !.pc = pc])
         /\ req[r].pc = "idle"
<1>1. PICK pc \in {"close", "unlink"} : req' = [req EXCEPT ![r] = [Idle EXCEPT !.pc = pc]]
  BY DEF CloseRead, DeleteRead
<1>2. [Idle EXCEPT !.pc = pc] \in Req BY DEF Idle, Req, Pcs, BatchStatus
<1>3. Becomes(r, [Idle EXCEPT !.pc = pc]) BY <1>1, <1>2, ReqBecomes
<1>4. UNCHANGED <<batch, cand, runs, wf, page, faults, verdicts, contested, closed, reported>>
      /\ req[r].pc = "idle"
  BY DEF CloseRead, DeleteRead, WorkUnchanged
<1>5. Types' BY <1>3, <1>4 DEF Types, Becomes
<1> QED BY <1>3, <1>4, <1>5 DEF Tables

LEMMA TallyDoes ==
  ASSUME Setting, Types, NEW r \in Requests, Tally(r)
  PROVE  /\ Types' /\ Tables /\ UNCHANGED <<batch, page, closed, contested>>
         /\ \E d \in BOOLEAN : /\ Becomes(r, [req[r] EXCEPT !.pc = "store", !.done = d])
                               /\ d => AllResolved
         /\ req[r].pc = "tally"
<1>1. PICK d \in BOOLEAN : (d <=> AllResolved) /\ req' = [req EXCEPT ![r].pc = "store", ![r].done = d]
  <2> AllResolved \in BOOLEAN BY DEF AllResolved
  <2> WITNESS AllResolved \in BOOLEAN
  <2> QED BY DEF Tally
<1>2. req[r] \in Req BY DEF Types
<1>3. [req[r] EXCEPT !.pc = "store", !.done = d] \in Req BY <1>2 DEF Req, Pcs
<1>4. req' = [req EXCEPT ![r] = [req[r] EXCEPT !.pc = "store", !.done = d]] BY <1>1 DEF Types
<1>5. Becomes(r, [req[r] EXCEPT !.pc = "store", !.done = d]) BY <1>3, <1>4, ReqBecomes
<1>6. UNCHANGED <<batch, cand, runs, wf, page, faults, verdicts, contested, closed, reported>>
      /\ req[r].pc = "tally"
  BY DEF Tally, WorkUnchanged
<1>7. Types' BY <1>5, <1>6 DEF Types, Becomes
<1> QED BY <1>1, <1>5, <1>6, <1>7 DEF Tables

LEMMA StoreStatusDoes ==
  ASSUME Setting, Types, NEW r \in Requests, StoreStatus(r)
  PROVE  /\ Types' /\ Tables /\ UNCHANGED <<page, closed, contested>>
         /\ SetStatus(IF req[r].done THEN "done" ELSE "partially_promoted")
         /\ Exists <=> batch' # Deleted
         /\ \/ req[r].made = {} /\ Becomes(r, Idle)
            \/ req[r].made # {} /\ Becomes(r, [req[r] EXCEPT !.pc = "launch"])
         /\ req[r].pc = "store"
<1>1. /\ UNCHANGED <<cand, runs, wf, page, faults, verdicts, contested, closed, reported>>
      /\ req[r].pc = "store"
      /\ SetStatus(IF req[r].done THEN "done" ELSE "partially_promoted")
  BY DEF StoreStatus, WorkUnchanged
<1>2. \/ req[r].made = {} /\ Becomes(r, Idle)
      \/ req[r].made # {} /\ Becomes(r, [req[r] EXCEPT !.pc = "launch"])
  BY GoBecomes, AnswerBecomes DEF StoreStatus, Pcs
<1>3. batch' \in BatchStatus \cup {Deleted} /\ (Exists <=> batch' # Deleted)
  BY <1>1, SetStatusType DEF BatchStatus, REVIEW, TERMINAL_STATUSES
<1>4. Types' BY <1>1, <1>2, <1>3 DEF Types, Becomes
<1> QED BY <1>1, <1>2, <1>3, <1>4 DEF Tables

LEMMA LiftDoes ==
  ASSUME Setting, Types, NEW r \in Requests, Lift(r)
  PROVE  /\ Types' /\ Tables /\ UNCHANGED <<closed, contested>> /\ page' = "loading"
         /\ batch' = IF batch = "failed" THEN "ready_for_review" ELSE batch
         /\ Exists <=> batch' # Deleted
         /\ Becomes(r, Idle) /\ req[r].pc = "lift"
<1>1. /\ UNCHANGED <<cand, runs, wf, faults, verdicts, contested, closed, reported>>
      /\ req[r].pc = "lift" /\ page' = "loading"
      /\ batch' = IF batch = "failed" THEN "ready_for_review" ELSE batch
  BY DEF Lift
<1>2. Becomes(r, Idle) BY AnswerBecomes DEF Lift
<1>3. batch' \in BatchStatus \cup {Deleted} /\ (Exists <=> batch' # Deleted)
  BY <1>1 DEF BatchStatus, REVIEW, TERMINAL_STATUSES, Exists, Deleted, Types
<1>4. Types' BY <1>1, <1>2, <1>3 DEF Types, Becomes
<1> QED BY <1>1, <1>2, <1>3, <1>4 DEF Tables

LEMMA CloseDoes ==
  ASSUME Setting, Types, NEW r \in Requests, Close(r)
  PROVE  /\ Types' /\ Tables /\ UNCHANGED <<contested, page>> /\ closed' = TRUE
         /\ SetStatus("done") /\ (Exists <=> batch' # Deleted)
         /\ Becomes(r, Idle) /\ req[r].pc = "close"
<1>1. /\ UNCHANGED <<cand, runs, wf, faults, verdicts, contested, page, reported>>
      /\ req[r].pc = "close" /\ closed' = TRUE /\ SetStatus("done")
  BY DEF Close, WorkUnchanged
<1>2. Becomes(r, Idle) BY AnswerBecomes DEF Close
<1>3. batch' \in BatchStatus \cup {Deleted} /\ (Exists <=> batch' # Deleted)
  BY <1>1, SetStatusType DEF BatchStatus, TERMINAL_STATUSES
<1>4. Types' BY <1>1, <1>2, <1>3 DEF Types, Becomes
<1> QED BY <1>1, <1>2, <1>3, <1>4 DEF Tables

\* The least of some numbers, and the greatest: what NextOf and Last choose.
LEMMA LeastNatural ==
  ASSUME NEW S \in SUBSET Nat, S # {}
  PROVE  \E m \in S : \A n \in S : m <= n
<1>1. \E x \in S : \A y \in S : ~ (<<y, x>> \in OpToRel(<, Nat))
  BY NatLessThanWellFounded, WFMin
<1>2. PICK x \in S : \A y \in S : ~ (<<y, x>> \in OpToRel(<, Nat)) BY <1>1
<1>3. ASSUME NEW y \in S PROVE x <= y
  <2>1. ~(y < x) BY <1>2 DEF OpToRel
  <2> QED BY <2>1
<1> QED BY <1>3

LEMMA NextIsOne ==
  ASSUME Setting, Types, NEW r \in Requests, req[r].todo # {}
  PROVE  NextOf(r) \in req[r].todo
<1>1. req[r].todo \subseteq Nat BY Consts DEF Types, Req
<1> QED BY <1>1, LeastNatural DEF NextOf

LEMMA LastIsOne ==
  ASSUME Setting, Types, NEW r \in Requests, NEW i, IsLast(req[r].made, i)
  PROVE  Last(r) = i
<1>1. req[r].made \subseteq Nat BY Consts DEF Types, Req
<1>2. Last(r) \in req[r].made /\ \A j \in req[r].made : j <= Last(r) BY DEF IsLast, Last, GreatestOf
<1>3. Last(r) <= i /\ i <= Last(r) BY <1>2 DEF IsLast
<1>4. Last(r) \in Nat /\ i \in Nat BY <1>1, <1>2 DEF IsLast
<1> QED BY <1>3, <1>4

\* The steps that change the tables.

LEMMA SkipDoes ==
  ASSUME Setting, Types, NEW r \in Requests, Skip(r)
  PROVE  /\ Types' /\ UNCHANGED <<batch, wf, page, closed, contested, runs, reported>>
         /\ DOMAIN cand' = Candidates
         /\ \A c \in Candidates :
              /\ c \in req[r].todo => /\ cand'[c].status = "skipped"
                                      /\ cand'[c].promoted_run_id = cand[c].promoted_run_id
                                      /\ cand'[c].analysed = cand[c].analysed
                                      /\ cand'[c].last_error = cand[c].last_error
              /\ c \notin req[r].todo => cand'[c] = cand[c]
         /\ Becomes(r, [req[r] EXCEPT !.pc = "tally"]) /\ req[r].pc = "skip"
<1>1. /\ UNCHANGED <<batch, runs, wf, page, faults, verdicts, contested, closed, reported>>
      /\ req[r].pc = "skip"
      /\ cand' = [c \in Candidates |-> IF c \in req[r].todo THEN [cand[c] EXCEPT !.status = "skipped"]
                                                            ELSE cand[c]]
  BY DEF Skip, WorkUnchanged
<1>2. Becomes(r, [req[r] EXCEPT !.pc = "tally"]) BY GoBecomes DEF Skip, Pcs
<1>3. DOMAIN cand' = Candidates /\ cand' = [c \in DOMAIN cand' |-> cand'[c]] BY <1>1
<1>4. ASSUME NEW c \in Candidates
      PROVE  /\ cand'[c] \in CandidateRow
             /\ c \in req[r].todo => /\ cand'[c].status = "skipped"
                                     /\ cand'[c].promoted_run_id = cand[c].promoted_run_id
                                     /\ cand'[c].analysed = cand[c].analysed
                                     /\ cand'[c].last_error = cand[c].last_error
             /\ c \notin req[r].todo => cand'[c] = cand[c]
  <2>1. cand'[c] = IF c \in req[r].todo THEN [cand[c] EXCEPT !.status = "skipped"] ELSE cand[c]
    BY <1>1
  <2>2. cand[c] \in CandidateRow BY Domains
  <2> QED BY <2>1, <2>2 DEF CandidateRow, RESOLVED_CANDIDATE_STATUSES
<1>5. cand' \in Seq(CandidateRow) /\ Len(cand') = Len(cand)
  BY <1>3, <1>4, SameRows, SMTT(30) DEF Types, Candidates
<1>6. Types' BY <1>1, <1>2, <1>5 DEF Types, Becomes
<1> QED BY <1>1, <1>2, <1>3, <1>4, <1>6

LEMMA InsertRunDoes ==
  ASSUME Setting, Types, NEW r \in Requests, InsertRun(r)
  PROVE  LET n == Len(runs) + 1
         IN  /\ Types' /\ UNCHANGED <<batch, cand, wf, page, closed, contested, reported>>
             /\ DOMAIN runs' = DOMAIN runs \cup {n} /\ n \notin DOMAIN runs
             /\ \A i \in DOMAIN runs : runs'[i] = runs[i] /\ i <= n
             /\ runs'[n].of = NextOf(r) /\ ~runs'[n].instance
             /\ Becomes(r, [req[r] EXCEPT !.pc = "mark", !.made = req[r].made \cup {n}])
             /\ req[r].pc = "insert" /\ NextOf(r) \in Candidates
<1> DEFINE n == Len(runs) + 1
<1>1. /\ UNCHANGED <<batch, cand, wf, page, faults, verdicts, contested, closed, reported>>
      /\ req[r].pc = "insert" /\ NextOf(r) \in Candidates /\ Len(runs) < MaxRuns
      /\ runs' = Append(runs, [of |-> NextOf(r), instance |-> FALSE])
  BY DEF InsertRun, WorkUnchanged
<1>2. n \in RunIds /\ \A i \in DOMAIN runs : i <= n
  BY <1>1, Domains, Consts DEF Setting
<1>3. req[r] \in Req BY DEF Types
<1>4. [req[r] EXCEPT !.pc = "mark", !.made = req[r].made \cup {n}] \in Req
  BY <1>2, <1>3 DEF Req, Pcs
<1>5. req' = [req EXCEPT ![r] = [req[r] EXCEPT !.pc = "mark", !.made = req[r].made \cup {n}]]
  BY DEF InsertRun, Types
<1>6. Becomes(r, [req[r] EXCEPT !.pc = "mark", !.made = req[r].made \cup {n}])
  BY <1>4, <1>5, ReqBecomes
<1> DEFINE run == [of |-> NextOf(r), instance |-> FALSE]
<1>7. run \in RunRow /\ run.of = NextOf(r) /\ ~run.instance BY <1>1, Domains DEF RunRow
<1>7a. runs' = Append(runs, run) BY <1>1
<1> HIDE DEF run
<1>8. /\ runs' \in Seq(RunRow) /\ Len(runs') = n /\ DOMAIN runs' = DOMAIN runs \cup {n}
      /\ \A i \in DOMAIN runs : runs'[i] = runs[i]
      /\ runs'[n] = run /\ n \notin DOMAIN runs
  BY <1>7, <1>7a, AppendRow DEF Types
<1>9. Types' BY <1>1, <1>2, <1>6, <1>8, Consts DEF Types, Becomes
<1> QED BY <1>1, <1>2, <1>6, <1>7, <1>8, <1>9

LEMMA MarkPromotedDoes ==
  ASSUME Setting, Types, NEW r \in Requests, MarkPromoted(r), req[r].todo # {},
         NEW i, IsLast(req[r].made, i)
  PROVE  /\ Types' /\ UNCHANGED <<batch, wf, page, closed, contested, runs, reported>>
         /\ DOMAIN cand' = Candidates
         /\ \A c \in Candidates :
              /\ c = NextOf(r) => /\ cand'[c].status = "promoted" /\ cand'[c].promoted_run_id = i
                                  /\ cand'[c].analysed = cand[c].analysed
                                  /\ cand'[c].last_error = cand[c].last_error
              /\ c # NextOf(r) => cand'[c] = cand[c]
         /\ \E pc \in {"insert", "tally"} :
              /\ Becomes(r, [req[r] EXCEPT !.pc = pc, !.todo = Rest(r), !.twice = req[r].twice \ {NextOf(r)}])
              /\ pc = "insert" => Rest(r) # {}
         /\ req[r].pc = "mark"
<1>1. /\ UNCHANGED <<batch, runs, wf, page, faults, verdicts, contested, closed, reported>>
      /\ req[r].pc = "mark"
      /\ cand' = [c \in Candidates |->
                   IF c = NextOf(r) THEN [cand[c] EXCEPT !.status = "promoted", !.promoted_run_id = Last(r)]
                   ELSE cand[c]]
  BY DEF MarkPromoted, WorkUnchanged, Last, GreatestOf
<1>2. Last(r) = i /\ i \in RunIds BY LastIsOne DEF IsLast, Types, Req
<1>3. DOMAIN cand' = Candidates /\ cand' = [c \in DOMAIN cand' |-> cand'[c]] BY <1>1
<1>4. ASSUME NEW c \in Candidates
      PROVE  /\ cand'[c] \in CandidateRow
             /\ c = NextOf(r) => /\ cand'[c].status = "promoted" /\ cand'[c].promoted_run_id = i
                                 /\ cand'[c].analysed = cand[c].analysed
                                 /\ cand'[c].last_error = cand[c].last_error
             /\ c # NextOf(r) => cand'[c] = cand[c]
  <2>1. cand'[c] = IF c = NextOf(r) THEN [cand[c] EXCEPT !.status = "promoted", !.promoted_run_id = i]
                   ELSE cand[c]
    BY <1>1, <1>2
  <2>2. cand[c] \in CandidateRow BY Domains
  <2> QED BY <1>2, <2>1, <2>2 DEF CandidateRow, RESOLVED_CANDIDATE_STATUSES
<1>5. cand' \in Seq(CandidateRow) /\ Len(cand') = Len(cand)
  BY <1>3, <1>4, SameRows DEF Types, Candidates
<1>6. PICK pc \in {"insert", "tally"} :
        /\ req' = [req EXCEPT ![r].todo = Rest(r), ![r].twice = req[r].twice \ {NextOf(r)}, ![r].pc = pc]
        /\ pc = "insert" => Rest(r) # {}
  BY DEF MarkPromoted, Types, Req
<1>7. req[r] \in Req BY DEF Types
<1>7a. Rest(r) \subseteq req[r].todo BY DEF Rest
<1>8. [req[r] EXCEPT !.pc = pc, !.todo = Rest(r), !.twice = req[r].twice \ {NextOf(r)}] \in Req
  BY <1>7, <1>7a DEF Req, Pcs
<1>9. req' = [req EXCEPT ![r] =
                [req[r] EXCEPT !.pc = pc, !.todo = Rest(r), !.twice = req[r].twice \ {NextOf(r)}]]
  BY <1>6, <1>7 DEF Types, Req
<1>10. Becomes(r, [req[r] EXCEPT !.pc = pc, !.todo = Rest(r), !.twice = req[r].twice \ {NextOf(r)}])
  BY <1>8, <1>9, ReqBecomes
<1>11. Types' BY <1>1, <1>5, <1>10 DEF Types, Becomes
<1> QED BY <1>1, <1>3, <1>4, <1>6, <1>10, <1>11

LEMMA LaunchDoes ==
  ASSUME Setting, Types, NEW r \in Requests, Launch(r)
  PROVE  /\ Types' /\ UNCHANGED <<batch, cand, wf, page, closed, contested, reported>>
         /\ \E i : /\ DOMAIN runs' = DOMAIN runs
                   /\ \A j \in DOMAIN runs : /\ runs'[j].of = runs[j].of
                                             /\ j # i => runs'[j] = runs[j]
                                             /\ j = i => runs'[j].instance
                   /\ \/ Becomes(r, Idle) /\ \A j \in req[r].made : j = i \/ runs[j].instance
                      \/ {j \in req[r].made : ~runs[j].instance} # {i} /\ req' = req
                   /\ (\E j \in req[r].made : ~runs[j].instance) => i \in req[r].made /\ ~runs[i].instance
         /\ req[r].pc = "launch"
<1> DEFINE left == {j \in req[r].made : ~runs[j].instance}
           i == CHOOSE x \in left : \A y \in left : x <= y
<1>1. /\ UNCHANGED <<batch, cand, wf, page, faults, verdicts, contested, closed, reported>>
      /\ req[r].pc = "launch" /\ runs' = [runs EXCEPT ![i].instance = TRUE]
      /\ (IF left = {i} THEN Answer(r) ELSE UNCHANGED req)
  BY DEF Launch, WorkUnchanged
<1>2. left # {} => i \in left
  <2>1. left \subseteq Nat BY Consts DEF Types, Req
  <2> QED BY <2>1, LeastNatural
<1> HIDE DEF i
<1>3. \/ Becomes(r, Idle) /\ \A j \in req[r].made : j = i \/ runs[j].instance
      \/ left # {i} /\ req' = req
  BY <1>1, AnswerBecomes
<1>4. DOMAIN runs' = DOMAIN runs /\ runs' = [j \in DOMAIN runs' |-> runs'[j]] BY <1>1
<1>5. ASSUME NEW j \in DOMAIN runs
      PROVE  /\ runs'[j] \in RunRow /\ runs'[j].of = runs[j].of
             /\ j # i => runs'[j] = runs[j]
             /\ j = i => runs'[j].instance
  <2>1. runs[j] \in RunRow BY Domains
  <2>2. runs'[j] = IF j = i THEN [runs[j] EXCEPT !.instance = TRUE] ELSE runs[j] BY <1>1
  <2> QED BY <2>1, <2>2 DEF RunRow
<1>6. runs' \in Seq(RunRow) /\ Len(runs') = Len(runs) BY <1>4, <1>5, SameRows DEF Types
<1>7. req' \in [Requests -> Req] BY <1>3 DEF Types, Becomes
<1>8. Types' BY <1>1, <1>6, <1>7 DEF Types
<1>9. (\E j \in req[r].made : ~runs[j].instance) => i \in req[r].made /\ ~runs[i].instance BY <1>2
<1>10. /\ DOMAIN runs' = DOMAIN runs
       /\ \A j \in DOMAIN runs : /\ runs'[j].of = runs[j].of
                                 /\ j # i => runs'[j] = runs[j]
                                 /\ j = i => runs'[j].instance
  BY <1>4, <1>5
<1> QED BY <1>1, <1>3, <1>8, <1>9, <1>10

LEMMA RetryVerdictDoes ==
  ASSUME Setting, Types, NEW r \in Requests, RetryVerdict(r), req[r].todo # {}
  PROVE  /\ Types' /\ UNCHANGED <<batch, wf, closed, contested, runs, reported>>
         /\ page' = page \/ page' = "loading"
         /\ \E c \in req[r].todo :
              /\ Judged(c)
              /\ \/ Becomes(r, Idle)
                 \/ /\ Becomes(r, [req[r] EXCEPT !.pc = "lift"]) /\ req[r].status = "failed"
                    /\ c \in Candidates => cand'[c].analysed
         /\ req[r].pc = "verdict"
<1>1. PICK ok \in BOOLEAN :
        /\ \A c \in req[r].todo : Verdict(c, ok)
        /\ IF ok /\ req[r].status = "failed" THEN Go(r, "lift") /\ UNCHANGED page
           ELSE Answer(r) /\ page' = "loading"
  BY DEF RetryVerdict
<1>2. PICK c \in req[r].todo : Verdict(c, ok) BY <1>1
<1>3. Judged(c) /\ (ok /\ c \in Candidates => cand'[c].analysed) BY <1>2, VerdictJudges
<1>4. /\ UNCHANGED <<batch, runs, wf, faults, verdicts, closed, contested, reported>>
      /\ req[r].pc = "verdict"
  BY DEF RetryVerdict
<1>5. \/ Becomes(r, Idle) /\ page' = "loading"
      \/ /\ Becomes(r, [req[r] EXCEPT !.pc = "lift"]) /\ req[r].status = "failed"
         /\ ok /\ page' = page
  BY <1>1, GoBecomes, AnswerBecomes DEF Pcs
<1>6. Types' BY <1>3, <1>4, <1>5 DEF Types, Becomes, Judged
<1> QED BY <1>3, <1>4, <1>5, <1>6

LEMMA UnlinkDoes ==
  ASSUME Setting, Types, NEW r \in Requests, Unlink(r)
  PROVE  /\ Types' /\ UNCHANGED <<batch, cand, wf, page, closed, contested, reported>>
         /\ DOMAIN runs' = DOMAIN runs
         /\ \A i \in DOMAIN runs : /\ runs'[i].of = 0 \/ runs'[i].of = runs[i].of
                                   /\ runs'[i].instance = runs[i].instance
         /\ Becomes(r, [req[r] EXCEPT !.pc = "drop"]) /\ req[r].pc = "unlink"
<1>1. /\ UNCHANGED <<batch, cand, wf, page, faults, verdicts, contested, closed, reported>>
      /\ req[r].pc = "unlink"
      /\ runs' = [i \in DOMAIN runs |->
                    [runs[i] EXCEPT !.of = IF runs[i].of \in Candidates THEN 0 ELSE runs[i].of]]
  BY Domains DEF Unlink, WorkUnchanged, RunRow
<1>2. Becomes(r, [req[r] EXCEPT !.pc = "drop"]) BY GoBecomes DEF Unlink, Pcs
<1>3. DOMAIN runs' = DOMAIN runs /\ runs' = [i \in DOMAIN runs' |-> runs'[i]] BY <1>1
<1>4. ASSUME NEW i \in DOMAIN runs
      PROVE  /\ runs'[i].of = 0 \/ runs'[i].of = runs[i].of
             /\ runs'[i] \in RunRow /\ runs'[i].instance = runs[i].instance
  <2>1. runs[i] \in RunRow BY Domains
  <2>2. PICK n \in {0, runs[i].of} : runs'[i] = [runs[i] EXCEPT !.of = n] BY <1>1
  <2> QED BY <2>1, <2>2 DEF RunRow
<1>5. runs' \in Seq(RunRow) /\ Len(runs') = Len(runs) BY <1>3, <1>4, SameRows DEF Types
<1>6. Types' BY <1>1, <1>2, <1>5 DEF Types, Becomes
<1> QED BY <1>1, <1>2, <1>3, <1>4, <1>6

LEMMA DropDoes ==
  ASSUME Setting, Types, NEW r \in Requests, Drop(r)
  PROVE  /\ Types' /\ UNCHANGED <<runs, wf, page, closed, contested, reported>>
         /\ batch' = Deleted /\ cand' = <<>> /\ DOMAIN cand' = {}
         /\ \A i \in DOMAIN runs : runs[i].of \notin Candidates
         /\ Becomes(r, Idle) /\ req[r].pc = "drop"
<1>1. /\ UNCHANGED <<runs, wf, page, faults, verdicts, contested, closed, reported>>
      /\ req[r].pc = "drop" /\ batch' = Deleted /\ cand' = <<>>
      /\ \A c \in Candidates : RunsOf(c) = {}
  BY DEF Drop, WorkUnchanged
<1>2. Becomes(r, Idle) BY AnswerBecomes DEF Drop
<1>3. \A i \in DOMAIN runs : runs[i].of \notin Candidates BY <1>1 DEF RunsOf
<1>4. cand' \in Seq(CandidateRow) /\ Len(cand') <= MaxCandidates /\ DOMAIN cand' = {}
  BY <1>1 DEF Setting
<1>5. Types' BY <1>1, <1>2, <1>4 DEF Types, Becomes
<1> QED BY <1>1, <1>2, <1>3, <1>4, <1>5

LEMMA RequestFailsDoes ==
  ASSUME Setting, Types, NEW r \in Requests, RequestFails(r)
  PROVE  /\ Types' /\ UNCHANGED <<batch, cand, runs, wf, page, closed, contested>>
         /\ reported' = reported \cup {i \in req[r].made : ~runs[i].instance}
         /\ Becomes(r, Idle)
<1>1. /\ UNCHANGED <<batch, cand, runs, wf, page, verdicts, contested, closed>>
      /\ reported' = reported \cup {i \in req[r].made : ~runs[i].instance}
      /\ faults < MaxFaults /\ faults' = faults + 1
  BY DEF RequestFails
<1>2. Becomes(r, Idle) BY AnswerBecomes DEF RequestFails
<1>3. reported' \subseteq RunIds BY <1>1 DEF Types, Req
<1>4. faults' \in 0..MaxFaults BY <1>1 DEF Types, Setting
<1>5. Types' BY <1>1, <1>2, <1>3, <1>4 DEF Types, Becomes
<1> QED BY <1>1, <1>2, <1>5

LEMMA PollDoes ==
  ASSUME Setting, Types, Poll
  PROVE  /\ Types' /\ UNCHANGED <<batch, cand, runs, wf, req, closed, contested, reported>>
         /\ page' = batch
BY DEF Poll, Types, Exists

-----------------------------------------------------------------------------
(* What a request holds after its step. *)

Turn(r, pc, todo, made) ==
  /\ \A x \in Requests : x # r => req'[x] = req[x]
  /\ req'[r].pc = pc /\ req'[r].todo = todo /\ req'[r].made = made
  /\ req'[r].twice \subseteq req[r].twice \cup contested'

LEMMA IdleTurn ==
  ASSUME Types, NEW r \in Requests, Becomes(r, Idle)
  PROVE  Turn(r, "idle", {}, {})
BY DEF Becomes, Turn, Idle

LEMMA PcTurn ==
  ASSUME Types, NEW r \in Requests, NEW pc \in Pcs, Becomes(r, [req[r] EXCEPT !.pc = pc])
  PROVE  /\ Turn(r, pc, req[r].todo, req[r].made)
         /\ req'[r].status = req[r].status /\ req'[r].done = req[r].done
<1>1. req[r] \in Req BY DEF Types
<1> QED BY <1>1 DEF Becomes, Turn, Req

LEMMA DoneTurn ==
  ASSUME Types, NEW r \in Requests, NEW d \in BOOLEAN,
         Becomes(r, [req[r] EXCEPT !.pc = "store", !.done = d])
  PROVE  Turn(r, "store", req[r].todo, req[r].made) /\ req'[r].done = d
<1>1. req[r] \in Req BY DEF Types
<1> QED BY <1>1 DEF Becomes, Turn, Req

LEMMA MadeTurn ==
  ASSUME Types, NEW r \in Requests, NEW S,
         Becomes(r, [req[r] EXCEPT !.pc = "mark", !.made = S])
  PROVE  Turn(r, "mark", req[r].todo, S)
<1>1. req[r] \in Req BY DEF Types
<1> QED BY <1>1 DEF Becomes, Turn, Req

LEMMA TodoTurn ==
  ASSUME Types, NEW r \in Requests, NEW S, NEW T, NEW pc, T \subseteq req[r].twice,
         Becomes(r, [req[r] EXCEPT !.pc = pc, !.todo = S, !.twice = T])
  PROVE  Turn(r, pc, S, req[r].made)
<1>1. req[r] \in Req BY DEF Types
<1> QED BY <1>1 DEF Becomes, Turn, Req

LEMMA NewTurn ==
  ASSUME Types, NEW r \in Requests, NEW S, NEW pc,
         \/ Becomes(r, [Idle EXCEPT !.pc = pc, !.todo = S])
         \/ \E T : /\ Becomes(r, [Idle EXCEPT !.pc = pc, !.todo = S, !.twice = T])
                   /\ T \subseteq contested'
         \/ S = {} /\ Becomes(r, [Idle EXCEPT !.pc = pc])
         \/ Becomes(r, [Idle EXCEPT !.pc = pc, !.todo = S, !.status = batch])
  PROVE  Turn(r, pc, S, {})
BY DEF Becomes, Turn, Idle

\* A promotion goes on with what is left.
LEMMA MarkTurns ==
  ASSUME Setting, Types, NEW r \in Requests, MarkPromoted(r), req[r].todo # {},
         NEW i, IsLast(req[r].made, i)
  PROVE  \E pc \in {"insert", "tally"} :
           Turn(r, pc, Rest(r), req[r].made) /\ (pc = "insert" => Rest(r) # {})
<1>1. PICK pc \in {"insert", "tally"} :
        /\ Becomes(r, [req[r] EXCEPT !.pc = pc, !.todo = Rest(r), !.twice = req[r].twice \ {NextOf(r)}])
        /\ pc = "insert" => Rest(r) # {}
  BY MarkPromotedDoes
<1>2. Turn(r, pc, Rest(r), req[r].made) BY <1>1, TodoTurn
<1> QED BY <1>1, <1>2

\* What was chosen from a set is chosen from it again.
LeastOf(S) == CHOOSE c \in S : \A d \in S : c <= d

LEMMA ChoiceKept ==
  ASSUME NEW r, req'[r].todo = req[r].todo
  PROVE  NextOf(r)' = NextOf(r)
<1>1. NextOf(r) = LeastOf(req[r].todo) /\ NextOf(r)' = LeastOf(req'[r].todo) BY DEF NextOf, LeastOf
<1> QED BY <1>1

LEMMA LastKept ==
  ASSUME NEW r, req'[r].made = req[r].made
  PROVE  Last(r)' = Last(r)
BY DEF Last

-----------------------------------------------------------------------------
(* The rows. *)

\* A step that keeps what the desk decided, and the runs.
LEMMA RowsByTables ==
  ASSUME Setting, Types, Rows, DOMAIN cand' = Candidates, runs' = runs, Exists <=> batch' # Deleted,
         \A c \in Candidates : /\ cand'[c].status = cand[c].status
                               /\ cand'[c].promoted_run_id = cand[c].promoted_run_id,
         Exists => \A r \in Requests : req'[r].todo \subseteq Candidates
  PROVE  Rows'
BY DEF Rows, Candidates, Exists

LEMMA RowsByWorking ==
  ASSUME Setting, Types, Rows, Working
  PROVE  Rows'
<1>1. ~Exists => DOMAIN cand' = {} BY DEF Working, Rows
<1>2. ASSUME NEW c \in DOMAIN cand'
      PROVE  /\ cand'[c].status = "candidate" => cand'[c].promoted_run_id = NoRun
             /\ cand'[c].status = "promoted" =>
                  /\ cand'[c].promoted_run_id \in DOMAIN runs
                  /\ runs[cand'[c].promoted_run_id].of \in {c, 0}
  BY <1>2 DEF Working, Rows
<1> QED BY <1>1, <1>2 DEF Working, Rows, Candidates, Exists

LEMMA RowsBySkip ==
  ASSUME Setting, Types, Rows, NEW r \in Requests, Skip(r)
  PROVE  Rows'
<1>1. Turn(r, "tally", req[r].todo, req[r].made) BY SkipDoes, PcTurn DEF Pcs
<1>2. \A x \in Requests : req'[x].todo = req[x].todo BY <1>1 DEF Turn
<1>3. /\ UNCHANGED <<batch, runs>>
      /\ cand' = [c \in Candidates |-> IF c \in req[r].todo
                                        THEN [cand[c] EXCEPT !.status = "skipped"] ELSE cand[c]]
  BY DEF Skip, WorkUnchanged
<1>4. DOMAIN cand' = Candidates BY <1>3
<1>5. ASSUME NEW c \in Candidates
      PROVE  /\ cand'[c].promoted_run_id = cand[c].promoted_run_id
             /\ cand'[c].status \in {cand[c].status, "skipped"}
  <2>1. cand[c] \in CandidateRow BY Domains
  <2> QED BY <1>3, <2>1 DEF CandidateRow
<1> QED BY <1>2, <1>3, <1>4, <1>5 DEF Rows, Candidates, Exists

LEMMA RowsByInsert ==
  ASSUME Setting, Types, Rows, NEW r \in Requests, InsertRun(r)
  PROVE  Rows'
<1> DEFINE n == Len(runs) + 1
<1>1. Turn(r, "mark", req[r].todo, req[r].made \cup {n}) BY InsertRunDoes, MadeTurn
<1>2. \A x \in Requests : req'[x].todo = req[x].todo BY <1>1 DEF Turn
<1>3. /\ UNCHANGED <<batch, cand>> /\ DOMAIN runs' = DOMAIN runs \cup {n}
      /\ \A i \in DOMAIN runs : runs'[i] = runs[i]
      /\ runs'[n].of = NextOf(r) /\ NextOf(r) \in Candidates
  BY InsertRunDoes
<1> HIDE DEF n
<1> QED BY <1>2, <1>3 DEF Rows, Candidates, Exists

LEMMA RowsByMark ==
  ASSUME Setting, Types, Rows, Made, NEW r \in Requests, MarkPromoted(r)
  PROVE  Rows'
<1>1. PICK i : IsLast(req[r].made, i) BY DEF Made, MarkPromoted
<1>2. /\ req[r].todo # {} /\ Last(r) = i /\ i \in DOMAIN runs /\ runs[i].of \in {NextOf(r), 0}
  BY <1>1, LastIsOne DEF Made, MarkPromoted, IsLast
<1>3. PICK pc : Turn(r, pc, Rest(r), req[r].made)
  BY <1>1, <1>2, MarkTurns
<1>4. \A x \in Requests : req'[x].todo \subseteq req[x].todo BY <1>3 DEF Turn, Rest
<1>5. /\ UNCHANGED <<batch, runs>> /\ DOMAIN cand' = Candidates
      /\ \A c \in Candidates :
           /\ c = NextOf(r) => cand'[c].status = "promoted" /\ cand'[c].promoted_run_id = i
           /\ c # NextOf(r) => cand'[c] = cand[c]
  <2>1. /\ UNCHANGED <<batch, runs>>
        /\ cand' = [c \in Candidates |->
                     IF c = NextOf(r)
                     THEN [cand[c] EXCEPT !.status = "promoted", !.promoted_run_id = Last(r)]
                     ELSE cand[c]]
    BY DEF MarkPromoted, WorkUnchanged, Last, GreatestOf
  <2>2. ASSUME NEW c \in Candidates
        PROVE  /\ c = NextOf(r) => cand'[c].status = "promoted" /\ cand'[c].promoted_run_id = i
               /\ c # NextOf(r) => cand'[c] = cand[c]
    <3>1. cand[c] \in CandidateRow BY Domains
    <3> QED BY <1>2, <2>1, <3>1 DEF CandidateRow
  <2> QED BY <2>1, <2>2
<1> QED BY <1>2, <1>4, <1>5 DEF Rows, Candidates, Exists

LEMMA RowsByLaunch ==
  ASSUME Setting, Types, Rows, NEW r \in Requests, Launch(r)
  PROVE  Rows'
<1>1. \A x \in Requests : req'[x].todo \subseteq req[x].todo
  BY LaunchDoes, IdleTurn DEF Turn
<1>2. UNCHANGED <<batch, cand>> /\ DOMAIN runs' = DOMAIN runs
      /\ \A i \in DOMAIN runs : runs'[i].of = runs[i].of
  BY LaunchDoes
<1> QED BY <1>1, <1>2 DEF Rows, Candidates, Exists

LEMMA RowsByUnlink ==
  ASSUME Setting, Types, Rows, NEW r \in Requests, Unlink(r)
  PROVE  Rows'
<1>1. \A x \in Requests : req'[x].todo = req[x].todo BY UnlinkDoes, PcTurn DEF Turn, Pcs
<1>2. UNCHANGED <<batch, cand>> /\ DOMAIN runs' = DOMAIN runs
      /\ \A i \in DOMAIN runs : runs'[i].of = 0 \/ runs'[i].of = runs[i].of
  BY UnlinkDoes
<1> QED BY <1>1, <1>2 DEF Rows, Candidates, Exists

LEMMA RowsByDrop ==
  ASSUME Setting, Types, Rows, NEW r \in Requests, Drop(r)
  PROVE  Rows'
<1>1. /\ batch' = Deleted /\ runs' = runs /\ DOMAIN cand' = {}
      /\ \A i \in DOMAIN runs : runs[i].of = 0
  BY DropDoes DEF Rows
<1> QED BY <1>1 DEF Rows, Candidates, Exists

\* The steps of requests that change neither table, and RetryVerdict.
Aside(r) == \/ Tally(r) \/ StoreStatus(r) \/ Lift(r) \/ CloseRead(r) \/ Close(r) \/ DeleteRead(r)
            \/ RequestFails(r) \/ RetryVerdict(r)
            \/ \E c \in Candidates : SkipRead(r, c) \/ VerdictRead(r, c)
            \/ \E S \in (SUBSET Candidates) \ {{}} : Promotes(r, S)

LEMMA AsideKeepsRows ==
  ASSUME Setting, Types, Made, NEW r \in Requests, Aside(r)
  PROVE  /\ DOMAIN cand' = Candidates /\ runs' = runs /\ (Exists <=> batch' # Deleted)
         /\ \A c \in Candidates : /\ cand'[c].status = cand[c].status
                                  /\ cand'[c].promoted_run_id = cand[c].promoted_run_id
                                  /\ cand[c].analysed => cand'[c].analysed
                                  /\ cand[c].analysed \/ cand[c].last_error
                                       => cand'[c].analysed \/ cand'[c].last_error
         /\ wf' = wf
<1>1. CASE RetryVerdict(r)
  <2>1. req[r].todo # {} BY <1>1 DEF Made, RetryVerdict
  <2>2. PICK c : Judged(c) BY <1>1, <2>1, RetryVerdictDoes
  <2>3. UNCHANGED <<batch, runs, wf>> BY <1>1, <2>1, RetryVerdictDoes
  <2> QED BY <2>2, <2>3 DEF Judged, Exists
<1>2. CASE RequestFails(r) BY <1>2, RequestFailsDoes DEF Candidates, Exists
<1>3. CASE \/ Tally(r) \/ CloseRead(r) \/ DeleteRead(r)
           \/ \E c \in Candidates : SkipRead(r, c) \/ VerdictRead(r, c)
           \/ \E S \in (SUBSET Candidates) \ {{}} : Promotes(r, S)
  <2>1. UNCHANGED <<cand, runs, batch, wf>>
    BY <1>3, TallyDoes, SmallReadsDo, SkipReadDoes, VerdictReadDoes, PromoteReadDoes DEF Tables
  <2> QED BY <2>1 DEF Candidates, Exists
<1>4. CASE StoreStatus(r) \/ Lift(r) \/ Close(r)
  <2>1. UNCHANGED <<cand, runs, wf>> /\ (Exists <=> batch' # Deleted)
    BY <1>4, StoreStatusDoes, LiftDoes, CloseDoes DEF Tables
  <2> QED BY <2>1 DEF Candidates
<1> QED BY <1>1, <1>2, <1>3, <1>4 DEF Aside

\* What a request of this kind holds: nothing any more, what it held, or candidates that
\* are there.
LEMMA AsideTurns ==
  ASSUME Setting, Types, Made, NEW r \in Requests, Aside(r)
  PROVE  \/ Turn(r, "idle", {}, {})
         \/ \E pc \in {"store", "launch", "lift"} : Turn(r, pc, req[r].todo, req[r].made)
         \/ \E pc \in {"skip", "insert", "verdict", "close", "unlink"}, S \in SUBSET Candidates :
              /\ Turn(r, pc, S, {}) /\ req[r].pc = "idle"
              /\ pc \in {"skip", "insert", "verdict"} => S # {}
<1>1. CASE RetryVerdict(r)
  <2>1. req[r].todo # {} BY <1>1 DEF Made, RetryVerdict
  <2>2. Becomes(r, Idle) \/ Becomes(r, [req[r] EXCEPT !.pc = "lift"])
    BY <1>1, <2>1, RetryVerdictDoes
  <2> QED BY <2>2, IdleTurn, PcTurn DEF Pcs
<1>2. CASE RequestFails(r) \/ Lift(r) \/ Close(r)
  BY <1>2, RequestFailsDoes, LiftDoes, CloseDoes, IdleTurn
<1>3. CASE Tally(r) BY <1>3, TallyDoes, DoneTurn
<1>4. CASE StoreStatus(r) BY <1>4, StoreStatusDoes, IdleTurn, PcTurn DEF Pcs
<1>5. CASE CloseRead(r) \/ DeleteRead(r)
  <2>1. PICK pc \in {"close", "unlink"} : Turn(r, pc, {}, {}) BY <1>5, SmallReadsDo, NewTurn
  <2> QED BY <1>5, <2>1, SmallReadsDo
<1>6. ASSUME NEW c \in Candidates, SkipRead(r, c) \/ VerdictRead(r, c)
      PROVE  \E pc \in {"skip", "verdict"} : Turn(r, pc, {c}, {}) /\ req[r].pc = "idle"
  BY <1>6, SkipReadDoes, VerdictReadDoes, NewTurn
<1>7. ASSUME NEW S \in (SUBSET Candidates) \ {{}}, Promotes(r, S)
      PROVE  Turn(r, "insert", S, {}) /\ req[r].pc = "idle"
  BY <1>7, PromoteReadDoes, NewTurn
<1>8. CASE \E c \in Candidates : SkipRead(r, c) \/ VerdictRead(r, c)
  <2>1. PICK c \in Candidates : SkipRead(r, c) \/ VerdictRead(r, c) BY <1>8
  <2>2. {c} \in SUBSET Candidates /\ {c} # {} OBVIOUS
  <2> QED BY <1>6, <2>1, <2>2
<1>9. CASE \E S \in (SUBSET Candidates) \ {{}} : Promotes(r, S)
  BY <1>7, <1>9
<1> QED BY <1>1, <1>2, <1>3, <1>4, <1>5, <1>8, <1>9 DEF Aside

LEMMA RowsByAside ==
  ASSUME Setting, Types, Rows, Made, NEW r \in Requests, Aside(r)
  PROVE  Rows'
<1>1. Exists => \A x \in Requests : req'[x].todo \subseteq Candidates
  BY AsideTurns DEF Turn, Rows
<1> QED BY <1>1, AsideKeepsRows, RowsByTables

-----------------------------------------------------------------------------
(* The runs that promotions make.                                          *)

\* A request that a step does not concern keeps what it has made, where the runs it made
\* stay as they are.
MadeBy(r) ==
  /\ req[r].made \subseteq DOMAIN runs
  /\ req[r].made # {} => \E i \in req[r].made : IsLast(req[r].made, i)
  /\ req[r].pc \notin Making \cup {"launch"} => req[r].made = {}
  /\ req[r].pc \in Making => \A i \in req[r].made : ~runs[i].instance
  /\ req[r].pc = "launch" => \E i \in req[r].made : ~runs[i].instance
  /\ req[r].pc \in {"insert", "mark", "verdict"} => req[r].todo # {}
  /\ req[r].pc = "mark" => req[r].made # {} /\ runs[Last(r)].of \in {NextOf(r), 0}
  /\ req[r].made \cap reported = {}

LEMMA MadeParts ==
  Made <=> /\ \A r \in Requests : MadeBy(r)
           /\ \A r, q \in Requests : r # q => req[r].made \cap req[q].made = {}
           /\ reported \subseteq DOMAIN runs
           /\ \A i \in reported : ~runs[i].instance
           /\ \A i \in DOMAIN runs : runs[i].instance \/ i \in reported \/ \E r \in Requests : i \in req[r].made
BY DEF Made, MadeBy

LEMMA MadeByOther ==
  ASSUME Setting, Types, NEW x \in Requests, MadeBy(x), req'[x] = req[x],
         DOMAIN runs \subseteq DOMAIN runs',
         \A i \in req[x].made : /\ runs'[i].of \in {runs[i].of, 0}
                                /\ runs'[i].instance = runs[i].instance
                                /\ i \notin reported'
  PROVE  MadeBy(x)'
<1>1. NextOf(x)' = NextOf(x) /\ Last(x)' = Last(x) BY ChoiceKept, LastKept
<1>2. req[x].made # {} => Last(x) \in req[x].made
  BY LastIsOne DEF MadeBy, IsLast
<1>3. IsLast(req'[x].made, Last(x)) <=> IsLast(req[x].made, Last(x)) BY DEF IsLast
<1>4. req[x].made # {} => \E i \in req'[x].made : IsLast(req'[x].made, i) BY DEF MadeBy
<1> QED BY <1>1, <1>2, <1>4 DEF MadeBy, IsLast

LEMMA MadeByWorking ==
  ASSUME Setting, Types, Made, req' = req, runs' = runs, reported' = reported
  PROVE  Made'
<1>1. \A x \in Requests : MadeBy(x) BY MadeParts
<1>2. ASSUME NEW x \in Requests PROVE MadeBy(x)'
  <2>1. \A i \in req[x].made : i \notin reported BY <1>1 DEF MadeBy
  <2> QED BY <1>1, <2>1, MadeByOther
<1> QED BY <1>2 DEF Made, MadeBy

\* A request that has made nothing now.
LEMMA MadeNothing ==
  ASSUME Setting, Types, NEW r \in Requests, req'[r].made = {}, req'[r].pc \notin {"mark", "launch"},
         req'[r].pc \in {"insert", "verdict"} => req'[r].todo # {}
  PROVE  MadeBy(r)'
BY DEF MadeBy

\* A request that goes on with what it has made.
LEMMA MadeStill ==
  ASSUME Setting, Types, NEW r \in Requests, MadeBy(r), req'[r].made = req[r].made,
         \/ req'[r].pc = "launch" /\ req[r].pc = "store" /\ req[r].made # {}
         \/ req'[r].pc \in {"tally", "store"} /\ req[r].pc \in Making \cup {"skip"}
         \/ req'[r].pc \in {"lift", "drop"} /\ req[r].made = {}
         \/ req'[r].pc = "insert" /\ req'[r].todo # {} /\ req[r].pc \in Making,
         runs' = runs, reported' = reported
  PROVE  MadeBy(r)'
<1>1. req[r].pc = "skip" => req[r].made = {} BY DEF MadeBy, Making
<1>2. req[r].made # {} => \E i \in req'[r].made : IsLast(req'[r].made, i) BY DEF MadeBy
<1>3. req'[r].made \subseteq DOMAIN runs /\ req'[r].made \cap reported = {} BY DEF MadeBy
<1>4. req'[r].pc \in Making => \A i \in req[r].made : ~runs[i].instance BY <1>1 DEF MadeBy, Making
<1>5. req[r].pc = "store" /\ req[r].made # {} => \E i \in req[r].made : ~runs[i].instance
  BY DEF MadeBy, Making
<1> QED BY <1>1, <1>2, <1>3, <1>4, <1>5 DEF MadeBy, Making, IsLast

\* A request of this kind that does not fail keeps what it has made, or has made nothing.
LEMMA AsideMakes ==
  ASSUME Setting, Types, Made, NEW r \in Requests, Aside(r), ~RequestFails(r)
  PROVE  /\ runs' = runs /\ reported' = reported
         /\ \/ Turn(r, "idle", {}, {}) /\ req[r].made = {}
            \/ /\ Turn(r, "launch", req[r].todo, req[r].made)
               /\ req[r].made # {} /\ req[r].pc = "store"
            \/ Turn(r, "store", req[r].todo, req[r].made) /\ req[r].pc = "tally"
            \/ Turn(r, "lift", req[r].todo, req[r].made) /\ req[r].made = {}
            \/ \E pc \in {"skip", "insert", "verdict", "close", "unlink"}, S \in SUBSET Candidates :
                 /\ Turn(r, pc, S, {}) /\ req[r].made = {}
                 /\ pc \in {"skip", "insert", "verdict"} => S # {}
<1>1. ASSUME req[r].pc \notin Making \cup {"launch"} PROVE req[r].made = {} BY <1>1 DEF Made
<1>2. CASE RetryVerdict(r)
  <2>1. req[r].todo # {} /\ req[r].pc = "verdict" BY <1>2 DEF Made, RetryVerdict
  <2>2. Becomes(r, Idle) \/ Becomes(r, [req[r] EXCEPT !.pc = "lift"])
    BY <1>2, <2>1, RetryVerdictDoes
  <2>3. runs' = runs /\ reported' = reported BY <1>2, <2>1, RetryVerdictDoes
  <2> QED BY <1>1, <2>1, <2>2, <2>3, IdleTurn, PcTurn DEF Pcs, Making
<1>3. CASE Lift(r) \/ Close(r)
  <2>1. req[r].pc \in {"lift", "close"} /\ Turn(r, "idle", {}, {}) /\ Tables
    BY <1>3, LiftDoes, CloseDoes, IdleTurn
  <2> QED BY <1>1, <2>1 DEF Making, Tables
<1>4. CASE Tally(r) BY <1>4, TallyDoes, DoneTurn DEF Tables
<1>5. CASE StoreStatus(r) BY <1>5, StoreStatusDoes, IdleTurn, PcTurn DEF Pcs, Tables
<1>6. ASSUME \/ CloseRead(r) \/ DeleteRead(r)
             \/ \E c \in Candidates : SkipRead(r, c) \/ VerdictRead(r, c)
             \/ \E S \in (SUBSET Candidates) \ {{}} : Promotes(r, S)
      PROVE  req[r].pc = "idle" /\ Tables
  BY <1>6, SmallReadsDo, SkipReadDoes, VerdictReadDoes, PromoteReadDoes
<1>7. ASSUME req[r].pc = "idle" PROVE req[r].made = {} BY <1>7, <1>1 DEF Making
<1>8. CASE CloseRead(r) \/ DeleteRead(r)
  <2>1. PICK pc \in {"close", "unlink"} : Turn(r, pc, {}, {}) BY <1>8, SmallReadsDo, NewTurn
  <2> QED BY <1>6, <1>7, <1>8, <2>1 DEF Tables
<1>9. CASE \E c \in Candidates : SkipRead(r, c) \/ VerdictRead(r, c)
  <2>1. PICK c \in Candidates : SkipRead(r, c) \/ VerdictRead(r, c) BY <1>9
  <2>2. {c} \in SUBSET Candidates /\ {c} # {} OBVIOUS
  <2>3. Turn(r, "skip", {c}, {}) \/ Turn(r, "verdict", {c}, {})
    BY <2>1, SkipReadDoes, VerdictReadDoes, NewTurn
  <2> QED BY <1>6, <1>7, <1>9, <2>2, <2>3 DEF Tables
<1>10. CASE \E S \in (SUBSET Candidates) \ {{}} : Promotes(r, S)
  <2>1. PICK S \in (SUBSET Candidates) \ {{}} : Promotes(r, S) BY <1>10
  <2>2. Turn(r, "insert", S, {}) BY <2>1, PromoteReadDoes, NewTurn
  <2> QED BY <1>6, <1>7, <1>10, <2>2 DEF Tables
<1> QED BY <1>2, <1>3, <1>4, <1>5, <1>8, <1>9, <1>10 DEF Aside

\* A step of one request that leaves all runs, and what was reported, as they were.
LEMMA MadeByTurn ==
  ASSUME Setting, Types, Made, NEW r \in Requests, MadeBy(r)', runs' = runs, reported' = reported,
         \A x \in Requests : x # r => req'[x] = req[x],
         req'[r].made = req[r].made
  PROVE  Made'
<1>1. ASSUME NEW x \in Requests PROVE MadeBy(x)'
  <2>1. MadeBy(x) /\ \A i \in req[x].made : i \notin reported BY DEF Made, MadeBy
  <2> QED BY <2>1, MadeByOther
<1>2. \A x \in Requests : req'[x].made = req[x].made OBVIOUS
<1> QED BY <1>1, <1>2 DEF Made, MadeBy

LEMMA MadeByAside ==
  ASSUME Setting, Types, Made, NEW r \in Requests, Aside(r), ~RequestFails(r)
  PROVE  Made'
<1>1. runs' = runs /\ reported' = reported /\ MadeBy(r) BY AsideMakes, MadeParts
<1>2. CASE Turn(r, "idle", {}, {}) /\ req[r].made = {}
  <2>1. MadeBy(r)' BY <1>2, MadeNothing DEF Turn
  <2> QED BY <1>1, <1>2, <2>1, MadeByTurn DEF Turn
<1>3. CASE \/ /\ Turn(r, "launch", req[r].todo, req[r].made)
              /\ req[r].made # {} /\ req[r].pc = "store"
           \/ Turn(r, "store", req[r].todo, req[r].made) /\ req[r].pc = "tally"
           \/ Turn(r, "lift", req[r].todo, req[r].made) /\ req[r].made = {}
  <2>1. MadeBy(r)' BY <1>1, <1>3, MadeStill DEF Turn, Making
  <2> QED BY <1>1, <1>3, <2>1, MadeByTurn DEF Turn
<1>4. CASE \E pc \in {"skip", "insert", "verdict", "close", "unlink"}, S \in SUBSET Candidates :
             /\ Turn(r, pc, S, {}) /\ req[r].made = {}
             /\ pc \in {"skip", "insert", "verdict"} => S # {}
  <2>1. MadeBy(r)' BY <1>4, MadeNothing DEF Turn
  <2> QED BY <1>1, <1>4, <2>1, MadeByTurn DEF Turn
<1> QED BY <1>2, <1>3, <1>4, AsideMakes

LEMMA MadeByFailure ==
  ASSUME Setting, Types, Made, NEW r \in Requests, RequestFails(r)
  PROVE  Made'
<1>1. /\ runs' = runs /\ Turn(r, "idle", {}, {})
      /\ reported' = reported \cup {i \in req[r].made : ~runs[i].instance}
  BY RequestFailsDoes, IdleTurn
<1>2. MadeBy(r)' BY <1>1, MadeNothing DEF Turn
<1>3. ASSUME NEW x \in Requests, x # r PROVE MadeBy(x)'
  <2>1. MadeBy(x) /\ req'[x] = req[x] BY <1>1, <1>3 DEF Turn, Made, MadeBy
  <2>2. \A i \in req[x].made : i \notin reported' BY <1>1, <1>3 DEF Made
  <2> QED BY <1>1, <2>1, <2>2, MadeByOther
<1>4. \A x \in Requests : MadeBy(x)' BY <1>2, <1>3
<1>5. \A x \in Requests : req'[x].made = IF x = r THEN {} ELSE req[x].made BY <1>1 DEF Turn
<1>6. \A x, q \in Requests : x # q => req'[x].made \cap req'[q].made = {} BY <1>5 DEF Made
<1>7. reported' \subseteq DOMAIN runs /\ \A i \in reported' : ~runs[i].instance
  BY <1>1 DEF Made
<1>8. ASSUME NEW i \in DOMAIN runs
      PROVE  runs[i].instance \/ i \in reported' \/ \E x \in Requests : i \in req'[x].made
  <2>1. CASE i \in req[r].made BY <1>1, <2>1
  <2>2. CASE i \notin req[r].made BY <1>1, <1>5, <2>2 DEF Made
  <2> QED BY <2>1, <2>2
<1> QED BY <1>1, <1>4, <1>6, <1>7, <1>8 DEF Made, MadeBy

LEMMA MadeBySkip ==
  ASSUME Setting, Types, Made, NEW r \in Requests, Skip(r)
  PROVE  Made'
<1>1. /\ runs' = runs /\ reported' = reported /\ req[r].pc = "skip"
      /\ Turn(r, "tally", req[r].todo, req[r].made)
  BY SkipDoes, PcTurn DEF Pcs
<1>2. MadeBy(r)' BY <1>1, MadeStill, MadeParts DEF Turn
<1> QED BY <1>1, <1>2, MadeByTurn DEF Turn

LEMMA MadeByMark ==
  ASSUME Setting, Types, Made, NEW r \in Requests, MarkPromoted(r)
  PROVE  Made'
<1>1. PICK i : IsLast(req[r].made, i) BY DEF Made, MarkPromoted
<1>2. req[r].todo # {} BY DEF Made, MarkPromoted
<1>3. PICK pc \in {"insert", "tally"} :
        /\ Turn(r, pc, Rest(r), req[r].made)
        /\ pc = "insert" => Rest(r) # {}
  BY <1>1, <1>2, MarkTurns
<1>4. runs' = runs /\ reported' = reported /\ req[r].pc = "mark" BY <1>1, <1>2, MarkPromotedDoes
<1>5. MadeBy(r)' BY <1>3, <1>4, MadeStill, MadeParts DEF Turn, Making
<1> QED BY <1>3, <1>4, <1>5, MadeByTurn DEF Turn

LEMMA MadeByInsert ==
  ASSUME Setting, Types, Made, NEW r \in Requests, InsertRun(r)
  PROVE  Made'
<1> DEFINE n == Len(runs) + 1
<1>0. n \in Nat BY Domains
<1>1. /\ DOMAIN runs' = DOMAIN runs \cup {n} /\ n \notin DOMAIN runs
      /\ \A i \in DOMAIN runs : runs'[i] = runs[i] /\ i <= n
      /\ runs'[n].of = NextOf(r) /\ ~runs'[n].instance /\ reported' = reported
      /\ Turn(r, "mark", req[r].todo, req[r].made \cup {n}) /\ req[r].pc = "insert"
  BY InsertRunDoes, MadeTurn
<1> HIDE DEF n
<1>2. ASSUME NEW x \in Requests, x # r PROVE MadeBy(x)'
  <2>1. MadeBy(x) /\ req'[x] = req[x] BY <1>1, <1>2 DEF Turn, Made, MadeBy
  <2>2. \A i \in req[x].made : i \in DOMAIN runs /\ i \notin reported' BY <1>1 DEF Made
  <2> QED BY <1>1, <2>1, <2>2, MadeByOther
<1>3. MadeBy(r)'
  <2>1. MadeBy(r) BY MadeParts
  <2>2. req'[r].made = req[r].made \cup {n} /\ req'[r].todo = req[r].todo /\ req'[r].pc = "mark"
    BY <1>1 DEF Turn
  <2>3. req[r].made \subseteq DOMAIN runs BY <2>1 DEF MadeBy
  <2>4. IsLast(req'[r].made, n) BY <1>0, <1>1, <2>2, <2>3 DEF IsLast
  <2>5. Types' BY InsertRunDoes
  <2>6. Last(r)' = n
    <3>1. req'[r].made \subseteq Nat BY <2>5, Consts DEF Types, Req
    <3>2. Last(r)' \in req'[r].made /\ \A j \in req'[r].made : j <= Last(r)'
      BY <2>4 DEF IsLast, Last, GreatestOf
    <3> QED BY <2>4, <3>1, <3>2 DEF IsLast
  <2>7. NextOf(r)' = NextOf(r) BY <2>2, ChoiceKept
  <2>8. req[r].todo # {} BY <1>1, <2>1 DEF MadeBy
  <2>9. \A i \in req[r].made : ~runs[i].instance BY <1>1, <2>1 DEF MadeBy, Making
  <2>10. reported \subseteq DOMAIN runs /\ req[r].made \cap reported = {} BY <2>1 DEF Made, MadeBy
  <2>11. \A i \in req'[r].made : ~runs'[i].instance BY <1>1, <2>2, <2>3, <2>9
  <2>12. \E i \in req'[r].made : IsLast(req'[r].made, i) BY <2>4 DEF IsLast
  <2>13. req'[r].made \subseteq DOMAIN runs' /\ req'[r].made \cap reported' = {} /\ req'[r].made # {}
    BY <1>1, <2>2, <2>3, <2>10
  <2>14. runs'[Last(r)'].of = NextOf(r)' BY <1>1, <2>6, <2>7
  <2> QED BY <2>2, <2>8, <2>11, <2>12, <2>13, <2>14 DEF MadeBy, Making, IsLast
<1>4. \A x \in Requests : req'[x].made = IF x = r THEN req[r].made \cup {n} ELSE req[x].made
  BY <1>1 DEF Turn
<1>5. \A x, q \in Requests : x # q => req'[x].made \cap req'[q].made = {}
  BY <1>1, <1>4 DEF Made
<1>6. reported' \subseteq DOMAIN runs' /\ \A i \in reported' : ~runs'[i].instance
  BY <1>1 DEF Made
<1>7. ASSUME NEW i \in DOMAIN runs'
      PROVE  runs'[i].instance \/ i \in reported' \/ \E x \in Requests : i \in req'[x].made
  <2>1. CASE i = n BY <1>4, <2>1
  <2>2. CASE i # n BY <1>1, <1>4, <2>2 DEF Made
  <2> QED BY <2>1, <2>2
<1> QED BY <1>2, <1>3, <1>5, <1>6, <1>7 DEF Made, MadeBy

LEMMA MadeByLaunch ==
  ASSUME Setting, Types, Made, NEW r \in Requests, Launch(r)
  PROVE  Made'
<1>1. PICK i : /\ DOMAIN runs' = DOMAIN runs
               /\ \A j \in DOMAIN runs : /\ runs'[j].of = runs[j].of
                                         /\ j # i => runs'[j] = runs[j]
                                         /\ j = i => runs'[j].instance
               /\ \/ Becomes(r, Idle) /\ \A j \in req[r].made : j = i \/ runs[j].instance
                  \/ {j \in req[r].made : ~runs[j].instance} # {i} /\ req' = req
               /\ (\E j \in req[r].made : ~runs[j].instance) => i \in req[r].made /\ ~runs[i].instance
  BY LaunchDoes
<1>2. reported' = reported /\ req[r].pc = "launch" BY LaunchDoes
<1>3. MadeBy(r) BY MadeParts
<1>4. i \in req[r].made /\ i \in DOMAIN runs /\ i \notin reported BY <1>1, <1>2, <1>3 DEF MadeBy
<1>5. \A j \in DOMAIN runs : runs[j].instance => runs'[j].instance BY <1>1
<1>6. ASSUME NEW x \in Requests, x # r PROVE MadeBy(x)'
  <2>1. MadeBy(x) /\ req'[x] = req[x] BY <1>1, <1>6 DEF Becomes, Made, MadeBy
  <2>2. \A j \in req[x].made : j \in DOMAIN runs /\ j \notin reported' /\ j # i
    BY <1>2, <1>4, <1>6, <2>1 DEF Made, MadeBy
  <2> QED BY <1>1, <2>1, <2>2, MadeByOther
<1>7. /\ reported' \subseteq DOMAIN runs'
      /\ \A j \in reported' : ~runs'[j].instance
  BY <1>1, <1>2, <1>4 DEF Made
<1>8. CASE Becomes(r, Idle) /\ \A j \in req[r].made : j = i \/ runs[j].instance
  <2>1. Turn(r, "idle", {}, {}) BY <1>8, IdleTurn
  <2>2. MadeBy(r)' BY <2>1, MadeNothing DEF Turn
  <2>3. \A x \in Requests : req'[x].made = IF x = r THEN {} ELSE req[x].made BY <2>1 DEF Turn
  <2>4. ASSUME NEW j \in DOMAIN runs
        PROVE  runs'[j].instance \/ j \in reported' \/ \E x \in Requests : j \in req'[x].made
    <3>1. CASE j \in req[r].made BY <1>1, <1>5, <1>8, <3>1
    <3>2. CASE j \notin req[r].made BY <1>2, <1>5, <2>3, <3>2 DEF Made
    <3> QED BY <3>1, <3>2
  <2>5. \A x, q \in Requests : x # q => req'[x].made \cap req'[q].made = {} BY <2>3 DEF Made
  <2> QED BY <1>1, <1>6, <1>7, <2>2, <2>4, <2>5 DEF Made, MadeBy
<1>9. CASE {j \in req[r].made : ~runs[j].instance} # {i} /\ req' = req
  <2>0. \E j \in req[r].made : j # i /\ ~runs[j].instance
    <3>1. i \in req[r].made /\ ~runs[i].instance BY <1>1, <1>2, <1>3 DEF MadeBy
    <3> QED BY <1>9, <3>1
  <2>0a. NextOf(r)' = NextOf(r) /\ Last(r)' = Last(r) BY <1>9, ChoiceKept, LastKept
  <2>1. MadeBy(r)' BY <1>1, <1>2, <1>3, <1>9, <2>0, <2>0a DEF MadeBy, Making, IsLast
  <2>2. \A j \in DOMAIN runs :
          runs'[j].instance \/ j \in reported' \/ \E x \in Requests : j \in req'[x].made
    BY <1>2, <1>5, <1>9 DEF Made
  <2> QED BY <1>1, <1>6, <1>7, <1>9, <2>1, <2>2 DEF Made, MadeBy
<1> QED BY <1>1, <1>8, <1>9

LEMMA MadeByUnlink ==
  ASSUME Setting, Types, Made, NEW r \in Requests, Unlink(r)
  PROVE  Made'
<1>1. /\ DOMAIN runs' = DOMAIN runs /\ reported' = reported /\ req[r].pc = "unlink"
      /\ \A i \in DOMAIN runs : /\ runs'[i].of \in {runs[i].of, 0}
                                /\ runs'[i].instance = runs[i].instance
      /\ Turn(r, "drop", req[r].todo, req[r].made)
  BY UnlinkDoes, PcTurn DEF Pcs
<1>2. req[r].made = {} BY <1>1 DEF Made, Making
<1>3. MadeBy(r)' BY <1>1, <1>2, MadeNothing DEF Turn
<1>4. ASSUME NEW x \in Requests, x # r PROVE MadeBy(x)'
  <2>1. MadeBy(x) /\ req'[x] = req[x] BY <1>1, <1>4 DEF Turn, Made, MadeBy
  <2>2. \A i \in req[x].made : i \in DOMAIN runs /\ i \notin reported' BY <1>1 DEF Made
  <2> QED BY <1>1, <2>1, <2>2, MadeByOther
<1>5. \A x \in Requests : req'[x].made = req[x].made BY <1>1 DEF Turn
<1> QED BY <1>1, <1>3, <1>4, <1>5 DEF Made, MadeBy

LEMMA MadeByDrop ==
  ASSUME Setting, Types, Made, NEW r \in Requests, Drop(r)
  PROVE  Made'
<1>1. /\ runs' = runs /\ reported' = reported /\ req[r].pc = "drop" /\ Turn(r, "idle", {}, {})
  BY DropDoes, IdleTurn
<1>2. req[r].made = {} BY <1>1 DEF Made, Making
<1>3. MadeBy(r)' BY <1>1, MadeNothing DEF Turn
<1> QED BY <1>1, <1>2, <1>3, MadeByTurn DEF Turn

-----------------------------------------------------------------------------
(* Candidates that no two requests had validated at once. *)

\* A request is about to name the run i in the row of the candidate c.
Marks(q, c, i) == req[q].pc = "mark" /\ NextOf(q) = c /\ i \in req[q].made

\* A step that is not about the candidate.
Quiet(c) ==
  /\ \A q \in Requests : c \in Claimed(q)' => c \in Claimed(q)
  /\ cand'[c].status = cand[c].status
  /\ \A i \in Unreported(c)' : i \in Unreported(c)
  /\ \A q \in Requests : \A i \in Unreported(c)' : Marks(q, c, i) => Marks(q, c, i)'

LEMMA QuietCalm ==
  ASSUME NEW c, Calm(c), Quiet(c)
  PROVE  Calm(c)'
<1>1. \A r, q \in Requests : c \in Claimed(r)' /\ c \in Claimed(q)' => r = q BY DEF Calm, Quiet
<1>2. \A r \in Requests : c \in Claimed(r)' => cand'[c].status = "candidate" BY DEF Calm, Quiet
<1>3. cand'[c].status = "candidate" => \A i \in Unreported(c)' : \E r \in Requests : Marks(r, c, i)'
  BY DEF Calm, Quiet, Marks
<1>4. \A i, j \in Unreported(c)' : i = j BY DEF Calm, Quiet
<1>5. cand'[c].status = "skipped" => Unreported(c)' = {} BY DEF Calm, Quiet
<1> QED BY <1>1, <1>2, <1>3, <1>4, <1>5 DEF Calm, Marks

\* The runs of a candidate that nobody was told had failed.
LEMMA UnreportedIs ==
  /\ \A c, i : i \in Unreported(c) <=> i \in DOMAIN runs /\ runs[i].of = c /\ i \notin reported
  /\ \A c, i : i \in Unreported(c)' <=> i \in DOMAIN runs' /\ runs'[i].of = c /\ i \notin reported'
BY DEF Unreported, RunsOf

\* A request that marks a candidate has it validated.
LEMMA MarksClaims ==
  ASSUME Setting, Types, Made, NEW q \in Requests, NEW c, NEW i, Marks(q, c, i)
  PROVE  c \in Claimed(q)
<1>1. req[q].todo # {} BY DEF Made, Marks
<1> QED BY <1>1, NextIsOne DEF Marks, Claimed

\* An open candidate that a request has validated, and is not about to name a run of, has
\* none that was not reported.
LEMMA ClaimedHasNone ==
  ASSUME Setting, Types, Made, NEW c, Calm(c), NEW r \in Requests, c \in Claimed(r), req[r].pc # "mark"
  PROVE  cand[c].status = "candidate" /\ Unreported(c) = {}
<1>1. cand[c].status = "candidate" BY DEF Calm
<1>2. ASSUME NEW i \in Unreported(c) PROVE FALSE
  <2>1. PICK q \in Requests : Marks(q, c, i) BY <1>1 DEF Calm, Marks
  <2>2. q = r BY <2>1, MarksClaims DEF Calm
  <2> QED BY <2>1, <2>2 DEF Marks
<1> QED BY <1>1, <1>2

\* A step of a request that holds no candidate then.
LEMMA QuietByTurn ==
  ASSUME Setting, Types, Made, NEW r \in Requests,
         NEW pc \in Pcs \ {"skip", "insert", "mark"}, NEW S, NEW T, Turn(r, pc, S, T),
         req[r].pc = "mark" => \A i \in req[r].made : i \in reported',
         NEW c, cand'[c].status = cand[c].status,
         DOMAIN runs' = DOMAIN runs, reported \subseteq reported',
         c # 0, \A i \in DOMAIN runs : runs'[i].of \in {runs[i].of, 0}
  PROVE  Quiet(c)
<1>1. ASSUME NEW q \in Requests PROVE c \in Claimed(q)' => c \in Claimed(q)
  BY DEF Turn, Claimed
<1>2. ASSUME NEW i \in Unreported(c)' PROVE i \in Unreported(c) BY <1>2, UnreportedIs
<1>3. ASSUME NEW q \in Requests, NEW i \in Unreported(c)', Marks(q, c, i) PROVE Marks(q, c, i)'
  <2>1. q # r BY <1>3, UnreportedIs DEF Marks
  <2>2. req'[q] = req[q] BY <2>1 DEF Turn
  <2>3. NextOf(q)' = NextOf(q) BY <2>2, ChoiceKept
  <2> QED BY <1>3, <2>2, <2>3 DEF Marks
<1> QED BY <1>1, <1>2, <1>3 DEF Quiet

\* A step of another part of the system.
LEMMA QuietByOthers ==
  ASSUME NEW c, req' = req, runs' = runs, reported' = reported, cand'[c].status = cand[c].status
  PROVE  Quiet(c)
<1>1. \A q \in Requests : Claimed(q)' = Claimed(q) BY DEF Claimed
<1>2. \A q \in Requests : NextOf(q)' = NextOf(q) BY ChoiceKept
<1>3. \A i : i \in Unreported(c)' <=> i \in Unreported(c) BY UnreportedIs
<1> QED BY <1>1, <1>2, <1>3 DEF Quiet, Marks

LEMMA ClaimsByWorking ==
  ASSUME Setting, Types, Rows, Claims, Working
  PROVE  Claims'
<1>1. req' = req /\ runs' = runs /\ reported' = reported /\ contested' = contested BY DEF Working
<1>2. ASSUME NEW c \in Candidates \ contested PROVE Calm(c)'
  <2>1. Calm(c) /\ cand'[c].status = cand[c].status BY DEF Working, Claims
  <2> QED BY <1>1, <2>1, QuietByOthers, QuietCalm
<1>3. ASSUME NEW c \in DOMAIN cand' \ Candidates PROVE Calm(c)'
  <2>1. Exists /\ cand'[c].status = "candidate" /\ c \in CandidateIds BY DEF Working
  <2>2. \A q \in Requests : c \notin Claimed(q)' BY <1>1, <2>1 DEF Rows, Claimed
  <2>3. \A i : i \notin Unreported(c)'
    <3>1. c # 0 BY <2>1, Consts
    <3> QED BY <1>1, <3>1, UnreportedIs DEF Rows
  <2> QED BY <2>1, <2>2, <2>3 DEF Calm
<1> QED BY <1>1, <1>2, <1>3 DEF Claims, Candidates

LEMMA ClaimsByPoll ==
  ASSUME Setting, Types, Claims, Poll
  PROVE  Claims'
<1>1. req' = req /\ runs' = runs /\ reported' = reported /\ contested' = contested /\ cand' = cand
  BY PollDoes
<1>2. ASSUME NEW c \in Candidates \ contested PROVE Calm(c)'
  <2>1. Calm(c) /\ cand'[c].status = cand[c].status BY <1>1 DEF Claims
  <2> QED BY <1>1, <2>1, QuietByOthers, QuietCalm
<1> QED BY <1>1, <1>2 DEF Claims, Candidates

\* A step that is about none of the candidates that stay.
LEMMA ClaimsByQuiet ==
  ASSUME Claims, DOMAIN cand' \subseteq Candidates, contested \subseteq contested',
         \A c \in DOMAIN cand' : Quiet(c)
  PROVE  Claims'
BY QuietCalm DEF Claims, Candidates

LEMMA CandidateIsNotZero ==
  ASSUME Setting, Types
  PROVE  \A c \in Candidates : c # 0
BY Domains

\* A skip or a promotion that has read its candidates.
LEMMA ClaimsByRead ==
  ASSUME Setting, Types, Made, Claims, NEW r \in Requests, NEW pc \in {"skip", "insert"}, NEW S,
         Turn(r, pc, S, {}), req[r].pc = "idle", Contests(r, S),
         cand' = cand, runs' = runs, reported' = reported,
         \A c \in S : c \in Candidates /\ Unresolved(c)
  PROVE  Claims'
<1>1. \A q \in Requests : q # r => Claimed(q)' = Claimed(q) BY DEF Turn, Claimed
<1>2. Claimed(r)' = S BY DEF Turn, Claimed
<1>3. \A q \in Requests : q # r => NextOf(q)' = NextOf(q) BY ChoiceKept DEF Turn
<1>4. \A c, i : i \in Unreported(c)' <=> i \in Unreported(c) BY UnreportedIs
<1>5. \A q \in Requests : \A c, i : Marks(q, c, i) => Marks(q, c, i)'
  BY <1>3 DEF Turn, Marks
<1>6. ASSUME NEW c \in Candidates, c \notin contested' PROVE Calm(c)'
  <2>1. c \notin contested /\ Calm(c) BY <1>6 DEF Contests, Claims
  <2>2. CASE c \notin S
    <3>1. \A q \in Requests : c \in Claimed(q)' => c \in Claimed(q) BY <1>1, <1>2, <2>2
    <3> QED BY <1>4, <1>5, <2>1, <3>1, QuietCalm DEF Quiet
  <2>3. CASE c \in S
    <3>1. \A q \in Requests \ {r} : c \notin Claimed(q) BY <1>6, <2>3 DEF Contests
    <3>2. cand[c].status = "candidate"
      BY <2>3, Domains DEF Unresolved, CandidateRow, RESOLVED_CANDIDATE_STATUSES
    <3>3. \A q, x \in Requests : c \in Claimed(q)' /\ c \in Claimed(x)' => q = x
      BY <1>1, <3>1
    <3>4. \A i \in Unreported(c)' : \E q \in Requests : Marks(q, c, i)'
      BY <1>4, <1>5, <2>1, <3>2 DEF Calm, Marks
    <3>5. \A i, j \in Unreported(c)' : i = j BY <1>4, <2>1 DEF Calm
    <3> QED BY <3>2, <3>3, <3>4, <3>5 DEF Calm, Marks
  <2> QED BY <2>2, <2>3
<1> QED BY <1>6 DEF Claims, Candidates

LEMMA ClaimsBySkip ==
  ASSUME Setting, Types, Made, Claims, NEW r \in Requests, Skip(r)
  PROVE  Claims'
<1>1. /\ runs' = runs /\ reported' = reported /\ contested' = contested /\ DOMAIN cand' = Candidates
      /\ Turn(r, "tally", req[r].todo, req[r].made) /\ req[r].pc = "skip"
  BY SkipDoes, PcTurn DEF Pcs
<1>2. ASSUME NEW c \in Candidates
      PROVE  IF c \in req[r].todo THEN cand'[c].status = "skipped" ELSE cand'[c] = cand[c]
  BY SkipDoes
<1>3. ASSUME NEW c \in Candidates \ contested PROVE Calm(c)'
  <2>1. Calm(c) /\ c # 0 BY CandidateIsNotZero DEF Claims
  <2>2. CASE c \notin req[r].todo
    <3>1. Quiet(c) BY <1>1, <1>2, <2>1, <2>2, QuietByTurn DEF Pcs
    <3> QED BY <2>1, <3>1, QuietCalm
  <2>3. CASE c \in req[r].todo
    <3>1. c \in Claimed(r) BY <1>1, <2>3 DEF Claimed
    <3>2. Unreported(c) = {} BY <1>1, <2>1, <3>1, ClaimedHasNone
    <3>3. \A i : i \notin Unreported(c)' BY <1>1, <3>2, UnreportedIs
    <3>4. \A q \in Requests : c \notin Claimed(q)'
      <4>1. \A q \in Requests \ {r} : c \notin Claimed(q) BY <2>1, <3>1 DEF Calm
      <4> QED BY <1>1, <4>1 DEF Turn, Claimed
    <3>5. cand'[c].status = "skipped" BY <1>2, <2>3
    <3> QED BY <3>3, <3>4, <3>5 DEF Calm
  <2> QED BY <2>2, <2>3
<1> QED BY <1>1, <1>3 DEF Claims, Candidates

LEMMA ClaimsByInsert ==
  ASSUME Setting, Types, Made, Claims, NEW r \in Requests, InsertRun(r)
  PROVE  Claims'
<1>0. PICK n : n = Len(runs) + 1 OBVIOUS
<1>1. /\ DOMAIN runs' = DOMAIN runs \cup {n} /\ n \notin DOMAIN runs
      /\ \A i \in DOMAIN runs : runs'[i] = runs[i]
      /\ runs'[n].of = NextOf(r) /\ reported' = reported /\ contested' = contested /\ cand' = cand
      /\ Turn(r, "mark", req[r].todo, req[r].made \cup {n}) /\ req[r].pc = "insert"
  BY <1>0, InsertRunDoes, MadeTurn
<1>2. n \notin reported BY <1>1 DEF Made
<1>3. \A q \in Requests : Claimed(q)' = Claimed(q) BY <1>1 DEF Turn, Claimed
<1>4. \A q \in Requests : NextOf(q)' = NextOf(q) BY <1>1, ChoiceKept DEF Turn
<1>5. \A q \in Requests : \A c, i : Marks(q, c, i) => Marks(q, c, i)'
  BY <1>1, <1>4 DEF Turn, Marks
<1>6. NextOf(r) \in Claimed(r)
  <2>1. req[r].todo # {} BY <1>1 DEF Made
  <2> QED BY <1>1, <2>1, NextIsOne DEF Claimed
<1>7. ASSUME NEW c \in Candidates \ contested PROVE Calm(c)'
  <2>1. Calm(c) BY DEF Claims
  <2>2. CASE c # NextOf(r)
    <3>1. \A i : i \in Unreported(c)' => i \in Unreported(c) BY <1>1, <2>2, UnreportedIs
    <3>2. Quiet(c) BY <1>1, <1>3, <1>5, <3>1 DEF Quiet
    <3> QED BY <2>1, <3>2, QuietCalm
  <2>3. CASE c = NextOf(r)
    <3>1. cand[c].status = "candidate" /\ Unreported(c) = {}
      BY <1>1, <1>6, <2>1, <2>3, ClaimedHasNone
    <3>2. \A i : i \in Unreported(c)' <=> i = n BY <1>1, <1>2, <2>3, <3>1, UnreportedIs
    <3>3. Marks(r, c, n)' BY <1>1, <1>4, <2>3 DEF Turn, Marks
    <3>4. \A x, q \in Requests : c \in Claimed(x)' /\ c \in Claimed(q)' => x = q
      BY <1>3, <2>1 DEF Calm
    <3>5. \A i \in Unreported(c)' : \E q \in Requests : Marks(q, c, i)' BY <3>2, <3>3
    <3>6. cand'[c].status = "candidate" BY <1>1, <3>1
    <3> QED BY <3>2, <3>4, <3>5, <3>6 DEF Calm, Marks
  <2> QED BY <2>2, <2>3
<1> QED BY <1>1, <1>7 DEF Claims, Candidates

LEMMA ClaimsByMark ==
  ASSUME Setting, Types, Made, Claims, Repeats, NEW r \in Requests, MarkPromoted(r)
  PROVE  Claims'
<1>1. PICK i : IsLast(req[r].made, i) BY DEF Made, MarkPromoted
<1>2. req[r].todo # {} BY DEF Made, MarkPromoted
<1>3. PICK pc \in {"insert", "tally"} : Turn(r, pc, Rest(r), req[r].made)
  BY <1>1, <1>2, MarkTurns
<1>4. /\ runs' = runs /\ reported' = reported /\ contested' = contested
      /\ DOMAIN cand' = Candidates /\ req[r].pc = "mark"
  BY <1>1, <1>2, MarkPromotedDoes
<1>5. ASSUME NEW c \in Candidates
      PROVE  IF c = NextOf(r) THEN cand'[c].status = "promoted" ELSE cand'[c] = cand[c]
  <2>1. CASE c = NextOf(r) BY <1>1, <1>2, <2>1, MarkPromotedDoes
  <2>2. CASE c # NextOf(r) BY <1>1, <1>2, <2>2, MarkPromotedDoes
  <2> QED BY <2>1, <2>2
<1>6. NextOf(r) \in Claimed(r) BY <1>2, <1>4, NextIsOne DEF Claimed
<1>7. \A q \in Requests : q # r => NextOf(q)' = NextOf(q) BY <1>3, ChoiceKept DEF Turn
<1>8. \A c, j : j \in Unreported(c)' <=> j \in Unreported(c) BY <1>4, UnreportedIs
<1>9. \A q \in Requests : \A c :
        c \in Claimed(q)' => c \in Claimed(q) /\ (c \notin contested => ~(q = r /\ c = NextOf(r)))
  BY <1>3, <1>4 DEF Turn, Claimed, Rest, Repeats
<1>10. ASSUME NEW c \in Candidates \ contested PROVE Calm(c)'
  <2>1. Calm(c) BY DEF Claims
  <2>2. CASE c # NextOf(r)
    <3>1. \A q \in Requests : \A j : Marks(q, c, j) => Marks(q, c, j)'
      BY <1>3, <1>7, <2>2 DEF Turn, Marks
    <3>2. cand'[c].status = cand[c].status BY <1>5, <2>2
    <3>3. Quiet(c) BY <1>8, <1>9, <3>1, <3>2 DEF Quiet
    <3> QED BY <2>1, <3>3, QuietCalm
  <2>3. CASE c = NextOf(r)
    <3>1. \A q \in Requests : c \notin Claimed(q)' BY <1>6, <1>9, <2>1, <2>3 DEF Calm
    <3>2. cand'[c].status = "promoted" BY <1>5, <2>3
    <3>3. \A j, k \in Unreported(c)' : j = k BY <1>8, <2>1 DEF Calm
    <3> QED BY <3>1, <3>2, <3>3 DEF Calm
  <2> QED BY <2>2, <2>3
<1> QED BY <1>4, <1>10 DEF Claims, Candidates

\* The other steps hold no candidate afterwards.
LEMMA ClaimsByAside ==
  ASSUME Setting, Types, Made, Claims, NEW r \in Requests, Aside(r)
  PROVE  Claims'
<1>0. /\ DOMAIN cand' = Candidates /\ runs' = runs
      /\ \A c \in Candidates : cand'[c].status = cand[c].status
  BY AsideKeepsRows
<1>1. CASE \E c \in Candidates : SkipRead(r, c)
  <2>1. PICK c \in Candidates : SkipRead(r, c) BY <1>1
  <2>2. Turn(r, "skip", {c}, {}) BY <2>1, SkipReadDoes, NewTurn
  <2>3. req[r].pc = "idle" /\ Contests(r, {c}) /\ Tables /\ Unresolved(c)
    BY <2>1, SkipReadDoes
  <2>4. \A d \in {c} : d \in Candidates /\ Unresolved(d) BY <2>3
  <2> QED BY <2>2, <2>3, <2>4, ClaimsByRead DEF Tables
<1>2. CASE \E S \in (SUBSET Candidates) \ {{}} : Promotes(r, S)
  <2>1. PICK S \in (SUBSET Candidates) \ {{}} : Promotes(r, S) BY <1>2
  <2>2. Turn(r, "insert", S, {}) BY <2>1, PromoteReadDoes, NewTurn
  <2> QED BY <2>1, <2>2, PromoteReadDoes, ClaimsByRead DEF Tables
<1>3. CASE RequestFails(r)
  <2>1. /\ Turn(r, "idle", {}, {}) /\ contested' = contested
        /\ reported' = reported \cup {i \in req[r].made : ~runs[i].instance}
    BY <1>3, RequestFailsDoes, IdleTurn
  <2>2. req[r].pc = "mark" => \A i \in req[r].made : i \in reported'
    BY <2>1 DEF Made, Making
  <2>3. \A c \in Candidates : Quiet(c)
    BY <1>0, <2>1, <2>2, CandidateIsNotZero, QuietByTurn DEF Pcs
  <2> QED BY <1>0, <2>1, <2>3, ClaimsByQuiet
<1>4. CASE \/ Tally(r) \/ StoreStatus(r) \/ Lift(r) \/ CloseRead(r) \/ Close(r) \/ DeleteRead(r)
           \/ RetryVerdict(r) \/ \E c \in Candidates : VerdictRead(r, c)
  <2>1. /\ contested' = contested /\ reported' = reported /\ req[r].pc # "mark"
        /\ \E pc \in Pcs \ {"skip", "insert", "mark"} : \E S, T : Turn(r, pc, S, T)
    <3>1. CASE RetryVerdict(r)
      <4>1. req[r].todo # {} BY <3>1 DEF Made, RetryVerdict
      <4>2. Turn(r, "idle", {}, {}) \/ Turn(r, "lift", req[r].todo, req[r].made)
        BY <3>1, <4>1, RetryVerdictDoes, IdleTurn, PcTurn DEF Pcs
      <4> QED BY <3>1, <4>1, <4>2, RetryVerdictDoes DEF Pcs
    <3>2. CASE Tally(r)
      <4>1. Turn(r, "store", req[r].todo, req[r].made) BY <3>2, TallyDoes, DoneTurn
      <4> QED BY <3>2, <4>1, TallyDoes DEF Pcs, Tables
    <3>3. CASE StoreStatus(r)
      <4>1. Turn(r, "idle", {}, {}) \/ Turn(r, "launch", req[r].todo, req[r].made)
        BY <3>3, StoreStatusDoes, IdleTurn, PcTurn DEF Pcs
      <4> QED BY <3>3, <4>1, StoreStatusDoes DEF Pcs, Tables
    <3>4. CASE Lift(r) \/ Close(r)
      <4>1. Turn(r, "idle", {}, {}) BY <3>4, LiftDoes, CloseDoes, IdleTurn
      <4> QED BY <3>4, <4>1, LiftDoes, CloseDoes DEF Pcs, Tables
    <3>5. CASE CloseRead(r) \/ DeleteRead(r)
      <4>1. PICK pc \in {"close", "unlink"} : Turn(r, pc, {}, {}) BY <3>5, SmallReadsDo, NewTurn
      <4> QED BY <3>5, <4>1, SmallReadsDo DEF Pcs, Tables
    <3>6. CASE \E c \in Candidates : VerdictRead(r, c)
      <4>1. PICK c \in Candidates : VerdictRead(r, c) BY <3>6
      <4>2. Turn(r, "verdict", {c}, {}) BY <4>1, VerdictReadDoes, NewTurn
      <4> QED BY <4>1, <4>2, VerdictReadDoes DEF Pcs, Tables
    <3> QED BY <1>4, <3>1, <3>2, <3>3, <3>4, <3>5, <3>6
  <2>2. \A c \in Candidates : Quiet(c)
    BY <1>0, <2>1, CandidateIsNotZero, QuietByTurn
  <2> QED BY <1>0, <2>1, <2>2, ClaimsByQuiet
<1> QED BY <1>1, <1>2, <1>3, <1>4 DEF Aside

LEMMA ClaimsByLaunch ==
  ASSUME Setting, Types, Made, Claims, NEW r \in Requests, Launch(r)
  PROVE  Claims'
<1>1. /\ DOMAIN runs' = DOMAIN runs /\ \A i \in DOMAIN runs : runs'[i].of = runs[i].of
      /\ reported' = reported /\ contested' = contested /\ cand' = cand /\ req[r].pc = "launch"
      /\ Turn(r, "idle", {}, {}) \/ req' = req
  BY LaunchDoes, IdleTurn
<1>2. \A q \in Requests : Claimed(q)' \subseteq Claimed(q) BY <1>1 DEF Turn, Claimed
<1>3. \A c, i : i \in Unreported(c)' <=> i \in Unreported(c) BY <1>1, UnreportedIs
<1>4. \A q \in Requests : \A c, i : Marks(q, c, i) => Marks(q, c, i)'
  BY <1>1, ChoiceKept DEF Turn, Marks
<1>5. \A c \in Candidates : Quiet(c) BY <1>1, <1>2, <1>3, <1>4 DEF Quiet
<1> QED BY <1>1, <1>5, ClaimsByQuiet DEF Candidates

LEMMA ClaimsByDelete ==
  ASSUME Setting, Types, Made, Claims, NEW r \in Requests, Unlink(r) \/ Drop(r)
  PROVE  Claims'
<1>1. CASE Unlink(r)
  <2>1. /\ DOMAIN runs' = DOMAIN runs /\ \A i \in DOMAIN runs : runs'[i].of \in {runs[i].of, 0}
        /\ reported' = reported /\ contested' = contested /\ cand' = cand /\ req[r].pc = "unlink"
        /\ Turn(r, "drop", req[r].todo, req[r].made)
    BY <1>1, UnlinkDoes, PcTurn DEF Pcs
  <2>2. \A c \in Candidates : Quiet(c) BY <2>1, CandidateIsNotZero, QuietByTurn DEF Pcs
  <2> QED BY <2>1, <2>2, ClaimsByQuiet DEF Candidates
<1>2. CASE Drop(r)
  <2>1. DOMAIN cand' = {} /\ contested' = contested BY <1>2, DropDoes
  <2> QED BY <2>1, ClaimsByQuiet
<1> QED BY <1>1, <1>2

-----------------------------------------------------------------------------
(* The batch's status. *)

\* What one step of the workflow does to the status and to its own place.
Going ==
  /\ wf.pc \in Past => wf'.pc \in Past
  /\ batch' = "done" => batch = "done"
  /\ batch' \in REVIEW \cup {"failed"} => batch' = batch \/ wf'.pc \in Past
  /\ wf'.pc \in Before => wf.pc \in Before /\ wf'.work = wf.work

LEMMA PlainGoes ==
  ASSUME Setting, Types, Plain
  PROVE  Going
<1>1. wf'.work = wf.work BY PlainWorks
<1> USE DEF Types, Wf
<1>2. CASE Load BY <1>1, <1>2 DEF Load, Going, Past, Before
<1>3. CASE StatusStep
  <2>1. wf.pc \in {"generating", "analysing"} /\ SetStatus(wf.pc) /\ wf'.pc \in {"gen", "fan_out"}
    BY <1>3 DEF StatusStep
  <2> QED BY <1>1, <2>1 DEF SetStatus, Exists, Going, Past, Before, REVIEW
<1>4. CASE FannedOut BY <1>1, <1>4 DEF FannedOut, Going, Past, Before
<1>5. CASE AllAnalysed BY <1>1, <1>5 DEF AllAnalysed, Going, Past, Before
<1>6. CASE Aggregate
  <2>1. wf.pc = "aggregate" /\ wf'.pc = "emit"
        /\ (SetStatus("failed") \/ SetStatus("ready_for_review"))
    BY <1>6 DEF Aggregate
  <2> QED BY <1>1, <2>1 DEF SetStatus, Exists, Going, Past, Before, REVIEW
<1>7. CASE Complete BY <1>1, <1>7 DEF Complete, Going, Past, Before
<1>8. CASE OnError
  <2>1. wf'.pc = "errored" /\ SetStatus("failed") BY <1>8 DEF OnError
  <2> QED BY <1>1, <2>1 DEF SetStatus, Exists, Going, Past, Before, REVIEW
<1>9. CASE StepFails
  <2>1. wf'.pc = "error" /\ batch' = batch BY <1>9 DEF StepFails
  <2> QED BY <1>1, <2>1 DEF Going, Past, Before
<1> QED BY <1>2, <1>3, <1>4, <1>5, <1>6, <1>7, <1>8, <1>9 DEF Plain

LEMMA WorkSteps ==
  ASSUME Setting, Types, Workflow \/ Faults
  PROVE  Types' /\ Working /\ Going
<1>1. CASE Plain BY <1>1, PlainWorks, PlainGoes
<1>2. CASE TopicGen
  <2>1. wf.pc = "gen" BY <1>2 DEF TopicGen
  <2> QED BY <1>2, <2>1, TopicGenWorks DEF Going, Past, Before
<1>3. CASE FanOut
  <2>1. wf.pc = "fan_out" BY <1>3 DEF FanOut
  <2> QED BY <1>3, <2>1, FanOutWorks DEF Going, Past, Before
<1>4. CASE FanOutAgain
  <2>1. wf.pc = "fan_out" BY <1>4 DEF FanOutAgain
  <2> QED BY <1>4, <2>1, FanOutAgainWorks DEF Going, Past, Before
<1>5. ASSUME NEW c \in CandidateIds, AnalyseStart(c) PROVE Types' /\ Working /\ Going
  BY <1>5, AnalyseStartWorks DEF Going, Past, Before
<1>6. ASSUME NEW c \in CandidateIds, Analysed(c) \/ AnalyseAgain(c) PROVE Types' /\ Working /\ Going
  BY <1>6, AnalysedWorks DEF Going, Past, Before
<1> QED BY <1>1, <1>2, <1>3, <1>4, <1>5, <1>6 DEF Workflow, Faults, Plain

\* Where the page offers nothing yet, no request works for a skip or a promotion.
LEMMA PhaseByWork ==
  ASSUME Setting, Types, Phase, Working, Going
  PROVE  Phase'
BY DEF Phase, Working, Going

\* A step that leaves the workflow alone, before it is past its last insertion.
LEMMA PhaseEarly ==
  ASSUME Types, Phase, wf' = wf,
         wf.pc \notin Past =>
           /\ batch' \notin REVIEW \cup {"failed"} /\ (batch' = "done" => closed')
           /\ page' \notin REVIEW
           /\ \A r \in Requests : req'[r].pc \notin Offering /\ ~(req'[r].pc = "verdict" /\ req'[r].status = "failed")
  PROVE  Phase'
BY DEF Phase

\* What holds then.
LEMMA Early ==
  ASSUME Types, Phase, wf.pc \notin Past
  PROVE  /\ batch \notin REVIEW \cup {"failed"} /\ (batch = "done" => closed) /\ page \notin REVIEW
         /\ \A r \in Requests : /\ req[r].pc \notin Offering
                                /\ ~(req[r].pc = "verdict" /\ req[r].status = "failed")
BY DEF Phase

LEMMA PhaseByPoll ==
  ASSUME Setting, Types, Phase, Poll
  PROVE  Phase'
<1>1. UNCHANGED <<batch, wf, req, closed>> /\ page' = batch BY PollDoes
<1> QED BY <1>1, Early, PhaseEarly

\* The steps of requests.
Request(r) == Aside(r) \/ Skip(r) \/ InsertRun(r) \/ MarkPromoted(r) \/ Launch(r) \/ Unlink(r) \/ Drop(r)

LEMMA RequestsLeaveTheWorkflow ==
  ASSUME Setting, Types, Made, NEW r \in Requests, Request(r)
  PROVE  wf' = wf
<1>1. CASE Aside(r) BY <1>1, AsideKeepsRows
<1>2. CASE MarkPromoted(r) BY <1>2 DEF MarkPromoted, WorkUnchanged
<1>3. CASE Skip(r) \/ InsertRun(r) \/ Launch(r) \/ Unlink(r) \/ Drop(r)
  BY <1>3, SkipDoes, InsertRunDoes, LaunchDoes, UnlinkDoes, DropDoes
<1> QED BY <1>1, <1>2, <1>3 DEF Request

\* A request that a step before the last insertion turns to something the page does not offer.
LEMMA PhaseByTurn ==
  ASSUME Types, Phase, wf.pc \notin Past, wf' = wf,
         batch' \in {batch, Deleted} \/ (batch' = "done" /\ closed'), closed => closed',
         page' \in {page, "loading"},
         NEW r \in Requests, NEW pc \in {"idle", "close", "unlink", "drop"}, NEW S, NEW T,
         Turn(r, pc, S, T)
  PROVE  Phase'
<1>1. batch' \notin REVIEW \cup {"failed"} /\ (batch' = "done" => closed')
  BY Early DEF REVIEW, Deleted
<1>2. page' \notin REVIEW BY Early DEF REVIEW
<1>3. \A x \in Requests : /\ req'[x].pc \notin Offering
                          /\ ~(req'[x].pc = "verdict" /\ req'[x].status = "failed")
  BY Early DEF Turn, Offering
<1> QED BY <1>1, <1>2, <1>3, PhaseEarly

LEMMA PhaseByRequest ==
  ASSUME Setting, Types, Made, Phase, NEW r \in Requests, Request(r)
  PROVE  Phase'
<1>0. wf' = wf BY RequestsLeaveTheWorkflow
<1> SUFFICES ASSUME wf.pc \notin Past PROVE Phase' BY <1>0, PhaseEarly
<1>1. /\ batch \notin REVIEW \cup {"failed"} /\ page \notin REVIEW
      /\ req[r].pc \notin Offering /\ ~(req[r].pc = "verdict" /\ req[r].status = "failed")
  BY Early
<1>2. ~(Skip(r) \/ Tally(r) \/ StoreStatus(r) \/ Lift(r) \/ InsertRun(r) \/ MarkPromoted(r) \/ Launch(r))
  BY <1>1 DEF Skip, Tally, StoreStatus, Lift, InsertRun, MarkPromoted, Launch, Offering
<1>3. ~(\E c \in Candidates : SkipRead(r, c)) /\ ~(\E S \in (SUBSET Candidates) \ {{}} : Promotes(r, S))
  BY <1>1 DEF SkipRead, Promotes, PromoteRead
<1>4. CASE RetryVerdict(r)
  <2>1. req[r].todo # {} /\ req[r].pc = "verdict" BY <1>4 DEF Made, RetryVerdict
  <2>2. UNCHANGED <<batch, closed>> /\ page' \in {page, "loading"} BY <1>4, <2>1, RetryVerdictDoes
  <2>3. Becomes(r, Idle) BY <1>1, <1>4, <2>1, RetryVerdictDoes
  <2>4. Turn(r, "idle", {}, {}) BY <2>3, IdleTurn
  <2> QED BY <1>0, <2>2, <2>4, PhaseByTurn
<1>5. CASE CloseRead(r) \/ DeleteRead(r)
  <2>1. UNCHANGED <<batch, page, closed>> BY <1>5, SmallReadsDo
  <2>2. PICK pc \in {"close", "unlink"} : Turn(r, pc, {}, {}) BY <1>5, SmallReadsDo, NewTurn
  <2> QED BY <1>0, <2>1, <2>2, PhaseByTurn
<1>6. CASE Close(r)
  <2>1. page' = page /\ closed' = TRUE /\ SetStatus("done") /\ Turn(r, "idle", {}, {})
    BY <1>6, CloseDoes, IdleTurn
  <2>2. batch' \in {batch, Deleted} \/ (batch' = "done" /\ closed') BY <2>1 DEF SetStatus
  <2> QED BY <1>0, <2>1, <2>2, PhaseByTurn
<1>7. CASE RequestFails(r)
  <2>1. UNCHANGED <<batch, page, closed>> /\ Turn(r, "idle", {}, {}) BY <1>7, RequestFailsDoes, IdleTurn
  <2> QED BY <1>0, <2>1, PhaseByTurn
<1>8. CASE Unlink(r)
  <2>1. UNCHANGED <<batch, page, closed>> /\ Turn(r, "drop", req[r].todo, req[r].made)
    BY <1>8, UnlinkDoes, PcTurn DEF Pcs
  <2> QED BY <1>0, <2>1, PhaseByTurn
<1>9. CASE Drop(r)
  <2>1. UNCHANGED <<page, closed>> /\ batch' = Deleted /\ Turn(r, "idle", {}, {})
    BY <1>9, DropDoes, IdleTurn
  <2> QED BY <1>0, <2>1, PhaseByTurn
<1>10. ASSUME NEW c \in Candidates, VerdictRead(r, c) PROVE Phase'
  <2>1. UNCHANGED <<batch, page, closed>> BY <1>10, VerdictReadDoes
  <2>2. Becomes(r, [Idle EXCEPT !.pc = "verdict", !.todo = {c}, !.status = batch])
    BY <1>10, VerdictReadDoes
  <2>3. /\ req'[r].pc = "verdict" /\ req'[r].status = batch
        /\ \A x \in Requests : x # r => req'[x] = req[x]
    BY <2>2 DEF Becomes, Idle
  <2>4. \A x \in Requests : /\ req'[x].pc \notin Offering
                            /\ ~(req'[x].pc = "verdict" /\ req'[x].status = "failed")
    BY <1>1, <2>3, Early DEF Offering
  <2> QED BY <1>0, <1>1, <2>1, <2>4, Early, PhaseEarly
<1> QED BY <1>2, <1>3, <1>4, <1>5, <1>6, <1>7, <1>8, <1>9, <1>10 DEF Request, Aside

-----------------------------------------------------------------------------
(* What the status says of the candidates.                                 *)

\* Resolved candidates stay so, and no candidate is added.
StaysResolved ==
  /\ DOMAIN cand' = Candidates
  /\ \A c \in Candidates : \/ cand'[c].status = cand[c].status
                           \/ cand'[c].status \in RESOLVED_CANDIDATE_STATUSES

LEMMA StillResolved ==
  ASSUME StaysResolved, AllResolved
  PROVE  AllResolved'
BY DEF StaysResolved, AllResolved, Candidates

\* A step after which nobody knows more than was true.
LEMMA DoneByStep ==
  ASSUME Done, StaysResolved, Exists <=> batch' # Deleted,
         batch' = "done" /\ ~closed' => (batch = "done" /\ ~closed) \/ AllResolved,
         \A r \in Requests : req'[r].pc = "store" /\ req'[r].done =>
           (req[r].pc = "store" /\ req[r].done) \/ AllResolved
  PROVE  Done'
BY StillResolved DEF Done, Exists

LEMMA DoneByWorking ==
  ASSUME Setting, Types, Phase, Done, Working, Going
  PROVE  Done'
<1>1. /\ req' = req /\ closed' = closed /\ (Exists <=> batch' # Deleted)
      /\ (batch' = "done" => batch = "done")
  BY DEF Working, Going
<1>2. CASE DOMAIN cand' = Candidates
  <2>1. StaysResolved BY <1>2 DEF Working, StaysResolved
  <2> QED BY <1>1, <2>1, DoneByStep
<1>3. CASE DOMAIN cand' # Candidates
  <2>1. wf.pc \notin Past BY <1>3 DEF Working, Past
  <2>2. (batch = "done" => closed) /\ \A r \in Requests : req[r].pc # "store"
    BY <2>1, Early DEF Offering
  <2> QED BY <1>1, <2>2 DEF Done
<1> QED BY <1>2, <1>3

LEMMA DoneByPoll ==
  ASSUME Setting, Types, Done, Poll
  PROVE  Done'
<1>1. UNCHANGED <<batch, cand, req, closed>> BY PollDoes
<1>2. StaysResolved BY <1>1 DEF StaysResolved, Candidates
<1> QED BY <1>1, <1>2, DoneByStep DEF Exists

\* A request that turns to something else than the store of a status.
LEMMA DoneByTurn ==
  ASSUME Done, StaysResolved, Exists <=> batch' # Deleted,
         batch' = "done" /\ ~closed' => (batch = "done" /\ ~closed) \/ AllResolved,
         NEW r \in Requests, NEW pc, pc # "store", NEW S, NEW T, Turn(r, pc, S, T)
  PROVE  Done'
BY DoneByStep DEF Turn

LEMMA DoneByAside ==
  ASSUME Setting, Types, Made, Done, NEW r \in Requests, Aside(r)
  PROVE  Done'
<1>1. Exists <=> batch' # Deleted BY AsideKeepsRows
<1>2. StaysResolved BY AsideKeepsRows DEF StaysResolved
<1>3. CASE Tally(r)
  <2>1. UNCHANGED <<batch, closed>> BY <1>3, TallyDoes
  <2>2. PICK d \in BOOLEAN : /\ Becomes(r, [req[r] EXCEPT !.pc = "store", !.done = d])
                             /\ d => AllResolved
    BY <1>3, TallyDoes
  <2>3. \A x \in Requests : req'[x].pc = "store" /\ req'[x].done =>
           (req[x].pc = "store" /\ req[x].done) \/ AllResolved
    BY <2>2, DoneTurn DEF Turn
  <2> QED BY <1>1, <1>2, <2>1, <2>3, DoneByStep
<1>4. CASE StoreStatus(r)
  <2>1. /\ closed' = closed /\ req[r].pc = "store"
        /\ SetStatus(IF req[r].done THEN "done" ELSE "partially_promoted")
    BY <1>4, StoreStatusDoes
  <2>2. batch' = "done" => AllResolved
    BY <2>1 DEF SetStatus, Done, Exists, Deleted
  <2>3. Turn(r, "idle", {}, {}) \/ Turn(r, "launch", req[r].todo, req[r].made)
    BY <1>4, StoreStatusDoes, IdleTurn, PcTurn DEF Pcs
  <2> QED BY <1>1, <1>2, <2>2, <2>3, DoneByTurn
<1>5. CASE Close(r)
  <2>1. closed' = TRUE /\ Turn(r, "idle", {}, {}) BY <1>5, CloseDoes, IdleTurn
  <2> QED BY <1>1, <1>2, <2>1, DoneByTurn
<1>6. CASE ~(Tally(r) \/ StoreStatus(r) \/ Close(r))
  <2>1. (batch' = batch \/ batch' = "ready_for_review") /\ closed' = closed
    <3>1. CASE RetryVerdict(r)
      <4>1. req[r].todo # {} BY <3>1 DEF Made, RetryVerdict
      <4> QED BY <3>1, <4>1, RetryVerdictDoes
    <3>2. CASE Lift(r) BY <3>2, LiftDoes
    <3>3. CASE CloseRead(r) \/ DeleteRead(r) \/ RequestFails(r)
      BY <3>3, SmallReadsDo, RequestFailsDoes
    <3>4. CASE \/ \E c \in Candidates : SkipRead(r, c) \/ VerdictRead(r, c)
               \/ \E S \in (SUBSET Candidates) \ {{}} : Promotes(r, S)
      BY <3>4, SkipReadDoes, VerdictReadDoes, PromoteReadDoes
    <3> QED BY <1>6, <3>1, <3>2, <3>3, <3>4 DEF Aside
  <2>2. \E pc \in Pcs \ {"store"} : \E S, T : Turn(r, pc, S, T)
    <3>1. CASE Lift(r) BY <3>1, LiftDoes, IdleTurn DEF Pcs
    <3>2. CASE RequestFails(r) BY <3>2, RequestFailsDoes, IdleTurn DEF Pcs
    <3>3. CASE RetryVerdict(r)
      <4>1. req[r].todo # {} BY <3>3 DEF Made, RetryVerdict
      <4> QED BY <3>3, <4>1, RetryVerdictDoes, IdleTurn, PcTurn DEF Pcs
    <3>4. CASE CloseRead(r) \/ DeleteRead(r)
      <4>1. PICK pc \in {"close", "unlink"} : Turn(r, pc, {}, {}) BY <3>4, SmallReadsDo, NewTurn
      <4> QED BY <4>1 DEF Pcs
    <3>5. ASSUME NEW c \in Candidates, SkipRead(r, c) \/ VerdictRead(r, c)
          PROVE  \E pc \in Pcs \ {"store"} : \E S, T : Turn(r, pc, S, T)
      <4>1. Turn(r, "skip", {c}, {}) \/ Turn(r, "verdict", {c}, {})
        BY <3>5, SkipReadDoes, VerdictReadDoes, NewTurn
      <4> QED BY <4>1 DEF Pcs
    <3>6. ASSUME NEW X \in (SUBSET Candidates) \ {{}}, Promotes(r, X)
          PROVE  \E pc \in Pcs \ {"store"} : \E S, T : Turn(r, pc, S, T)
      <4>1. Turn(r, "insert", X, {}) BY <3>6, PromoteReadDoes, NewTurn
      <4> QED BY <4>1 DEF Pcs
    <3> QED BY <1>6, <3>1, <3>2, <3>3, <3>4, <3>5, <3>6 DEF Aside
  <2>3. batch' = "done" /\ ~closed' => batch = "done" /\ ~closed BY <2>1
  <2> QED BY <1>1, <1>2, <2>2, <2>3, DoneByTurn
<1> QED BY <1>3, <1>4, <1>5, <1>6

LEMMA DoneByRequest ==
  ASSUME Setting, Types, Made, Done, NEW r \in Requests, Request(r)
  PROVE  Done'
<1>1. CASE Aside(r) BY <1>1, DoneByAside
<1>2. CASE Skip(r)
  <2>1. UNCHANGED <<batch, closed>> /\ Turn(r, "tally", req[r].todo, req[r].made)
    BY <1>2, SkipDoes, PcTurn DEF Pcs
  <2>2. StaysResolved BY <1>2, SkipDoes DEF StaysResolved, RESOLVED_CANDIDATE_STATUSES
  <2> QED BY <2>1, <2>2, DoneByTurn DEF Exists
<1>3. CASE MarkPromoted(r)
  <2>1. req[r].todo # {} /\ \E i : IsLast(req[r].made, i) BY <1>3 DEF Made, MarkPromoted
  <2>2. PICK i : IsLast(req[r].made, i) BY <2>1
  <2>3. UNCHANGED <<batch, closed>> BY <1>3, <2>1, <2>2, MarkPromotedDoes
  <2>4. DOMAIN cand' = Candidates BY <1>3, <2>1, <2>2, MarkPromotedDoes
  <2>5. \A c \in Candidates : cand'[c].status = "promoted" \/ cand'[c] = cand[c]
    BY <1>3, <2>1, <2>2, MarkPromotedDoes
  <2>7. PICK pc \in {"insert", "tally"} : Turn(r, pc, Rest(r), req[r].made)
    BY <1>3, <2>1, <2>2, MarkTurns
  <2>8. StaysResolved BY <2>4, <2>5 DEF StaysResolved, RESOLVED_CANDIDATE_STATUSES
  <2> QED BY <2>3, <2>7, <2>8, DoneByTurn DEF Exists
<1>4. CASE InsertRun(r) \/ Launch(r) \/ Unlink(r)
  <2>1. UNCHANGED <<batch, cand, closed>> BY <1>4, InsertRunDoes, LaunchDoes, UnlinkDoes
  <2>2. StaysResolved BY <2>1 DEF StaysResolved, Candidates
  <2>3. \A x \in Requests : req'[x].pc = "store" => req'[x] = req[x]
    <3>1. CASE InsertRun(r)
      <4>1. Turn(r, "mark", req[r].todo, req[r].made \cup {Len(runs) + 1})
        BY <3>1, InsertRunDoes, MadeTurn
      <4> QED BY <4>1 DEF Turn
    <3>2. CASE Launch(r) BY <3>2, LaunchDoes, IdleTurn DEF Turn
    <3>3. CASE Unlink(r) BY <3>3, UnlinkDoes, PcTurn DEF Turn, Pcs
    <3> QED BY <1>4, <3>1, <3>2, <3>3
  <2> QED BY <2>1, <2>2, <2>3, DoneByStep DEF Exists
<1>5. CASE Drop(r)
  <2>1. batch' = Deleted BY <1>5, DropDoes
  <2> QED BY <2>1 DEF Done, Exists, Deleted
<1> QED BY <1>1, <1>2, <1>3, <1>4, <1>5 DEF Request

-----------------------------------------------------------------------------
(* What the analyses say of the candidates.                                *)

\* What one step of the workflow does to the results of the analyses.
Judging ==
  /\ \A c \in CandidateIds \cap DOMAIN cand' : wf'.work[c] = "ok" =>
       wf.work[c] = "ok" \/ cand'[c].analysed \/ cand'[c].last_error
  /\ wf'.pc = "aggregate" =>
       wf'.ids = wf.ids /\ wf'.work = wf.work /\ \A c \in wf.ids : wf.work[c] = "ok"
  /\ wf.pc \in Past => wf'.ids = wf.ids
  /\ batch' = "ready_for_review" =>
       \/ batch = "ready_for_review"
       \/ /\ wf.pc = "aggregate" /\ wf'.ids = wf.ids /\ cand' = cand
          /\ \E c \in Candidates : ~cand[c].last_error

LEMMA PlainJudges ==
  ASSUME Setting, Types, Plain
  PROVE  Judging
<1>1. wf'.work = wf.work /\ wf'.ids = wf.ids /\ cand' = cand BY PlainWorks
<1>2. wf'.pc = "aggregate" => \A c \in wf.ids : wf.work[c] = "ok"
  BY DEF Plain, Load, StatusStep, FannedOut, AllAnalysed, Aggregate, Complete, OnError, StepFails,
         Types, Wf
<1>3. batch' = "ready_for_review" =>
        \/ batch = "ready_for_review"
        \/ wf.pc = "aggregate" /\ \E c \in Candidates : ~cand[c].last_error
  <2>1. CASE Aggregate
    <3>1. CASE \A c \in Candidates : cand[c].last_error
      BY <2>1, <3>1 DEF Aggregate, SetStatus
    <3> QED BY <2>1, <3>1 DEF Aggregate
  <2>2. CASE StatusStep BY <2>2 DEF StatusStep, SetStatus
  <2>3. CASE OnError BY <2>3 DEF OnError, SetStatus
  <2>4. CASE Load \/ FannedOut \/ AllAnalysed \/ Complete \/ StepFails
    BY <2>4 DEF Load, FannedOut, AllAnalysed, Complete, StepFails
  <2> QED BY <2>1, <2>2, <2>3, <2>4 DEF Plain
<1> QED BY <1>1, <1>2, <1>3 DEF Judging

LEMMA WorkJudges ==
  ASSUME Setting, Types, Workflow \/ Faults
  PROVE  Judging
<1>1. CASE Plain BY <1>1, PlainJudges
<1>2. CASE TopicGen
  <2>1. wf.pc = "gen" BY <1>2 DEF TopicGen
  <2> QED BY <1>2, <2>1, TopicGenWorks DEF Judging, Past
<1>3. CASE FanOut
  <2>1. wf.pc = "fan_out" BY <1>3 DEF FanOut
  <2> QED BY <1>3, <2>1, FanOutWorks DEF Judging, Past
<1>4. CASE FanOutAgain
  <2>1. wf.pc = "fan_out" BY <1>4 DEF FanOutAgain
  <2> QED BY <1>4, <2>1, FanOutAgainWorks DEF Judging, Past
<1>5. ASSUME NEW c \in CandidateIds, AnalyseStart(c) PROVE Judging
  BY <1>5, AnalyseStartWorks DEF Judging
<1>6. ASSUME NEW c \in CandidateIds, Analysed(c) \/ AnalyseAgain(c) PROVE Judging
  <2>1. /\ batch' = batch /\ wf'.ids = wf.ids /\ wf'.pc # "aggregate"
        /\ \A d \in CandidateIds : d # c => wf'.work[d] = wf.work[d]
    BY <1>6, AnalysedWorks
  <2>2. Judged(c) BY <1>6, AnalysedWorks
  <2>3. c \in DOMAIN cand' => cand'[c].analysed \/ cand'[c].last_error BY <2>2 DEF Judged
  <2> QED BY <2>1, <2>3 DEF Judging
<1> QED BY <1>1, <1>2, <1>3, <1>4, <1>5, <1>6 DEF Workflow, Faults, Plain

LEMMA VerdictsByWorking ==
  ASSUME Setting, Types, Phase, Verdicts, Working, Going, Judging
  PROVE  Verdicts'
<1>1. wf'.pc \in Before => \A c \in CandidateIds : wf'.work[c] = "todo" BY DEF Going, Verdicts
<1>2. ASSUME NEW c \in CandidateIds, wf'.work[c] = "ok", c \in DOMAIN cand'
      PROVE  cand'[c].analysed \/ cand'[c].last_error
  <2>1. CASE c \in Candidates BY <1>2, <2>1 DEF Judging, Working, Verdicts
  <2>2. CASE c \notin Candidates
    <3>1. wf.work[c] # "ok" BY <1>2, <2>2 DEF Working, Verdicts, Before
    <3> QED BY <1>2, <3>1 DEF Judging
  <2> QED BY <2>1, <2>2
<1>3. wf'.pc = "aggregate" => \A c \in wf'.ids : wf'.work[c] = "ok" BY DEF Judging
<1>4. ASSUME NEW r \in Requests, req'[r].pc = "lift", batch' # Deleted
      PROVE  \E c \in DOMAIN cand' : cand'[c].analysed
  <2>1. PICK c \in Candidates : cand[c].analysed BY <1>4 DEF Working, Verdicts
  <2> QED BY <2>1 DEF Working
<1>5. ASSUME batch' = "ready_for_review"
      PROVE  \E c \in DOMAIN cand' : cand'[c].analysed \/ c \notin wf'.ids
  <2>1. CASE batch = "ready_for_review"
    <3>1. wf'.ids = wf.ids BY <2>1 DEF Phase, Judging, REVIEW
    <3>2. PICK c \in Candidates : cand[c].analysed \/ c \notin wf.ids
      BY <2>1 DEF Verdicts, ReadyIsEarned
    <3> QED BY <3>1, <3>2 DEF Working
  <2>2. CASE batch # "ready_for_review"
    <3>1. /\ wf.pc = "aggregate" /\ wf'.ids = wf.ids /\ cand' = cand
          /\ \E c \in Candidates : ~cand[c].last_error
      BY <1>5, <2>2 DEF Judging
    <3>2. PICK c \in Candidates : ~cand[c].last_error BY <3>1
    <3>3. c \in wf.ids => cand[c].analysed
      <4>1. c \in CandidateIds BY <3>2, Domains
      <4> QED BY <3>1, <3>2, <4>1 DEF Verdicts
    <3> QED BY <3>1, <3>2, <3>3 DEF Candidates
  <2> QED BY <2>1, <2>2
<1> QED BY <1>1, <1>2, <1>3, <1>4, <1>5 DEF Verdicts, ReadyIsEarned, Candidates, Exists

\* A step of the desk keeps the verdicts that there are.
StaysJudged ==
  /\ wf' = wf /\ DOMAIN cand' = Candidates
  /\ \A c \in Candidates : /\ cand[c].analysed => cand'[c].analysed
                           /\ cand[c].analysed \/ cand[c].last_error
                                => cand'[c].analysed \/ cand'[c].last_error

LEMMA VerdictsByDesk ==
  ASSUME Setting, Types, Verdicts, StaysJudged, Exists <=> batch' # Deleted,
         batch' = "ready_for_review" =>
           batch = "ready_for_review" \/ \E c \in Candidates : cand[c].analysed,
         \A r \in Requests : req'[r].pc = "lift" /\ Exists =>
           req[r].pc = "lift" \/ \E c \in Candidates : cand'[c].analysed
  PROVE  Verdicts'
<1>1. wf'.pc \in Before => \A c \in CandidateIds : wf'.work[c] = "todo"
  BY DEF StaysJudged, Verdicts
<1>2. \A c \in CandidateIds : wf'.work[c] = "ok" /\ c \in DOMAIN cand'
        => cand'[c].analysed \/ cand'[c].last_error
  BY DEF StaysJudged, Verdicts
<1>3. wf'.pc = "aggregate" => \A c \in wf'.ids : wf'.work[c] = "ok" BY DEF StaysJudged, Verdicts
<1>4. ASSUME NEW r \in Requests, req'[r].pc = "lift", batch' # Deleted
      PROVE  \E c \in DOMAIN cand' : cand'[c].analysed
  BY <1>4 DEF StaysJudged, Verdicts
<1>5. ASSUME batch' = "ready_for_review"
      PROVE  \E c \in DOMAIN cand' : cand'[c].analysed \/ c \notin wf'.ids
  BY <1>5 DEF StaysJudged, Verdicts, ReadyIsEarned
<1> QED BY <1>1, <1>2, <1>3, <1>4, <1>5 DEF Verdicts, ReadyIsEarned, Candidates, Exists

LEMMA VerdictsByPoll ==
  ASSUME Setting, Types, Verdicts, Poll
  PROVE  Verdicts'
<1>1. UNCHANGED <<batch, cand, wf, req>> BY PollDoes
<1>2. StaysJudged BY <1>1 DEF StaysJudged, Candidates
<1> QED BY <1>1, <1>2, VerdictsByDesk DEF Exists

LEMMA VerdictsByAside ==
  ASSUME Setting, Types, Rows, Made, Verdicts, NEW r \in Requests, Aside(r)
  PROVE  Verdicts'
<1>1. StaysJudged /\ (Exists <=> batch' # Deleted) BY AsideKeepsRows DEF StaysJudged
<1>2. CASE RetryVerdict(r)
  <2>1. req[r].todo # {} /\ req[r].pc = "verdict" BY <1>2 DEF Made, RetryVerdict
  <2>2. batch' = batch BY <1>2, <2>1, RetryVerdictDoes
  <2>3. PICK c \in req[r].todo :
          \/ Becomes(r, Idle)
          \/ Becomes(r, [req[r] EXCEPT !.pc = "lift"]) /\ (c \in Candidates => cand'[c].analysed)
    BY <1>2, <2>1, RetryVerdictDoes
  <2>4. Exists => c \in Candidates BY <2>3 DEF Rows
  <2>5. CASE Becomes(r, Idle)
    <3>1. Turn(r, "idle", {}, {}) BY <2>5, IdleTurn
    <3> QED BY <1>1, <2>2, <3>1, VerdictsByDesk DEF Turn
  <2>6. CASE Becomes(r, [req[r] EXCEPT !.pc = "lift"]) /\ (c \in Candidates => cand'[c].analysed)
    <3>1. \A x \in Requests : req'[x].pc = "lift" /\ Exists =>
            req[x].pc = "lift" \/ \E d \in Candidates : cand'[d].analysed
      BY <2>4, <2>6 DEF Becomes
    <3> QED BY <1>1, <2>2, <3>1, VerdictsByDesk
  <2> QED BY <2>3, <2>5, <2>6
<1>3. CASE Lift(r)
  <2>1. /\ batch' = IF batch = "failed" THEN "ready_for_review" ELSE batch
        /\ Turn(r, "idle", {}, {}) /\ req[r].pc = "lift"
    BY <1>3, LiftDoes, IdleTurn
  <2>2. batch' = "ready_for_review" =>
          batch = "ready_for_review" \/ \E c \in Candidates : cand[c].analysed
    BY <2>1 DEF Verdicts, Exists, Deleted
  <2> QED BY <1>1, <2>1, <2>2, VerdictsByDesk DEF Turn
<1>4. CASE ~(RetryVerdict(r) \/ Lift(r))
  <2>1. batch' = "ready_for_review" => batch = "ready_for_review"
    <3>1. CASE StoreStatus(r)
      <4>1. SetStatus(IF req[r].done THEN "done" ELSE "partially_promoted")
        BY <3>1, StoreStatusDoes
      <4> QED BY <4>1 DEF SetStatus
    <3>2. CASE Close(r)
      <4>1. SetStatus("done") BY <3>2, CloseDoes
      <4> QED BY <4>1 DEF SetStatus
    <3>3. CASE ~(StoreStatus(r) \/ Close(r))
      <4>1. batch' = batch
        BY <1>4, <3>3, TallyDoes, SmallReadsDo, RequestFailsDoes, SkipReadDoes, VerdictReadDoes,
           PromoteReadDoes DEF Aside
      <4> QED BY <4>1
    <3> QED BY <3>1, <3>2, <3>3
  <2>2. req'[r].pc # "lift"
    <3>1. CASE StoreStatus(r) BY <3>1, StoreStatusDoes, IdleTurn, PcTurn DEF Turn, Pcs
    <3>2. CASE Close(r) \/ RequestFails(r) BY <3>2, CloseDoes, RequestFailsDoes, IdleTurn DEF Turn
    <3>3. CASE Tally(r) BY <3>3, TallyDoes, DoneTurn DEF Turn
    <3>4. CASE CloseRead(r) \/ DeleteRead(r) BY <3>4, SmallReadsDo, NewTurn DEF Turn
    <3>5. ASSUME NEW c \in Candidates, SkipRead(r, c) \/ VerdictRead(r, c) PROVE req'[r].pc # "lift"
      <4>1. Turn(r, "skip", {c}, {}) \/ Turn(r, "verdict", {c}, {})
        BY <3>5, SkipReadDoes, VerdictReadDoes, NewTurn
      <4> QED BY <4>1 DEF Turn
    <3>6. ASSUME NEW S \in (SUBSET Candidates) \ {{}}, Promotes(r, S) PROVE req'[r].pc # "lift"
      <4>1. Turn(r, "insert", S, {}) BY <3>6, PromoteReadDoes, NewTurn
      <4> QED BY <4>1 DEF Turn
    <3> QED BY <1>4, <3>1, <3>2, <3>3, <3>4, <3>5, <3>6 DEF Aside
  <2>3. \A x \in Requests : x # r => req'[x] = req[x] BY AsideTurns DEF Turn
  <2> QED BY <1>1, <2>1, <2>2, <2>3, VerdictsByDesk
<1> QED BY <1>2, <1>3, <1>4

LEMMA VerdictsByRequest ==
  ASSUME Setting, Types, Rows, Made, Verdicts, NEW r \in Requests, Request(r)
  PROVE  Verdicts'
<1>0. wf' = wf BY RequestsLeaveTheWorkflow
<1>1. CASE Aside(r) BY <1>1, VerdictsByAside
<1>2. CASE Skip(r)
  <2>1. batch' = batch /\ Turn(r, "tally", req[r].todo, req[r].made) BY <1>2, SkipDoes, PcTurn DEF Pcs
  <2>2. StaysJudged BY <1>0, <1>2, SkipDoes DEF StaysJudged
  <2> QED BY <2>1, <2>2, VerdictsByDesk DEF Exists, Turn
<1>3. CASE MarkPromoted(r)
  <2>1. req[r].todo # {} /\ \E i : IsLast(req[r].made, i) BY <1>3 DEF Made, MarkPromoted
  <2>2. PICK i : IsLast(req[r].made, i) BY <2>1
  <2>3. batch' = batch BY <1>3, <2>1, <2>2, MarkPromotedDoes
  <2>4. DOMAIN cand' = Candidates BY <1>3, <2>1, <2>2, MarkPromotedDoes
  <2>5. \A c \in Candidates : /\ cand'[c].analysed = cand[c].analysed
                              /\ cand'[c].last_error = cand[c].last_error
    BY <1>3, <2>1, <2>2, MarkPromotedDoes
  <2>7. PICK pc \in {"insert", "tally"} : Turn(r, pc, Rest(r), req[r].made)
    BY <1>3, <2>1, <2>2, MarkTurns
  <2>8. StaysJudged BY <1>0, <2>4, <2>5 DEF StaysJudged
  <2> QED BY <2>3, <2>7, <2>8, VerdictsByDesk DEF Exists, Turn
<1>4. CASE InsertRun(r) \/ Launch(r) \/ Unlink(r)
  <2>1. UNCHANGED <<batch, cand>> BY <1>4, InsertRunDoes, LaunchDoes, UnlinkDoes
  <2>2. StaysJudged BY <1>0, <2>1 DEF StaysJudged, Candidates
  <2>3. \A x \in Requests : req'[x].pc = "lift" => req'[x] = req[x]
    <3>1. CASE InsertRun(r)
      <4>1. Turn(r, "mark", req[r].todo, req[r].made \cup {Len(runs) + 1})
        BY <3>1, InsertRunDoes, MadeTurn
      <4> QED BY <4>1 DEF Turn
    <3>2. CASE Launch(r) BY <3>2, LaunchDoes, IdleTurn DEF Turn
    <3>3. CASE Unlink(r) BY <3>3, UnlinkDoes, PcTurn DEF Turn, Pcs
    <3> QED BY <1>4, <3>1, <3>2, <3>3
  <2> QED BY <2>1, <2>2, <2>3, VerdictsByDesk DEF Exists
<1>5. CASE Drop(r)
  <2>1. batch' = Deleted /\ DOMAIN cand' = {} BY <1>5, DropDoes
  <2> QED BY <1>0, <2>1 DEF Verdicts, ReadyIsEarned, Exists, Deleted, Candidates
<1> QED BY <1>1, <1>2, <1>3, <1>4, <1>5 DEF Request

-----------------------------------------------------------------------------
(* A candidate that was named twice.                                       *)

LEMMA AsideContests ==
  ASSUME Setting, Types, Made, NEW r \in Requests, Aside(r)
  PROVE  contested \subseteq contested'
<1>1. CASE RetryVerdict(r)
  <2>1. req[r].todo # {} BY <1>1 DEF Made, RetryVerdict
  <2> QED BY <1>1, <2>1, RetryVerdictDoes
<1>2. CASE \E c \in Candidates : SkipRead(r, c)
  BY <1>2, SkipReadDoes DEF Contests
<1>3. CASE \E S \in (SUBSET Candidates) \ {{}} : Promotes(r, S)
  BY <1>3, PromoteReadDoes DEF Contests
<1>4. CASE \/ Tally(r) \/ StoreStatus(r) \/ Lift(r) \/ CloseRead(r) \/ Close(r) \/ DeleteRead(r)
           \/ RequestFails(r) \/ \E c \in Candidates : VerdictRead(r, c)
  BY <1>4, TallyDoes, StoreStatusDoes, LiftDoes, SmallReadsDo, CloseDoes, RequestFailsDoes,
     VerdictReadDoes
<1> QED BY <1>1, <1>2, <1>3, <1>4 DEF Aside

LEMMA RepeatsByTurn ==
  ASSUME Repeats, contested \subseteq contested', NEW r \in Requests,
         req' = req \/ \E pc, S, T : Turn(r, pc, S, T)
  PROVE  Repeats'
BY DEF Repeats, Turn

LEMMA RepeatsByRequest ==
  ASSUME Setting, Types, Made, Repeats, NEW r \in Requests, Request(r)
  PROVE  Repeats'
<1>1. CASE Aside(r)
  <2>1. \E pc, S, T : Turn(r, pc, S, T) BY <1>1, AsideTurns
  <2> QED BY <1>1, <2>1, AsideContests, RepeatsByTurn
<1>2. CASE MarkPromoted(r)
  <2>1. req[r].todo # {} /\ \E i : IsLast(req[r].made, i) BY <1>2 DEF Made, MarkPromoted
  <2>2. contested' = contested BY <1>2, <2>1, MarkPromotedDoes
  <2>3. \E pc, S, T : Turn(r, pc, S, T) BY <1>2, <2>1, MarkTurns
  <2> QED BY <2>2, <2>3, RepeatsByTurn
<1>3. CASE InsertRun(r)
  <2>1. contested' = contested BY <1>3, InsertRunDoes
  <2>2. \E pc, S, T : Turn(r, pc, S, T) BY <1>3, InsertRunDoes, MadeTurn
  <2> QED BY <2>1, <2>2, RepeatsByTurn
<1>4. CASE Skip(r) \/ Unlink(r) \/ Drop(r)
  <2>1. contested' = contested BY <1>4, SkipDoes, UnlinkDoes, DropDoes
  <2>2. \E pc, S, T : Turn(r, pc, S, T)
    BY <1>4, SkipDoes, UnlinkDoes, DropDoes, PcTurn, IdleTurn DEF Pcs
  <2> QED BY <2>1, <2>2, RepeatsByTurn
<1>5. CASE Launch(r)
  <2>1. contested' = contested /\ (req' = req \/ Turn(r, "idle", {}, {})) BY <1>5, LaunchDoes, IdleTurn
  <2> QED BY <2>1, RepeatsByTurn
<1> QED BY <1>1, <1>2, <1>3, <1>4, <1>5 DEF Request

-----------------------------------------------------------------------------
(* A candidate that was skipped.                                           *)

\* What a step may do to a candidate's row and to who has it validated.
Decides(c) == \/ cand'[c].status # "skipped"
              \/ c \in Candidates /\ UNCHANGED <<cand[c].status, cand[c].promoted_run_id>>

LEMMA SkipsByStep ==
  ASSUME Skips, contested \subseteq contested', \A c \in DOMAIN cand' \ contested' : Decides(c)
  PROVE  Skips'
BY DEF Skips, Decides, Candidates

LEMMA SkipsByRequest ==
  ASSUME Setting, Types, Rows, Made, Claims, Skips, NEW r \in Requests, Request(r)
  PROVE  Skips'
<1>1. CASE Aside(r)
  <2>1. DOMAIN cand' = Candidates BY <1>1, AsideKeepsRows
  <2>2. \A c \in Candidates : Decides(c) BY <1>1, AsideKeepsRows DEF Decides
  <2>3. contested \subseteq contested' BY <1>1, AsideContests
  <2> QED BY <2>1, <2>2, <2>3, SkipsByStep
<1>2. CASE Skip(r)
  <2>1. contested' = contested /\ DOMAIN cand' = Candidates BY <1>2, SkipDoes
  <2>2. ASSUME NEW c \in Candidates, c \notin contested, cand'[c].status = "skipped"
        PROVE  cand'[c].promoted_run_id = NoRun
    <3>1. CASE c \in req[r].todo
      <4>1. c \in Claimed(r) /\ Calm(c) BY <1>2, <2>2, <3>1 DEF Skip, Claimed, Claims
      <4>2. cand[c].status = "candidate" BY <4>1 DEF Calm
      <4>3. cand[c].promoted_run_id = NoRun BY <4>2 DEF Rows
      <4> QED BY <1>2, <3>1, <4>3, SkipDoes
    <3>2. CASE c \notin req[r].todo
      <4>1. cand'[c] = cand[c] BY <1>2, <3>2, SkipDoes
      <4> QED BY <2>2, <4>1 DEF Skips
    <3> QED BY <3>1, <3>2
  <2> QED BY <2>1, <2>2 DEF Skips, Candidates
<1>3. CASE MarkPromoted(r)
  <2>1. req[r].todo # {} /\ \E i : IsLast(req[r].made, i) BY <1>3 DEF Made, MarkPromoted
  <2>2. PICK i : IsLast(req[r].made, i) BY <2>1
  <2>3. contested' = contested /\ DOMAIN cand' = Candidates BY <1>3, <2>1, <2>2, MarkPromotedDoes
  <2>4. \A c \in Candidates : cand'[c].status = "promoted" \/ cand'[c] = cand[c]
    BY <1>3, <2>1, <2>2, MarkPromotedDoes
  <2> QED BY <2>3, <2>4, SkipsByStep DEF Decides
<1>4. CASE InsertRun(r) \/ Launch(r) \/ Unlink(r)
  <2>1. cand' = cand /\ contested' = contested BY <1>4, InsertRunDoes, LaunchDoes, UnlinkDoes
  <2> QED BY <2>1 DEF Skips, Candidates
<1>5. CASE Drop(r)
  <2>1. DOMAIN cand' = {} BY <1>5, DropDoes
  <2> QED BY <2>1 DEF Skips, Candidates
<1> QED BY <1>1, <1>2, <1>3, <1>4, <1>5 DEF Request

-----------------------------------------------------------------------------
(* The invariant. *)

LEMMA InitIs == Setting /\ Init => Inv
<1> SUFFICES ASSUME Setting, Init PROVE Inv OBVIOUS
<1>1. wf \in Wf /\ wf.work = [c \in CandidateIds |-> "todo"] /\ wf.pc \in {"none", "load"}
  <2>1. NewWorkflow \in Wf BY DEF NewWorkflow, Wf, WorkflowPc, Setting
  <2>2. [NewWorkflow EXCEPT !.pc = "load"] \in Wf BY <2>1 DEF Wf, WorkflowPc
  <2>3. NewWorkflow.work = [c \in CandidateIds |-> "todo"] /\ NewWorkflow.pc = "none"
        /\ [NewWorkflow EXCEPT !.pc = "load"].work = NewWorkflow.work
        /\ [NewWorkflow EXCEPT !.pc = "load"].pc = "load"
    BY DEF NewWorkflow
  <2> QED BY <2>1, <2>2, <2>3 DEF Init
<1>2. req \in [Requests -> Req] /\ \A r \in Requests : req[r] = Idle BY IdleType DEF Init
<1>3. \A r \in Requests : req[r].pc = "idle" /\ req[r].todo = {} /\ req[r].made = {}
  BY <1>2 DEF Idle
<1>4. Candidates = {} /\ DOMAIN runs = {} /\ Len(cand) = 0 /\ Len(runs) = 0 BY DEF Init, Candidates
<1>5. Types
  <2>1. cand \in Seq(CandidateRow) /\ runs \in Seq(RunRow) BY DEF Init
  <2>2. faults \in 0..MaxFaults /\ verdicts \in 0..MaxVerdicts BY DEF Init, Setting
  <2>3. /\ batch \in BatchStatus \cup {Deleted} /\ page \in BatchStatus \cup {"loading"} /\ closed \in BOOLEAN
        /\ contested \subseteq CandidateIds /\ reported \subseteq RunIds
    BY DEF Init, BatchStatus
  <2>4. Len(cand) <= MaxCandidates /\ Len(runs) <= MaxRuns BY <1>4 DEF Setting
  <2> QED BY <1>1, <1>2, <2>1, <2>2, <2>3, <2>4 DEF Types
<1>6. Rows BY <1>3, <1>4 DEF Rows
<1>7. Made BY <1>3, <1>4 DEF Made, Making, Init
<1>8. Claims /\ Skips BY <1>4 DEF Claims, Skips
<1>8a. Repeats
  <2>1. \A r \in Requests : req[r].twice = {} BY <1>2 DEF Idle
  <2> QED BY <2>1 DEF Repeats
<1>9. Phase BY <1>3 DEF Phase, Init, REVIEW, Offering
<1>10. Done BY <1>3 DEF Done, Init
<1>11. Verdicts BY <1>1, <1>3, <1>4 DEF Verdicts, ReadyIsEarned, Init
<1> QED BY <1>5, <1>6, <1>7, <1>8, <1>8a, <1>9, <1>10, <1>11 DEF Inv

LEMMA StepByWorking ==
  ASSUME Setting, Inv, Workflow \/ Faults
  PROVE  Inv'
<1>1. Types' /\ Working /\ Going /\ Judging BY WorkSteps, WorkJudges DEF Inv
<1>2. Rows' /\ Claims' BY <1>1, RowsByWorking, ClaimsByWorking DEF Inv
<1>3. Made' BY <1>1, MadeByWorking DEF Inv, Working
<1>3a. Repeats' BY <1>1 DEF Inv, Working, Repeats
<1>4. Skips'
  <2>1. contested' = contested /\ \A c \in DOMAIN cand' : Decides(c) BY <1>1 DEF Working, Decides
  <2> QED BY <2>1, SkipsByStep DEF Inv
<1>5. Phase' /\ Done' BY <1>1, PhaseByWork, DoneByWorking DEF Inv
<1>6. Verdicts' BY <1>1, VerdictsByWorking DEF Inv
<1> QED BY <1>1, <1>2, <1>3, <1>3a, <1>4, <1>5, <1>6 DEF Inv

LEMMA StepByPoll ==
  ASSUME Setting, Inv, Poll
  PROVE  Inv'
<1>1. /\ Types' /\ UNCHANGED <<batch, cand, runs, wf, req, closed, contested, reported>>
      /\ Types /\ Rows /\ Made /\ Claims /\ Repeats /\ Skips /\ Phase /\ Done /\ Verdicts
  BY PollDoes DEF Inv
<1>2. Rows' BY <1>1 DEF Rows, Candidates, Exists
<1>3. Made' /\ Claims' BY <1>1, MadeByWorking, ClaimsByPoll
<1>4. Skips' /\ Repeats' BY <1>1 DEF Skips, Repeats, Candidates
<1>5. Phase' /\ Done' /\ Verdicts' BY <1>1, PhaseByPoll, DoneByPoll, VerdictsByPoll
<1> QED BY <1>1, <1>2, <1>3, <1>4, <1>5 DEF Inv

LEMMA TypesByRequest ==
  ASSUME Setting, Types, Made, NEW r \in Requests, Request(r)
  PROVE  Types'
<1>1. CASE RetryVerdict(r)
  <2>1. req[r].todo # {} BY <1>1 DEF Made, RetryVerdict
  <2> QED BY <1>1, <2>1, RetryVerdictDoes
<1>2. CASE MarkPromoted(r)
  <2>1. req[r].todo # {} /\ \E i : IsLast(req[r].made, i) BY <1>2 DEF Made, MarkPromoted
  <2> QED BY <1>2, <2>1, MarkPromotedDoes
<1>3. CASE \/ Tally(r) \/ StoreStatus(r) \/ Lift(r) \/ CloseRead(r) \/ Close(r) \/ DeleteRead(r)
           \/ RequestFails(r)
  BY <1>3, TallyDoes, StoreStatusDoes, LiftDoes, SmallReadsDo, CloseDoes, RequestFailsDoes
<1>4. CASE \/ \E c \in Candidates : SkipRead(r, c) \/ VerdictRead(r, c)
           \/ \E S \in (SUBSET Candidates) \ {{}} : Promotes(r, S)
  BY <1>4, SkipReadDoes, VerdictReadDoes, PromoteReadDoes
<1>5. CASE Skip(r) \/ InsertRun(r) \/ Launch(r) \/ Unlink(r) \/ Drop(r)
  BY <1>5, SkipDoes, InsertRunDoes, LaunchDoes, UnlinkDoes, DropDoes
<1> QED BY <1>1, <1>2, <1>3, <1>4, <1>5 DEF Request, Aside

LEMMA StepByRequest ==
  ASSUME Setting, Inv, NEW r \in Requests, Request(r)
  PROVE  Inv'
<1>1. Types /\ Rows /\ Made /\ Claims /\ Repeats /\ Skips /\ Phase /\ Done /\ Verdicts BY DEF Inv
<1>2. Types' BY <1>1, TypesByRequest
<1>3. Rows'
  BY <1>1, RowsByAside, RowsBySkip, RowsByInsert, RowsByMark, RowsByLaunch, RowsByUnlink, RowsByDrop
     DEF Request
<1>4. Made'
  BY <1>1, MadeByAside, MadeByFailure, MadeBySkip, MadeByInsert, MadeByMark, MadeByLaunch,
     MadeByUnlink, MadeByDrop DEF Request
<1>5. Claims'
  BY <1>1, ClaimsByAside, ClaimsBySkip, ClaimsByInsert, ClaimsByMark, ClaimsByLaunch, ClaimsByDelete
     DEF Request
<1>6. Skips' /\ Repeats' BY <1>1, SkipsByRequest, RepeatsByRequest
<1>7. Phase' /\ Done' /\ Verdicts' BY <1>1, PhaseByRequest, DoneByRequest, VerdictsByRequest
<1> QED BY <1>2, <1>3, <1>4, <1>5, <1>6, <1>7 DEF Inv

LEMMA RoutesAreRequests == Routes => \E r \in Requests : Request(r)
BY DEF Routes, Request, Aside, Promotes

LEMMA InvStep == Setting /\ Inv /\ [Next]_vars => Inv'
<1> SUFFICES ASSUME Setting, Inv, [Next]_vars PROVE Inv' OBVIOUS
<1>1. CASE UNCHANGED vars
  <2>1. \A c \in Candidates : Calm(c)' <=> Calm(c)
    BY <1>1 DEF vars, Calm, Claimed, Unreported, RunsOf, NextOf
  <2>2. Types' /\ Rows' /\ Skips' /\ Phase' /\ Repeats'
    BY <1>1 DEF vars, Inv, Types, Rows, Skips, Phase, Repeats, Candidates, Exists
  <2>3. Made' BY <1>1, MadeByWorking DEF vars, Inv
  <2>4. Claims' BY <1>1, <2>1 DEF vars, Inv, Claims, Candidates
  <2>5. Done' /\ Verdicts'
    BY <1>1 DEF vars, Inv, Done, Verdicts, ReadyIsEarned, AllResolved, Candidates, Exists
  <2> QED BY <2>2, <2>3, <2>4, <2>5 DEF Inv
<1>2. CASE Next BY <1>2, StepByWorking, StepByPoll, StepByRequest, RoutesAreRequests DEF Next
<1> QED BY <1>1, <1>2

-----------------------------------------------------------------------------
(* What the invariant says to the desk. *)

LEMMA FinalByRequest ==
  ASSUME Setting, Inv, NEW r \in Requests, Request(r)
  PROVE  ResolutionStep
<1>1. Types /\ Made /\ Claims BY DEF Inv
<1>2. CASE Aside(r) BY <1>1, <1>2, AsideKeepsRows DEF ResolutionStep
<1>3. CASE Skip(r)
  <2>1. contested' = contested BY <1>1, <1>3, SkipDoes
  <2>2. ASSUME NEW c \in Candidates, ~Unresolved(c), c \notin contested' PROVE cand'[c] = cand[c]
    <3>1. c \in req[r].todo => c \in Claimed(r) BY <1>3 DEF Skip, Claimed
    <3>2. c \in Claimed(r) => cand[c].status = "candidate" BY <1>1, <2>1, <2>2 DEF Claims, Calm
    <3>3. c \notin req[r].todo BY <2>2, <3>1, <3>2 DEF Unresolved, RESOLVED_CANDIDATE_STATUSES
    <3> QED BY <1>1, <1>3, <3>3, SkipDoes
  <2> QED BY <2>2 DEF ResolutionStep
<1>4. CASE MarkPromoted(r)
  <2>1. req[r].todo # {} /\ \E i : IsLast(req[r].made, i) BY <1>1, <1>4 DEF Made, MarkPromoted
  <2>2. PICK i : IsLast(req[r].made, i) BY <2>1, SMTT(30)
  <2>3. contested' = contested /\ \A c \in Candidates : c # NextOf(r) => cand'[c] = cand[c]
    BY <1>1, <1>4, <2>1, <2>2, MarkPromotedDoes
  <2>4. NextOf(r) \in Claimed(r) BY <1>1, <1>4, <2>1, NextIsOne DEF MarkPromoted, Claimed
  <2>5. ASSUME NEW c \in Candidates, ~Unresolved(c), c \notin contested' PROVE c # NextOf(r)
    <3>1. c \in Claimed(r) => cand[c].status = "candidate" BY <1>1, <2>3, <2>5 DEF Claims, Calm
    <3> QED BY <2>4, <2>5, <3>1 DEF Unresolved, RESOLVED_CANDIDATE_STATUSES
  <2> QED BY <2>3, <2>5 DEF ResolutionStep
<1>5. CASE InsertRun(r) \/ Launch(r) \/ Unlink(r)
  <2>1. cand' = cand BY <1>1, <1>5, InsertRunDoes, LaunchDoes, UnlinkDoes
  <2> QED BY <2>1 DEF ResolutionStep
<1>6. CASE Drop(r)
  <2>1. DOMAIN cand' = {} BY <1>1, <1>6, DropDoes
  <2> QED BY <2>1 DEF ResolutionStep
<1> QED BY <1>2, <1>3, <1>4, <1>5, <1>6 DEF Request

LEMMA FinalStep == Setting /\ Inv /\ [Next]_vars => [ResolutionStep]_vars
<1> SUFFICES ASSUME Setting, Inv, Next PROVE ResolutionStep OBVIOUS
<1>1. CASE Workflow \/ Faults
  <2>1. Working BY <1>1, WorkSteps DEF Inv
  <2> QED BY <2>1 DEF Working, ResolutionStep
<1>2. CASE Poll
  <2>1. cand' = cand BY <1>2, PollDoes DEF Inv
  <2> QED BY <2>1 DEF ResolutionStep
<1>3. CASE Routes BY <1>3, RoutesAreRequests, FinalByRequest
<1> QED BY <1>1, <1>2, <1>3 DEF Next

LEMMA OneRun == Setting /\ Inv => OneRunPerCandidate
<1> SUFFICES ASSUME Setting, Inv, NEW c \in Candidates \ contested
             PROVE  Cardinality(RunsOf(c) \ reported) <= 1
  BY DEF OneRunPerCandidate
<1>1. \A i, j \in Unreported(c) : i = j BY DEF Inv, Claims, Calm
<1>2. CASE Unreported(c) = {} BY <1>2, FS_EmptySet DEF Unreported
<1>3. CASE Unreported(c) # {}
  <2>1. PICK i : Unreported(c) = {i} BY <1>1, <1>3
  <2>2. Cardinality({i}) = 1 BY FS_Singleton
  <2> QED BY <2>1, <2>2 DEF Unreported
<1> QED BY <1>2, <1>3

LEMMA SkippedIsQuiet == Setting /\ Inv => SkippedIsNotProduced
<1> SUFFICES ASSUME Setting, Inv, NEW c \in Candidates \ contested, cand[c].status = "skipped"
             PROVE  cand[c].promoted_run_id = NoRun /\ \A i \in RunsOf(c) : ~runs[i].instance
  BY DEF SkippedIsNotProduced
<1>1. cand[c].promoted_run_id = NoRun BY DEF Inv, Skips
<1>2. Unreported(c) = {} BY DEF Inv, Claims, Calm
<1>3. \A i \in RunsOf(c) : i \in reported BY <1>2 DEF Unreported
<1> QED BY <1>1, <1>3 DEF Inv, Made

LEMMA StatusTells == Setting /\ Inv => /\ PromotedRunExists /\ UnlaunchedIsReported
                                       /\ DoneIsResolved /\ ReadyIsEarned
<1>1. Inv => PromotedRunExists BY DEF Inv, Rows, PromotedRunExists
<1>2. Inv => UnlaunchedIsReported BY DEF Inv, Made, UnlaunchedIsReported
<1>3. Inv => DoneIsResolved BY DEF Inv, Done, DoneIsResolved
<1>4. Inv => ReadyIsEarned BY DEF Inv, Verdicts
<1> QED BY <1>1, <1>2, <1>3, <1>4

LEMMA InvAlways == ASSUME Setting PROVE Spec => []Inv
<1>1. Init => Inv BY InitIs
<1>2. Inv /\ [Next]_vars => Inv' BY InvStep
<1> QED BY <1>1, <1>2, PTL DEF Spec

\* The tables, the workflow, the page and the requests keep their types.
THEOREM TypesAreKept == ASSUME Setting PROVE Spec => []TypeOK
<1>1. Inv => TypeOK BY TypesMean DEF Inv
<1> QED BY <1>1, InvAlways, PTL

\* A candidate that no two requests had validated at once becomes at most one run that was
\* not reported as failed, and a skipped one none; a promoted one names a run that exists and
\* is its own; a run without a workflow instance was reported to who promoted it (the
\* PRODUCTION.create loop); and a batch that nobody closed is done only when all of its
\* candidates are resolved (POST /:id/promote and /:id/candidates/:cid/skip).
THEOREM CandidatesBecomeOneRun == ASSUME Setting PROVE Spec => []RunsMatchCandidates
<1>1. Inv => TypeOK BY TypesMean DEF Inv
<1>2. Inv => RunsMatchCandidates BY <1>1, OneRun, SkippedIsQuiet, StatusTells DEF RunsMatchCandidates
<1> QED BY <1>2, InvAlways, PTL

\* The batch's status follows its candidates: ready for review only with a verdict to review
\* (recomputeBatchStatus; aggregate and retry-verdict), and a run that the desk sees named, or
\* left without an instance, is accounted for.
THEOREM StatusIsEarned == ASSUME Setting PROVE Spec => []StatusFollowsCandidates
<1>1. Inv => StatusFollowsCandidates BY StatusTells DEF StatusFollowsCandidates
<1> QED BY <1>1, InvAlways, PTL

\* A resolved candidate keeps its resolution and its run, unless requests for it overlapped
\* (RESOLVED_CANDIDATE_STATUSES).
THEOREM ResolutionsAreFinal == ASSUME Setting PROVE Spec => ResolvedIsFinal
<1>1. Init => Inv BY InitIs
<1>2. Inv /\ [Next]_vars => Inv' BY InvStep
<1>3. Inv /\ [Next]_vars => [ResolutionStep]_vars BY FinalStep
<1> QED BY <1>1, <1>2, <1>3, PTL DEF Spec, ResolvedIsFinal

-----------------------------------------------------------------------------
(***************************************************************************)
(* Part two, RefreshScan.  Requests, Concurrency, MaxFaults and faults     *)
(* stand for what each of the two modules calls so; nothing relates the    *)
(* two.                                                                    *)
(***************************************************************************)
CONSTANTS Articles, CronTicks, ManualTicks, BatchSize, Cap, MaxDismissals
VARIABLES queue, snoozed, dismissed, inflight, open, tick, job, dismissals, overlap, excused

Scan == INSTANCE RefreshScan

ScanSetting == /\ IsFiniteSet(Articles) /\ Concurrency \in Nat \ {0} /\ Cap \in Nat
           /\ Scan!Ticks \cap Requests = {}

-----------------------------------------------------------------------------
(* The inductive invariant. *)

ScanPc == Scan!Busy \cup {"idle", "ready", "ok", "failed"}
Job == [pc : ScanPc, grant : {0, 1}, advance : BOOLEAN, used : {0, 1}]
\* What a budget is does not matter here: Budgeted bounds it.
Tick(B) == [running : BOOLEAN, list : Seq(Articles), at : Nat \ {0}, budget : B]

ScanTypes == /\ open \in [Articles -> Nat]
         /\ job \in [Scan!Scanners -> [Articles -> Job]]
         /\ \E B : tick \in [Scan!Ticks -> Tick(B)]
         /\ dismissed \in [Articles -> {"no", "marking", "active", "past"}]

\* Outside overlap at most one scan of a is between its two statements, and then
\* nothing is open.
OneAtMost(a) ==
    a \notin overlap =>
      /\ open[a] <= 1
      /\ \A s, r \in Scan!Scanners : job[s][a].pc = "superseded" /\ job[r][a].pc = "superseded"
                                  => s = r /\ open[a] = 0

\* An instance has steps only for what its list has, while it works on it.
StepsAreListed == \A t \in Scan!Ticks, a \in Articles : job[t][a].pc # "idle" =>
           tick[t].running /\ tick[t].at <= Len(tick[t].list) /\ a \in Scan!ToSet(tick[t].list)

\* What is dismissed and not excused is neither scanned nor in a list.
Undisturbed(a) ==
    Scan!Snoozing(a) /\ a \notin excused =>
      /\ ~Scan!Scanning(a) /\ ~Scan!Selected(a)
      /\ dismissed[a] = "active" => open[a] = 0

ScanInv == ScanTypes /\ StepsAreListed /\ (\A a \in Articles : OneAtMost(a) /\ Undisturbed(a))

-----------------------------------------------------------------------------
(* Selections. *)

LEMMA OrderedIs ==
  ASSUME ScanSetting, NEW ids \in SUBSET Articles, NEW list \in Scan!Ordered(ids)
  PROVE  list \in Seq(Articles) /\ Scan!ToSet(list) \subseteq ids
<1>0. Scan!Cardinality(ids) = Cardinality(ids) BY DEF Scan!Cardinality, Cardinality
<1>1. list \in [1..Cardinality(ids) -> ids] BY <1>0 DEF Scan!Ordered, Scan!SetToSeqs
<1>2. Cardinality(ids) \in Nat BY FS_Subset, FS_CardinalityType DEF ScanSetting
<1>3. list \in Seq(ids) BY <1>1, <1>2
<1> QED BY <1>1, <1>3 DEF Scan!ToSet

\* A cron selection has no article that is dismissed.
LEMMA BatchIsAwake ==
  ASSUME NEW ids \in Scan!Batches
  PROVE  ids \in SUBSET Articles /\ \A a \in ids : ~Scan!Snoozing(a)
BY DEF Scan!Batches, Scan!Eligible

LEMMA ChunkIsListed ==
  ASSUME ScanSetting, ScanTypes, NEW t \in Scan!Ticks
  PROVE  Scan!ToSet(Scan!Chunk(t)) \subseteq Scan!ToSet(tick[t].list)
<1> DEFINE L == tick[t].list  m == tick[t].at
           n == IF m + Concurrency - 1 < Len(L) THEN m + Concurrency - 1 ELSE Len(L)
<1>1. L \in Seq(Articles) /\ m \in Nat \ {0} /\ Len(L) \in Nat BY DEF ScanTypes, Tick
<1>2. n \in Int /\ n <= Len(L) BY <1>1 DEF ScanSetting
<1>3. Scan!Chunk(t) = SubSeq(L, m, n) BY DEF Scan!Chunk
<1> HIDE DEF L, m, n
<1>4. ASSUME NEW x \in Scan!ToSet(SubSeq(L, m, n)) PROVE x \in Scan!ToSet(L)
  <2>1. PICK i \in DOMAIN SubSeq(L, m, n) : x = SubSeq(L, m, n)[i] BY DEF Scan!ToSet
  <2>2. CASE n < m
    <3>1. SubSeq(L, m, n) = << >> BY <1>1, <1>2, <2>2
    <3> QED BY <2>1, <3>1
  <2>3. CASE m <= n
    <3>1. i \in 1..(n - m + 1) /\ SubSeq(L, m, n)[i] = L[m + i - 1] BY <1>1, <1>2, <2>1, <2>3
    <3>2. m + i - 1 \in 1..Len(L) BY <1>1, <1>2, <3>1
    <3> QED BY <1>1, <2>1, <3>1, <3>2 DEF Scan!ToSet
  <2> QED BY <1>1, <1>2, <2>2, <2>3
<1> QED BY <1>3, <1>4 DEF L

-----------------------------------------------------------------------------
(* What the actions do. *)

\* The scan of a by s goes to pc.
Goes(s, a, pc) == /\ \E j \in Job : j.pc = pc /\ job' = [job EXCEPT ![s][a] = j]
                  /\ tick' = tick

LEMMA ScanDoes ==
  ASSUME ScanSetting, ScanTypes, NEW s \in Scan!Scanners, NEW a \in Articles
  PROVE  /\ Scan!Audit(s, a) => Goes(s, a, "audited")
         /\ Scan!Supersede(s, a) => Goes(s, a, "superseded")
         /\ Scan!InsertOpen(s, a) => Goes(s, a, "inserted")
         /\ Scan!PersistSchedule(s, a) => Goes(s, a, IF s \in Requests THEN "idle" ELSE "ok")
         /\ Scan!Throw(s, a) => Goes(s, a, IF s \in Requests THEN "idle" ELSE "failed")
         /\ Scan!Rerun(s, a) => Goes(s, a, "ready")
<1>1. job[s][a] \in Job /\ Scan!NoJob \in Job BY DEF ScanTypes, Job, Scan!NoJob, ScanPc
<1>2. Scan!Audit(s, a) => Goes(s, a, "audited")
  <2> SUFFICES ASSUME Scan!Audit(s, a) PROVE Goes(s, a, "audited") OBVIOUS
  <2>1. PICK r \in Scan!Audits(job[s][a].grant) :
          job' = [job EXCEPT ![s][a] = [pc |-> "audited", grant |-> 0,
                   advance |-> r.advance, used |-> IF s \in Requests THEN 0 ELSE r.used]]
    BY DEF Scan!Audit
  <2>2. r.advance \in BOOLEAN /\ r.used \in {0, 1}
    <3>1. r.used \in 0..job[s][a].grant BY DEF Scan!Audits
    <3>2. job[s][a].grant \in {0, 1} BY <1>1 DEF Job
    <3>3. r.advance \in {Scan!Advances(x) : x \in {"refresh", "monitor", "ok"}}
       BY DEF Scan!Audits
    <3>4. \A x : Scan!Advances(x) \in BOOLEAN BY DEF Scan!Advances
    <3>5. r.advance \in BOOLEAN BY <3>3, <3>4
    <3> QED BY <3>1, <3>2, <3>5
  <2> DEFINE j == [pc |-> "audited", grant |-> 0, advance |-> r.advance,
                   used |-> IF s \in Requests THEN 0 ELSE r.used]
  <2>3. j \in Job /\ j.pc = "audited" BY <2>2 DEF Job, ScanPc, Scan!Busy
  <2>4. tick' = tick BY DEF Scan!Audit
  <2> QED BY <2>1, <2>3, <2>4 DEF Goes
<1>3. ASSUME NEW pc \in ScanPc, job' = [job EXCEPT ![s][a].pc = pc], tick' = tick
      PROVE  Goes(s, a, pc)
  <2> DEFINE j == [job[s][a] EXCEPT !.pc = pc]
  <2>1. j \in Job /\ j.pc = pc BY <1>1 DEF Job
  <2>2. job' = [job EXCEPT ![s][a] = j] BY <1>3
  <2> QED BY <1>3, <2>1, <2>2 DEF Goes
<1>4. Scan!Supersede(s, a) => Goes(s, a, "superseded")
  <2>1. "superseded" \in ScanPc BY DEF ScanPc, Scan!Busy
  <2> QED BY <1>3, <2>1 DEF Scan!Supersede
<1>5. Scan!InsertOpen(s, a) => Goes(s, a, "inserted")
  <2>1. "inserted" \in ScanPc BY DEF ScanPc, Scan!Busy
  <2> QED BY <1>3, <2>1 DEF Scan!InsertOpen
<1>6. ASSUME NEW end \in {"ok", "failed"}
      PROVE  Scan!Ended(s, a, end) \in Job
             /\ Scan!Ended(s, a, end).pc = IF s \in Requests THEN "idle" ELSE end
  <2>1. job[s][a].used \in {0, 1} BY <1>1 DEF Job
  <2> QED BY <2>1 DEF Scan!Ended, Scan!NoJob, Job, ScanPc
<1>7. Scan!PersistSchedule(s, a) => Goes(s, a, IF s \in Requests THEN "idle" ELSE "ok")
  BY <1>6 DEF Scan!PersistSchedule, Goes
<1>8. Scan!Throw(s, a) => Goes(s, a, IF s \in Requests THEN "idle" ELSE "failed")
  BY <1>6 DEF Scan!Throw, Goes
<1>9. Scan!Rerun(s, a) => Goes(s, a, "ready")
  <2> DEFINE g == Scan!Grant(s, CHOOSE i \in DOMAIN Scan!Chunk(s) : Scan!Chunk(s)[i] = a)
             j == [Scan!NoJob EXCEPT !.pc = "ready", !.grant = g]
  <2>1. g \in {0, 1} BY DEF Scan!Grant
  <2>2. Scan!Rerun(s, a) => job' = [job EXCEPT ![s][a] = j] /\ tick' = tick BY DEF Scan!Rerun
  <2> HIDE DEF g
  <2>3. j \in Job /\ j.pc = "ready" BY <2>1 DEF Scan!NoJob, Job, ScanPc
  <2> QED BY <2>2, <2>3 DEF Goes
<1> QED BY <1>2, <1>4, <1>5, <1>7, <1>8, <1>9

LEMMA RequestDoes ==
  ASSUME ScanSetting, ScanTypes, NEW r \in Requests, NEW a \in Articles, NEW force,
         Scan!ScanOneRequest(r, a, force)
  PROVE  Goes(r, a, "ready")
<1> DEFINE j == [Scan!NoJob EXCEPT !.pc = "ready", !.grant = 1]
<1>1. j \in Job /\ j.pc = "ready" BY DEF Scan!NoJob, Job, ScanPc
<1> QED BY <1>1 DEF Scan!ScanOneRequest, Goes

\* A chunk gives steps to the articles of its instance's list, or to none.
LEMMA ChunkDoes ==
  ASSUME ScanSetting, ScanTypes, StepsAreListed, NEW t \in Scan!Ticks, Scan!StartChunk(t) \/ Scan!EndChunk(t)
  PROVE  /\ \E js \in [Articles -> Job] :
              /\ job' = [job EXCEPT ![t] = js]
              /\ \A a \in Articles : js[a].pc \in {"idle", "ready"}
              /\ \A a \in Articles : js[a].pc = "ready" =>
                   Scan!StartChunk(t) /\ a \in Scan!ToSet(tick[t].list)
         /\ Scan!StartChunk(t) => tick' = tick /\ tick[t].running /\ tick[t].at <= Len(tick[t].list)
<1>1. CASE Scan!StartChunk(t)
  <2> DEFINE G(a) == Scan!Grant(t, CHOOSE i \in DOMAIN Scan!Chunk(t) : Scan!Chunk(t)[i] = a)
             R(a) == [Scan!NoJob EXCEPT !.pc = "ready", !.grant = G(a)]
             js == [a \in Articles |-> IF a \in Scan!ToSet(Scan!Chunk(t)) THEN R(a) ELSE Scan!NoJob]
  <2>1. \A a : G(a) \in {0, 1} BY DEF Scan!Grant
  <2>2. job' = [job EXCEPT ![t] = js] BY <1>1 DEF Scan!StartChunk
  <2> HIDE DEF G
  <2>3. Scan!NoJob \in Job /\ Scan!NoJob.pc = "idle" /\ \A a : R(a) \in Job /\ R(a).pc = "ready"
    BY <2>1 DEF Scan!NoJob, Job, ScanPc
  <2> HIDE DEF R
  <2>4. js \in [Articles -> Job] BY <2>3
  <2>5. \A a \in Articles : /\ js[a].pc \in {"idle", "ready"}
                            /\ js[a].pc = "ready" => a \in Scan!ToSet(Scan!Chunk(t))
    BY <2>3
  <2> HIDE DEF js
  <2>6. Scan!ToSet(Scan!Chunk(t)) \subseteq Scan!ToSet(tick[t].list) BY ChunkIsListed
  <2>7. tick' = tick /\ tick[t].running /\ tick[t].at <= Len(tick[t].list) BY <1>1
     DEF Scan!StartChunk
  <2> QED BY <1>1, <2>2, <2>4, <2>5, <2>6, <2>7
<1>2. CASE Scan!EndChunk(t) /\ ~Scan!StartChunk(t)
  <2> DEFINE js == [a \in Articles |-> Scan!NoJob]
  <2>1. js \in [Articles -> Job] /\ \A a \in Articles : js[a].pc = "idle"
     BY DEF Scan!NoJob, Job, ScanPc
  <2>2. job' = [job EXCEPT ![t] = js] BY <1>2 DEF Scan!EndChunk
  <2> HIDE DEF js
  <2> QED BY <1>2, <2>1, <2>2
<1> QED BY <1>1, <1>2

\* An instance takes a list, works on, or ends.
Takes(t, list) ==
  /\ ~tick[t].running /\ job' = job /\ list \in Seq(Articles)
  /\ tick' = [tick EXCEPT ![t] = [running |-> TRUE, list |-> list, at |-> 1, budget |-> Cap]]

LEMMA SelectionDoes ==
  ASSUME ScanSetting, ScanTypes, NEW t \in Scan!Ticks, Scan!CronScan(t) \/ Scan!ManualScan(t)
  PROVE  \E list : /\ Takes(t, list) /\ dismissed' = dismissed /\ open' = open
                  /\ overlap' = overlap /\ excused \subseteq excused'
                  /\ \A a \in Scan!ToSet(list) : Scan!Snoozing(a) => a \in excused'
<1>1. CASE Scan!SelectDue(t)
  <2>1. PICK ids \in Scan!Batches : \E list \in Scan!Ordered(ids) : Scan!StartTick(t, list) /\ UNCHANGED excused
    BY <1>1 DEF Scan!SelectDue
  <2>2. PICK list \in Scan!Ordered(ids) : Scan!StartTick(t, list) /\ UNCHANGED excused BY <2>1
  <2>3. ids \in SUBSET Articles /\ \A a \in ids : ~Scan!Snoozing(a) BY BatchIsAwake
  <2>4. list \in Seq(Articles) /\ Scan!ToSet(list) \subseteq ids BY <2>3, OrderedIs
  <2> QED BY <2>2, <2>3, <2>4 DEF Scan!StartTick, Takes
<1>2. CASE ~Scan!SelectDue(t)
  <2>1. PICK ids \in SUBSET Articles, force \in BOOLEAN :
          \E list \in Scan!NamedSelection(ids, force) :
            /\ Scan!StartTick(t, list)
            /\ excused' = excused \cup {a \in Scan!ToSet(list) : Scan!Snoozing(a)}
    BY <1>2 DEF Scan!CronScan, Scan!ManualScan
  <2>2. PICK list \in Scan!NamedSelection(ids, force) :
            /\ Scan!StartTick(t, list)
            /\ excused' = excused \cup {a \in Scan!ToSet(list) : Scan!Snoozing(a)}
    BY <2>1
  <2>3. \E S \in SUBSET Articles : list \in Scan!Ordered(S) BY DEF Scan!NamedSelection
  <2>4. list \in Seq(Articles) BY <2>3, OrderedIs
  <2> QED BY <2>2, <2>4 DEF Scan!StartTick, Takes
<1> QED BY <1>1, <1>2

\* What happens to an article itself leaves the scans alone.
OfArticle(a) ==
  \/ Scan!Dismiss(a) \/ Scan!MarkEvaluation(a) \/ Scan!DismissalDies(a) \/ Scan!ClearDismissal(a)
  \/ Scan!DismissalPasses(a) \/ Scan!BecomesDue(a) \/ Scan!RunStarts(a) \/ Scan!RunEnds(a)

LEMMA ArticlesDo ==
  ASSUME NEW a \in Articles, OfArticle(a)
  PROVE  job' = job /\ tick' = tick /\ overlap' = overlap
BY DEF OfArticle, Scan!Dismiss, Scan!MarkEvaluation, Scan!DismissalDies, Scan!ClearDismissal,
       Scan!DismissalPasses, Scan!BecomesDue, Scan!RunStarts, Scan!RunEnds

-----------------------------------------------------------------------------
(* Types. *)

LEMMA GoesTypes ==
  ASSUME ScanTypes, NEW s \in Scan!Scanners, NEW a \in Articles, NEW pc, Goes(s, a, pc)
  PROVE  /\ job' \in [Scan!Scanners -> [Articles -> Job]]
         /\ job'[s][a].pc = pc
         /\ \A r \in Scan!Scanners, b \in Articles : r # s \/ b # a => job'[r][b] = job[r][b]
<1>1. PICK j \in Job : j.pc = pc /\ job' = [job EXCEPT ![s][a] = j] BY DEF Goes
<1>2. job \in [Scan!Scanners -> [Articles -> Job]] BY DEF ScanTypes
<1> QED BY <1>1, <1>2

LEMMA TakesTypes ==
  ASSUME ScanTypes, NEW t \in Scan!Ticks, NEW list, Takes(t, list)
  PROVE  /\ \E B : tick' \in [Scan!Ticks -> Tick(B)]
         /\ tick'[t].running /\ tick'[t].list = list /\ tick'[t].at = 1
         /\ \A r \in Scan!Ticks \ {t} : tick'[r] = tick[r]
<1>1. PICK B : tick \in [Scan!Ticks -> Tick(B)] BY DEF ScanTypes
<1>2. Tick(B) \subseteq Tick(B \cup {Cap}) BY DEF Tick
<1>3. [running |-> TRUE, list |-> list, at |-> 1, budget |-> Cap] \in Tick(B \cup {Cap})
  BY DEF Tick, Takes
<1>4. tick' \in [Scan!Ticks -> Tick(B \cup {Cap})] BY <1>1, <1>2, <1>3 DEF Takes
<1> QED BY <1>1, <1>4 DEF Takes

LEMMA EndsTypes ==
  ASSUME ScanSetting, ScanTypes, NEW t \in Scan!Ticks, Scan!EndChunk(t) \/ Scan!EndTick(t)
  PROVE  /\ \E B : tick' \in [Scan!Ticks -> Tick(B)]
         /\ \A r \in Scan!Ticks \ {t} : tick'[r] = tick[r]
         /\ \A r \in Scan!Ticks, a \in Articles :
              tick'[r].running /\ a \in Scan!ToSet(tick'[r].list) =>
                tick[r].running /\ a \in Scan!ToSet(tick[r].list)
<1>1. PICK B : tick \in [Scan!Ticks -> Tick(B)] BY DEF ScanTypes
<1>2. CASE Scan!EndChunk(t)
  <2> DEFINE b == tick[t].budget - Scan!UsedThisChunk(t)
             C == B \cup {b}
             x == [tick[t] EXCEPT !.at = tick[t].at + Concurrency, !.budget = b]
  <2>1. tick' = [tick EXCEPT ![t] = x] BY <1>2 DEF Scan!EndChunk
  <2> HIDE DEF b
  <2>2. x \in Tick(C) /\ x.running = tick[t].running /\ x.list = tick[t].list
    <3>1. tick[t] \in Tick(B) BY <1>1
    <3>2. tick[t].at + Concurrency \in Nat \ {0} BY <3>1 DEF Tick, ScanSetting
    <3>3. b \in C OBVIOUS
    <3> QED BY <3>1, <3>2, <3>3 DEF Tick
  <2>3. Tick(B) \subseteq Tick(C) BY DEF Tick
  <2> HIDE DEF x, C
  <2>4. tick' \in [Scan!Ticks -> Tick(C)] BY <1>1, <2>1, <2>2, <2>3
  <2>5. \A r \in Scan!Ticks : tick'[r] = IF r = t THEN x ELSE tick[r] BY <1>1, <2>1
  <2> QED BY <2>2, <2>4, <2>5
<1>3. CASE Scan!EndTick(t)
  <2>1. tick' = [tick EXCEPT ![t] = Scan!NoTick] BY <1>3 DEF Scan!EndTick
  <2>2. Tick(B) \subseteq Tick(B \cup {0}) BY DEF Tick
  <2>3. Scan!NoTick \in Tick(B \cup {0}) /\ ~Scan!NoTick.running BY DEF Scan!NoTick, Tick
  <2>4. tick' \in [Scan!Ticks -> Tick(B \cup {0})] BY <1>1, <2>1, <2>2, <2>3
  <2>5. \A r \in Scan!Ticks : tick'[r] = IF r = t THEN Scan!NoTick ELSE tick[r] BY <1>1, <2>1
  <2> QED BY <2>3, <2>4, <2>5
<1> QED BY <1>2, <1>3

\* The actions by what they touch.
LEMMA ScanKinds ==
  ASSUME Scan!Next
  PROVE  \/ \E t \in Scan!Ticks : Scan!CronScan(t) \/ Scan!ManualScan(t)
         \/ \E t \in Scan!Ticks : Scan!StartChunk(t) \/ Scan!EndChunk(t)
         \/ \E t \in Scan!Ticks : Scan!EndTick(t)
         \/ \E r \in Requests, a \in Articles, force \in BOOLEAN : Scan!ScanOneRequest(r, a, force)
         \/ \E s \in Scan!Scanners, a \in Articles : Scan!ScanStep(s, a) \/ Scan!Throw(s, a)
         \/ \E t \in Scan!Ticks, a \in Articles : Scan!Rerun(t, a)
         \/ \E a \in Articles : OfArticle(a)
BY DEF Scan!Next, Scan!TickStep, OfArticle

\* A scan that is under way: who began it, and with which effect.
Works(s, a, pc) ==
  \/ s \in Requests /\ pc = "ready" /\ \E force \in BOOLEAN : Scan!ScanOneRequest(s, a, force)
  \/ Scan!Audit(s, a) /\ pc = "audited"
  \/ Scan!Supersede(s, a) /\ pc = "superseded"
  \/ Scan!InsertOpen(s, a) /\ pc = "inserted"
  \/ Scan!PersistSchedule(s, a) /\ pc = (IF s \in Requests THEN "idle" ELSE "ok")
  \/ Scan!Throw(s, a) /\ pc = (IF s \in Requests THEN "idle" ELSE "failed")
  \/ s \in Scan!Ticks /\ Scan!Rerun(s, a) /\ pc = "ready"

LEMMA WorksDo ==
  ASSUME ScanSetting, ScanTypes, NEW s \in Scan!Scanners, NEW a \in Articles, NEW pc, Works(s, a, pc)
  PROVE  Goes(s, a, pc)
BY ScanDoes, RequestDoes DEF Works

LEMMA KindsOfWork ==
  ASSUME Scan!Next
  PROVE  \/ \E t \in Scan!Ticks : Scan!CronScan(t) \/ Scan!ManualScan(t)
         \/ \E t \in Scan!Ticks : Scan!StartChunk(t) \/ Scan!EndChunk(t)
         \/ \E t \in Scan!Ticks : Scan!EndTick(t)
         \/ \E s \in Scan!Scanners, a \in Articles, pc \in ScanPc : Works(s, a, pc)
         \/ \E a \in Articles : OfArticle(a)
<1>1. ASSUME NEW r \in Requests, NEW a \in Articles, NEW force \in BOOLEAN,
             Scan!ScanOneRequest(r, a, force)
      PROVE  \E s \in Scan!Scanners, b \in Articles, pc \in ScanPc : Works(s, b, pc)
  <2>1. Works(r, a, "ready") BY <1>1 DEF Works
  <2>2. r \in Scan!Scanners /\ "ready" \in ScanPc BY DEF Scan!Scanners, ScanPc
  <2> QED BY <2>1, <2>2
<1>2. ASSUME NEW t \in Scan!Ticks, NEW a \in Articles, Scan!Rerun(t, a)
      PROVE  \E s \in Scan!Scanners, b \in Articles, pc \in ScanPc : Works(s, b, pc)
  <2>1. Works(t, a, "ready") BY <1>2 DEF Works
  <2>2. t \in Scan!Scanners /\ "ready" \in ScanPc BY DEF Scan!Scanners, ScanPc
  <2> QED BY <2>1, <2>2
<1>3. ASSUME NEW s \in Scan!Scanners, NEW a \in Articles, Scan!ScanStep(s, a) \/ Scan!Throw(s, a)
      PROVE  \E pc \in ScanPc : Works(s, a, pc)
  BY <1>3 DEF Scan!ScanStep, Works, ScanPc, Scan!Busy
<1> QED BY <1>1, <1>2, <1>3, ScanKinds

LEMMA ScanTypesStep == ASSUME ScanSetting, ScanTypes, StepsAreListed, Scan!Next PROVE ScanTypes'
<1>1. CASE \E t \in Scan!Ticks : Scan!CronScan(t) \/ Scan!ManualScan(t)
  <2>1. PICK t \in Scan!Ticks : Scan!CronScan(t) \/ Scan!ManualScan(t) BY <1>1
  <2>2. PICK list : Takes(t, list) /\ dismissed' = dismissed /\ open' = open
    BY <2>1, SelectionDoes
  <2>3. job' = job BY <2>2 DEF Takes
  <2> QED BY <2>2, <2>3, TakesTypes DEF ScanTypes
<1>2. CASE \E t \in Scan!Ticks : Scan!StartChunk(t) \/ Scan!EndChunk(t)
  <2>1. PICK t \in Scan!Ticks : Scan!StartChunk(t) \/ Scan!EndChunk(t) BY <1>2
  <2>2. PICK js \in [Articles -> Job] : job' = [job EXCEPT ![t] = js] BY <2>1, ChunkDoes
  <2>3. job' \in [Scan!Scanners -> [Articles -> Job]] BY <2>2 DEF ScanTypes, Scan!Scanners
  <2>4. \E B : tick' \in [Scan!Ticks -> Tick(B)]
    <3>1. CASE Scan!StartChunk(t)
      <4>1. tick' = tick BY <3>1 DEF Scan!StartChunk
      <4> QED BY <4>1 DEF ScanTypes
    <3>2. CASE Scan!EndChunk(t) BY <3>2, EndsTypes
    <3> QED BY <2>1, <3>1, <3>2
  <2>5. open' = open /\ dismissed' = dismissed BY <2>1 DEF Scan!StartChunk, Scan!EndChunk
  <2> QED BY <2>3, <2>4, <2>5 DEF ScanTypes
<1>3. CASE \E t \in Scan!Ticks : Scan!EndTick(t)
  <2>1. PICK t \in Scan!Ticks : Scan!EndTick(t) BY <1>3
  <2>2. open' = open /\ dismissed' = dismissed /\ job' = job BY <2>1 DEF Scan!EndTick
  <2> QED BY <2>1, <2>2, EndsTypes DEF ScanTypes
<1>4. CASE \E s \in Scan!Scanners, a \in Articles, pc \in ScanPc : Works(s, a, pc)
  <2>1. PICK s \in Scan!Scanners, a \in Articles, pc \in ScanPc : Works(s, a, pc) BY <1>4
  <2>2. Goes(s, a, pc) BY <2>1, WorksDo
  <2>3. job' \in [Scan!Scanners -> [Articles -> Job]] /\ tick' = tick BY <2>2, GoesTypes
     DEF Goes
  <2>4. dismissed' = dismissed /\ open' \in [Articles -> Nat]
    BY <2>1 DEF Works, Scan!ScanOneRequest, Scan!Audit, Scan!Supersede, Scan!InsertOpen,
           Scan!PersistSchedule, Scan!Throw, Scan!Rerun, ScanTypes
  <2> QED BY <2>3, <2>4 DEF ScanTypes
<1>5. CASE \E a \in Articles : OfArticle(a)
  <2>1. PICK a \in Articles : OfArticle(a)
    BY <1>5
  <2>2. job' = job /\ tick' = tick BY <2>1, ArticlesDo
  <2>3. open' \in [Articles -> Nat]
    BY <2>1 DEF ScanTypes, OfArticle, Scan!Dismiss, Scan!MarkEvaluation, Scan!DismissalDies,
           Scan!ClearDismissal, Scan!DismissalPasses, Scan!BecomesDue, Scan!RunStarts,
           Scan!RunEnds
  <2>4. dismissed' \in [Articles -> {"no", "marking", "active", "past"}]
    BY <2>1 DEF ScanTypes, OfArticle, Scan!Dismiss, Scan!MarkEvaluation, Scan!DismissalDies,
           Scan!ClearDismissal, Scan!DismissalPasses, Scan!BecomesDue, Scan!RunStarts,
           Scan!RunEnds
  <2> QED BY <2>2, <2>3, <2>4 DEF ScanTypes
<1> QED BY <1>1, <1>2, <1>3, <1>4, <1>5, KindsOfWork

\* Only a request begins a scan that was idle; the others go on with one.
LEMMA WorkGoesOn ==
  ASSUME ScanSetting, ScanTypes, NEW s \in Scan!Ticks, NEW a \in Articles, NEW pc, Works(s, a, pc)
  PROVE  job[s][a].pc # "idle"
BY DEF Works, Scan!Audit, Scan!Supersede, Scan!InsertOpen, Scan!PersistSchedule, Scan!Throw,
       Scan!Rerun, Scan!Busy, ScanSetting

LEMMA ListedStep == ASSUME ScanSetting, ScanTypes, StepsAreListed, Scan!Next PROVE StepsAreListed'
<1> SUFFICES ASSUME NEW t \in Scan!Ticks, NEW a \in Articles, job'[t][a].pc # "idle"
             PROVE  tick'[t].running /\ tick'[t].at <= Len(tick'[t].list)
                    /\ a \in Scan!ToSet(tick'[t].list)
  BY DEF StepsAreListed
<1>0. job[t][a].pc # "idle" =>
        tick[t].running /\ tick[t].at <= Len(tick[t].list) /\ a \in Scan!ToSet(tick[t].list)
  BY DEF StepsAreListed
<1>0a. t \in Scan!Scanners /\ t \notin Requests BY DEF Scan!Scanners, ScanSetting
<1>0b. tick[t].at \in Nat /\ Len(tick[t].list) \in Nat BY DEF ScanTypes, Tick
<1>1. CASE \E r \in Scan!Ticks : Scan!CronScan(r) \/ Scan!ManualScan(r)
  <2>1. PICK r \in Scan!Ticks : Scan!CronScan(r) \/ Scan!ManualScan(r) BY <1>1
  <2>2. PICK list : Takes(r, list) BY <2>1, SelectionDoes
  <2>3. job' = job /\ ~tick[r].running BY <2>2 DEF Takes
  <2>4. \A x \in Scan!Ticks \ {r} : tick'[x] = tick[x] BY <2>2, TakesTypes
  <2> QED BY <1>0, <2>3, <2>4
<1>2. CASE \E r \in Scan!Ticks : Scan!StartChunk(r) \/ Scan!EndChunk(r)
  <2>1. PICK r \in Scan!Ticks : Scan!StartChunk(r) \/ Scan!EndChunk(r) BY <1>2
  <2>2. PICK js \in [Articles -> Job] :
              /\ job' = [job EXCEPT ![r] = js]
              /\ \A b \in Articles : js[b].pc \in {"idle", "ready"}
              /\ \A b \in Articles : js[b].pc = "ready" =>
                   Scan!StartChunk(r) /\ b \in Scan!ToSet(tick[r].list)
    BY <2>1, ChunkDoes
  <2>3. job'[t] = IF t = r THEN js ELSE job[t] BY <1>0a, <2>2 DEF ScanTypes
  <2>4. CASE t = r
    <3>1. Scan!StartChunk(r) /\ a \in Scan!ToSet(tick[r].list) BY <2>2, <2>3, <2>4
    <3> QED BY <2>4, <3>1, ChunkDoes
  <2>5. CASE t # r
    <3>1. tick'[t] = tick[t] BY <2>1, <2>5, ChunkDoes, EndsTypes
    <3> QED BY <1>0, <2>3, <2>5, <3>1
  <2> QED BY <2>4, <2>5
<1>3. CASE \E r \in Scan!Ticks : Scan!EndTick(r)
  <2>1. PICK r \in Scan!Ticks : Scan!EndTick(r) BY <1>3
  <2>2. job' = job /\ tick[r].at > Len(tick[r].list) BY <2>1 DEF Scan!EndTick
  <2>3. t # r BY <1>0, <1>0b, <2>2
  <2>4. tick'[t] = tick[t] BY <2>1, <2>3, EndsTypes
  <2> QED BY <1>0, <2>2, <2>4
<1>4. CASE \E s \in Scan!Scanners, b \in Articles, pc \in ScanPc : Works(s, b, pc)
  <2>1. PICK s \in Scan!Scanners, b \in Articles, pc \in ScanPc : Works(s, b, pc) BY <1>4
  <2>2. Goes(s, b, pc) BY <2>1, WorksDo
  <2>3. tick' = tick BY <2>2 DEF Goes
  <2>4. job[t][a].pc # "idle"
    <3>1. CASE t = s /\ a = b BY <2>1, <3>1, WorkGoesOn
    <3>2. CASE t # s \/ a # b BY <1>0a, <2>2, <3>2, GoesTypes
    <3> QED BY <3>1, <3>2
  <2> QED BY <1>0, <2>3, <2>4
<1>5. CASE \E b \in Articles : OfArticle(b)
  <2>1. job' = job /\ tick' = tick BY <1>5, ArticlesDo
  <2> QED BY <1>0, <2>1
<1> QED BY <1>1, <1>2, <1>3, <1>4, <1>5, KindsOfWork

-----------------------------------------------------------------------------
(* One open evaluation. *)

\* A step that starts no insertion and opens nothing keeps One.
LEMMA OneAtMostByLess ==
  ASSUME ScanTypes, ScanTypes', NEW a \in Articles, OneAtMost(a), a \in overlap => a \in overlap',
         open'[a] <= open[a],
         \A s \in Scan!Scanners : job'[s][a].pc = "superseded" => job[s][a].pc = "superseded"
  PROVE  OneAtMost(a)'
<1>1. open[a] \in Nat /\ open'[a] \in Nat BY DEF ScanTypes
<1> QED BY <1>1 DEF OneAtMost

LEMMA OneAtMostStep ==
  ASSUME ScanSetting, ScanTypes, StepsAreListed, ScanTypes', Scan!Next, NEW a \in Articles, OneAtMost(a)
  PROVE  OneAtMost(a)'
<1>0. open[a] \in Nat /\ open'[a] \in Nat BY DEF ScanTypes
<1>1. CASE \E t \in Scan!Ticks : Scan!CronScan(t) \/ Scan!ManualScan(t)
  <2>1. PICK t \in Scan!Ticks : Scan!CronScan(t) \/ Scan!ManualScan(t) BY <1>1
  <2>2. PICK list : Takes(t, list) /\ open' = open /\ overlap' = overlap BY <2>1, SelectionDoes
  <2>3. job' = job BY <2>2 DEF Takes
  <2> QED BY <1>0, <2>2, <2>3, OneAtMostByLess
<1>2. CASE \E t \in Scan!Ticks : Scan!StartChunk(t) \/ Scan!EndChunk(t)
  <2>1. PICK t \in Scan!Ticks : Scan!StartChunk(t) \/ Scan!EndChunk(t) BY <1>2
  <2>2. PICK js \in [Articles -> Job] :
              /\ job' = [job EXCEPT ![t] = js]
              /\ \A b \in Articles : js[b].pc \in {"idle", "ready"}
    BY <2>1, ChunkDoes
  <2>3. open' = open /\ overlap' = overlap BY <2>1 DEF Scan!StartChunk, Scan!EndChunk
  <2>4. \A s \in Scan!Scanners : job'[s][a].pc = "superseded" => job[s][a].pc = "superseded"
    BY <2>2 DEF ScanTypes
  <2> QED BY <1>0, <2>3, <2>4, OneAtMostByLess
<1>3. CASE \E t \in Scan!Ticks : Scan!EndTick(t)
  <2>1. open' = open /\ overlap' = overlap /\ job' = job BY <1>3 DEF Scan!EndTick
  <2> QED BY <1>0, <2>1, OneAtMostByLess
<1>4. CASE \E s \in Scan!Scanners, b \in Articles, pc \in ScanPc : Works(s, b, pc)
  <2>1. PICK s \in Scan!Scanners, b \in Articles, pc \in ScanPc : Works(s, b, pc) BY <1>4
  <2>2. Goes(s, b, pc) BY <2>1, WorksDo
  <2>3. /\ job'[s][b].pc = pc
        /\ \A r \in Scan!Scanners, c \in Articles : r # s \/ c # b => job'[r][c] = job[r][c]
    BY <2>2, GoesTypes
  <2>4. CASE b # a
    <3>1. open'[a] = open[a] /\ (a \in overlap => a \in overlap')
      BY <2>1, <2>4 DEF Works, Scan!ScanOneRequest, Scan!Audit, Scan!Supersede,
             Scan!InsertOpen, Scan!PersistSchedule, Scan!Throw, Scan!Rerun, ScanTypes
    <3> QED BY <1>0, <2>3, <2>4, <3>1, OneAtMostByLess
  <2>5. CASE b = a /\ Scan!Supersede(s, a)
    <3>1. /\ open'[a] = 0
          /\ overlap' = IF \E r \in Scan!Scanners \ {s} : job[r][a].pc = "superseded"
                        THEN overlap \cup {a} ELSE overlap \ {a}
      BY <2>5 DEF Scan!Supersede, ScanTypes
    <3> QED BY <2>3, <2>5, <3>1 DEF OneAtMost
  <2>6. CASE b = a /\ Scan!InsertOpen(s, a)
    <3>1. /\ open'[a] = open[a] + 1 /\ overlap' = overlap /\ job[s][a].pc = "superseded"
      BY <2>6 DEF Scan!InsertOpen, ScanTypes
    <3>2. Goes(s, a, "inserted") BY <2>6, ScanDoes
    <3>3. /\ job'[s][a].pc = "inserted"
          /\ \A r \in Scan!Scanners \ {s} : job'[r][a] = job[r][a]
      BY <3>2, GoesTypes
    <3> QED BY <1>0, <3>1, <3>3 DEF OneAtMost
  <2>7. CASE b = a /\ ~Scan!Supersede(s, a) /\ ~Scan!InsertOpen(s, a)
    <3>1. open' = open /\ overlap' = overlap /\ pc # "superseded"
      BY <2>1, <2>7 DEF Works, Scan!ScanOneRequest, Scan!Audit, Scan!PersistSchedule,
             Scan!Throw, Scan!Rerun
    <3> QED BY <1>0, <2>3, <2>7, <3>1, OneAtMostByLess
  <2> QED BY <2>4, <2>5, <2>6, <2>7
<1>5. CASE \E b \in Articles : OfArticle(b)
  <2>1. PICK b \in Articles : OfArticle(b)
    BY <1>5
  <2>2. job' = job /\ overlap' = overlap BY <2>1, ArticlesDo
  <2>3. open'[a] <= open[a]
    <3>1. CASE Scan!MarkEvaluation(b)
      <4>1. open' = [open EXCEPT ![b] = IF open[b] > 0 THEN open[b] - 1 ELSE 0]
        BY <3>1 DEF Scan!MarkEvaluation
      <4>2. open \in [Articles -> Nat] BY DEF ScanTypes
      <4> QED BY <4>1, <4>2
    <3>2. CASE ~Scan!MarkEvaluation(b)
      <4>1. open' = open
        BY <2>1, <3>2 DEF OfArticle, Scan!Dismiss, Scan!DismissalDies, Scan!ClearDismissal,
               Scan!DismissalPasses, Scan!BecomesDue, Scan!RunStarts, Scan!RunEnds
      <4> QED BY <1>0, <4>1
    <3> QED BY <3>1, <3>2
  <2> QED BY <2>2, <2>3, OneAtMostByLess
<1> QED BY <1>1, <1>2, <1>3, <1>4, <1>5, KindsOfWork

-----------------------------------------------------------------------------
(* A dismissed article is quiet. *)

\* A step that neither scans, selects, opens nor dismisses a keeps it quiet.
LEMMA UndisturbedByLess ==
  ASSUME ScanTypes, ScanTypes', NEW a \in Articles, Undisturbed(a),
         a \in excused => a \in excused', dismissed'[a] = dismissed[a],
         open'[a] = open[a], Scan!Scanning(a)' => Scan!Scanning(a), Scan!Selected(a)' => Scan!Selected(a)
  PROVE  Undisturbed(a)'
BY DEF Undisturbed, Scan!Snoozing

LEMMA UndisturbedStep ==
  ASSUME ScanSetting, ScanTypes, StepsAreListed, ScanTypes', Scan!Next, NEW a \in Articles, Undisturbed(a)
  PROVE  Undisturbed(a)'
<1>0. open[a] \in Nat /\ open'[a] \in Nat BY DEF ScanTypes
<1>0a. job' = job => (Scan!Scanning(a)' <=> Scan!Scanning(a)) BY DEF Scan!Scanning
<1>0b. tick' = tick => (Scan!Selected(a)' <=> Scan!Selected(a)) BY DEF Scan!Selected
<1>1. CASE \E t \in Scan!Ticks : Scan!CronScan(t) \/ Scan!ManualScan(t)
  <2>1. PICK t \in Scan!Ticks : Scan!CronScan(t) \/ Scan!ManualScan(t) BY <1>1
  <2>2. PICK list : /\ Takes(t, list) /\ dismissed' = dismissed /\ open' = open
                    /\ excused \subseteq excused'
                    /\ \A b \in Scan!ToSet(list) : Scan!Snoozing(b) => b \in excused'
    BY <2>1, SelectionDoes
  <2>3. job' = job BY <2>2 DEF Takes
  <2>4. Scan!Selected(a)' => Scan!Selected(a) \/ a \in Scan!ToSet(list)
    BY <2>2, TakesTypes DEF Scan!Selected
  <2>5. CASE a \in Scan!ToSet(list)
    <3>1. Scan!Snoozing(a)' => a \in excused' BY <2>2, <2>5 DEF Scan!Snoozing
    <3> QED BY <3>1 DEF Undisturbed
  <2>6. CASE a \notin Scan!ToSet(list) BY <1>0a, <2>2, <2>3, <2>4, <2>6, UndisturbedByLess
  <2> QED BY <2>5, <2>6
<1>2. CASE \E t \in Scan!Ticks : Scan!StartChunk(t) \/ Scan!EndChunk(t)
  <2>1. PICK t \in Scan!Ticks : Scan!StartChunk(t) \/ Scan!EndChunk(t) BY <1>2
  <2>2. PICK js \in [Articles -> Job] :
              /\ job' = [job EXCEPT ![t] = js]
              /\ \A b \in Articles : js[b].pc \in {"idle", "ready"}
              /\ \A b \in Articles : js[b].pc = "ready" =>
                   Scan!StartChunk(t) /\ b \in Scan!ToSet(tick[t].list)
    BY <2>1, ChunkDoes
  <2>3. open' = open /\ dismissed' = dismissed /\ excused' = excused
    BY <2>1 DEF Scan!StartChunk, Scan!EndChunk
  <2>4. Scan!Selected(a)' => Scan!Selected(a)
    <3>1. CASE Scan!StartChunk(t) BY <1>0b, <3>1 DEF Scan!StartChunk
    <3>2. CASE Scan!EndChunk(t) BY <3>2, EndsTypes DEF Scan!Selected
    <3> QED BY <2>1, <3>1, <3>2
  <2>5. Scan!Scanning(a)' => Scan!Scanning(a) \/ Scan!Selected(a)
    <3> SUFFICES ASSUME NEW s \in Scan!Scanners, job'[s][a].pc \notin {"idle", "ok", "failed"}
                 PROVE  Scan!Scanning(a) \/ Scan!Selected(a)
      BY DEF Scan!Scanning
    <3>1. job'[s] = IF s = t THEN js ELSE job[s] BY <2>2 DEF ScanTypes
    <3>2. CASE s = t
      <4>1. Scan!StartChunk(t) /\ a \in Scan!ToSet(tick[t].list) BY <2>2, <3>1, <3>2
      <4>2. tick[t].running BY <4>1 DEF Scan!StartChunk
      <4> QED BY <4>1, <4>2 DEF Scan!Selected
    <3>3. CASE s # t BY <3>1, <3>3 DEF Scan!Scanning
    <3> QED BY <3>2, <3>3
  <2> QED BY <2>3, <2>4, <2>5 DEF Undisturbed, Scan!Snoozing
<1>3. CASE \E t \in Scan!Ticks : Scan!EndTick(t)
  <2>1. PICK t \in Scan!Ticks : Scan!EndTick(t) BY <1>3
  <2>2. open' = open /\ dismissed' = dismissed /\ excused' = excused /\ job' = job
    BY <2>1 DEF Scan!EndTick
  <2>3. Scan!Selected(a)' => Scan!Selected(a) BY <2>1, EndsTypes DEF Scan!Selected
  <2> QED BY <1>0a, <2>2, <2>3, UndisturbedByLess
<1>4. CASE \E s \in Scan!Scanners, b \in Articles, pc \in ScanPc : Works(s, b, pc)
  <2>1. PICK s \in Scan!Scanners, b \in Articles, pc \in ScanPc : Works(s, b, pc) BY <1>4
  <2>2. Goes(s, b, pc) BY <2>1, WorksDo
  <2>3. /\ job'[s][b].pc = pc /\ tick' = tick
        /\ \A r \in Scan!Scanners, c \in Articles : r # s \/ c # b => job'[r][c] = job[r][c]
    <3>1. tick' = tick BY <2>2 DEF Goes
    <3> QED BY <2>2, <3>1, GoesTypes
  <2>4. dismissed' = dismissed /\ excused \subseteq excused'
    BY <2>1 DEF Works, Scan!ScanOneRequest, Scan!Audit, Scan!Supersede, Scan!InsertOpen,
           Scan!PersistSchedule, Scan!Throw, Scan!Rerun
  <2>5. CASE b # a
    <3>1. open'[a] = open[a]
      BY <2>1, <2>5 DEF Works, Scan!ScanOneRequest, Scan!Audit, Scan!Supersede,
             Scan!InsertOpen, Scan!PersistSchedule, Scan!Throw, Scan!Rerun, ScanTypes
    <3>2. Scan!Scanning(a)' => Scan!Scanning(a) BY <2>3, <2>5 DEF Scan!Scanning
    <3> QED BY <1>0b, <2>3, <2>4, <3>1, <3>2, UndisturbedByLess
  <2>6. CASE b = a /\ Scan!Snoozing(a) /\ a \notin excused
    <3>1. ~Scan!Scanning(a) /\ ~Scan!Selected(a) BY <2>6 DEF Undisturbed
    <3>2. job[s][a].pc \in {"idle", "ok", "failed"} BY <3>1 DEF Scan!Scanning
    <3>3. s \in Scan!Ticks => job[s][a].pc = "idle" BY <3>1 DEF StepsAreListed, Scan!Selected
    <3>4. ~(s \in Scan!Ticks /\ Scan!Rerun(s, a))
      BY <3>3 DEF Scan!Rerun, Scan!Busy
    <3>5. \E force \in BOOLEAN : Scan!ScanOneRequest(s, a, force)
      BY <2>1, <2>6, <3>2, <3>4 DEF Works, Scan!Audit, Scan!Supersede, Scan!InsertOpen,
             Scan!PersistSchedule, Scan!Throw, Scan!Busy
    <3>6. a \in excused' BY <2>6, <3>5 DEF Scan!ScanOneRequest
    <3> QED BY <3>6 DEF Undisturbed
  <2>7. CASE ~Scan!Snoozing(a) \/ a \in excused BY <2>4, <2>7 DEF Undisturbed, Scan!Snoozing
  <2> QED BY <2>5, <2>6, <2>7
<1>5. CASE \E b \in Articles : OfArticle(b)
  <2>1. PICK b \in Articles : OfArticle(b)
    BY <1>5
  <2>2. job' = job /\ tick' = tick BY <2>1, ArticlesDo
  <2>3. CASE b # a
    <3>1. open'[a] = open[a] /\ dismissed'[a] = dismissed[a] /\ (a \in excused => a \in excused')
      BY <2>1, <2>3 DEF ScanTypes, OfArticle, Scan!Dismiss, Scan!MarkEvaluation,
             Scan!DismissalDies, Scan!ClearDismissal, Scan!DismissalPasses, Scan!BecomesDue,
             Scan!RunStarts, Scan!RunEnds
    <3> QED BY <1>0a, <1>0b, <2>2, <3>1, UndisturbedByLess
  <2>4. CASE b = a /\ Scan!Dismiss(a)
    <3>1. /\ dismissed'[a] = "marking"
          /\ excused' = IF Scan!Scanning(a) \/ Scan!Selected(a) THEN excused \cup {a} ELSE excused \ {a}
      BY <2>4 DEF Scan!Dismiss, ScanTypes
    <3> QED BY <1>0a, <1>0b, <2>2, <3>1 DEF Undisturbed
  <2>5. CASE b = a /\ Scan!MarkEvaluation(a)
    <3>1. /\ dismissed[a] = "marking"
          /\ open' = [open EXCEPT ![a] = IF open[a] > 0 THEN open[a] - 1 ELSE 0]
          /\ excused' = IF open[a] > 1 THEN excused \cup {a} ELSE excused
      BY <2>5 DEF Scan!MarkEvaluation
    <3>2. open'[a] = IF open[a] > 0 THEN open[a] - 1 ELSE 0 BY <3>1 DEF ScanTypes
    <3>3. a \notin excused' => a \notin excused /\ open'[a] = 0 BY <1>0, <3>1, <3>2
    <3>4. Scan!Snoozing(a) BY <3>1 DEF Scan!Snoozing
    <3> QED BY <1>0a, <1>0b, <2>2, <3>3, <3>4 DEF Undisturbed
  <2>6. CASE b = a /\ Scan!DismissalDies(a) BY <2>6 DEF Scan!DismissalDies, Undisturbed
  <2>7. CASE b = a /\ (Scan!ClearDismissal(a) \/ Scan!DismissalPasses(a))
    <3>1. ~Scan!Snoozing(a)' BY <2>7 DEF Scan!ClearDismissal, Scan!DismissalPasses, ScanTypes,
           Scan!Snoozing
    <3> QED BY <3>1 DEF Undisturbed
  <2>8. CASE b = a /\ (Scan!BecomesDue(a) \/ Scan!RunStarts(a) \/ Scan!RunEnds(a))
    <3>1. open' = open /\ dismissed' = dismissed /\ excused' = excused
      BY <2>8 DEF Scan!BecomesDue, Scan!RunStarts, Scan!RunEnds
    <3> QED BY <1>0a, <1>0b, <2>2, <3>1, UndisturbedByLess
  <2> QED BY <2>1, <2>3, <2>4, <2>5, <2>6, <2>7, <2>8 DEF OfArticle
<1> QED BY <1>1, <1>2, <1>3, <1>4, <1>5, KindsOfWork

-----------------------------------------------------------------------------
(* The budget of an instance.  A step may call the LLM, or has called it,  *)
(* only if its article is among the first of the chunk, as many as the     *)
(* chunks before have left; so the calls of a chunk never exceed what is   *)
(* taken off the budget at its end.                                        *)

Granted(t, a) == \E i \in DOMAIN Scan!Chunk(t) : Scan!Chunk(t)[i] = a /\ i <= tick[t].budget
Reserved(t, a) ==
  /\ job[t][a].pc # "idle" => a \in Scan!ToSet(Scan!Chunk(t))
  /\ job[t][a].grant = 1 \/ job[t][a].used = 1 => job[t][a].pc # "idle" /\ Granted(t, a)
Budgeted == \A t \in Scan!Ticks : /\ tick[t].budget \in 0..Cap
                                  /\ \A a \in Articles : Reserved(t, a)

LEMMA ChunkIs ==
  ASSUME ScanSetting, ScanTypes, NEW t \in Scan!Ticks
  PROVE  DOMAIN Scan!Chunk(t) \subseteq Nat \ {0} /\ Scan!ToSet(Scan!Chunk(t)) \subseteq Articles
<1> DEFINE L == tick[t].list  m == tick[t].at
           n == IF m + Concurrency - 1 < Len(L) THEN m + Concurrency - 1 ELSE Len(L)
<1>1. L \in Seq(Articles) /\ m \in Nat \ {0} /\ Len(L) \in Nat BY DEF ScanTypes, Tick
<1>2. n \in Int BY <1>1 DEF ScanSetting
<1>3. Scan!Chunk(t) = SubSeq(L, m, n) BY DEF Scan!Chunk
<1>4. Scan!ToSet(L) \subseteq Articles BY <1>1 DEF Scan!ToSet
<1>5. Scan!ToSet(Scan!Chunk(t)) \subseteq Articles BY <1>4, ChunkIsListed
<1> HIDE DEF L, m, n
<1>6. DOMAIN SubSeq(L, m, n) \subseteq Nat \ {0}
  <2>1. CASE n < m
    <3>1. SubSeq(L, m, n) = << >> BY <1>1, <1>2, <2>1
    <3> QED BY <3>1
  <2>2. CASE m <= n
    <3>1. DOMAIN SubSeq(L, m, n) = 1..(n - m + 1) BY <1>1, <1>2, <2>2
    <3> QED BY <1>1, <1>2, <3>1
  <2> QED BY <1>1, <1>2, <2>1, <2>2
<1> QED BY <1>3, <1>5, <1>6

\* As many articles as the first b places hold, at most.
LEMMA CallsFit ==
  ASSUME NEW c, DOMAIN c \subseteq Nat \ {0}, NEW b \in Nat,
         NEW S, \A a \in S : \E i \in DOMAIN c : c[i] = a /\ i <= b
  PROVE  Cardinality(S) \in Nat /\ Cardinality(S) <= b
<1> DEFINE T == {i \in 1..b : i \in DOMAIN c /\ c[i] \in S}
           f == [i \in T |-> c[i]]
<1>1. IsFiniteSet(1..b) /\ Cardinality(1..b) = b BY FS_Interval
<1>2. IsFiniteSet(T) /\ Cardinality(T) <= b BY <1>1, FS_Subset
<1>3. f \in [T -> S] OBVIOUS
<1>4. \A a \in S : \E i \in T : f[i] = a
  <2> TAKE a \in S
  <2>1. PICK i \in DOMAIN c : c[i] = a /\ i <= b OBVIOUS
  <2>2. i \in 1..b BY <2>1
  <2> QED BY <2>1, <2>2
<1>5. f \in Surjection(T, S) BY <1>3, <1>4 DEF Surjection
<1> HIDE DEF T, f
<1>6. IsFiniteSet(S) /\ Cardinality(S) <= Cardinality(T) BY <1>2, <1>5, FS_Surjection
<1>7. Cardinality(S) \in Nat /\ Cardinality(T) \in Nat BY <1>2, <1>6, FS_CardinalityType
<1> QED BY <1>2, <1>6, <1>7

LEMMA ReservedSame ==
  ASSUME NEW t, NEW a, tick'[t] = tick[t], job'[t][a] = job[t][a], Reserved(t, a)
  PROVE  Reserved(t, a)'
BY DEF Reserved, Granted, Scan!Chunk

\* The place that a step is given is one of its article.
LEMMA GrantIs ==
  ASSUME NEW t, NEW a \in Scan!ToSet(Scan!Chunk(t)),
         Scan!Grant(t, CHOOSE i \in DOMAIN Scan!Chunk(t) : Scan!Chunk(t)[i] = a) = 1
  PROVE  Granted(t, a)
<1> DEFINE k == CHOOSE i \in DOMAIN Scan!Chunk(t) : Scan!Chunk(t)[i] = a
<1>1. k \in DOMAIN Scan!Chunk(t) /\ Scan!Chunk(t)[k] = a BY DEF Scan!ToSet
<1> HIDE DEF k
<1>2. Scan!Grant(t, k) = 1 BY DEF k
<1>3. k <= tick[t].budget BY <1>2 DEF Scan!Grant
<1> QED BY <1>1, <1>3 DEF Granted

\* What a step of an instance does to the scan it works on.
LEMMA ReservedWork ==
  ASSUME ScanSetting, ScanTypes, NEW t \in Scan!Ticks, NEW a \in Articles, NEW pc,
         Works(t, a, pc), Reserved(t, a), tick' = tick
  PROVE  Reserved(t, a)'
<1>1. t \notin Requests /\ t \in Scan!Scanners BY DEF ScanSetting, Scan!Scanners
<1>2. a \in Scan!ToSet(Scan!Chunk(t)) BY WorkGoesOn DEF Reserved
<1>3. Goes(t, a, pc) BY <1>1, WorksDo
<1>4. job'[t][a].pc = pc /\ pc # "idle"
  <2>1. pc # "idle" BY <1>1 DEF Works
  <2> QED BY <1>1, <1>3, <2>1, GoesTypes
<1>5. job \in [Scan!Scanners -> [Articles -> Job]] /\ job[t][a] \in Job BY <1>1 DEF ScanTypes
<1>6. job'[t][a].grant = 1 \/ job'[t][a].used = 1 => Granted(t, a)
  <2>1. CASE Scan!Audit(t, a)
    <3>1. PICK r \in Scan!Audits(job[t][a].grant) :
            job' = [job EXCEPT ![t][a] = [pc |-> "audited", grant |-> 0,
                     advance |-> r.advance, used |-> IF t \in Requests THEN 0 ELSE r.used]]
      BY <2>1 DEF Scan!Audit
    <3>2. job'[t][a].grant = 0 /\ job'[t][a].used = r.used BY <1>1, <1>5, <3>1
    <3>3. r.used \in 0..job[t][a].grant /\ job[t][a].grant \in {0, 1}
      BY <1>5 DEF Scan!Audits, Job
    <3>4. r.used = 1 => job[t][a].grant = 1 BY <3>3
    <3> QED BY <3>2, <3>4 DEF Reserved
  <2>2. CASE Scan!Supersede(t, a) \/ Scan!InsertOpen(t, a)
    <3>1. \E p : job' = [job EXCEPT ![t][a].pc = p]
      BY <2>2 DEF Scan!Supersede, Scan!InsertOpen
    <3>2. job'[t][a].grant = job[t][a].grant /\ job'[t][a].used = job[t][a].used
      BY <1>1, <1>5, <3>1 DEF Job
    <3> QED BY <3>2 DEF Reserved
  <2>3. CASE Scan!PersistSchedule(t, a) \/ Scan!Throw(t, a)
    <3>1. PICK end : job' = [job EXCEPT ![t][a] = Scan!Ended(t, a, end)]
      BY <2>3 DEF Scan!PersistSchedule, Scan!Throw
    <3>2. job'[t][a] = Scan!Ended(t, a, end) BY <1>1, <1>5, <3>1
    <3>3. job'[t][a].grant = 0 /\ job'[t][a].used \in {0, job[t][a].used}
      BY <1>1, <3>2 DEF Scan!Ended, Scan!NoJob
    <3> QED BY <3>3 DEF Reserved
  <2>4. CASE Scan!Rerun(t, a)
    <3> DEFINE g == Scan!Grant(t, CHOOSE i \in DOMAIN Scan!Chunk(t) : Scan!Chunk(t)[i] = a)
    <3>1. job' = [job EXCEPT ![t][a] = [Scan!NoJob EXCEPT !.pc = "ready", !.grant = g]]
      BY <2>4 DEF Scan!Rerun
    <3> HIDE DEF g
    <3>2. job'[t][a].grant = g /\ job'[t][a].used = 0 BY <1>1, <1>5, <3>1 DEF Scan!NoJob
    <3>3. g = 1 => Granted(t, a) BY <1>2, GrantIs DEF g
    <3> QED BY <3>2, <3>3
  <2> QED BY <1>1, <2>1, <2>2, <2>3, <2>4 DEF Works
<1>7. Scan!Chunk(t)' = Scan!Chunk(t) /\ (Granted(t, a)' <=> Granted(t, a))
  BY DEF Scan!Chunk, Granted
<1> QED BY <1>2, <1>4, <1>6, <1>7 DEF Reserved

\* The calls of a chunk fit the budget.
LEMMA ChunkFits ==
  ASSUME ScanSetting, ScanTypes, NEW t \in Scan!Ticks, tick[t].budget \in 0..Cap,
         \A a \in Articles : Reserved(t, a),
         NEW S, \A a \in S : a \in Articles /\ job[t][a].used = 1
  PROVE  Scan!Cardinality(S) \in Nat /\ Scan!Cardinality(S) <= tick[t].budget
<1>1. \A a \in S : \E i \in DOMAIN Scan!Chunk(t) : Scan!Chunk(t)[i] = a /\ i <= tick[t].budget
  BY DEF Reserved, Granted
<1>2. tick[t].budget \in Nat BY DEF ScanSetting
<1>3. PICK c : c = Scan!Chunk(t) /\ DOMAIN c \subseteq Nat \ {0} BY ChunkIs
<1>4. PICK b \in Nat : b = tick[t].budget BY <1>2
<1>5. Cardinality(S) \in Nat /\ Cardinality(S) <= b BY <1>1, <1>3, <1>4, CallsFit
<1>6. Scan!Cardinality(S) = Cardinality(S) BY DEF Scan!Cardinality, Cardinality
<1> QED BY <1>4, <1>5, <1>6

LEMMA BudgetedStep ==
  ASSUME ScanSetting, ScanTypes, StepsAreListed, Budgeted, [Scan!Next]_(Scan!vars)
  PROVE  Budgeted'
<1> SUFFICES ASSUME NEW t \in Scan!Ticks
             PROVE  tick'[t].budget \in 0..Cap /\ \A a \in Articles : Reserved(t, a)'
  BY DEF Budgeted
<1>1. tick[t].budget \in 0..Cap /\ \A a \in Articles : Reserved(t, a) BY DEF Budgeted
<1>2. t \in Scan!Scanners /\ t \notin Requests BY DEF Scan!Scanners, ScanSetting
<1>3. tick[t].at \in Nat /\ Len(tick[t].list) \in Nat BY DEF ScanTypes, Tick
<1>4. ASSUME tick'[t] = tick[t], \A a \in Articles : job'[t][a] = job[t][a]
      PROVE  tick'[t].budget \in 0..Cap /\ \A a \in Articles : Reserved(t, a)'
  BY <1>1, <1>4, ReservedSame
<1>5. ASSUME \A a \in Articles : job[t][a].pc = "idle", job' = job
      PROVE  \A a \in Articles : Reserved(t, a)'
  <2> SUFFICES ASSUME NEW a \in Articles PROVE Reserved(t, a)' OBVIOUS
  <2>1. job[t][a].pc = "idle" /\ job[t][a].grant # 1 /\ job[t][a].used # 1
    BY <1>1, <1>5 DEF Reserved
  <2> QED BY <1>5, <2>1 DEF Reserved
<1>6. CASE \E r \in Scan!Ticks : Scan!CronScan(r) \/ Scan!ManualScan(r)
  <2>1. PICK r \in Scan!Ticks : Scan!CronScan(r) \/ Scan!ManualScan(r) BY <1>6
  <2>2. PICK list : Takes(r, list) BY <2>1, SelectionDoes
  <2>3. job' = job /\ ~tick[r].running BY <2>2 DEF Takes
  <2>4. CASE t = r
    <3>1. tick'[t].budget = Cap BY <2>2, <2>4 DEF Takes, ScanTypes
    <3>2. \A a \in Articles : job[t][a].pc = "idle" BY <2>3, <2>4 DEF StepsAreListed
    <3> QED BY <1>5, <2>3, <3>1, <3>2 DEF ScanSetting
  <2>5. CASE t # r
    <3>1. tick'[t] = tick[t] BY <2>2, <2>5, TakesTypes
    <3> QED BY <1>4, <2>3, <3>1
  <2> QED BY <2>4, <2>5
<1>7. CASE \E r \in Scan!Ticks : Scan!StartChunk(r)
  <2>1. PICK r \in Scan!Ticks : Scan!StartChunk(r) BY <1>7
  <2>2. tick' = tick BY <2>1 DEF Scan!StartChunk
  <2>3. CASE t # r
    <3>1. \E js : job' = [job EXCEPT ![r] = js] BY <2>1 DEF Scan!StartChunk
    <3>2. job'[t] = job[t] BY <1>2, <2>3, <3>1 DEF ScanTypes
    <3> QED BY <1>4, <2>2, <3>2
  <2>4. CASE t = r
    <3> SUFFICES ASSUME NEW a \in Articles PROVE Reserved(t, a)' BY <1>1, <2>2
    <3> DEFINE g == Scan!Grant(t, CHOOSE i \in DOMAIN Scan!Chunk(t) : Scan!Chunk(t)[i] = a)
               in == a \in Scan!ToSet(Scan!Chunk(t))
    <3>1. job'[t][a] = IF in THEN [Scan!NoJob EXCEPT !.pc = "ready", !.grant = g] ELSE Scan!NoJob
      <4> DEFINE js == [b \in Articles |->
                   IF b \in Scan!ToSet(Scan!Chunk(t))
                   THEN [Scan!NoJob EXCEPT !.pc = "ready",
                           !.grant = Scan!Grant(t, CHOOSE i \in DOMAIN Scan!Chunk(t) :
                                                     Scan!Chunk(t)[i] = b)]
                   ELSE Scan!NoJob]
      <4>0. Scan!StartChunk(t) BY <2>1, <2>4
      <4>1. job' = [job EXCEPT ![t] = js] BY <4>0 DEF Scan!StartChunk
      <4>2. js[a] = IF in THEN [Scan!NoJob EXCEPT !.pc = "ready", !.grant = g] ELSE Scan!NoJob
        OBVIOUS
      <4> HIDE DEF js
      <4>3. job'[t] = js BY <1>2, <4>1 DEF ScanTypes
      <4> QED BY <4>2, <4>3
    <3>2. in /\ g = 1 => Granted(t, a) BY GrantIs
    <3>3. Scan!Chunk(t)' = Scan!Chunk(t) /\ (Granted(t, a)' <=> Granted(t, a))
      BY <2>2 DEF Scan!Chunk, Granted
    <3> HIDE DEF g
    <3>4. CASE in
      <4>1. job'[t][a].pc = "ready" /\ job'[t][a].grant = g /\ job'[t][a].used = 0
        BY <3>1, <3>4 DEF Scan!NoJob
      <4> QED BY <3>2, <3>3, <3>4, <4>1 DEF Reserved
    <3>5. CASE ~in
      <4>1. job'[t][a].pc = "idle" /\ job'[t][a].grant = 0 /\ job'[t][a].used = 0
        BY <3>1, <3>5 DEF Scan!NoJob
      <4> QED BY <4>1 DEF Reserved
    <3> QED BY <3>4, <3>5
  <2> QED BY <2>3, <2>4
<1>8. CASE \E r \in Scan!Ticks : Scan!EndChunk(r)
  <2>1. PICK r \in Scan!Ticks : Scan!EndChunk(r) BY <1>8
  <2>2. CASE t # r
    <3>1. job'[t] = job[t] BY <2>1, <2>2 DEF Scan!EndChunk, ScanTypes
    <3>2. tick'[t] = tick[t] BY <2>1, <2>2, EndsTypes
    <3> QED BY <1>4, <3>1, <3>2
  <2>3. CASE t = r
    <3>1. \A a \in Articles : job'[t][a] = Scan!NoJob
      BY <1>2, <2>1, <2>3 DEF Scan!EndChunk, ScanTypes
    <3>2. \A a \in Articles : Reserved(t, a)' BY <3>1 DEF Reserved, Scan!NoJob
    <3>3. Scan!UsedThisChunk(t) \in Nat /\ Scan!UsedThisChunk(t) <= tick[t].budget
      <4> DEFINE S == {a \in Scan!ToSet(Scan!Chunk(t)) : job[t][a].used = 1}
      <4>1. \A a \in S : a \in Articles /\ job[t][a].used = 1
        <5>1. Scan!ToSet(Scan!Chunk(t)) \subseteq Articles BY ChunkIs
        <5> QED BY <5>1
      <4> HIDE DEF S
      <4>2. Scan!Cardinality(S) \in Nat /\ Scan!Cardinality(S) <= tick[t].budget
        BY <1>1, <4>1, ChunkFits
      <4> QED BY <4>2 DEF S, Scan!UsedThisChunk
    <3>4. PICK B : tick \in [Scan!Ticks -> Tick(B)] BY DEF ScanTypes
    <3>5. tick'[t].budget = tick[t].budget - Scan!UsedThisChunk(t)
      <4> DEFINE u == Scan!UsedThisChunk(t)
      <4>1. tick' = [tick EXCEPT ![t].at = @ + Concurrency, ![t].budget = @ - u]
        BY <2>1, <2>3 DEF Scan!EndChunk
      <4> HIDE DEF u
      <4>2. tick[t] \in Tick(B) BY <3>4
      <4>3. tick'[t].budget = tick[t].budget - u BY <3>4, <4>1, <4>2 DEF Tick
      <4> QED BY <4>3 DEF u
    <3>6. tick'[t].budget \in 0..Cap BY <1>1, <3>3, <3>5 DEF ScanSetting
    <3> QED BY <3>2, <3>6
  <2> QED BY <2>2, <2>3
<1>9. CASE \E r \in Scan!Ticks : Scan!EndTick(r)
  <2>1. PICK r \in Scan!Ticks : Scan!EndTick(r) BY <1>9
  <2>2. job' = job /\ tick[r].at > Len(tick[r].list) BY <2>1 DEF Scan!EndTick
  <2>3. CASE t # r
    <3>1. tick'[t] = tick[t] BY <2>1, <2>3, EndsTypes
    <3> QED BY <1>4, <2>2, <3>1
  <2>4. CASE t = r
    <3>1. ~(tick[t].at <= Len(tick[t].list)) BY <1>3, <2>2, <2>4
    <3>2. \A a \in Articles : job[t][a].pc = "idle" BY <3>1 DEF StepsAreListed
    <3>3. tick'[t].budget = 0 BY <2>1, <2>4 DEF Scan!EndTick, Scan!NoTick, ScanTypes
    <3> QED BY <1>5, <2>2, <3>2, <3>3 DEF ScanSetting
  <2> QED BY <2>3, <2>4
<1>10. CASE \E s \in Scan!Scanners, b \in Articles, pc \in ScanPc : Works(s, b, pc)
  <2>1. PICK s \in Scan!Scanners, b \in Articles, pc \in ScanPc : Works(s, b, pc) BY <1>10
  <2>2. Goes(s, b, pc) BY <2>1, WorksDo
  <2>3. tick' = tick BY <2>2 DEF Goes
  <2> SUFFICES ASSUME NEW a \in Articles PROVE Reserved(t, a)' BY <1>1, <2>3
  <2>4. CASE t = s /\ a = b BY <1>1, <2>1, <2>3, <2>4, ReservedWork
  <2>5. CASE t # s \/ a # b
    <3>1. job'[t][a] = job[t][a] BY <1>2, <2>2, <2>5, GoesTypes
    <3> QED BY <1>1, <2>3, <3>1, ReservedSame
  <2> QED BY <2>4, <2>5
<1>11. CASE \E b \in Articles : OfArticle(b)
  <2>1. job' = job /\ tick' = tick BY <1>11, ArticlesDo
  <2> QED BY <1>4, <2>1
<1>12. CASE UNCHANGED Scan!vars BY <1>4, <1>12 DEF Scan!vars
<1> QED BY <1>6, <1>7, <1>8, <1>9, <1>10, <1>11, <1>12, KindsOfWork

\* A page that passed has the score of its age and of one finding at most.
LEMMA PassedStays == Scan!PassedIsNotRefreshed
<1> SUFFICES ASSUME NEW p \in Scan!Pages, NEW age \in Scan!Ages, Scan!Passed(p)
             PROVE  Scan!Recommended(p, "skipped", age) # "refresh"
  BY DEF Scan!PassedIsNotRefreshed
<1> DEFINE m == Scan!SeverityMedium(p)
           term == IF age >= 180 THEN 400 ELSE (400 * age) \div 180
<1>1. p.broken \in Nat /\ Scan!HeadingSkip(p) \in {0, 1} BY DEF Scan!Pages, Scan!HeadingSkip
<1>2. m \in Nat /\ m <= 1 /\ Scan!SeverityHigh(p) = 0
  BY <1>1 DEF Scan!SeverityMedium, Scan!Passed
<1>3. age \in Nat BY DEF Scan!Ages
<1>4. term \in Nat /\ term <= 400
  <2>1. CASE age >= 180 BY <1>3, <2>1
  <2>2. CASE age < 180
    <3>1. (400 * age) \div 180 \in Nat /\ (400 * age) \div 180 <= 400 BY <1>3, <2>2
    <3> QED BY <1>3, <2>2, <3>1
  <2> QED BY <1>3, <2>1, <2>2
<1> HIDE DEF m, term
<1>5. Scan!Score(0, m, "skipped", age) = term + 50 * m
  <2>1. term + 200 * 0 + 50 * m + 0 = term + 50 * m /\ ~(term + 50 * m > 1000) BY <1>2, <1>4
  <2> QED BY <2>1 DEF Scan!Score, term
<1>6. Scan!Score(Scan!SeverityHigh(p), Scan!SeverityMedium(p), "skipped", age) < 600
  BY <1>2, <1>4, <1>5 DEF m
<1>7. term + 50 * m \in Nat BY <1>2, <1>4
<1>8. ~(Scan!Score(Scan!SeverityHigh(p), Scan!SeverityMedium(p), "skipped", age) >= 600)
  BY <1>2, <1>4, <1>5, <1>7 DEF m
<1> QED BY <1>2, <1>8 DEF Scan!Recommended

-----------------------------------------------------------------------------
(* The theorems. *)

LEMMA ScanInit == ASSUME ScanSetting, Scan!Init PROVE ScanInv
<1>1. Scan!NoJob \in Job /\ Scan!NoJob.pc = "idle" BY DEF Scan!NoJob, Job, ScanPc
<1>2. Scan!NoTick \in Tick({0}) /\ ~Scan!NoTick.running BY DEF Scan!NoTick, Tick
<1>3. \A s \in Scan!Scanners, a \in Articles : job[s][a] = Scan!NoJob BY DEF Scan!Init
<1>4. \A t \in Scan!Ticks : tick[t] = Scan!NoTick BY DEF Scan!Init
<1>5. job \in [Scan!Scanners -> [Articles -> Job]] BY <1>1 DEF Scan!Init
<1>6. tick \in [Scan!Ticks -> Tick({0})] BY <1>2 DEF Scan!Init
<1>7. open \in [Articles -> Nat] /\ \A a \in Articles : open[a] = 0 BY DEF Scan!Init
<1>8. dismissed \in [Articles -> {"no", "marking", "active", "past"}] BY DEF Scan!Init
<1>9. ScanTypes BY <1>5, <1>6, <1>7, <1>8 DEF ScanTypes
<1>10. StepsAreListed
  <2>1. \A t \in Scan!Ticks : t \in Scan!Scanners BY DEF Scan!Scanners
  <2> QED BY <2>1, <1>1, <1>3 DEF StepsAreListed
<1>11. \A a \in Articles : OneAtMost(a) BY <1>1, <1>3, <1>7 DEF OneAtMost
<1>12. \A a \in Articles : Undisturbed(a) BY DEF Undisturbed, Scan!Snoozing, Scan!Init
<1> QED BY <1>9, <1>10, <1>11, <1>12 DEF ScanInv

LEMMA ScanInvStep == ASSUME ScanSetting, ScanInv, [Scan!Next]_(Scan!vars) PROVE ScanInv'
<1>1. CASE Scan!Next
  <2>1. ScanTypes /\ StepsAreListed /\ \A a \in Articles : OneAtMost(a) /\ Undisturbed(a)
    BY DEF ScanInv
  <2>2. ScanTypes' /\ StepsAreListed' BY <1>1, <2>1, ScanTypesStep, ListedStep
  <2>3. \A a \in Articles : OneAtMost(a)' BY <1>1, <2>1, <2>2, OneAtMostStep
  <2>4. \A a \in Articles : Undisturbed(a)' BY <1>1, <2>1, <2>2, UndisturbedStep
  <2> QED BY <2>2, <2>3, <2>4 DEF ScanInv
<1>2. CASE UNCHANGED Scan!vars
  <2>1. ScanTypes' /\ StepsAreListed' BY <1>2 DEF Scan!vars, ScanInv, ScanTypes, StepsAreListed
  <2>2. \A a \in Articles : (OneAtMost(a)' <=> OneAtMost(a)) /\ (Undisturbed(a)' <=> Undisturbed(a))
    BY <1>2 DEF Scan!vars, OneAtMost, Undisturbed, Scan!Snoozing, Scan!Scanning, Scan!Selected
  <2> QED BY <2>1, <2>2 DEF ScanInv
<1> QED BY <1>1, <1>2

LEMMA ScanAlways == ASSUME ScanSetting PROVE Scan!Spec => [](ScanInv /\ Budgeted)
<1>1. Scan!Init => ScanInv BY ScanInit
<1>2. ASSUME Scan!Init PROVE Budgeted
  <2>1. \A t \in Scan!Ticks : tick[t] = Scan!NoTick /\ \A a \in Articles : job[t][a] = Scan!NoJob
    <3>1. \A t \in Scan!Ticks : t \in Scan!Scanners BY DEF Scan!Scanners
    <3> QED BY <1>2, <3>1 DEF Scan!Init
  <2>2. \A t \in Scan!Ticks, a \in Articles : Reserved(t, a)
    BY <2>1 DEF Reserved, Scan!NoJob
  <2>3. \A t \in Scan!Ticks : tick[t].budget \in 0..Cap BY <2>1 DEF Scan!NoTick, ScanSetting
  <2> QED BY <2>2, <2>3 DEF Budgeted
<1>3. ScanInv /\ [Scan!Next]_(Scan!vars) => ScanInv' BY ScanInvStep
<1>4. ScanInv /\ Budgeted /\ [Scan!Next]_(Scan!vars) => Budgeted' BY BudgetedStep DEF ScanInv
<1> QED BY <1>1, <1>2, <1>3, <1>4, PTL DEF Scan!Spec

\* The refresh list is true: superseding and inserting are two statements
\* (refresh/scanner.ts:141-164), yet only of an article that two scans were between the two
\* of are two evaluations open; a dismissed article keeps none, whatever ticks, chunks, reruns
\* and routes do, unless it was scanned by name, selected before, open twice, or its dismissal
\* died half-way (db/articles.ts:376-424); the scans of a chunk use no more LLM calls than the
\* chunks before it left (workflows/refresh_scan.ts:92-121); and a page that passed the
\* deterministic audit is never recommended (refresh/evaluator.ts).
THEOREM RefreshListStaysTrue ==
  ASSUME ScanSetting PROVE Scan!Spec => [](Scan!RefreshListIsTrue /\ Scan!PassedIsNotRefreshed)
<1>1. ASSUME ScanInv PROVE Scan!OneOpenEvaluation
  <2> SUFFICES ASSUME NEW a \in Articles, open[a] > 1 PROVE a \in overlap
    BY DEF Scan!OneOpenEvaluation
  <2>1. open[a] \in Nat BY <1>1 DEF ScanInv, ScanTypes
  <2> QED BY <1>1, <2>1 DEF ScanInv, OneAtMost
<1>2. ASSUME ScanInv PROVE Scan!DismissedIsQuiet
  <2> SUFFICES ASSUME NEW a \in Articles, dismissed[a] = "active", open[a] > 0
               PROVE  a \in excused
    BY DEF Scan!DismissedIsQuiet
  <2>1. open[a] \in Nat BY <1>2 DEF ScanInv, ScanTypes
  <2> QED BY <1>2, <2>1 DEF ScanInv, Undisturbed, Scan!Snoozing
<1>3. ASSUME ScanInv, Budgeted PROVE Scan!CapIsKept
  <2> SUFFICES ASSUME NEW t \in Scan!Ticks
               PROVE  Scan!Cardinality({a \in Articles : job[t][a].used = 1}) <= tick[t].budget
    BY DEF Scan!CapIsKept
  <2>1. ScanTypes /\ tick[t].budget \in 0..Cap /\ \A a \in Articles : Reserved(t, a)
    BY <1>3 DEF ScanInv, Budgeted
  <2> DEFINE S == {a \in Articles : job[t][a].used = 1}
  <2>2. \A a \in S : a \in Articles /\ job[t][a].used = 1 OBVIOUS
  <2> HIDE DEF S
  <2>3. Scan!Cardinality(S) <= tick[t].budget BY <2>1, <2>2, ChunkFits
  <2> QED BY <2>3 DEF S
<1>4. ScanInv /\ Budgeted => Scan!RefreshListIsTrue /\ Scan!PassedIsNotRefreshed
  BY <1>1, <1>2, <1>3, PassedStays DEF Scan!RefreshListIsTrue
<1> QED BY <1>4, ScanAlways, PTL
=============================================================================
