----------------------------- MODULE MCWorkflows ------------------------------
(***************************************************************************)
(* Small instances for TLC of the two other workflows, and of the run in   *)
(* the Python backend, which a run explores one beside the other:          *)
(*   - expansion: a whole topic batch of two topics, one request           *)
(*     (MCDecisions has the races of two);                                 *)
(*   - contended: one article, a tick that somebody asked for, a scan by   *)
(*     the route, two dismissals, two faults;                              *)
(*   - chunked: two articles in one chunk, with less budget than articles; *)
(*   - crowded: more due articles than a batch takes;                      *)
(*   - accidents: a run of the Python backend, two requests, a statement   *)
(*     that fails and a loss of the process (MCDecisions has three         *)
(*     requests), in the variables of RunExecutor.                         *)
(* The other instances keep their state in s1, ..., s11.                   *)
(***************************************************************************)
EXTENDS RunExecutor

CONSTANTS r1, r2, NoRun, a1, a2, cron, manual, request

VARIABLES scene, s1, s2, s3, s4, s5, s6, s7, s8, s9, s10, s11
shared == <<s1, s2, s3, s4, s5, s6, s7, s8, s9, s10, s11>>

Expansion == INSTANCE TopicBatch WITH
    Requests <- {r1}, Topics <- 2, Concurrency <- 2, MaxCandidates <- 3,
    MaxRuns <- 2, MaxFaults <- 1, MaxVerdicts <- 1,
    batch <- s1, cand <- s2, runs <- s3, wf <- s4, req <- s5, page <- s6, faults <- s7,
    verdicts <- s8, closed <- s9, contested <- s10, reported <- s11
Contended == INSTANCE RefreshScan WITH
    Articles <- {a1}, CronTicks <- {}, ManualTicks <- {manual},
    Requests <- {request}, Concurrency <- 2, BatchSize <- 2, Cap <- 1,
    MaxFaults <- 2, MaxDismissals <- 2,
    queue <- s1, snoozed <- s2, dismissed <- s3, inflight <- s4, open <- s5, tick <- s6,
    job <- s7, faults <- s8, dismissals <- s9, overlap <- s10, excused <- s11
Chunked == INSTANCE RefreshScan WITH
    Articles <- {a1, a2}, CronTicks <- {cron}, ManualTicks <- {}, Requests <- {},
    Concurrency <- 2, BatchSize <- 2, Cap <- 1, MaxFaults <- 1, MaxDismissals <- 0,
    queue <- s1, snoozed <- s2, dismissed <- s3, inflight <- s4, open <- s5, tick <- s6,
    job <- s7, faults <- s8, dismissals <- s9, overlap <- s10, excused <- s11
Crowded == INSTANCE RefreshScan WITH
    Articles <- {a1, a2}, CronTicks <- {cron}, ManualTicks <- {}, Requests <- {},
    Concurrency <- 1, BatchSize <- 1, Cap <- 1, MaxFaults <- 0, MaxDismissals <- 1,
    queue <- s1, snoozed <- s2, dismissed <- s3, inflight <- s4, open <- s5, tick <- s6,
    job <- s7, faults <- s8, dismissals <- s9, overlap <- s10, excused <- s11

Unused == /\ s1 = 0 /\ s2 = 0 /\ s3 = 0 /\ s4 = 0 /\ s5 = 0 /\ s6 = 0 /\ s7 = 0
          /\ s8 = 0 /\ s9 = 0 /\ s10 = 0 /\ s11 = 0
\* In the other scenes the run of the Python backend is one that was deleted.
Deleted ==
    /\ row = [exists |-> FALSE] /\ derived = "none"
    /\ cp = NoThread /\ task = NoTask /\ req = [r \in Requests |-> Idle]
    /\ opened = {} /\ asked = 0 /\ revised = 0
    /\ contested = FALSE /\ crossed = FALSE /\ excused = FALSE
    /\ posts = 0 /\ faults = 0 /\ crashes = 0
WorkflowsInit ==
    \/ scene = "accidents" /\ Init /\ Unused
    \/ /\ Deleted
       /\ \/ scene = "expansion" /\ Expansion!Init
          \/ scene = "contended" /\ Contended!Init
          \/ scene = "chunked" /\ Chunked!Init
          \/ scene = "crowded" /\ Crowded!Init
WorkflowsNext ==
    /\ UNCHANGED scene
    /\ \/ scene = "accidents" /\ Next /\ UNCHANGED shared
       \/ /\ UNCHANGED vars
          /\ \/ scene = "expansion" /\ Expansion!Next
             \/ scene = "contended" /\ Contended!Next
             \/ scene = "chunked" /\ Chunked!Next
             \/ scene = "crowded" /\ Crowded!Next

\* The fairness of TopicBatch, RefreshScan and RunExecutor, for the instances whose
\* liveness is checked; a behaviour stays in its scene, so one condition serves them all.
all == <<scene, vars, shared>>
In(name) == scene = name /\ UNCHANGED <<scene, vars>>
InRun == scene = "accidents" /\ UNCHANGED <<scene, shared>>
Fairness ==
    /\ WF_all(\/ In("expansion") /\ Expansion!Workflow
              \/ In("chunked") /\ Chunked!CronScan(cron)
              \/ In("crowded") /\ Crowded!CronScan(cron)
              \/ InRun /\ TaskStep)
    /\ WF_all(\/ In("expansion") /\ Expansion!Poll
              \/ In("chunked") /\ Chunked!TickStep(cron)
              \/ In("crowded") /\ Crowded!TickStep(cron)
              \/ InRun /\ Handler(r1))
    /\ WF_all(InRun /\ Handler(r2))
    /\ \A a \in {a1, a2} :
        WF_all(\/ In("chunked") /\ Chunked!ScanStep(cron, a)
               \/ In("crowded") /\ Crowded!ScanStep(cron, a))

FairSpec == WorkflowsInit /\ [][WorkflowsNext]_all /\ Fairness

-----------------------------------------------------------------------------
\* A launched batch comes to rest and its page stops waiting:
\* TopicBatch!BatchSettles.
BatchSettles ==
    (scene = "expansion" /\ Expansion!Launched)
        ~> \/ scene = "expansion" /\ s1 = "deleted"
           \/ [](scene = "expansion" /\ Expansion!Rests)

\* What the desk is shown is true.  The status of a batch follows its candidates: one up for
\* review has a verdict to review, a promoted candidate names a run of its own, and a run
\* without an instance was reported (TopicBatch!StatusFollowsCandidates).  And the
\* refresh list tells the truth, whatever scans and dismissals overlap: an
\* article has one open evaluation at most and a dismissed one has none, except in
\* the named races, and a page that passed the deterministic audit is never
\* recommended; and the scans of a chunk never use more LLM calls than the chunks before
\* it left of the cap (RefreshScan!RefreshListIsTrue,
\* PassedIsNotRefreshed).
ListsAreTrue ==
    /\ scene = "expansion" => Expansion!TypeOK /\ Expansion!StatusFollowsCandidates
    /\ scene = "contended" =>
        Contended!TypeOK /\ Contended!RefreshListIsTrue /\ Contended!PassedIsNotRefreshed
    /\ scene = "chunked" => Chunked!TypeOK /\ Chunked!RefreshListIsTrue
    /\ scene = "crowded" => Crowded!TypeOK

\* A due article that nothing holds back is scanned in the end, or a whole
\* batch of longer overdue ones stays in front of it: RefreshScan!DueIsScanned.
Due(a) == \/ scene = "chunked" /\ Chunked!Waits(a)
          \/ scene = "crowded" /\ Crowded!Waits(a)
DueIsScanned == \A a \in {a1, a2} : Due(a) ~> ~Due(a)
=============================================================================
