------------------------------ MODULE MCDecisions ------------------------------
(***************************************************************************)
(* Instances for TLC of decisions that are taken in two places at once,    *)
(* which a run explores one beside the other:                              *)
(*   - sites: a run whose instance waits on one deployment is decided on   *)
(*     by another, one request at a time (ProductionRun);                  *)
(*   - topics: a batch of one topic, two requests that promote, skip and   *)
(*     ask again, in the variables of TopicBatch (MCWorkflows has the      *)
(*     larger batch);                                                      *)
(*   - python: a run of the Python backend and three requests, two at a    *)
(*     time, with two rounds of revision (RunExecutor).                    *)
(* The other instances keep their state in as many of s1, ..., s14 as they *)
(* need.                                                                   *)
(***************************************************************************)
EXTENDS TopicBatch, TLC

CONSTANTS d1, d2, c1, c2, r1, r2

VARIABLES scene, s1, s2, s3, s4, s5, s6, s7, s8, s9, s10, s11, s12, s13, s14
shared == <<s1, s2, s3, s4, s5, s6, s7, s8, s9, s10, s11, s12, s13, s14>>

Sites == INSTANCE ProductionRun WITH
    Deployments <- {d1, d2}, Clients <- {c1, c2}, MaxIterations <- 2, MaxRounds <- 1,
    MaxPosts <- 3, MaxRestarts <- 0, OrderlyDesk <- TRUE, LateEdits <- FALSE,
    row <- s1, drafts <- s2, texts <- s3, wf <- s4, req <- s5, live <- s6, log <- s7,
    seen <- s8, decided <- s9, posts <- s10, restarts <- s11
Python == INSTANCE RunExecutor WITH
    Requests <- {r1, r2}, Cap <- 2, MaxPosts <- 3, MaxFaults <- 0, MaxCrashes <- 0,
    row <- s1, derived <- s2, cp <- s3, task <- s4, req <- s5, opened <- s6, asked <- s7,
    revised <- s8, contested <- s9, crossed <- s10, excused <- s11, posts <- s12,
    faults <- s13, crashes <- s14

\* The two deployments are interchangeable, and so are their clients.
SiteSymmetry == Permutations({c1, c2}) \cup Permutations({d1, d2})

Unused == /\ s1 = 0 /\ s2 = 0 /\ s3 = 0 /\ s4 = 0 /\ s5 = 0 /\ s6 = 0 /\ s7 = 0
          /\ s8 = 0 /\ s9 = 0 /\ s10 = 0 /\ s11 = 0 /\ s12 = 0 /\ s13 = 0 /\ s14 = 0
Spare == s12 = 0 /\ s13 = 0 /\ s14 = 0
DecisionsInit ==
    /\ Init
    /\ \/ scene = "sites" /\ Sites!Init /\ Spare
       \/ scene = "topics" /\ Unused
       \/ scene = "python" /\ Python!Init
DecisionsNext ==
    /\ UNCHANGED scene
    /\ \/ scene = "topics" /\ Next /\ UNCHANGED shared
       \/ /\ UNCHANGED vars
          /\ \/ scene = "sites" /\ Sites!Next /\ UNCHANGED <<s12, s13, s14>>
             \/ scene = "python" /\ Python!Next
DecisionsSpec == DecisionsInit /\ [][DecisionsNext]_<<scene, vars, shared>>

\* Bound: on two deployments the revision writes one draft, the first round up to two.
OneRevisedDraft ==
    scene = "sites" => \A d \in {d1, d2} : s4[d].round = 1 => s4[d].iter = 0

-----------------------------------------------------------------------------
\* What was decided at gate 2 is what was done: on two deployments what is published was
\* seen by its approver (ProductionRun!PublishedWasSeen); in the Python executor the graph
\* does what was decided, and a run in flight has a task or a request about to start
\* it (RunExecutor!DecisionIsDone, RunIsDriven, GateIsParked).
DecisionIsDone ==
    /\ scene = "sites" => Sites!PublishedWasSeen
    /\ scene = "python" =>
        /\ Python!TypeOK /\ Python!DecisionIsDone
        /\ Python!RunIsDriven /\ Python!GateIsParked
=============================================================================
