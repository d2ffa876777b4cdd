----------------------------- MODULE RunExecutor ------------------------------
(***************************************************************************)
(* One run in the Python reference backend: the task that drives its       *)
(* graph (RunExecutor in content_tool/api/sse.py), the graph's nodes and   *)
(* gates (content_tool/graph/), and the requests that start, resume,       *)
(* restart, publish and delete it (content_tool/api/routes/runs.py).       *)
(*                                                                         *)
(* Unlike the Workers, the process holds the task in memory: a gate is a   *)
(* checkpoint with no task, the row's status is mirrored by the task, and  *)
(* a start that the process loses must be found again when it boots.       *)
(* A request is split where another coroutine can run.                     *)
(***************************************************************************)
EXTENDS Naturals

CONSTANTS
    Requests,    \* requests in flight at once
    Cap,         \* revision rounds of a run
    MaxPosts,    \* requests altogether
    MaxFaults,   \* statements that fail
    MaxCrashes   \* losses of the process

VARIABLES
    row,         \* what steers the run in content_tool.runs
    derived,     \* what its nodes have stored: "none", "outline" or "draft"
    cp,          \* the checkpoint of its graph, in Postgres
    task,        \* the entry of RunExecutor._tasks, in memory
    req,         \* the requests' handlers
    opened,      \* history: the gates that some page has shown
    asked,       \* history: the revisions that were recorded
    revised,     \* history: the revisions that were begun
    contested,   \* history: a decision was recorded away from an open, idle gate 2, or a
                 \* counter that was read was written back over another one
    crossed,     \* history: an answer to gate 1 reached the graph elsewhere
    excused,     \* history: a write was lost in one of the ways that strand a run
    posts, faults, crashes

vars == <<row, derived, cp, task, req, opened, asked, revised, contested, crossed,
          excused, posts, faults, crashes>>

_IN_FLIGHT_STATUSES == {"pending", "strategy", "production", "publishing"}
_IN_MOTION_STATUSES == _IN_FLIGHT_STATUSES \ {"publishing"}
Gates == {"hitl_1", "hitl_2"}
Decisions == {"approve", "reject", "request_changes"}

\* A checkpoint: the node that runs next, and the channels that route it. filled says
\* that the initial state is in it.
NoThread == [next |-> "none", d2 |-> "none", round |-> 0, status |-> "pending", filled |-> FALSE]

\* A task: where it is, and the state update that it was started with.
NoTask == [pc |-> "none", resume |-> FALSE, gate |-> "none", d2 |-> "none", round |-> 0]
Live == task.pc # "none"

Idle == [pc |-> "idle", gate |-> "none", decision |-> "none", prior |-> 0, round |-> 0]

Run == [exists : BOOLEAN,
        status : _IN_FLIGHT_STATUSES \cup Gates
                   \cup {"published", "rejected", "changes_requested", "failed"},
        start : {"create", "refresh"}, auto_accept_hitl1 : BOOLEAN,
        d2 : Decisions \cup {"none"}, approver : BOOLEAN, pin : BOOLEAN,
        round : Nat, post : BOOLEAN]
Checkpoint == [next : {"none", "strategy", "production", "publish", "revise", "end"},
               d2 : Decisions \cup {"none"}, round : Nat,
               status : {"pending", "revising", "published", "rejected", "changes_requested"},
               filled : BOOLEAN]
Task == [pc : {"none", "begin", "status", "node", "push", "settle", "failing", "flush"},
         resume : BOOLEAN, gate : Gates \cup {"none"},
         d2 : Decisions \cup {"none"}, round : Nat]
Handling == [pc : {"idle", "start", "commit", "deliver", "wipe", "relaunch", "rows", "push",
                   "regenerate"},
             gate : Gates \cup {"none"}, decision : Decisions \cup {"none"},
             prior : Nat, round : Nat]

TypeOK ==
    /\ row \in Run /\ derived \in {"none", "outline", "draft"}
    /\ cp \in Checkpoint /\ task \in Task /\ req \in [Requests -> Handling]
    /\ opened \subseteq Gates /\ asked \in Nat /\ revised \in Nat

Counters == <<posts, faults, crashes>>
History == <<opened, asked, revised, contested, crossed>>

\* POST /runs has committed the row; its handler is about to start the executor.
Init ==
    /\ \E start \in {"create", "refresh"}, auto \in BOOLEAN :
         row = [exists |-> TRUE, status |-> "pending", start |-> start,
                auto_accept_hitl1 |-> auto, d2 |-> "none", approver |-> FALSE,
                pin |-> FALSE, round |-> 0, post |-> FALSE]
    /\ derived = "none" /\ cp = NoThread /\ task = NoTask
    /\ \E r \in Requests : req = [q \in Requests |-> IF q = r THEN [Idle EXCEPT !.pc = "start"] ELSE Idle]
    /\ opened = {} /\ asked = 0 /\ revised = 0
    /\ contested = FALSE /\ crossed = FALSE /\ excused = FALSE
    /\ posts = 0 /\ faults = 0 /\ crashes = 0

-----------------------------------------------------------------------------
(* The task: RunExecutor._run.                                             *)

Stored(s) == IF row.exists THEN [row EXCEPT !.status = s] ELSE row

\* _set_status: an UPDATE whose failure is logged and forgotten.
SetStatus(s) ==
    \/ row' = Stored(s) /\ UNCHANGED <<faults, excused>>
    \/ /\ faults < MaxFaults
       /\ faults' = faults + 1 /\ excused' = TRUE
       /\ UNCHANGED row

To(pc) == task' = [task EXCEPT !.pc = pc]

\* aupdate_state: the values are written as if by the node that ran last, whose edge
\* decides again; on a thread that was never started that is the entry.
Updated ==
    LET told == IF task.gate = "hitl_2"
                THEN [cp EXCEPT !.d2 = task.d2, !.round = task.round,
                                !.status = IF task.d2 = "reject" THEN "rejected" ELSE cp.status]
                ELSE cp
    IN  [told EXCEPT !.next = IF cp.next = "none" THEN "strategy"
                              ELSE IF cp.next = "revise" /\ told.status # "revising" THEN "end"
                              ELSE cp.next]

\* A fresh run builds its initial state from the row, which may be gone by now.
Begin ==
    /\ task.pc = "begin"
    /\ IF task.resume
       THEN cp' = Updated /\ To("status")
       ELSE UNCHANGED cp /\ To(IF row.exists THEN "status" ELSE "failing")
    /\ UNCHANGED <<row, derived, req, excused>> /\ UNCHANGED History /\ UNCHANGED Counters

\* The status of the node that is about to run; a graph that has ended runs none.
Running == /\ task.pc = "status"
           /\ UNCHANGED <<derived, req, posts, crashes>> /\ UNCHANGED History
StartFresh ==
    /\ Running /\ ~task.resume
    /\ SetStatus("strategy")
    /\ cp' = [NoThread EXCEPT !.next = "strategy", !.filled = TRUE]
    /\ To("node")
Continue ==
    /\ Running /\ task.resume /\ UNCHANGED cp
    /\ IF cp.next = "end"
       THEN To("settle") /\ UNCHANGED <<row, faults, excused>>
       ELSE /\ SetStatus(IF cp.next = "publish" THEN "publishing" ELSE "production")
            /\ To("node")

Node(n) == /\ task.pc = "node" /\ cp.next \in n
           /\ UNCHANGED <<req, opened, asked, contested, crossed, excused>> /\ UNCHANGED Counters

\* The strategy graph reads the row by the run_id of its state; gate 1 comes before
\* production.
Strategy ==
    /\ Node({"strategy"})
    /\ IF row.exists /\ cp.filled
       THEN derived' = "outline" /\ cp' = [cp EXCEPT !.next = "production"] /\ To("settle")
       ELSE To("failing") /\ UNCHANGED <<derived, cp>>
    /\ UNCHANGED <<row, revised>>

\* The production graph, under either name; gate 2 comes before publish_or_revise.
Produce ==
    /\ Node({"production", "revise"})
    /\ IF row.exists /\ cp.filled /\ derived # "none"
       THEN derived' = "draft" /\ cp' = [cp EXCEPT !.next = "publish"] /\ To("settle")
       ELSE To("failing") /\ UNCHANGED <<derived, cp>>
    /\ UNCHANGED <<row, revised>>

\* Fault for a mutant: no cap in the graph.
DispatchUncapped ==
    /\ Node({"publish"}) /\ cp.d2 # "approve"
    /\ IF cp.d2 = "reject"
       THEN cp' = [cp EXCEPT !.next = "end", !.status = "rejected"] /\ To("settle") /\ UNCHANGED revised
       ELSE cp' = [cp EXCEPT !.next = "revise", !.status = "revising"] /\ revised' = revised + 1 /\ UNCHANGED task
    /\ UNCHANGED <<row, derived>>

\* n_publish_or_revise: whatever is neither an approval nor a rejection asks for a
\* revision, also no decision at all.
Dispatch ==
    /\ Node({"publish"}) /\ cp.d2 # "approve"
    /\ \/ /\ cp.d2 = "reject" \/ cp.round >= Cap
          /\ cp' = [cp EXCEPT !.next = "end",
                              !.status = IF cp.d2 = "reject" THEN "rejected" ELSE "changes_requested"]
          /\ To("settle") /\ UNCHANGED revised
       \/ /\ cp.d2 # "reject" /\ cp.round < Cap
          /\ cp' = [cp EXCEPT !.next = "revise", !.status = "revising"]
          /\ revised' = revised + 1 /\ UNCHANGED task
    /\ UNCHANGED <<row, derived>>

\* publish_to_wordpress: a refresh without a post of its own needs the pin of its
\* approval and the target that was pinned; otherwise the approval is void.
NeedsPin == row.start = "refresh" /\ ~row.post
Voided == [row EXCEPT !.d2 = "none", !.approver = FALSE, !.pin = FALSE]
\* An executor without a WordPress client (graph/root.py:49) is not modelled: the
\* program always builds one (main.py:89).
PublishLoad ==
    /\ Node({"publish"}) /\ cp.d2 = "approve"
    /\ \/ row.exists /\ derived = "draft" /\ (NeedsPin => row.pin) /\ To("push") /\ UNCHANGED row
       \/ row.exists /\ derived = "draft" /\ NeedsPin /\ row' = Voided /\ To("failing")
       \/ ~(row.exists /\ derived = "draft") /\ To("failing") /\ UNCHANGED row
    /\ UNCHANGED <<derived, cp, revised>>

\* The upsert and what is stored of it: published; refused, which the row says; or stored
\* by WordPress and not here.
Pushed(done, refused, unrecorded) ==
    \/ row' = [Stored("published") EXCEPT !.post = row.exists] /\ done
    \/ row' = Stored("failed") /\ refused
    \/ UNCHANGED row /\ unrecorded
Push ==
    /\ task.pc = "push"
    /\ Pushed(cp' = [cp EXCEPT !.next = "end", !.status = "published"] /\ To("settle"),
              To("failing") /\ UNCHANGED cp, To("failing") /\ UNCHANGED cp)
    /\ UNCHANGED <<derived, req, excused>> /\ UNCHANGED History /\ UNCHANGED Counters

\* What the graph stopped at: a gate, which an auto-accepted outline passes at once, or
\* its end, of which only the two other outcomes are written to the row.
AutoAccepts == cp.next = "production" /\ row.exists /\ row.auto_accept_hitl1
AutoAccept ==
    /\ task.pc = "settle" /\ AutoAccepts
    /\ task' = [NoTask EXCEPT !.pc = "begin", !.resume = TRUE, !.gate = "hitl_1"]
    /\ UNCHANGED <<row, derived, cp, req, excused>> /\ UNCHANGED History /\ UNCHANGED Counters
Settle ==
    /\ task.pc = "settle" /\ ~AutoAccepts
    /\ LET gate == IF cp.next = "production" THEN {"hitl_1"}
                   ELSE IF cp.next = "publish" THEN {"hitl_2"} ELSE {}
           said == gate \cup ({cp.status} \cap {"rejected", "changes_requested"})
           final == IF gate # {} THEN gate ELSE said
       IN  /\ IF final = {} THEN UNCHANGED <<row, faults, excused>>
              ELSE \E s \in final : SetStatus(s)
           /\ opened' = opened \cup gate
    /\ To("flush")
    /\ UNCHANGED <<derived, cp, req, asked, revised, contested, crossed, posts, crashes>>

\* Whatever throws ends up here; the events are flushed before the task is done.
Throw ==
    /\ task.pc \in {"begin", "node", "settle"} /\ To("failing")
    /\ UNCHANGED <<row, derived, cp, req, excused>> /\ UNCHANGED History /\ UNCHANGED Counters
\* Fault for a mutant: the error is logged only.
FailingUnrecorded ==
    /\ task.pc = "failing" /\ To("flush")
    /\ UNCHANGED <<row, derived, cp, req, excused>> /\ UNCHANGED History /\ UNCHANGED Counters
Failing ==
    /\ task.pc = "failing"
    /\ SetStatus("failed") /\ To("flush")
    /\ UNCHANGED <<derived, cp, req, posts, crashes>> /\ UNCHANGED History
Flush ==
    /\ task.pc = "flush" /\ task' = NoTask
    /\ UNCHANGED <<row, derived, cp, req, excused>> /\ UNCHANGED History /\ UNCHANGED Counters

TaskStep == Begin \/ StartFresh \/ Continue \/ Strategy \/ Produce \/ Dispatch \/ PublishLoad
              \/ Push \/ AutoAccept \/ Settle \/ Failing \/ Flush

-----------------------------------------------------------------------------
(* The requests.                                                           *)

Free(r) == req[r].pc = "idle" /\ posts < MaxPosts
Take(r, next) == req' = [req EXCEPT ![r] = next] /\ posts' = posts + 1
Go(r, pc) == req' = [req EXCEPT ![r].pc = pc]
Answer(r) == req' = [req EXCEPT ![r] = Idle]

\* _assert_no_live_task, then create_task.
Spawn(t) == ~Live /\ task' = [t EXCEPT !.pc = "begin"]
Refused == Live /\ UNCHANGED task

Start(r) ==
    /\ req[r].pc = "start" /\ Answer(r)
    /\ Spawn(NoTask) \/ Refused
    /\ UNCHANGED <<row, derived, cp, excused>> /\ UNCHANGED History /\ UNCHANGED Counters

\* POST /resume, from a page that shows gate 1 or showed it once.
AnswerHitl1(r) ==
    /\ Free(r) /\ "hitl_1" \in opened
    /\ Take(r, [Idle EXCEPT !.pc = "deliver", !.gate = "hitl_1"])
    /\ UNCHANGED <<row, derived, cp, task, excused, faults, crashes>> /\ UNCHANGED History

\* POST /hitl-2: the row is read, for the counter and for the target of an approval.
ReadHitl2(r, d) ==
    /\ Free(r) /\ "hitl_2" \in opened /\ row.exists
    /\ Take(r, [Idle EXCEPT !.pc = "commit", !.gate = "hitl_2", !.decision = d, !.prior = row.round])
    /\ UNCHANGED <<row, derived, cp, task, excused, faults, crashes>> /\ UNCHANGED History

\* No other decision on its way, at a gate that is open.
Orderly(r) ==
    /\ row.status = "hitl_2" /\ ~Live
    /\ \A q \in Requests \ {r} : req[q].pc \notin {"commit", "deliver"}

\* The UPDATE of a decision. A revision counts in the statement and within the cap; the
\* other two write back the counter that was read.
Decided(r) ==
    LET verdict == req[r].decision IN
    [row EXCEPT !.round = IF verdict = "request_changes" THEN row.round + 1
                          ELSE req[r].prior,
                !.d2 = verdict, !.approver = (verdict = "approve"),
                !.pin = (verdict = "approve" /\ row.start = "refresh")]
CommitHitl2(r) ==
    /\ req[r].pc = "commit"
    /\ IF req[r].decision = "request_changes" /\ ~(row.exists /\ row.round < Cap)
       THEN Answer(r) /\ UNCHANGED <<row, asked, contested>>
       ELSE /\ row' = IF row.exists THEN Decided(r) ELSE row
            /\ req' = [req EXCEPT ![r].pc = "deliver", ![r].round = row'.round]
            /\ asked' = asked + (IF req[r].decision = "request_changes" THEN 1 ELSE 0)
            /\ contested' = (contested \/ ~Orderly(r))
    /\ UNCHANGED <<derived, cp, task, opened, revised, crossed, excused>> /\ UNCHANGED Counters

\* runner.resume: refused while a task is live, the decision being on record all the same.
Deliver(r) ==
    /\ req[r].pc = "deliver" /\ Answer(r)
    /\ \/ /\ Spawn([NoTask EXCEPT !.resume = TRUE, !.gate = req[r].gate,
                                  !.d2 = req[r].decision, !.round = req[r].round])
          /\ crossed' = (crossed \/ (req[r].gate = "hitl_1" /\ cp.next # "production"))
       \/ Refused /\ UNCHANGED crossed
    /\ UNCHANGED <<row, derived, cp, opened, asked, revised, contested, excused>> /\ UNCHANGED Counters

\* POST /restart: the claim, the checkpoint and the derived rows, the relaunch.
ClaimRestart(r) ==
    /\ Free(r) /\ row.exists /\ row.status = "failed"
    /\ Take(r, [Idle EXCEPT !.pc = "wipe"])
    /\ row' = Stored("pending")
    /\ UNCHANGED <<derived, cp, task, excused, faults, crashes>> /\ UNCHANGED History
Wipe(r) ==
    /\ req[r].pc = "wipe" /\ Go(r, "relaunch")
    /\ cp' = NoThread /\ derived' = "none"
    /\ UNCHANGED <<row, task, excused>> /\ UNCHANGED History /\ UNCHANGED Counters
\* A statement of it fails: the run is left pending.
WipeFails(r) ==
    /\ req[r].pc = "wipe" /\ faults < MaxFaults /\ Answer(r)
    /\ cp' \in {cp, NoThread}
    /\ faults' = faults + 1 /\ excused' = TRUE
    /\ UNCHANGED <<row, derived, task, posts, crashes>> /\ UNCHANGED History
\* The task that failed may still be flushing its events: then the start is refused, and
\* the run is left pending.
Relaunch(r) ==
    /\ req[r].pc = "relaunch" /\ Answer(r)
    /\ row' = Stored("pending")
    /\ Spawn(NoTask) \/ Refused
    /\ excused' = (excused \/ Live)
    /\ UNCHANGED <<derived, cp>> /\ UNCHANGED History /\ UNCHANGED Counters

\* DELETE: the task is cancelled and its thread dropped, then the rows are deleted.
Cancel(r) ==
    /\ Free(r) /\ row.exists
    /\ Take(r, [Idle EXCEPT !.pc = "rows"])
    /\ task' = NoTask /\ cp' \in {cp, NoThread}
    /\ UNCHANGED <<row, derived, excused, faults, crashes>> /\ UNCHANGED History
DeleteRows(r) ==
    /\ req[r].pc = "rows" /\ Answer(r)
    /\ \/ row' = [row EXCEPT !.exists = FALSE] /\ derived' = "none" /\ UNCHANGED <<faults, excused>>
       \/ /\ faults < MaxFaults /\ faults' = faults + 1 /\ excused' = TRUE
          /\ UNCHANGED <<row, derived>>
    /\ UNCHANGED <<cp, task, posts, crashes>> /\ UNCHANGED History

\* POST /republish, from the page of a published run.
ReadRepublish(r) ==
    /\ Free(r) /\ row.exists /\ row.status = "published" /\ derived = "draft"
    /\ Take(r, [Idle EXCEPT !.pc = "push"])
    /\ UNCHANGED <<row, derived, cp, task, excused, faults, crashes>> /\ UNCHANGED History
Republish(r) ==
    /\ req[r].pc = "push" /\ Answer(r)
    /\ Pushed(TRUE, TRUE, TRUE)
    /\ contested' = (contested \/ row.status # "published")
    /\ UNCHANGED <<derived, cp, task, excused, opened, asked, revised, crossed>> /\ UNCHANGED Counters

\* POST /regenerate writes a new draft of a run that is not in motion, and counts from
\* what it read.
ReadRegenerate(r) ==
    /\ Free(r) /\ row.exists /\ row.status \notin _IN_MOTION_STATUSES \cup Gates /\ derived = "draft"
    /\ Take(r, [Idle EXCEPT !.pc = "regenerate", !.prior = row.round])
    /\ UNCHANGED <<row, derived, cp, task, excused, faults, crashes>> /\ UNCHANGED History
Regenerate(r) ==
    /\ req[r].pc = "regenerate" /\ Answer(r)
    /\ \/ row.exists /\ row' = [row EXCEPT !.round = req[r].prior + 1] /\ derived' = "draft"
       \/ UNCHANGED <<row, derived>>
    /\ contested' = (contested \/ row.round # req[r].prior)
    /\ UNCHANGED <<cp, task, excused, opened, asked, revised, crossed>> /\ UNCHANGED Counters

Handler(r) == Start(r) \/ CommitHitl2(r) \/ Deliver(r) \/ Wipe(r) \/ Relaunch(r)
                \/ DeleteRows(r) \/ Republish(r) \/ Regenerate(r)
Arrive(r) == AnswerHitl1(r) \/ ClaimRestart(r) \/ Cancel(r) \/ ReadRepublish(r) \/ ReadRegenerate(r)
               \/ \E d \in Decisions : ReadHitl2(r, d)

\* Some request is about to start the run, or to delete it.
Owned == \E r \in Requests : req[r].pc \in {"start", "wipe", "relaunch", "rows"}

\* The process is lost with its task and its handlers. recover_orphaned, when the next one
\* boots, takes every run in flight for lost; if it cannot, the process serves all the same.
\* Fault for a mutant: only runs whose task had begun are taken for lost.
RecoveredRunning == IF row.status \in _IN_FLIGHT_STATUSES \ {"pending"} THEN Stored("failed") ELSE row
Recovered == IF row.status \in _IN_FLIGHT_STATUSES THEN Stored("failed") ELSE row
Crash ==
    /\ crashes < MaxCrashes /\ crashes' = crashes + 1
    /\ task' = NoTask /\ req' = [r \in Requests |-> Idle]
    /\ \/ /\ row' = Recovered /\ UNCHANGED faults
          /\ excused' = (excused \/ (row.status \in Gates /\ Owned))
       \/ /\ faults < MaxFaults /\ faults' = faults + 1
          /\ excused' = TRUE /\ UNCHANGED row
    /\ UNCHANGED <<derived, cp, posts>> /\ UNCHANGED History

Next == \/ TaskStep \/ Throw \/ Crash
        \/ \E r \in Requests : Handler(r) \/ Arrive(r) \/ WipeFails(r)

\* The event loop runs every coroutine; nobody has to decide, and nothing has to fail.
Spec == Init /\ [][Next]_vars /\ WF_vars(TaskStep) /\ \A r \in Requests : WF_vars(Handler(r))

-----------------------------------------------------------------------------
(* A run in flight has a task, or a request that is about to start or       *)
(* delete it: after any crash, failure, refused start and cancelled task,    *)
(* except for a lost write of the status, a restart or a deletion that      *)
(* failed half way, a restart that was refused, and a recovery that failed  *)
(* (_IN_FLIGHT_STATUSES: "the run is silently stuck").                      *)
RunIsDriven ==
    row.exists /\ row.status \in _IN_FLIGHT_STATUSES => Live \/ Owned \/ excused

(* A gate that the row shows open can be answered: the checkpoint waits     *)
(* right there, although it is written by the graph and the status by       *)
(* another statement ("they survive restarts via the checkpoint").          *)
GateIsParked ==
    /\ row.exists /\ ~Live /\ ~Owned /\ ~excused
    => /\ row.status = "hitl_1" => cp.next = "production"
       /\ row.status = "hitl_2" => cp.next = "publish"

(* What was decided is what was done, when decisions were recorded one at a *)
(* time at an open gate and no late answer to gate 1 moved the graph past   *)
(* gate 2: a published run was approved by a named person, no more          *)
(* revisions were begun than asked for, and the last allowed round ends the *)
(* run (n_publish_or_revise; the cap of POST /hitl-2).                      *)
DecisionIsDone ==
    ~contested /\ ~crossed =>
        /\ row.exists /\ row.status = "published" => row.d2 = "approve" /\ row.approver
        /\ revised <= asked /\ (Cap > 0 => revised < Cap)

(* A run in flight comes to a gate, to its end or to failed, is deleted, or *)
(* is stranded in one of the named ways.                                    *)
InFlight == row.exists /\ row.status \in _IN_FLIGHT_STATUSES
Comes == ~row.exists \/ row.status \notin _IN_FLIGHT_STATUSES \/ excused
ExecutorSettles == InFlight ~> Comes
=============================================================================
