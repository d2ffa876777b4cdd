----------------------------- MODULE ProductionRun -----------------------------
(***************************************************************************)
(* One content run of the Cloudflare Workers backend: its row in Postgres, *)
(* its drafts, the durable ProductionWorkflow instance that drives it, and *)
(* the HTTP handlers that create it, decide at its two human gates and     *)
(* restart it (deploy/cloudflare-workers/src: workflows/production.ts and  *)
(* routes/runs.ts).                                                        *)
(*                                                                         *)
(* The database client opens no transaction, so a handler interleaves with *)
(* every other actor between any two of its statements.  An instance is    *)
(* local to the deployment that created it; the row is shared.  A text is  *)
(* a number: the order in which the texts of this run were written.        *)
(***************************************************************************)
EXTENDS Integers, Sequences

CONSTANTS
  Deployments,    \* the accounts the backend is deployed on
  Clients,        \* the requests that can be in flight together
  MaxIterations,  \* writer passes of one production round
  MaxRounds,      \* reviewer revision rounds
  MaxPosts,       \* bound: HITL decisions posted in a behaviour
  MaxRestarts,    \* bound: restarts posted in a behaviour
  OrderlyDesk,    \* TRUE: one request at a time, and one decision for a gate seen open
  LateEdits       \* TRUE: the article is saved, or the existing post read again, at any
                  \* time after the text exists; FALSE: only at the second gate

ASSUME ConstantsAssumption ==
  /\ MaxIterations \in Nat \ {0}
  /\ MaxRounds \in Nat
  /\ MaxPosts \in Nat
  /\ MaxRestarts \in Nat
  /\ OrderlyDesk \in BOOLEAN
  /\ LateEdits \in BOOLEAN

Iterations == 0 .. MaxIterations - 1
Rounds     == 0 .. MaxRounds
Gates      == {"hitl_1", "hitl_2"}
Decisions1 == {"approve", "override_route", "cancel"}
Decisions2 == {"approve", "request_changes", "reject"}
Decisions  == Decisions1 \cup Decisions2
Routes     == {"none", "planned", "override"}
Hitl1Gate  == "hitl_1"
Hitl2Await == "awaiting_hitl_2"   \* mutant: the sentinel of the claim's comment
Hitl2Gate  == "hitl_2"
Nobody     == "nobody"
NoLog      == "no log"
NoDecision == "undecided"

Statuses == {"none", "pending", "fetching", "strategy", "hitl_1", "production",
             "hitl_2", "revising", "publishing", "published", "rejected",
             "changes_requested", "failed"}
Origins == {"start", "hitl_1", "named", "gate"}
Errors == {"none", "mismatch", "restart_error", "step_error"}

\* Where an instance can be: it executes a step, is parked at a gate, or stopped.
Steps   == {"load", "fetch", "strategy", "accept1", "gate1", "announce1", "apply1",
            "produce", "write", "render", "audit", "gate2", "announce2", "publishing",
            "read", "cms", "save", "compliance", "reject", "changes", "revise", "close"}
Parked  == {"await1", "await2"}
Stopped == {"completed", "errored"}
Pcs     == Steps \cup Parked \cup Stopped \cup {"none", "onError"}

VARIABLES
  row,      \* content_tool.runs: the columns that steer the run
  drafts,   \* iteration -> the text of the draft and the text of its render
  texts,    \* number of texts written; 0 stands for no text
  wf,       \* deployment -> its workflow instance of this run
  req,      \* client -> the handler serving its request
  live,     \* the text the CMS shows
  log,      \* the approver the compliance log names
  seen,     \* history: the texts an approving reviewer saw or wrote
  decided,  \* history: decisions claimed since a gate was last opened
  posts,    \* HITL decisions posted
  restarts  \* restarts posted

vars == <<row, drafts, texts, wf, req, live, log, seen, decided, posts, restarts>>

-----------------------------------------------------------------------------
(* The types of the state, and the values it starts from. *)

\* RescueGate: the decision an adopting instance is created with.
NoRescue == [gate |-> "none", event |-> NoDecision, round |-> 0]
Rescues == [gate : {"hitl_1"}, event : Decisions1, round : Nat]
             \cup [gate : {"hitl_2"}, event : Decisions2, round : Nat] \cup {NoRescue}

InstanceFields ==
  [pc     : Pcs,
   round  : Nat,                      \* hitl2Iteration
   iter   : Iterations,               \* the production loop's iteration
   route  : Routes,                   \* chosen_route in the loaded run
   event  : Decisions1 \cup {NoDecision}, \* the HITL_1 decision being applied
   rescue : Rescues,                  \* params.rescue
   inbox  : [Gates -> Seq(Decisions)],
   text   : Nat,                      \* the render the publish step loaded
   gate1  : BOOLEAN,                  \* the gate-hitl1 step is recorded
   gates  : SUBSET Nat,               \* the gate-hitl2-N steps recorded
   err    : Errors]

\* Each gate gets the decisions of its own kind.
InstanceMatches(w) == /\ w.inbox["hitl_1"] \in Seq(Decisions1)
                      /\ w.inbox["hitl_2"] \in Seq(Decisions2)
                      /\ w.pc = "apply1" => w.event \in Decisions1
Instances == {w \in InstanceFields : InstanceMatches(w)}

NewInstance(rescue) ==
  [pc |-> "load", round |-> rescue.round, iter |-> 0, route |-> "none",
   event |-> NoDecision, rescue |-> rescue, inbox |-> [g \in Gates |-> <<>>],
   text |-> 0, gate1 |-> FALSE, gates |-> {}, err |-> "none"]

Handlers == {"idle", "launch", "apply1", "send1", "undo1",
             "check2", "claim2", "edit2", "send2", "undo2",
             "claimRestart", "restart", "undoRestart"}

AtHitl1 == {"apply1", "send1", "undo1"}
AtHitl2 == {"check2", "claim2", "edit2", "send2", "undo2"}

RequestFields ==
  [pc       : Handlers,
   at       : Deployments,
   decision : Decisions \cup {NoDecision},
   edits    : BOOLEAN,             \* an approve carries edited html
   status   : Statuses,            \* current.status, as the handler read it
   prior    : Nat,                 \* priorIteration, or the mismatch's round
   checked  : BOOLEAN,             \* the pre-flight ran and passed
   from     : Origins,             \* where a restart begins; a gate is <prior>'s
   view     : Nat]                 \* history: the text the reviewer sees

RequestMatches(r) == /\ r.pc \in AtHitl1 => r.decision \in Decisions1
                     /\ r.pc \in AtHitl2 => r.decision \in Decisions2
RequestStates == {r \in RequestFields : RequestMatches(r)}

Runs == [status   : Statuses,
         refresh  : BOOLEAN,                 \* start_mode
         auto1    : BOOLEAN,                 \* auto_accept_hitl1
         route    : Routes,                  \* chosen_route
         d1       : Decisions1 \cup {NoDecision},
         d2       : Decisions2 \cup {NoDecision},
         round    : Nat,                     \* hitl_2_iteration
         approver : Clients \cup {Nobody},   \* approved_by
         checked  : BOOLEAN,                 \* approved after the pre-flight, pin recorded
         error    : Errors]

IdleRequest(d) ==
  [pc |-> "idle", at |-> d, decision |-> NoDecision, edits |-> FALSE, status |-> "none",
   prior |-> 0, checked |-> FALSE, from |-> "start", view |-> 0]

Drafts == [Iterations -> [markup : Nat, render : Nat]]

\* ORDER BY iteration DESC LIMIT 1, over the drafts that exist.
Written   == {i \in Iterations : drafts[i].markup # 0}
Rendered  == {i \in Written : drafts[i].render # 0}
Latest(S) == CHOOSE i \in S : \A j \in S : j <= i
Shown     == IF Rendered = {} THEN 0 ELSE drafts[Latest(Rendered)].render

Init ==
  /\ \E refresh, auto1 \in BOOLEAN :
       row = [status |-> "none", refresh |-> refresh, auto1 |-> auto1, route |-> "none",
              d1 |-> NoDecision, d2 |-> NoDecision, round |-> 0, approver |-> Nobody,
              checked |-> FALSE, error |-> "none"]
  /\ drafts = [i \in Iterations |-> [markup |-> 0, render |-> 0]]
  /\ texts = 0
  /\ wf = [d \in Deployments |-> [NewInstance(NoRescue) EXCEPT !.pc = "none"]]
  /\ \E d \in Deployments : req = [c \in Clients |-> IdleRequest(d)]
  /\ live = 0
  /\ log = NoLog
  /\ seen = {}
  /\ decided = 0
  /\ posts = 0
  /\ restarts = 0

TypeOK ==
  /\ row \in Runs
  /\ drafts \in Drafts
  /\ texts \in Nat
  /\ wf \in [Deployments -> Instances]
  /\ req \in [Clients -> RequestStates]
  /\ live \in Nat
  /\ log \in Clients \cup {Nobody, NoLog}
  /\ seen \subseteq Nat
  /\ decided \in Nat
  /\ posts \in Nat
  /\ restarts \in Nat

-----------------------------------------------------------------------------
(* Handlers.  Each action is one statement or one call of the handler. *)

Serve(c, request) == req' = [req EXCEPT ![c] = request]
Continue(c, pc)   == req' = [req EXCEPT ![c].pc = pc]
Answer(c)         == req' = [req EXCEPT ![c] = IdleRequest(req[c].at)]

\* An orderly desk posts nothing while a request is being served, and decides once,
\* at a gate it sees open.
Free(c) == /\ req[c].pc = "idle"
           /\ OrderlyDesk => \A k \in Clients : req[k].pc = "idle"

MayDecide(c, gate) == /\ Free(c)
                      /\ posts < MaxPosts
                      /\ OrderlyDesk => row.status = gate /\ decided = 0

MayEdit(c) == /\ Free(c)
              /\ posts < MaxPosts
              /\ LateEdits \/ row.status = "hitl_2"

\* An approval is taken back: the decision, the approver and the target pin.
Voided == [row EXCEPT !.d2 = NoDecision, !.approver = Nobody, !.checked = FALSE]

\* POST /: the row is inserted, and then the instance is created.
CreateRun(c, d) ==
  /\ req[c].pc = "idle"
  /\ row.status = "none"
  /\ row' = [row EXCEPT !.status = "pending"]
  /\ Serve(c, [IdleRequest(d) EXCEPT !.pc = "launch"])
  /\ UNCHANGED <<drafts, texts, wf, live, log, seen, decided, posts, restarts>>

\* PRODUCTION.create; when it throws the answer is a 500 and the row stays pending.
LaunchInstance(c) ==
  /\ req[c].pc = "launch"
  /\ \/ wf' = [wf EXCEPT ![req[c].at] = NewInstance(NoRescue)]
     \/ UNCHANGED wf
  /\ Answer(c)
  /\ UNCHANGED <<row, drafts, texts, live, log, seen, decided, posts, restarts>>

\* POST /:id/resume: the claim records the decision and leaves the status.
ClaimHitl1(c, d, decision) ==
  /\ MayDecide(c, "hitl_1")
  /\ row.status = Hitl1Gate
  /\ row' = [row EXCEPT !.d1 = decision]
  /\ Serve(c, [IdleRequest(d) EXCEPT
                 !.pc = IF decision = "override_route" THEN "apply1" ELSE "send1",
                 !.decision = decision])
  /\ decided' = decided + 1
  /\ posts' = posts + 1
  /\ UNCHANGED <<drafts, texts, wf, live, log, seen, restarts>>

OverrideRoute(c) ==
  /\ req[c].pc = "apply1"
  /\ row' = [row EXCEPT !.route = "override"]
  /\ Continue(c, "send1")
  /\ UNCHANGED <<drafts, texts, wf, live, log, seen, decided, posts, restarts>>

\* The pre-flight is for an approve that finds the run at the gate.
NeedsPreflight(decision) == decision = "approve" /\ row.status = Hitl2Gate

\* POST /:id/hitl-2: the SELECT of status and hitl_2_iteration.  The view is what the
\* run shows when the request is sent.  Left out: a page that was loaded before the text
\* was replaced, by a save or by a round of changes that somebody else asked for.
ReadHitl2(c, d, decision, edits) ==
  /\ MayDecide(c, "hitl_2")
  /\ row.status # "none"
  /\ edits => decision = "approve"
  /\ Serve(c, [IdleRequest(d) EXCEPT
                 !.pc = IF NeedsPreflight(decision) THEN "check2" ELSE "claim2",
                 !.decision = decision, !.edits = edits, !.status = row.status,
                 !.prior = row.round, !.view = Shown])
  /\ posts' = posts + 1
  /\ UNCHANGED <<row, drafts, texts, wf, live, log, seen, decided, restarts>>

\* The publish guards and the target pin: 422 or 409, or on to the claim.
PreflightHitl2(c) ==
  /\ req[c].pc = "check2"
  /\ \/ Answer(c)
     \/ req' = [req EXCEPT ![c].pc = "claim2", ![c].checked = TRUE]
  /\ UNCHANGED <<row, drafts, texts, wf, live, log, seen, decided, posts, restarts>>

\* Mutant: the cap is checked against the counter that the SELECT read.
CanClaim2StaleCap(r) ==
  /\ row.status = Hitl2Gate
  /\ r.decision = "request_changes" => r.prior < MaxRounds

\* The WHERE clause of the claim: at the gate, and below the cap for a revision.
CanClaim2(r) ==
  /\ row.status = Hitl2Gate
  /\ r.decision = "request_changes" => row.round < MaxRounds

\* Mutant: the approver is recorded for the decisions that are not approvals.
ApprovedByOthers(c, decision) == IF decision = "approve" THEN Nobody ELSE c

ApprovedBy(c, decision) == IF decision = "approve" THEN c ELSE Nobody

ClaimHitl2(c) ==
  LET r == req[c] IN
  /\ r.pc = "claim2"
  /\ IF CanClaim2(r)
     THEN /\ row' = [row EXCEPT
               !.d2 = r.decision,
               !.round = IF r.decision = "request_changes" THEN @ + 1 ELSE @,
               !.approver = ApprovedBy(c, r.decision),
               !.checked = r.checked]
          /\ seen' = IF r.decision = "approve" THEN seen \cup {r.view} ELSE seen
          /\ Continue(c, IF r.decision = "approve" THEN "edit2" ELSE "send2")
          /\ decided' = decided + 1
     ELSE /\ Answer(c)
          /\ UNCHANGED <<row, seen, decided>>
  /\ UNCHANGED <<drafts, texts, wf, live, log, posts, restarts>>

\* The reviewer's inline edits go onto the latest render.
EditRender(c) ==
  /\ req[c].pc = "edit2"
  /\ IF req[c].edits /\ Rendered # {}
     THEN /\ drafts' = [drafts EXCEPT ![Latest(Rendered)].render = texts + 1]
          /\ texts' = texts + 1
          /\ seen' = seen \cup {texts + 1}
     ELSE UNCHANGED <<drafts, texts, seen>>
  /\ Continue(c, "send2")
  /\ UNCHANGED <<row, wf, live, log, decided, posts, restarts>>

Exists(d) == wf[d].pc # "none"
Alive(d)  == wf[d].pc \notin Stopped \cup {"none"}

\* instance.sendEvent; when it throws, rescueRunHere; when that fails, compensate.
SendEvent(c, gate, undo, rescue) ==
  LET d == req[c].at IN
  /\ \/ /\ Alive(d)
        /\ wf' = [wf EXCEPT ![d].inbox[gate] = Append(@, req[c].decision)]
        /\ Answer(c)
     \/ /\ ~Exists(d)                 \* rescued: adopted by a new instance here
        /\ wf' = [wf EXCEPT ![d] = NewInstance(rescue)]
        /\ Answer(c)
     \/ /\ Exists(d)                  \* the create is a duplicate: reported as success
        /\ UNCHANGED wf
        /\ Answer(c)
     \/ /\ UNCHANGED wf
        /\ Continue(c, undo)
  /\ UNCHANGED <<row, drafts, texts, live, log, seen, decided, posts, restarts>>

\* rescueRunHere's params: the claimed decision, and the round it was claimed in.
RescueGate(gate, r) == [gate |-> gate, event |-> r.decision, round |-> r.prior]

SendHitl1(c) ==
  /\ req[c].pc = "send1"
  /\ SendEvent(c, "hitl_1", "undo1", RescueGate("hitl_1", req[c]))

SendHitl2(c) ==
  /\ req[c].pc = "send2"
  /\ SendEvent(c, "hitl_2", "undo2", RescueGate("hitl_2", req[c]))

Withdrawn == decided' = IF decided = 0 THEN 0 ELSE decided - 1

UndoHitl1(c) ==
  /\ req[c].pc = "undo1"
  /\ row' = [row EXCEPT !.d1 = NoDecision]
  /\ Withdrawn
  /\ Answer(c)
  /\ UNCHANGED <<drafts, texts, wf, live, log, seen, posts, restarts>>

\* Mutant: the compensation forgets the revision counter.
RolledBackKeepingRound(r) == Voided

RolledBack(r) == [Voided EXCEPT !.round = r.prior]

UndoHitl2(c) ==
  /\ req[c].pc = "undo2"
  /\ row' = RolledBack(req[c])
  /\ Withdrawn
  /\ Answer(c)
  /\ UNCHANGED <<drafts, texts, wf, live, log, seen, posts, restarts>>

\* PUT /:id/article: the editor's text goes onto the latest render, at any status.  The
\* slug that it may change too is in CmsPublish.
SaveArticle(c) ==
  /\ MayEdit(c)
  /\ LateEdits \/ decided = 0
  /\ Rendered # {}
  /\ drafts' = [drafts EXCEPT ![Latest(Rendered)].render = texts + 1]
  /\ texts' = texts + 1
  /\ posts' = posts + 1
  /\ UNCHANGED <<row, wf, req, live, log, seen, decided, restarts>>

\* POST /:id/existing-post/refresh finds another post: an approval that is not
\* published yet is void.
RereadPost(c) ==
  /\ MayEdit(c)
  /\ row.refresh
  /\ row.d2 = "approve"
  /\ row.status # "published"
  /\ row' = Voided
  /\ posts' = posts + 1
  /\ UNCHANGED <<drafts, texts, wf, req, live, log, seen, decided, restarts>>

\* POST /:id/restart reads the failure context before its claim clears it.  The pages
\* send no body; a client may name a gate's step (another step, which leaves the status
\* pending when the instance then waits, is left out), and a target mismatch is
\* restarted from the step of its gate.
ReadFailure(c, d) ==
  /\ Free(c)
  /\ restarts < MaxRestarts
  /\ row.status # "none"
  /\ \/ Serve(c, [IdleRequest(d) EXCEPT !.pc = "claimRestart", !.prior = row.round,
                                        !.from = IF row.error = "mismatch"
                                                 THEN "gate" ELSE "start"])
     \/ Serve(c, [IdleRequest(d) EXCEPT !.pc = "claimRestart", !.prior = 0,
                                        !.from = "hitl_1"])
     \/ \E n \in Rounds :
          Serve(c, [IdleRequest(d) EXCEPT !.pc = "claimRestart", !.prior = n,
                                          !.from = "named"])
  /\ restarts' = restarts + 1
  /\ UNCHANGED <<row, drafts, texts, wf, live, log, seen, decided, posts>>

\* Mutant: anything but a finished run can be restarted.
CanRestartUnfinished == row.status \notin {"published", "rejected"}

CanRestart == row.status = "failed"

ClaimRestart(c) ==
  /\ req[c].pc = "claimRestart"
  /\ IF CanRestart
     THEN /\ row' = [row EXCEPT !.status = "pending", !.error = "none"]
          /\ Continue(c, "restart")
     ELSE /\ Answer(c)
          /\ UNCHANGED row
  /\ UNCHANGED <<drafts, texts, wf, live, log, seen, decided, posts, restarts>>

\* The replay of an instance from its start, or from a gate it has opened, whose step and
\* the later ones are forgotten.  A restarted instance gets the events that are sent to it
\* after its restart.
NoEvents == [g \in Gates |-> <<>>]
FromGate1(w) == [w EXCEPT !.pc = "gate1", !.round = 0, !.err = "none",
                          !.inbox = NoEvents, !.gate1 = FALSE, !.gates = {}]
FromGate(w, n) == [w EXCEPT !.pc = "gate2", !.round = n, !.err = "none",
                            !.inbox = NoEvents, !.gates = {g \in w.gates : g < n}]

\* instance.restart; with no instance here, a new one unless a step was named.
RestartInstance(c) ==
  LET d == req[c].at  w == wf[d]  n == req[c].prior IN
  /\ req[c].pc = "restart"
  /\ \/ /\ Exists(d) /\ req[c].from = "start"
        /\ wf' = [wf EXCEPT ![d] = NewInstance(w.rescue)]
        /\ Answer(c)
     \/ /\ Exists(d) /\ req[c].from = "hitl_1" /\ w.gate1
        /\ wf' = [wf EXCEPT ![d] = FromGate1(w)]
        /\ Answer(c)
     \/ /\ Exists(d) /\ req[c].from \in {"named", "gate"} /\ n \in w.gates
        /\ wf' = [wf EXCEPT ![d] = FromGate(w, n)]
        /\ Answer(c)
     \/ /\ ~Exists(d) /\ req[c].from = "start"
        /\ wf' = [wf EXCEPT ![d] = NewInstance(NoRescue)]
        /\ Answer(c)
     \/ /\ UNCHANGED wf               \* restart threw, and so did the create
        /\ Continue(c, "undoRestart")
  /\ UNCHANGED <<row, drafts, texts, live, log, seen, decided, posts, restarts>>

UndoRestart(c) ==
  /\ req[c].pc = "undoRestart"
  /\ row' = [row EXCEPT !.status = "failed", !.error = "restart_error"]
  /\ Answer(c)
  /\ UNCHANGED <<drafts, texts, wf, live, log, seen, decided, posts, restarts>>

-----------------------------------------------------------------------------
(* The workflow.  Each action is one durable step of the instance on d. *)

At(d, pc)   == wf[d].pc = pc
Goto(d, pc) == wf' = [wf EXCEPT ![d].pc = pc]

\* Mutant: whatever is not a rejection is published.
DispatchAll(w, decision) ==
  IF decision = "reject" THEN [w EXCEPT !.pc = "reject"] ELSE [w EXCEPT !.pc = "publishing"]

\* What an hitl_2 decision leads to; the round counter moves before any step.
Dispatch(w, decision) ==
  CASE decision = "approve" -> [w EXCEPT !.pc = "publishing"]
    [] decision = "reject"  -> [w EXCEPT !.pc = "reject"]
    [] OTHER -> IF w.round >= MaxRounds
                THEN [w EXCEPT !.pc = "changes"]
                ELSE [w EXCEPT !.pc = "revise", !.round = w.round + 1]

\* load-run, and the jump of a rescued instance to the decision it was given.
Load(d) ==
  LET w == [wf[d] EXCEPT !.route = row.route] IN
  /\ At(d, "load")
  /\ wf' = [wf EXCEPT ![d] =
       CASE w.rescue.gate = "hitl_1" -> [w EXCEPT !.pc = "apply1", !.event = w.rescue.event]
         [] w.rescue.gate = "hitl_2" -> Dispatch(w, w.rescue.event)
         [] OTHER -> [w EXCEPT !.pc = IF row.refresh THEN "fetch" ELSE "strategy"]]
  /\ UNCHANGED <<row, drafts, texts, req, live, log, seen, decided, posts, restarts>>

Fetch(d) ==
  /\ At(d, "fetch")
  /\ row' = [row EXCEPT !.status = "fetching"]
  /\ Goto(d, "strategy")
  /\ UNCHANGED <<drafts, texts, req, live, log, seen, decided, posts, restarts>>

\* A refresh's gap analysis plans the route, which the loaded run takes over.
Strategy(d) ==
  LET route == IF row.refresh THEN "planned" ELSE row.route IN
  /\ At(d, "strategy")
  /\ row' = [row EXCEPT !.status = "strategy", !.route = route]
  /\ wf' = [wf EXCEPT ![d].pc = IF row.auto1 THEN "accept1" ELSE "gate1",
                      ![d].route = IF row.refresh THEN "planned" ELSE @]
  /\ UNCHANGED <<drafts, texts, req, live, log, seen, decided, posts, restarts>>

AutoAccept(d) ==
  /\ At(d, "accept1")
  /\ row' = [row EXCEPT !.d1 = "approve"]
  /\ Goto(d, "produce")
  /\ UNCHANGED <<drafts, texts, req, live, log, seen, decided, posts, restarts>>

\* gateStep: the status first, then the event; a failure can fall between them.
OpenGate1(d) ==
  /\ At(d, "gate1")
  /\ row' = [row EXCEPT !.status = Hitl1Gate]
  /\ wf' = [wf EXCEPT ![d].pc = "announce1", ![d].gate1 = TRUE]
  /\ decided' = 0
  /\ UNCHANGED <<drafts, texts, req, live, log, seen, posts, restarts>>

OpenGate2(d) ==
  /\ At(d, "gate2")
  /\ row' = [row EXCEPT !.status = Hitl2Gate]
  /\ wf' = [wf EXCEPT ![d].pc = "announce2", ![d].gates = @ \cup {wf[d].round}]
  /\ decided' = 0
  /\ UNCHANGED <<drafts, texts, req, live, log, seen, posts, restarts>>

Announce(d) ==
  /\ \/ At(d, "announce1") /\ Goto(d, "await1")
     \/ At(d, "announce2") /\ Goto(d, "await2")
     \/ At(d, "close") /\ Goto(d, "completed")
  /\ UNCHANGED <<row, drafts, texts, req, live, log, seen, decided, posts, restarts>>

\* waitForEvent: the oldest event of the gate's type.
ReceiveHitl1(d) ==
  LET inbox == wf[d].inbox["hitl_1"] IN
  /\ At(d, "await1")
  /\ inbox # <<>>
  /\ wf' = [wf EXCEPT ![d].pc = "apply1", ![d].event = Head(inbox),
                      ![d].inbox["hitl_1"] = Tail(inbox)]
  /\ UNCHANGED <<row, drafts, texts, req, live, log, seen, decided, posts, restarts>>

ReceiveHitl2(d) ==
  LET inbox == wf[d].inbox["hitl_2"] IN
  /\ At(d, "await2")
  /\ inbox # <<>>
  /\ wf' = [wf EXCEPT ![d] = Dispatch([wf[d] EXCEPT !.inbox["hitl_2"] = Tail(inbox)],
                                      Head(inbox))]
  /\ UNCHANGED <<row, drafts, texts, req, live, log, seen, decided, posts, restarts>>

\* applyHitl1: a cancel ends the run; an override is stored, not loaded again.
ApplyHitl1(d) ==
  LET e == wf[d].event IN
  /\ At(d, "apply1")
  /\ row' = [row EXCEPT !.d1 = e,
                        !.status = IF e = "cancel" THEN "changes_requested" ELSE @,
                        !.route = IF e = "override_route" THEN "override" ELSE @]
  /\ Goto(d, IF e = "cancel" THEN "close" ELSE "produce")
  /\ UNCHANGED <<drafts, texts, req, live, log, seen, decided, posts, restarts>>

Produce(d) ==
  /\ At(d, "produce")
  /\ row' = [row EXCEPT !.status = "production"]
  /\ wf' = [wf EXCEPT ![d].pc = "write", ![d].iter = 0]
  /\ UNCHANGED <<drafts, texts, req, live, log, seen, decided, posts, restarts>>

\* The writer's upsert on (run_id, iteration) leaves the draft's old render.
Write(d) ==
  /\ At(d, "write")
  /\ drafts' = [drafts EXCEPT ![wf[d].iter].markup = texts + 1]
  /\ texts' = texts + 1
  /\ Goto(d, "render")
  /\ UNCHANGED <<row, req, live, log, seen, decided, posts, restarts>>

Render(d) ==
  /\ At(d, "render")
  /\ drafts' = [drafts EXCEPT ![wf[d].iter].render = drafts[wf[d].iter].markup]
  /\ Goto(d, "audit")
  /\ UNCHANGED <<row, texts, req, live, log, seen, decided, posts, restarts>>

Audit(d) ==
  /\ At(d, "audit")
  /\ \E overallPass \in BOOLEAN :
       IF overallPass \/ wf[d].iter >= MaxIterations - 1
       THEN Goto(d, "gate2")
       ELSE wf' = [wf EXCEPT ![d].pc = "write", ![d].iter = @ + 1]
  /\ UNCHANGED <<row, drafts, texts, req, live, log, seen, decided, posts, restarts>>

\* The steps that only set the run's status, and where each leads.
SetStatus(d, pc, status, next) ==
  /\ At(d, pc)
  /\ row' = [row EXCEPT !.status = status]
  /\ Goto(d, next)
  /\ UNCHANGED <<drafts, texts, req, live, log, seen, decided, posts, restarts>>

Publishing(d) == SetStatus(d, "publishing", "publishing", "read")
Reject(d)     == SetStatus(d, "reject", "rejected", "close")
Changes(d)    == SetStatus(d, "changes", "changes_requested", "close")
Revise(d)     == SetStatus(d, "revise", "revising", "produce")
Save(d)       == SetStatus(d, "save", "published", "compliance")

\* The publish step loads the row, the latest draft and its render, and on a
\* refresh asserts that the target is the pinned one (CmsPublish has the rule).
ReadPublish(d) ==
  /\ At(d, "read")
  /\ Written # {}
  /\ drafts[Latest(Written)].render # 0
  /\ row.refresh => row.checked
  /\ wf' = [wf EXCEPT ![d].pc = "cms", ![d].text = drafts[Latest(Written)].render]
  /\ UNCHANGED <<row, drafts, texts, req, live, log, seen, decided, posts, restarts>>

TargetMismatch(d) ==
  /\ At(d, "read")
  /\ row.refresh
  /\ row' = Voided
  /\ wf' = [wf EXCEPT ![d].pc = "onError", ![d].err = "mismatch"]
  /\ UNCHANGED <<drafts, texts, req, live, log, seen, decided, posts, restarts>>

PushToCms(d) ==
  /\ At(d, "cms")
  /\ live' = wf[d].text
  /\ Goto(d, "save")
  /\ UNCHANGED <<row, drafts, texts, req, log, seen, decided, posts, restarts>>

\* ON CONFLICT (run_id) DO NOTHING: the first row stays.
Compliance(d) ==
  /\ At(d, "compliance")
  /\ log' = IF log = NoLog /\ Written # {} THEN row.approver ELSE log
  /\ Goto(d, "close")
  /\ UNCHANGED <<row, drafts, texts, req, live, seen, decided, posts, restarts>>

\* A step fails for good, or a gate times out.
Fail(d) ==
  LET pc == wf[d].pc IN
  /\ \/ pc \in Steps
     \/ pc = "await1" /\ wf[d].inbox["hitl_1"] = <<>>
     \/ pc = "await2" /\ wf[d].inbox["hitl_2"] = <<>>
  /\ wf' = [wf EXCEPT ![d].pc = "onError", ![d].err = "step_error"]
  /\ UNCHANGED <<row, drafts, texts, req, live, log, seen, decided, posts, restarts>>

\* on-error-persist, with no condition on the status it replaces.
\* Mutant: the error is persisted on a run in production only.
FailedRowInProduction(err) ==
  IF row.status = "production" THEN [row EXCEPT !.status = "failed", !.error = err] ELSE row

FailedRow(err) == [row EXCEPT !.status = "failed", !.error = err]

PersistError(d) ==
  /\ At(d, "onError")
  /\ row' = FailedRow(wf[d].err)
  /\ Goto(d, "errored")
  /\ UNCHANGED <<drafts, texts, req, live, log, seen, decided, posts, restarts>>

-----------------------------------------------------------------------------
\* The steps of a request that is being served, and of an instance.
Proceed(c) ==
  \/ LaunchInstance(c) \/ OverrideRoute(c) \/ SendHitl1(c) \/ UndoHitl1(c)
  \/ PreflightHitl2(c) \/ ClaimHitl2(c) \/ EditRender(c) \/ SendHitl2(c) \/ UndoHitl2(c)
  \/ ClaimRestart(c) \/ RestartInstance(c) \/ UndoRestart(c)

Step(d) ==
  \/ Load(d) \/ Fetch(d) \/ Strategy(d) \/ AutoAccept(d) \/ OpenGate1(d)
  \/ ReceiveHitl1(d) \/ ApplyHitl1(d) \/ Produce(d) \/ Write(d) \/ Render(d)
  \/ Audit(d) \/ OpenGate2(d) \/ Announce(d) \/ ReceiveHitl2(d)
  \/ Publishing(d) \/ ReadPublish(d) \/ TargetMismatch(d) \/ PushToCms(d) \/ Save(d)
  \/ Compliance(d) \/ Reject(d) \/ Changes(d) \/ Revise(d) \/ PersistError(d)

Handle(c) ==
  \/ \E d \in Deployments : CreateRun(c, d) \/ ReadFailure(c, d)
  \/ \E d \in Deployments, decision \in Decisions1 : ClaimHitl1(c, d, decision)
  \/ \E d \in Deployments, decision \in Decisions2, edits \in BOOLEAN :
       ReadHitl2(c, d, decision, edits)
  \/ SaveArticle(c) \/ RereadPost(c)
  \/ Proceed(c)

Next == (\E c \in Clients : Handle(c)) \/ (\E d \in Deployments : Step(d) \/ Fail(d))

Spec == Init /\ [][Next]_vars

\* Workflows runs an instance that can move, and a request that is being served is
\* served to its end.  Nothing is assumed of the desk, nor that a step ever fails.
Fairness == /\ \A d \in Deployments : WF_vars(Step(d))
            /\ \A c \in Clients : WF_vars(Proceed(c))

FairSpec == Spec /\ Fairness

-----------------------------------------------------------------------------
(* Safety. *)

\* A reviewer can ask for at most MaxRounds revisions, by the row's count and by
\* the workflow's, however many requests race for the last one (the cap is in the
\* claim's WHERE clause, routes/runs.ts; the workflow counts on its own).
RoundCap ==
  /\ row.round <= MaxRounds
  /\ \A d \in Deployments : wf[d].round <= MaxRounds

\* An instance waits for a decision only while the row says that its gate is open:
\* otherwise every decision would be answered 409 and the run could never go on.
GateAgreement ==
  \A d \in Deployments :
    /\ At(d, "await1") => row.status = "hitl_1"
    /\ At(d, "await2") => row.status = "hitl_2"

\* A run that shows failed has no instance still working on it, so a restart, which
\* asks for nothing but that status, never replays a run under a live instance.
FailedIsStopped ==
  row.status = "failed" =>
    \A d \in Deployments : wf[d].pc \in Stopped \cup {"none"}

\* What the CMS shows was on the screen of a reviewer who approved, or is that
\* reviewer's own edit.
PublishedWasSeen == live # 0 => live \in seen

\* The audit trail: a run that is published, or recorded by the compliance log,
\* names the reviewer who approved it.
ApproverOnRecord ==
  /\ row.status = "published" => row.d2 = "approve" /\ row.approver # Nobody
  /\ log # Nobody

\* Until a restart, the row's revision counter and the workflow's agree at an open
\* gate that has no decision under way: the two caps are one.
CountersAgree ==
  \A d \in Deployments :
    At(d, "await2") /\ decided = 0 /\ restarts = 0 => row.round = wf[d].round

\* The gate that a target mismatch is restarted from is one the instance has opened,
\* so the restart does reopen it for a fresh approval.
MismatchReopensGate ==
  \A c \in Clients :
    LET r == req[c] IN
    r.pc = "restart" /\ r.from = "gate" /\ Exists(r.at) => r.prior \in wf[r.at].gates

\* An approval is recorded only after the publish settings were validated and, on a
\* refresh, the confirmed target was pinned.
ApprovalWasChecked == row.d2 = "approve" => row.checked

\* Deciding at the second gate works: what is approved was validated, row and instance
\* count the same revisions, and a target mismatch goes back to a gate that can reopen.
GateIsInOrder == ApprovalWasChecked /\ CountersAgree /\ MismatchReopensGate

\* The design of the revision loop says that after a revision the "Reviewer sees the
\* new full draft" (docs/design/specs/2026-05-24-hitl2-reviewer-comments-revise-loop-
\* design.md): at the second gate nothing on record is newer than what is shown.  A
\* revision starts again at iteration 0, and the pages and the publish step take the
\* highest iteration, which an earlier round may have left behind.
RevisionIsShown ==
  \A d \in Deployments : At(d, "await2") => \A i \in Rendered : drafts[i].render <= Shown

(* Action properties. *)

\* A run that has ended is moved by no late decision, no second request and no restart:
\* it leaves its end only for failed, when a later step of its own instance fails.
Ended == {"published", "rejected", "changes_requested"}
EndedIsLeftByFailureOnly ==
  [][row.status \in Ended /\ row'.status # row.status =>
       /\ row'.status = "failed"
       /\ \E d \in Deployments : At(d, "onError") /\ wf'[d].pc = "errored"]_vars

(* Liveness. *)

\* Whatever happens to the run's steps, it comes back to a status from which a person
\* can go on (a gate, failed) or to its end; a run that was never launched is left out.
Desk == {"hitl_1", "hitl_2", "published", "rejected", "changes_requested", "failed"}
Settles == \A d \in Deployments : Exists(d) ~> row.status \in Desk
=============================================================================
