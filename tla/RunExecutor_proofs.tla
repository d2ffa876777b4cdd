-------------------------- MODULE RunExecutor_proofs ---------------------------
(***************************************************************************)
(* Proofs about RunExecutor, for any number of requests, revision rounds,  *)
(* failures and losses of the process: a run in flight is driven, an open  *)
(* gate can be answered, and what was decided is what was done.            *)
(***************************************************************************)
EXTENDS RunExecutor, TLAPS

\* What an instance has to give.
Setting == Cap \in Nat

Pcs == {"none", "begin", "status", "node", "push", "settle", "failing", "flush"}
Statuses == _IN_FLIGHT_STATUSES \cup Gates
              \cup {"published", "rejected", "changes_requested", "failed"}
Nodes == {"none", "strategy", "production", "publish", "revise", "end"}

-----------------------------------------------------------------------------
(* Fields. *)

\* The row with another status.
LEMMA StoredRow ==
  ASSUME row \in Run, NEW s \in Statuses
  PROVE  /\ Stored(s) \in Run /\ Stored(s).exists = row.exists
         /\ row.exists => Stored(s).status = s
         /\ ~row.exists => Stored(s) = row
         /\ Stored(s).d2 = row.d2 /\ Stored(s).approver = row.approver
         /\ Stored(s).round = row.round /\ Stored(s).post = row.post
BY DEF Stored, Run, Statuses

\* The task at another place.
LEMMA TaskAt ==
  ASSUME task \in Task, NEW pc \in Pcs, To(pc)
  PROVE  /\ task' \in Task /\ task'.pc = pc /\ task'.resume = task.resume
         /\ task'.gate = task.gate /\ task'.d2 = task.d2 /\ task'.round = task.round
BY DEF To, Task, Pcs

\* The two kinds of tasks that are started.
LEMMA FreshTask ==
  ASSUME Spawn(NoTask)
  PROVE  /\ ~Live /\ task' \in Task /\ task'.pc = "begin" /\ task'.resume = FALSE
         /\ task'.gate = "none"
BY DEF Spawn, NoTask, Task, Gates, Decisions

LEMMA ResumedTask ==
  ASSUME NEW gate \in Gates, NEW d \in Decisions \cup {"none"}, NEW n \in Nat,
         task' = [[NoTask EXCEPT !.resume = TRUE, !.gate = gate, !.d2 = d, !.round = n]
                    EXCEPT !.pc = "begin"]
  PROVE  /\ task' \in Task /\ task'.pc = "begin" /\ task'.resume = TRUE
         /\ task'.gate = gate /\ task'.d2 = d /\ task'.round = n
BY DEF NoTask, Task

\* The checkpoint at another node.
LEMMA CheckpointAt ==
  ASSUME cp \in Checkpoint, NEW n \in Nodes
  PROVE  /\ LET x == [cp EXCEPT !.next = n] IN
              /\ x \in Checkpoint /\ x.next = n /\ x.d2 = cp.d2 /\ x.round = cp.round
              /\ x.status = cp.status
         /\ \A s \in {"revising", "published", "rejected", "changes_requested"} :
              LET x == [cp EXCEPT !.next = n, !.status = s] IN
              /\ x \in Checkpoint /\ x.next = n /\ x.d2 = cp.d2 /\ x.round = cp.round
              /\ x.status = s
BY DEF Checkpoint, Nodes

\* A checkpoint that a decision was written into.
LEMMA UpdatedIs ==
  ASSUME cp \in Checkpoint, task \in Task
  PROVE  /\ Updated \in Checkpoint
         /\ Updated.next = "end" => cp.next = "end" \/ (cp.next = "revise" /\ Updated.status # "revising")
         /\ Updated.next \notin {"end", "strategy"} => Updated.next = cp.next
         /\ Updated.next = "strategy" => cp.next \in {"none", "strategy"}
         /\ Updated.next = "revise" => Updated.status = "revising"
         /\ Updated.status = cp.status \/ Updated.status = "rejected"
         /\ task.gate = "hitl_2" => Updated.d2 = task.d2 /\ Updated.round = task.round
<1>1. PICK told : told = IF task.gate = "hitl_2"
                         THEN [cp EXCEPT !.d2 = task.d2, !.round = task.round,
                                         !.status = IF task.d2 = "reject" THEN "rejected" ELSE cp.status]
                         ELSE cp
  OBVIOUS
<1>2. /\ told \in Checkpoint /\ told.next = cp.next
      /\ told.status = cp.status \/ told.status = "rejected"
      /\ task.gate = "hitl_2" => told.d2 = task.d2 /\ told.round = task.round
  <2>1. CASE task.gate = "hitl_2"
    <3>1. PICK s \in {cp.status, "rejected"} : told = [cp EXCEPT !.d2 = task.d2, !.round = task.round, !.status = s]
      BY <1>1, <2>1
    <3> QED BY <2>1, <3>1 DEF Checkpoint, Task
  <2>2. CASE task.gate # "hitl_2" BY <1>1, <2>2
  <2> QED BY <2>1, <2>2
<1>3. PICK n : n = IF cp.next = "none" THEN "strategy"
                   ELSE IF cp.next = "revise" /\ told.status # "revising" THEN "end"
                   ELSE cp.next
  OBVIOUS
<1>4. Updated = [told EXCEPT !.next = n] BY <1>1, <1>3 DEF Updated
<1>5. n \in Nodes BY <1>3 DEF Checkpoint, Nodes
<1>6. /\ Updated \in Checkpoint /\ Updated.next = n /\ Updated.status = told.status
      /\ Updated.d2 = told.d2 /\ Updated.round = told.round
  BY <1>2, <1>4, <1>5 DEF Checkpoint, Nodes
<1> QED BY <1>2, <1>3, <1>6

\* A wiped checkpoint, and that of a graph that starts.
LEMMA NewThread ==
  /\ NoThread \in Checkpoint /\ NoThread.next = "none" /\ NoThread.status = "pending"
  /\ LET x == [NoThread EXCEPT !.next = "strategy", !.filled = TRUE] IN
       x \in Checkpoint /\ x.next = "strategy"
BY DEF NoThread, Checkpoint, Decisions

\* One handler goes on, and the others stay where they are.
LEMMA HandlerAt ==
  ASSUME req \in [Requests -> Handling], NEW r \in Requests
  PROVE  /\ Answer(r) => /\ req' \in [Requests -> Handling] /\ req'[r] = Idle /\ req'[r].pc = "idle"
                         /\ \A q \in Requests \ {r} : req'[q] = req[q]
         /\ \A pc \in {"deliver", "relaunch"} : Go(r, pc) =>
               /\ req' \in [Requests -> Handling] /\ req'[r] = [req[r] EXCEPT !.pc = pc]
               /\ req'[r].pc = pc
               /\ \A q \in Requests \ {r} : req'[q] = req[q]
         /\ \A x \in Handling : Take(r, x) =>
               /\ req' \in [Requests -> Handling] /\ req'[r] = x
               /\ \A q \in Requests \ {r} : req'[q] = req[q]
<1>1. Idle \in Handling /\ Idle.pc = "idle" BY DEF Idle, Handling
<1>2. Answer(r) => /\ req' \in [Requests -> Handling] /\ req'[r] = Idle /\ req'[r].pc = "idle"
                   /\ \A q \in Requests \ {r} : req'[q] = req[q]
  BY <1>1 DEF Answer
<1>3. ASSUME NEW pc \in {"deliver", "relaunch"}, Go(r, pc)
      PROVE  /\ req' \in [Requests -> Handling] /\ req'[r] = [req[r] EXCEPT !.pc = pc]
             /\ req'[r].pc = pc
             /\ \A q \in Requests \ {r} : req'[q] = req[q]
  <2>1. PICK x : x = [req[r] EXCEPT !.pc = pc] OBVIOUS
  <2>2. x \in Handling /\ x.pc = pc BY <2>1 DEF Handling
  <2>3. req' = [req EXCEPT ![r] = x] BY <1>3, <2>1 DEF Go
  <2> QED BY <2>1, <2>2, <2>3
<1>4. ASSUME NEW x \in Handling, Take(r, x)
      PROVE  /\ req' \in [Requests -> Handling] /\ req'[r] = x
             /\ \A q \in Requests \ {r} : req'[q] = req[q]
  BY <1>4 DEF Take
<1> QED BY <1>2, <1>3, <1>4

\* What the handlers take in.
LEMMA TakenHandling ==
  /\ [Idle EXCEPT !.pc = "deliver", !.gate = "hitl_1"] \in Handling
  /\ \A pc \in {"wipe", "rows", "push"} : [Idle EXCEPT !.pc = pc] \in Handling /\ [Idle EXCEPT !.pc = pc].pc = pc
  /\ \A n \in Nat : LET x == [Idle EXCEPT !.pc = "regenerate", !.prior = n] IN
        x \in Handling /\ x.pc = "regenerate" /\ x.prior = n
<1>1. [Idle EXCEPT !.pc = "deliver", !.gate = "hitl_1"] \in Handling BY DEF Idle, Handling, Gates
<1>2. \A pc \in {"wipe", "rows", "push"} :
        [Idle EXCEPT !.pc = pc] \in Handling /\ [Idle EXCEPT !.pc = pc].pc = pc
  BY DEF Idle, Handling
<1>3. \A n \in Nat : LET x == [Idle EXCEPT !.pc = "regenerate", !.prior = n] IN
        x \in Handling /\ x.pc = "regenerate" /\ x.prior = n
  BY DEF Idle, Handling
<1> QED BY <1>1, <1>2, <1>3

-----------------------------------------------------------------------------
(* Types. *)

\* A status that is written, or lost.
LEMMA SetStatusIs ==
  ASSUME row \in Run, NEW s \in Statuses, SetStatus(s)
  PROVE  /\ row' \in Run /\ row'.exists = row.exists
         /\ row'.status = s \/ row'.status = row.status
         /\ row.exists /\ ~excused' => row'.status = s /\ ~excused
         /\ row'.d2 = row.d2 /\ row'.approver = row.approver
         /\ row'.round = row.round /\ row'.post = row.post
<1>1. CASE row' = Stored(s) /\ UNCHANGED <<faults, excused>> BY <1>1, StoredRow
<1>2. CASE excused' = TRUE /\ UNCHANGED row BY <1>2
<1> QED BY <1>1, <1>2 DEF SetStatus

\* What the upsert leaves of the row.
LEMMA PushedIs ==
  ASSUME row \in Run, NEW p, NEW f, NEW u, Pushed(p, f, u)
  PROVE  /\ row' \in Run /\ row'.exists = row.exists
         /\ row'.d2 = row.d2 /\ row'.approver = row.approver /\ row'.round = row.round
         /\ \/ p /\ (row.exists => row'.status = "published" /\ row'.post)
            \/ f /\ row'.post = row.post /\ (row.exists => row'.status = "failed")
            \/ u /\ row' = row
         /\ ~row.exists => row'.status = row.status
<1>1. CASE row' = [Stored("published") EXCEPT !.post = row.exists] /\ p
  <2>1. "published" \in Statuses BY DEF Statuses
  <2>2. PICK x : x = Stored("published") OBVIOUS
  <2>3. /\ x \in Run /\ x.exists = row.exists /\ x.d2 = row.d2 /\ x.approver = row.approver
        /\ x.round = row.round
        /\ row.exists => x.status = "published"
        /\ ~row.exists => x.status = row.status
    BY <2>1, <2>2, StoredRow
  <2>4. row' = [x EXCEPT !.post = row.exists] BY <1>1, <2>2
  <2>5. row.exists \in BOOLEAN BY DEF Run
  <2>6. /\ row' \in Run /\ row'.exists = x.exists /\ row'.status = x.status /\ row'.d2 = x.d2
        /\ row'.approver = x.approver /\ row'.round = x.round /\ row'.post = row.exists
    BY <2>3, <2>4, <2>5 DEF Run
  <2>7. row.exists => row'.status = "published" /\ row'.post BY <2>3, <2>6
  <2> QED BY <1>1, <2>3, <2>6, <2>7
<1>2. CASE row' = Stored("failed") /\ f
  <2>1. "failed" \in Statuses BY DEF Statuses
  <2> QED BY <1>2, <2>1, StoredRow
<1>3. CASE UNCHANGED row /\ u BY <1>3
<1> QED BY <1>1, <1>2, <1>3 DEF Pushed

\* The record of a decision.
LEMMA DecidedIs ==
  ASSUME row \in Run, NEW r \in Requests, req \in [Requests -> Handling]
  PROVE  req[r].decision \in Decisions =>
           /\ Decided(r) \in Run /\ Decided(r).exists = row.exists
           /\ Decided(r).status = row.status
           /\ Decided(r).d2 = req[r].decision
           /\ Decided(r).approver <=> req[r].decision = "approve"
           /\ Decided(r).round = (IF req[r].decision = "request_changes" THEN row.round + 1
                                  ELSE req[r].prior)
           /\ Decided(r).post = row.post
<1> SUFFICES ASSUME req[r].decision \in Decisions
             PROVE  /\ Decided(r) \in Run /\ Decided(r).exists = row.exists
                    /\ Decided(r).status = row.status
                    /\ Decided(r).d2 = req[r].decision
                    /\ Decided(r).approver <=> req[r].decision = "approve"
                    /\ Decided(r).round = (IF req[r].decision = "request_changes" THEN row.round + 1
                                           ELSE req[r].prior)
                    /\ Decided(r).post = row.post
  OBVIOUS
<1>1. PICK n \in Nat : n = IF req[r].decision = "request_changes" THEN row.round + 1 ELSE req[r].prior
  BY DEF Run, Handling
<1>2. PICK b \in BOOLEAN : b = (req[r].decision = "approve") OBVIOUS
<1>3. PICK c \in BOOLEAN : c = (req[r].decision = "approve" /\ row.start = "refresh") OBVIOUS
<1>4. Decided(r) = [row EXCEPT !.round = n, !.d2 = req[r].decision, !.approver = b, !.pin = c]
  BY <1>1, <1>2, <1>3 DEF Decided
<1>5. LET x == [row EXCEPT !.round = n, !.d2 = req[r].decision, !.approver = b, !.pin = c] IN
      /\ x \in Run /\ x.exists = row.exists /\ x.status = row.status /\ x.d2 = req[r].decision
      /\ x.approver = b /\ x.round = n /\ x.post = row.post
  BY DEF Run
<1>6. Decided(r).approver = b BY <1>4, <1>5
<1> QED BY <1>1, <1>2, <1>4, <1>5, <1>6

\* Where a decision waits for the graph, there is one; and every answer is to a gate.
Types == /\ TypeOK
         /\ \A r \in Requests : req[r].pc = "commit" =>
               req[r].gate = "hitl_2" /\ req[r].decision \in Decisions
         /\ \A r \in Requests : req[r].pc = "deliver" =>
               req[r].gate \in Gates /\ (req[r].gate = "hitl_2" => req[r].decision \in Decisions)

\* The task.
LEMMA TypesTask ==
  ASSUME Types, TaskStep \/ Throw
  PROVE  Types'
<1>1. /\ row \in Run /\ derived \in {"none", "outline", "draft"} /\ cp \in Checkpoint
      /\ task \in Task /\ req \in [Requests -> Handling] /\ opened \subseteq Gates
      /\ asked \in Nat /\ revised \in Nat
  BY DEF Types, TypeOK
<1>2. UNCHANGED <<req, asked>>
  BY DEF TaskStep, Throw, Begin, StartFresh, Continue, Running, Strategy, Produce, Dispatch,
         PublishLoad, Node, Push, AutoAccept, Settle, Failing, Flush, History
<1>3. CASE Begin
  <2>1. UNCHANGED <<row, derived, opened, revised>> BY <1>3 DEF Begin, History
  <2>2. cp' \in Checkpoint BY <1>1, <1>3, UpdatedIs DEF Begin
  <2>3. PICK pc \in Pcs : To(pc) BY <1>3 DEF Begin, Pcs
  <2>4. task' \in Task BY <1>1, <2>3, TaskAt
  <2> QED BY <1>1, <1>2, <2>1, <2>2, <2>4 DEF Types, TypeOK
<1>4. CASE StartFresh \/ Continue
  <2>1. UNCHANGED <<derived, opened, revised>> BY <1>4 DEF StartFresh, Continue, Running, History
  <2>2. cp' \in Checkpoint BY <1>1, <1>4, NewThread DEF StartFresh, Continue
  <2>3. PICK pc \in Pcs : To(pc) BY <1>4 DEF StartFresh, Continue, Pcs
  <2>4. task' \in Task BY <1>1, <2>3, TaskAt
  <2>5. row' \in Run
    <3>1. UNCHANGED row \/ \E s \in Statuses : SetStatus(s)
      BY <1>4 DEF StartFresh, Continue, Statuses, _IN_FLIGHT_STATUSES
    <3> QED BY <1>1, <3>1, SetStatusIs
  <2> QED BY <1>1, <1>2, <2>1, <2>2, <2>4, <2>5 DEF Types, TypeOK
<1>5. CASE Strategy \/ Produce
  <2>1. UNCHANGED <<row, opened, revised>> /\ derived' \in {derived, "outline", "draft"}
    BY <1>5 DEF Strategy, Produce, Node
  <2>2. cp' \in Checkpoint
    <3>1. UNCHANGED cp \/ \E n \in Nodes : cp' = [cp EXCEPT !.next = n]
      BY <1>5 DEF Strategy, Produce, Nodes
    <3>2. \A n \in Nodes : [cp EXCEPT !.next = n] \in Checkpoint BY <1>1, CheckpointAt
    <3> QED BY <1>1, <3>1, <3>2
  <2>3. PICK pc \in Pcs : To(pc) BY <1>5 DEF Strategy, Produce, Pcs
  <2>4. task' \in Task BY <1>1, <2>3, TaskAt
  <2> QED BY <1>1, <1>2, <2>1, <2>2, <2>4 DEF Types, TypeOK
<1>6. CASE Dispatch
  <2>1. UNCHANGED <<row, derived, opened>> /\ revised' \in {revised, revised + 1}
    BY <1>6 DEF Dispatch, Node
  <2>2. \E n \in Nodes, s \in {"revising", "published", "rejected", "changes_requested"} :
          cp' = [cp EXCEPT !.next = n, !.status = s]
    BY <1>6 DEF Dispatch, Nodes
  <2>3. cp' \in Checkpoint
    <3>1. \A n \in Nodes, s \in {"revising", "published", "rejected", "changes_requested"} :
            [cp EXCEPT !.next = n, !.status = s] \in Checkpoint
      BY <1>1, CheckpointAt
    <3> QED BY <2>2, <3>1
  <2>4. UNCHANGED task \/ To("settle") BY <1>6 DEF Dispatch
  <2>5. task' \in Task BY <1>1, <2>4, TaskAt DEF Pcs
  <2> QED BY <1>1, <1>2, <2>1, <2>3, <2>5 DEF Types, TypeOK
<1>7. CASE PublishLoad
  <2>1. UNCHANGED <<derived, cp, opened, revised>> BY <1>7 DEF PublishLoad, Node
  <2>2. Voided \in Run BY <1>1 DEF Voided, Run
  <2>3. row' \in Run BY <1>1, <1>7, <2>2 DEF PublishLoad
  <2>4. PICK pc \in Pcs : To(pc) BY <1>7 DEF PublishLoad, Pcs
  <2>5. task' \in Task BY <1>1, <2>4, TaskAt
  <2> QED BY <1>1, <1>2, <2>1, <2>3, <2>5 DEF Types, TypeOK
<1>8. CASE Push
  <2>1. UNCHANGED <<derived, opened, revised>> BY <1>8 DEF Push, History
  <2>2. row' \in Run BY <1>1, <1>8, PushedIs DEF Push
  <2>3. To("settle") \/ To("failing") BY <1>8 DEF Push, Pushed
  <2>4. task' \in Task BY <1>1, <2>3, TaskAt DEF Pcs
  <2>5. UNCHANGED cp \/ cp' = [cp EXCEPT !.next = "end", !.status = "published"]
    BY <1>8 DEF Push, Pushed
  <2>6. cp' \in Checkpoint BY <1>1, <2>5, CheckpointAt DEF Nodes
  <2> QED BY <1>1, <1>2, <2>1, <2>2, <2>4, <2>6 DEF Types, TypeOK
<1>9. CASE AutoAccept
  <2>1. UNCHANGED <<row, derived, cp, opened, revised>> BY <1>9 DEF AutoAccept, History
  <2>2. task' \in Task BY <1>9 DEF AutoAccept, NoTask, Task, Gates, Decisions
  <2> QED BY <1>1, <1>2, <2>1, <2>2 DEF Types, TypeOK
<1>10. CASE Settle
  <2>1. UNCHANGED <<derived, cp, revised>> /\ opened' \subseteq Gates
    BY <1>1, <1>10 DEF Settle, Gates
  <2>2. UNCHANGED row \/ \E s \in Statuses : SetStatus(s)
    BY <1>10 DEF Settle, Statuses, Gates
  <2>3. row' \in Run BY <1>1, <2>2, SetStatusIs
  <2>4. To("flush") BY <1>10 DEF Settle
  <2>5. task' \in Task BY <1>1, <2>4, TaskAt DEF Pcs
  <2> QED BY <1>1, <1>2, <2>1, <2>3, <2>5 DEF Types, TypeOK
<1>11. CASE Failing
  <2>1. UNCHANGED <<derived, cp, opened, revised>> BY <1>11 DEF Failing, History
  <2>2. "failed" \in Statuses /\ SetStatus("failed") /\ To("flush") BY <1>11 DEF Failing, Statuses
  <2>3. row' \in Run BY <1>1, <2>2, SetStatusIs
  <2>4. task' \in Task BY <1>1, <2>2, TaskAt DEF Pcs
  <2> QED BY <1>1, <1>2, <2>1, <2>3, <2>4 DEF Types, TypeOK
<1>12. CASE Flush
  <2>1. UNCHANGED <<row, derived, cp, opened, revised>> BY <1>12 DEF Flush, History
  <2>2. task' \in Task BY <1>12 DEF Flush, NoTask, Task, Gates, Decisions
  <2> QED BY <1>1, <1>2, <2>1, <2>2 DEF Types, TypeOK
<1>13. CASE Throw
  <2>1. UNCHANGED <<row, derived, cp, opened, revised>> BY <1>13 DEF Throw, History
  <2>2. task' \in Task BY <1>1, <1>13, TaskAt DEF Throw, Pcs
  <2> QED BY <1>1, <1>2, <2>1, <2>2 DEF Types, TypeOK
<1> QED
  BY <1>3, <1>4, <1>5, <1>6, <1>7, <1>8, <1>9, <1>10, <1>11, <1>12, <1>13 DEF TaskStep

\* The requests.
LEMMA TypesHandlers ==
  ASSUME Types, NEW r \in Requests, Handler(r) \/ Arrive(r) \/ WipeFails(r)
  PROVE  Types'
<1>1. /\ row \in Run /\ derived \in {"none", "outline", "draft"} /\ cp \in Checkpoint
      /\ task \in Task /\ req \in [Requests -> Handling] /\ opened \subseteq Gates
      /\ asked \in Nat /\ revised \in Nat /\ req[r] \in Handling /\ row.round \in Nat
      /\ req[r].round \in Nat /\ req[r].decision \in Decisions \cup {"none"}
  BY DEF Types, TypeOK, Run, Handling
<1>2. UNCHANGED <<opened, revised>>
  BY DEF Handler, Arrive, WipeFails, Start, CommitHitl2, Deliver, Wipe, Relaunch, DeleteRows,
         Republish, Regenerate, AnswerHitl1, ClaimRestart, Cancel, ReadRepublish, ReadRegenerate,
         ReadHitl2, History
<1>3. ASSUME req' \in [Requests -> Handling], \A q \in Requests \ {r} : req'[q] = req[q],
             req'[r].pc \notin {"commit", "deliver"}, row' \in Run,
             derived' \in {"none", "outline", "draft"}, cp' \in Checkpoint, task' \in Task,
             UNCHANGED asked
      PROVE  Types'
  BY <1>1, <1>2, <1>3 DEF Types, TypeOK
<1>4. \A s \in Statuses : Stored(s) \in Run BY <1>1, StoredRow
<1>5. "pending" \in Statuses BY DEF Statuses, _IN_FLIGHT_STATUSES
<1>6. NoThread \in Checkpoint /\ NoTask \in Task
  BY NewThread DEF NoTask, Task, Gates, Decisions
<1>7. Answer(r) => /\ req' \in [Requests -> Handling] /\ req'[r].pc \notin {"commit", "deliver"}
                   /\ \A q \in Requests \ {r} : req'[q] = req[q]
  BY <1>1, HandlerAt
<1>8. CASE Start(r)
  <2>1. task' \in Task BY <1>1, <1>8, FreshTask DEF Start, Refused
  <2> QED BY <1>1, <1>3, <1>7, <1>8, <2>1 DEF Start, History
<1>9. CASE CommitHitl2(r)
  <2>1. req[r].decision \in Decisions BY <1>9 DEF CommitHitl2, Types
  <2>2. CASE Answer(r) /\ UNCHANGED <<row, asked>>
    BY <1>1, <1>3, <1>7, <1>9, <2>2 DEF CommitHitl2
  <2>3. CASE ~(Answer(r) /\ UNCHANGED <<row, asked>>)
    <3>1. /\ row' = IF row.exists THEN Decided(r) ELSE row
          /\ req' = [req EXCEPT ![r].pc = "deliver", ![r].round = row'.round]
          /\ asked' = asked + (IF req[r].decision = "request_changes" THEN 1 ELSE 0)
          /\ UNCHANGED <<derived, cp, task>>
      BY <1>9, <2>3 DEF CommitHitl2
    <3>2. row' \in Run BY <1>1, <2>1, <3>1, DecidedIs
    <3>3. PICK n \in Nat : n = row'.round BY <3>2 DEF Run
    <3>4. PICK x : x = [req[r] EXCEPT !.pc = "deliver", !.round = n] OBVIOUS
    <3>5. /\ x \in Handling /\ x.gate = req[r].gate /\ x.decision = req[r].decision
      BY <1>1, <3>4 DEF Handling
    <3>6. req' = [req EXCEPT ![r] = x] BY <1>1, <3>1, <3>3, <3>4
    <3>7. req' \in [Requests -> Handling] /\ req'[r] = x /\ \A q \in Requests \ {r} : req'[q] = req[q]
      BY <1>1, <3>5, <3>6
    <3>8. req[r].gate = "hitl_2" BY <1>9 DEF CommitHitl2, Types
    <3>9. asked' \in Nat BY <1>1, <3>1
    <3>10. TypeOK' BY <1>1, <1>2, <3>1, <3>2, <3>7, <3>9 DEF TypeOK
    <3>11. \A q \in Requests : req'[q].pc = "commit" => q # r \/ req'[q].gate = "hitl_2" BY <3>5, <3>7, <3>8
    <3>12. x.pc = "deliver" BY <1>1, <3>4 DEF Handling
    <3> QED BY <2>1, <3>5, <3>7, <3>8, <3>10, <3>12 DEF Types, Gates
  <2> QED BY <2>2, <2>3
<1>10. CASE Deliver(r)
  <2>1. task' \in Task
    <3>1. req[r].gate \in Gates BY <1>10 DEF Deliver, Types
    <3>2. CASE UNCHANGED task BY <1>1, <3>2
    <3>3. CASE task' = [[NoTask EXCEPT !.resume = TRUE, !.gate = req[r].gate,
                                       !.d2 = req[r].decision, !.round = req[r].round]
                          EXCEPT !.pc = "begin"]
      BY <1>1, <3>1, <3>3, ResumedTask
    <3> QED BY <1>10, <3>2, <3>3 DEF Deliver, Spawn, Refused
  <2> QED BY <1>1, <1>3, <1>7, <1>10, <2>1 DEF Deliver
<1>11. CASE Wipe(r)
  <2>1. Go(r, "relaunch") BY <1>11 DEF Wipe
  <2>2. /\ req' \in [Requests -> Handling] /\ req'[r].pc = "relaunch"
        /\ \A q \in Requests \ {r} : req'[q] = req[q]
    BY <1>1, <2>1, HandlerAt
  <2> QED BY <1>1, <1>3, <1>6, <1>11, <2>2 DEF Wipe, History
<1>12. CASE WipeFails(r)
  BY <1>1, <1>3, <1>6, <1>7, <1>12 DEF WipeFails, History
<1>13. CASE Relaunch(r)
  <2>1. task' \in Task BY <1>1, <1>13, FreshTask DEF Relaunch, Refused
  <2> QED BY <1>1, <1>3, <1>4, <1>5, <1>7, <1>13, <2>1 DEF Relaunch, History
<1>14. CASE DeleteRows(r)
  <2>1. [row EXCEPT !.exists = FALSE] \in Run BY <1>1 DEF Run
  <2> QED BY <1>1, <1>3, <1>7, <1>14, <2>1 DEF DeleteRows, History
<1>15. CASE Republish(r)
  <2>1. row' \in Run BY <1>1, <1>15, PushedIs DEF Republish
  <2> QED BY <1>1, <1>3, <1>7, <1>15, <2>1 DEF Republish
<1>16. CASE Regenerate(r)
  <2>1. req[r].prior + 1 \in Nat BY <1>1 DEF Handling
  <2>2. row' \in Run BY <1>1, <1>16, <2>1 DEF Regenerate, Run
  <2> QED BY <1>1, <1>3, <1>7, <1>16, <2>2 DEF Regenerate
<1>17. CASE AnswerHitl1(r)
  <2>1. PICK x : x = [Idle EXCEPT !.pc = "deliver", !.gate = "hitl_1"] OBVIOUS
  <2>2. x \in Handling /\ x.pc = "deliver" /\ x.gate = "hitl_1"
    BY <2>1, TakenHandling DEF Idle
  <2>3. Take(r, x) BY <1>17, <2>1 DEF AnswerHitl1
  <2>4. req' \in [Requests -> Handling] /\ req'[r] = x /\ \A q \in Requests \ {r} : req'[q] = req[q]
    BY <1>1, <2>2, <2>3, HandlerAt
  <2>5. UNCHANGED <<row, derived, cp, task, asked>> BY <1>17 DEF AnswerHitl1, History
  <2> QED BY <1>1, <1>2, <2>2, <2>4, <2>5 DEF Types, TypeOK, Gates
<1>18. ASSUME NEW d \in Decisions, ReadHitl2(r, d) PROVE Types'
  <2>1. PICK x : x = [Idle EXCEPT !.pc = "commit", !.gate = "hitl_2", !.decision = d, !.prior = row.round]
    OBVIOUS
  <2>2. x \in Handling /\ x.pc = "commit" /\ x.gate = "hitl_2" /\ x.decision = d
    BY <1>1, <2>1 DEF Idle, Handling, Gates
  <2>3. Take(r, x) BY <1>18, <2>1 DEF ReadHitl2
  <2>4. req' \in [Requests -> Handling] /\ req'[r] = x /\ \A q \in Requests \ {r} : req'[q] = req[q]
    BY <1>1, <2>2, <2>3, HandlerAt
  <2>5. UNCHANGED <<row, derived, cp, task, asked>> BY <1>18 DEF ReadHitl2, History
  <2> QED BY <1>1, <1>2, <2>2, <2>4, <2>5 DEF Types, TypeOK
<1>19. ASSUME NEW pc \in {"wipe", "rows", "push"}, Take(r, [Idle EXCEPT !.pc = pc])
       PROVE  /\ req' \in [Requests -> Handling] /\ req'[r].pc = pc
              /\ \A q \in Requests \ {r} : req'[q] = req[q]
  <2>1. PICK x : x = [Idle EXCEPT !.pc = pc] OBVIOUS
  <2>2. x \in Handling /\ x.pc = pc BY <2>1, TakenHandling
  <2> QED BY <1>1, <1>19, <2>1, <2>2, HandlerAt
<1>20. CASE ClaimRestart(r)
  BY <1>1, <1>3, <1>4, <1>5, <1>19, <1>20 DEF ClaimRestart, History
<1>21. CASE Cancel(r)
  BY <1>1, <1>3, <1>6, <1>19, <1>21 DEF Cancel, History
<1>22. CASE ReadRepublish(r)
  BY <1>1, <1>3, <1>19, <1>22 DEF ReadRepublish, History
<1>23. CASE ReadRegenerate(r)
  <2>1. PICK x : x = [Idle EXCEPT !.pc = "regenerate", !.prior = row.round] OBVIOUS
  <2>2. x \in Handling /\ x.pc = "regenerate" BY <1>1, <2>1, TakenHandling
  <2>3. Take(r, x) BY <1>23, <2>1 DEF ReadRegenerate
  <2>4. req' \in [Requests -> Handling] /\ req'[r] = x /\ \A q \in Requests \ {r} : req'[q] = req[q]
    BY <1>1, <2>2, <2>3, HandlerAt
  <2> QED BY <1>1, <1>3, <1>23, <2>2, <2>4 DEF ReadRegenerate, History
<1> QED
  BY <1>8, <1>9, <1>10, <1>11, <1>12, <1>13, <1>14, <1>15, <1>16, <1>17, <1>18, <1>20, <1>21,
     <1>22, <1>23 DEF Handler, Arrive

\* The loss of the process.
LEMMA TypesCrash == Types /\ Crash => Types'
<1> SUFFICES ASSUME Types, Crash PROVE Types' OBVIOUS
<1>1. row \in Run /\ "failed" \in Statuses BY DEF Types, TypeOK, Statuses
<1>2. row' \in Run BY <1>1, StoredRow DEF Crash, Recovered
<1>3. Idle \in Handling /\ Idle.pc = "idle" BY DEF Idle, Handling
<1>4. req' \in [Requests -> Handling] /\ \A r \in Requests : req'[r].pc = "idle" BY <1>3 DEF Crash
<1>5. task' \in Task BY DEF Crash, NoTask, Task, Gates, Decisions
<1> QED BY <1>2, <1>4, <1>5 DEF Types, TypeOK, Crash, History

\* A run at its start.
LEMMA InitIs ==
  ASSUME Init
  PROVE  /\ Types /\ row.exists /\ row.status = "pending" /\ row.round = 0 /\ cp = NoThread
         /\ task.pc = "none" /\ opened = {} /\ asked = 0 /\ revised = 0 /\ ~excused
         /\ \E r \in Requests : req[r].pc = "start" /\ \A q \in Requests \ {r} : req[q].pc = "idle"
<1>1. row \in Run /\ row.exists /\ row.status = "pending" /\ row.round = 0
  <2>1. PICK start \in {"create", "refresh"}, auto \in BOOLEAN :
         row = [exists |-> TRUE, status |-> "pending", start |-> start,
                auto_accept_hitl1 |-> auto, d2 |-> "none", approver |-> FALSE,
                pin |-> FALSE, round |-> 0, post |-> FALSE]
    BY DEF Init
  <2>2. row.exists = TRUE BY <2>1
  <2> QED BY <2>1, <2>2 DEF Run, _IN_FLIGHT_STATUSES
<1>2. PICK x : x = [Idle EXCEPT !.pc = "start"] OBVIOUS
<1>3. x \in Handling /\ x.pc = "start" /\ Idle \in Handling /\ Idle.pc = "idle"
  BY <1>2 DEF Idle, Handling
<1>4. PICK r \in Requests : req = [q \in Requests |-> IF q = r THEN x ELSE Idle] BY <1>2 DEF Init
<1>5. /\ req \in [Requests -> Handling] /\ req[r].pc = "start"
      /\ \A q \in Requests \ {r} : req[q].pc = "idle"
  BY <1>3, <1>4
<1>6. task \in Task /\ task.pc = "none" BY DEF Init, NoTask, Task, Gates, Decisions
<1>7. Types BY <1>1, <1>5, <1>6, NewThread DEF Types, TypeOK, Init
<1> QED BY <1>1, <1>5, <1>6, <1>7 DEF Init

\* No step leaves the types.
LEMMA TypesStep == Types /\ [Next]_vars => Types'
<1> SUFFICES ASSUME Types, [Next]_vars PROVE Types' OBVIOUS
<1>1. CASE UNCHANGED vars BY <1>1 DEF vars, Types, TypeOK
<1> QED BY <1>1, TypesTask, TypesHandlers, TypesCrash DEF Next

-----------------------------------------------------------------------------
(* A run in flight is driven. *)

\* A task that will build the thread anew, whatever the checkpoint holds.
Fresh == task.pc \in {"begin", "status"} /\ ~task.resume

\* The graph has ended, and its task would write nothing of it to the row.
Over == cp.next = "end" /\ cp.status \notin {"rejected", "changes_requested"}

\* The start of a run has the run for itself, but for a deletion.
Beginning ==
    \A r \in Requests : req[r].pc = "start" =>
        /\ ~Live /\ row.status = "pending" /\ opened = {}
        /\ \A q \in Requests \ {r} : req[q].pc \in {"idle", "rows"}

\* Where the task is, what the row shows and what the checkpoint waits for fit.
Fits ==
    /\ ~Fresh /\ task.pc # "failing" /\ Over => row.status \notin _IN_FLIGHT_STATUSES \cup Gates
    /\ task.pc \in {"none", "flush"} => row.status \notin _IN_FLIGHT_STATUSES
    /\ task.pc = "settle" => cp.next \in {"production", "publish", "end"}
    /\ row.status = "hitl_1" => cp.next = "production"
    /\ row.status = "hitl_2" => cp.next = "publish"
    /\ Fresh \/ task.pc \in {"node", "push", "settle"} => row.status \notin Gates

Rounds == cp.next = "revise" => cp.status = "revising"

DriveInv == Rounds /\ (~excused /\ row.exists => Beginning /\ (Owned \/ Fits))

\* A lost write is never forgotten, and a deleted run does not come back.
LEMMA Monotone ==
  ASSUME Types, [Next]_vars
  PROVE  (~excused' => ~excused) /\ (row'.exists => row.exists)
<1>1. row \in Run BY DEF Types, TypeOK
<1>2. \A s \in Statuses : Stored(s).exists = row.exists BY <1>1, StoredRow
<1>3. ASSUME NEW s \in Statuses, SetStatus(s)
      PROVE  (~excused' => ~excused) /\ row'.exists = row.exists
  <2>1. row'.exists = row.exists BY <1>1, <1>3, SetStatusIs
  <2>2. UNCHANGED excused \/ excused' = TRUE BY <1>3 DEF SetStatus
  <2>3. ~excused' => ~excused BY <2>2, Zenon
  <2> QED BY <2>1, <2>3
<1>4. CASE UNCHANGED vars BY <1>4 DEF vars
<1>5. CASE StartFresh \/ Continue \/ Failing \/ Settle
  <2>1. UNCHANGED <<row, excused>> \/ \E s \in Statuses : SetStatus(s)
    BY <1>5 DEF StartFresh, Continue, Failing, Settle, Statuses, Gates, _IN_FLIGHT_STATUSES
  <2> QED BY <1>3, <2>1
<1>6. CASE Push
  <2>1. row'.exists = row.exists /\ UNCHANGED excused BY <1>1, <1>6, PushedIs DEF Push
  <2> QED BY <2>1
<1>7. CASE PublishLoad
  <2>1. Voided.exists = row.exists BY <1>1 DEF Voided, Run
  <2> QED BY <1>7, <2>1 DEF PublishLoad, Node
<1>8. CASE Begin \/ Strategy \/ Produce \/ Dispatch \/ AutoAccept \/ Flush \/ Throw
  BY <1>8 DEF Begin, Strategy, Produce, Dispatch, AutoAccept, Flush, Throw, Node
<1>9. ASSUME NEW r \in Requests,
             Start(r) \/ Deliver(r) \/ Wipe(r) \/ AnswerHitl1(r) \/ Cancel(r) \/ ReadRepublish(r)
               \/ ReadRegenerate(r) \/ (\E d \in Decisions : ReadHitl2(r, d)) \/ WipeFails(r)
      PROVE  (~excused' => ~excused) /\ (row'.exists => row.exists)
  <2>1. UNCHANGED row /\ (UNCHANGED excused \/ excused' = TRUE)
    BY <1>9 DEF Start, Deliver, Wipe, AnswerHitl1, Cancel, ReadRepublish, ReadRegenerate, ReadHitl2,
                WipeFails
  <2>2. ~excused' => ~excused BY <2>1, Zenon
  <2> QED BY <2>1, <2>2
<1>10. ASSUME NEW r \in Requests, CommitHitl2(r)
       PROVE  (~excused' => ~excused) /\ (row'.exists => row.exists)
  BY <1>1, <1>10 DEF CommitHitl2
<1>11. ASSUME NEW r \in Requests, ClaimRestart(r) \/ Relaunch(r)
       PROVE  (~excused' => ~excused) /\ (row'.exists => row.exists)
  <2>1. "pending" \in Statuses BY DEF Statuses, _IN_FLIGHT_STATUSES
  <2>2. row'.exists = row.exists BY <1>2, <1>11, <2>1 DEF ClaimRestart, Relaunch
  <2>3. UNCHANGED excused \/ excused' = (excused \/ Live) BY <1>11 DEF ClaimRestart, Relaunch
  <2>4. ~excused' => ~excused BY <2>3, Zenon
  <2> QED BY <2>2, <2>4
<1>12. ASSUME NEW r \in Requests, DeleteRows(r)
       PROVE  (~excused' => ~excused) /\ (row'.exists => row.exists)
  <2>1. ~[row EXCEPT !.exists = FALSE].exists BY <1>1 DEF Run
  <2>2. row' = [row EXCEPT !.exists = FALSE] \/ UNCHANGED row BY <1>12 DEF DeleteRows
  <2>3. row'.exists => row.exists BY <2>1, <2>2
  <2>4. UNCHANGED excused \/ excused' = TRUE BY <1>12 DEF DeleteRows
  <2>5. ~excused' => ~excused BY <2>4, Zenon
  <2> QED BY <2>3, <2>5
<1>13. ASSUME NEW r \in Requests, Republish(r)
       PROVE  (~excused' => ~excused) /\ (row'.exists => row.exists)
  <2>1. row'.exists = row.exists BY <1>1, <1>13, PushedIs DEF Republish
  <2> QED BY <1>13, <2>1 DEF Republish
<1>14. ASSUME NEW r \in Requests, Regenerate(r)
       PROVE  (~excused' => ~excused) /\ (row'.exists => row.exists)
  <2>1. row'.exists => row.exists BY <1>14 DEF Regenerate
  <2> QED BY <1>14, <2>1 DEF Regenerate
<1>15. CASE Crash
  <2>1. row'.exists = row.exists BY <1>2, <1>15 DEF Crash, Recovered, Statuses
  <2> QED BY <1>15, <2>1 DEF Crash
<1> QED
  BY <1>4, <1>5, <1>6, <1>7, <1>8, <1>9, <1>10, <1>11, <1>12, <1>13, <1>14, <1>15
     DEF Next, TaskStep, Handler, Arrive

\* The graph is at a revision only while it says so.
LEMMA RoundsStep == Types /\ Rounds /\ [Next]_vars => Rounds'
<1> SUFFICES ASSUME Types, Rounds, [Next]_vars PROVE Rounds' OBVIOUS
<1>1. cp \in Checkpoint /\ task \in Task BY DEF Types, TypeOK
<1>2. CASE UNCHANGED cp BY <1>2 DEF Rounds
<1>3. CASE cp' = Updated BY <1>1, <1>3, UpdatedIs DEF Rounds
<1>4. CASE cp' = NoThread \/ cp' = [NoThread EXCEPT !.next = "strategy", !.filled = TRUE]
  BY <1>4, NewThread DEF Rounds
<1>5. CASE \E n \in Nodes \ {"revise"} : cp' = [cp EXCEPT !.next = n]
  <2>1. \A n \in Nodes : [cp EXCEPT !.next = n].next = n BY <1>1, CheckpointAt
  <2> QED BY <1>5, <2>1 DEF Rounds
<1>6. ASSUME NEW n \in Nodes, NEW s \in {"revising", "published", "rejected", "changes_requested"},
             n = "revise" => s = "revising", cp' = [cp EXCEPT !.next = n, !.status = s]
      PROVE  Rounds'
  <2>1. cp'.next = n /\ cp'.status = s BY <1>1, <1>6 DEF Checkpoint
  <2> QED BY <1>6, <2>1 DEF Rounds
<1>7. Begin => cp' \in {cp, Updated} BY DEF Begin
<1>8. StartFresh => cp' = [NoThread EXCEPT !.next = "strategy", !.filled = TRUE] BY DEF StartFresh
<1>9. Strategy \/ Produce => UNCHANGED cp \/ \E n \in Nodes \ {"revise"} : cp' = [cp EXCEPT !.next = n]
  BY DEF Strategy, Produce, Nodes
<1>10. Dispatch \/ Push => UNCHANGED cp \/
         \E n \in Nodes, s \in {"revising", "published", "rejected", "changes_requested"} :
            (n = "revise" => s = "revising") /\ cp' = [cp EXCEPT !.next = n, !.status = s]
  BY DEF Dispatch, Push, Pushed, Nodes
<1>11. Continue \/ PublishLoad \/ AutoAccept \/ Settle \/ Failing \/ Flush \/ Throw \/ Crash
         \/ UNCHANGED vars => UNCHANGED cp
  BY DEF Continue, PublishLoad, AutoAccept, Settle, Failing, Flush, Throw, Crash, vars
<1>12. \A r \in Requests : Handler(r) \/ Arrive(r) \/ WipeFails(r) => cp' \in {cp, NoThread}
  BY DEF Handler, Arrive, WipeFails, Start, CommitHitl2, Deliver, Wipe, Relaunch, DeleteRows,
         Republish, Regenerate, AnswerHitl1, ClaimRestart, Cancel, ReadRepublish, ReadRegenerate,
         ReadHitl2
<1> QED BY <1>2, <1>3, <1>4, <1>5, <1>6, <1>7, <1>8, <1>9, <1>10, <1>11, <1>12 DEF Next, TaskStep

\* The steps of the task.
LEMMA DriveTask ==
  ASSUME Types, DriveInv, TaskStep \/ Throw, ~excused', row'.exists
  PROVE  Beginning' /\ (Owned' \/ Fits')
<1>1. /\ row \in Run /\ cp \in Checkpoint /\ task \in Task /\ req \in [Requests -> Handling]
  BY DEF Types, TypeOK
<1>2. ~excused /\ row.exists BY Monotone DEF Next
<1>3. Beginning /\ (Owned \/ Fits) /\ Rounds BY <1>2 DEF DriveInv
<1>4. UNCHANGED req
  BY DEF TaskStep, Throw, Begin, StartFresh, Continue, Running, Strategy, Produce, Dispatch,
         PublishLoad, Node, Push, AutoAccept, Settle, Failing, Flush
<1>5. Live
  BY DEF TaskStep, Throw, Begin, StartFresh, Continue, Running, Strategy, Produce, Dispatch,
         PublishLoad, Node, Push, AutoAccept, Settle, Failing, Flush, Live
<1>6. Beginning' BY <1>3, <1>4, <1>5 DEF Beginning
<1>7. Owned => Owned' BY <1>4 DEF Owned
<1> SUFFICES ASSUME Fits PROVE Fits' BY <1>3, <1>6, <1>7
<1>8. \A pc \in Pcs : To(pc) => task'.pc = pc /\ task'.resume = task.resume BY <1>1, TaskAt
<1>9. \A s \in Statuses : SetStatus(s) => row'.status = s BY <1>1, <1>2, SetStatusIs
<1>10. Statuses = {"pending", "strategy", "production", "publishing", "hitl_1", "hitl_2",
                   "published", "rejected", "changes_requested", "failed"}
       /\ _IN_FLIGHT_STATUSES = {"pending", "strategy", "production", "publishing"}
       /\ Gates = {"hitl_1", "hitl_2"}
  BY DEF Statuses, _IN_FLIGHT_STATUSES, Gates
<1>11. CASE Begin
  <2>1. UNCHANGED row BY <1>11 DEF Begin
  <2>2. CASE task.resume
    <3>1. cp' = Updated /\ To("status") BY <1>11, <2>2 DEF Begin
    <3>2. task'.pc = "status" /\ task'.resume = task.resume BY <1>8, <3>1 DEF Pcs
    <3>3. ~Fresh /\ ~Fresh' BY <2>2, <3>2 DEF Fresh
    <3>4. task.pc = "begin" BY <1>11 DEF Begin
    <3>5. Over' => Over
      <4>1. Over' => cp.next = "end"
        BY <1>1, <1>3, <3>1, UpdatedIs DEF Over, Rounds, Checkpoint
      <4> QED BY <1>1, <3>1, <4>1, UpdatedIs DEF Over
    <3>6. cp.next \in {"production", "publish"} => cp'.next = cp.next
      <4>1. cp'.next = "end" => cp.next \in {"end", "revise"} BY <1>1, <3>1, UpdatedIs
      <4>2. cp'.next = "strategy" => cp.next \in {"none", "strategy"} BY <1>1, <3>1, UpdatedIs
      <4>3. cp'.next \notin {"end", "strategy"} => cp'.next = cp.next BY <1>1, <3>1, UpdatedIs
      <4> QED BY <4>1, <4>2, <4>3
    <3> QED BY <1>10, <2>1, <3>2, <3>3, <3>4, <3>5, <3>6 DEF Fits
  <2>3. CASE ~task.resume
    <3>1. UNCHANGED cp /\ (To("status") \/ To("failing")) BY <1>11, <2>3 DEF Begin
    <3>2. task'.pc \in {"status", "failing"} /\ task'.resume = task.resume
      BY <1>8, <3>1 DEF Pcs
    <3>3. Fresh BY <1>11, <2>3 DEF Fresh, Begin
    <3>4. Fresh' \/ task'.pc = "failing" BY <2>3, <3>2 DEF Fresh
    <3>5. row.status \notin Gates BY <3>3 DEF Fits
    <3> QED BY <1>10, <2>1, <3>2, <3>4, <3>5 DEF Fits, Fresh
  <2> QED BY <2>2, <2>3
<1>12. CASE StartFresh
  <2>1. row'.status = "strategy" BY <1>9, <1>10, <1>12 DEF StartFresh
  <2>2. task'.pc = "node" BY <1>8, <1>12 DEF StartFresh, Pcs
  <2>3. cp'.next = "strategy" BY <1>12, NewThread DEF StartFresh
  <2> QED BY <1>10, <2>1, <2>2, <2>3 DEF Fits, Fresh, Over
<1>13. CASE Continue
  <2>1. UNCHANGED cp /\ ~Fresh /\ task.pc = "status" BY <1>13 DEF Continue, Running, Fresh
  <2>2. CASE cp.next = "end"
    <3>1. UNCHANGED row /\ task'.pc = "settle" BY <1>8, <1>13, <2>2 DEF Continue, Pcs
    <3> QED BY <1>10, <2>1, <2>2, <3>1 DEF Fits, Fresh, Over
  <2>3. CASE cp.next # "end"
    <3>1. row'.status \in {"publishing", "production"} /\ task'.pc = "node"
      BY <1>8, <1>9, <1>10, <1>13, <2>3 DEF Continue, Pcs
    <3> QED BY <1>10, <2>1, <2>3, <3>1 DEF Fits, Fresh, Over
  <2> QED BY <2>2, <2>3
<1>14. CASE Strategy \/ Produce
  <2>1. UNCHANGED row /\ task.pc = "node" BY <1>14 DEF Strategy, Produce, Node
  <2>2. \/ UNCHANGED cp /\ To("failing")
        \/ \E n \in {"production", "publish"} : cp' = [cp EXCEPT !.next = n] /\ To("settle")
    BY <1>14 DEF Strategy, Produce
  <2>3. CASE UNCHANGED cp /\ To("failing")
    <3>1. task'.pc = "failing" BY <1>8, <2>3 DEF Pcs
    <3> QED BY <1>10, <2>1, <2>3, <3>1 DEF Fits, Fresh
  <2>4. CASE \E n \in {"production", "publish"} : cp' = [cp EXCEPT !.next = n] /\ To("settle")
    <3>1. cp'.next \in {"production", "publish"} BY <1>1, <2>4 DEF Checkpoint
    <3>2. task'.pc = "settle" BY <1>8, <2>4 DEF Pcs
    <3>3. row.status \notin Gates BY <2>1 DEF Fits
    <3> QED BY <1>10, <2>1, <3>1, <3>2, <3>3 DEF Fits, Fresh, Over
  <2> QED BY <2>2, <2>3, <2>4
<1>15. CASE Dispatch
  <2>1. UNCHANGED row /\ task.pc = "node" BY <1>15 DEF Dispatch, Node
  <2>2. \/ To("settle") /\ \E s \in {"rejected", "changes_requested"} :
                              cp' = [cp EXCEPT !.next = "end", !.status = s]
        \/ UNCHANGED task /\ cp' = [cp EXCEPT !.next = "revise", !.status = "revising"]
    BY <1>15 DEF Dispatch
  <2>3. row.status \notin Gates BY <2>1 DEF Fits
  <2>4. CASE To("settle") /\ \E s \in {"rejected", "changes_requested"} :
                                cp' = [cp EXCEPT !.next = "end", !.status = s]
    <3>1. task'.pc = "settle" BY <1>8, <2>4 DEF Pcs
    <3>2. cp'.next = "end" /\ cp'.status \in {"rejected", "changes_requested"}
      BY <1>1, <2>4 DEF Checkpoint
    <3> QED BY <1>10, <2>1, <2>3, <3>1, <3>2 DEF Fits, Fresh, Over
  <2>5. CASE UNCHANGED task /\ cp' = [cp EXCEPT !.next = "revise", !.status = "revising"]
    <3>1. cp'.next = "revise" BY <1>1, <2>5 DEF Checkpoint
    <3> QED BY <1>10, <2>1, <2>3, <2>5, <3>1 DEF Fits, Fresh, Over
  <2> QED BY <2>2, <2>4, <2>5
<1>16. CASE PublishLoad
  <2>1. UNCHANGED cp /\ task.pc = "node" /\ cp.next = "publish" BY <1>16 DEF PublishLoad, Node
  <2>2. task'.pc \in {"push", "failing"} BY <1>8, <1>16 DEF PublishLoad, Pcs
  <2>3. row'.status = row.status
    <3>1. Voided.status = row.status BY <1>1 DEF Voided, Run
    <3> QED BY <1>16, <3>1 DEF PublishLoad
  <2> QED BY <1>10, <2>1, <2>2, <2>3 DEF Fits, Fresh, Over
<1>17. CASE Push
  <2>1. \/ /\ row'.status = "published" /\ To("settle")
           /\ cp' = [cp EXCEPT !.next = "end", !.status = "published"]
        \/ row'.status = "failed" /\ To("failing") /\ UNCHANGED cp
        \/ row' = row /\ To("failing") /\ UNCHANGED cp
    BY <1>1, <1>2, <1>17, PushedIs DEF Push
  <2>2. task.pc = "push" /\ row.status \notin Gates BY <1>17 DEF Push, Fits
  <2>3. CASE /\ row'.status = "published" /\ To("settle")
             /\ cp' = [cp EXCEPT !.next = "end", !.status = "published"]
    <3>1. cp'.next = "end" /\ cp'.status = "published" BY <1>1, <2>3 DEF Checkpoint
    <3>2. task'.pc = "settle" BY <1>8, <2>3 DEF Pcs
    <3> QED BY <1>10, <2>3, <3>1, <3>2 DEF Fits, Fresh, Over
  <2>4. CASE (row'.status = "failed" \/ row' = row) /\ To("failing") /\ UNCHANGED cp
    <3>1. task'.pc = "failing" BY <1>8, <2>4 DEF Pcs
    <3> QED BY <1>10, <2>2, <2>4, <3>1 DEF Fits, Fresh, Over
  <2> QED BY <2>1, <2>3, <2>4
<1>18. CASE AutoAccept
  <2>1. UNCHANGED <<row, cp>> /\ cp.next = "production" /\ task.pc = "settle"
    BY <1>18 DEF AutoAccept, AutoAccepts
  <2>2. task'.pc = "begin" /\ task'.resume = TRUE BY <1>18 DEF AutoAccept, NoTask
  <2>3. row.status \notin Gates BY <2>1 DEF Fits
  <2> QED BY <1>10, <2>1, <2>2, <2>3 DEF Fits, Fresh, Over
<1>19. CASE Settle
  <2>1. UNCHANGED cp /\ task.pc = "settle" /\ To("flush") BY <1>19 DEF Settle
  <2>2. task'.pc = "flush" BY <1>8, <2>1 DEF Pcs
  <2>3. cp.next \in {"production", "publish", "end"} /\ row.status \notin Gates BY <2>1 DEF Fits
  <2>4. CASE cp.next = "production"
    <3>1. SetStatus("hitl_1") BY <1>19, <2>4 DEF Settle
    <3>2. row'.status = "hitl_1" BY <1>9, <1>10, <3>1
    <3> QED BY <1>10, <2>1, <2>2, <2>4, <3>2 DEF Fits, Fresh, Over
  <2>5. CASE cp.next = "publish"
    <3>1. SetStatus("hitl_2") BY <1>19, <2>5 DEF Settle
    <3>2. row'.status = "hitl_2" BY <1>9, <1>10, <3>1
    <3> QED BY <1>10, <2>1, <2>2, <2>5, <3>2 DEF Fits, Fresh, Over
  <2>6. CASE cp.next = "end" /\ cp.status \in {"rejected", "changes_requested"}
    <3>1. SetStatus(cp.status) BY <1>19, <2>6 DEF Settle
    <3>2. row'.status = cp.status BY <1>9, <1>10, <2>6, <3>1
    <3> QED BY <1>10, <2>1, <2>2, <2>6, <3>2 DEF Fits, Fresh, Over
  <2>7. CASE cp.next = "end" /\ cp.status \notin {"rejected", "changes_requested"}
    <3>1. UNCHANGED row BY <1>19, <2>7 DEF Settle
    <3>2. row.status \notin _IN_FLIGHT_STATUSES \cup Gates BY <2>1, <2>7 DEF Fits, Fresh, Over
    <3> QED BY <1>10, <2>1, <2>2, <3>1, <3>2 DEF Fits, Fresh, Over
  <2> QED BY <2>3, <2>4, <2>5, <2>6, <2>7
<1>20. CASE Failing
  <2>1. row'.status = "failed" BY <1>9, <1>10, <1>20 DEF Failing
  <2>2. task'.pc = "flush" BY <1>8, <1>20 DEF Failing, Pcs
  <2> QED BY <1>10, <2>1, <2>2 DEF Fits, Fresh
<1>21. CASE Flush
  <2>1. UNCHANGED <<row, cp>> /\ task.pc = "flush" /\ task'.pc = "none" BY <1>21 DEF Flush, NoTask
  <2> QED BY <1>10, <2>1 DEF Fits, Fresh, Over
<1>22. CASE Throw
  <2>1. UNCHANGED <<row, cp>> BY <1>22 DEF Throw
  <2>2. task'.pc = "failing" BY <1>8, <1>22 DEF Throw, Pcs
  <2> QED BY <1>10, <2>1, <2>2 DEF Fits, Fresh
<1> QED
  BY <1>11, <1>12, <1>13, <1>14, <1>15, <1>16, <1>17, <1>18, <1>19, <1>20, <1>21, <1>22 DEF TaskStep

\* The requests.
LEMMA DriveHandlers ==
  ASSUME Types, DriveInv, NEW r \in Requests, Handler(r) \/ Arrive(r) \/ WipeFails(r),
         ~excused', row'.exists
  PROVE  Beginning' /\ (Owned' \/ Fits')
<1>1. /\ row \in Run /\ cp \in Checkpoint /\ task \in Task /\ req \in [Requests -> Handling]
  BY DEF Types, TypeOK
<1>2. ~excused /\ row.exists BY Monotone DEF Next
<1>3. Beginning /\ (Owned \/ Fits) BY <1>2 DEF DriveInv
<1>4. /\ "pending" \in Statuses /\ "pending" \in _IN_FLIGHT_STATUSES
      /\ "pending" \notin Gates /\ "hitl_1" # "pending" /\ "hitl_2" # "pending"
      /\ \A s \in {"published", "failed"} : s \notin _IN_FLIGHT_STATUSES \cup Gates
      /\ Gates = {"hitl_1", "hitl_2"}
  BY DEF Statuses, _IN_FLIGHT_STATUSES, Gates
<1>5. Answer(r) => req'[r].pc = "idle" /\ \A q \in Requests \ {r} : req'[q] = req[q]
  BY <1>1, HandlerAt
<1>6. ASSUME Spawn(NoTask), row'.status \notin Gates
      PROVE  Fits'
  <2>1. task'.pc = "begin" /\ task'.resume = FALSE BY <1>6, FreshTask
  <2>2. Fresh' BY <2>1 DEF Fresh
  <2> QED BY <1>4, <1>6, <2>1, <2>2 DEF Fits, Fresh
<1>7. CASE Start(r)
  <2>1. /\ req[r].pc = "start" /\ ~Live /\ row.status = "pending" /\ UNCHANGED row /\ Answer(r)
        /\ \A q \in Requests \ {r} : req[q].pc \in {"idle", "rows"}
    BY <1>3, <1>7 DEF Start, Beginning
  <2>2. Spawn(NoTask) BY <1>7, <2>1 DEF Start, Refused
  <2>3. Beginning' BY <1>5, <2>1 DEF Beginning
  <2> QED BY <1>4, <1>6, <2>1, <2>2, <2>3
<1>8. CASE Cancel(r)
  <2>1. /\ req[r].pc = "idle" /\ Take(r, [Idle EXCEPT !.pc = "rows"]) /\ UNCHANGED <<row, opened>>
        /\ task' = NoTask
    BY <1>8 DEF Cancel, Free, History
  <2>2. PICK x : x = [Idle EXCEPT !.pc = "rows"] OBVIOUS
  <2>3. x.pc = "rows" BY <2>2, TakenHandling
  <2>4. req'[r] = x /\ \A q \in Requests \ {r} : req'[q] = req[q]
    BY <1>1, <2>1, <2>2 DEF Take
  <2>5. ~Live' BY <2>1 DEF Live, NoTask
  <2>6. Beginning' BY <1>3, <2>1, <2>3, <2>4, <2>5 DEF Beginning
  <2>7. Owned' BY <2>3, <2>4 DEF Owned
  <2> QED BY <2>6, <2>7
<1>9. CASE WipeFails(r) \/ DeleteRows(r)
  <2>1. excused' = TRUE \/ row' = [row EXCEPT !.exists = FALSE]
    BY <1>9 DEF WipeFails, DeleteRows
  <2>2. ~[row EXCEPT !.exists = FALSE].exists BY <1>1 DEF Run
  <2>3. CASE excused' = TRUE BY <2>3, Zenon
  <2>4. CASE row' = [row EXCEPT !.exists = FALSE] BY <2>2, <2>4
  <2> QED BY <2>1, <2>3, <2>4
<1>10. ASSUME ~(Start(r) \/ Cancel(r) \/ WipeFails(r) \/ DeleteRows(r))
       PROVE  \A q \in Requests : req[q].pc # "start"
  <2>1. SUFFICES ASSUME NEW q \in Requests, req[q].pc = "start" PROVE FALSE OBVIOUS
  <2>2. /\ opened = {} /\ row.status = "pending"
        /\ \A s \in Requests \ {q} : req[s].pc \in {"idle", "rows"}
    BY <1>3, <2>1 DEF Beginning
  <2>3. CASE q = r
    BY <1>10, <2>1, <2>3 DEF Handler, Arrive, CommitHitl2, Deliver, Wipe, Relaunch, Republish, Regenerate,
       AnswerHitl1, ClaimRestart, ReadRepublish, ReadRegenerate, ReadHitl2, Free
  <2>4. CASE q # r
    <3>1. req[r].pc \in {"idle", "rows"} BY <2>2, <2>4
    <3>2. ~Handler(r)
      BY <1>10, <3>1 DEF Handler, CommitHitl2, Deliver, Wipe, Relaunch, Republish, Regenerate
    <3>3. ~Arrive(r)
      BY <1>10, <2>2 DEF Arrive, AnswerHitl1, ClaimRestart, ReadRepublish, ReadRegenerate, ReadHitl2,
                         _IN_MOTION_STATUSES, _IN_FLIGHT_STATUSES
    <3> QED BY <1>10, <3>2, <3>3
  <2> QED BY <2>3, <2>4
<1>11. ASSUME \A q \in Requests : req[q].pc # "start", req'[r].pc # "start",
              \A q \in Requests \ {r} : req'[q] = req[q]
       PROVE  Beginning'
  BY <1>11 DEF Beginning
<1>12. CASE Relaunch(r)
  <2>1. /\ Answer(r) /\ row' = Stored("pending") /\ (Spawn(NoTask) \/ Refused)
        /\ excused' = (excused \/ Live)
    BY <1>12 DEF Relaunch
  <2>2. ~Live BY <2>1, Zenon
  <2>3. Spawn(NoTask) BY <2>1, <2>2 DEF Refused
  <2>4. row'.status = "pending" BY <1>1, <1>2, <1>4, <2>1, StoredRow
  <2>5. \A q \in Requests : req[q].pc # "start"
    <3>1. req[r].pc = "relaunch" BY <1>12 DEF Relaunch
    <3> QED BY <1>10, <3>1 DEF Start, Cancel, WipeFails, DeleteRows, Free
  <2>6. Beginning' BY <1>5, <1>11, <2>1, <2>5
  <2> QED BY <1>4, <1>6, <2>3, <2>4, <2>6
<1>13. CASE Wipe(r)
  <2>1. Go(r, "relaunch") /\ req[r].pc = "wipe" BY <1>13 DEF Wipe
  <2>2. req'[r].pc = "relaunch" /\ \A q \in Requests \ {r} : req'[q] = req[q]
    BY <1>1, <2>1, HandlerAt
  <2>3. \A q \in Requests : req[q].pc # "start"
    <3>1. ~WipeFails(r)
      <4>1. SUFFICES ASSUME WipeFails(r) PROVE FALSE OBVIOUS
      <4>2. Answer(r) BY <4>1 DEF WipeFails
      <4> QED BY <1>5, <2>2, <4>2
    <3> QED BY <1>10, <2>1, <3>1 DEF Start, Cancel, DeleteRows, Free
  <2> QED BY <1>11, <2>2, <2>3 DEF Owned
<1>14. CASE ClaimRestart(r)
  <2>1. Take(r, [Idle EXCEPT !.pc = "wipe"]) /\ req[r].pc = "idle" /\ row.status = "failed"
    BY <1>14 DEF ClaimRestart, Free
  <2>2. PICK x : x = [Idle EXCEPT !.pc = "wipe"] OBVIOUS
  <2>3. x.pc = "wipe" BY <2>2, TakenHandling
  <2>4. req'[r] = x /\ \A q \in Requests \ {r} : req'[q] = req[q]
    BY <1>1, <2>1, <2>2 DEF Take
  <2>5. Beginning' BY <1>3, <1>4, <2>1, <2>3, <2>4 DEF Beginning
  <2> QED BY <2>3, <2>4, <2>5 DEF Owned
<1>15. ASSUME req[r].pc \notin {"start", "wipe", "relaunch", "rows"},
              \A q \in Requests \ {r} : req'[q] = req[q]
       PROVE  Owned => Owned'
  BY <1>15 DEF Owned
<1>16. ASSUME UNCHANGED cp, \/ UNCHANGED task
                            \/ task.pc = "none" /\ task'.pc = "begin" /\ task'.resume = TRUE,
              row'.status = row.status \/ row'.status \in {"published", "failed"}
       PROVE  Fits => Fits'
  <2>1. CASE row'.status = row.status
    <3>1. CASE UNCHANGED task BY <1>16, <2>1, <3>1 DEF Fits, Fresh, Over
    <3>2. CASE task.pc = "none" /\ task'.pc = "begin" /\ task'.resume = TRUE
      BY <1>16, <2>1, <3>2 DEF Fits, Fresh, Over
    <3> QED BY <1>16, <3>1, <3>2
  <2>2. CASE row'.status \in {"published", "failed"}
    <3>1. row'.status \notin _IN_FLIGHT_STATUSES \cup Gates BY <1>4, <2>2
    <3>2. task'.pc = "settle" => task.pc = "settle" BY <1>16
    <3> QED BY <1>4, <1>16, <3>1, <3>2 DEF Fits, Fresh, Over
  <2> QED BY <1>16, <2>1, <2>2
<1>17. CASE CommitHitl2(r) \/ Deliver(r) \/ Republish(r) \/ Regenerate(r)
  <2>1. req[r].pc \in {"commit", "deliver", "push", "regenerate"}
    BY <1>17 DEF CommitHitl2, Deliver, Republish, Regenerate
  <2>2. \A q \in Requests \ {r} : req'[q] = req[q]
    <3>1. CASE Answer(r) BY <1>5, <3>1
    <3>2. CASE req' = [req EXCEPT ![r].pc = "deliver", ![r].round = row'.round]
      BY <1>1, <3>2
    <3> QED BY <1>17, <3>1, <3>2 DEF CommitHitl2, Deliver, Republish, Regenerate
  <2>3. req'[r].pc # "start"
    <3>1. CASE Answer(r) BY <1>5, <3>1
    <3>2. CASE req' = [req EXCEPT ![r].pc = "deliver", ![r].round = row'.round]
      <4>1. PICK x : x = [req[r] EXCEPT !.pc = "deliver", !.round = row'.round] OBVIOUS
      <4>2. x.pc = "deliver" /\ req'[r] = x BY <1>1, <3>2, <4>1 DEF Handling
      <4> QED BY <4>2
    <3> QED BY <1>17, <3>1, <3>2 DEF CommitHitl2, Deliver, Republish, Regenerate
  <2>4. UNCHANGED cp BY <1>17 DEF CommitHitl2, Deliver, Republish, Regenerate
  <2>5. \/ UNCHANGED task
        \/ task.pc = "none" /\ task'.pc = "begin" /\ task'.resume = TRUE
    <3>1. CASE Deliver(r)
      <4>1. CASE Refused BY <4>1 DEF Refused
      <4>2. CASE ~Refused
        <5>1. /\ task' = [[NoTask EXCEPT !.resume = TRUE, !.gate = req[r].gate,
                                         !.d2 = req[r].decision, !.round = req[r].round]
                            EXCEPT !.pc = "begin"]
              /\ ~Live
          BY <3>1, <4>2 DEF Deliver, Spawn
        <5>2. req[r].gate \in Gates /\ req[r].decision \in Decisions \cup {"none"} /\ req[r].round \in Nat
          BY <1>1, <3>1 DEF Deliver, Types, Handling
        <5> QED BY <5>1, <5>2, ResumedTask DEF Live
      <4> QED BY <4>1, <4>2
    <3>2. CASE CommitHitl2(r) \/ Republish(r) \/ Regenerate(r)
      BY <3>2 DEF CommitHitl2, Republish, Regenerate
    <3> QED BY <1>17, <3>1, <3>2
  <2>6. row'.status = row.status \/ row'.status \in {"published", "failed"}
    <3>1. CASE Deliver(r) BY <3>1 DEF Deliver
    <3>2. CASE CommitHitl2(r)
      <4>1. req[r].decision \in Decisions BY <3>2 DEF CommitHitl2, Types
      <4> QED BY <1>1, <3>2, <4>1, DecidedIs DEF CommitHitl2
    <3>3. CASE Republish(r) BY <1>1, <1>2, <3>3, PushedIs DEF Republish
    <3>4. CASE Regenerate(r) BY <1>1, <3>4 DEF Regenerate, Run
    <3> QED BY <1>17, <3>1, <3>2, <3>3, <3>4
  <2>7. \A q \in Requests : req[q].pc # "start"
    <3>1. ~(Start(r) \/ Cancel(r) \/ WipeFails(r) \/ DeleteRows(r))
      BY <2>1 DEF Start, Cancel, WipeFails, DeleteRows, Free
    <3> QED BY <1>10, <3>1
  <2> QED BY <1>3, <1>11, <1>15, <1>16, <2>1, <2>2, <2>3, <2>4, <2>5, <2>6, <2>7
<1>18. CASE AnswerHitl1(r) \/ ReadRepublish(r) \/ ReadRegenerate(r) \/ \E d \in Decisions : ReadHitl2(r, d)
  <2>1. req[r].pc = "idle" /\ UNCHANGED <<row, cp, task>>
    BY <1>18 DEF AnswerHitl1, ReadRepublish, ReadRegenerate, ReadHitl2, Free
  <2>2. \E x : x.pc # "start" /\ x.pc # "rows" /\ Take(r, x)
    <3>1. CASE AnswerHitl1(r)
      <4>1. PICK x : x = [Idle EXCEPT !.pc = "deliver", !.gate = "hitl_1"] OBVIOUS
      <4>2. x.pc = "deliver" BY <4>1 DEF Idle
      <4> QED BY <3>1, <4>1, <4>2 DEF AnswerHitl1
    <3>2. CASE ReadRepublish(r)
      <4>1. PICK x : x = [Idle EXCEPT !.pc = "push"] OBVIOUS
      <4>2. x.pc = "push" BY <4>1 DEF Idle
      <4> QED BY <3>2, <4>1, <4>2 DEF ReadRepublish
    <3>3. CASE ReadRegenerate(r)
      <4>1. PICK x : x = [Idle EXCEPT !.pc = "regenerate", !.prior = row.round] OBVIOUS
      <4>2. x.pc = "regenerate" BY <4>1 DEF Idle
      <4> QED BY <3>3, <4>1, <4>2 DEF ReadRegenerate
    <3>4. ASSUME NEW d \in Decisions, ReadHitl2(r, d)
          PROVE  \E x : x.pc # "start" /\ x.pc # "rows" /\ Take(r, x)
      <4>1. PICK x : x = [Idle EXCEPT !.pc = "commit", !.gate = "hitl_2", !.decision = d, !.prior = row.round]
        OBVIOUS
      <4>2. x.pc = "commit" BY <4>1 DEF Idle
      <4> QED BY <3>4, <4>1, <4>2 DEF ReadHitl2
    <3> QED BY <1>18, <3>1, <3>2, <3>3, <3>4
  <2>3. PICK x : x.pc # "start" /\ x.pc # "rows" /\ Take(r, x) BY <2>2
  <2>4. req'[r] = x /\ \A q \in Requests \ {r} : req'[q] = req[q] BY <1>1, <2>3 DEF Take
  <2>5. \A q \in Requests : req[q].pc # "start"
    <3>1. ~(Start(r) \/ WipeFails(r) \/ DeleteRows(r)) BY <2>1 DEF Start, WipeFails, DeleteRows
    <3>2. ~Cancel(r)
      <4>1. SUFFICES ASSUME Cancel(r) PROVE FALSE OBVIOUS
      <4>2. PICK y : y = [Idle EXCEPT !.pc = "rows"] OBVIOUS
      <4>3. y.pc = "rows" BY <4>2, TakenHandling
      <4>4. req'[r] = y BY <1>1, <4>1, <4>2 DEF Cancel, Take
      <4> QED BY <2>3, <2>4, <4>3, <4>4
    <3> QED BY <1>10, <3>1, <3>2
  <2> QED BY <1>3, <1>11, <1>15, <1>16, <2>1, <2>3, <2>4, <2>5
<1> QED
  BY <1>7, <1>8, <1>9, <1>12, <1>13, <1>14, <1>17, <1>18 DEF Handler, Arrive

\* The loss of the process.
LEMMA DriveCrash ==
  ASSUME Types, DriveInv, Crash, ~excused', row'.exists
  PROVE  Beginning' /\ (Owned' \/ Fits')
<1>1. row \in Run BY DEF Types, TypeOK
<1>2. ~excused /\ row.exists BY Monotone DEF Next
<1>3. Beginning /\ (Owned \/ Fits) BY <1>2 DEF DriveInv
<1>4. Idle.pc = "idle" BY DEF Idle
<1>5. Beginning' BY <1>4 DEF Crash, Beginning
<1>6. row' = Recovered /\ ~(row.status \in Gates /\ Owned)
  <2>1. \/ row' = Recovered /\ excused' = (excused \/ (row.status \in Gates /\ Owned))
        \/ excused' = TRUE
    BY DEF Crash
  <2>2. excused' # TRUE BY Zenon
  <2>3. excused' = (excused \/ (row.status \in Gates /\ Owned)) => ~(row.status \in Gates /\ Owned)
    BY Zenon
  <2> QED BY <2>1, <2>2, <2>3
<1>7. "failed" \in Statuses /\ "failed" \notin _IN_FLIGHT_STATUSES \cup Gates
      /\ Gates = {"hitl_1", "hitl_2"}
  BY DEF Statuses, _IN_FLIGHT_STATUSES, Gates
<1>8. /\ row'.status \notin _IN_FLIGHT_STATUSES
      /\ row'.status \in Gates => row'.status = row.status
  BY <1>1, <1>2, <1>6, <1>7, StoredRow DEF Recovered
<1>9. task'.pc = "none" /\ UNCHANGED cp BY DEF Crash, NoTask
<1>10. row'.status \in Gates => Fits BY <1>3, <1>6, <1>8
<1>11. row'.status \in Gates => ~Over'
  <2>1. SUFFICES ASSUME row'.status \in Gates PROVE ~Over' OBVIOUS
  <2>2. cp.next \in {"production", "publish"} BY <1>7, <1>8, <1>10, <2>1 DEF Fits
  <2> QED BY <1>9, <2>2 DEF Over
<1>12. Fits' BY <1>7, <1>8, <1>9, <1>10, <1>11 DEF Fits, Fresh
<1> QED BY <1>5, <1>12

LEMMA DriveStep == Types /\ DriveInv /\ [Next]_vars => DriveInv'
<1> SUFFICES ASSUME Types, DriveInv, [Next]_vars PROVE DriveInv' OBVIOUS
<1>1. Rounds' BY RoundsStep DEF DriveInv
<1>2. ASSUME ~excused', row'.exists PROVE Beginning' /\ (Owned' \/ Fits')
  <2>1. CASE UNCHANGED vars
    BY <1>2, <2>1 DEF DriveInv, vars, Beginning, Owned, Fits, Fresh, Over, Live
  <2> QED BY <1>2, <2>1, DriveTask, DriveHandlers, DriveCrash DEF Next
<1> QED BY <1>1, <1>2 DEF DriveInv

LEMMA DriveInit == Init => DriveInv
<1> SUFFICES ASSUME Init PROVE DriveInv OBVIOUS
<1>1. Rounds BY InitIs, NewThread DEF Rounds
<1>2. Beginning /\ Owned BY InitIs DEF Beginning, Owned, Live
<1> QED BY <1>1, <1>2 DEF DriveInv

\* The run, its checkpoint, its task and its requests' handlers have the declared types.
THEOREM ExecutorTypes == Spec => []TypeOK
<1>1. Init => Types BY InitIs
<1>2. Types /\ [Next]_vars => Types' BY TypesStep
<1>3. Types => TypeOK BY DEF Types
<1> QED BY <1>1, <1>2, <1>3, PTL DEF Spec

\* A run in flight has a task, or a request about to start or delete it, unless a write was
\* lost in one of the named ways: whatever crashes, fails, is refused or is cancelled, no run
\* is stuck without a word (the recovery of _IN_FLIGHT_STATUSES in api/sse.py).
THEOREM RunStaysDriven == Spec => []RunIsDriven
<1>1. Init => Types /\ DriveInv BY InitIs, DriveInit
<1>2. Types /\ DriveInv /\ [Next]_vars => (Types /\ DriveInv)' BY TypesStep, DriveStep
<1>3. DriveInv => RunIsDriven BY DEF DriveInv, Fits, RunIsDriven, Live
<1> QED BY <1>1, <1>2, <1>3, PTL DEF Spec

\* A gate that the row shows open is where the checkpoint of the idle graph waits, so the
\* answer of a reviewer reaches it, also after any number of restarts of the process.
THEOREM GatesStayParked == Spec => []GateIsParked
<1>1. Init => Types /\ DriveInv BY InitIs, DriveInit
<1>2. Types /\ DriveInv /\ [Next]_vars => (Types /\ DriveInv)' BY TypesStep, DriveStep
<1>3. DriveInv => GateIsParked BY DEF DriveInv, Fits, GateIsParked
<1> QED BY <1>1, <1>2, <1>3, PTL DEF Spec

-----------------------------------------------------------------------------
(* What was decided is what was done. *)

\* A decision at gate 2 on its way to the graph, and in the hands of the task.
Waiting(r) == req[r].pc = "deliver" /\ req[r].gate = "hitl_2"
Holding == task.pc \in {"begin", "status", "node", "push"} /\ task.gate = "hitl_2"

\* The publish node has not acted on it yet.
Due == /\ Holding /\ task.pc # "push"
       /\ task.pc = "node" => cp.next = "publish"

\* The row says the same.
Recorded(d) == row.exists => row.d2 = d /\ (d = "approve" => row.approver)

\* Of a revision on its way, which the counter has and the graph has not begun.
Outstanding(n) == revised < asked /\ asked <= n

Counted == asked <= row.round /\ revised <= asked /\ (Cap > 0 => revised < Cap)
Approved == row.exists /\ row.status = "published" => row.d2 = "approve" /\ row.approver /\ row.post
ReadIsGood == \A r \in Requests : req[r].pc = "commit" => asked <= req[r].prior
OneWaits == \A r \in Requests : Waiting(r) =>
              /\ Recorded(req[r].decision)
              /\ req[r].decision = "request_changes" => Outstanding(req[r].round)
              /\ ~Holding
              /\ \A q \in Requests : Waiting(q) => q = r
OneIsHeld == /\ Holding => task.d2 \in Decisions /\ Recorded(task.d2)
             /\ Due /\ task.d2 = "request_changes" => Outstanding(task.round)
GraphKnows ==
    /\ (task.pc = "status" /\ task.resume) \/ task.pc = "node" =>
         (cp.next = "publish" => task.gate = "hitl_2" /\ cp.d2 = task.d2 /\ cp.round = task.round)
    /\ task.pc = "begin" /\ task.gate = "hitl_1" => cp.next \in {"production", "none"}
    /\ task.pc = "begin" /\ task.resume => task.gate \in Gates
    /\ task.pc = "push" => task.gate = "hitl_2" /\ task.d2 = "approve"

Decisive == Counted /\ Approved /\ ReadIsGood /\ OneWaits /\ OneIsHeld /\ GraphKnows
DecisionInv == ~contested /\ ~crossed => Decisive

LEMMA DecisionInit == Init => DecisionInv
<1> SUFFICES ASSUME Init PROVE Decisive BY DEF DecisionInv
<1>1. \A r \in Requests : req[r].pc \notin {"commit", "deliver"} BY InitIs
<1>2. Counted /\ Approved BY InitIs DEF Counted, Approved
<1>3. ReadIsGood /\ OneWaits BY <1>1 DEF ReadIsGood, OneWaits, Waiting
<1>4. OneIsHeld /\ GraphKnows BY InitIs DEF OneIsHeld, GraphKnows, Holding, Due
<1> QED BY <1>2, <1>3, <1>4 DEF Decisive

\* What happened out of order is never forgotten.
LEMMA Remembered ==
  ASSUME [Next]_vars
  PROVE  (~contested' => ~contested) /\ (~crossed' => ~crossed)
<1>1. \/ UNCHANGED contested
      \/ \E r \in Requests : contested' = (contested \/ ~Orderly(r))
      \/ contested' = (contested \/ row.status # "published")
      \/ \E r \in Requests : contested' = (contested \/ row.round # req[r].prior)
  BY DEF Next, TaskStep, Begin, StartFresh, Continue, Running, Strategy, Produce, Dispatch, PublishLoad,
         Node, Push, AutoAccept, Settle, Failing, Flush, Throw, Crash, Handler, Arrive, Start, CommitHitl2,
         Deliver, Wipe, WipeFails, Relaunch, DeleteRows, Republish, Regenerate, AnswerHitl1, ClaimRestart,
         Cancel, ReadRepublish, ReadRegenerate, ReadHitl2, History, vars
<1>2. \/ UNCHANGED crossed
      \/ \E r \in Requests : crossed' = (crossed \/ (req[r].gate = "hitl_1" /\ cp.next # "production"))
  BY DEF Next, TaskStep, Begin, StartFresh, Continue, Running, Strategy, Produce, Dispatch, PublishLoad,
         Node, Push, AutoAccept, Settle, Failing, Flush, Throw, Crash, Handler, Arrive, Start, CommitHitl2,
         Deliver, Wipe, WipeFails, Relaunch, DeleteRows, Republish, Regenerate, AnswerHitl1, ClaimRestart,
         Cancel, ReadRepublish, ReadRegenerate, ReadHitl2, History, vars
<1>3. ~contested' => ~contested BY <1>1, Zenon
<1>4. ~crossed' => ~crossed BY <1>2, Zenon
<1> QED BY <1>3, <1>4

\* The record of the decision and its counter are left alone.
RowKept == /\ row'.exists => row.exists
           /\ row'.d2 = row.d2 /\ row'.approver = row.approver /\ row'.round = row.round

\* A step of the task that begins no revision takes no decision further than it was.
LEMMA HeldFrame ==
  ASSUME Decisive, UNCHANGED <<req, asked, revised>>, RowKept,
         Holding' => Holding /\ task'.d2 = task.d2,
         Due' => Due /\ task'.round = task.round
  PROVE  (Counted /\ ReadIsGood /\ OneWaits /\ OneIsHeld)'
<1>1. Counted' BY DEF Decisive, Counted, RowKept
<1>2. ReadIsGood' BY DEF Decisive, ReadIsGood
<1>3. OneWaits' BY DEF Decisive, OneWaits, Waiting, Recorded, Outstanding, RowKept
<1>4. OneIsHeld'
  <2>1. Due' => Holding' BY DEF Due
  <2> QED BY <2>1 DEF Decisive, OneIsHeld, Recorded, Outstanding, RowKept
<1> QED BY <1>1, <1>2, <1>3, <1>4

\* A request that hands nothing to the graph leaves the decisions of the others.
LEMMA OthersFrame ==
  ASSUME Types, Decisive, NEW r \in Requests, UNCHANGED <<asked, revised>>,
         \A q \in Requests \ {r} : req'[q] = req[q], ~Waiting(r)',
         req'[r].pc = "commit" => asked <= req'[r].prior,
         row'.exists => row.exists /\ row'.d2 = row.d2 /\ row'.approver = row.approver,
         row.round <= row'.round, row'.round \in Nat,
         Holding' => Holding /\ task'.d2 = task.d2,
         Due' => Due /\ task'.round = task.round
  PROVE  (Counted /\ ReadIsGood /\ OneWaits /\ OneIsHeld)'
<1>0. asked \in Nat /\ row.round \in Nat BY DEF Types, TypeOK, Run
<1>1. Counted' BY <1>0 DEF Decisive, Counted
<1>2. ReadIsGood' BY DEF Decisive, ReadIsGood
<1>3. OneWaits'
  <2>1. \A q \in Requests : Waiting(q)' => Waiting(q) /\ req'[q] = req[q] BY DEF Waiting
  <2> QED BY <2>1 DEF Decisive, OneWaits, Recorded, Outstanding
<1>4. OneIsHeld'
  <2>1. Due' => Holding' BY DEF Due
  <2> QED BY <2>1 DEF Decisive, OneIsHeld, Recorded, Outstanding
<1> QED BY <1>1, <1>2, <1>3, <1>4

\* The steps of the task.
LEMMA DecisionTask ==
  ASSUME Types, Decisive, Setting, TaskStep \/ Throw
  PROVE  Decisive'
<1>1. /\ row \in Run /\ cp \in Checkpoint /\ task \in Task /\ req \in [Requests -> Handling]
      /\ asked \in Nat /\ revised \in Nat
  BY DEF Types, TypeOK
<1>2. UNCHANGED <<req, asked>>
  BY DEF TaskStep, Throw, Begin, StartFresh, Continue, Running, Strategy, Produce, Dispatch,
         PublishLoad, Node, Push, AutoAccept, Settle, Failing, Flush, History
<1>3. Counted /\ Approved /\ ReadIsGood /\ OneWaits /\ OneIsHeld /\ GraphKnows BY DEF Decisive
<1>4. \A pc \in Pcs : To(pc) => /\ task'.pc = pc /\ task'.resume = task.resume /\ task'.gate = task.gate
                                /\ task'.d2 = task.d2 /\ task'.round = task.round
  BY <1>1, TaskAt
<1>5. \A s \in Statuses : SetStatus(s) =>
        RowKept /\ row'.post = row.post /\ (row'.status = s \/ row'.status = row.status)
               /\ row'.exists = row.exists
  BY <1>1, SetStatusIs DEF RowKept
<1>6. \A s \in Statuses \ {"published"} : SetStatus(s) => Approved'
  BY <1>3, <1>5 DEF Approved, RowKept
<1>7. /\ Statuses = {"pending", "strategy", "production", "publishing", "hitl_1", "hitl_2",
                     "published", "rejected", "changes_requested", "failed"}
      /\ Pcs = {"none", "begin", "status", "node", "push", "settle", "failing", "flush"}
  BY DEF Statuses, Pcs, _IN_FLIGHT_STATUSES, Gates
<1>8. UNCHANGED row => RowKept /\ Approved' BY <1>3 DEF RowKept, Approved
\* A step that is done with the decision, or that only goes on.
<1>9. ASSUME RowKept, Approved', UNCHANGED revised, task'.pc \in {"settle", "failing", "flush", "none"}
      PROVE  Decisive'
  <2>1. ~Holding' BY <1>9 DEF Holding
  <2>2. ~Due' BY <2>1 DEF Due
  <2>3. (Counted /\ ReadIsGood /\ OneWaits /\ OneIsHeld)'
    BY <1>2, <1>9, <2>1, <2>2, HeldFrame
  <2>4. GraphKnows' BY <1>9 DEF GraphKnows
  <2> QED BY <1>9, <2>3, <2>4 DEF Decisive
<1>10. ASSUME RowKept, Approved', UNCHANGED revised, Holding' => Holding /\ task'.d2 = task.d2,
              Due' => Due /\ task'.round = task.round, GraphKnows'
       PROVE  Decisive'
  BY <1>2, <1>10, HeldFrame DEF Decisive
<1>11. CASE Begin
  <2>1. UNCHANGED <<row, revised>> /\ task.pc = "begin" BY <1>11 DEF Begin, History
  <2>2. CASE task.resume
    <3>1. cp' = Updated /\ To("status") BY <1>11, <2>2 DEF Begin
    <3>2. /\ task'.pc = "status" /\ task'.resume = task.resume /\ task'.gate = task.gate
          /\ task'.d2 = task.d2 /\ task'.round = task.round
      BY <1>4, <1>7, <3>1
    <3>3. Holding' => Holding BY <2>1, <3>2 DEF Holding
    <3>4. Due' => Due BY <2>1, <3>2, <3>3 DEF Due
    <3>5. task.gate = "hitl_2" => cp'.d2 = task.d2 /\ cp'.round = task.round
      BY <1>1, <3>1, UpdatedIs
    <3>6. task.gate # "hitl_2" => cp'.next # "publish"
      <4>1. task.gate # "hitl_2" => cp.next \in {"production", "none"}
        BY <1>3, <2>1, <2>2 DEF GraphKnows, Gates
      <4>2. cp'.next \notin {"end", "strategy"} => cp'.next = cp.next BY <1>1, <3>1, UpdatedIs
      <4> QED BY <4>1, <4>2
    <3>7. GraphKnows' BY <3>2, <3>5, <3>6 DEF GraphKnows
    <3> QED BY <1>8, <1>10, <2>1, <3>2, <3>3, <3>4, <3>7
  <2>3. CASE ~task.resume
    <3>1. To("status") \/ To("failing") BY <1>11, <2>3 DEF Begin
    <3>2. CASE To("failing") BY <1>4, <1>7, <1>8, <1>9, <2>1, <3>2
    <3>3. CASE To("status")
      <4>1. /\ task'.pc = "status" /\ task'.resume = task.resume /\ task'.gate = task.gate
            /\ task'.d2 = task.d2 /\ task'.round = task.round
        BY <1>4, <1>7, <3>3
      <4>2. Holding' => Holding BY <2>1, <4>1 DEF Holding
      <4>3. Due' => Due BY <2>1, <4>1, <4>2 DEF Due
      <4>4. GraphKnows' BY <2>3, <4>1 DEF GraphKnows
      <4> QED BY <1>8, <1>10, <2>1, <4>1, <4>2, <4>3, <4>4
    <3> QED BY <3>1, <3>2, <3>3
  <2> QED BY <2>2, <2>3
<1>12. CASE StartFresh
  <2>1. RowKept /\ Approved' BY <1>5, <1>6, <1>7, <1>12 DEF StartFresh
  <2>2. UNCHANGED revised /\ task.pc = "status" BY <1>12 DEF StartFresh, Running, History
  <2>3. task'.pc = "node" /\ task'.gate = task.gate /\ task'.d2 = task.d2 /\ task'.round = task.round
    BY <1>4, <1>7, <1>12 DEF StartFresh
  <2>4. cp'.next = "strategy" BY <1>12, NewThread DEF StartFresh
  <2>5. Holding' => Holding BY <2>2, <2>3 DEF Holding
  <2>6. ~Due' BY <2>3, <2>4 DEF Due
  <2>7. GraphKnows' BY <2>3, <2>4 DEF GraphKnows
  <2> QED BY <1>10, <2>1, <2>2, <2>3, <2>5, <2>6, <2>7
<1>13. CASE Continue
  <2>1. UNCHANGED <<cp, revised>> /\ task.pc = "status" /\ task.resume
    BY <1>13 DEF Continue, Running, History
  <2>2. CASE cp.next = "end"
    <3>1. UNCHANGED row /\ task'.pc = "settle" BY <1>4, <1>7, <1>13, <2>2 DEF Continue
    <3> QED BY <1>8, <1>9, <2>1, <3>1
  <2>3. CASE cp.next # "end"
    <3>1. SetStatus("publishing") \/ SetStatus("production") BY <1>13, <2>3 DEF Continue
    <3>2. RowKept /\ Approved' BY <1>5, <1>6, <1>7, <3>1
    <3>3. task'.pc = "node" /\ task'.gate = task.gate /\ task'.d2 = task.d2 /\ task'.round = task.round
      BY <1>4, <1>7, <1>13, <2>3 DEF Continue
    <3>4. Holding' => Holding BY <2>1, <3>3 DEF Holding
    <3>5. Due' => Due BY <2>1, <3>3, <3>4 DEF Due
    <3>6. GraphKnows' BY <1>3, <2>1, <3>3 DEF GraphKnows
    <3> QED BY <1>10, <2>1, <3>2, <3>3, <3>4, <3>5, <3>6
  <2> QED BY <2>2, <2>3
<1>14. CASE Strategy \/ Produce
  <2>1. UNCHANGED <<row, revised>> /\ (To("settle") \/ To("failing")) BY <1>14 DEF Strategy, Produce
  <2>2. task'.pc \in {"settle", "failing"} BY <1>4, <1>7, <2>1
  <2> QED BY <1>8, <1>9, <2>1, <2>2
<1>15. CASE Dispatch
  <2>1. UNCHANGED row /\ task.pc = "node" /\ cp.next = "publish" /\ cp.d2 # "approve"
    BY <1>15 DEF Dispatch, Node
  <2>2. task.gate = "hitl_2" /\ cp.d2 = task.d2 /\ cp.round = task.round BY <1>3, <2>1 DEF GraphKnows
  <2>3. Holding /\ Due BY <2>1, <2>2 DEF Holding, Due
  <2>4. CASE To("settle") /\ UNCHANGED revised
    <3>1. task'.pc = "settle" BY <1>4, <1>7, <2>4
    <3> QED BY <1>8, <1>9, <2>1, <2>4, <3>1
  <2>5. CASE /\ cp.d2 # "reject" /\ cp.round < Cap /\ UNCHANGED task /\ revised' = revised + 1
             /\ cp' = [cp EXCEPT !.next = "revise", !.status = "revising"]
    <3>1. task.d2 = "request_changes" BY <1>3, <2>1, <2>2, <2>3, <2>5 DEF OneIsHeld, Decisions
    <3>2. revised < asked /\ asked <= task.round BY <1>3, <2>3, <3>1 DEF OneIsHeld, Outstanding
    <3>3. task.round \in Nat BY <1>1 DEF Task
    <3>4. revised' <= asked /\ revised' < Cap BY <1>1, <2>2, <2>5, <3>2, <3>3 DEF Setting
    <3>5. Counted' BY <1>2, <1>3, <2>1, <3>4 DEF Counted
    <3>6. cp'.next = "revise" BY <1>1, <2>5 DEF Checkpoint
    <3>7. ~Due' BY <2>1, <2>5, <3>6 DEF Due
    <3>8. ReadIsGood' BY <1>2, <1>3 DEF ReadIsGood
    <3>9. OneWaits' BY <1>2, <1>3, <2>3 DEF OneWaits, Waiting
    <3>10. OneIsHeld' BY <1>3, <2>1, <2>5, <3>7 DEF OneIsHeld, Holding, Recorded
    <3>11. GraphKnows' BY <2>1, <2>5, <3>6 DEF GraphKnows
    <3> QED BY <1>8, <2>1, <3>5, <3>8, <3>9, <3>10, <3>11 DEF Decisive
  <2> QED BY <1>15, <2>4, <2>5 DEF Dispatch
<1>16. CASE PublishLoad
  <2>1. UNCHANGED <<cp, revised>> /\ task.pc = "node" /\ cp.next = "publish" /\ cp.d2 = "approve"
    BY <1>16 DEF PublishLoad, Node
  <2>2. task.gate = "hitl_2" /\ cp.d2 = task.d2 BY <1>3, <2>1 DEF GraphKnows
  <2>3. Holding BY <2>1, <2>2 DEF Holding
  <2>4. CASE To("failing") /\ UNCHANGED row
    BY <1>4, <1>7, <1>8, <1>9, <2>1, <2>4
  <2>5. CASE To("push") /\ UNCHANGED row
    <3>1. task'.pc = "push" /\ task'.gate = task.gate /\ task'.d2 = task.d2 BY <1>4, <1>7, <2>5
    <3>2. ~Due' BY <3>1 DEF Due
    <3>3. GraphKnows' BY <2>1, <2>2, <3>1 DEF GraphKnows
    <3> QED BY <1>8, <1>10, <2>1, <2>3, <2>5, <3>1, <3>2, <3>3
  <2>6. CASE To("failing") /\ NeedsPin /\ row' = Voided
    <3>1. task'.pc = "failing" BY <1>4, <1>7, <2>6
    <3>2. /\ row'.exists = row.exists /\ row'.status = row.status /\ row'.round = row.round
          /\ row'.post = row.post
      BY <1>1, <2>6 DEF Voided, Run
    <3>3. Counted' BY <1>2, <1>3, <2>1, <3>2 DEF Counted
    <3>4. Approved' BY <1>3, <2>6, <3>2 DEF Approved, NeedsPin
    <3>5. ReadIsGood' BY <1>2, <1>3 DEF ReadIsGood
    <3>6. OneWaits' BY <1>2, <1>3, <2>3 DEF OneWaits, Waiting
    <3>7. OneIsHeld' /\ GraphKnows' BY <3>1 DEF OneIsHeld, GraphKnows, Holding, Due
    <3> QED BY <3>3, <3>4, <3>5, <3>6, <3>7 DEF Decisive
  <2> QED BY <1>16, <2>4, <2>5, <2>6 DEF PublishLoad
<1>17. CASE Push
  <2>1. UNCHANGED revised /\ task.pc = "push" BY <1>17 DEF Push, History
  <2>2. /\ row'.exists = row.exists /\ row'.d2 = row.d2 /\ row'.approver = row.approver
        /\ row'.round = row.round
        /\ \/ To("settle") /\ (row.exists => row'.post)
           \/ To("failing") /\ (row.exists => row'.status = "failed")
           \/ To("failing") /\ row' = row
    BY <1>1, <1>17, PushedIs DEF Push
  <2>3. row.exists => row.d2 = "approve" /\ row.approver
    <3>1. task.gate = "hitl_2" /\ task.d2 = "approve" BY <1>3, <2>1 DEF GraphKnows
    <3>2. Holding BY <2>1, <3>1 DEF Holding
    <3> QED BY <1>3, <3>1, <3>2 DEF OneIsHeld, Recorded
  <2>4. Approved' BY <1>3, <2>2, <2>3 DEF Approved
  <2>5. RowKept BY <2>2 DEF RowKept
  <2>6. task'.pc \in {"settle", "failing"} BY <1>4, <1>7, <2>2
  <2> QED BY <1>9, <2>1, <2>4, <2>5, <2>6
<1>18. CASE AutoAccept
  <2>1. UNCHANGED <<row, cp, revised>> /\ cp.next = "production"
    BY <1>18 DEF AutoAccept, AutoAccepts, History
  <2>2. task'.pc = "begin" /\ task'.gate = "hitl_1" BY <1>18 DEF AutoAccept, NoTask
  <2>3. ~Holding' BY <2>2 DEF Holding
  <2>4. ~Due' BY <2>3 DEF Due
  <2>5. GraphKnows' BY <2>1, <2>2 DEF GraphKnows, Gates
  <2> QED BY <1>8, <1>10, <2>1, <2>3, <2>4, <2>5
<1>19. CASE Settle
  <2>1. UNCHANGED revised /\ To("flush") BY <1>19 DEF Settle
  <2>2. task'.pc = "flush" BY <1>4, <1>7, <2>1
  <2>3. UNCHANGED row \/ \E s \in Statuses \ {"published"} : SetStatus(s)
    BY <1>7, <1>19 DEF Settle
  <2> QED BY <1>5, <1>6, <1>8, <1>9, <2>1, <2>2, <2>3
<1>20. CASE Failing
  <2>1. UNCHANGED revised /\ SetStatus("failed") /\ To("flush") BY <1>20 DEF Failing, History
  <2>2. task'.pc = "flush" BY <1>4, <1>7, <2>1
  <2> QED BY <1>5, <1>6, <1>7, <1>9, <2>1, <2>2
<1>21. CASE Flush \/ Throw
  <2>1. UNCHANGED <<row, revised>> BY <1>21 DEF Flush, Throw, History
  <2>2. task'.pc \in {"none", "failing"} BY <1>4, <1>7, <1>21 DEF Flush, Throw, NoTask
  <2> QED BY <1>8, <1>9, <2>1, <2>2
<1> QED
  BY <1>11, <1>12, <1>13, <1>14, <1>15, <1>16, <1>17, <1>18, <1>19, <1>20, <1>21 DEF TaskStep

\* The requests.
LEMMA DecisionHandlers ==
  ASSUME Types, Decisive, NEW r \in Requests, Handler(r) \/ Arrive(r) \/ WipeFails(r),
         ~contested', ~crossed'
  PROVE  Decisive'
<1>1. /\ row \in Run /\ cp \in Checkpoint /\ task \in Task /\ req \in [Requests -> Handling]
      /\ asked \in Nat /\ revised \in Nat /\ row.round \in Nat
  BY DEF Types, TypeOK, Run
<1>2. Counted /\ Approved /\ ReadIsGood /\ OneWaits /\ OneIsHeld /\ GraphKnows BY DEF Decisive
<1>3. Answer(r) => req'[r].pc = "idle" /\ \A q \in Requests \ {r} : req'[q] = req[q]
  BY <1>1, HandlerAt
<1>4. ASSUME UNCHANGED task, UNCHANGED cp \/ cp' = NoThread
      PROVE  (Holding' => Holding /\ task'.d2 = task.d2) /\ (Due' => Due /\ task'.round = task.round)
               /\ GraphKnows'
  <2>1. cp'.next = "publish" => UNCHANGED cp BY <1>4, NewThread
  <2>2. Holding' => Holding BY <1>4 DEF Holding
  <2>3. Due' => Due BY <1>4, <2>1, <2>2 DEF Due
  <2>4. GraphKnows' BY <1>2, <1>4, <2>1, NewThread DEF GraphKnows
  <2> QED BY <1>4, <2>2, <2>3, <2>4
<1>5. ASSUME task' = NoTask \/ Spawn(NoTask)
      PROVE  ~Holding' /\ ~Due' /\ GraphKnows'
  <2>1. /\ task'.pc \in {"none", "begin"} /\ task'.gate = "none"
        /\ task'.pc = "begin" => ~task'.resume
    <3>1. CASE task' = NoTask BY <3>1 DEF NoTask
    <3>2. CASE Spawn(NoTask) BY <3>2, FreshTask
    <3> QED BY <1>5, <3>1, <3>2
  <2>2. ~Holding' BY <2>1 DEF Holding
  <2>3. ~Due' BY <2>2 DEF Due
  <2>4. GraphKnows' BY <2>1 DEF GraphKnows, Gates
  <2> QED BY <2>2, <2>3, <2>4
<1>6. ASSUME UNCHANGED <<asked, revised>>, \A q \in Requests \ {r} : req'[q] = req[q], ~Waiting(r)',
             req'[r].pc = "commit" => asked <= req'[r].prior,
             row'.exists => row.exists /\ row'.d2 = row.d2 /\ row'.approver = row.approver,
             row.round <= row'.round, row'.round \in Nat, Approved',
             Holding' => Holding /\ task'.d2 = task.d2, Due' => Due /\ task'.round = task.round,
             GraphKnows'
      PROVE  Decisive'
  BY <1>6, OthersFrame DEF Decisive
<1>7. ASSUME req'[r].pc = "idle"
      PROVE  ~Waiting(r)' /\ (req'[r].pc = "commit" => asked <= req'[r].prior)
  BY <1>7 DEF Waiting
<1>8. row.round <= row.round BY <1>1
<1>9. UNCHANGED row => Approved' BY <1>2 DEF Approved
<1>10. CASE Start(r)
  <2>1. Answer(r) /\ UNCHANGED <<row, cp, asked, revised>> /\ (Spawn(NoTask) \/ UNCHANGED task)
    BY <1>10 DEF Start, Refused, History
  <2> QED BY <1>1, <1>3, <1>4, <1>5, <1>6, <1>7, <1>8, <1>9, <2>1
<1>11. CASE Relaunch(r)
  <2>1. /\ Answer(r) /\ row' = Stored("pending") /\ (Spawn(NoTask) \/ UNCHANGED task)
        /\ UNCHANGED <<cp, asked, revised>>
    BY <1>11 DEF Relaunch, Refused, History
  <2>2. "pending" \in Statuses BY DEF Statuses, _IN_FLIGHT_STATUSES
  <2>3. /\ row'.exists = row.exists /\ row'.d2 = row.d2 /\ row'.approver = row.approver
        /\ row'.round = row.round /\ (row.exists => row'.status = "pending")
    BY <1>1, <2>1, <2>2, StoredRow
  <2>4. Approved' BY <2>3 DEF Approved
  <2> QED BY <1>1, <1>3, <1>4, <1>5, <1>6, <1>7, <1>8, <2>1, <2>3, <2>4
<1>12. CASE ClaimRestart(r)
  <2>1. /\ Take(r, [Idle EXCEPT !.pc = "wipe"]) /\ row' = Stored("pending") /\ row.exists
        /\ UNCHANGED <<cp, task, asked, revised>>
    BY <1>12 DEF ClaimRestart, History
  <2>2. PICK x : x = [Idle EXCEPT !.pc = "wipe"] OBVIOUS
  <2>3. x.pc = "wipe" BY <2>2, TakenHandling
  <2>4. req'[r] = x /\ \A q \in Requests \ {r} : req'[q] = req[q] BY <1>1, <2>1, <2>2 DEF Take
  <2>5. "pending" \in Statuses BY DEF Statuses, _IN_FLIGHT_STATUSES
  <2>6. /\ row'.exists = row.exists /\ row'.d2 = row.d2 /\ row'.approver = row.approver
        /\ row'.round = row.round /\ row'.status = "pending"
    BY <1>1, <2>1, <2>5, StoredRow
  <2>7. Approved' BY <2>6 DEF Approved
  <2>8. ~Waiting(r)' BY <2>3, <2>4 DEF Waiting
  <2> QED BY <1>1, <1>4, <1>6, <1>8, <2>1, <2>3, <2>4, <2>6, <2>7, <2>8
<1>13. CASE Wipe(r) \/ WipeFails(r)
  <2>1. /\ UNCHANGED <<row, task, asked, revised>> /\ (UNCHANGED cp \/ cp' = NoThread)
        /\ Go(r, "relaunch") \/ Answer(r)
    BY <1>13 DEF Wipe, WipeFails, History
  <2>2. /\ req'[r].pc \in {"idle", "relaunch"} /\ \A q \in Requests \ {r} : req'[q] = req[q]
    BY <1>1, <2>1, HandlerAt
  <2>3. ~Waiting(r)' BY <2>2 DEF Waiting
  <2> QED BY <1>1, <1>4, <1>6, <1>8, <1>9, <2>1, <2>2, <2>3
<1>14. CASE Cancel(r)
  <2>1. /\ Take(r, [Idle EXCEPT !.pc = "rows"]) /\ task' = NoTask
        /\ UNCHANGED <<row, asked, revised>>
    BY <1>14 DEF Cancel, History
  <2>2. PICK x : x = [Idle EXCEPT !.pc = "rows"] OBVIOUS
  <2>3. x.pc = "rows" BY <2>2, TakenHandling
  <2>4. req'[r] = x /\ \A q \in Requests \ {r} : req'[q] = req[q] BY <1>1, <2>1, <2>2 DEF Take
  <2>5. ~Waiting(r)' BY <2>3, <2>4 DEF Waiting
  <2> QED BY <1>1, <1>5, <1>6, <1>8, <1>9, <2>1, <2>3, <2>4, <2>5
<1>15. CASE DeleteRows(r)
  <2>1. /\ Answer(r) /\ UNCHANGED <<cp, task, asked, revised>>
        /\ row' = [row EXCEPT !.exists = FALSE] \/ UNCHANGED row
    BY <1>15 DEF DeleteRows, History
  <2>2. CASE row' = [row EXCEPT !.exists = FALSE]
    <3>1. ~row'.exists /\ row'.round = row.round BY <1>1, <2>2 DEF Run
    <3>2. Approved' BY <3>1 DEF Approved
    <3> QED BY <1>1, <1>3, <1>4, <1>6, <1>7, <1>8, <2>1, <3>1, <3>2
  <2>3. CASE UNCHANGED row BY <1>1, <1>3, <1>4, <1>6, <1>7, <1>8, <1>9, <2>1, <2>3
  <2> QED BY <2>1, <2>2, <2>3
<1>16. CASE Republish(r)
  <2>1. /\ Answer(r) /\ Pushed(TRUE, TRUE, TRUE) /\ UNCHANGED <<cp, task, asked, revised>>
        /\ contested' = (contested \/ row.status # "published")
    BY <1>16 DEF Republish
  <2>2. row.status = "published" BY <2>1, Zenon
  <2>3. /\ row'.exists = row.exists /\ row'.d2 = row.d2 /\ row'.approver = row.approver
        /\ row'.round = row.round
        /\ \/ (row.exists => row'.post)
           \/ (row.exists => row'.status = "failed")
           \/ row' = row
    BY <1>1, <2>1, PushedIs
  <2>4. Approved' BY <1>2, <2>2, <2>3 DEF Approved
  <2> QED BY <1>1, <1>3, <1>4, <1>6, <1>7, <1>8, <2>1, <2>3, <2>4
<1>17. CASE Regenerate(r)
  <2>1. /\ Answer(r) /\ UNCHANGED <<cp, task, asked, revised>>
        /\ row' = [row EXCEPT !.round = req[r].prior + 1] \/ UNCHANGED row
        /\ contested' = (contested \/ row.round # req[r].prior)
    BY <1>17 DEF Regenerate
  <2>2. row.round = req[r].prior BY <2>1, Zenon
  <2>3. CASE row' = [row EXCEPT !.round = req[r].prior + 1]
    <3>1. /\ row'.exists = row.exists /\ row'.d2 = row.d2 /\ row'.approver = row.approver
          /\ row'.status = row.status /\ row'.post = row.post /\ row'.round = row.round + 1
      BY <1>1, <2>2, <2>3 DEF Run
    <3>2. row.round <= row'.round /\ row'.round \in Nat BY <1>1, <3>1
    <3>3. Approved' BY <1>2, <3>1 DEF Approved
    <3> QED BY <1>3, <1>4, <1>6, <1>7, <2>1, <3>1, <3>2, <3>3
  <2>4. CASE UNCHANGED row BY <1>1, <1>3, <1>4, <1>6, <1>7, <1>8, <1>9, <2>1, <2>4
  <2> QED BY <2>1, <2>3, <2>4
<1>18. ASSUME NEW x, x.pc # "deliver" \/ x.gate # "hitl_2", x.pc = "commit" => x.prior = row.round,
              req' = [req EXCEPT ![r] = x], UNCHANGED <<row, cp, task, asked, revised>>
       PROVE  Decisive'
  <2>1. req'[r] = x /\ \A q \in Requests \ {r} : req'[q] = req[q] BY <1>1, <1>18
  <2>2. ~Waiting(r)' BY <1>18, <2>1 DEF Waiting
  <2>3. req'[r].pc = "commit" => asked <= req'[r].prior BY <1>2, <1>18, <2>1 DEF Counted
  <2> QED BY <1>1, <1>4, <1>6, <1>8, <1>9, <1>18, <2>1, <2>2, <2>3
<1>19. CASE AnswerHitl1(r)
  <2>1. PICK x : x = [Idle EXCEPT !.pc = "deliver", !.gate = "hitl_1"] OBVIOUS
  <2>2. x.pc = "deliver" /\ x.gate = "hitl_1" BY <2>1 DEF Idle
  <2> QED BY <1>18, <1>19, <2>1, <2>2 DEF AnswerHitl1, Take, History
<1>20. CASE ReadRepublish(r)
  <2>1. PICK x : x = [Idle EXCEPT !.pc = "push"] OBVIOUS
  <2>2. x.pc = "push" BY <2>1 DEF Idle
  <2> QED BY <1>18, <1>20, <2>1, <2>2 DEF ReadRepublish, Take, History
<1>21. CASE ReadRegenerate(r)
  <2>1. PICK x : x = [Idle EXCEPT !.pc = "regenerate", !.prior = row.round] OBVIOUS
  <2>2. x.pc = "regenerate" BY <2>1 DEF Idle
  <2> QED BY <1>18, <1>21, <2>1, <2>2 DEF ReadRegenerate, Take, History
<1>22. ASSUME NEW d \in Decisions, ReadHitl2(r, d) PROVE Decisive'
  <2>1. PICK x : x = [Idle EXCEPT !.pc = "commit", !.gate = "hitl_2", !.decision = d, !.prior = row.round]
    OBVIOUS
  <2>2. x.pc = "commit" /\ x.prior = row.round BY <2>1 DEF Idle
  <2> QED BY <1>18, <1>22, <2>1, <2>2 DEF ReadHitl2, Take, History
<1>23. CASE Deliver(r)
  <2>1. /\ Answer(r) /\ UNCHANGED <<row, cp, asked, revised>> /\ req[r].pc = "deliver"
    BY <1>23 DEF Deliver
  <2>2. req'[r].pc = "idle" /\ (\A q \in Requests \ {r} : req'[q] = req[q]) /\ ~Waiting(r)'
    BY <1>3, <1>7, <2>1
  <2>3. CASE UNCHANGED task
    BY <1>1, <1>3, <1>4, <1>6, <1>7, <1>8, <1>9, <2>1, <2>3
  <2>4. CASE /\ Spawn([NoTask EXCEPT !.resume = TRUE, !.gate = req[r].gate,
                                  !.d2 = req[r].decision, !.round = req[r].round])
             /\ crossed' = (crossed \/ (req[r].gate = "hitl_1" /\ cp.next # "production"))
    <3>1. ~(req[r].gate = "hitl_1" /\ cp.next # "production") BY <2>4, Zenon
    <3>2. /\ ~Live
          /\ task' = [[NoTask EXCEPT !.resume = TRUE, !.gate = req[r].gate,
                                     !.d2 = req[r].decision, !.round = req[r].round]
                        EXCEPT !.pc = "begin"]
      BY <2>4 DEF Spawn
    <3>3. /\ req[r].gate \in Gates /\ req[r].decision \in Decisions \cup {"none"} /\ req[r].round \in Nat
          /\ req[r].gate = "hitl_2" => req[r].decision \in Decisions
      BY <1>1, <2>1 DEF Types, Handling
    <3>4. /\ task'.pc = "begin" /\ task'.gate = req[r].gate /\ task'.d2 = req[r].decision
          /\ task'.round = req[r].round /\ task'.resume = TRUE
      BY <3>2, <3>3, ResumedTask
    <3>5. GraphKnows' BY <2>1, <3>1, <3>3, <3>4 DEF GraphKnows, Gates
    <3>6. CASE req[r].gate = "hitl_1"
      <4>1. ~Holding' BY <3>4, <3>6 DEF Holding
      <4>2. ~Due' BY <4>1 DEF Due
      <4> QED BY <1>1, <1>6, <1>7, <1>8, <1>9, <2>1, <2>2, <3>5, <4>1, <4>2
    <3>7. CASE req[r].gate = "hitl_2"
      <4>1. Waiting(r) BY <2>1, <3>7 DEF Waiting
      <4>2. /\ Recorded(req[r].decision)
            /\ req[r].decision = "request_changes" => Outstanding(req[r].round)
            /\ \A q \in Requests \ {r} : ~Waiting(q)
        BY <1>2, <4>1 DEF OneWaits
      <4>3. OneWaits' BY <2>2, <4>2 DEF OneWaits, Waiting
      <4>4. OneIsHeld' BY <2>1, <3>3, <3>4, <3>7, <4>2 DEF OneIsHeld, Recorded, Outstanding
      <4>5. Counted' /\ Approved' BY <1>2, <2>1 DEF Counted, Approved
      <4>6. ReadIsGood' BY <1>2, <2>1, <2>2 DEF ReadIsGood
      <4> QED BY <3>5, <4>3, <4>4, <4>5, <4>6 DEF Decisive
    <3> QED BY <3>3, <3>6, <3>7 DEF Gates
  <2> QED BY <1>23, <2>3, <2>4 DEF Deliver, Refused
<1>24. CASE CommitHitl2(r)
  <2>1. UNCHANGED <<cp, task, revised>> /\ req[r].pc = "commit" BY <1>24 DEF CommitHitl2
  <2>2. req[r].decision \in Decisions /\ req[r].gate = "hitl_2" /\ req[r].prior \in Nat
        /\ asked <= req[r].prior
    BY <1>1, <1>2, <2>1 DEF Types, Handling, ReadIsGood
  <2>3. CASE Answer(r) /\ UNCHANGED <<row, asked>>
    BY <1>1, <1>3, <1>4, <1>6, <1>7, <1>8, <1>9, <2>1, <2>3
  <2>4. CASE /\ req[r].decision = "request_changes" => row.exists /\ row.round < Cap
             /\ row' = IF row.exists THEN Decided(r) ELSE row
             /\ req' = [req EXCEPT ![r].pc = "deliver", ![r].round = row'.round]
             /\ asked' = asked + (IF req[r].decision = "request_changes" THEN 1 ELSE 0)
             /\ contested' = (contested \/ ~Orderly(r))
    <3>1. Orderly(r) BY <2>4, Zenon
    <3>2. /\ row.status = "hitl_2" /\ ~Live
          /\ \A q \in Requests \ {r} : req[q].pc \notin {"commit", "deliver"}
      BY <3>1 DEF Orderly
    <3>3. /\ row'.exists = row.exists /\ row'.status = row.status
          /\ row.exists => row'.d2 = req[r].decision /\ (row'.approver <=> req[r].decision = "approve")
          /\ row.exists => row'.round = (IF req[r].decision = "request_changes" THEN row.round + 1
                                         ELSE req[r].prior)
          /\ ~row.exists => row'.round = row.round
      BY <1>1, <2>2, <2>4, DecidedIs
    <3>4. PICK x : x = [req[r] EXCEPT !.pc = "deliver", !.round = row'.round] OBVIOUS
    <3>5. x.pc = "deliver" /\ x.gate = "hitl_2" /\ x.decision = req[r].decision /\ x.round = row'.round
      BY <1>1, <2>2, <3>4 DEF Handling
    <3>6. req'[r] = x /\ \A q \in Requests \ {r} : req'[q] = req[q]
      BY <1>1, <2>4, <3>4
    <3>7. ~Holding' /\ ~Due' BY <2>1, <3>2 DEF Holding, Due, Live
    <3>8. asked' <= row'.round /\ revised <= asked'
          /\ (req[r].decision = "request_changes" => revised < asked')
      BY <1>1, <1>2, <2>2, <2>4, <3>3 DEF Counted
    <3>9. Counted' BY <1>2, <2>1, <3>8 DEF Counted
    <3>10. Approved' BY <3>2, <3>3 DEF Approved
    <3>11. ReadIsGood' BY <3>2, <3>5, <3>6 DEF ReadIsGood
    <3>12. OneWaits'
      <4>1. \A q \in Requests : Waiting(q)' => q = r BY <3>2, <3>6 DEF Waiting
      <4>2. row'.exists => row'.d2 = x.decision /\ (x.decision = "approve" => row'.approver)
        BY <3>3, <3>5
      <4>3. x.decision = "request_changes" => revised' < asked' /\ asked' <= x.round
        BY <2>1, <3>5, <3>8
      <4> QED BY <3>6, <3>7, <4>1, <4>2, <4>3 DEF OneWaits, Recorded, Outstanding
    <3>13. OneIsHeld' BY <3>7 DEF OneIsHeld
    <3>14. GraphKnows' BY <1>2, <2>1 DEF GraphKnows
    <3> QED BY <3>9, <3>10, <3>11, <3>12, <3>13, <3>14 DEF Decisive
  <2> QED BY <1>24, <2>3, <2>4 DEF CommitHitl2
<1> QED
  BY <1>10, <1>11, <1>12, <1>13, <1>14, <1>15, <1>16, <1>17, <1>19, <1>20, <1>21, <1>22, <1>23, <1>24
     DEF Handler, Arrive

\* The loss of the process takes the decision that was on its way with it.
LEMMA DecisionCrash == Types /\ Decisive /\ Crash => Decisive'
<1> SUFFICES ASSUME Types, Decisive, Crash PROVE Decisive' OBVIOUS
<1>1. row \in Run /\ "failed" \in Statuses BY DEF Types, TypeOK, Statuses
<1>2. /\ row'.d2 = row.d2 /\ row'.approver = row.approver /\ row'.round = row.round
      /\ row'.post = row.post /\ row'.exists = row.exists
      /\ row.exists => row'.status \in {row.status, "failed"}
  BY <1>1, StoredRow DEF Crash, Recovered
<1>3. \A r \in Requests : req'[r].pc = "idle" BY DEF Crash, Idle
<1>4. task'.pc = "none" BY DEF Crash, NoTask
<1>5. UNCHANGED <<asked, revised>> BY DEF Crash, History
<1>6. Counted' /\ Approved' BY <1>2, <1>5 DEF Decisive, Counted, Approved
<1>7. ReadIsGood' /\ OneWaits' BY <1>3 DEF ReadIsGood, OneWaits, Waiting
<1>8. OneIsHeld' /\ GraphKnows' BY <1>4 DEF OneIsHeld, GraphKnows, Holding, Due
<1> QED BY <1>6, <1>7, <1>8 DEF Decisive

LEMMA DecisionStep == Setting /\ Types /\ DecisionInv /\ [Next]_vars => DecisionInv'
<1> SUFFICES ASSUME Setting, Types, DecisionInv, [Next]_vars, ~contested', ~crossed' PROVE Decisive'
  BY DEF DecisionInv
<1>1. Decisive BY Remembered DEF DecisionInv
<1>2. CASE UNCHANGED vars
  BY <1>1, <1>2 DEF vars, Decisive, Counted, Approved, ReadIsGood, OneWaits, OneIsHeld, GraphKnows,
                    Waiting, Holding, Due, Recorded, Outstanding
<1> QED BY <1>1, <1>2, DecisionTask, DecisionHandlers, DecisionCrash DEF Next

\* What was decided is what was done, when decisions were recorded one at a time at an open
\* gate 2: what is published was approved by a named person, no more revisions are begun than
\* were asked for, and the last allowed round ends the run (n_publish_or_revise, the cap of
\* POST /hitl-2).
THEOREM DecisionsAreDone == ASSUME Setting PROVE Spec => []DecisionIsDone
<1>1. Init => Types /\ DecisionInv BY InitIs, DecisionInit
<1>2. Types /\ DecisionInv /\ [Next]_vars => (Types /\ DecisionInv)'
  BY Setting, TypesStep, DecisionStep
<1>3. DecisionInv => DecisionIsDone
  BY DEF DecisionInv, Decisive, Counted, Approved, DecisionIsDone
<1> QED BY <1>1, <1>2, <1>3, PTL DEF Spec
=============================================================================
