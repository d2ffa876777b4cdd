-------------------------- MODULE ProductionRun_proofs --------------------------
(***************************************************************************)
(* Proofs about the run, in two parts.                                     *)
(*                                                                         *)
(* The first is about ProductionRun, for any number of deployments,        *)
(* requests and rounds: its variables keep their types, and the revision   *)
(* cap holds.  It does not cite SingleSite.                                *)
(*                                                                         *)
(* The second is about SingleSiteRun, the run on one deployment: its       *)
(* status tells where its instance is, so the gates and the restart can    *)
(* rely on it, and the run keeps RunContract.  At an orderly desk,         *)
(* moreover, what is published was seen and approved, and the second gate  *)
(* is in order.                                                            *)
(***************************************************************************)
EXTENDS SingleSiteRun, WellFoundedInduction, TLAPS

-----------------------------------------------------------------------------
(* The types of the values that the actions build. *)

\* A new instance is an instance, whatever it was created to adopt.
LEMMA NewInstanceType ==
  ASSUME NEW rescue \in Rescues
  PROVE  NewInstance(rescue) \in Instances
<1>1. rescue.round \in Nat BY DEF Rescues, NoRescue
<1>2. 0 \in Iterations BY ConstantsAssumption DEF Iterations
<1>3. [g \in Gates |-> <<>>] \in [Gates -> Seq(Decisions)] OBVIOUS
<1>4. "load" \in Pcs /\ "none" \in Routes /\ "none" \in Errors
  BY DEF Pcs, Steps, Routes, Errors
<1>5. NewInstance(rescue) \in InstanceFields
  BY <1>1, <1>2, <1>3, <1>4 DEF NewInstance, InstanceFields
<1>6. InstanceMatches(NewInstance(rescue))
  BY DEF InstanceMatches, NewInstance, Gates
<1> QED BY <1>5, <1>6 DEF Instances

LEMMA NoRescueType == NoRescue \in Rescues
BY DEF Rescues

\* An instance that moves to another step is an instance, unless it starts to apply an
\* HITL_1 decision, which it must have.
LEMMA MoveType ==
  ASSUME NEW w \in Instances, NEW pc \in Pcs, pc # "apply1"
  PROVE  [w EXCEPT !.pc = pc] \in Instances
BY DEF Instances, InstanceFields, InstanceMatches

LEMMA MoveRoundType ==
  ASSUME NEW w \in Instances, NEW pc \in Pcs, pc # "apply1", NEW n \in Nat
  PROVE  [w EXCEPT !.pc = pc, !.round = n] \in Instances
BY DEF Instances, InstanceFields, InstanceMatches

LEMMA GotoType ==
  ASSUME wf \in [Deployments -> Instances], NEW d \in Deployments,
         NEW pc \in Pcs, pc # "apply1", Goto(d, pc)
  PROVE  wf' \in [Deployments -> Instances]
<1>1. [wf[d] EXCEPT !.pc = pc] \in Instances BY MoveType
<1> QED BY <1>1 DEF Goto

\* What an hitl_2 decision leads to is an instance again.
LEMMA DispatchType ==
  ASSUME NEW w \in Instances, NEW decision
  PROVE  Dispatch(w, decision) \in Instances
<1>1. w.round + 1 \in Nat BY DEF Instances, InstanceFields
<1>2. /\ "publishing" \in Pcs /\ "reject" \in Pcs
      /\ "changes" \in Pcs /\ "revise" \in Pcs
  BY DEF Pcs, Steps
<1>3. /\ [w EXCEPT !.pc = "publishing"] \in Instances
      /\ [w EXCEPT !.pc = "reject"] \in Instances
      /\ [w EXCEPT !.pc = "changes"] \in Instances
  BY <1>2, MoveType
<1>4. [w EXCEPT !.pc = "revise", !.round = w.round + 1] \in Instances
  BY <1>1, <1>2, MoveRoundType
<1> QED BY <1>3, <1>4 DEF Dispatch

LEMMA RouteType ==
  ASSUME NEW w \in Instances, NEW route \in Routes
  PROVE  [w EXCEPT !.route = route] \in Instances
BY DEF Instances, InstanceFields, InstanceMatches

LEMMA ApplyType ==
  ASSUME NEW w \in Instances, NEW decision \in Decisions1
  PROVE  [w EXCEPT !.pc = "apply1", !.event = decision] \in Instances
<1> DEFINE v == [w EXCEPT !.pc = "apply1", !.event = decision]
<1>1. w \in InstanceFields /\ InstanceMatches(w) BY DEF Instances
<1>2. "apply1" \in Pcs BY DEF Pcs, Steps
<1>3. v \in InstanceFields BY <1>1, <1>2 DEF InstanceFields
<1>4. v.inbox = w.inbox /\ v.event = decision BY <1>1 DEF InstanceFields
<1>5. InstanceMatches(v) BY <1>1, <1>4 DEF InstanceMatches
<1> QED BY <1>3, <1>5 DEF Instances

LEMMA TailType ==
  ASSUME NEW w \in Instances, NEW gate \in Gates, w.inbox[gate] # <<>>
  PROVE  /\ [w EXCEPT !.inbox[gate] = Tail(w.inbox[gate])] \in Instances
         /\ gate = "hitl_1" => Head(w.inbox[gate]) \in Decisions1
<1> DEFINE box == [w.inbox EXCEPT ![gate] = Tail(w.inbox[gate])]
           v   == [w EXCEPT !.inbox = box]
<1>1. w \in InstanceFields /\ InstanceMatches(w) BY DEF Instances
<1>2. w.inbox \in [Gates -> Seq(Decisions)] BY <1>1 DEF InstanceFields
<1>3. box \in [Gates -> Seq(Decisions)] BY <1>2
<1>4. /\ box["hitl_1"] \in Seq(Decisions1) /\ box["hitl_2"] \in Seq(Decisions2)
      /\ gate = "hitl_1" => Head(w.inbox[gate]) \in Decisions1
  BY <1>1, <1>2 DEF InstanceMatches, Gates
<1>5. v \in InstanceFields BY <1>1, <1>3 DEF InstanceFields
<1>6. v.inbox = box /\ v.pc = w.pc /\ v.event = w.event BY <1>1 DEF InstanceFields
<1>7. InstanceMatches(v) BY <1>1, <1>4, <1>6 DEF InstanceMatches
<1>8. v = [w EXCEPT !.inbox[gate] = Tail(w.inbox[gate])] OBVIOUS
<1> QED BY <1>4, <1>5, <1>7, <1>8 DEF Instances

\* The updates of an instance that its steps make.
LEMMA Gate1Type ==
  ASSUME wf \in [Deployments -> Instances], NEW d \in Deployments,
         wf' = [wf EXCEPT ![d].pc = "announce1", ![d].gate1 = TRUE]
  PROVE  wf' \in [Deployments -> Instances]
<1> DEFINE w == [wf[d] EXCEPT !.pc = "announce1"]
           v == [w EXCEPT !.gate1 = TRUE]
<1>1. "announce1" \in Pcs BY DEF Pcs, Steps
<1>2. w \in Instances BY <1>1, MoveType
<1>3. v \in Instances BY <1>2 DEF Instances, InstanceFields, InstanceMatches
<1>4. wf' = [wf EXCEPT ![d] = v] OBVIOUS
<1> QED BY <1>3, <1>4

LEMMA Gate2Type ==
  ASSUME wf \in [Deployments -> Instances], NEW d \in Deployments,
         wf' = [wf EXCEPT ![d].pc = "announce2", ![d].gates = @ \cup {wf[d].round}]
  PROVE  wf' \in [Deployments -> Instances]
<1> DEFINE w == [wf[d] EXCEPT !.pc = "announce2"]
           v == [w EXCEPT !.gates = wf[d].gates \cup {wf[d].round}]
<1>1. "announce2" \in Pcs BY DEF Pcs, Steps
<1>2. w \in Instances BY <1>1, MoveType
<1>3. wf[d].gates \cup {wf[d].round} \in SUBSET Nat BY DEF Instances, InstanceFields
<1>4. v \in Instances BY <1>2, <1>3 DEF Instances, InstanceFields, InstanceMatches
<1>5. wf' = [wf EXCEPT ![d] = v] OBVIOUS
<1> QED BY <1>4, <1>5

LEMMA WriteType ==
  ASSUME wf \in [Deployments -> Instances], NEW d \in Deployments, NEW i \in Iterations,
         wf' = [wf EXCEPT ![d].pc = "write", ![d].iter = i]
  PROVE  wf' \in [Deployments -> Instances]
<1> DEFINE w == [wf[d] EXCEPT !.pc = "write"]
           v == [w EXCEPT !.iter = i]
<1>1. "write" \in Pcs BY DEF Pcs, Steps
<1>2. w \in Instances BY <1>1, MoveType
<1>3. v \in Instances BY <1>2 DEF Instances, InstanceFields, InstanceMatches
<1>4. wf' = [wf EXCEPT ![d] = v] OBVIOUS
<1> QED BY <1>3, <1>4

LEMMA TextType ==
  ASSUME wf \in [Deployments -> Instances], NEW d \in Deployments, NEW t \in Nat,
         wf' = [wf EXCEPT ![d].pc = "cms", ![d].text = t]
  PROVE  wf' \in [Deployments -> Instances]
<1> DEFINE w == [wf[d] EXCEPT !.pc = "cms"]
           v == [w EXCEPT !.text = t]
<1>1. "cms" \in Pcs BY DEF Pcs, Steps
<1>2. w \in Instances BY <1>1, MoveType
<1>3. v \in Instances BY <1>2 DEF Instances, InstanceFields, InstanceMatches
<1>4. wf' = [wf EXCEPT ![d] = v] OBVIOUS
<1> QED BY <1>3, <1>4

LEMMA ErrorType ==
  ASSUME wf \in [Deployments -> Instances], NEW d \in Deployments, NEW e \in Errors,
         wf' = [wf EXCEPT ![d].pc = "onError", ![d].err = e]
  PROVE  wf' \in [Deployments -> Instances]
<1> DEFINE w == [wf[d] EXCEPT !.pc = "onError"]
           v == [w EXCEPT !.err = e]
<1>1. "onError" \in Pcs BY DEF Pcs
<1>2. w \in Instances BY <1>1, MoveType
<1>3. v \in Instances BY <1>2 DEF Instances, InstanceFields, InstanceMatches
<1>4. wf' = [wf EXCEPT ![d] = v] OBVIOUS
<1> QED BY <1>3, <1>4

LEMMA VoidedType ==
  ASSUME row \in Runs
  PROVE  Voided \in Runs
BY DEF Voided, Runs

-----------------------------------------------------------------------------
(* Requests, and the drafts that the latest iteration picks. *)

LEMMA IdleType ==
  ASSUME NEW d \in Deployments
  PROVE  IdleRequest(d) \in RequestStates
BY DEF IdleRequest, RequestStates, RequestFields, RequestMatches, Handlers, Statuses, Origins,
       AtHitl1, AtHitl2

LEMMA AnswerType ==
  ASSUME req \in [Clients -> RequestStates], NEW c \in Clients, Answer(c)
  PROVE  req' \in [Clients -> RequestStates]
<1>1. req[c].at \in Deployments BY DEF RequestStates, RequestFields
<1> QED BY <1>1, IdleType DEF Answer

LEMMA ServeType ==
  ASSUME req \in [Clients -> RequestStates], NEW c \in Clients, NEW r \in RequestStates, Serve(c, r)
  PROVE  req' \in [Clients -> RequestStates]
BY DEF Serve

\* A request that starts with a decision of its gate.
LEMMA Claim1Type ==
  ASSUME NEW d \in Deployments, NEW pc \in {"apply1", "send1"}, NEW decision \in Decisions1
  PROVE  [IdleRequest(d) EXCEPT !.pc = pc, !.decision = decision] \in RequestStates
<1> DEFINE r == [IdleRequest(d) EXCEPT !.pc = pc, !.decision = decision]
<1>1. IdleRequest(d) \in RequestFields BY IdleType DEF RequestStates
<1>2. r \in RequestFields BY <1>1 DEF RequestFields, Handlers, Decisions
<1>3. r.pc = pc /\ r.decision = decision BY <1>1 DEF RequestFields
<1>4. RequestMatches(r) BY <1>3 DEF RequestMatches, AtHitl1, AtHitl2
<1> QED BY <1>2, <1>4 DEF RequestStates

LEMMA Read2Type ==
  ASSUME NEW d \in Deployments, NEW pc \in {"check2", "claim2"}, NEW decision \in Decisions2,
         NEW edits \in BOOLEAN, NEW status \in Statuses, NEW prior \in Nat, NEW view \in Nat
  PROVE  [IdleRequest(d) EXCEPT
            !.pc = pc, !.decision = decision, !.edits = edits,
            !.status = status, !.prior = prior, !.view = view] \in RequestStates
<1> DEFINE r == [IdleRequest(d) EXCEPT
                   !.pc = pc, !.decision = decision, !.edits = edits,
                   !.status = status, !.prior = prior, !.view = view]
<1>1. IdleRequest(d) \in RequestFields BY IdleType DEF RequestStates
<1>2. r \in RequestFields
  BY <1>1 DEF RequestFields, Handlers, Decisions
<1>3. r.pc = pc /\ r.decision = decision
  BY <1>1 DEF RequestFields
<1>4. RequestMatches(r) BY <1>3 DEF RequestMatches, AtHitl1, AtHitl2
<1> QED BY <1>2, <1>4 DEF RequestStates

LEMMA RestartType ==
  ASSUME NEW d \in Deployments, NEW n \in Nat, NEW from \in Origins
  PROVE  [IdleRequest(d) EXCEPT !.pc = "claimRestart", !.prior = n, !.from = from] \in RequestStates
<1> DEFINE r == [IdleRequest(d) EXCEPT !.pc = "claimRestart", !.prior = n, !.from = from]
<1>1. IdleRequest(d) \in RequestFields BY IdleType DEF RequestStates
<1>2. r \in RequestFields BY <1>1 DEF RequestFields, Handlers
<1>3. r.pc = "claimRestart" BY <1>1 DEF RequestFields
<1>4. RequestMatches(r) BY <1>3 DEF RequestMatches, AtHitl1, AtHitl2
<1> QED BY <1>2, <1>4 DEF RequestStates

\* An event that is sent is queued with the events of its gate.
LEMMA SendType ==
  ASSUME NEW w \in Instances, NEW gate \in Gates, NEW decision,
         gate = "hitl_1" => decision \in Decisions1,
         gate = "hitl_2" => decision \in Decisions2
  PROVE  [w EXCEPT !.inbox[gate] = Append(@, decision)] \in Instances
<1> DEFINE box == [w.inbox EXCEPT ![gate] = Append(@, decision)]
           v   == [w EXCEPT !.inbox = box]
<1>1. w \in InstanceFields /\ InstanceMatches(w) BY DEF Instances
<1>2. w.inbox \in [Gates -> Seq(Decisions)] BY <1>1 DEF InstanceFields
<1>3. decision \in Decisions BY DEF Gates, Decisions
<1>4. box \in [Gates -> Seq(Decisions)] BY <1>2, <1>3
<1>5. box["hitl_1"] \in Seq(Decisions1) /\ box["hitl_2"] \in Seq(Decisions2)
  BY <1>1, <1>2 DEF InstanceMatches, Gates
<1>6. v \in InstanceFields BY <1>1, <1>4 DEF InstanceFields
<1>7. v.inbox = box /\ v.pc = w.pc /\ v.event = w.event BY <1>1 DEF InstanceFields
<1>8. InstanceMatches(v) BY <1>1, <1>5, <1>7 DEF InstanceMatches
<1>9. v = [w EXCEPT !.inbox[gate] = Append(@, decision)] OBVIOUS
<1> QED BY <1>6, <1>8, <1>9 DEF Instances

LEMMA FromGateType ==
  ASSUME NEW w \in Instances, NEW n \in Nat
  PROVE  FromGate(w, n) \in Instances
<1>1. w \in InstanceFields BY DEF Instances
<1>2. "gate2" \in Pcs /\ "none" \in Errors BY DEF Pcs, Steps, Errors
<1>3. NoEvents \in [Gates -> Seq(Decisions)] BY DEF NoEvents
<1>4. {g \in w.gates : g < n} \in SUBSET Nat BY <1>1 DEF InstanceFields
<1>5. FromGate(w, n) \in InstanceFields
  BY <1>1, <1>2, <1>3, <1>4 DEF FromGate, InstanceFields
<1>6. FromGate(w, n).pc = "gate2" /\ FromGate(w, n).inbox = NoEvents
  BY <1>1 DEF FromGate, InstanceFields
<1>7. InstanceMatches(FromGate(w, n)) BY <1>6 DEF InstanceMatches, NoEvents, Gates
<1> QED BY <1>5, <1>7 DEF Instances

LEMMA FromGate1Type ==
  ASSUME NEW w \in Instances
  PROVE  FromGate1(w) \in Instances
<1>1. w \in InstanceFields BY DEF Instances
<1>2. "gate1" \in Pcs /\ "none" \in Errors BY DEF Pcs, Steps, Errors
<1>3. NoEvents \in [Gates -> Seq(Decisions)] BY DEF NoEvents
<1>4. FromGate1(w) \in InstanceFields BY <1>1, <1>2, <1>3 DEF FromGate1, InstanceFields
<1>5. FromGate1(w).pc = "gate1" /\ FromGate1(w).inbox = NoEvents
  BY <1>1 DEF FromGate1, InstanceFields
<1>6. InstanceMatches(FromGate1(w)) BY <1>5 DEF InstanceMatches, NoEvents, Gates
<1> QED BY <1>4, <1>6 DEF Instances

\* A request that goes on at the same gate keeps a decision of that gate.
LEMMA ContinueType ==
  ASSUME req \in [Clients -> RequestStates], NEW c \in Clients, NEW pc \in Handlers,
         pc \in AtHitl1 => req[c].pc \in AtHitl1,
         pc \in AtHitl2 => req[c].pc \in AtHitl2,
         Continue(c, pc)
  PROVE  req' \in [Clients -> RequestStates]
<1>1. [req[c] EXCEPT !.pc = pc] \in RequestStates
  BY DEF RequestStates, RequestFields, RequestMatches
<1> QED BY <1>1 DEF Continue

\* A set of naturals has a least element, and a bounded one a greatest.
LEMMA LeastNatural ==
  ASSUME NEW S \in SUBSET Nat, S # {}
  PROVE  \E n \in S : \A m \in S : n <= m
<1>1. PICK n \in S : \A m \in S : ~ (<<m, n>> \in OpToRel(<, Nat))
  BY NatLessThanWellFounded, WFMin
<1>2. ASSUME NEW m \in S PROVE n <= m
  <2>1. m \in Nat /\ n \in Nat OBVIOUS
  <2>2. m < n => <<m, n>> \in OpToRel(<, Nat) BY <2>1 DEF OpToRel
  <2>3. ~ (m < n) BY <1>1, <2>2, Zenon
  <2> QED BY <2>1, <2>3
<1> QED BY <1>2

LEMMA GreatestNatural ==
  ASSUME NEW b \in Nat, NEW S \in SUBSET (0 .. b), S # {}
  PROVE  \E n \in S : \A m \in S : m <= n
<1> DEFINE T == {b - i : i \in S}
<1>1. \A i \in S : i \in Nat /\ b - i \in Nat OBVIOUS
<1>2. T \in SUBSET Nat BY <1>1
<1>3. T # {} OBVIOUS
<1>4. PICK t \in T : \A u \in T : t <= u BY <1>2, <1>3, LeastNatural
<1>5. PICK n \in S : t = b - n BY <1>4
<1>6. \A m \in S : b - n <= b - m BY <1>4, <1>5
<1> QED BY <1>1, <1>6

\* ORDER BY iteration DESC LIMIT 1 picks an iteration that exists.
LEMMA LatestExists ==
  ASSUME NEW S \in SUBSET Iterations, S # {}
  PROVE  Latest(S) \in S
<1>1. MaxIterations - 1 \in Nat BY ConstantsAssumption
<1>2. S \in SUBSET (0 .. MaxIterations - 1) BY DEF Iterations
<1>3. \E n \in S : \A m \in S : m <= n BY <1>1, <1>2, GreatestNatural
<1> QED BY <1>3 DEF Latest

LEMMA ShownType ==
  ASSUME drafts \in Drafts
  PROVE  Shown \in Nat
<1>1. Rendered \in SUBSET Iterations BY DEF Rendered, Written
<1>2. ASSUME Rendered # {} PROVE drafts[Latest(Rendered)].render \in Nat
  <2>1. Latest(Rendered) \in Iterations BY <1>1, <1>2, LatestExists
  <2> QED BY <2>1 DEF Drafts
<1> QED BY <1>2 DEF Shown

LEMMA EditType ==
  ASSUME drafts \in Drafts, texts \in Nat, Rendered # {}
  PROVE  [drafts EXCEPT ![Latest(Rendered)].render = texts + 1] \in Drafts
<1>1. Rendered \in SUBSET Iterations BY DEF Rendered, Written
<1>2. Latest(Rendered) \in Iterations BY <1>1, LatestExists
<1> QED BY <1>2 DEF Drafts

-----------------------------------------------------------------------------
(* Every step keeps the types. *)

LEMMA InitType == Init => TypeOK
<1> SUFFICES ASSUME Init PROVE TypeOK
  OBVIOUS
<1>1. row \in Runs
  BY DEF Init, Runs, Statuses, Routes, Errors
<1>2. drafts \in Drafts
  BY DEF Init, Drafts
<1>3. wf \in [Deployments -> Instances]
  <2>1. "none" \in Pcs BY DEF Pcs
  <2>2. [NewInstance(NoRescue) EXCEPT !.pc = "none"] \in Instances
    BY <2>1, NewInstanceType, NoRescueType, MoveType
  <2> QED BY <2>2 DEF Init
<1>4. req \in [Clients -> RequestStates]
  BY IdleType DEF Init
<1> QED BY <1>1, <1>2, <1>3, <1>4 DEF Init, TypeOK

LEMMA TypeOKStep == TypeOK /\ [Next]_vars => TypeOK'
<1> SUFFICES ASSUME TypeOK, [Next]_vars PROVE TypeOK'
  OBVIOUS
<1> USE DEF TypeOK
<1>1. ASSUME NEW c \in Clients, NEW d \in Deployments, CreateRun(c, d)
      PROVE  TypeOK'
  <2>1. row' \in Runs BY <1>1 DEF CreateRun, Runs, Statuses
  <2>2. [IdleRequest(d) EXCEPT !.pc = "launch"] \in RequestStates
    BY IdleType DEF RequestStates, RequestFields, RequestMatches, Handlers, AtHitl1, AtHitl2
  <2>3. req' \in [Clients -> RequestStates] BY <1>1, <2>2, ServeType DEF CreateRun
  <2> QED BY <1>1, <2>1, <2>3 DEF CreateRun
<1>2. ASSUME NEW c \in Clients, LaunchInstance(c)
      PROVE  TypeOK'
  <2>1. req' \in [Clients -> RequestStates] BY <1>2, AnswerType DEF LaunchInstance
  <2>2. NewInstance(NoRescue) \in Instances BY NewInstanceType, NoRescueType
  <2>3. wf' \in [Deployments -> Instances] BY <1>2, <2>2 DEF LaunchInstance
  <2> QED BY <1>2, <2>1, <2>3 DEF LaunchInstance
<1>3. ASSUME NEW c \in Clients, NEW d \in Deployments, NEW decision \in Decisions1,
             ClaimHitl1(c, d, decision)
      PROVE  TypeOK'
  <2>1. row' \in Runs BY <1>3 DEF ClaimHitl1, Runs
  <2> DEFINE pc == IF decision = "override_route" THEN "apply1" ELSE "send1"
  <2>2. [IdleRequest(d) EXCEPT !.pc = pc, !.decision = decision] \in RequestStates
    BY Claim1Type
  <2>3. req' \in [Clients -> RequestStates] BY <1>3, <2>2, ServeType DEF ClaimHitl1
  <2> QED BY <1>3, <2>1, <2>3 DEF ClaimHitl1
<1>4. ASSUME NEW c \in Clients, OverrideRoute(c)
      PROVE  TypeOK'
  <2>1. row' \in Runs BY <1>4 DEF OverrideRoute, Runs, Routes
  <2>2. req' \in [Clients -> RequestStates]
    BY <1>4, ContinueType DEF OverrideRoute, Handlers, AtHitl1, AtHitl2
  <2> QED BY <1>4, <2>1, <2>2 DEF OverrideRoute
<1>5. ASSUME NEW c \in Clients, NEW d \in Deployments, NEW decision \in Decisions2,
             NEW edits \in BOOLEAN, ReadHitl2(c, d, decision, edits)
      PROVE  TypeOK'
  <2> DEFINE pc == IF NeedsPreflight(decision) THEN "check2" ELSE "claim2"
             r  == [IdleRequest(d) EXCEPT
                      !.pc = pc, !.decision = decision, !.edits = edits,
                      !.status = row.status, !.prior = row.round, !.view = Shown]
  <2>1. row.status \in Statuses /\ row.round \in Nat /\ Shown \in Nat
    BY ShownType DEF Runs
  <2>2. r \in RequestStates
    BY <2>1, Read2Type
  <2>3. req' \in [Clients -> RequestStates] BY <1>5, <2>2, ServeType DEF ReadHitl2
  <2> QED BY <1>5, <2>3 DEF ReadHitl2
<1>6. ASSUME NEW c \in Clients, PreflightHitl2(c)
      PROVE  TypeOK'
  <2>1. CASE Answer(c) BY <1>6, <2>1, AnswerType DEF PreflightHitl2
  <2>2. CASE req' = [req EXCEPT ![c].pc = "claim2", ![c].checked = TRUE]
    <3> DEFINE r == [req[c] EXCEPT !.pc = "claim2", !.checked = TRUE]
    <3>0. req[c] \in RequestFields /\ req[c].decision \in Decisions2
      BY <1>6 DEF PreflightHitl2, RequestStates, RequestMatches, AtHitl2
    <3>3. r \in RequestFields BY <3>0 DEF RequestFields, Handlers
    <3>4. r.pc = "claim2" /\ r.decision = req[c].decision BY <3>0 DEF RequestFields
    <3>1. r \in RequestStates
      BY <3>0, <3>3, <3>4 DEF RequestStates, RequestMatches, AtHitl1
    <3>2. req' \in [Clients -> RequestStates] BY <2>2, <3>1
    <3> QED BY <1>6, <3>2 DEF PreflightHitl2
  <2> QED BY <1>6, <2>1, <2>2 DEF PreflightHitl2
<1>7. ASSUME NEW c \in Clients, ClaimHitl2(c)
      PROVE  TypeOK'
  <2>1. CASE CanClaim2(req[c])
    <3>1. req[c].decision \in Decisions2 /\ req[c].checked \in BOOLEAN /\ req[c].view \in Nat
      BY <1>7 DEF ClaimHitl2, RequestStates, RequestFields, RequestMatches, AtHitl2
    <3>4. ApprovedBy(c, req[c].decision) \in Clients \cup {Nobody} BY DEF ApprovedBy
    <3>5. PICK n \in Nat :
            row' = [row EXCEPT !.d2 = req[c].decision, !.round = n,
                               !.approver = ApprovedBy(c, req[c].decision),
                               !.checked = req[c].checked]
      <4>1. row.round \in Nat /\ row.round + 1 \in Nat BY DEF Runs
      <4> QED BY <1>7, <2>1, <4>1 DEF ClaimHitl2
    <3>2. row' \in Runs BY <3>1, <3>4, <3>5 DEF Runs
    <3>3. req' \in [Clients -> RequestStates]
      BY <1>7, <2>1, ContinueType DEF ClaimHitl2, Handlers, AtHitl1, AtHitl2
    <3> QED BY <1>7, <2>1, <3>1, <3>2, <3>3 DEF ClaimHitl2
  <2>2. CASE ~CanClaim2(req[c])
    BY <1>7, <2>2, AnswerType DEF ClaimHitl2
  <2> QED BY <2>1, <2>2
<1>8. ASSUME NEW c \in Clients, EditRender(c)
      PROVE  TypeOK'
  <2>1. req' \in [Clients -> RequestStates]
    BY <1>8, ContinueType DEF EditRender, Handlers, AtHitl1, AtHitl2
  <2>2. CASE req[c].edits /\ Rendered # {}
    <3>1. drafts' \in Drafts BY <1>8, <2>2, EditType DEF EditRender
    <3>2. texts + 1 \in Nat OBVIOUS
    <3> QED BY <1>8, <2>1, <2>2, <3>1, <3>2 DEF EditRender
  <2>3. CASE ~(req[c].edits /\ Rendered # {})
    BY <1>8, <2>1, <2>3 DEF EditRender
  <2> QED BY <2>2, <2>3
<1>9. ASSUME NEW c \in Clients, NEW gate \in Gates, NEW undo \in Handlers,
             \/ req[c].pc = "send1" /\ gate = "hitl_1" /\ undo = "undo1"
             \/ req[c].pc = "send2" /\ gate = "hitl_2" /\ undo = "undo2",
             SendEvent(c, gate, undo, RescueGate(gate, req[c]))
      PROVE  TypeOK'
  <2> DEFINE d == req[c].at
  <2>1. req[c] \in RequestFields /\ RequestMatches(req[c]) BY DEF RequestStates
  <2>2. d \in Deployments /\ req[c].prior \in Nat BY <2>1 DEF RequestFields
  <2>3. /\ gate = "hitl_1" => req[c].decision \in Decisions1
        /\ gate = "hitl_2" => req[c].decision \in Decisions2
    BY <1>9, <2>1 DEF RequestMatches, AtHitl1, AtHitl2
  <2>4. RescueGate(gate, req[c]) \in Rescues
    BY <2>2, <2>3 DEF RescueGate, Rescues, Gates
  <2>5. CASE Alive(d) /\ wf' = [wf EXCEPT ![d].inbox[gate] = Append(@, req[c].decision)]
    <3> DEFINE w == [wf[d] EXCEPT !.inbox[gate] = Append(@, req[c].decision)]
    <3>1. w \in Instances
      BY <2>2, <2>3, SendType DEF Gates
    <3>2. wf' \in [Deployments -> Instances] BY <2>2, <2>5, <3>1
    <3>3. req' \in [Clients -> RequestStates]
      BY <1>9, AnswerType, ContinueType DEF SendEvent, Handlers, AtHitl1, AtHitl2
    <3> QED BY <1>9, <3>2, <3>3 DEF SendEvent
  <2>6. CASE wf' = [wf EXCEPT ![d] = NewInstance(RescueGate(gate, req[c]))]
    <3>1. wf' \in [Deployments -> Instances] BY <2>2, <2>4, <2>6, NewInstanceType
    <3>3. req' \in [Clients -> RequestStates]
      BY <1>9, AnswerType, ContinueType DEF SendEvent, Handlers, AtHitl1, AtHitl2
    <3> QED BY <1>9, <3>1, <3>3 DEF SendEvent
  <2>7. CASE UNCHANGED wf
    <3>3. req' \in [Clients -> RequestStates]
      BY <1>9, AnswerType, ContinueType DEF SendEvent, Handlers, AtHitl1, AtHitl2
    <3> QED BY <1>9, <2>7, <3>3 DEF SendEvent
  <2> QED BY <1>9, <2>5, <2>6, <2>7 DEF SendEvent
<1>10. ASSUME NEW c \in Clients, SendHitl1(c) \/ SendHitl2(c)
       PROVE  TypeOK'
  <2>1. /\ "hitl_1" \in Gates /\ "undo1" \in Handlers
        /\ "hitl_2" \in Gates /\ "undo2" \in Handlers
    BY DEF Gates, Handlers
  <2> HIDE DEF TypeOK
  <2>2. CASE SendHitl1(c) BY <1>9, <2>1, <2>2 DEF SendHitl1
  <2>3. CASE SendHitl2(c) BY <1>9, <2>1, <2>3 DEF SendHitl2
  <2> QED BY <1>10, <2>2, <2>3
<1>11. ASSUME NEW c \in Clients, UndoHitl1(c)
       PROVE  TypeOK'
  <2>1. row' \in Runs BY <1>11 DEF UndoHitl1, Runs
  <2>2. decided' \in Nat BY <1>11 DEF UndoHitl1, Withdrawn
  <2> QED BY <1>11, <2>1, <2>2, AnswerType DEF UndoHitl1
<1>12. ASSUME NEW c \in Clients, UndoHitl2(c)
       PROVE  TypeOK'
  <2>1. req[c].prior \in Nat BY DEF RequestStates, RequestFields
  <2>2. row' \in Runs BY <1>12, <2>1 DEF UndoHitl2, RolledBack, Voided, Runs
  <2>3. decided' \in Nat BY <1>12 DEF UndoHitl2, Withdrawn
  <2> QED BY <1>12, <2>2, <2>3, AnswerType DEF UndoHitl2
<1>13. ASSUME NEW c \in Clients, SaveArticle(c)
       PROVE  TypeOK'
  <2>1. drafts' \in Drafts BY <1>13, EditType DEF SaveArticle
  <2> QED BY <1>13, <2>1 DEF SaveArticle
<1>14. ASSUME NEW c \in Clients, RereadPost(c)
       PROVE  TypeOK'
  <2>1. row' \in Runs BY <1>14, VoidedType DEF RereadPost
  <2> QED BY <1>14, <2>1 DEF RereadPost
<1>15. ASSUME NEW c \in Clients, NEW d \in Deployments, ReadFailure(c, d)
       PROVE  TypeOK'
  <2>1. row.round \in Nat BY DEF Runs
  <2>2. Rounds \subseteq Nat BY ConstantsAssumption DEF Rounds
  <2>3. \A n \in Nat : \A from \in Origins :
          [IdleRequest(d) EXCEPT !.pc = "claimRestart", !.prior = n, !.from = from] \in RequestStates
    BY RestartType, ZenonT(40)
  <2>4. ASSUME NEW n \in Nat, NEW from \in Origins,
               Serve(c, [IdleRequest(d) EXCEPT !.pc = "claimRestart", !.prior = n, !.from = from])
        PROVE  req' \in [Clients -> RequestStates]
    BY <2>3, <2>4, ServeType
  <2>a. PICK n \in Nat, from \in Origins :
          Serve(c, [IdleRequest(d) EXCEPT !.pc = "claimRestart", !.prior = n, !.from = from])
    <3>1. PICK f \in Origins : f = IF row.error = "mismatch" THEN "gate" ELSE "start"
      BY DEF Origins
    <3>2. \/ Serve(c, [IdleRequest(d) EXCEPT !.pc = "claimRestart", !.prior = row.round,
                                            !.from = f])
          \/ Serve(c, [IdleRequest(d) EXCEPT !.pc = "claimRestart", !.prior = 0,
                                            !.from = "hitl_1"])
          \/ \E n \in Rounds : Serve(c, [IdleRequest(d) EXCEPT !.pc = "claimRestart",
                                            !.prior = n, !.from = "named"])
      BY <1>15, <3>1 DEF ReadFailure
    <3> QED BY <2>1, <2>2, <3>2 DEF Origins
  <2>5. req' \in [Clients -> RequestStates] BY <2>4, <2>a
  <2>6. restarts + 1 \in Nat OBVIOUS
  <2> QED BY <1>15, <2>5, <2>6 DEF ReadFailure
<1>16. ASSUME NEW c \in Clients, ClaimRestart(c)
       PROVE  TypeOK'
  <2>1. CASE CanRestart
    <3>3. row' = [row EXCEPT !.status = "pending", !.error = "none"]
      BY <1>16, <2>1 DEF ClaimRestart
    <3>1. row' \in Runs BY <3>3 DEF Runs, Statuses, Errors
    <3>2. req' \in [Clients -> RequestStates]
      BY <1>16, <2>1, ContinueType DEF ClaimRestart, Handlers, AtHitl1, AtHitl2
    <3> QED BY <1>16, <3>1, <3>2 DEF ClaimRestart
  <2>2. CASE ~CanRestart BY <1>16, <2>2, AnswerType DEF ClaimRestart
  <2> QED BY <2>1, <2>2
<1>17. ASSUME NEW c \in Clients, RestartInstance(c)
       PROVE  TypeOK'
  <2> DEFINE d == req[c].at
  <2>1. d \in Deployments /\ req[c].prior \in Nat BY DEF RequestStates, RequestFields
  <2>2. wf[d] \in Instances /\ wf[d].rescue \in Rescues
    BY <2>1 DEF Instances, InstanceFields
  <2>3. /\ NewInstance(wf[d].rescue) \in Instances
        /\ NewInstance(NoRescue) \in Instances
        /\ FromGate(wf[d], req[c].prior) \in Instances
        /\ FromGate1(wf[d]) \in Instances
    BY <2>1, <2>2, NewInstanceType, NoRescueType, FromGateType, FromGate1Type
  <2>4. wf' \in [Deployments -> Instances] BY <1>17, <2>3 DEF RestartInstance
  <2>5. req' \in [Clients -> RequestStates]
    BY <1>17, AnswerType, ContinueType DEF RestartInstance, Handlers, AtHitl1, AtHitl2
  <2> QED BY <1>17, <2>4, <2>5 DEF RestartInstance
<1>18. ASSUME NEW c \in Clients, UndoRestart(c)
       PROVE  TypeOK'
  <2>1. row' \in Runs BY <1>18 DEF UndoRestart, Runs, Statuses, Errors
  <2> QED BY <1>18, <2>1, AnswerType DEF UndoRestart
<1>19. ASSUME NEW d \in Deployments, Load(d)
       PROVE  TypeOK'
  <2> DEFINE w == [wf[d] EXCEPT !.route = row.route]
  <2>1. w \in Instances BY RouteType DEF Runs
  <2>2. w.rescue \in Rescues BY <2>1 DEF Instances, InstanceFields
  <2>3. "fetch" \in Pcs /\ "strategy" \in Pcs BY DEF Pcs, Steps
  <2>8. w.rescue.gate = "hitl_1" => w.rescue.event \in Decisions1
    BY <2>2 DEF Rescues, NoRescue
  <2>4. w.rescue.gate = "hitl_1" =>
          [w EXCEPT !.pc = "apply1", !.event = w.rescue.event] \in Instances
    BY <2>1, <2>8, ApplyType
  <2>5. Dispatch(w, w.rescue.event) \in Instances BY <2>1, DispatchType
  <2>6. [w EXCEPT !.pc = IF row.refresh THEN "fetch" ELSE "strategy"] \in Instances
    BY <2>1, <2>3, MoveType
  <2>7. wf' \in [Deployments -> Instances] BY <1>19, <2>4, <2>5, <2>6 DEF Load
  <2> QED BY <1>19, <2>7 DEF Load
<1>20. ASSUME NEW d \in Deployments, Fetch(d)
       PROVE  TypeOK'
  <2>1. row' \in Runs BY <1>20 DEF Fetch, Runs, Statuses
  <2>2. wf' \in [Deployments -> Instances] BY <1>20, GotoType DEF Fetch, Pcs, Steps
  <2> QED BY <1>20, <2>1, <2>2 DEF Fetch
<1>21. ASSUME NEW d \in Deployments, Strategy(d)
       PROVE  TypeOK'
  <2>1. PICK route \in Routes : row' = [row EXCEPT !.status = "strategy", !.route = route]
    BY <1>21 DEF Strategy, Runs, Routes
  <2>2. row' \in Runs BY <2>1 DEF Runs, Statuses
  <2> DEFINE w == [wf[d] EXCEPT !.pc = IF row.auto1 THEN "accept1" ELSE "gate1"]
             v == [w EXCEPT !.route = IF row.refresh THEN "planned" ELSE @]
  <2>3. "accept1" \in Pcs /\ "gate1" \in Pcs BY DEF Pcs, Steps
  <2>4. w \in Instances BY <2>3, MoveType
  <2>5. w.route \in Routes BY <2>4 DEF Instances, InstanceFields
  <2>6. v \in Instances BY <2>4, <2>5, RouteType DEF Routes
  <2>7. wf' = [wf EXCEPT ![d] = v] BY <1>21 DEF Strategy
  <2>8. wf' \in [Deployments -> Instances] BY <2>6, <2>7
  <2> QED BY <1>21, <2>2, <2>8 DEF Strategy
<1>22. ASSUME NEW d \in Deployments, AutoAccept(d)
       PROVE  TypeOK'
  <2>1. row' \in Runs BY <1>22 DEF AutoAccept, Runs, Decisions1
  <2>2. wf' \in [Deployments -> Instances] BY <1>22, GotoType DEF AutoAccept, Pcs, Steps
  <2> QED BY <1>22, <2>1, <2>2 DEF AutoAccept
<1>23. ASSUME NEW d \in Deployments, OpenGate1(d)
       PROVE  TypeOK'
  <2>1. row' \in Runs BY <1>23 DEF OpenGate1, Runs, Statuses, Hitl1Gate
  <2>2. wf' \in [Deployments -> Instances] BY <1>23, Gate1Type DEF OpenGate1
  <2> QED BY <1>23, <2>1, <2>2 DEF OpenGate1
<1>24. ASSUME NEW d \in Deployments, OpenGate2(d)
       PROVE  TypeOK'
  <2>1. row' \in Runs BY <1>24 DEF OpenGate2, Runs, Statuses, Hitl2Gate
  <2>2. wf' \in [Deployments -> Instances] BY <1>24, Gate2Type DEF OpenGate2
  <2> QED BY <1>24, <2>1, <2>2 DEF OpenGate2
<1>25. ASSUME NEW d \in Deployments, Announce(d)
       PROVE  TypeOK'
  <2>1. {"await1", "await2", "completed"} \subseteq Pcs BY DEF Pcs, Parked, Stopped
  <2>2. wf' \in [Deployments -> Instances] BY <1>25, <2>1, GotoType DEF Announce
  <2> QED BY <1>25, <2>2 DEF Announce
<1>26. ASSUME NEW d \in Deployments, ReceiveHitl1(d)
       PROVE  TypeOK'
  <2> DEFINE box == wf[d].inbox["hitl_1"]
             v   == [wf[d] EXCEPT !.inbox["hitl_1"] = Tail(box)]
  <2>1. box \in Seq(Decisions1) BY DEF Instances, InstanceMatches
  <2>2. Head(box) \in Decisions1 /\ v \in Instances BY <1>26, <2>1, TailType DEF ReceiveHitl1, Gates
  <2>3. [v EXCEPT !.pc = "apply1", !.event = Head(box)] \in Instances BY <2>2, ApplyType
  <2>4. wf' = [wf EXCEPT ![d] = [v EXCEPT !.pc = "apply1", !.event = Head(box)]]
    BY <1>26 DEF ReceiveHitl1, Instances, InstanceFields
  <2>5. wf' \in [Deployments -> Instances] BY <2>3, <2>4
  <2> QED BY <1>26, <2>5 DEF ReceiveHitl1
<1>27. ASSUME NEW d \in Deployments, ReceiveHitl2(d)
       PROVE  TypeOK'
  <2> DEFINE box == wf[d].inbox["hitl_2"]
             v   == [wf[d] EXCEPT !.inbox["hitl_2"] = Tail(box)]
  <2>1. v \in Instances BY <1>27, TailType DEF ReceiveHitl2, Gates
  <2>2. Dispatch(v, Head(box)) \in Instances BY <2>1, DispatchType
  <2>3. wf' \in [Deployments -> Instances] BY <1>27, <2>2 DEF ReceiveHitl2
  <2> QED BY <1>27, <2>3 DEF ReceiveHitl2
<1>28. ASSUME NEW d \in Deployments, ApplyHitl1(d)
       PROVE  TypeOK'
  <2>1. wf[d].event \in Decisions1 BY <1>28 DEF ApplyHitl1, At, Instances, InstanceMatches
  <2>2. PICK status \in Statuses, route \in Routes :
          row' = [row EXCEPT !.d1 = wf[d].event, !.status = status, !.route = route]
    BY <1>28, ZenonT(40) DEF ApplyHitl1, Runs, Statuses, Routes
  <2>3. row' \in Runs BY <2>1, <2>2 DEF Runs
  <2>4. "close" \in Pcs /\ "produce" \in Pcs BY DEF Pcs, Steps
  <2>5. wf' \in [Deployments -> Instances] BY <1>28, <2>4, GotoType DEF ApplyHitl1
  <2> QED BY <1>28, <2>3, <2>5 DEF ApplyHitl1
<1>29. ASSUME NEW d \in Deployments, Produce(d)
       PROVE  TypeOK'
  <2>1. row' \in Runs BY <1>29 DEF Produce, Runs, Statuses
  <2>2. 0 \in Iterations BY ConstantsAssumption DEF Iterations
  <2>3. wf' \in [Deployments -> Instances] BY <1>29, <2>2, WriteType DEF Produce
  <2> QED BY <1>29, <2>1, <2>3 DEF Produce
<1>30. ASSUME NEW d \in Deployments, Write(d)
       PROVE  TypeOK'
  <2>1. texts + 1 \in Nat OBVIOUS
  <2>2. wf[d].iter \in Iterations BY DEF Instances, InstanceFields
  <2>3. drafts' \in Drafts BY <1>30, <2>1, <2>2 DEF Write, Drafts
  <2>4. wf' \in [Deployments -> Instances] BY <1>30, GotoType DEF Write, Pcs, Steps
  <2> QED BY <1>30, <2>1, <2>3, <2>4 DEF Write
<1>31. ASSUME NEW d \in Deployments, Render(d)
       PROVE  TypeOK'
  <2>1. wf[d].iter \in Iterations BY DEF Instances, InstanceFields
  <2>2. drafts' \in Drafts BY <1>31, <2>1 DEF Render, Drafts
  <2>3. wf' \in [Deployments -> Instances] BY <1>31, GotoType DEF Render, Pcs, Steps
  <2> QED BY <1>31, <2>2, <2>3 DEF Render
<1>32. ASSUME NEW d \in Deployments, Audit(d)
       PROVE  TypeOK'
  <2>1. wf[d].iter \in Iterations BY DEF Instances, InstanceFields
  <2>2. CASE Goto(d, "gate2")
    <3>1. wf' \in [Deployments -> Instances] BY <2>2, GotoType DEF Pcs, Steps
    <3> QED BY <1>32, <3>1 DEF Audit
  <2>3. CASE /\ wf[d].iter < MaxIterations - 1
             /\ wf' = [wf EXCEPT ![d].pc = "write", ![d].iter = @ + 1]
    <3>1. wf[d].iter + 1 \in Iterations BY <2>1, <2>3, ConstantsAssumption DEF Iterations
    <3>2. wf' = [wf EXCEPT ![d].pc = "write", ![d].iter = wf[d].iter + 1] BY <2>3
    <3>3. wf' \in [Deployments -> Instances] BY <3>1, <3>2, WriteType
    <3> QED BY <1>32, <3>3 DEF Audit
  <2>4. wf[d].iter >= MaxIterations - 1 \/ wf[d].iter < MaxIterations - 1
    BY <2>1, ConstantsAssumption DEF Iterations
  <2> QED BY <1>32, <2>2, <2>3, <2>4 DEF Audit
<1>33. ASSUME NEW d \in Deployments, NEW pc, NEW status \in Statuses, NEW next \in Pcs,
              next # "apply1", SetStatus(d, pc, status, next)
       PROVE  TypeOK'
  <2>1. row' \in Runs BY <1>33 DEF SetStatus, Runs
  <2>2. wf' \in [Deployments -> Instances] BY <1>33, GotoType DEF SetStatus
  <2> QED BY <1>33, <2>1, <2>2 DEF SetStatus
<1>34. ASSUME NEW d \in Deployments,
              Publishing(d) \/ Reject(d) \/ Changes(d) \/ Revise(d) \/ Save(d)
       PROVE  TypeOK'
  <2>1. /\ {"read", "close", "produce", "compliance"} \subseteq Pcs
        /\ {"publishing", "rejected", "changes_requested", "revising", "published"}
             \subseteq Statuses
    BY DEF Pcs, Steps, Statuses
  <2> HIDE DEF TypeOK
  <2> QED BY <1>33, <1>34, <2>1 DEF Publishing, Reject, Changes, Revise, Save
<1>35. ASSUME NEW d \in Deployments, ReadPublish(d)
       PROVE  TypeOK'
  <2>1. Latest(Written) \in Iterations BY <1>35, LatestExists DEF ReadPublish, Written
  <2>2. drafts[Latest(Written)].render \in Nat BY <2>1 DEF Drafts
  <2>3. wf' \in [Deployments -> Instances] BY <1>35, <2>2, TextType DEF ReadPublish
  <2> QED BY <1>35, <2>3 DEF ReadPublish
<1>36. ASSUME NEW d \in Deployments, TargetMismatch(d)
       PROVE  TypeOK'
  <2>1. row' \in Runs BY <1>36, VoidedType DEF TargetMismatch
  <2>2. wf' \in [Deployments -> Instances] BY <1>36, ErrorType DEF TargetMismatch, Errors
  <2> QED BY <1>36, <2>1, <2>2 DEF TargetMismatch
<1>37. ASSUME NEW d \in Deployments, PushToCms(d)
       PROVE  TypeOK'
  <2>1. wf[d].text \in Nat BY DEF Instances, InstanceFields
  <2>2. wf' \in [Deployments -> Instances] BY <1>37, GotoType DEF PushToCms, Pcs, Steps
  <2> QED BY <1>37, <2>1, <2>2 DEF PushToCms
<1>38. ASSUME NEW d \in Deployments, Compliance(d)
       PROVE  TypeOK'
  <2>1. row.approver \in Clients \cup {Nobody} BY DEF Runs
  <2>2. wf' \in [Deployments -> Instances] BY <1>38, GotoType DEF Compliance, Pcs, Steps
  <2> QED BY <1>38, <2>1, <2>2 DEF Compliance
<1>39. ASSUME NEW d \in Deployments, Fail(d)
       PROVE  TypeOK'
  <2>1. wf' \in [Deployments -> Instances] BY <1>39, ErrorType DEF Fail, Errors
  <2> QED BY <1>39, <2>1 DEF Fail
<1>40. ASSUME NEW d \in Deployments, PersistError(d)
       PROVE  TypeOK'
  <2>1. wf[d].err \in Errors BY DEF Instances, InstanceFields
  <2>2. row' \in Runs BY <1>40, <2>1 DEF PersistError, FailedRow, Runs, Statuses
  <2>3. wf' \in [Deployments -> Instances] BY <1>40, GotoType DEF PersistError, Pcs, Stopped
  <2> QED BY <1>40, <2>2, <2>3 DEF PersistError
<1>41. CASE UNCHANGED vars BY <1>41 DEF vars
<1> HIDE DEF TypeOK
<1> QED
  BY <1>1, <1>2, <1>3, <1>4, <1>5, <1>6, <1>7, <1>8, <1>10, <1>11, <1>12, <1>13, <1>14, <1>15,
     <1>16, <1>17, <1>18, <1>19, <1>20, <1>21, <1>22, <1>23, <1>24, <1>25, <1>26, <1>27, <1>28,
     <1>29, <1>30, <1>31, <1>32, <1>34, <1>35, <1>36, <1>37, <1>38, <1>39, <1>40, <1>41
  DEF Next, Handle, Proceed, Step

\* The variables keep their types: in particular, an instance receives at each gate only
\* decisions of that gate, through every queue, adoption and restart.
THEOREM TypeCorrect == Spec => []TypeOK
BY InitType, TypeOKStep, PTL DEF Spec

-----------------------------------------------------------------------------
(* The revision cap.  A revision is counted twice: by the claim of the     *)
(* decision, and by the instance that carries it out.  Between the two the *)
(* count travels in the request and, when the decision is adopted, in the  *)
(* parameters of the new instance; the invariant bounds all four.          *)

RoundBound ==
  /\ row.round <= MaxRounds
  /\ \A d \in Deployments : wf[d].round <= MaxRounds /\ wf[d].rescue.round <= MaxRounds
  /\ \A c \in Clients : req[c].prior <= MaxRounds

\* What an hitl_2 decision leads to is within the cap when the instance is.
LEMMA DispatchBound ==
  ASSUME NEW w \in Instances, NEW decision, w.round <= MaxRounds
  PROVE  /\ Dispatch(w, decision).round <= MaxRounds
         /\ Dispatch(w, decision).rescue = w.rescue
<1>1. w.round \in Nat BY DEF Instances, InstanceFields
<1>2. w.round < MaxRounds => w.round + 1 <= MaxRounds BY <1>1, ConstantsAssumption
<1> QED BY <1>1, <1>2, ConstantsAssumption DEF Dispatch, Instances, InstanceFields

\* An event that is sent, or adopted, carries a round that the request read.
LEMMA SendBound ==
  ASSUME TypeOK, RoundBound, NEW c \in Clients, NEW gate \in Gates, NEW undo,
         SendEvent(c, gate, undo, RescueGate(gate, req[c]))
  PROVE  RoundBound'
<1> DEFINE d == req[c].at
<1>1. d \in Deployments /\ req[c].prior <= MaxRounds
  BY DEF TypeOK, RequestStates, RequestFields, RoundBound
<1>2. wf \in [Deployments -> Instances] /\ req \in [Clients -> RequestStates] BY DEF TypeOK
<1>3. \A k \in Deployments : wf'[k].round <= MaxRounds /\ wf'[k].rescue.round <= MaxRounds
  <2>1. CASE wf' = [wf EXCEPT ![d].inbox[gate] = Append(@, req[c].decision)]
    BY <2>1, <1>1, <1>2 DEF RoundBound, Instances, InstanceFields
  <2>2. CASE wf' = [wf EXCEPT ![d] = NewInstance(RescueGate(gate, req[c]))]
    BY <2>2, <1>1, <1>2 DEF RoundBound, NewInstance, RescueGate
  <2>3. CASE UNCHANGED wf BY <2>3 DEF RoundBound
  <2> QED BY <2>1, <2>2, <2>3 DEF SendEvent
<1>4. \A k \in Clients : req'[k].prior <= MaxRounds
  <2>1. CASE Answer(c)
    BY <2>1, <1>2, ConstantsAssumption DEF Answer, IdleRequest, RoundBound
  <2>2. CASE Continue(c, undo)
    BY <2>2, <1>2 DEF Continue, RoundBound, RequestStates, RequestFields
  <2> QED BY <2>1, <2>2 DEF SendEvent
<1> QED BY <1>3, <1>4 DEF RoundBound, SendEvent

\* A handler that answers or goes on keeps the round that it read.
LEMMA AnswerBound ==
  ASSUME TypeOK, RoundBound, NEW c \in Clients, Answer(c)
  PROVE  \A k \in Clients : req'[k].prior <= MaxRounds
BY ConstantsAssumption DEF Answer, IdleRequest, RoundBound, TypeOK

LEMMA ContinueBound ==
  ASSUME TypeOK, RoundBound, NEW c \in Clients, NEW pc, Continue(c, pc)
  PROVE  \A k \in Clients : req'[k].prior <= MaxRounds
BY DEF Continue, RoundBound, TypeOK, RequestStates, RequestFields

LEMMA ServeBound ==
  ASSUME TypeOK, RoundBound, NEW c \in Clients, NEW r, r.prior <= MaxRounds, Serve(c, r)
  PROVE  \A k \in Clients : req'[k].prior <= MaxRounds
BY DEF Serve, RoundBound, TypeOK

\* A step of the instance on d, which is v after it.
LEMMA InstanceBound ==
  ASSUME TypeOK, RoundBound, NEW d \in Deployments, NEW v,
         v.round <= MaxRounds, v.rescue.round <= MaxRounds,
         wf' = [wf EXCEPT ![d] = v]
  PROVE  \A k \in Deployments : wf'[k].round <= MaxRounds /\ wf'[k].rescue.round <= MaxRounds
BY DEF RoundBound, TypeOK

\* A step that moves the instance on d and leaves its round, the row's and the requests.
LEMMA MoveBound ==
  ASSUME TypeOK, RoundBound, NEW d \in Deployments, NEW v,
         v.round = wf[d].round, v.rescue = wf[d].rescue,
         wf' = [wf EXCEPT ![d] = v], row'.round = row.round, req' = req
  PROVE  RoundBound'
BY DEF RoundBound, TypeOK

LEMMA RoundBoundInit == Init => RoundBound
BY ConstantsAssumption
DEF Init, RoundBound, NewInstance, NoRescue, IdleRequest

\* The handlers keep the bound: the claim by its WHERE clause, the compensation because
\* it puts back a round that was read.
LEMMA HandleBound ==
  ASSUME TypeOK, RoundBound, NEW c \in Clients, Handle(c)
  PROVE  RoundBound'
<1> USE DEF TypeOK
<1>1. CASE \E d \in Deployments : CreateRun(c, d)
  <2>1. PICK d \in Deployments : CreateRun(c, d) BY <1>1
  <2>2. [IdleRequest(d) EXCEPT !.pc = "launch"].prior <= MaxRounds
    BY ConstantsAssumption DEF IdleRequest
  <2>3. row'.round = row.round BY <2>1 DEF CreateRun, Runs
  <2> QED BY <2>1, <2>2, <2>3, ServeBound DEF CreateRun, RoundBound
<1>2. CASE \E d \in Deployments : ReadFailure(c, d)
  <2>1. PICK d \in Deployments : ReadFailure(c, d) BY <1>2
  <2>2. \A n : n <= MaxRounds => \A from :
          [IdleRequest(d) EXCEPT !.pc = "claimRestart", !.prior = n, !.from = from].prior
            <= MaxRounds
    BY DEF IdleRequest
  <2>3. row.round <= MaxRounds /\ 0 <= MaxRounds /\ \A n \in Rounds : n <= MaxRounds
    BY ConstantsAssumption DEF RoundBound, Rounds
  <2>4. PICK r : Serve(c, r) /\ r.prior <= MaxRounds
    BY <2>1, <2>2, <2>3 DEF ReadFailure
  <2>5. \A k \in Clients : req'[k].prior <= MaxRounds BY <2>4, ServeBound
  <2> QED BY <2>1, <2>5 DEF ReadFailure, RoundBound
<1>3. CASE \E d \in Deployments, decision \in Decisions1 : ClaimHitl1(c, d, decision)
  <2>1. PICK d \in Deployments, decision \in Decisions1 : ClaimHitl1(c, d, decision) BY <1>3
  <2> DEFINE r == [IdleRequest(d) EXCEPT
                     !.pc = IF decision = "override_route" THEN "apply1" ELSE "send1",
                     !.decision = decision]
  <2>2. r.prior <= MaxRounds BY ConstantsAssumption DEF IdleRequest
  <2>5. Serve(c, r) BY <2>1 DEF ClaimHitl1
  <2>3. \A k \in Clients : req'[k].prior <= MaxRounds BY <2>2, <2>5, ServeBound
  <2>4. row'.round = row.round BY <2>1 DEF ClaimHitl1, Runs
  <2> QED BY <2>1, <2>3, <2>4 DEF ClaimHitl1, RoundBound
<1>4. CASE \E d \in Deployments, decision \in Decisions2, edits \in BOOLEAN :
             ReadHitl2(c, d, decision, edits)
  <2>1. PICK d \in Deployments, decision \in Decisions2, edits \in BOOLEAN :
          ReadHitl2(c, d, decision, edits)
    BY <1>4
  <2> DEFINE r == [IdleRequest(d) EXCEPT
                     !.pc = IF NeedsPreflight(decision) THEN "check2" ELSE "claim2",
                     !.decision = decision, !.edits = edits, !.status = row.status,
                     !.prior = row.round, !.view = Shown]
  <2>2. r.prior <= MaxRounds BY DEF IdleRequest, RoundBound
  <2>4. Serve(c, r) BY <2>1 DEF ReadHitl2
  <2>3. \A k \in Clients : req'[k].prior <= MaxRounds BY <2>2, <2>4, ServeBound
  <2> QED BY <2>1, <2>3 DEF ReadHitl2, RoundBound
<1>5. CASE SaveArticle(c) BY <1>5 DEF SaveArticle, RoundBound
<1>6. CASE RereadPost(c) BY <1>6 DEF RereadPost, Voided, Runs, RoundBound
<1>7. CASE LaunchInstance(c)
  <2>1. \A k \in Clients : req'[k].prior <= MaxRounds BY <1>7, AnswerBound DEF LaunchInstance
  <2>2. NewInstance(NoRescue).round <= MaxRounds /\ NewInstance(NoRescue).rescue.round <= MaxRounds
    BY ConstantsAssumption DEF NewInstance, NoRescue
  <2>3. req[c].at \in Deployments BY DEF RequestStates, RequestFields
  <2> QED BY <1>7, <2>1, <2>2, <2>3, InstanceBound DEF LaunchInstance, RoundBound
<1>8. CASE OverrideRoute(c)
  <2>1. row'.round = row.round BY <1>8 DEF OverrideRoute, Runs
  <2>2. \A k \in Clients : req'[k].prior <= MaxRounds BY <1>8, ContinueBound DEF OverrideRoute
  <2> QED BY <1>8, <2>1, <2>2 DEF OverrideRoute, RoundBound
<1>9. CASE SendHitl1(c) BY <1>9, SendBound DEF SendHitl1, Gates
<1>10. CASE SendHitl2(c) BY <1>10, SendBound DEF SendHitl2, Gates
<1>11. CASE UndoHitl1(c)
  <2>1. row'.round = row.round BY <1>11 DEF UndoHitl1, Runs
  <2> QED BY <1>11, <2>1, AnswerBound DEF UndoHitl1, RoundBound
<1>12. CASE UndoHitl2(c)
  <2>1. row'.round = req[c].prior BY <1>12 DEF UndoHitl2, RolledBack, Voided, Runs
  <2> QED BY <1>12, <2>1, AnswerBound DEF UndoHitl2, RoundBound
<1>13. CASE PreflightHitl2(c)
  <2>1. CASE Answer(c) BY <1>13, <2>1, AnswerBound DEF PreflightHitl2, RoundBound
  <2>2. CASE req' = [req EXCEPT ![c].pc = "claim2", ![c].checked = TRUE]
    BY <1>13, <2>2 DEF PreflightHitl2, RoundBound, RequestStates, RequestFields
  <2> QED BY <1>13, <2>1, <2>2 DEF PreflightHitl2
<1>14. CASE ClaimHitl2(c)
  <2>1. \A k \in Clients : req'[k].prior <= MaxRounds
    BY <1>14, AnswerBound, ContinueBound DEF ClaimHitl2
  <2>2. row'.round <= MaxRounds
    <3>1. row.round \in Nat /\ row.round <= MaxRounds BY DEF Runs, RoundBound
    <3>2. row.round < MaxRounds => row.round + 1 <= MaxRounds BY <3>1, ConstantsAssumption
    <3> QED BY <1>14, <3>1, <3>2 DEF ClaimHitl2, CanClaim2, Runs
  <2> QED BY <1>14, <2>1, <2>2 DEF ClaimHitl2, RoundBound
<1>15. CASE EditRender(c)
  <2>1. \A k \in Clients : req'[k].prior <= MaxRounds BY <1>15, ContinueBound DEF EditRender
  <2> QED BY <1>15, <2>1 DEF EditRender, RoundBound
<1>16. CASE ClaimRestart(c)
  <2>1. row'.round = row.round BY <1>16 DEF ClaimRestart, Runs
  <2>2. \A k \in Clients : req'[k].prior <= MaxRounds
    BY <1>16, AnswerBound, ContinueBound DEF ClaimRestart
  <2> QED BY <1>16, <2>1, <2>2 DEF ClaimRestart, RoundBound
<1>17. CASE RestartInstance(c)
  <2> DEFINE d == req[c].at
  <2>1. d \in Deployments /\ wf[d] \in Instances BY DEF RequestStates, RequestFields
  <2>2. \A k \in Clients : req'[k].prior <= MaxRounds
    BY <1>17, AnswerBound, ContinueBound DEF RestartInstance
  <2>3. /\ NewInstance(NoRescue).round <= MaxRounds
        /\ NewInstance(NoRescue).rescue.round <= MaxRounds
    BY ConstantsAssumption DEF NewInstance, NoRescue
  <2>4. /\ NewInstance(wf[d].rescue).round <= MaxRounds
        /\ NewInstance(wf[d].rescue).rescue.round <= MaxRounds
    BY <2>1 DEF NewInstance, RoundBound
  <2>5. /\ FromGate(wf[d], req[c].prior).round <= MaxRounds
        /\ FromGate(wf[d], req[c].prior).rescue.round <= MaxRounds
    BY <2>1 DEF FromGate, RoundBound, Instances, InstanceFields
  <2>a. /\ FromGate1(wf[d]).round <= MaxRounds
        /\ FromGate1(wf[d]).rescue.round <= MaxRounds
    BY <2>1, ConstantsAssumption DEF FromGate1, RoundBound, Instances, InstanceFields
  <2>6. UNCHANGED wf => \A k \in Deployments :
          wf'[k].round <= MaxRounds /\ wf'[k].rescue.round <= MaxRounds
    BY DEF RoundBound
  <2>7. \A k \in Deployments : wf'[k].round <= MaxRounds /\ wf'[k].rescue.round <= MaxRounds
    BY <1>17, <2>1, <2>3, <2>4, <2>5, <2>a, <2>6, InstanceBound DEF RestartInstance
  <2> QED BY <1>17, <2>2, <2>7 DEF RestartInstance, RoundBound
<1>18. CASE UndoRestart(c)
  <2>1. row'.round = row.round BY <1>18 DEF UndoRestart, Runs
  <2> QED BY <1>18, <2>1, AnswerBound DEF UndoRestart, RoundBound
<1> HIDE DEF TypeOK
<1> QED BY <1>1, <1>2, <1>3, <1>4, <1>5, <1>6, <1>7, <1>8, <1>9, <1>10, <1>11, <1>12, <1>13,
           <1>14, <1>15, <1>16, <1>17, <1>18 DEF Handle, Proceed

\* The instance keeps the bound: it checks the cap before it counts a revision.
LEMMA StepBound ==
  ASSUME TypeOK, RoundBound, NEW d \in Deployments, Step(d) \/ Fail(d)
  PROVE  RoundBound'
<1> USE DEF TypeOK
<1> DEFINE Kept == \E v : /\ v.round = wf[d].round /\ v.rescue = wf[d].rescue
                          /\ wf' = [wf EXCEPT ![d] = v]
<1>0. wf[d] \in InstanceFields BY DEF Instances
<1>1. ASSUME NEW pc, Goto(d, pc) PROVE Kept
  <2>1. /\ [wf[d] EXCEPT !.pc = pc].round = wf[d].round
        /\ [wf[d] EXCEPT !.pc = pc].rescue = wf[d].rescue
        /\ wf' = [wf EXCEPT ![d] = [wf[d] EXCEPT !.pc = pc]]
    BY <1>0, <1>1 DEF Goto, InstanceFields
  <2> QED BY <2>1
<1>2. ASSUME Kept, row'.round = row.round, UNCHANGED req
      PROVE  RoundBound'
  BY <1>2, MoveBound
<1>3. ASSUME NEW pc, NEW status, NEW next, SetStatus(d, pc, status, next)
      PROVE  RoundBound'
  <2>1. row'.round = row.round BY <1>3 DEF SetStatus, Runs
  <2> QED BY <1>1, <1>2, <1>3, <2>1 DEF SetStatus
<1>4. CASE Load(d)
  <2> DEFINE w == [wf[d] EXCEPT !.route = row.route]
  <2>1. w \in Instances BY RouteType DEF Runs
  <2>2. w.round = wf[d].round /\ w.rescue = wf[d].rescue BY <1>0 DEF InstanceFields
  <2>3. wf[d].round <= MaxRounds /\ wf[d].rescue.round <= MaxRounds BY DEF RoundBound
  <2>4. /\ Dispatch(w, w.rescue.event).round <= MaxRounds
        /\ Dispatch(w, w.rescue.event).rescue.round <= MaxRounds
    BY <2>1, <2>2, <2>3, DispatchBound
  <2>5. ASSUME NEW e PROVE [w EXCEPT !.pc = "apply1", !.event = e].round <= MaxRounds
                        /\ [w EXCEPT !.pc = "apply1", !.event = e].rescue.round <= MaxRounds
    BY <2>1, <2>2, <2>3 DEF Instances, InstanceFields
  <2>6. ASSUME NEW pc PROVE [w EXCEPT !.pc = pc].round <= MaxRounds
                         /\ [w EXCEPT !.pc = pc].rescue.round <= MaxRounds
    BY <2>1, <2>2, <2>3 DEF Instances, InstanceFields
  <2>7. PICK v : /\ v.round <= MaxRounds /\ v.rescue.round <= MaxRounds
                 /\ wf' = [wf EXCEPT ![d] = v]
    BY <1>4, <2>4, <2>5, <2>6 DEF Load
  <2> QED BY <1>4, <2>7, InstanceBound DEF Load, RoundBound
<1>5. CASE Fetch(d)
  <2>1. row'.round = row.round BY <1>5 DEF Fetch, Runs
  <2> QED BY <1>1, <1>2, <1>5, <2>1 DEF Fetch
<1>6. CASE Strategy(d)
  <2> DEFINE pc == IF row.auto1 THEN "accept1" ELSE "gate1"
             route == IF row.refresh THEN "planned" ELSE wf[d].route
             v == [wf[d] EXCEPT !.pc = pc, !.route = route]
  <2>1. v.round = wf[d].round /\ v.rescue = wf[d].rescue BY <1>0 DEF InstanceFields
  <2>2. wf' = [wf EXCEPT ![d] = v] BY <1>0, <1>6 DEF Strategy, InstanceFields
  <2>3. row'.round = row.round BY <1>6 DEF Strategy, Runs
  <2> QED BY <1>6, <2>1, <2>2, <2>3, <1>2 DEF Strategy
<1>7. CASE AutoAccept(d)
  <2>1. row'.round = row.round BY <1>7 DEF AutoAccept, Runs
  <2> QED BY <1>1, <1>2, <1>7, <2>1 DEF AutoAccept
<1>8. CASE OpenGate1(d)
  <2> DEFINE v == [wf[d] EXCEPT !.pc = "announce1", !.gate1 = TRUE]
  <2>1. v.round = wf[d].round /\ v.rescue = wf[d].rescue BY <1>0 DEF InstanceFields
  <2>2. wf' = [wf EXCEPT ![d] = v] BY <1>0, <1>8 DEF OpenGate1, InstanceFields
  <2>3. row'.round = row.round BY <1>8 DEF OpenGate1, Runs
  <2> QED BY <1>8, <2>1, <2>2, <2>3, <1>2 DEF OpenGate1
<1>9. CASE ReceiveHitl1(d)
  <2> DEFINE inbox == [wf[d].inbox EXCEPT !["hitl_1"] = Tail(wf[d].inbox["hitl_1"])]
             v == [wf[d] EXCEPT !.pc = "apply1", !.event = Head(wf[d].inbox["hitl_1"]),
                                !.inbox = inbox]
  <2>1. v.round = wf[d].round /\ v.rescue = wf[d].rescue BY <1>0 DEF InstanceFields
  <2>2. wf' = [wf EXCEPT ![d] = v] BY <1>0, <1>9 DEF ReceiveHitl1
  <2> QED BY <1>9, <2>1, <2>2, <1>2 DEF ReceiveHitl1
<1>10. CASE ApplyHitl1(d)
  <2>1. row'.round = row.round BY <1>10 DEF ApplyHitl1, Runs
  <2> QED BY <1>1, <1>2, <1>10, <2>1 DEF ApplyHitl1
<1>11. CASE Produce(d)
  <2> DEFINE v == [wf[d] EXCEPT !.pc = "write", !.iter = 0]
  <2>1. v.round = wf[d].round /\ v.rescue = wf[d].rescue BY <1>0 DEF InstanceFields
  <2>2. wf' = [wf EXCEPT ![d] = v] BY <1>11 DEF Produce
  <2>3. row'.round = row.round BY <1>11 DEF Produce, Runs
  <2> QED BY <1>11, <2>1, <2>2, <2>3, <1>2 DEF Produce
<1>12. CASE Write(d) BY <1>1, <1>2, <1>12 DEF Write
<1>13. CASE Render(d) BY <1>1, <1>2, <1>13 DEF Render
<1>14. CASE Audit(d)
  <2> DEFINE v == [wf[d] EXCEPT !.pc = "write", !.iter = wf[d].iter + 1]
  <2>1. v.round = wf[d].round /\ v.rescue = wf[d].rescue BY <1>0 DEF InstanceFields
  <2>2. CASE Goto(d, "gate2") BY <1>1, <1>2, <1>14, <2>2 DEF Audit
  <2>3. CASE wf' = [wf EXCEPT ![d] = v] BY <1>14, <2>1, <2>3, <1>2 DEF Audit
  <2> QED BY <1>14, <2>2, <2>3 DEF Audit
<1>15. CASE OpenGate2(d)
  <2> DEFINE v == [wf[d] EXCEPT !.pc = "announce2", !.gates = wf[d].gates \cup {wf[d].round}]
  <2>1. v.round = wf[d].round /\ v.rescue = wf[d].rescue BY <1>0 DEF InstanceFields
  <2>2. wf' = [wf EXCEPT ![d] = v] BY <1>0, <1>15 DEF OpenGate2, InstanceFields
  <2>3. row'.round = row.round BY <1>15 DEF OpenGate2, Runs
  <2> QED BY <1>15, <2>1, <2>2, <2>3, <1>2 DEF OpenGate2
<1>16. CASE Announce(d) BY <1>1, <1>2, <1>16 DEF Announce
<1>17. CASE ReceiveHitl2(d)
  <2> DEFINE w == [wf[d] EXCEPT !.inbox["hitl_2"] = Tail(wf[d].inbox["hitl_2"])]
             v == Dispatch(w, Head(wf[d].inbox["hitl_2"]))
  <2>1. w \in Instances BY <1>17, TailType DEF ReceiveHitl2, Gates
  <2>2. w.round <= MaxRounds /\ w.rescue.round <= MaxRounds
    BY <1>0 DEF InstanceFields, RoundBound
  <2>3. v.round <= MaxRounds /\ v.rescue.round <= MaxRounds BY <2>1, <2>2, DispatchBound
  <2>4. wf' = [wf EXCEPT ![d] = v] BY <1>17 DEF ReceiveHitl2
  <2> QED BY <1>17, <2>3, <2>4, InstanceBound DEF ReceiveHitl2, RoundBound
<1>18. CASE Publishing(d) \/ Reject(d) \/ Changes(d) \/ Revise(d) \/ Save(d)
  BY <1>3, <1>18 DEF Publishing, Reject, Changes, Revise, Save
<1>19. CASE ReadPublish(d)
  <2> DEFINE v == [wf[d] EXCEPT !.pc = "cms", !.text = drafts[Latest(Written)].render]
  <2>1. v.round = wf[d].round /\ v.rescue = wf[d].rescue BY <1>0 DEF InstanceFields
  <2>2. wf' = [wf EXCEPT ![d] = v] BY <1>19 DEF ReadPublish
  <2> QED BY <1>19, <2>1, <2>2, <1>2 DEF ReadPublish
<1>20. ASSUME NEW err, wf' = [wf EXCEPT ![d].pc = "onError", ![d].err = err] PROVE Kept
  <2> DEFINE v == [wf[d] EXCEPT !.pc = "onError", !.err = err]
  <2>1. v.round = wf[d].round /\ v.rescue = wf[d].rescue BY <1>0 DEF InstanceFields
  <2>2. wf' = [wf EXCEPT ![d] = v] BY <1>20
  <2> QED BY <2>1, <2>2
<1>21. CASE TargetMismatch(d)
  <2>1. row'.round = row.round BY <1>21 DEF TargetMismatch, Voided, Runs
  <2> QED BY <1>2, <1>20, <1>21, <2>1 DEF TargetMismatch
<1>22. CASE PushToCms(d) BY <1>1, <1>2, <1>22 DEF PushToCms
<1>23. CASE Compliance(d) BY <1>1, <1>2, <1>23 DEF Compliance
<1>24. CASE PersistError(d)
  <2>1. row'.round = row.round BY <1>24 DEF PersistError, FailedRow, Runs
  <2> QED BY <1>1, <1>2, <1>24, <2>1 DEF PersistError
<1>25. CASE Fail(d) BY <1>2, <1>20, <1>25 DEF Fail
<1> HIDE DEF TypeOK
<1> QED BY <1>4, <1>5, <1>6, <1>7, <1>8, <1>9, <1>10, <1>11, <1>12, <1>13, <1>14, <1>15,
           <1>16, <1>17, <1>18, <1>19, <1>21, <1>22, <1>23, <1>24, <1>25 DEF Step

LEMMA RoundBoundStep == TypeOK /\ RoundBound /\ [Next]_vars => RoundBound'
<1> SUFFICES ASSUME TypeOK, RoundBound, [Next]_vars PROVE RoundBound'
  OBVIOUS
<1>1. CASE \E c \in Clients : Handle(c) BY <1>1, HandleBound
<1>2. CASE \E d \in Deployments : Step(d) \/ Fail(d) BY <1>2, StepBound
<1>3. CASE UNCHANGED vars BY <1>3 DEF vars, RoundBound
<1> QED BY <1>1, <1>2, <1>3 DEF Next

\* Neither count of a run's revisions passes the cap, however many reviewers press the
\* button at once, instances adopt the run and restarts replay it.
THEOREM RevisionsAreCapped == Spec => []RoundCap
<1>1. RoundBound => RoundCap BY DEF RoundBound, RoundCap
<1> QED BY TypeCorrect, RoundBoundInit, RoundBoundStep, <1>1, PTL DEF Spec

-----------------------------------------------------------------------------
(* Part two: one deployment.                                               *)

-----------------------------------------------------------------------------
(* The state as the proofs use it. *)

LEMMA OneSite ==
  ASSUME TypeOK
  PROVE  /\ Site \in Deployments /\ \A d \in Deployments : d = Site
         /\ wf \in [Deployments -> Instances] /\ wf[Site] \in InstanceFields
         /\ row \in Runs
         /\ req \in [Clients -> RequestStates]
         /\ \A c \in Clients : req[c] \in RequestFields /\ req[c].at = Site
BY SingleSite DEF TypeOK, Instances, RequestStates, RequestFields

\* What the status tells of the instance: no case of StatusesAt is missing.
LEMMA StatusTells ==
  ASSUME TypeOK, StatusTracksStep
  PROVE  /\ row.status = "none" => wf[Site].pc = "none"
         /\ row.status = "failed" => wf[Site].pc = "errored"
         /\ row.status \in {"hitl_1", "hitl_2"} => wf[Site].pc # "none"
<1>1. wf[Site].pc \in Pcs BY OneSite DEF InstanceFields
<1>2. row.status \in StatusesAt(wf[Site].pc) BY DEF StatusTracksStep
<1> QED BY <1>1, <1>2 DEF StatusesAt, Pcs, Steps, Parked, Stopped, Ended

LEMMA AnswerIdles ==
  ASSUME TypeOK, NEW c \in Clients, Answer(c)
  PROVE  req'[c].pc = "idle" /\ \A k \in Clients \ {c} : req'[k] = req[k]
BY OneSite DEF Answer, IdleRequest

LEMMA ContinueMoves ==
  ASSUME TypeOK, NEW c \in Clients, NEW pc, Continue(c, pc)
  PROVE  req'[c].pc = pc /\ \A k \in Clients \ {c} : req'[k] = req[k]
BY OneSite DEF Continue, RequestFields

LEMMA ServeSets ==
  ASSUME TypeOK, NEW c \in Clients, NEW r, Serve(c, r)
  PROVE  req'[c] = r /\ \A k \in Clients \ {c} : req'[k] = req[k]
BY OneSite DEF Serve

LEMMA GotoMoves ==
  ASSUME TypeOK, NEW pc, Goto(Site, pc)
  PROVE  wf'[Site].pc = pc /\ wf'[Site].rescue = wf[Site].rescue
BY OneSite DEF Goto, InstanceFields

\* A step of the instance: no client creates or restarts it at the time.
LEMMA InstanceStep ==
  ASSUME StatusTracksStep, UNCHANGED req, wf[Site].pc \notin {"none", "errored"},
         wf'[Site].pc # "none", wf'[Site].rescue = wf[Site].rescue,
         row'.status \in StatusesAt(wf'[Site].pc)
  PROVE  StatusTracksStep'
BY DEF StatusTracksStep, StatusesAt, Restarting, Claimed

\* A step of a handler that leaves the instance's place and the status, to a point that
\* makes no claim on them.
LEMMA HandlerStep ==
  ASSUME StatusTracksStep, NEW c \in Clients,
         \A k \in Clients \ {c} : req'[k] = req[k],
         req'[c].pc # "launch", req'[c].pc \in Restarting => req[c].pc \in Restarting,
         req'[c].pc \in Claimed => wf[Site].pc # "none",
         wf'[Site].pc = wf[Site].pc, wf'[Site].rescue = wf[Site].rescue,
         row'.status = row.status
  PROVE  StatusTracksStep'
<1>1. /\ row'.status \in StatusesAt(wf'[Site].pc)
      /\ wf'[Site].rescue = NoRescue
  BY DEF StatusTracksStep, StatusesAt
<1>2. ASSUME NEW k \in Clients
      PROVE  /\ req'[k].pc = "launch" => req[k].pc = "launch"
             /\ req'[k].pc \in Restarting => req[k].pc \in Restarting
             /\ req'[k].pc \in Claimed => wf[Site].pc # "none"
  BY DEF StatusTracksStep
<1> QED BY <1>1, <1>2 DEF StatusTracksStep, Restarting, Claimed

LEMMA TrackingInit == Init => StatusTracksStep
BY SingleSite
DEF Init, StatusTracksStep, StatusesAt, NewInstance, NoRescue, IdleRequest, Restarting, Claimed

-----------------------------------------------------------------------------
(* The status tracks the step, whoever moves. *)

\* The handlers that create and restart the instance.
LEMMA CreationTracks ==
  ASSUME TypeOK, StatusTracksStep, NEW c \in Clients,
         \/ CreateRun(c, Site) \/ LaunchInstance(c)
         \/ ClaimRestart(c) \/ RestartInstance(c) \/ UndoRestart(c)
  PROVE  StatusTracksStep'
<1>0. req[c].at = Site BY OneSite
<1>1. CASE CreateRun(c, Site)
  <2>1. row.status = "none" /\ row'.status = "pending" /\ wf[Site].pc = "none"
    BY <1>1, OneSite, StatusTells DEF CreateRun, Runs
  <2>2. UNCHANGED wf BY <1>1 DEF CreateRun
  <2>3. req'[c].pc = "launch" /\ \A k \in Clients \ {c} : req'[k] = req[k]
    BY <1>1, OneSite DEF CreateRun, Serve, IdleRequest
  <2> QED BY <2>1, <2>2, <2>3 DEF StatusTracksStep, StatusesAt, Restarting, Claimed
<1>2. CASE LaunchInstance(c)
  <2>1. row.status = "pending" /\ wf[Site].pc = "none" /\ UNCHANGED row
    BY <1>2 DEF LaunchInstance, StatusTracksStep
  <2>2. req'[c].pc = "idle" /\ \A k \in Clients \ {c} : req'[k] = req[k]
    BY <1>2, AnswerIdles DEF LaunchInstance
  <2>3. \A k \in Clients : req'[k].pc \notin {"launch"} \cup Restarting \cup Claimed
    BY <1>2, <2>1, <2>2 DEF LaunchInstance, StatusTracksStep, Restarting, Claimed
  <2>4. UNCHANGED wf \/ wf'[Site] = NewInstance(NoRescue)
    BY <1>0, <1>2, OneSite DEF LaunchInstance
  <2>5. row'.status \in StatusesAt(wf'[Site].pc) /\ wf'[Site].rescue = NoRescue
    BY <2>1, <2>4 DEF StatusTracksStep, StatusesAt, NewInstance
  <2> QED BY <2>3, <2>5 DEF StatusTracksStep
<1>3. CASE ClaimRestart(c)
  <2>1. CASE CanRestart
    <3>1. row.status = "failed" /\ wf[Site].pc = "errored" /\ UNCHANGED wf
      BY <1>3, <2>1, StatusTells DEF ClaimRestart, CanRestart
    <3>2. row'.status = "pending" BY <1>3, <2>1, OneSite DEF ClaimRestart, Runs
    <3>3. req'[c].pc = "restart" /\ \A k \in Clients \ {c} : req'[k] = req[k]
      BY <1>3, <2>1, ContinueMoves DEF ClaimRestart
    <3> QED BY <3>1, <3>2, <3>3 DEF StatusTracksStep, StatusesAt, Restarting, Claimed
  <2>2. CASE ~CanRestart
    <3>1. req'[c].pc = "idle" /\ \A k \in Clients \ {c} : req'[k] = req[k]
      BY <1>3, <2>2, AnswerIdles DEF ClaimRestart
    <3> QED BY <1>3, <2>2, <3>1, HandlerStep DEF ClaimRestart, Restarting, Claimed
  <2> QED BY <2>1, <2>2
<1>4. CASE RestartInstance(c)
  <2>1. row.status = "pending" /\ wf[Site].pc = "errored" /\ UNCHANGED row
    BY <1>4 DEF RestartInstance, StatusTracksStep, Restarting
  <2>2. wf[Site].rescue = NoRescue BY DEF StatusTracksStep
  <2>3. Exists(Site) BY <2>1 DEF Exists
  <2>4. CASE Continue(c, "undoRestart") /\ UNCHANGED wf
    <3>1. req'[c].pc = "undoRestart" /\ \A k \in Clients \ {c} : req'[k] = req[k]
      BY <2>4, ContinueMoves
    <3> QED BY <1>4, <2>1, <2>4, <3>1, HandlerStep
            DEF RestartInstance, Restarting, Claimed
  <2>5. CASE Answer(c)
    <3>1. req'[c].pc = "idle" /\ \A k \in Clients \ {c} : req'[k] = req[k]
      BY <2>5, AnswerIdles
    <3>2. \A k \in Clients : req'[k].pc \notin {"launch"} \cup Restarting
      BY <1>4, <2>1, <3>1 DEF RestartInstance, StatusTracksStep, Restarting
    <3>3. FromGate(wf[Site], req[c].prior).pc = "gate2"
            /\ FromGate(wf[Site], req[c].prior).rescue = NoRescue
      BY <2>2, OneSite DEF FromGate, InstanceFields
    <3>a. FromGate1(wf[Site]).pc = "gate1" /\ FromGate1(wf[Site]).rescue = NoRescue
      BY <2>2, OneSite DEF FromGate1, InstanceFields
    <3>4. /\ wf'[Site].pc \in {"load", "gate1", "gate2", "errored"}
          /\ wf'[Site].rescue = NoRescue
      BY <1>0, <1>4, <2>1, <2>2, <2>3, <3>3, <3>a, OneSite DEF RestartInstance, NewInstance
    <3> QED BY <2>1, <3>2, <3>4 DEF StatusTracksStep, StatusesAt, Restarting, Claimed
  <2> QED BY <1>4, <2>4, <2>5 DEF RestartInstance
<1>5. CASE UndoRestart(c)
  <2>1. wf[Site].pc = "errored" /\ UNCHANGED wf
    BY <1>5 DEF UndoRestart, StatusTracksStep, Restarting
  <2>2. row'.status = "failed" BY <1>5, OneSite DEF UndoRestart, Runs
  <2>3. req'[c].pc = "idle" /\ \A k \in Clients \ {c} : req'[k] = req[k]
    BY <1>5, AnswerIdles DEF UndoRestart
  <2>4. \A k \in Clients : req'[k].pc \notin {"launch"} \cup Restarting
    BY <1>5, <2>1, <2>3 DEF UndoRestart, StatusTracksStep, Restarting
  <2> QED BY <2>1, <2>2, <2>4 DEF StatusTracksStep, StatusesAt, Claimed
<1> QED BY <1>1, <1>2, <1>3, <1>4, <1>5

\* The handlers of the two gates, the editor and the reading of a failure.
LEMMA DeskTracks ==
  ASSUME TypeOK, StatusTracksStep, NEW c \in Clients, Handle(c),
         ~CreateRun(c, Site), ~LaunchInstance(c),
         ~ClaimRestart(c), ~RestartInstance(c), ~UndoRestart(c)
  PROVE  StatusTracksStep'
<1> USE DEF Restarting, Claimed
<1>0. req[c].at = Site BY OneSite
<1>1. CASE ReadFailure(c, Site)
  <2>a. \A n, from : [IdleRequest(Site) EXCEPT !.pc = "claimRestart", !.prior = n,
                                             !.from = from].pc = "claimRestart"
    BY DEF IdleRequest
  <2>b. PICK r : Serve(c, r) /\ r.pc = "claimRestart" BY <1>1, <2>a DEF ReadFailure
  <2>1. req'[c].pc = "claimRestart" /\ \A k \in Clients \ {c} : req'[k] = req[k]
    BY <2>b, OneSite DEF Serve
  <2> QED BY <1>1, <2>1, HandlerStep DEF ReadFailure
<1>2. CASE \E decision \in Decisions1 : ClaimHitl1(c, Site, decision)
  <2>1. PICK decision \in Decisions1 : ClaimHitl1(c, Site, decision) BY <1>2
  <2>2. wf[Site].pc # "none" /\ row'.status = row.status
    BY <2>1, OneSite, StatusTells DEF ClaimHitl1, Hitl1Gate, Runs
  <2>3. req'[c].pc \in {"apply1", "send1"} /\ \A k \in Clients \ {c} : req'[k] = req[k]
    BY <2>1, OneSite DEF ClaimHitl1, Serve, IdleRequest
  <2> QED BY <2>1, <2>2, <2>3, HandlerStep DEF ClaimHitl1
<1>3. CASE \E decision \in Decisions2, edits \in BOOLEAN : ReadHitl2(c, Site, decision, edits)
  <2>1. PICK decision \in Decisions2, edits \in BOOLEAN : ReadHitl2(c, Site, decision, edits)
    BY <1>3
  <2>2. req'[c].pc \in {"check2", "claim2"} /\ \A k \in Clients \ {c} : req'[k] = req[k]
    BY <2>1, OneSite DEF ReadHitl2, Serve, IdleRequest
  <2> QED BY <2>1, <2>2, HandlerStep DEF ReadHitl2
<1>4. CASE SaveArticle(c)
  BY <1>4 DEF SaveArticle, StatusTracksStep, StatusesAt
<1>5. CASE RereadPost(c)
  <2>1. row'.status = row.status BY <1>5, OneSite DEF RereadPost, Voided, Runs
  <2> QED BY <1>5, <2>1 DEF RereadPost, StatusTracksStep, StatusesAt
<1>6. CASE OverrideRoute(c)
  <2>1. row'.status = row.status BY <1>6, OneSite DEF OverrideRoute, Runs
  <2>2. req'[c].pc = "send1" /\ \A k \in Clients \ {c} : req'[k] = req[k]
    BY <1>6, ContinueMoves DEF OverrideRoute
  <2>3. wf[Site].pc # "none" BY <1>6 DEF OverrideRoute, StatusTracksStep
  <2> QED BY <1>6, <2>1, <2>2, <2>3, HandlerStep DEF OverrideRoute
<1>7. ASSUME NEW gate \in Gates, NEW undo \in {"undo1", "undo2"}, NEW rescue,
             SendEvent(c, gate, undo, rescue), req[c].pc \in Claimed
      PROVE  StatusTracksStep'
  <2>1. wf[Site].pc # "none" BY <1>7 DEF StatusTracksStep
  <2>2. \/ req'[c].pc \in {"idle", undo} /\ UNCHANGED wf
        \/ /\ req'[c].pc = "idle"
           /\ wf' = [wf EXCEPT ![Site].inbox[gate] = Append(@, req[c].decision)]
    BY <1>0, <1>7, <2>1, AnswerIdles, ContinueMoves DEF SendEvent, Exists
  <2>3. \A k \in Clients \ {c} : req'[k] = req[k]
    BY <1>7, AnswerIdles, ContinueMoves DEF SendEvent
  <2>4. wf'[Site].pc = wf[Site].pc /\ wf'[Site].rescue = wf[Site].rescue
    BY <2>2, OneSite DEF InstanceFields
  <2> QED BY <1>7, <2>1, <2>2, <2>3, <2>4, HandlerStep DEF SendEvent
<1>8. CASE SendHitl1(c) BY <1>7, <1>8 DEF SendHitl1, Gates
<1>9. CASE SendHitl2(c) BY <1>7, <1>9 DEF SendHitl2, Gates
<1>10. CASE UndoHitl1(c)
  <2>1. row'.status = row.status BY <1>10, OneSite DEF UndoHitl1, Runs
  <2> QED BY <1>10, <2>1, AnswerIdles, HandlerStep DEF UndoHitl1
<1>11. CASE UndoHitl2(c)
  <2>1. row'.status = row.status BY <1>11, OneSite DEF UndoHitl2, RolledBack, Voided, Runs
  <2> QED BY <1>11, <2>1, AnswerIdles, HandlerStep DEF UndoHitl2
<1>12. CASE PreflightHitl2(c)
  <2>1. req'[c].pc \in {"idle", "claim2"} /\ \A k \in Clients \ {c} : req'[k] = req[k]
    BY <1>12, OneSite, AnswerIdles DEF PreflightHitl2, RequestFields
  <2> QED BY <1>12, <2>1, HandlerStep DEF PreflightHitl2
<1>13. CASE ClaimHitl2(c)
  <2>1. CASE CanClaim2(req[c])
    <3>1. wf[Site].pc # "none" /\ row'.status = row.status
      BY <1>13, <2>1, OneSite, StatusTells DEF ClaimHitl2, CanClaim2, Hitl2Gate, Runs
    <3>2. req'[c].pc \in {"edit2", "send2"} /\ \A k \in Clients \ {c} : req'[k] = req[k]
      BY <1>13, <2>1, ContinueMoves DEF ClaimHitl2
    <3> QED BY <1>13, <3>1, <3>2, HandlerStep DEF ClaimHitl2
  <2>2. CASE ~CanClaim2(req[c])
    BY <1>13, <2>2, AnswerIdles, HandlerStep DEF ClaimHitl2
  <2> QED BY <2>1, <2>2
<1>14. CASE EditRender(c)
  <2>1. req'[c].pc = "send2" /\ \A k \in Clients \ {c} : req'[k] = req[k]
    BY <1>14, ContinueMoves DEF EditRender
  <2>2. wf[Site].pc # "none" BY <1>14 DEF EditRender, StatusTracksStep
  <2> QED BY <1>14, <2>1, <2>2, HandlerStep DEF EditRender
<1> HIDE DEF Restarting, Claimed
<1> QED BY <1>1, <1>2, <1>3, <1>4, <1>5, <1>6, <1>8, <1>9, <1>10, <1>11, <1>12, <1>13, <1>14,
           OneSite DEF Handle, Proceed

\* What the update of some fields of the instance leaves of it.
LEMMA UpdateMoves ==
  ASSUME TypeOK, NEW v, wf' = [wf EXCEPT ![Site] = v]
  PROVE  wf'[Site] = v
BY OneSite

LEMMA DispatchMoves ==
  ASSUME NEW w \in InstanceFields, NEW decision
  PROVE  /\ Dispatch(w, decision).pc \in {"publishing", "reject", "changes", "revise"}
         /\ Dispatch(w, decision).rescue = w.rescue
BY DEF Dispatch, InstanceFields

\* The steps of the instance: each leaves the status that its next place allows.
LEMMA StepTracks ==
  ASSUME TypeOK, StatusTracksStep, Step(Site) \/ Fail(Site)
  PROVE  StatusTracksStep'
<1> DEFINE w == wf[Site]
<1>0. w \in InstanceFields /\ row.status \in StatusesAt(w.pc) /\ row.status \in Statuses
  BY OneSite DEF StatusTracksStep, Runs
<1>a. w.rescue = NoRescue BY DEF StatusTracksStep
<1>1. ASSUME NEW pc, NEW next, At(Site, pc), pc \notin {"none", "errored"}, next # "none",
             Goto(Site, next), UNCHANGED req, row'.status \in StatusesAt(next)
      PROVE  StatusTracksStep'
  BY <1>1, GotoMoves, InstanceStep DEF At
<1>2. ASSUME NEW pc, NEW v, At(Site, pc), pc \notin {"none", "errored"}, v.pc # "none",
             v.rescue = w.rescue, wf' = [wf EXCEPT ![Site] = v], UNCHANGED req,
             row'.status \in StatusesAt(v.pc)
      PROVE  StatusTracksStep'
  BY <1>2, UpdateMoves, InstanceStep DEF At
<1>3. ASSUME NEW status, row' = [row EXCEPT !.status = status]
      PROVE  row'.status = status
  BY <1>3, OneSite DEF Runs
<1>4. CASE Load(Site)
  <2> DEFINE pc == IF row.refresh THEN "fetch" ELSE "strategy"
             v == [[w EXCEPT !.route = row.route] EXCEPT !.pc = pc]
  <2>1. [w EXCEPT !.route = row.route].rescue.gate = "none" BY <1>0, <1>a DEF InstanceFields, NoRescue
  <2>2. wf' = [wf EXCEPT ![Site] = v] BY <1>4, <2>1 DEF Load
  <2>3. v.pc = pc /\ v.rescue = w.rescue BY <1>0 DEF InstanceFields
  <2>4. row'.status = "pending" BY <1>0, <1>4 DEF Load, At, StatusesAt
  <2>5. row'.status \in StatusesAt(v.pc) BY <2>3, <2>4 DEF StatusesAt
  <2>6. v.pc # "none" BY <2>3
  <2> HIDE DEF v
  <2> QED BY <1>2, <1>4, <2>2, <2>3, <2>5, <2>6 DEF Load
<1>5. CASE Fetch(Site) BY <1>1, <1>3, <1>5 DEF Fetch, StatusesAt
<1>6. CASE Strategy(Site)
  <2> DEFINE pc == IF row.auto1 THEN "accept1" ELSE "gate1"
             v == [w EXCEPT !.pc = pc, !.route = IF row.refresh THEN "planned" ELSE w.route]
  <2>1. wf' = [wf EXCEPT ![Site] = v] BY <1>0, <1>6 DEF Strategy, InstanceFields
  <2>2. v.pc = pc /\ v.rescue = w.rescue BY <1>0 DEF InstanceFields
  <2>3. row'.status = "strategy" BY <1>6, OneSite DEF Strategy, Runs
  <2>4. row'.status \in StatusesAt(v.pc) BY <2>2, <2>3 DEF StatusesAt
  <2>5. v.pc # "none" BY <2>2
  <2> HIDE DEF v
  <2> QED BY <1>2, <1>6, <2>1, <2>2, <2>4, <2>5 DEF Strategy
<1>7. CASE AutoAccept(Site)
  <2>1. row'.status = "strategy"
    BY <1>0, <1>7, OneSite DEF AutoAccept, At, StatusesAt, Runs
  <2> QED BY <1>1, <1>7, <2>1 DEF AutoAccept, StatusesAt
<1>8. CASE OpenGate1(Site)
  <2> DEFINE v == [w EXCEPT !.pc = "announce1", !.gate1 = TRUE]
  <2>1. wf' = [wf EXCEPT ![Site] = v] BY <1>0, <1>8 DEF OpenGate1, InstanceFields
  <2>2. v.pc = "announce1" /\ v.rescue = w.rescue BY <1>0 DEF InstanceFields
  <2>3. row'.status \in StatusesAt(v.pc)
    BY <1>3, <1>8, <2>2 DEF OpenGate1, Hitl1Gate, StatusesAt
  <2> HIDE DEF v
  <2> QED BY <1>2, <1>8, <2>1, <2>2, <2>3 DEF OpenGate1
<1>9. CASE ReceiveHitl1(Site)
  <2> DEFINE v == [w EXCEPT !.pc = "apply1", !.event = Head(w.inbox["hitl_1"]),
                            !.inbox = [w.inbox EXCEPT !["hitl_1"] = Tail(w.inbox["hitl_1"])]]
  <2>1. wf' = [wf EXCEPT ![Site] = v] BY <1>0, <1>9 DEF ReceiveHitl1
  <2>2. v.pc = "apply1" /\ v.rescue = w.rescue BY <1>0 DEF InstanceFields
  <2>3. row'.status = "hitl_1" BY <1>0, <1>9 DEF ReceiveHitl1, At, StatusesAt
  <2> QED BY <1>2, <1>9, <2>1, <2>2, <2>3 DEF ReceiveHitl1, StatusesAt
<1>10. CASE ApplyHitl1(Site)
  <2>1. row.status = "hitl_1" BY <1>0, <1>10 DEF ApplyHitl1, At, StatusesAt
  <2>2. row'.status = IF w.event = "cancel" THEN "changes_requested" ELSE "hitl_1"
    BY <1>10, <2>1, OneSite DEF ApplyHitl1, Runs
  <2> QED BY <1>1, <1>10, <2>2 DEF ApplyHitl1, StatusesAt, Ended
<1>11. CASE Produce(Site)
  <2> DEFINE v == [w EXCEPT !.pc = "write", !.iter = 0]
  <2>1. wf' = [wf EXCEPT ![Site] = v] BY <1>11 DEF Produce
  <2>2. v.pc = "write" /\ v.rescue = w.rescue BY <1>0 DEF InstanceFields
  <2>3. row'.status \in StatusesAt(v.pc) BY <1>3, <1>11, <2>2 DEF Produce, StatusesAt
  <2> HIDE DEF v
  <2> QED BY <1>2, <1>11, <2>1, <2>2, <2>3 DEF Produce
<1>12. CASE Write(Site) \/ Render(Site)
  <2>1. row'.status = "production" BY <1>0, <1>12 DEF Write, Render, At, StatusesAt
  <2> QED BY <1>1, <1>12, <2>1 DEF Write, Render, StatusesAt
<1>13. CASE Audit(Site)
  <2> DEFINE v == [w EXCEPT !.pc = "write", !.iter = w.iter + 1]
  <2>1. row'.status = "production" BY <1>0, <1>13 DEF Audit, At, StatusesAt
  <2>2. CASE Goto(Site, "gate2") BY <1>1, <1>13, <2>1, <2>2 DEF Audit, StatusesAt
  <2>3. CASE wf' = [wf EXCEPT ![Site] = v]
    <3>1. v.pc = "write" /\ v.rescue = w.rescue BY <1>0 DEF InstanceFields
    <3> QED BY <1>2, <1>13, <2>1, <2>3, <3>1 DEF Audit, StatusesAt
  <2>4. wf' = [wf EXCEPT ![Site].pc = "write", ![Site].iter = @ + 1]
          => wf' = [wf EXCEPT ![Site] = v]
    BY <1>0, OneSite DEF InstanceFields
  <2> QED BY <1>13, <2>2, <2>3, <2>4 DEF Audit
<1>14. CASE OpenGate2(Site)
  <2> DEFINE v == [w EXCEPT !.pc = "announce2", !.gates = w.gates \cup {w.round}]
  <2>1. wf' = [wf EXCEPT ![Site] = v] BY <1>0, <1>14 DEF OpenGate2, InstanceFields
  <2>2. v.pc = "announce2" /\ v.rescue = w.rescue BY <1>0 DEF InstanceFields
  <2>3. row'.status \in StatusesAt(v.pc)
    BY <1>3, <1>14, <2>2 DEF OpenGate2, Hitl2Gate, StatusesAt
  <2> HIDE DEF v
  <2> QED BY <1>2, <1>14, <2>1, <2>2, <2>3 DEF OpenGate2
<1>15. CASE Announce(Site)
  <2>1. \/ row'.status = "hitl_1" /\ Goto(Site, "await1") /\ At(Site, "announce1")
        \/ row'.status = "hitl_2" /\ Goto(Site, "await2") /\ At(Site, "announce2")
        \/ row'.status \in Ended /\ Goto(Site, "completed") /\ At(Site, "close")
    BY <1>0, <1>15 DEF Announce, At, StatusesAt
  <2> QED BY <1>1, <1>15, <2>1 DEF Announce, StatusesAt
<1>16. CASE ReceiveHitl2(Site)
  <2> DEFINE u == [w EXCEPT !.inbox["hitl_2"] = Tail(w.inbox["hitl_2"])]
             v == Dispatch(u, Head(w.inbox["hitl_2"]))
  <2>1. u \in Instances BY <1>16, OneSite, TailType DEF ReceiveHitl2, Gates, TypeOK
  <2>2. u.rescue = w.rescue BY <1>0 DEF InstanceFields
  <2>3. /\ v.pc \in {"publishing", "reject", "changes", "revise"}
        /\ v.rescue = w.rescue
    BY <2>1, <2>2, DispatchMoves DEF Instances
  <2>4. wf' = [wf EXCEPT ![Site] = v] BY <1>16 DEF ReceiveHitl2
  <2>5. row'.status = "hitl_2" BY <1>0, <1>16 DEF ReceiveHitl2, At, StatusesAt
  <2>6. row'.status \in StatusesAt(v.pc) BY <2>3, <2>5 DEF StatusesAt
  <2> HIDE DEF v
  <2> QED BY <1>2, <1>16, <2>3, <2>4, <2>6 DEF ReceiveHitl2
<1>17. CASE Publishing(Site) \/ Reject(Site) \/ Changes(Site) \/ Revise(Site) \/ Save(Site)
  <2>1. PICK pc, status, next : /\ SetStatus(Site, pc, status, next)
                                /\ pc \in {"publishing", "reject", "changes", "revise", "save"}
                                /\ next # "none"
                                /\ status \in StatusesAt(next)
    BY <1>17 DEF Publishing, Reject, Changes, Revise, Save, StatusesAt, Ended
  <2> QED BY <1>1, <1>3, <2>1 DEF SetStatus
<1>18. CASE ReadPublish(Site)
  <2> DEFINE v == [w EXCEPT !.pc = "cms", !.text = drafts[Latest(Written)].render]
  <2>1. wf' = [wf EXCEPT ![Site] = v] BY <1>18 DEF ReadPublish
  <2>2. v.pc = "cms" /\ v.rescue = w.rescue BY <1>0 DEF InstanceFields
  <2>3. row'.status = "publishing" BY <1>0, <1>18 DEF ReadPublish, At, StatusesAt
  <2> QED BY <1>2, <1>18, <2>1, <2>2, <2>3 DEF ReadPublish, StatusesAt
<1>19. CASE PushToCms(Site)
  <2>1. row'.status = "publishing" BY <1>0, <1>19 DEF PushToCms, At, StatusesAt
  <2> QED BY <1>1, <1>19, <2>1 DEF PushToCms, StatusesAt
<1>20. CASE Compliance(Site)
  <2>1. row'.status = "published" BY <1>0, <1>20 DEF Compliance, At, StatusesAt
  <2> QED BY <1>1, <1>20, <2>1 DEF Compliance, StatusesAt, Ended
<1>21. ASSUME NEW err, wf' = [wf EXCEPT ![Site].pc = "onError", ![Site].err = err],
              w.pc \in Steps \cup Parked, UNCHANGED req, row'.status = row.status
       PROVE  StatusTracksStep'
  <2> DEFINE v == [w EXCEPT !.pc = "onError", !.err = err]
  <2>1. wf' = [wf EXCEPT ![Site] = v] BY <1>21
  <2>2. v.pc = "onError" /\ v.rescue = w.rescue BY <1>0 DEF InstanceFields
  <2>3. row.status \notin {"none", "failed"}
    BY <1>21, StatusTells DEF Steps, Parked
  <2> QED BY <1>0, <1>2, <1>21, <2>1, <2>2, <2>3, ZenonT(40) DEF StatusesAt, At, Steps, Parked
<1>22. CASE TargetMismatch(Site)
  <2>1. row'.status = row.status BY <1>22, OneSite DEF TargetMismatch, Voided, Runs
  <2> QED BY <1>21, <1>22, <2>1 DEF TargetMismatch, At, Steps
<1>23. CASE Fail(Site) BY <1>21, <1>23 DEF Fail, Parked
<1>24. CASE PersistError(Site)
  <2>1. row'.status = "failed" BY <1>24, OneSite DEF PersistError, FailedRow, Runs
  <2> QED BY <1>1, <1>24, <2>1 DEF PersistError, StatusesAt
<1> QED BY <1>4, <1>5, <1>6, <1>7, <1>8, <1>9, <1>10, <1>11, <1>12, <1>13, <1>14, <1>15,
           <1>16, <1>17, <1>18, <1>19, <1>20, <1>22, <1>23, <1>24 DEF Step

LEMMA TrackingStep == TypeOK /\ StatusTracksStep /\ [Next]_vars => StatusTracksStep'
<1> SUFFICES ASSUME TypeOK, StatusTracksStep, [Next]_vars PROVE StatusTracksStep'
  OBVIOUS
<1>1. CASE \E c \in Clients : Handle(c) BY <1>1, CreationTracks, DeskTracks
<1>2. CASE \E d \in Deployments : Step(d) \/ Fail(d) BY <1>2, StepTracks, OneSite
<1>3. CASE UNCHANGED vars BY <1>3 DEF vars, StatusTracksStep, StatusesAt
<1> QED BY <1>1, <1>2, <1>3 DEF Next

\* The status of a run on one deployment tells where its instance is.
THEOREM StatusIsTrue == Spec => []StatusTracksStep
BY TypeCorrect, TrackingInit, TrackingStep, PTL DEF Spec

\* So an instance parks only at a gate that the row shows open,
THEOREM GatesAgree == Spec => []GateAgreement
<1>1. TypeOK /\ StatusTracksStep => GateAgreement
  BY OneSite DEF StatusTracksStep, StatusesAt, GateAgreement, At
<1> QED BY TypeCorrect, StatusIsTrue, <1>1, PTL

\* and a run that shows failed is no longer worked on: it is safe to restart.
THEOREM FailedRunIsStopped == Spec => []FailedIsStopped
<1>1. TypeOK /\ StatusTracksStep => FailedIsStopped
  BY OneSite, StatusTells DEF FailedIsStopped, Stopped
<1> QED BY TypeCorrect, StatusIsTrue, <1>1, PTL

-----------------------------------------------------------------------------
(* The contract. *)

\* What a handler does to the status: it creates a run, and restarts a failed one.
LEMMA HandlerStatus ==
  ASSUME TypeOK, StatusTracksStep, NEW c \in Clients, Handle(c)
  PROVE  /\ UNCHANGED live
         /\ \/ row'.status = row.status
            \/ row.status = "none" /\ row'.status = "pending"
            \/ row.status = "failed" /\ row'.status = "pending"
            \/ row.status = "pending" /\ row'.status = "failed"
<1>1. CASE CreateRun(c, Site) BY <1>1, OneSite DEF CreateRun, Runs
<1>2. CASE ClaimRestart(c) BY <1>2, OneSite DEF ClaimRestart, CanRestart, Runs
<1>3. CASE UndoRestart(c)
  BY <1>3, OneSite DEF UndoRestart, Runs, StatusTracksStep, Restarting
<1>4. CASE ReadFailure(c, Site) BY <1>4 DEF ReadFailure
<1>5. CASE \E decision \in Decisions1 : ClaimHitl1(c, Site, decision)
  BY <1>5, OneSite DEF ClaimHitl1, Runs
<1>6. CASE \E decision \in Decisions2, edits \in BOOLEAN : ReadHitl2(c, Site, decision, edits)
  BY <1>6 DEF ReadHitl2
<1>7. CASE SaveArticle(c) BY <1>7 DEF SaveArticle
<1>8. CASE RereadPost(c) BY <1>8, OneSite DEF RereadPost, Voided, Runs
<1>9. CASE LaunchInstance(c) BY <1>9 DEF LaunchInstance
<1>10. CASE OverrideRoute(c) BY <1>10, OneSite DEF OverrideRoute, Runs
<1>11. CASE SendHitl1(c) \/ SendHitl2(c) BY <1>11 DEF SendHitl1, SendHitl2, SendEvent
<1>12. CASE UndoHitl1(c) BY <1>12, OneSite DEF UndoHitl1, Runs
<1>13. CASE UndoHitl2(c) BY <1>13, OneSite DEF UndoHitl2, RolledBack, Voided, Runs
<1>14. CASE PreflightHitl2(c) BY <1>14 DEF PreflightHitl2
<1>15. CASE ClaimHitl2(c) BY <1>15, OneSite DEF ClaimHitl2, Runs
<1>16. CASE EditRender(c) BY <1>16 DEF EditRender
<1>17. CASE RestartInstance(c) BY <1>17 DEF RestartInstance
<1> QED BY <1>1, <1>2, <1>3, <1>4, <1>5, <1>6, <1>7, <1>8, <1>9, <1>10, <1>11, <1>12, <1>13,
           <1>14, <1>15, <1>16, <1>17, OneSite DEF Handle, Proceed

\* What a step of the instance does to the status, and to the CMS while it publishes.
LEMMA StepStatus ==
  ASSUME TypeOK, StatusTracksStep, Step(Site) \/ Fail(Site)
  PROVE  \/ UNCHANGED <<row.status, live>>
         \/ /\ UNCHANGED live
            /\ <<row.status, row'.status>> \in
                 {"pending"} \X {"fetching"} \cup {"pending", "fetching"} \X {"strategy"}
                 \cup {"strategy", "pending"} \X {"hitl_1"}
                 \cup {"hitl_1"} \X {"changes_requested"}
                 \cup {"strategy", "hitl_1", "revising"} \X {"production"}
                 \cup {"production", "pending"} \X {"hitl_2"}
                 \cup {"hitl_2"} \X {"publishing", "rejected", "changes_requested", "revising"}
                 \cup {"publishing"} \X {"published"}
         \/ /\ UNCHANGED live /\ row'.status = "failed"
            /\ At(Site, "onError") /\ wf'[Site].pc = "errored"
         \/ row.status = "publishing" /\ UNCHANGED row.status /\ live' \in Nat
<1>0. /\ row \in Runs /\ row.status \in Statuses
      /\ row.status \in StatusesAt(wf[Site].pc)
      /\ wf[Site].text \in Nat
  BY OneSite DEF StatusTracksStep, Runs, InstanceFields
<1>3. ASSUME NEW status, row' = [row EXCEPT !.status = status]
      PROVE  row'.status = status
  BY <1>0, <1>3 DEF Runs
<1>4. CASE Load(Site) \/ Write(Site) \/ Render(Site) \/ Audit(Site) \/ ReceiveHitl1(Site)
           \/ Announce(Site) \/ ReceiveHitl2(Site) \/ ReadPublish(Site) \/ Compliance(Site)
           \/ Fail(Site)
  BY <1>4 DEF Load, Write, Render, Audit, ReceiveHitl1, Announce, ReceiveHitl2, ReadPublish,
              Compliance, Fail
<1>5. CASE Fetch(Site) BY <1>0, <1>3, <1>5 DEF Fetch, At, StatusesAt
<1>6. CASE Strategy(Site)
  <2>1. row'.status = "strategy" BY <1>0, <1>6 DEF Strategy, Runs
  <2> QED BY <1>0, <1>6, <2>1 DEF Strategy, At, StatusesAt
<1>7. CASE AutoAccept(Site) BY <1>0, <1>7 DEF AutoAccept, Runs
<1>8. CASE OpenGate1(Site)
  <2>1. row'.status = "hitl_1" BY <1>3, <1>8 DEF OpenGate1, Hitl1Gate
  <2>2. row.status \in {"strategy", "pending"} /\ UNCHANGED live
    BY <1>0, <1>8 DEF OpenGate1, At, StatusesAt
  <2> QED BY <2>1, <2>2
<1>9. CASE ApplyHitl1(Site)
  <2>1. row'.status = IF wf[Site].event = "cancel" THEN "changes_requested" ELSE row.status
    BY <1>0, <1>9 DEF ApplyHitl1, Runs
  <2> QED BY <1>0, <1>9, <2>1 DEF ApplyHitl1, At, StatusesAt
<1>10. CASE Produce(Site) BY <1>0, <1>3, <1>10 DEF Produce, At, StatusesAt
<1>11. CASE OpenGate2(Site) BY <1>0, <1>3, <1>11 DEF OpenGate2, At, StatusesAt, Hitl2Gate
<1>12. CASE Publishing(Site) \/ Reject(Site) \/ Changes(Site) \/ Revise(Site)
  BY <1>0, <1>3, <1>12
  DEF Publishing, Reject, Changes, Revise, SetStatus, At, StatusesAt
<1>13. CASE Save(Site) BY <1>0, <1>3, <1>13 DEF Save, SetStatus, At, StatusesAt
<1>14. CASE TargetMismatch(Site) BY <1>0, <1>14 DEF TargetMismatch, Voided, Runs
<1>15. CASE PushToCms(Site) BY <1>0, <1>15 DEF PushToCms, At, StatusesAt
<1>16. CASE PersistError(Site)
  <2>1. row'.status = "failed" BY <1>0, <1>16 DEF PersistError, FailedRow, Runs
  <2>2. wf'[Site].pc = "errored" BY <1>16, GotoMoves DEF PersistError
  <2> QED BY <1>16, <2>1, <2>2 DEF PersistError
<1> QED BY <1>4, <1>5, <1>6, <1>7, <1>8, <1>9, <1>10, <1>11, <1>12, <1>13, <1>14, <1>15,
           <1>16 DEF Step

\* A run that has ended is left by a failure of its own instance only: no decision that
\* arrives late, no second request and no restart moves it.
THEOREM EndsAreKept == Spec => EndedIsLeftByFailureOnly
<1> DEFINE Kept == row.status \in Ended /\ row'.status # row.status =>
                     /\ row'.status = "failed"
                     /\ \E d \in Deployments : At(d, "onError") /\ wf'[d].pc = "errored"
<1>1. TypeOK /\ StatusTracksStep /\ [Next]_vars => [Kept]_vars
  <2> SUFFICES ASSUME TypeOK, StatusTracksStep, Next PROVE Kept
    OBVIOUS
  <2>1. CASE \E c \in Clients : Handle(c)
    BY <2>1, HandlerStatus DEF Ended
  <2>2. CASE \E d \in Deployments : Step(d) \/ Fail(d)
    BY <2>2, StepStatus, OneSite DEF Ended
  <2> QED BY <2>1, <2>2 DEF Next
<1> QED BY TypeCorrect, StatusIsTrue, <1>1, PTL DEF Spec, EndedIsLeftByFailureOnly

\* The run on one deployment implements the contract: every step is a step of RunContract
\* or leaves the stage and the CMS alone.
THEOREM ContractIsKept == Spec => KeepsContract
<1>1. Init => Contract!Init BY DEF Init, Contract!Init, Stage
<1>2. TypeOK /\ StatusTracksStep /\ [Next]_vars => [Contract!Next]_<<Stage, live>>
  <2> SUFFICES ASSUME TypeOK, StatusTracksStep, Next
               PROVE  Contract!Next \/ UNCHANGED <<Stage, live>>
    BY DEF vars, Stage
  <2>0. row.status \in Statuses BY OneSite DEF Runs
  <2>1. Stage \in Contract!Stages
    BY <2>0 DEF Stage, Contract!Stages, Statuses
  <2>2. row'.status = "failed" => Stage' = "failed" BY DEF Stage
  <2>3. UNCHANGED live /\ row'.status = "failed" => Contract!Fail
    BY <2>1, <2>2 DEF Contract!Fail, Contract!Move
  <2>4. UNCHANGED row.status => UNCHANGED Stage BY DEF Stage
  <2>5. CASE \E c \in Clients : Handle(c)
    <3>1. row.status = "failed" /\ row'.status = "pending" /\ UNCHANGED live => Contract!Restart
      BY DEF Stage, Contract!Restart, Contract!Move
    <3>2. row.status = "none" /\ row'.status = "pending" => UNCHANGED Stage BY DEF Stage
    <3> QED BY <2>3, <2>4, <2>5, <3>1, <3>2, HandlerStatus DEF Contract!Next
  <2>6. CASE \E d \in Deployments : Step(d) \/ Fail(d)
    <3>1. CASE UNCHANGED <<row.status, live>> BY <2>4, <3>1
    <3>2. CASE row.status = "publishing" /\ UNCHANGED row.status /\ live' \in Nat
      BY <2>4, <3>2 DEF Contract!Push, Contract!Next, Stage
    <3>3. CASE /\ UNCHANGED live
               /\ <<row.status, row'.status>> \in
                 {"pending"} \X {"fetching"} \cup {"pending", "fetching"} \X {"strategy"}
                 \cup {"strategy", "pending"} \X {"hitl_1"}
                 \cup {"hitl_1"} \X {"changes_requested"}
                 \cup {"strategy", "hitl_1", "revising"} \X {"production"}
                 \cup {"production", "pending"} \X {"hitl_2"}
                 \cup {"hitl_2"} \X {"publishing", "rejected", "changes_requested", "revising"}
                 \cup {"publishing"} \X {"published"}
      <4>1. <<Stage, Stage'>> \in
              {"working"} \X {"working", "gate1", "gate2"} \cup {"gate1"} \X {"working", "closed"}
              \cup {"gate2"} \X {"working", "closed", "publishing"}
              \cup {"publishing"} \X {"published"}
        BY <3>3 DEF Stage
      <4> QED BY <3>3, <4>1
              DEF Contract!OpenGate, Contract!Decide1, Contract!Decide2, Contract!Publish,
                  Contract!Move, Contract!Next
    <3> QED BY <2>3, <2>6, <3>1, <3>2, <3>3, StepStatus, OneSite DEF Contract!Next
  <2> QED BY <2>5, <2>6 DEF Next
<1> QED BY TypeCorrect, StatusIsTrue, <1>1, <1>2, PTL DEF Spec, KeepsContract, Contract!Spec

-----------------------------------------------------------------------------
(* An orderly desk: one request at a time, and one decision for a gate that is seen open. *)

Inst == wf[Site]
In1 == Inst.inbox["hitl_1"]
In2 == Inst.inbox["hitl_2"]

\* A decision at the second gate before its claim, and after it.
Reading2 == {"check2", "claim2"}
Sending2 == {"edit2", "send2", "undo2"}

\* Where the instance can be while a decision at a gate is under way, and where it acts on one.
AtGate1 == {"announce1", "await1", "onError", "errored"}
AtGate2 == {"announce2", "await2", "onError", "errored"}
Acting == \/ Inst.pc \in {"apply1", "publishing", "reject", "changes", "revise"}
          \/ Inst.pc = "produce" /\ row.status = "hitl_1"

\* What a step leaves alone of the record of the decision, and of the instance.
RecordKept == /\ row'.d2 = row.d2 /\ row'.approver = row.approver /\ row'.checked = row.checked
              /\ row'.round = row.round /\ row'.refresh = row.refresh
InstKept == UNCHANGED <<In1, In2, Inst.round, Inst.gates, Inst.err>>
OutputKept == UNCHANGED <<live, log, seen>>

\* The steps of the instance, by what they do to the decisions.
MovesOn ==
  /\ InstKept /\ RecordKept /\ OutputKept /\ UNCHANGED <<drafts, decided>> /\ row'.error = row.error
  /\ <<Inst.pc, Inst.pc'>> \in
       {"load"} \X {"fetch", "strategy"} \cup {"fetch"} \X {"strategy"}
       \cup {"strategy"} \X {"accept1", "gate1"} \cup {"accept1"} \X {"produce"}
       \cup {"announce1"} \X {"await1"} \cup {"announce2"} \X {"await2"}
       \cup {"close"} \X {"completed"} \cup {"apply1"} \X {"close", "produce"}
       \cup {"produce"} \X {"write"} \cup {"audit"} \X {"write", "gate2"}
       \cup {"publishing"} \X {"read"} \cup {"reject", "changes"} \X {"close"}
       \cup {"revise"} \X {"produce"} \cup {"save"} \X {"compliance"}
  /\ Inst.pc \in {"announce1", "announce2"} => row'.status = row.status
  /\ Inst.pc' = "produce" /\ row'.status = "hitl_1" => Inst.pc = "apply1"
  /\ row'.status = "published" => row.status = "published" \/ Inst.pc = "save"
WritesText ==
  /\ InstKept /\ OutputKept /\ UNCHANGED <<row, decided>>
  /\ Inst.pc \in {"write", "render"} /\ Inst.pc' \in {"render", "audit"}
OpensGate ==
  /\ RecordKept /\ OutputKept /\ UNCHANGED <<drafts, In1, In2, Inst.round, Inst.err>>
  /\ row'.error = row.error /\ decided' = 0
  /\ \/ Inst.pc = "gate1" /\ Inst.pc' = "announce1" /\ row'.status = "hitl_1"
     \/ /\ Inst.pc = "gate2" /\ Inst.pc' = "announce2" /\ row'.status = "hitl_2"
        /\ Inst.round \in Inst.gates'
HearsHitl1 ==
  /\ OutputKept /\ UNCHANGED <<row, drafts, decided, In2, Inst.round, Inst.gates, Inst.err>>
  /\ Inst.pc = "await1" /\ Inst.pc' = "apply1" /\ In1 # <<>> /\ In1' = Tail(In1)
HearsHitl2 ==
  /\ OutputKept /\ UNCHANGED <<row, drafts, decided, In1, Inst.gates, Inst.err>>
  /\ Inst.pc = "await2" /\ In2 # <<>> /\ In2' = Tail(In2)
  /\ \/ Head(In2) = "approve" /\ Inst.pc' = "publishing" /\ UNCHANGED Inst.round
     \/ Head(In2) = "reject" /\ Inst.pc' = "reject" /\ UNCHANGED Inst.round
     \/ /\ Head(In2) \notin {"approve", "reject"} /\ Inst.round >= MaxRounds
        /\ Inst.pc' = "changes" /\ UNCHANGED Inst.round
     \/ /\ Head(In2) \notin {"approve", "reject"} /\ Inst.round < MaxRounds
        /\ Inst.pc' = "revise" /\ Inst.round' = Inst.round + 1
LoadsText ==
  /\ InstKept /\ OutputKept /\ UNCHANGED <<row, drafts, decided>>
  /\ Inst.pc = "read" /\ Inst.pc' = "cms" /\ (row.refresh => row.checked)
  /\ Written # {} /\ drafts[Latest(Written)].render # 0
  /\ Inst.text' = drafts[Latest(Written)].render
PushesText ==
  /\ InstKept /\ UNCHANGED <<row, drafts, decided, log, seen>>
  /\ Inst.pc = "cms" /\ Inst.pc' = "save" /\ live' = Inst.text
LogsApproval ==
  /\ InstKept /\ UNCHANGED <<row, drafts, decided, live, seen>>
  /\ Inst.pc = "compliance" /\ Inst.pc' = "close" /\ log' \in {log, row.approver}
Breaks ==
  /\ OutputKept /\ UNCHANGED <<drafts, decided, In1, In2, Inst.round, Inst.gates>>
  /\ Inst.pc \in Steps \cup Parked /\ Inst.pc' = "onError" /\ row'.status = row.status
  /\ row'.error = row.error
  /\ \/ Inst.err' = "step_error" /\ UNCHANGED row
     \/ /\ Inst.err' = "mismatch" /\ Inst.pc = "read" /\ row.refresh
        /\ row'.d2 = NoDecision /\ row'.checked = FALSE
        /\ row'.round = row.round /\ row'.refresh = row.refresh
RecordsError ==
  /\ InstKept /\ RecordKept /\ OutputKept /\ UNCHANGED <<drafts, decided>>
  /\ Inst.pc = "onError" /\ Inst.pc' = "errored" /\ row'.status = "failed" /\ row'.error = Inst.err

\* Every step of the instance is of one of these kinds.
LEMMA StepEffects ==
  ASSUME TypeOK, StatusTracksStep, Step(Site) \/ Fail(Site)
  PROVE  /\ UNCHANGED <<req, restarts>>
         /\ \/ MovesOn \/ WritesText \/ OpensGate \/ HearsHitl1 \/ HearsHitl2 \/ LoadsText
            \/ PushesText \/ LogsApproval \/ Breaks \/ RecordsError
<1>0. /\ Inst \in InstanceFields /\ row.status \in StatusesAt(Inst.pc) /\ row.status \in Statuses
      /\ row \in Runs /\ Inst.rescue = NoRescue /\ Inst.inbox \in [Gates -> Seq(Decisions)]
  BY OneSite DEF StatusTracksStep, Runs, Inst, InstanceFields
<1>1. UNCHANGED <<req, restarts>>
  BY DEF Step, Fail, Load, Fetch, Strategy, AutoAccept, OpenGate1, OpenGate2, Announce, ReceiveHitl1,
         ReceiveHitl2, ApplyHitl1, Produce, Write, Render, Audit, Publishing, Reject, Changes, Revise,
         Save, SetStatus, ReadPublish, TargetMismatch, PushToCms, Compliance, PersistError
<1>2. ASSUME NEW pc, Goto(Site, pc) PROVE Inst.pc' = pc /\ InstKept
  <2>1. PICK v : v = [Inst EXCEPT !.pc = pc] OBVIOUS
  <2>2. Inst' = v BY <1>2, <2>1, OneSite DEF Goto, Inst
  <2>3. v.pc = pc /\ v.inbox = Inst.inbox /\ v.round = Inst.round /\ v.gates = Inst.gates /\ v.err = Inst.err
    BY <1>0, <2>1 DEF InstanceFields
  <2> QED BY <2>2, <2>3 DEF InstKept, In1, In2
<1>3. ASSUME NEW s, row' = [row EXCEPT !.status = s]
      PROVE  RecordKept /\ row'.error = row.error /\ row'.status = s
  BY <1>0, <1>3 DEF RecordKept, Runs
<1>4. UNCHANGED row => RecordKept BY DEF RecordKept
<1>5. CASE Load(Site)
  <2> DEFINE pc == IF row.refresh THEN "fetch" ELSE "strategy"
             w == [Inst EXCEPT !.route = row.route]
             v == [w EXCEPT !.pc = pc]
  <2>1. w.rescue.gate = "none" BY <1>0 DEF InstanceFields, NoRescue
  <2>2. wf' = [wf EXCEPT ![Site] = v] BY <1>5, <2>1 DEF Load, Inst
  <2>3. Inst' = v BY <2>2, OneSite DEF Inst
  <2>4. v.pc = pc /\ v.inbox = Inst.inbox /\ v.round = Inst.round /\ v.gates = Inst.gates /\ v.err = Inst.err
    BY <1>0 DEF InstanceFields
  <2>5. InstKept BY <2>3, <2>4 DEF InstKept, In1, In2
  <2>6. Inst.pc = "load" /\ OutputKept /\ UNCHANGED <<row, drafts, decided>> BY <1>5 DEF Load, At, Inst, OutputKept
  <2>7. Inst.pc' \in {"fetch", "strategy"} BY <2>3, <2>4
  <2> HIDE DEF v
  <2> QED BY <1>1, <1>4, <2>5, <2>6, <2>7 DEF MovesOn
<1>6. CASE Fetch(Site)
  <2>1. RecordKept /\ row'.error = row.error /\ row'.status = "fetching" BY <1>3, <1>6 DEF Fetch
  <2>2. Inst.pc' = "strategy" /\ InstKept BY <1>2, <1>6 DEF Fetch
  <2> QED BY <1>1, <1>6, <2>1, <2>2 DEF Fetch, At, Inst, MovesOn, OutputKept
<1>7. CASE Strategy(Site)
  <2> DEFINE pc == IF row.auto1 THEN "accept1" ELSE "gate1"
             v == [Inst EXCEPT !.pc = pc, !.route = IF row.refresh THEN "planned" ELSE Inst.route]
  <2>1. wf' = [wf EXCEPT ![Site] = v] BY <1>0, <1>7 DEF Strategy, InstanceFields, Inst
  <2>2. Inst' = v BY <2>1, OneSite DEF Inst
  <2>3. v.pc = pc /\ v.inbox = Inst.inbox /\ v.round = Inst.round /\ v.gates = Inst.gates /\ v.err = Inst.err
    BY <1>0 DEF InstanceFields
  <2>4. InstKept BY <2>2, <2>3 DEF InstKept, In1, In2
  <2>5. RecordKept /\ row'.error = row.error /\ row'.status = "strategy"
    BY <1>0, <1>7 DEF Strategy, RecordKept, Runs
  <2>6. Inst.pc = "strategy" /\ OutputKept /\ UNCHANGED <<drafts, decided>> BY <1>7 DEF Strategy, At, Inst, OutputKept
  <2>7. Inst.pc' \in {"accept1", "gate1"} BY <2>2, <2>3
  <2> HIDE DEF v
  <2> QED BY <1>1, <2>4, <2>5, <2>6, <2>7 DEF MovesOn
<1>8. CASE AutoAccept(Site)
  <2>1. RecordKept /\ row'.error = row.error /\ row'.status = row.status
    BY <1>0, <1>8 DEF AutoAccept, RecordKept, Runs
  <2>2. Inst.pc' = "produce" /\ InstKept BY <1>2, <1>8 DEF AutoAccept
  <2>3. row.status = "strategy" BY <1>0, <1>8 DEF AutoAccept, At, Inst, StatusesAt
  <2> QED BY <1>1, <1>8, <2>1, <2>2, <2>3 DEF AutoAccept, At, Inst, MovesOn, OutputKept
<1>9. CASE OpenGate1(Site)
  <2>1. RecordKept /\ row'.error = row.error /\ row'.status = "hitl_1"
    BY <1>3, <1>9 DEF OpenGate1, Hitl1Gate
  <2> DEFINE v == [Inst EXCEPT !.pc = "announce1", !.gate1 = TRUE]
  <2>2. wf' = [wf EXCEPT ![Site] = v] BY <1>0, <1>9 DEF OpenGate1, InstanceFields, Inst
  <2>3. Inst' = v BY <2>2, OneSite DEF Inst
  <2>4. /\ v.pc = "announce1" /\ v.inbox = Inst.inbox /\ v.round = Inst.round
        /\ v.err = Inst.err
    BY <1>0 DEF InstanceFields
  <2> QED BY <1>1, <1>9, <2>1, <2>3, <2>4 DEF OpenGate1, At, Inst, In1, In2, OpensGate, OutputKept
<1>10. CASE OpenGate2(Site)
  <2> DEFINE v == [Inst EXCEPT !.pc = "announce2", !.gates = Inst.gates \cup {Inst.round}]
  <2>1. wf' = [wf EXCEPT ![Site] = v] BY <1>0, <1>10 DEF OpenGate2, InstanceFields, Inst
  <2>2. Inst' = v BY <2>1, OneSite DEF Inst
  <2>3. /\ v.pc = "announce2" /\ v.inbox = Inst.inbox /\ v.round = Inst.round /\ v.err = Inst.err
        /\ v.gates = Inst.gates \cup {Inst.round}
    BY <1>0 DEF InstanceFields
  <2>4. RecordKept /\ row'.error = row.error /\ row'.status = "hitl_2"
    BY <1>3, <1>10 DEF OpenGate2, Hitl2Gate
  <2> QED BY <1>1, <1>10, <2>2, <2>3, <2>4 DEF OpenGate2, At, Inst, In1, In2, OpensGate, OutputKept
<1>11. CASE Announce(Site)
  <2>1. \/ Inst.pc = "announce1" /\ Inst.pc' = "await1" /\ InstKept
        \/ Inst.pc = "announce2" /\ Inst.pc' = "await2" /\ InstKept
        \/ Inst.pc = "close" /\ Inst.pc' = "completed" /\ InstKept
    BY <1>2, <1>11 DEF Announce, At, Inst
  <2> QED BY <1>1, <1>4, <1>11, <2>1 DEF Announce, MovesOn, OutputKept
<1>12. CASE ReceiveHitl1(Site)
  <2> DEFINE v == [Inst EXCEPT !.pc = "apply1", !.event = Head(In1),
                               !.inbox = [Inst.inbox EXCEPT !["hitl_1"] = Tail(In1)]]
  <2>1. wf' = [wf EXCEPT ![Site] = v] BY <1>0, <1>12 DEF ReceiveHitl1, Inst, In1
  <2>2. Inst' = v BY <2>1, OneSite DEF Inst
  <2>3. /\ v.pc = "apply1" /\ v.inbox["hitl_1"] = Tail(In1) /\ v.inbox["hitl_2"] = In2
        /\ v.round = Inst.round /\ v.gates = Inst.gates /\ v.err = Inst.err
    BY <1>0 DEF InstanceFields, In2, Gates
  <2> HIDE DEF v
  <2>4. /\ Inst.pc' = "apply1" /\ In1' = Tail(In1)
        /\ UNCHANGED <<In2, Inst.round, Inst.gates, Inst.err>>
    BY <2>2, <2>3 DEF In1, In2
  <2> QED BY <1>1, <1>12, <2>4 DEF ReceiveHitl1, At, Inst, In1, HearsHitl1, OutputKept
<1>13. CASE ReceiveHitl2(Site)
  <2> DEFINE u == [Inst EXCEPT !.inbox = [Inst.inbox EXCEPT !["hitl_2"] = Tail(In2)]]
             v == Dispatch(u, Head(In2))
  <2>1. wf' = [wf EXCEPT ![Site] = v] BY <1>0, <1>13 DEF ReceiveHitl2, Inst, In2
  <2>2. Inst' = v BY <2>1, OneSite DEF Inst
  <2>3. /\ u.inbox["hitl_1"] = In1 /\ u.inbox["hitl_2"] = Tail(In2) /\ u.round = Inst.round
        /\ u.gates = Inst.gates /\ u.err = Inst.err /\ u \in [DOMAIN Inst -> UNION {{u[f]} : f \in DOMAIN Inst}]
        /\ DOMAIN Inst = {"pc", "round", "iter", "route", "event", "rescue", "inbox", "text", "gate1",
                          "gates", "err"}
    BY <1>0 DEF InstanceFields, In1, Gates
  <2> HIDE DEF u
  <2>4. ASSUME NEW pc, v = [u EXCEPT !.pc = pc]
        PROVE  /\ v.pc = pc /\ v.inbox = u.inbox /\ v.round = Inst.round
               /\ v.gates = Inst.gates /\ v.err = Inst.err
    BY <2>3, <2>4
  <2>5. ASSUME v = [u EXCEPT !.pc = "revise", !.round = u.round + 1]
        PROVE  /\ v.pc = "revise" /\ v.inbox = u.inbox /\ v.round = Inst.round + 1
               /\ v.gates = Inst.gates /\ v.err = Inst.err
    BY <2>3, <2>5
  <2>6. \/ Head(In2) = "approve" /\ v = [u EXCEPT !.pc = "publishing"]
        \/ Head(In2) = "reject" /\ v = [u EXCEPT !.pc = "reject"]
        \/ /\ Head(In2) \notin {"approve", "reject"} /\ Inst.round >= MaxRounds
           /\ v = [u EXCEPT !.pc = "changes"]
        \/ /\ Head(In2) \notin {"approve", "reject"} /\ ~(Inst.round >= MaxRounds)
           /\ v = [u EXCEPT !.pc = "revise", !.round = u.round + 1]
    BY <2>3 DEF Dispatch
  <2>7. Inst.round \in Nat /\ MaxRounds \in Nat BY <1>0, ConstantsAssumption DEF InstanceFields
  <2>8. v.inbox = u.inbox /\ v.gates = Inst.gates /\ v.err = Inst.err
    BY <2>4, <2>5, <2>6
  <2>9. \/ Head(In2) = "approve" /\ v.pc = "publishing" /\ v.round = Inst.round
        \/ Head(In2) = "reject" /\ v.pc = "reject" /\ v.round = Inst.round
        \/ /\ Head(In2) \notin {"approve", "reject"} /\ Inst.round >= MaxRounds
           /\ v.pc = "changes" /\ v.round = Inst.round
        \/ /\ Head(In2) \notin {"approve", "reject"} /\ Inst.round < MaxRounds
           /\ v.pc = "revise" /\ v.round = Inst.round + 1
    BY <2>4, <2>5, <2>6, <2>7
  <2> HIDE DEF v
  <2>10. In1' = In1 /\ In2' = Tail(In2) /\ UNCHANGED <<Inst.gates, Inst.err>>
    BY <2>2, <2>3, <2>8 DEF In1, In2
  <2>11. In2 # <<>> /\ Inst.pc = "await2" BY <1>13 DEF ReceiveHitl2, At, Inst, In2
  <2> QED BY <1>1, <1>13, <2>2, <2>9, <2>10, <2>11 DEF ReceiveHitl2, HearsHitl2, OutputKept
<1>14. CASE ApplyHitl1(Site)
  <2>1. RecordKept /\ row'.error = row.error /\ row'.status \in {row.status, "changes_requested"}
    BY <1>0, <1>14 DEF ApplyHitl1, RecordKept, Runs
  <2>2. Inst.pc' \in {"close", "produce"} /\ InstKept BY <1>2, <1>14 DEF ApplyHitl1
  <2> QED BY <1>1, <1>14, <2>1, <2>2 DEF ApplyHitl1, At, Inst, MovesOn, OutputKept
<1>15. CASE Produce(Site)
  <2> DEFINE v == [Inst EXCEPT !.pc = "write", !.iter = 0]
  <2>1. wf' = [wf EXCEPT ![Site] = v] BY <1>15 DEF Produce, Inst
  <2>2. Inst' = v BY <2>1, OneSite DEF Inst
  <2>3. v.pc = "write" /\ v.inbox = Inst.inbox /\ v.round = Inst.round /\ v.gates = Inst.gates /\ v.err = Inst.err
    BY <1>0 DEF InstanceFields
  <2>4. InstKept BY <2>2, <2>3 DEF InstKept, In1, In2
  <2>5. RecordKept /\ row'.error = row.error /\ row'.status = "production" BY <1>3, <1>15 DEF Produce
  <2>6. Inst.pc = "produce" /\ OutputKept /\ UNCHANGED <<drafts, decided>> BY <1>15 DEF Produce, At, Inst, OutputKept
  <2>7. Inst.pc' = "write" BY <2>2, <2>3
  <2> HIDE DEF v
  <2> QED BY <1>1, <2>4, <2>5, <2>6, <2>7 DEF MovesOn
<1>16. CASE Write(Site) \/ Render(Site)
  <2>1. Inst.pc \in {"write", "render"} /\ Inst.pc' \in {"render", "audit"} /\ InstKept
    BY <1>2, <1>16 DEF Write, Render, At, Inst
  <2> QED BY <1>1, <1>16, <2>1 DEF Write, Render, WritesText, OutputKept
<1>17. CASE Audit(Site)
  <2> DEFINE v == [Inst EXCEPT !.pc = "write", !.iter = Inst.iter + 1]
  <2>1. CASE Goto(Site, "gate2")
    <3>1. Inst.pc' = "gate2" /\ InstKept BY <1>2, <2>1
    <3> QED BY <1>1, <1>4, <1>17, <3>1 DEF Audit, At, Inst, MovesOn, OutputKept
  <2>2. CASE wf' = [wf EXCEPT ![Site].pc = "write", ![Site].iter = @ + 1]
    <3>1. wf' = [wf EXCEPT ![Site] = v] BY <1>0, <2>2, OneSite DEF Inst, InstanceFields
    <3>2. Inst' = v BY <3>1, OneSite DEF Inst
    <3>3. v.pc = "write" /\ v.inbox = Inst.inbox /\ v.round = Inst.round /\ v.gates = Inst.gates /\ v.err = Inst.err
      BY <1>0 DEF InstanceFields
    <3>4. InstKept BY <3>2, <3>3 DEF InstKept, In1, In2
    <3> QED BY <1>1, <1>4, <1>17, <3>2, <3>3, <3>4 DEF Audit, At, Inst, MovesOn, OutputKept
  <2> QED BY <1>17, <2>1, <2>2 DEF Audit
<1>18. CASE Publishing(Site) \/ Reject(Site) \/ Changes(Site) \/ Revise(Site) \/ Save(Site)
  <2>1. PICK pc, status, next :
          /\ SetStatus(Site, pc, status, next)
          /\ <<pc, status, next>> \in {<<"publishing", "publishing", "read">>, <<"reject", "rejected", "close">>,
                <<"changes", "changes_requested", "close">>, <<"revise", "revising", "produce">>,
                <<"save", "published", "compliance">>}
    BY <1>18 DEF Publishing, Reject, Changes, Revise, Save
  <2>2. RecordKept /\ row'.error = row.error /\ row'.status = status BY <1>3, <2>1 DEF SetStatus
  <2>3. Inst.pc = pc /\ Inst.pc' = next /\ InstKept BY <1>2, <2>1 DEF SetStatus, At, Inst
  <2>4. OutputKept /\ UNCHANGED <<drafts, decided>> BY <2>1 DEF SetStatus, OutputKept
  <2> QED BY <1>1, <2>1, <2>2, <2>3, <2>4 DEF MovesOn
<1>19. CASE ReadPublish(Site)
  <2> DEFINE v == [Inst EXCEPT !.pc = "cms", !.text = drafts[Latest(Written)].render]
  <2>1. wf' = [wf EXCEPT ![Site] = v] BY <1>19 DEF ReadPublish, Inst
  <2>2. Inst' = v BY <2>1, OneSite DEF Inst
  <2>3. /\ v.pc = "cms" /\ v.inbox = Inst.inbox /\ v.round = Inst.round /\ v.gates = Inst.gates
        /\ v.err = Inst.err /\ v.text = drafts[Latest(Written)].render
    BY <1>0 DEF InstanceFields
  <2>4. InstKept BY <2>2, <2>3 DEF InstKept, In1, In2
  <2> QED BY <1>1, <1>19, <2>2, <2>3, <2>4 DEF ReadPublish, At, Inst, LoadsText, OutputKept
<1>20. CASE PushToCms(Site)
  <2>1. Inst.pc' = "save" /\ InstKept BY <1>2, <1>20 DEF PushToCms
  <2> QED BY <1>1, <1>20, <2>1 DEF PushToCms, At, Inst, PushesText
<1>21. CASE Compliance(Site)
  <2>1. Inst.pc' = "close" /\ InstKept BY <1>2, <1>21 DEF Compliance
  <2> QED BY <1>1, <1>21, <2>1 DEF Compliance, At, Inst, LogsApproval
<1>22. ASSUME NEW err, wf' = [wf EXCEPT ![Site].pc = "onError", ![Site].err = err]
       PROVE  Inst.pc' = "onError" /\ Inst.err' = err /\ UNCHANGED <<In1, In2, Inst.round, Inst.gates>>
  <2>1. PICK v : v = [Inst EXCEPT !.pc = "onError", !.err = err] OBVIOUS
  <2>2. Inst' = v BY <1>22, <2>1, OneSite DEF Inst
  <2>3. v.pc = "onError" /\ v.inbox = Inst.inbox /\ v.round = Inst.round /\ v.gates = Inst.gates /\ v.err = err
    BY <1>0, <2>1 DEF InstanceFields
  <2> QED BY <2>2, <2>3 DEF In1, In2
<1>23. CASE TargetMismatch(Site)
  <2>1. Inst.pc' = "onError" /\ Inst.err' = "mismatch" /\ UNCHANGED <<In1, In2, Inst.round, Inst.gates>>
    BY <1>22, <1>23 DEF TargetMismatch
  <2>2. /\ row'.d2 = NoDecision /\ row'.checked = FALSE /\ row'.round = row.round
        /\ row'.refresh = row.refresh /\ row'.status = row.status /\ row'.error = row.error
    BY <1>0, <1>23 DEF TargetMismatch, Voided, Runs
  <2> QED BY <1>1, <1>23, <2>1, <2>2 DEF TargetMismatch, At, Inst, Breaks, OutputKept, Steps
<1>24. CASE Fail(Site)
  <2>1. Inst.pc' = "onError" /\ Inst.err' = "step_error" /\ UNCHANGED <<In1, In2, Inst.round, Inst.gates>>
    BY <1>22, <1>24 DEF Fail
  <2> QED BY <1>1, <1>24, <2>1 DEF Fail, Inst, Breaks, OutputKept, Parked
<1>25. CASE PersistError(Site)
  <2>1. Inst.pc' = "errored" /\ InstKept BY <1>2, <1>25 DEF PersistError
  <2>2. RecordKept /\ row'.status = "failed" /\ row'.error = Inst.err
    BY <1>0, <1>25 DEF PersistError, FailedRow, RecordKept, Runs, Inst
  <2> QED BY <1>1, <1>25, <2>1, <2>2 DEF PersistError, At, Inst, RecordsError, OutputKept
<1> QED BY <1>5, <1>6, <1>7, <1>8, <1>9, <1>10, <1>11, <1>12, <1>13, <1>14, <1>15, <1>16, <1>17,
           <1>18, <1>19, <1>20, <1>21, <1>23, <1>24, <1>25 DEF Step

-----------------------------------------------------------------------------
(* The steps of the handlers, by what they do to the decisions. *)

Asked(decision) == IF decision = "request_changes" THEN 1 ELSE 0

RowKept == RecordKept /\ row'.status = row.status /\ row'.error = row.error
RequestKept(c) == /\ req'[c].decision = req[c].decision /\ req'[c].prior = req[c].prior
                  /\ req'[c].view = req[c].view
Moves(c, from, to) == req[c].pc = from /\ req'[c].pc = to

Alone == /\ row.status = "none" => \A c \in Clients : req[c].pc = "idle"
         /\ \A c, k \in Clients : req[c].pc # "idle" /\ req[k].pc # "idle" => c = k

Creates(c) ==
  /\ UNCHANGED <<wf, drafts, decided, restarts>> /\ OutputKept /\ RecordKept
  /\ row'.error = row.error /\ row.status = "none" /\ row'.status = "pending"
  /\ Moves(c, "idle", "launch")
Launches(c) ==
  /\ UNCHANGED <<row, drafts, decided, restarts>> /\ OutputKept /\ Moves(c, "launch", "idle")
  /\ UNCHANGED wf \/ Inst' = NewInstance(NoRescue)
Decides1(c) ==
  /\ UNCHANGED <<wf, drafts, restarts>> /\ OutputKept /\ RowKept
  /\ row.status = "hitl_1" /\ decided = 0 /\ decided' = 1
  /\ req[c].pc = "idle" /\ req'[c].pc \in {"apply1", "send1"} /\ req'[c].decision \in Decisions1
Overrides(c) ==
  /\ UNCHANGED <<wf, drafts, decided, restarts>> /\ OutputKept /\ RowKept
  /\ Moves(c, "apply1", "send1")
Sends1(c) ==
  /\ UNCHANGED <<row, drafts, decided, restarts>> /\ OutputKept
  /\ \/ Moves(c, "send1", "idle") /\ UNCHANGED wf
     \/ Moves(c, "send1", "undo1") /\ UNCHANGED wf
     \/ /\ Moves(c, "send1", "idle") /\ In1' = Append(In1, req[c].decision)
        /\ UNCHANGED <<In2, Inst.pc, Inst.round, Inst.gates, Inst.err>>
Undoes1(c) ==
  /\ UNCHANGED <<wf, drafts, restarts>> /\ OutputKept /\ RowKept /\ Withdrawn
  /\ Moves(c, "undo1", "idle")
Reads2(c) ==
  /\ UNCHANGED <<row, wf, drafts, decided, restarts>> /\ OutputKept
  /\ row.status = "hitl_2" /\ decided = 0
  /\ req[c].pc = "idle" /\ req'[c].pc \in Reading2 /\ req'[c].view = Shown /\ req'[c].prior = row.round
  /\ req'[c].decision = "approve" => req'[c].pc = "check2"
Validates(c) ==
  /\ UNCHANGED <<row, wf, drafts, decided, restarts>> /\ OutputKept
  /\ \/ Moves(c, "check2", "idle")
     \/ Moves(c, "check2", "claim2") /\ RequestKept(c) /\ req'[c].checked = TRUE
Declines(c) ==
  /\ UNCHANGED <<row, wf, drafts, decided, restarts>> /\ OutputKept
  /\ req[c].pc \in {"claim2", "claimRestart"} /\ req'[c].pc = "idle"
Claims2(c) ==
  /\ UNCHANGED <<wf, drafts, live, log, restarts>> /\ RequestKept(c)
  /\ row.status = "hitl_2" /\ row'.status = row.status /\ row'.error = row.error
  /\ row'.refresh = row.refresh /\ row'.d2 = req[c].decision /\ row'.checked = req[c].checked
  /\ row'.round = row.round + Asked(req[c].decision) /\ decided' = decided + 1
  /\ \/ /\ req[c].decision = "approve" /\ Moves(c, "claim2", "edit2")
        /\ row'.approver = c /\ seen' = seen \cup {req[c].view}
     \/ req[c].decision # "approve" /\ Moves(c, "claim2", "send2") /\ UNCHANGED seen
Edits2(c) ==
  /\ UNCHANGED <<row, wf, live, log, decided, restarts>> /\ RequestKept(c)
  /\ Moves(c, "edit2", "send2") /\ seen \subseteq seen'
  /\ UNCHANGED drafts \/ Shown' \in seen'
Sends2(c) ==
  /\ UNCHANGED <<row, drafts, decided, restarts>> /\ OutputKept
  /\ \/ Moves(c, "send2", "idle") /\ UNCHANGED wf
     \/ Moves(c, "send2", "undo2") /\ UNCHANGED wf /\ RequestKept(c)
     \/ /\ Moves(c, "send2", "idle") /\ In2' = Append(In2, req[c].decision)
        /\ UNCHANGED <<In1, Inst.pc, Inst.round, Inst.gates, Inst.err>>
Undoes2(c) ==
  /\ UNCHANGED <<wf, drafts, restarts>> /\ OutputKept /\ Withdrawn /\ Moves(c, "undo2", "idle")
  /\ row'.status = row.status /\ row'.error = row.error /\ row'.refresh = row.refresh
  /\ row'.d2 = NoDecision /\ row'.checked = FALSE /\ row'.round = req[c].prior
Saves(c) ==
  /\ UNCHANGED <<row, wf, req, decided, restarts>> /\ OutputKept
  /\ req[c].pc = "idle" /\ row.status = "hitl_2" /\ decided = 0
Rereads(c) ==
  /\ UNCHANGED <<wf, req, drafts, decided, restarts>> /\ OutputKept
  /\ req[c].pc = "idle" /\ row.status = "hitl_2" /\ row'.status = row.status /\ row'.error = row.error
  /\ row.refresh /\ row'.refresh = row.refresh /\ row'.d2 = NoDecision /\ row'.checked = FALSE
  /\ row'.round = row.round
ReadsFailure(c) ==
  /\ UNCHANGED <<row, wf, drafts, decided>> /\ OutputKept /\ restarts' = restarts + 1
  /\ Moves(c, "idle", "claimRestart") /\ row.status # "none"
  /\ req'[c].from = "gate" => row.error = "mismatch" /\ req'[c].prior = row.round
ClaimsRestart(c) ==
  /\ UNCHANGED <<wf, drafts, decided, restarts>> /\ OutputKept /\ RecordKept
  /\ row.status = "failed" /\ row'.status = "pending" /\ row'.error = "none"
  /\ Moves(c, "claimRestart", "restart") /\ req'[c].prior = req[c].prior /\ req'[c].from = req[c].from
Restarts(c) ==
  /\ UNCHANGED <<row, drafts, decided, restarts>> /\ OutputKept
  /\ \/ Moves(c, "restart", "undoRestart") /\ UNCHANGED wf
     \/ /\ Moves(c, "restart", "idle") /\ Inst.pc' \in {"load", "gate1", "gate2"}
        /\ In1' = <<>> /\ In2' = <<>>
UndoesRestart(c) ==
  /\ UNCHANGED <<wf, drafts, decided, restarts>> /\ OutputKept /\ RecordKept
  /\ row'.status = "failed" /\ Moves(c, "undoRestart", "idle")

Handled(c) ==
  \/ Creates(c) \/ Launches(c) \/ Decides1(c) \/ Overrides(c) \/ Sends1(c) \/ Undoes1(c)
  \/ Reads2(c) \/ Validates(c) \/ Declines(c) \/ Claims2(c) \/ Edits2(c) \/ Sends2(c) \/ Undoes2(c)
  \/ Saves(c) \/ Rereads(c) \/ ReadsFailure(c) \/ ClaimsRestart(c) \/ Restarts(c) \/ UndoesRestart(c)
Solo(c) == \A k \in Clients \ {c} : req[k].pc = "idle" /\ req'[k] = req[k]

\* Of any drafts one is the latest, and Latest finds it: ORDER BY iteration DESC LIMIT 1.
LEMMA LatestIsLast ==
  ASSUME NEW S, S \subseteq Iterations, S # {}
  PROVE  Latest(S) \in S /\ \A j \in S : j <= Latest(S)
<1> DEFINE R == OpToRel(<, Nat)
           T == {n \in Nat : \E i \in S : n = MaxIterations - i}
<1>1. MaxIterations \in Nat /\ \A i \in S : i \in Nat /\ MaxIterations - i \in Nat
  BY ConstantsAssumption DEF Iterations
<1>2. T \subseteq Nat /\ T # {} BY <1>1
<1>3. \E n \in T : \A m \in T : <<m, n>> \notin R
  <2> HIDE DEF T, R
  <2> QED BY <1>2, NatLessThanWellFounded, WFMin DEF R
<1>4. PICK n \in T : \A m \in T : <<m, n>> \notin R BY <1>3
<1>5. ASSUME NEW m \in T, m < n PROVE FALSE
  <2>1. m \in Nat /\ n \in Nat /\ <<m, n>> \in Nat \X Nat /\ <<m, n>>[1] < <<m, n>>[2] BY <1>2, <1>5
  <2>2. R = {ss \in Nat \X Nat : ss[1] < ss[2]} BY DEF OpToRel
  <2>3. <<m, n>> \in R BY <2>1, <2>2
  <2> QED BY <1>4, <2>3
<1>6. PICK i \in S : n = MaxIterations - i BY <1>4
<1>7. \A j \in S : j <= i BY <1>1, <1>5, <1>6
<1> QED BY <1>6, <1>7 DEF Latest

\* The publish step takes the latest draft and the page the latest render: when the first has a
\* render, they are the same text.
LEMMA LoadedIsShown ==
  ASSUME TypeOK, Written # {}, drafts[Latest(Written)].render # 0
  PROVE  Shown # 0 /\ Shown = drafts[Latest(Written)].render
<1>1. Written \subseteq Iterations /\ Rendered \subseteq Written BY DEF Written, Rendered
<1>2. Latest(Written) \in Rendered BY <1>1, LatestIsLast DEF Rendered
<1>3. Latest(Rendered) \in Rendered /\ \A j \in Rendered : j <= Latest(Rendered)
  BY <1>1, <1>2, LatestIsLast
<1>4. \A j \in Written : j <= Latest(Written) BY <1>1, LatestIsLast
<1>5. ASSUME NEW w \in Iterations, NEW r \in Iterations, w <= r, r <= w PROVE w = r
  BY <1>5, ConstantsAssumption DEF Iterations
<1>6. Latest(Written) = Latest(Rendered) BY <1>1, <1>2, <1>3, <1>4, <1>5
<1> QED BY <1>2, <1>6 DEF Shown, Rendered

\* An edit goes onto the text that is shown, and is the text that is shown after it.
LEMMA EditedIsShown ==
  ASSUME TypeOK, Rendered # {}, NEW n \in Nat \ {0},
         drafts' = [drafts EXCEPT ![Latest(Rendered)].render = n]
  PROVE  Shown' = n
<1> DEFINE l == Latest(Rendered)
<1>1. drafts \in [Iterations -> [markup : Nat, render : Nat]] BY DEF TypeOK, Drafts
<1>2. l \in Rendered BY LatestIsLast DEF Rendered, Written
<1>3. l \in Iterations /\ drafts[l].markup # 0 BY <1>2 DEF Rendered, Written
<1>4. /\ \A i \in Iterations : drafts'[i].markup = drafts[i].markup
      /\ drafts'[l].render = n /\ \A i \in Iterations \ {l} : drafts'[i].render = drafts[i].render
  BY <1>1, <1>3
<1>5. Written' = Written BY <1>4 DEF Written
<1>6. Rendered' = Rendered BY <1>2, <1>3, <1>4, <1>5 DEF Rendered, Written
<1>7. Latest(Rendered)' = l BY <1>6 DEF Latest
<1> HIDE DEF l
<1> QED BY <1>2, <1>4, <1>6, <1>7 DEF Shown

\* At an orderly desk a handler has the desk to itself, and its step is of one of these kinds.
LEMMA HandleEffects ==
  ASSUME TypeOK, StatusTracksStep, Alone, OrderlyDesk, ~LateEdits, NEW c \in Clients, Handle(c)
  PROVE  Solo(c) /\ Handled(c)
<1>0. /\ req \in [Clients -> RequestStates] /\ req[c] \in RequestFields /\ req[c].at = Site /\ row \in Runs
      /\ wf \in [Deployments -> Instances] /\ Inst \in InstanceFields
      /\ Inst.inbox \in [Gates -> Seq(Decisions)] /\ row.round \in Nat
  BY OneSite DEF Inst, InstanceFields, Runs
<1>1. ASSUME NEW pc, Continue(c, pc)
      PROVE  /\ req'[c].pc = pc /\ RequestKept(c) /\ req'[c].from = req[c].from
             /\ \A k \in Clients \ {c} : req'[k] = req[k]
  BY <1>0, <1>1 DEF Continue, RequestKept, RequestFields
<1>2. ASSUME NEW s, row' = [row EXCEPT !.status = s] PROVE RecordKept /\ row'.error = row.error /\ row'.status = s
  BY <1>0, <1>2 DEF RecordKept, Runs
<1>3. \A k \in Clients : req[c].pc # "idle" /\ k # c => req[k].pc = "idle" BY DEF Alone
<1>4. CASE \E d \in Deployments : CreateRun(c, d)
  <2>1. PICK d \in Deployments : CreateRun(c, d) BY <1>4
  <2>2. PICK r : r = [IdleRequest(d) EXCEPT !.pc = "launch"] OBVIOUS
  <2>3. r.pc = "launch" BY <2>2 DEF IdleRequest
  <2>4. req'[c] = r /\ \A k \in Clients \ {c} : req'[k] = req[k]
    BY <1>0, <2>1, <2>2 DEF CreateRun, Serve
  <2>5. Creates(c)
    <3>1. RecordKept /\ row'.error = row.error /\ row'.status = "pending" BY <1>2, <2>1 DEF CreateRun
    <3> QED BY <2>1, <2>3, <2>4, <3>1 DEF CreateRun, Creates, Moves, OutputKept
  <2>6. Solo(c) BY <2>1, <2>4 DEF Solo, CreateRun, Alone
  <2> QED BY <2>5, <2>6 DEF Handled
<1>5. CASE LaunchInstance(c)
  <2>1. req'[c].pc = "idle" /\ \A k \in Clients \ {c} : req'[k] = req[k]
    BY <1>5, AnswerIdles DEF LaunchInstance
  <2>2. Solo(c) BY <1>3, <1>5, <2>1 DEF Solo, LaunchInstance
  <2>3. UNCHANGED wf \/ Inst' = NewInstance(NoRescue) BY <1>0, <1>5, OneSite DEF LaunchInstance, Inst
  <2>4. Launches(c) BY <1>5, <2>1, <2>3 DEF LaunchInstance, Launches, Moves, OutputKept
  <2> QED BY <2>2, <2>4 DEF Handled
<1>6. CASE \E d \in Deployments, decision \in Decisions1 : ClaimHitl1(c, d, decision)
  <2>1. PICK d \in Deployments, decision \in Decisions1 : ClaimHitl1(c, d, decision) BY <1>6
  <2>2. PICK pc : pc = IF decision = "override_route" THEN "apply1" ELSE "send1" OBVIOUS
  <2>3. PICK r : r = [IdleRequest(d) EXCEPT !.pc = pc, !.decision = decision] OBVIOUS
  <2>4. r.pc = pc /\ r.decision = decision BY <2>3 DEF IdleRequest
  <2>5. req'[c] = r /\ \A k \in Clients \ {c} : req'[k] = req[k]
    BY <1>0, <2>1, <2>2, <2>3 DEF ClaimHitl1, Serve
  <2>6. RowKept BY <1>0, <2>1 DEF ClaimHitl1, RowKept, RecordKept, Runs
  <2>7. row.status = "hitl_1" /\ decided = 0 /\ decided' = 1
    BY <2>1 DEF ClaimHitl1, MayDecide
  <2>8. Decides1(c)
    <3>1. UNCHANGED <<wf, drafts, restarts>> /\ OutputKept /\ req[c].pc = "idle"
      BY <2>1 DEF ClaimHitl1, OutputKept, MayDecide, Free
    <3> QED BY <2>2, <2>4, <2>5, <2>6, <2>7, <3>1 DEF Decides1
  <2>9. Solo(c) BY <2>1, <2>5 DEF Solo, ClaimHitl1, MayDecide, Free
  <2> QED BY <2>8, <2>9 DEF Handled
<1>7. CASE OverrideRoute(c)
  <2>1. RowKept BY <1>0, <1>7 DEF OverrideRoute, RowKept, RecordKept, Runs
  <2>2. req'[c].pc = "send1" /\ \A k \in Clients \ {c} : req'[k] = req[k] BY <1>1, <1>7 DEF OverrideRoute
  <2>3. Overrides(c) BY <1>7, <2>1, <2>2 DEF OverrideRoute, Overrides, Moves, OutputKept
  <2>4. Solo(c) BY <1>3, <1>7, <2>2 DEF Solo, OverrideRoute
  <2> QED BY <2>3, <2>4 DEF Handled
<1>8. ASSUME NEW gate \in Gates, Alive(Site), wf' = [wf EXCEPT ![Site].inbox[gate] = Append(@, req[c].decision)]
      PROVE  /\ Inst.inbox'[gate] = Append(Inst.inbox[gate], req[c].decision)
             /\ \A g \in Gates \ {gate} : Inst.inbox'[g] = Inst.inbox[g]
             /\ UNCHANGED <<Inst.pc, Inst.round, Inst.gates, Inst.err>>
  <2>1. PICK v : v = [Inst EXCEPT !.inbox = [Inst.inbox EXCEPT ![gate] = Append(Inst.inbox[gate], req[c].decision)]]
    OBVIOUS
  <2>2. Inst' = v BY <1>0, <1>8, <2>1, OneSite DEF Inst
  <2>3. /\ v.inbox = [Inst.inbox EXCEPT ![gate] = Append(Inst.inbox[gate], req[c].decision)]
        /\ v.pc = Inst.pc /\ v.round = Inst.round /\ v.gates = Inst.gates /\ v.err = Inst.err
    BY <1>0, <2>1 DEF InstanceFields
  <2> QED BY <1>0, <2>2, <2>3
<1>9. CASE SendHitl1(c)
  <2>1. req[c].pc = "send1" /\ UNCHANGED <<row, drafts, decided, restarts>> /\ OutputKept
    BY <1>9 DEF SendHitl1, SendEvent, OutputKept
  <2>2. Exists(Site) BY <2>1 DEF StatusTracksStep, Claimed, Exists
  <2>3. \/ Alive(Site) /\ wf' = [wf EXCEPT ![Site].inbox["hitl_1"] = Append(@, req[c].decision)] /\ Answer(c)
        \/ UNCHANGED wf /\ Answer(c)
        \/ UNCHANGED wf /\ Continue(c, "undo1")
    BY <1>0, <1>9, <2>2 DEF SendHitl1, SendEvent
  <2>4. Solo(c) /\ (Answer(c) => req'[c].pc = "idle")
    BY <1>1, <1>3, <2>1, <2>3, AnswerIdles DEF Solo
  <2>5. CASE Alive(Site) /\ wf' = [wf EXCEPT ![Site].inbox["hitl_1"] = Append(@, req[c].decision)] /\ Answer(c)
    <3>1. In1' = Append(In1, req[c].decision) /\ UNCHANGED <<In2, Inst.pc, Inst.round, Inst.gates, Inst.err>>
      BY <1>8, <2>5 DEF In1, In2, Gates
    <3> QED BY <2>1, <2>4, <2>5, <3>1 DEF Handled, Sends1, Moves
  <2>6. CASE UNCHANGED wf /\ (Answer(c) \/ Continue(c, "undo1"))
    BY <1>1, <2>1, <2>4, <2>6 DEF Handled, Sends1, Moves
  <2> QED BY <2>3, <2>5, <2>6
<1>10. CASE UndoHitl1(c)
  <2>1. RowKept BY <1>0, <1>10 DEF UndoHitl1, RowKept, RecordKept, Runs
  <2>2. req'[c].pc = "idle" /\ \A k \in Clients \ {c} : req'[k] = req[k] BY <1>10, AnswerIdles DEF UndoHitl1
  <2>3. Undoes1(c) BY <1>10, <2>1, <2>2 DEF UndoHitl1, Undoes1, Moves, OutputKept
  <2>4. Solo(c) BY <1>3, <1>10, <2>2 DEF Solo, UndoHitl1
  <2> QED BY <2>3, <2>4 DEF Handled
<1>11. CASE \E d \in Deployments, decision \in Decisions2, edits \in BOOLEAN : ReadHitl2(c, d, decision, edits)
  <2>1. PICK d \in Deployments, decision \in Decisions2, edits \in BOOLEAN : ReadHitl2(c, d, decision, edits)
    BY <1>11
  <2>2. row.status = "hitl_2" /\ decided = 0 /\ Free(c) BY <2>1 DEF ReadHitl2, MayDecide
  <2>3. PICK pc : pc = IF NeedsPreflight(decision) THEN "check2" ELSE "claim2" OBVIOUS
  <2>4. PICK r : r = [IdleRequest(d) EXCEPT !.pc = pc, !.decision = decision, !.edits = edits,
                        !.status = row.status, !.prior = row.round, !.view = Shown]
    OBVIOUS
  <2>5. r.pc = pc /\ r.decision = decision /\ r.prior = row.round /\ r.view = Shown
    BY <2>4 DEF IdleRequest
  <2>6. req'[c] = r /\ \A k \in Clients \ {c} : req'[k] = req[k]
    BY <1>0, <2>1, <2>3, <2>4 DEF ReadHitl2, Serve
  <2>7. pc \in Reading2 /\ (decision = "approve" => pc = "check2")
    BY <2>2, <2>3 DEF Reading2, NeedsPreflight, Hitl2Gate
  <2>8. UNCHANGED <<row, wf, drafts, decided, restarts>> /\ OutputKept BY <2>1 DEF ReadHitl2, OutputKept
  <2>9. Reads2(c) BY <2>2, <2>5, <2>6, <2>7, <2>8 DEF Reads2, Free
  <2> QED BY <2>2, <2>6, <2>9 DEF Solo, Handled, Free
<1>12. CASE PreflightHitl2(c)
  <2>1. CASE Answer(c)
    <3>1. req'[c].pc = "idle" /\ \A k \in Clients \ {c} : req'[k] = req[k] BY <2>1, AnswerIdles
    <3>2. Validates(c) BY <1>12, <3>1 DEF PreflightHitl2, Validates, Moves, OutputKept
    <3> QED BY <1>3, <1>12, <3>1, <3>2 DEF Solo, Handled, PreflightHitl2
  <2>2. CASE req' = [req EXCEPT ![c].pc = "claim2", ![c].checked = TRUE]
    <3>1. PICK r : r = [req[c] EXCEPT !.pc = "claim2", !.checked = TRUE] OBVIOUS
    <3>2. r.pc = "claim2" /\ r.checked = TRUE /\ r.decision = req[c].decision /\ r.prior = req[c].prior
          /\ r.view = req[c].view
      BY <1>0, <3>1 DEF RequestFields
    <3>3. req'[c] = r /\ \A k \in Clients \ {c} : req'[k] = req[k] BY <1>0, <2>2, <3>1
    <3>4. RequestKept(c) BY <3>2, <3>3 DEF RequestKept
    <3>5. req[c].pc = "check2" /\ UNCHANGED <<row, wf, drafts, decided, restarts>> /\ OutputKept
      BY <1>12 DEF PreflightHitl2, OutputKept
    <3>6. Validates(c) BY <3>2, <3>3, <3>4, <3>5 DEF Validates, Moves
    <3> QED BY <1>3, <3>3, <3>5, <3>6 DEF Solo, Handled
  <2> QED BY <1>12, <2>1, <2>2 DEF PreflightHitl2
<1>13. CASE ClaimHitl2(c)
  <2>1. req[c].pc = "claim2" /\ UNCHANGED <<drafts, wf, live, log, restarts>> BY <1>13 DEF ClaimHitl2
  <2>2. CASE ~CanClaim2(req[c])
    <3>1. Answer(c) /\ UNCHANGED <<row, seen, decided>> BY <1>13, <2>2 DEF ClaimHitl2
    <3>2. req'[c].pc = "idle" /\ \A k \in Clients \ {c} : req'[k] = req[k] BY <3>1, AnswerIdles
    <3>3. Declines(c) BY <2>1, <3>1, <3>2 DEF Declines, OutputKept
    <3> QED BY <1>3, <2>1, <3>2, <3>3 DEF Solo, Handled
  <2>3. CASE CanClaim2(req[c])
    <3>1. PICK v : v = [row EXCEPT !.d2 = req[c].decision,
                          !.round = IF req[c].decision = "request_changes" THEN row.round + 1 ELSE row.round,
                          !.approver = ApprovedBy(c, req[c].decision), !.checked = req[c].checked]
      OBVIOUS
    <3>2. /\ v.status = row.status /\ v.error = row.error /\ v.refresh = row.refresh
          /\ v.d2 = req[c].decision /\ v.checked = req[c].checked
          /\ v.round = row.round + Asked(req[c].decision)
          /\ v.approver = ApprovedBy(c, req[c].decision)
      BY <1>0, <3>1 DEF Runs, Asked
    <3>3. row' = v BY <1>0, <1>13, <2>3, <3>1 DEF ClaimHitl2, Runs
    <3>4. decided' = decided + 1 BY <1>13, <2>3 DEF ClaimHitl2
    <3>5. /\ req'[c].pc = IF req[c].decision = "approve" THEN "edit2" ELSE "send2"
          /\ RequestKept(c) /\ \A k \in Clients \ {c} : req'[k] = req[k]
      BY <1>1, <1>13, <2>3 DEF ClaimHitl2
    <3>6. seen' = IF req[c].decision = "approve" THEN seen \cup {req[c].view} ELSE seen
      BY <1>13, <2>3 DEF ClaimHitl2
    <3>7. row.status = "hitl_2" BY <2>3 DEF CanClaim2, Hitl2Gate
    <3>8. Claims2(c) BY <2>1, <3>2, <3>3, <3>4, <3>5, <3>6, <3>7 DEF Claims2, Moves, ApprovedBy
    <3> QED BY <1>3, <2>1, <3>5, <3>8 DEF Solo, Handled
  <2> QED BY <2>2, <2>3
<1>14. CASE EditRender(c)
  <2>1. /\ req[c].pc = "edit2" /\ req'[c].pc = "send2" /\ RequestKept(c)
        /\ \A k \in Clients \ {c} : req'[k] = req[k]
    BY <1>1, <1>14 DEF EditRender
  <2>2. seen \subseteq seen' /\ (UNCHANGED drafts \/ Shown' \in seen')
    <3>1. CASE req[c].edits /\ Rendered # {}
      <4>1. /\ drafts' = [drafts EXCEPT ![Latest(Rendered)].render = texts + 1]
            /\ seen' = seen \cup {texts + 1}
        BY <1>14, <3>1 DEF EditRender
      <4>2. texts + 1 \in Nat \ {0} BY DEF TypeOK
      <4>3. Shown' = texts + 1 BY <3>1, <4>1, <4>2, EditedIsShown
      <4> QED BY <4>1, <4>3
    <3>2. CASE ~(req[c].edits /\ Rendered # {}) BY <1>14, <3>2 DEF EditRender
    <3> QED BY <3>1, <3>2
  <2>3. Edits2(c) BY <1>14, <2>1, <2>2 DEF EditRender, Edits2, Moves
  <2> QED BY <1>3, <2>1, <2>3 DEF Solo, Handled
<1>15. CASE SendHitl2(c)
  <2>1. req[c].pc = "send2" /\ UNCHANGED <<row, drafts, decided, restarts>> /\ OutputKept
    BY <1>15 DEF SendHitl2, SendEvent, OutputKept
  <2>2. Exists(Site) BY <2>1 DEF StatusTracksStep, Claimed, Exists
  <2>3. \/ Alive(Site) /\ wf' = [wf EXCEPT ![Site].inbox["hitl_2"] = Append(@, req[c].decision)] /\ Answer(c)
        \/ UNCHANGED wf /\ Answer(c)
        \/ UNCHANGED wf /\ Continue(c, "undo2")
    BY <1>0, <1>15, <2>2 DEF SendHitl2, SendEvent
  <2>4. Solo(c) /\ (Answer(c) => req'[c].pc = "idle")
    BY <1>1, <1>3, <2>1, <2>3, AnswerIdles DEF Solo
  <2>5. CASE Alive(Site) /\ wf' = [wf EXCEPT ![Site].inbox["hitl_2"] = Append(@, req[c].decision)] /\ Answer(c)
    <3>1. In2' = Append(In2, req[c].decision) /\ UNCHANGED <<In1, Inst.pc, Inst.round, Inst.gates, Inst.err>>
      BY <1>8, <2>5 DEF In1, In2, Gates
    <3> QED BY <2>1, <2>4, <2>5, <3>1 DEF Handled, Sends2, Moves
  <2>6. CASE UNCHANGED wf /\ (Answer(c) \/ Continue(c, "undo2"))
    BY <1>1, <2>1, <2>4, <2>6 DEF Handled, Sends2, Moves
  <2> QED BY <2>3, <2>5, <2>6
<1>16. CASE UndoHitl2(c)
  <2>1. PICK v : v = [[row EXCEPT !.d2 = NoDecision, !.approver = Nobody, !.checked = FALSE]
                        EXCEPT !.round = req[c].prior]
    OBVIOUS
  <2>2. /\ v.status = row.status /\ v.error = row.error /\ v.refresh = row.refresh
        /\ v.d2 = NoDecision /\ v.checked = FALSE /\ v.round = req[c].prior
    BY <1>0, <2>1 DEF Runs
  <2>3. row' = v BY <1>16, <2>1 DEF UndoHitl2, RolledBack, Voided
  <2>4. req'[c].pc = "idle" /\ \A k \in Clients \ {c} : req'[k] = req[k] BY <1>16, AnswerIdles DEF UndoHitl2
  <2>5. Undoes2(c) BY <1>16, <2>2, <2>3, <2>4 DEF UndoHitl2, Undoes2, Moves, OutputKept
  <2> QED BY <1>3, <1>16, <2>4, <2>5 DEF Solo, Handled, UndoHitl2
<1>17. CASE SaveArticle(c)
  <2>1. row.status = "hitl_2" /\ decided = 0 /\ Free(c) /\ UNCHANGED <<row, wf, req, decided, restarts>> /\ OutputKept
    BY <1>17 DEF SaveArticle, MayEdit, OutputKept
  <2> QED BY <2>1 DEF Saves, Solo, Handled, Free
<1>18. CASE RereadPost(c)
  <2>1. row.status = "hitl_2" /\ row.refresh /\ Free(c) /\ row' = Voided
        /\ UNCHANGED <<wf, req, drafts, decided, restarts>> /\ OutputKept
    BY <1>18 DEF RereadPost, MayEdit, OutputKept
  <2>2. /\ row'.status = row.status /\ row'.error = row.error /\ row'.refresh = row.refresh
        /\ row'.d2 = NoDecision /\ row'.checked = FALSE /\ row'.round = row.round
    BY <1>0, <2>1 DEF Voided, Runs
  <2> QED BY <2>1, <2>2 DEF Rereads, Solo, Handled, Free
<1>19. CASE \E d \in Deployments : ReadFailure(c, d)
  <2>1. PICK d \in Deployments : ReadFailure(c, d) BY <1>19
  <2>2. PICK from, n : /\ from = "gate" => row.error = "mismatch" /\ n = row.round
                       /\ Serve(c, [IdleRequest(d) EXCEPT !.pc = "claimRestart", !.prior = n, !.from = from])
    <3>1. PICK f : f = IF row.error = "mismatch" THEN "gate" ELSE "start" OBVIOUS
    <3>2. \/ Serve(c, [IdleRequest(d) EXCEPT !.pc = "claimRestart", !.prior = row.round, !.from = f])
          \/ Serve(c, [IdleRequest(d) EXCEPT !.pc = "claimRestart", !.prior = 0, !.from = "hitl_1"])
          \/ \E n \in Rounds : Serve(c, [IdleRequest(d) EXCEPT !.pc = "claimRestart", !.prior = n, !.from = "named"])
      BY <2>1, <3>1 DEF ReadFailure
    <3>3. f = "gate" => row.error = "mismatch" BY <3>1
    <3> QED BY <3>2, <3>3
  <2>3. PICK r : r = [IdleRequest(d) EXCEPT !.pc = "claimRestart", !.prior = n, !.from = from] OBVIOUS
  <2>4. r.pc = "claimRestart" /\ r.prior = n /\ r.from = from BY <2>3 DEF IdleRequest
  <2>5. req'[c] = r /\ \A k \in Clients \ {c} : req'[k] = req[k] BY <1>0, <2>2, <2>3 DEF Serve
  <2>6. /\ UNCHANGED <<row, wf, drafts, decided>> /\ OutputKept /\ restarts' = restarts + 1
        /\ row.status # "none" /\ Free(c)
    BY <2>1 DEF ReadFailure, OutputKept
  <2>7. ReadsFailure(c) BY <2>2, <2>4, <2>5, <2>6 DEF ReadsFailure, Moves, Free
  <2> QED BY <2>5, <2>6, <2>7 DEF Solo, Handled, Free
<1>20. CASE ClaimRestart(c)
  <2>1. req[c].pc = "claimRestart" /\ UNCHANGED <<drafts, wf, decided, restarts>> /\ OutputKept
    BY <1>20 DEF ClaimRestart, OutputKept
  <2>2. CASE ~CanRestart
    <3>1. Answer(c) /\ UNCHANGED row BY <1>20, <2>2 DEF ClaimRestart
    <3>2. req'[c].pc = "idle" /\ \A k \in Clients \ {c} : req'[k] = req[k] BY <3>1, AnswerIdles
    <3>3. Declines(c) BY <2>1, <3>1, <3>2 DEF Declines
    <3> QED BY <1>3, <2>1, <3>2, <3>3 DEF Solo, Handled
  <2>3. CASE CanRestart
    <3>1. RecordKept /\ row'.status = "pending" /\ row'.error = "none"
      BY <1>0, <1>20, <2>3 DEF ClaimRestart, RecordKept, Runs
    <3>2. /\ req'[c].pc = "restart" /\ RequestKept(c) /\ req'[c].from = req[c].from
          /\ \A k \in Clients \ {c} : req'[k] = req[k]
      BY <1>1, <1>20, <2>3 DEF ClaimRestart
    <3>3. ClaimsRestart(c) BY <2>1, <2>3, <3>1, <3>2 DEF ClaimsRestart, Moves, CanRestart, RequestKept
    <3> QED BY <1>3, <2>1, <3>2, <3>3 DEF Solo, Handled
  <2> QED BY <2>2, <2>3
<1>21. CASE RestartInstance(c)
  <2>1. req[c].pc = "restart" /\ UNCHANGED <<row, drafts, decided, restarts>> /\ OutputKept
    BY <1>21 DEF RestartInstance, OutputKept
  <2>2. \/ UNCHANGED wf /\ Continue(c, "undoRestart")
        \/ Answer(c) /\ \E rescue : wf' = [wf EXCEPT ![Site] = NewInstance(rescue)]
        \/ Answer(c) /\ \E n : wf' = [wf EXCEPT ![Site] = FromGate(Inst, n)]
        \/ Answer(c) /\ wf' = [wf EXCEPT ![Site] = FromGate1(Inst)]
    BY <1>0, <1>21 DEF RestartInstance, Inst
  <2>3. CASE UNCHANGED wf /\ Continue(c, "undoRestart")
    BY <1>1, <1>3, <2>1, <2>3 DEF Solo, Handled, Restarts, Moves
  <2>4. CASE Answer(c) /\ \E rescue : wf' = [wf EXCEPT ![Site] = NewInstance(rescue)]
    <3>1. req'[c].pc = "idle" /\ \A k \in Clients \ {c} : req'[k] = req[k] BY <2>4, AnswerIdles
    <3>2. PICK rescue : Inst' = NewInstance(rescue) BY <2>4, OneSite DEF Inst
    <3>3. Inst.pc' = "load" /\ In1' = <<>> /\ In2' = <<>> BY <3>2 DEF In1, In2, NewInstance, Gates
    <3> QED BY <1>3, <2>1, <3>1, <3>3 DEF Solo, Handled, Restarts, Moves
  <2>5. CASE Answer(c) /\ \E n : wf' = [wf EXCEPT ![Site] = FromGate(Inst, n)]
    <3>1. req'[c].pc = "idle" /\ \A k \in Clients \ {c} : req'[k] = req[k] BY <2>5, AnswerIdles
    <3>2. PICK n : Inst' = FromGate(Inst, n) BY <2>5, OneSite DEF Inst
    <3>3. PICK v : v = FromGate(Inst, n) OBVIOUS
    <3>4. v.pc = "gate2" /\ v.inbox["hitl_1"] = <<>> /\ v.inbox["hitl_2"] = <<>>
      BY <1>0, <3>3 DEF FromGate, InstanceFields, NoEvents, Gates
    <3>5. Inst.pc' = "gate2" /\ In1' = <<>> /\ In2' = <<>> BY <3>2, <3>3, <3>4 DEF In1, In2
    <3> QED BY <1>3, <2>1, <3>1, <3>5 DEF Solo, Handled, Restarts, Moves
  <2>6. CASE Answer(c) /\ wf' = [wf EXCEPT ![Site] = FromGate1(Inst)]
    <3>1. req'[c].pc = "idle" /\ \A k \in Clients \ {c} : req'[k] = req[k] BY <2>6, AnswerIdles
    <3>2. Inst' = FromGate1(Inst) BY <2>6, OneSite DEF Inst
    <3>3. PICK v : v = FromGate1(Inst) OBVIOUS
    <3>4. v.pc = "gate1" /\ v.inbox["hitl_1"] = <<>> /\ v.inbox["hitl_2"] = <<>>
      BY <1>0, <3>3 DEF FromGate1, InstanceFields, NoEvents, Gates
    <3>5. Inst.pc' = "gate1" /\ In1' = <<>> /\ In2' = <<>> BY <3>2, <3>3, <3>4 DEF In1, In2
    <3> QED BY <1>3, <2>1, <3>1, <3>5 DEF Solo, Handled, Restarts, Moves
  <2> QED BY <2>2, <2>3, <2>4, <2>5, <2>6
<1>22. CASE UndoRestart(c)
  <2>1. RecordKept /\ row'.status = "failed" BY <1>0, <1>22 DEF UndoRestart, RecordKept, Runs
  <2>2. req'[c].pc = "idle" /\ \A k \in Clients \ {c} : req'[k] = req[k] BY <1>22, AnswerIdles DEF UndoRestart
  <2>3. UndoesRestart(c) BY <1>22, <2>1, <2>2 DEF UndoRestart, UndoesRestart, Moves, OutputKept
  <2> QED BY <1>3, <1>22, <2>2, <2>3 DEF Solo, Handled, UndoRestart
<1> QED BY <1>4, <1>5, <1>6, <1>7, <1>9, <1>10, <1>11, <1>12, <1>13, <1>14, <1>15, <1>16, <1>17,
           <1>18, <1>19, <1>20, <1>21, <1>22 DEF Handle, Proceed

-----------------------------------------------------------------------------
(* One decision: at a gate that is seen open, one is taken, sent and acted on, or undone. *)

OneDecision ==
  /\ decided \in {0, 1}
  /\ In1 = <<>> \/ \E e \in Decisions1 : In1 = <<e>>
  /\ In2 = <<>> \/ \E e \in Decisions2 : In2 = <<e>>
  /\ In1 # <<>> => decided = 1 /\ Inst.pc \in AtGate1 /\ In2 = <<>>
  /\ In2 # <<>> => decided = 1 /\ Inst.pc \in AtGate2
  /\ Acting => decided = 1
  /\ \A c \in Clients :
       /\ req[c].pc \in AtHitl1 => decided = 1 /\ Inst.pc \in AtGate1 /\ In1 = <<>> /\ In2 = <<>>
       /\ req[c].pc \in Sending2 => /\ decided = 1 /\ Inst.pc \in AtGate2 /\ In1 = <<>> /\ In2 = <<>>
                                    /\ row.status \in {"hitl_2", "failed"}
       /\ req[c].pc \in Reading2 => decided = 0 /\ Inst.pc \in AtGate2

Tracked == TypeOK /\ StatusTracksStep /\ Alone /\ OneDecision

\* Where the gates are open and no decision is acted on, the instance is at the gate.
LEMMA OpenGateWaits ==
  ASSUME Tracked
  PROVE  /\ row.status = "hitl_1" /\ decided = 0 => Inst.pc \in AtGate1
         /\ row.status = "hitl_2" /\ decided = 0 => Inst.pc \in AtGate2
         /\ row.status = "hitl_2" => Inst.pc \notin {"none", "errored", "read", "cms", "save", "compliance"}
         /\ decided = 0 => In1 = <<>> /\ In2 = <<>>
<1>1. Inst.pc \in Pcs /\ row.status \in StatusesAt(Inst.pc)
  BY OneSite DEF Tracked, StatusTracksStep, Inst, InstanceFields
<1>2. row.status = "hitl_1" => Inst.pc \in {"announce1", "await1", "apply1", "produce", "onError"}
  BY <1>1 DEF StatusesAt, Pcs, Steps, Parked, Stopped, Ended
<1>3. row.status = "hitl_2" =>
        Inst.pc \in {"announce2", "await2", "publishing", "reject", "changes", "revise", "onError"}
  BY <1>1 DEF StatusesAt, Pcs, Steps, Parked, Stopped, Ended
<1> QED BY <1>2, <1>3 DEF Tracked, OneDecision, Acting, AtGate1, AtGate2

\* The instance takes a decision off its inbox at the gate that it was sent to, and acts on it.
LEMMA StepIsOneDecision ==
  ASSUME Tracked, Step(Site) \/ Fail(Site)
  PROVE  Alone' /\ OneDecision'
<1>0. OneDecision /\ UNCHANGED <<req, restarts>> /\ row.status \in StatusesAt(Inst.pc)
  BY StepEffects DEF Tracked, StatusTracksStep, Inst
<1>1. Alone'
  <2>1. row'.status = "none" => row.status = "none"
    BY StepStatus DEF Tracked
  <2> QED BY <1>0, <2>1 DEF Alone, Tracked
<1> SUFFICES OneDecision' BY <1>1
<1> USE DEF OneDecision, Acting, AtGate1, AtGate2
<1>2. CASE MovesOn BY <1>0, <1>2 DEF MovesOn, InstKept
<1>3. CASE WritesText BY <1>0, <1>3 DEF WritesText, InstKept
<1>4. CASE OpensGate BY <1>0, <1>4 DEF OpensGate
<1>5. CASE HearsHitl1 BY <1>0, <1>5 DEF HearsHitl1
<1>6. CASE HearsHitl2
  <2>1. In2 # <<>> /\ In2' = Tail(In2) /\ UNCHANGED <<In1, decided, req>> BY <1>0, <1>6 DEF HearsHitl2
  <2>2. PICK e : In2 = <<e>> BY <1>0, <2>1
  <2>3. In2' = <<>> /\ In1' = <<>> /\ decided' = 1 BY <1>0, <2>1, <2>2
  <2>4. \A c \in Clients : req'[c].pc \notin AtHitl1 \cup Sending2 \cup Reading2
    BY <1>0, <2>1
  <2> QED BY <2>3, <2>4
<1>7. CASE LoadsText BY <1>0, <1>7 DEF LoadsText, InstKept
<1>8. CASE PushesText BY <1>0, <1>8 DEF PushesText, InstKept
<1>9. CASE LogsApproval BY <1>0, <1>9 DEF LogsApproval, InstKept
<1>10. CASE Breaks BY <1>0, <1>10 DEF Breaks
<1>11. CASE RecordsError BY <1>0, <1>11 DEF RecordsError, InstKept
<1> QED BY <1>2, <1>3, <1>4, <1>5, <1>6, <1>7, <1>8, <1>9, <1>10, <1>11, StepEffects DEF Tracked

\* A request decides only at a gate seen open, and sends or undoes its decision before the next.
LEMMA HandlerIsOneDecision ==
  ASSUME Tracked, OrderlyDesk, ~LateEdits, NEW c \in Clients, Handle(c)
  PROVE  Alone' /\ OneDecision'
<1>0. /\ OneDecision /\ Alone /\ Solo(c) /\ Handled(c) /\ row.status \in StatusesAt(Inst.pc)
      /\ \A k \in Clients : req[k].pc \in Handlers
      /\ req[c] \in RequestStates /\ decided \in Nat
  BY HandleEffects DEF Tracked, StatusTracksStep, Inst, TypeOK, RequestStates, RequestFields
<1>1. row'.status = "none" => row.status = "none"
  BY HandlerStatus DEF Tracked
<1>2. \A k \in Clients \ {c} : req'[k].pc = "idle" BY <1>0 DEF Solo
<1>3. Alone'
  <2>1. row'.status = "none" => req'[c].pc = "idle"
    BY <1>0, <1>1 DEF Handled, Alone, Creates, Launches, Decides1, Overrides, Sends1, Undoes1, Reads2,
       Validates, Declines, Claims2, Edits2, Sends2, Undoes2, Saves, Rereads, ReadsFailure, ClaimsRestart,
       Restarts, UndoesRestart, Moves
  <2> QED BY <1>2, <2>1 DEF Alone
<1>4. SUFFICES OneDecision' BY <1>3
<1>5. AtHitl1 \cap AtHitl2 = {} /\ Sending2 \cup Reading2 = AtHitl2 /\ Sending2 \cap Reading2 = {}
      /\ "idle" \notin AtHitl1 \cup AtHitl2
  BY DEF AtHitl1, AtHitl2, Sending2, Reading2
<1> DEFINE Quiet(pc) == pc \notin AtHitl1 \cup AtHitl2
           Fits(k) == /\ req[k].pc \in AtHitl1 => decided = 1 /\ Inst.pc \in AtGate1 /\ In1 = <<>> /\ In2 = <<>>
                      /\ req[k].pc \in Sending2 => /\ decided = 1 /\ Inst.pc \in AtGate2 /\ In1 = <<>> /\ In2 = <<>>
                                                   /\ row.status \in {"hitl_2", "failed"}
                      /\ req[k].pc \in Reading2 => decided = 0 /\ Inst.pc \in AtGate2
           Gated == /\ decided \in {0, 1}
                    /\ In1 = <<>> \/ \E e \in Decisions1 : In1 = <<e>>
                    /\ In2 = <<>> \/ \E e \in Decisions2 : In2 = <<e>>
                    /\ In1 # <<>> => decided = 1 /\ Inst.pc \in AtGate1 /\ In2 = <<>>
                    /\ In2 # <<>> => decided = 1 /\ Inst.pc \in AtGate2
                    /\ Acting => decided = 1
<1>6. Gated /\ Fits(c) BY <1>0 DEF OneDecision
<1>7. Gated' /\ Fits(c)' => OneDecision' BY <1>2, <1>5 DEF OneDecision
<1> SUFFICES Gated' /\ Fits(c)' BY <1>7
<1>8. /\ row.status = "hitl_1" /\ decided = 0 => Inst.pc \in AtGate1
      /\ row.status = "hitl_2" /\ decided = 0 => Inst.pc \in AtGate2
      /\ decided = 0 => In1 = <<>> /\ In2 = <<>>
  BY OpenGateWaits
<1> USE DEF Moves, Acting, AtGate1, AtGate2, AtHitl1, AtHitl2, Sending2, Reading2, RowKept
<1>9. CASE Creates(c)
  <2>1. Inst.pc \in {"none"} BY <1>9, StatusTells DEF Creates, Inst, Tracked
  <2> QED BY <1>6, <1>9, <2>1 DEF Creates, In1, In2, Inst
<1>10. CASE Launches(c)
  <2>1. CASE UNCHANGED wf BY <1>6, <1>10, <2>1 DEF Launches, In1, In2, Inst
  <2>2. CASE Inst' = NewInstance(NoRescue)
    <3>1. Inst.pc' = "load" /\ In1' = <<>> /\ In2' = <<>> BY <2>2 DEF NewInstance, In1, In2, Gates
    <3> QED BY <1>6, <1>10, <3>1 DEF Launches
  <2> QED BY <1>10, <2>1, <2>2 DEF Launches
<1>11. CASE Decides1(c) BY <1>6, <1>8, <1>11 DEF Decides1, In1, In2, Inst
<1>12. CASE Overrides(c) BY <1>6, <1>12 DEF Overrides, In1, In2, Inst
<1>13. CASE Sends1(c)
  <2>1. CASE UNCHANGED wf BY <1>6, <1>13, <2>1 DEF Sends1, In1, In2, Inst
  <2>2. CASE In1' = Append(In1, req[c].decision) /\ req'[c].pc = "idle"
             /\ UNCHANGED <<In2, Inst.pc, Inst.round, Inst.gates, Inst.err>>
    <3>1. req[c].pc = "send1" /\ UNCHANGED <<row, decided>> BY <1>13 DEF Sends1
    <3>2. req[c].decision \in Decisions1 BY <1>0, <3>1 DEF RequestStates, RequestMatches
    <3>3. In1 = <<>> /\ In2 = <<>> /\ decided = 1 /\ Inst.pc \in AtGate1 BY <1>6, <3>1
    <3>4. In1' = <<req[c].decision>> BY <2>2, <3>3
    <3> QED BY <1>6, <2>2, <3>1, <3>2, <3>3, <3>4
  <2> QED BY <1>13, <2>1, <2>2 DEF Sends1
<1>14. CASE Undoes1(c) BY <1>6, <1>14 DEF Undoes1, In1, In2, Inst, Withdrawn
<1>15. CASE Reads2(c) BY <1>6, <1>8, <1>15 DEF Reads2, In1, In2, Inst
<1>16. CASE Validates(c) BY <1>6, <1>16 DEF Validates, In1, In2, Inst
<1>17. CASE Declines(c) BY <1>6, <1>17 DEF Declines, In1, In2, Inst
<1>18. CASE Claims2(c) BY <1>6, <1>8, <1>18 DEF Claims2, In1, In2, Inst
<1>19. CASE Edits2(c) BY <1>6, <1>19 DEF Edits2, In1, In2, Inst
<1>20. CASE Sends2(c)
  <2>1. CASE UNCHANGED wf BY <1>6, <1>20, <2>1 DEF Sends2, In1, In2, Inst
  <2>2. CASE In2' = Append(In2, req[c].decision) /\ req'[c].pc = "idle"
             /\ UNCHANGED <<In1, Inst.pc, Inst.round, Inst.gates, Inst.err>>
    <3>1. req[c].pc = "send2" /\ UNCHANGED <<row, decided>> BY <1>20 DEF Sends2
    <3>2. req[c].decision \in Decisions2 BY <1>0, <3>1 DEF RequestStates, RequestMatches
    <3>3. In1 = <<>> /\ In2 = <<>> /\ decided = 1 /\ Inst.pc \in AtGate2 BY <1>6, <3>1
    <3>4. In2' = <<req[c].decision>> BY <2>2, <3>3
    <3> QED BY <1>6, <2>2, <3>1, <3>2, <3>3, <3>4
  <2> QED BY <1>20, <2>1, <2>2 DEF Sends2
<1>21. CASE Undoes2(c) BY <1>6, <1>21 DEF Undoes2, In1, In2, Inst, Withdrawn
<1>22. CASE Saves(c) BY <1>6, <1>22 DEF Saves, In1, In2, Inst
<1>23. CASE Rereads(c) BY <1>6, <1>23 DEF Rereads, In1, In2, Inst
<1>24. CASE ReadsFailure(c) BY <1>6, <1>24 DEF ReadsFailure, In1, In2, Inst
<1>25. CASE ClaimsRestart(c)
  <2>1. Inst.pc \in {"errored"} BY <1>25, StatusTells DEF ClaimsRestart, Inst, Tracked
  <2> QED BY <1>6, <1>25, <2>1 DEF ClaimsRestart, In1, In2, Inst
<1>26. CASE Restarts(c)
  <2>1. CASE UNCHANGED wf BY <1>6, <1>26, <2>1 DEF Restarts, In1, In2, Inst
  <2>2. CASE Inst.pc' \in {"load", "gate1", "gate2"} /\ In1' = <<>> /\ In2' = <<>> /\ req'[c].pc = "idle"
    BY <1>6, <1>26, <2>2 DEF Restarts
  <2> QED BY <1>26, <2>1, <2>2 DEF Restarts
<1>27. CASE UndoesRestart(c) BY <1>6, <1>27 DEF UndoesRestart, In1, In2, Inst
<1> HIDE DEF Fits, Gated, Quiet
<1> QED BY <1>0, <1>9, <1>10, <1>11, <1>12, <1>13, <1>14, <1>15, <1>16, <1>17, <1>18, <1>19, <1>20,
           <1>21, <1>22, <1>23, <1>24, <1>25, <1>26, <1>27 DEF Handled

-----------------------------------------------------------------------------
(* What is published was seen: from the claim of an approval to the load of the text, the *)
(* text that is shown is one that the approver saw or wrote.                              *)

Approving == \/ \E c \in Clients : req[c].pc \in Sending2 /\ req[c].decision = "approve"
             \/ In2 = <<"approve">>
             \/ Inst.pc \in {"publishing", "read"}

SeenInv ==
  /\ Approving => (Shown # 0 => Shown \in seen)
  /\ \A c \in Clients : req[c].pc \in Reading2 => req[c].view = Shown
  /\ Inst.pc = "cms" => Inst.text \in seen
  /\ PublishedWasSeen

\* The text that is shown depends on the drafts only.
LEMMA SameTexts == UNCHANGED drafts => Shown' = Shown
BY DEF Shown, Latest, Rendered, Written

\* Between an approval and its load no step of the instance writes a text.
LEMMA StepKeepsSeen ==
  ASSUME Tracked, SeenInv, Step(Site) \/ Fail(Site)
  PROVE  SeenInv'
<1>0. /\ OneDecision /\ UNCHANGED <<req, restarts>> /\ TypeOK
      /\ UNCHANGED drafts => Shown' = Shown
  BY StepEffects, SameTexts DEF Tracked
<1> USE DEF SeenInv, Approving, PublishedWasSeen, AtGate2, Reading2, Sending2, OneDecision
<1>1. CASE MovesOn BY <1>0, <1>1 DEF MovesOn, InstKept, OutputKept
<1>2. CASE WritesText
  <2>1. /\ Inst.pc \in {"write", "render"} /\ Inst.pc' \in {"render", "audit"}
        /\ UNCHANGED <<In2, live, seen>>
    BY <1>2 DEF WritesText, InstKept, OutputKept
  <2>2. In2' # <<"approve">> /\ \A c \in Clients : req'[c].pc \notin Sending2 \cup Reading2
    BY <1>0, <2>1
  <2> QED BY <2>1, <2>2
<1>3. CASE OpensGate BY <1>0, <1>3 DEF OpensGate, OutputKept
<1>4. CASE HearsHitl1 BY <1>0, <1>4 DEF HearsHitl1, OutputKept
<1>5. CASE HearsHitl2
  <2>1. /\ In2 # <<>> /\ In2' = Tail(In2) /\ UNCHANGED <<drafts, live, log, seen>>
        /\ Inst.pc' \notin {"cms", "read"}
        /\ Inst.pc' = "publishing" => Head(In2) = "approve"
    BY <1>5 DEF HearsHitl2, OutputKept
  <2>2. PICK e \in Decisions2 : In2 = <<e>> BY <1>0, <2>1
  <2>3. In2' = <<>> /\ Head(In2) = e BY <2>1, <2>2
  <2>4. \A c \in Clients : req'[c].pc \notin Sending2 \cup Reading2 BY <1>0, <2>1
  <2> QED BY <1>0, <2>1, <2>2, <2>3, <2>4
<1>6. CASE LoadsText
  <2>1. Shown # 0 /\ Inst.text' = Shown BY <1>0, <1>6, LoadedIsShown DEF LoadsText
  <2> QED BY <1>0, <1>6, <2>1 DEF LoadsText, InstKept, OutputKept
<1>7. CASE PushesText BY <1>0, <1>7 DEF PushesText, InstKept
<1>8. CASE LogsApproval BY <1>0, <1>8 DEF LogsApproval, InstKept
<1>9. CASE Breaks BY <1>0, <1>9 DEF Breaks, OutputKept
<1>10. CASE RecordsError BY <1>0, <1>10 DEF RecordsError, InstKept, OutputKept
<1> QED BY <1>1, <1>2, <1>3, <1>4, <1>5, <1>6, <1>7, <1>8, <1>9, <1>10, StepEffects DEF Tracked

\* Nor does a request, but for the approver's own edit.
LEMMA HandlerKeepsSeen ==
  ASSUME Tracked, SeenInv, OrderlyDesk, ~LateEdits, NEW c \in Clients, Handle(c)
  PROVE  SeenInv'
<1>0. /\ OneDecision /\ Solo(c) /\ Handled(c) /\ req[c] \in RequestStates
      /\ UNCHANGED drafts => Shown' = Shown
  BY HandleEffects, SameTexts DEF Tracked, TypeOK
<1>1. \A k \in Clients \ {c} : req[k].pc = "idle" /\ req'[k].pc = "idle" BY <1>0 DEF Solo
<1> DEFINE Sure(k) == req[k].pc \in Sending2 /\ req[k].decision = "approve"
           Loading == In2 = <<"approve">> \/ Inst.pc \in {"publishing", "read"}
           Kept == Shown # 0 => Shown \in seen
           Fits(k) == req[k].pc \in Reading2 => req[k].view = Shown
           Loaded == (Inst.pc = "cms" => Inst.text \in seen) /\ PublishedWasSeen
<1>2. SeenInv <=> ((Sure(c) \/ Loading => Kept) /\ Fits(c) /\ Loaded)
  BY <1>1 DEF SeenInv, Approving, Sending2, Reading2
<1>3. (Sure(c) \/ Loading => Kept)' /\ Fits(c)' /\ Loaded' => SeenInv'
  BY <1>1 DEF SeenInv, Approving, Sending2, Reading2
<1>4. SUFFICES (Sure(c) \/ Loading => Kept)' /\ Fits(c)' /\ Loaded' BY <1>3
<1>5. (Sure(c) \/ Loading => Kept) /\ Fits(c) /\ Loaded BY <1>2
<1>6. /\ row.status = "hitl_2" /\ decided = 0 => ~Loading /\ Inst.pc # "cms"
      /\ req[c].pc \in AtHitl1 \cup Sending2 \cup Reading2 => ~Loading /\ Inst.pc # "cms"
      /\ row.status = "hitl_2" => Inst.pc # "cms"
  BY <1>0, OpenGateWaits DEF OneDecision, AtGate1, AtGate2
<1> USE DEF Moves, AtHitl1, Sending2, Reading2, PublishedWasSeen, OutputKept, Inst
<1>9. CASE Creates(c) BY <1>0, <1>5, <1>9 DEF Creates, In2
<1>10. CASE Launches(c)
  <2>1. UNCHANGED wf \/ (Inst.pc' = "load" /\ In2' = <<>>)
    BY <1>10 DEF Launches, NewInstance, In2, Gates
  <2> QED BY <1>0, <1>5, <1>10, <2>1 DEF Launches, In2
<1>11. CASE Decides1(c) BY <1>0, <1>5, <1>11 DEF Decides1, In2
<1>12. CASE Overrides(c) BY <1>0, <1>5, <1>12 DEF Overrides, In2
<1>13. CASE Sends1(c)
  <2>1. UNCHANGED <<drafts, live, seen>> /\ UNCHANGED <<In2, Inst.pc>> /\ Inst.pc # "cms"
    BY <1>6, <1>13 DEF Sends1, In2
  <2> QED BY <1>0, <1>5, <1>13, <2>1 DEF Sends1
<1>14. CASE Undoes1(c) BY <1>0, <1>5, <1>14 DEF Undoes1, In2
<1>15. CASE Reads2(c) BY <1>0, <1>5, <1>15 DEF Reads2, In2
<1>16. CASE Validates(c) BY <1>0, <1>5, <1>16 DEF Validates, RequestKept, In2
<1>17. CASE Declines(c) BY <1>0, <1>5, <1>17 DEF Declines, In2
<1>18. CASE Claims2(c) BY <1>0, <1>5, <1>6, <1>18 DEF Claims2, RequestKept, In2
<1>19. CASE Edits2(c) BY <1>0, <1>5, <1>6, <1>19 DEF Edits2, RequestKept, In2
<1>20. CASE Sends2(c)
  <2>1. CASE UNCHANGED wf BY <1>0, <1>5, <1>20, <2>1 DEF Sends2, RequestKept, In2
  <2>2. CASE In2' = Append(In2, req[c].decision) /\ req'[c].pc = "idle" /\ UNCHANGED Inst.pc
    <3>1. req[c].pc = "send2" /\ UNCHANGED <<drafts, live, seen>> BY <1>20 DEF Sends2
    <3>2. In2 = <<>> /\ ~Loading /\ Inst.pc # "cms" BY <1>0, <1>6, <3>1 DEF OneDecision
    <3>3. In2' = <<"approve">> => req[c].decision = "approve" BY <2>2, <3>2
    <3> QED BY <1>0, <1>5, <2>2, <3>1, <3>2, <3>3
  <2> QED BY <1>20, <2>1, <2>2 DEF Sends2
<1>21. CASE Undoes2(c) BY <1>0, <1>5, <1>21 DEF Undoes2, In2
<1>22. CASE Saves(c) BY <1>0, <1>5, <1>6, <1>22 DEF Saves, In2
<1>23. CASE Rereads(c) BY <1>0, <1>5, <1>23 DEF Rereads, In2
<1>24. CASE ReadsFailure(c) BY <1>0, <1>5, <1>24 DEF ReadsFailure, In2
<1>25. CASE ClaimsRestart(c) BY <1>0, <1>5, <1>25 DEF ClaimsRestart, In2
<1>26. CASE Restarts(c)
  <2>1. UNCHANGED <<drafts, live, seen>> /\ (UNCHANGED wf \/ (Inst.pc' \in {"load", "gate1", "gate2"} /\ In2' = <<>>))
    BY <1>26 DEF Restarts
  <2>2. CASE UNCHANGED wf BY <1>0, <1>5, <1>26, <2>1, <2>2 DEF Restarts, Moves, In2
  <2>3. CASE Inst.pc' \in {"load", "gate1", "gate2"} /\ In2' = <<>>
    <3>1. req'[c].pc = "idle" \/ req'[c].pc = "undoRestart" BY <1>26 DEF Restarts, Moves
    <3> QED BY <1>0, <1>5, <2>1, <2>3, <3>1
  <2> QED BY <2>1, <2>2, <2>3
<1>27. CASE UndoesRestart(c) BY <1>0, <1>5, <1>27 DEF UndoesRestart, In2
<1> HIDE DEF Sure, Loading, Kept, Fits, Loaded
<1> QED BY <1>0, <1>9, <1>10, <1>11, <1>12, <1>13, <1>14, <1>15, <1>16, <1>17, <1>18, <1>19, <1>20,
           <1>21, <1>22, <1>23, <1>24, <1>25, <1>26, <1>27 DEF Handled

-----------------------------------------------------------------------------
(* What is published was approved: the row keeps the approval that is being published. *)

Named == row.d2 = "approve" /\ row.approver # Nobody

RecordInv ==
  /\ Approving => Named \/ (row.refresh /\ ~row.checked)
  /\ Inst.pc \in {"cms", "save", "compliance"} \/ row.status = "published" => Named
  /\ log # Nobody

CheckInv == /\ ApprovalWasChecked
            /\ \A c \in Clients : req[c].pc = "claim2" /\ req[c].decision = "approve" => req[c].checked

\* The instance voids an approval only on a mismatch, which ends the publish.
LEMMA StepKeepsRecord ==
  ASSUME Tracked, RecordInv, CheckInv, Step(Site) \/ Fail(Site)
  PROVE  RecordInv' /\ CheckInv'
<1>0. /\ OneDecision /\ UNCHANGED <<req, restarts>> /\ row.status \in StatusesAt(Inst.pc)
  BY StepEffects DEF Tracked, StatusTracksStep, Inst
<1>1. Inst.pc = "read" => row.status = "publishing" BY <1>0 DEF StatusesAt
<1> USE DEF RecordInv, CheckInv, Named, Approving, ApprovalWasChecked, AtGate2, Sending2, OneDecision
<1>2. CASE MovesOn BY <1>0, <1>2 DEF MovesOn, InstKept, OutputKept, RecordKept
<1>3. CASE WritesText BY <1>0, <1>3 DEF WritesText, InstKept, OutputKept
<1>4. CASE OpensGate BY <1>0, <1>4 DEF OpensGate, OutputKept, RecordKept
<1>5. CASE HearsHitl1 BY <1>0, <1>5 DEF HearsHitl1, OutputKept
<1>6. CASE HearsHitl2
  <2>1. /\ In2 # <<>> /\ In2' = Tail(In2) /\ UNCHANGED <<row, live, log, seen>>
        /\ Inst.pc' \notin {"cms", "save", "compliance", "read"}
        /\ Inst.pc' = "publishing" => Head(In2) = "approve"
    BY <1>6 DEF HearsHitl2, OutputKept
  <2>2. PICK e \in Decisions2 : In2 = <<e>> BY <1>0, <2>1
  <2>3. In2' = <<>> /\ Head(In2) = e BY <2>1, <2>2
  <2>4. \A c \in Clients : req'[c].pc \notin Sending2 BY <1>0, <2>1
  <2> QED BY <1>0, <2>1, <2>2, <2>3, <2>4
<1>7. CASE LoadsText BY <1>0, <1>7 DEF LoadsText, InstKept, OutputKept
<1>8. CASE PushesText BY <1>0, <1>8 DEF PushesText, InstKept
<1>9. CASE LogsApproval BY <1>0, <1>9 DEF LogsApproval, InstKept
<1>10. CASE Breaks
  <2>1. /\ Inst.pc' = "onError" /\ UNCHANGED <<In2, log>> /\ row'.status = row.status
        /\ \/ UNCHANGED row
           \/ Inst.pc = "read" /\ row'.d2 = NoDecision
    BY <1>10 DEF Breaks, OutputKept
  <2>2. row'.status = "published" => UNCHANGED row BY <1>1, <2>1
  <2>3. /\ In2 = <<"approve">> => Inst.pc \in AtGate2
        /\ \A c \in Clients : req[c].pc \in Sending2 => Inst.pc \in AtGate2
    BY <1>0
  <2>4. Approving' => Approving /\ Inst.pc \in AtGate2 BY <1>0, <2>1, <2>3
  <2> QED BY <1>0, <2>1, <2>2, <2>4 DEF NoDecision
<1>11. CASE RecordsError BY <1>0, <1>11 DEF RecordsError, InstKept, OutputKept, RecordKept
<1> QED BY <1>2, <1>3, <1>4, <1>5, <1>6, <1>7, <1>8, <1>9, <1>10, <1>11, StepEffects DEF Tracked

\* A request voids one only before it was sent, or where a refresh then refuses to publish.
LEMMA HandlerKeepsRecord ==
  ASSUME Tracked, RecordInv, CheckInv, OrderlyDesk, ~LateEdits, Nobody \notin Clients,
         NEW c \in Clients, Handle(c)
  PROVE  RecordInv' /\ CheckInv'
<1>0. OneDecision /\ Solo(c) /\ Handled(c) /\ req[c] \in RequestStates
  BY HandleEffects DEF Tracked, TypeOK
<1>1. \A k \in Clients \ {c} : req[k].pc = "idle" /\ req'[k].pc = "idle" BY <1>0 DEF Solo
<1> DEFINE Sure(k) == req[k].pc \in Sending2 /\ req[k].decision = "approve"
           Loading == In2 = <<"approve">> \/ Inst.pc \in {"publishing", "read"}
           Held == Named \/ (row.refresh /\ ~row.checked)
           Done == Inst.pc \in {"cms", "save", "compliance"} \/ row.status = "published"
           Fits(k) == req[k].pc = "claim2" /\ req[k].decision = "approve" => req[k].checked
           Good == /\ Sure(c) \/ Loading => Held
                   /\ Done => Named
                   /\ log # Nobody /\ ApprovalWasChecked /\ Fits(c)
<1>2. RecordInv /\ CheckInv <=> Good
  BY <1>1 DEF RecordInv, CheckInv, Approving, Sending2
<1>3. Good' => RecordInv' /\ CheckInv'
  BY <1>1 DEF RecordInv, CheckInv, Approving, Sending2
<1>4. SUFFICES Good' BY <1>3
<1>5. Good BY <1>2
<1>6. /\ row.status = "hitl_2" => ~Done
      /\ row.status = "hitl_2" /\ decided = 0 => ~Loading
      /\ req[c].pc \in AtHitl1 \cup Sending2 \cup Reading2 => ~Loading /\ Inst.pc \notin {"cms", "save", "compliance"}
      /\ req[c].pc \in Sending2 => ~Done
  BY <1>0, OpenGateWaits DEF OneDecision, AtGate1, AtGate2
<1> USE DEF Moves, AtHitl1, Sending2, Reading2, OutputKept, Inst, Named, ApprovalWasChecked, RowKept,
            RecordKept
<1>9. CASE Creates(c) BY <1>5, <1>9 DEF Creates, In2
<1>10. CASE Launches(c)
  <2>1. UNCHANGED wf \/ (Inst.pc' = "load" /\ In2' = <<>>)
    BY <1>10 DEF Launches, NewInstance, In2, Gates
  <2> QED BY <1>5, <1>10, <2>1 DEF Launches, In2
<1>11. CASE Decides1(c) BY <1>5, <1>11 DEF Decides1, In2
<1>12. CASE Overrides(c) BY <1>5, <1>12 DEF Overrides, In2
<1>13. CASE Sends1(c)
  <2>1. UNCHANGED <<row, log>> /\ UNCHANGED <<In2, Inst.pc>>
    BY <1>6, <1>13 DEF Sends1, In2
  <2> QED BY <1>5, <1>13, <2>1 DEF Sends1
<1>14. CASE Undoes1(c) BY <1>5, <1>14 DEF Undoes1, In2
<1>15. CASE Reads2(c) BY <1>5, <1>15 DEF Reads2, In2
<1>16. CASE Validates(c) BY <1>5, <1>16 DEF Validates, RequestKept, In2
<1>17. CASE Declines(c) BY <1>5, <1>17 DEF Declines, In2
<1>18. CASE Claims2(c)
  <2>1. /\ UNCHANGED <<Inst.pc, In2, log>> /\ RequestKept(c) /\ row.status = "hitl_2" /\ row'.status = row.status
        /\ row'.d2 = req[c].decision /\ row'.checked = req[c].checked /\ req[c].pc = "claim2"
        /\ req'[c].pc \in {"edit2", "send2"}
        /\ req[c].decision = "approve" => row'.approver = c
    BY <1>18 DEF Claims2, In2
  <2>2. ~Loading' /\ ~Done' BY <1>6, <2>1
  <2> QED BY <1>5, <2>1, <2>2 DEF RequestKept
<1>19. CASE Edits2(c) BY <1>5, <1>6, <1>19 DEF Edits2, RequestKept, In2
<1>20. CASE Sends2(c)
  <2>1. CASE UNCHANGED wf BY <1>5, <1>20, <2>1 DEF Sends2, RequestKept, In2
  <2>2. CASE In2' = Append(In2, req[c].decision) /\ req'[c].pc = "idle" /\ UNCHANGED Inst.pc
    <3>1. req[c].pc = "send2" /\ UNCHANGED <<row, log>> BY <1>20 DEF Sends2
    <3>2. In2 = <<>> /\ ~Loading BY <1>0, <1>6, <3>1 DEF OneDecision
    <3>3. In2' = <<"approve">> => req[c].decision = "approve" BY <2>2, <3>2
    <3> QED BY <1>5, <2>2, <3>1, <3>2, <3>3
  <2> QED BY <1>20, <2>1, <2>2 DEF Sends2
<1>21. CASE Undoes2(c)
  <2>1. /\ UNCHANGED <<Inst.pc, In2, log>> /\ row'.status = row.status /\ row'.d2 = NoDecision
        /\ req[c].pc = "undo2" /\ req'[c].pc = "idle"
    BY <1>21 DEF Undoes2, In2
  <2>2. ~Loading' /\ ~Done' BY <1>6, <2>1
  <2> QED BY <1>5, <2>1, <2>2 DEF NoDecision
<1>22. CASE Saves(c) BY <1>5, <1>22 DEF Saves, In2
<1>23. CASE Rereads(c)
  <2>1. /\ UNCHANGED <<Inst.pc, In2, log, req>> /\ row'.status = row.status /\ row'.d2 = NoDecision
        /\ row.status = "hitl_2" /\ row'.refresh = row.refresh /\ row.refresh /\ row'.checked = FALSE
    BY <1>23 DEF Rereads, In2
  <2>2. ~Done' BY <1>6, <2>1
  <2> QED BY <1>5, <2>1, <2>2 DEF NoDecision
<1>24. CASE ReadsFailure(c) BY <1>5, <1>24 DEF ReadsFailure, In2
<1>25. CASE ClaimsRestart(c) BY <1>5, <1>25 DEF ClaimsRestart, In2
<1>26. CASE Restarts(c)
  <2>1. UNCHANGED <<row, log>> /\ (UNCHANGED wf \/ (Inst.pc' \in {"load", "gate1", "gate2"} /\ In2' = <<>>))
    BY <1>26 DEF Restarts
  <2> QED BY <1>5, <1>26, <2>1 DEF Restarts, In2
<1>27. CASE UndoesRestart(c) BY <1>5, <1>27 DEF UndoesRestart, In2
<1> HIDE DEF Good
<1> QED BY <1>0, <1>9, <1>10, <1>11, <1>12, <1>13, <1>14, <1>15, <1>16, <1>17, <1>18, <1>19, <1>20,
           <1>21, <1>22, <1>23, <1>24, <1>25, <1>26, <1>27 DEF Handled

-----------------------------------------------------------------------------
(* The second gate is in order: before a restart the row and the instance count the same *)
(* revisions, and until the second restart a mismatch goes back to a gate that opened.   *)

RestartPcs == {"claimRestart", "restart", "undoRestart"}

CountInv ==
  /\ restarts \in Nat /\ row.round <= MaxRounds
  /\ restarts = 0 =>
       /\ \A c \in Clients : req[c].pc \notin RestartPcs
       /\ Inst.pc = "none" => Inst.round = 0 /\ Inst.err = "none"
       /\ \/ row.round = Inst.round
          \/ row.round = Inst.round + 1 /\ decided = 1 /\ Inst.pc \in AtGate2
       /\ \A e \in Decisions2 : In2 = <<e>> => row.round = Inst.round + Asked(e)
       /\ \A c \in Clients :
            /\ req[c].pc \in AtHitl1 => row.round = Inst.round
            /\ req[c].pc \in Reading2 \cup Sending2 => req[c].prior = Inst.round
            /\ req[c].pc \in Sending2 => row.round = Inst.round + Asked(req[c].decision)

\* The instance counts a revision when it hears of it.
LEMMA StepKeepsCount ==
  ASSUME Tracked, RoundCap', CountInv, Step(Site) \/ Fail(Site)
  PROVE  CountInv'
<1>0. /\ OneDecision /\ UNCHANGED <<req, restarts>> /\ restarts \in Nat
      /\ row'.round <= MaxRounds /\ Inst.round \in Nat /\ row.round \in Nat /\ MaxRounds \in Nat
  BY StepEffects, OneSite, ConstantsAssumption DEF Tracked, CountInv, RoundCap, Inst, InstanceFields, Runs
<1>1. CASE restarts # 0 BY <1>0, <1>1 DEF CountInv
<1>2. CASE restarts = 0
  <2> USE DEF CountInv, AtGate1, AtGate2, Sending2, Reading2, OneDecision
  <2>1. CASE UNCHANGED <<In2, Inst.round>> /\ row'.round = row.round /\ Inst.pc' # "none"
             /\ (Inst.pc \in AtGate2 /\ row.round # Inst.round => Inst.pc' \in AtGate2 /\ UNCHANGED decided)
    BY <1>0, <1>2, <2>1
  <2>2. CASE MovesOn BY <2>1, <2>2 DEF MovesOn, InstKept, RecordKept
  <2>3. CASE WritesText BY <2>1, <2>3 DEF WritesText, InstKept
  <2>4. CASE OpensGate BY <2>1, <2>4 DEF OpensGate, RecordKept
  <2>5. CASE HearsHitl1 BY <2>1, <2>5 DEF HearsHitl1
  <2>6. CASE HearsHitl2
    <3>1. In2 # <<>> /\ In2' = Tail(In2) /\ UNCHANGED <<row, decided>> BY <2>6 DEF HearsHitl2
    <3>2. PICK e \in Decisions2 : In2 = <<e>> BY <1>0, <3>1
    <3>3. In2' = <<>> /\ Head(In2) = e BY <3>1, <3>2
    <3>4. row.round = Inst.round + Asked(e) BY <1>2, <3>2
    <3>5. row'.round = Inst.round' /\ Inst.pc' # "none"
      BY <1>0, <2>6, <3>1, <3>3, <3>4 DEF HearsHitl2, Decisions2, Asked
    <3>6. \A c \in Clients : req[c].pc \notin AtHitl1 \cup Reading2 \cup Sending2 BY <1>0, <3>1
    <3> QED BY <1>0, <1>2, <3>3, <3>5, <3>6
  <2>7. CASE LoadsText BY <2>1, <2>7 DEF LoadsText, InstKept
  <2>8. CASE PushesText BY <2>1, <2>8 DEF PushesText, InstKept
  <2>9. CASE LogsApproval BY <2>1, <2>9 DEF LogsApproval, InstKept
  <2>10. CASE Breaks BY <2>1, <2>10 DEF Breaks
  <2>11. CASE RecordsError BY <2>1, <2>11 DEF RecordsError, InstKept, RecordKept
  <2> QED BY <2>2, <2>3, <2>4, <2>5, <2>6, <2>7, <2>8, <2>9, <2>10, <2>11, StepEffects DEF Tracked
<1> QED BY <1>1, <1>2

\* The row has counted it at the claim, and counts it back when the send fails.
LEMMA HandlerKeepsCount ==
  ASSUME Tracked, RoundCap', CountInv, OrderlyDesk, ~LateEdits, NEW c \in Clients, Handle(c)
  PROVE  CountInv'
<1>0. /\ OneDecision /\ Solo(c) /\ Handled(c) /\ req[c] \in RequestStates /\ restarts \in Nat
      /\ row'.round <= MaxRounds /\ Inst.round \in Nat /\ row.round \in Nat /\ decided \in Nat
  BY HandleEffects, OneSite DEF Tracked, CountInv, RoundCap, Inst, InstanceFields, Runs, TypeOK
<1>1. \A k \in Clients \ {c} : req[k].pc = "idle" /\ req'[k].pc = "idle" BY <1>0 DEF Solo
<1> DEFINE Counted == /\ req[c].pc \notin RestartPcs
                      /\ Inst.pc = "none" => Inst.round = 0 /\ Inst.err = "none"
                      /\ \/ row.round = Inst.round
                         \/ row.round = Inst.round + 1 /\ decided = 1 /\ Inst.pc \in AtGate2
                      /\ \A e \in Decisions2 : In2 = <<e>> => row.round = Inst.round + Asked(e)
                      /\ req[c].pc \in AtHitl1 => row.round = Inst.round
                      /\ req[c].pc \in Reading2 \cup Sending2 => req[c].prior = Inst.round
                      /\ req[c].pc \in Sending2 => row.round = Inst.round + Asked(req[c].decision)
<1>2. restarts = 0 => Counted BY DEF CountInv
<1>3. restarts' \in Nat /\ (restarts' = 0 => Counted') => CountInv'
  BY <1>0, <1>1 DEF CountInv, RestartPcs, AtHitl1, Reading2, Sending2
<1>4. CASE restarts # 0
  <2>1. restarts' \in Nat /\ restarts' # 0
    BY <1>0, <1>4 DEF Handled, Creates, Launches, Decides1, Overrides, Sends1, Undoes1, Reads2, Validates,
       Declines, Claims2, Edits2, Sends2, Undoes2, Saves, Rereads, ReadsFailure, ClaimsRestart,
       Restarts, UndoesRestart
  <2> QED BY <1>3, <2>1
<1>5. CASE restarts = 0
  <2>0. Counted BY <1>2, <1>5
  <2>2. /\ row.status = "hitl_1" /\ decided = 0 => Inst.pc \in AtGate1
        /\ row.status = "hitl_2" /\ decided = 0 => Inst.pc \in AtGate2
        /\ decided = 0 => In2 = <<>> /\ row.round = Inst.round
    BY <1>0, <2>0, OpenGateWaits
  <2>3. req[c].pc \in AtHitl1 => decided = 1 /\ Inst.pc \in AtGate1 /\ In2 = <<>>
    BY <1>0 DEF OneDecision
  <2>4. req[c].pc \in Sending2 => decided = 1 /\ Inst.pc \in AtGate2 /\ In2 = <<>>
    BY <1>0 DEF OneDecision
  <2>5. req[c].pc \in Reading2 => decided = 0 /\ Inst.pc \in AtGate2
    BY <1>0 DEF OneDecision
  <2>6. Inst.pc = "none" => row.round = Inst.round BY <2>0 DEF AtGate2
  <2> USE DEF Moves, AtHitl1, Sending2, Reading2, Inst, RowKept, RecordKept, RestartPcs
  <2>8. CASE ReadsFailure(c)
    <3>1. restarts' \in Nat /\ restarts' # 0 BY <1>0, <1>5, <2>8 DEF ReadsFailure
    <3> QED BY <1>3, <3>1
  <2>9. SUFFICES ASSUME UNCHANGED restarts PROVE Counted'
    <3>1. ~ReadsFailure(c) => UNCHANGED restarts
      BY <1>0 DEF Handled, Creates, Launches, Decides1, Overrides, Sends1, Undoes1, Reads2, Validates,
         Declines, Claims2, Edits2, Sends2, Undoes2, Saves, Rereads, ClaimsRestart, Restarts, UndoesRestart
    <3> QED BY <1>0, <1>3, <2>8, <3>1
  <2>10. CASE Creates(c) BY <2>0, <2>10 DEF Creates, In2
  <2>11. CASE Launches(c)
    <3>1. Inst.pc = "none" BY <2>11 DEF Launches, Tracked, StatusTracksStep
    <3>2. CASE UNCHANGED wf BY <2>0, <2>11, <3>2 DEF Launches, In2
    <3>3. CASE Inst' = NewInstance(NoRescue)
      <4>1. Inst.pc' = "load" /\ In2' = <<>> /\ Inst.round' = 0
        BY <3>3 DEF NewInstance, In2, Gates, NoRescue
      <4> QED BY <2>0, <2>6, <2>11, <3>1, <4>1 DEF Launches
    <3> QED BY <2>11, <3>2, <3>3 DEF Launches
  <2>12. CASE Decides1(c) BY <1>0, <2>0, <2>2, <2>12 DEF Decides1, In2
  <2>13. CASE Overrides(c) BY <2>0, <2>13 DEF Overrides, In2
  <2>14. CASE Sends1(c)
    <3>1. UNCHANGED <<row, decided, In2, Inst.pc, Inst.round, Inst.err>> BY <2>14 DEF Sends1, In2
    <3> QED BY <2>0, <2>14, <3>1 DEF Sends1
  <2>15. CASE Undoes1(c)
    <3>1. UNCHANGED <<In2, Inst.pc, Inst.round, Inst.err>> /\ row'.round = row.round BY <2>15 DEF Undoes1, In2
    <3> QED BY <2>0, <2>15, <3>1 DEF Undoes1
  <2>16. CASE Reads2(c) BY <2>0, <2>2, <2>16 DEF Reads2, In2
  <2>17. CASE Validates(c) BY <2>0, <2>17 DEF Validates, RequestKept, In2
  <2>18. CASE Declines(c) BY <2>0, <2>18 DEF Declines, In2
  <2>19. CASE Claims2(c)
    <3>1. /\ UNCHANGED <<Inst.pc, In2, Inst.round, Inst.err>> /\ RequestKept(c)
          /\ row'.round = row.round + Asked(req[c].decision) /\ decided' = decided + 1
          /\ req[c].pc = "claim2" /\ req'[c].pc \in {"edit2", "send2"}
      BY <2>19 DEF Claims2, In2
    <3>2. decided = 0 /\ Inst.pc \in AtGate2 /\ row.round = Inst.round /\ In2 = <<>> BY <2>2, <2>5, <3>1
    <3>3. Asked(req[c].decision) \in {0, 1} BY DEF Asked
    <3>4. row'.round = Inst.round' + Asked(req'[c].decision) BY <3>1, <3>2 DEF RequestKept
    <3> QED BY <1>0, <2>0, <3>1, <3>2, <3>3, <3>4 DEF RequestKept, AtGate2
  <2>20. CASE Edits2(c) BY <2>0, <2>20 DEF Edits2, RequestKept, In2
  <2>21. CASE Sends2(c)
    <3>1. CASE UNCHANGED wf BY <2>0, <2>21, <3>1 DEF Sends2, RequestKept, In2
    <3>2. CASE /\ In2' = Append(In2, req[c].decision) /\ req'[c].pc = "idle"
               /\ UNCHANGED <<In1, Inst.pc, Inst.round, Inst.gates, Inst.err>>
      <4>1. req[c].pc = "send2" /\ UNCHANGED <<row, decided>> BY <2>21 DEF Sends2
      <4>2. In2 = <<>> /\ row.round = Inst.round + Asked(req[c].decision) BY <2>0, <2>4, <4>1
      <4>3. In2' = <<req[c].decision>> BY <3>2, <4>2
      <4> QED BY <2>0, <3>2, <4>1, <4>2, <4>3
    <3> QED BY <2>21, <3>1, <3>2 DEF Sends2
  <2>22. CASE Undoes2(c)
    <3>1. /\ UNCHANGED <<Inst.pc, In2, Inst.round, Inst.err>> /\ row'.round = req[c].prior
          /\ req[c].pc = "undo2" /\ req'[c].pc = "idle"
      BY <2>22 DEF Undoes2, In2
    <3> QED BY <2>0, <2>4, <3>1
  <2>23. CASE Saves(c) BY <2>0, <2>23 DEF Saves, In2
  <2>24. CASE Rereads(c) BY <2>0, <2>24 DEF Rereads, In2
  <2>25. CASE ClaimsRestart(c) BY <2>0, <2>25 DEF ClaimsRestart
  <2>26. CASE Restarts(c) BY <2>0, <2>26 DEF Restarts
  <2>27. CASE UndoesRestart(c) BY <2>0, <2>27 DEF UndoesRestart
  <2>28. CASE ReadsFailure(c) BY <1>0, <2>9, <2>28 DEF ReadsFailure
  <2> HIDE DEF Counted
  <2> QED BY <1>0, <2>28, <2>10, <2>11, <2>12, <2>13, <2>14, <2>15, <2>16, <2>17, <2>18, <2>19, <2>20,
             <2>21, <2>22, <2>23, <2>24, <2>25, <2>26, <2>27 DEF Handled
<1> QED BY <1>4, <1>5

\* A mismatch leaves the instance stopped behind a gate that it has opened, in the row's round.
ReopenInv ==
  /\ Inst.pc \in {"announce2", "await2", "publishing", "read"} => Inst.round \in Inst.gates
  /\ restarts = 0 /\ Inst.err = "mismatch" =>
       /\ Inst.pc = "errored" \/ (Inst.pc = "onError" /\ row.status = "publishing")
       /\ row.round \in Inst.gates /\ \A c \in Clients : req[c].pc \notin Sending2
  /\ restarts = 0 /\ row.error = "mismatch" => Inst.err = "mismatch" /\ Inst.pc = "errored"
  /\ restarts <= 1 => \A c \in Clients :
       req[c].pc \in {"claimRestart", "restart"} /\ req[c].from = "gate" =>
         Inst.pc = "errored" /\ req[c].prior \in Inst.gates

\* The mismatch is met behind an open gate, and recorded by the next step.
LEMMA StepKeepsReopen ==
  ASSUME Tracked, CountInv, ReopenInv, Step(Site) \/ Fail(Site)
  PROVE  ReopenInv'
<1>0. /\ OneDecision /\ UNCHANGED <<req, restarts>> /\ row.status \in StatusesAt(Inst.pc)
  BY StepEffects DEF Tracked, StatusTracksStep, Inst
<1>1. Inst.pc = "read" => row.status = "publishing" BY <1>0 DEF StatusesAt
<1>2. /\ Inst.pc \in {"read"} => \A c \in Clients : req[c].pc \notin Sending2
      /\ restarts = 0 /\ Inst.pc \in {"read"} => row.round = Inst.round
  BY <1>0 DEF OneDecision, CountInv, AtGate2, Sending2
<1> DEFINE Opened == Inst.pc \in {"announce2", "await2", "publishing", "read"} => Inst.round \in Inst.gates
           Lost == restarts = 0 /\ Inst.err = "mismatch" =>
                     /\ Inst.pc = "errored" \/ (Inst.pc = "onError" /\ row.status = "publishing")
                     /\ row.round \in Inst.gates /\ \A c \in Clients : req[c].pc \notin Sending2
           Told == restarts = 0 /\ row.error = "mismatch" => Inst.err = "mismatch" /\ Inst.pc = "errored"
           Back == restarts <= 1 => \A c \in Clients :
                     req[c].pc \in {"claimRestart", "restart"} /\ req[c].from = "gate" =>
                       Inst.pc = "errored" /\ req[c].prior \in Inst.gates
<1>3. Opened /\ Lost /\ Told /\ Back BY DEF ReopenInv
<1>4. SUFFICES Opened' /\ Lost' /\ Told' /\ Back' BY DEF ReopenInv
\* A step is taken by an instance that has not stopped: it leaves no restart under way,
\* and an instance that met the mismatch only records it.
<1>5. Inst.pc # "errored"
  BY StepEffects DEF Tracked, MovesOn, WritesText, OpensGate, HearsHitl1, HearsHitl2, LoadsText,
     PushesText, LogsApproval, Breaks, RecordsError, Steps, Parked
<1>6. Back' BY <1>0, <1>3, <1>5
<1>7. CASE Inst.pc = "onError"
  <2>1. RecordsError
    BY <1>7, StepEffects DEF Tracked, MovesOn, WritesText, OpensGate, HearsHitl1, HearsHitl2, LoadsText,
       PushesText, LogsApproval, Breaks, Steps, Parked
  <2>2. /\ Inst.pc' = "errored" /\ UNCHANGED <<Inst.round, Inst.gates, Inst.err>> /\ row'.round = row.round
        /\ row'.error = Inst.err
    BY <2>1 DEF RecordsError, InstKept, RecordKept
  <2> QED BY <1>0, <1>3, <1>6, <2>2
<1>8. CASE Inst.pc # "onError"
  <2>1. restarts = 0 => Inst.err # "mismatch" /\ row.error # "mismatch" BY <1>3, <1>5, <1>8
  <2>2. CASE Breaks
    <3>1. /\ Inst.pc' = "onError" /\ row'.status = row.status /\ row'.error = row.error
          /\ UNCHANGED <<Inst.round, Inst.gates>>
          /\ \/ Inst.err' = "step_error"
             \/ Inst.pc = "read" /\ row'.round = row.round
      BY <2>2 DEF Breaks
    <3> QED BY <1>0, <1>1, <1>2, <1>3, <1>6, <2>1, <3>1
  <2>3. CASE ~Breaks
    <3>1. /\ UNCHANGED Inst.err /\ row'.error = row.error
          /\ Opened'
      <4>1. CASE OpensGate BY <2>3, <4>1 DEF OpensGate
      <4>2. CASE HearsHitl2 BY <1>3, <4>2 DEF HearsHitl2
      <4>3. CASE MovesOn BY <1>3, <4>3 DEF MovesOn, InstKept
      <4>4. CASE WritesText \/ LoadsText \/ PushesText \/ LogsApproval
        BY <4>4 DEF WritesText, LoadsText, PushesText, LogsApproval, InstKept
      <4>5. CASE HearsHitl1 BY <4>5 DEF HearsHitl1
      <4> QED BY <1>8, <2>3, <4>1, <4>2, <4>3, <4>4, <4>5, StepEffects DEF Tracked, RecordsError
    <3> QED BY <1>0, <1>6, <2>1, <3>1
  <2> QED BY <2>2, <2>3
<1> QED BY <1>7, <1>8

\* No decision is taken between the mismatch and its restart.
LEMMA HandlerKeepsReopen ==
  ASSUME Tracked, CountInv, ReopenInv, OrderlyDesk, ~LateEdits, NEW c \in Clients, Handle(c)
  PROVE  ReopenInv'
<1>0. /\ OneDecision /\ Solo(c) /\ Handled(c) /\ restarts \in Nat
  BY HandleEffects DEF Tracked, CountInv
<1>1. \A k \in Clients \ {c} : req[k].pc = "idle" /\ req'[k].pc = "idle" BY <1>0 DEF Solo
<1> DEFINE Opened == Inst.pc \in {"announce2", "await2", "publishing", "read"} => Inst.round \in Inst.gates
           Lost == restarts = 0 /\ Inst.err = "mismatch" =>
                     /\ Inst.pc = "errored" \/ (Inst.pc = "onError" /\ row.status = "publishing")
                     /\ row.round \in Inst.gates /\ req[c].pc \notin Sending2
           Told == restarts = 0 /\ row.error = "mismatch" => Inst.err = "mismatch" /\ Inst.pc = "errored"
           Back == restarts <= 1 /\ req[c].pc \in {"claimRestart", "restart"} /\ req[c].from = "gate" =>
                     Inst.pc = "errored" /\ req[c].prior \in Inst.gates
<1>2. Opened /\ Lost /\ Told /\ Back BY DEF ReopenInv
<1>3. Opened' /\ Lost' /\ Told' /\ Back' => ReopenInv'
  BY <1>1 DEF ReopenInv, Sending2
<1>4. SUFFICES Opened' /\ Lost' /\ Told' /\ Back' BY <1>3
<1>5. /\ row.status = "hitl_2" => Inst.pc # "errored"
      /\ row.status = "failed" => Inst.pc = "errored"
      /\ row.status = "none" => Inst.pc = "none"
  BY OpenGateWaits, StatusTells DEF Tracked, Inst
<1>6. /\ restarts = 0 => req[c].pc \notin RestartPcs
      /\ restarts = 0 /\ Inst.pc = "none" => Inst.err = "none"
  BY DEF CountInv
<1> USE DEF Moves, Sending2, Inst, RowKept, RecordKept, RestartPcs
<1>7. CASE /\ UNCHANGED <<wf, restarts>> /\ row'.status = row.status /\ row'.error = row.error
           /\ row'.round = row.round
           /\ req'[c].pc \in Sending2 => req[c].pc \in Sending2
           /\ req'[c].pc \notin {"claimRestart", "restart"}
  BY <1>2, <1>7
<1>8. CASE Creates(c)
  <2>1. Inst.pc = "none" BY <1>5, <1>8 DEF Creates
  <2> QED BY <1>2, <1>6, <1>8, <2>1 DEF Creates
<1>9. CASE Launches(c)
  <2>1. Inst.pc = "none" BY <1>9 DEF Launches, Tracked, StatusTracksStep
  <2>2. CASE Inst' = NewInstance(NoRescue)
    <3>1. Inst.pc' = "load" /\ Inst.err' = "none" BY <2>2 DEF NewInstance
    <3> QED BY <1>2, <1>6, <1>9, <2>1, <3>1 DEF Launches
  <2> QED BY <1>7, <1>9, <2>2 DEF Launches
<1>10. CASE Decides1(c) BY <1>7, <1>10 DEF Decides1
<1>11. CASE Overrides(c) BY <1>7, <1>11 DEF Overrides
<1>12. CASE Sends1(c)
  <2>1. UNCHANGED <<row, restarts, Inst.pc, Inst.round, Inst.gates, Inst.err>> /\ req'[c].pc \in {"idle", "undo1"}
    BY <1>12 DEF Sends1
  <2> QED BY <1>2, <2>1
<1>13. CASE Undoes1(c) BY <1>7, <1>13 DEF Undoes1
<1>14. CASE Reads2(c) BY <1>7, <1>14 DEF Reads2, Reading2
<1>15. CASE Validates(c) BY <1>7, <1>15 DEF Validates
<1>16. CASE Declines(c) BY <1>7, <1>16 DEF Declines
<1>17. CASE Claims2(c)
  <2>1. /\ UNCHANGED <<wf, restarts>> /\ row.status = "hitl_2" /\ row'.error = row.error
        /\ req'[c].pc \in {"edit2", "send2"}
    BY <1>17 DEF Claims2
  <2> QED BY <1>2, <1>5, <2>1
<1>18. CASE Edits2(c) BY <1>7, <1>18 DEF Edits2
<1>19. CASE Sends2(c)
  <2>1. /\ UNCHANGED <<row, restarts, Inst.pc, Inst.round, Inst.gates, Inst.err>> /\ req'[c].pc \in {"idle", "undo2"}
        /\ req[c].pc \in Sending2
    BY <1>19 DEF Sends2
  <2> QED BY <1>2, <2>1
<1>20. CASE Undoes2(c)
  <2>1. /\ UNCHANGED <<wf, restarts>> /\ req[c].pc \in Sending2 /\ req'[c].pc = "idle" /\ row'.error = row.error
    BY <1>20 DEF Undoes2
  <2> QED BY <1>2, <2>1
<1>21. CASE Saves(c) BY <1>7, <1>21 DEF Saves
<1>22. CASE Rereads(c) BY <1>7, <1>22 DEF Rereads
<1>23. CASE ReadsFailure(c)
  <2>1. restarts' <= 1 => restarts = 0 BY <1>0, <1>23 DEF ReadsFailure
  <2>2. restarts' # 0 BY <1>0, <1>23 DEF ReadsFailure
  <2> QED BY <1>2, <1>23, <2>1, <2>2 DEF ReadsFailure
<1>24. CASE ClaimsRestart(c)
  <2>1. restarts # 0 BY <1>6, <1>24 DEF ClaimsRestart
  <2> QED BY <1>2, <1>24, <2>1 DEF ClaimsRestart
<1>25. CASE Restarts(c)
  <2>1. restarts # 0 BY <1>6, <1>25 DEF Restarts
  <2> QED BY <1>2, <1>25, <2>1 DEF Restarts
<1>26. CASE UndoesRestart(c)
  <2>1. restarts # 0 BY <1>6, <1>26 DEF UndoesRestart
  <2> QED BY <1>2, <1>26, <2>1 DEF UndoesRestart
<1> HIDE DEF Opened, Lost, Told, Back
<1> QED BY <1>0, <1>8, <1>9, <1>10, <1>11, <1>12, <1>13, <1>14, <1>15, <1>16, <1>17, <1>18, <1>19, <1>20,
           <1>21, <1>22, <1>23, <1>24, <1>25, <1>26 DEF Handled

-----------------------------------------------------------------------------
(* The theorems about the orderly desk. *)

\* What is asked of the desk: one request at a time and one decision for a gate seen open, the
\* article saved or its post read again at the second gate only, and a name for every client.
Orderly == OrderlyDesk /\ ~LateEdits /\ Nobody \notin Clients

OrderInv == Tracked /\ RoundCap /\ SeenInv /\ RecordInv /\ CheckInv /\ CountInv /\ ReopenInv

\* The inductive invariant holds at the start, and every step keeps it.
LEMMA OrderInit == Init /\ TypeOK /\ StatusTracksStep /\ RoundCap => OrderInv
<1> SUFFICES ASSUME Init, TypeOK, StatusTracksStep, RoundCap PROVE OrderInv OBVIOUS
<1>1. /\ Inst = [NewInstance(NoRescue) EXCEPT !.pc = "none"]
      /\ \A c \in Clients : req[c].pc = "idle"
  BY OneSite DEF Init, Inst, IdleRequest
<1>2. /\ Inst.pc = "none" /\ In1 = <<>> /\ In2 = <<>> /\ Inst.round = 0 /\ Inst.err = "none"
  BY <1>1 DEF NewInstance, NoRescue, In1, In2, Gates
<1>3. /\ row.status = "none" /\ row.d2 = NoDecision /\ row.round = 0 /\ row.error = "none"
      /\ decided = 0 /\ restarts = 0 /\ live = 0 /\ log = NoLog
  BY DEF Init
<1>4. Alone /\ OneDecision
  BY <1>1, <1>2, <1>3 DEF Alone, OneDecision, Acting, AtHitl1, Sending2, Reading2
<1>5. SeenInv /\ RecordInv /\ CheckInv
  BY <1>1, <1>2, <1>3 DEF SeenInv, RecordInv, CheckInv, Approving, Sending2, Reading2, PublishedWasSeen,
     ApprovalWasChecked, NoDecision, NoLog, Nobody
<1>6. CountInv /\ ReopenInv
  BY <1>1, <1>2, <1>3 DEF CountInv, ReopenInv, AtHitl1, Sending2, Reading2, RestartPcs, RoundCap
<1> QED BY <1>4, <1>5, <1>6 DEF OrderInv, Tracked

LEMMA OrderStep ==
  ASSUME Orderly
  PROVE  OrderInv /\ TypeOK' /\ StatusTracksStep' /\ RoundCap' /\ [Next]_vars => OrderInv'
<1> SUFFICES ASSUME OrderInv, TypeOK', StatusTracksStep', RoundCap', [Next]_vars PROVE OrderInv' OBVIOUS
<1> USE DEF OrderInv, Tracked
<1>1. ASSUME NEW c \in Clients, Handle(c) PROVE OrderInv'
  BY <1>1, HandlerIsOneDecision, HandlerKeepsSeen, HandlerKeepsRecord, HandlerKeepsCount, HandlerKeepsReopen
  DEF Orderly
<1>2. ASSUME Step(Site) \/ Fail(Site) PROVE OrderInv'
  BY <1>2, StepIsOneDecision, StepKeepsSeen, StepKeepsRecord, StepKeepsCount, StepKeepsReopen
<1>3. CASE UNCHANGED vars
  <2>1. UNCHANGED <<row, drafts, wf, req, live, log, seen, decided, restarts>> BY <1>3 DEF vars
  <2>2. Alone' /\ OneDecision' BY <2>1 DEF Alone, OneDecision, Acting, Inst, In1, In2
  <2>3. SeenInv'
    <3>1. UNCHANGED <<Shown, Approving>> BY <2>1, SameTexts DEF Approving, Inst, In2
    <3> QED BY <2>1, <3>1 DEF SeenInv, Inst, PublishedWasSeen
  <2>4. RecordInv' /\ CheckInv'
    BY <2>1 DEF RecordInv, CheckInv, Approving, ApprovalWasChecked, Named, Inst, In2
  <2>5. CountInv' BY <2>1 DEF CountInv, Inst, In2
  <2>6. ReopenInv' BY <2>1 DEF ReopenInv, Inst
  <2> QED BY <2>2, <2>3, <2>4, <2>5, <2>6
<1> QED BY <1>1, <1>2, <1>3, OneSite DEF Next

LEMMA DeskIsOrdered == ASSUME Orderly PROVE Spec => []OrderInv
<1>1. Init /\ TypeOK /\ StatusTracksStep /\ RoundCap => OrderInv BY OrderInit
<1>2. OrderInv /\ TypeOK' /\ StatusTracksStep' /\ RoundCap' /\ [Next]_vars => OrderInv' BY OrderStep
<1> QED BY <1>1, <1>2, TypeCorrect, StatusIsTrue, RevisionsAreCapped, PTL DEF Spec

\* What the CMS shows was on the screen of a reviewer who approved it, or is that reviewer's
\* own edit.
THEOREM PublishedTextWasSeen == ASSUME Orderly PROVE Spec => []PublishedWasSeen
<1>1. OrderInv => PublishedWasSeen BY DEF OrderInv, SeenInv
<1> QED BY <1>1, DeskIsOrdered, PTL

\* A published run, and the compliance log, name the reviewer who approved it.
THEOREM ApprovalIsOnRecord == ASSUME Orderly PROVE Spec => []ApproverOnRecord
<1>1. OrderInv => ApproverOnRecord BY DEF OrderInv, RecordInv, Named, ApproverOnRecord
<1> QED BY <1>1, DeskIsOrdered, PTL

\* Through the first restart: an approval was validated, row and instance count the same
\* revisions, and a target mismatch is restarted from a gate that the instance has opened.
THEOREM SecondGateIsInOrder == ASSUME Orderly PROVE Spec => [](restarts <= 1 => GateIsInOrder)
<1>1. OrderInv => (restarts <= 1 => GateIsInOrder)
  <2> SUFFICES ASSUME OrderInv, restarts <= 1 PROVE GateIsInOrder OBVIOUS
  <2>1. ApprovalWasChecked BY DEF OrderInv, CheckInv
  <2>2. CountersAgree BY OneSite DEF OrderInv, Tracked, CountInv, CountersAgree, At, Inst
  <2>3. MismatchReopensGate BY OneSite DEF OrderInv, Tracked, ReopenInv, MismatchReopensGate, Inst
  <2> QED BY <2>1, <2>2, <2>3 DEF GateIsInOrder
<1> QED BY <1>1, DeskIsOrdered, PTL
=============================================================================
