---------------------------- MODULE RunStream_proofs ----------------------------
(***************************************************************************)
(* Proofs about RunStream, for any number of emitters, viewers and events, *)
(* and any capacity of the replay buffer: what the hub accepted is kept,   *)
(* the queue of the log is in order and has its alarm, and a viewer misses *)
(* no milestone.                                                           *)
(***************************************************************************)
EXTENDS RunStream, WellFoundedInduction, TLAPS

\* What Append, \o, Tail and the empty sequence do to the set of elements.
LEMMA ToSetAppend ==
  ASSUME NEW S, NEW s \in Seq(S), NEW x \in S
  PROVE  ToSet(Append(s, x)) = ToSet(s) \cup {x}
<1> DEFINE t == Append(s, x)
<1>1. Len(t) = Len(s) + 1 /\ DOMAIN t = 1 .. Len(s) + 1 /\ DOMAIN s = 1 .. Len(s) /\ Len(s) \in Nat
  OBVIOUS
<1>2. t[Len(s) + 1] = x /\ \A i \in 1 .. Len(s) : t[i] = s[i]
  OBVIOUS
<1> QED BY <1>1, <1>2 DEF ToSet

LEMMA ToSetConcat ==
  ASSUME NEW S, NEW s \in Seq(S), NEW t \in Seq(S)
  PROVE  ToSet(s \o t) = ToSet(s) \cup ToSet(t)
<1> DEFINE u == s \o t
<1>1. /\ DOMAIN u = 1 .. Len(s) + Len(t) /\ DOMAIN s = 1 .. Len(s) /\ DOMAIN t = 1 .. Len(t)
      /\ Len(s) \in Nat /\ Len(t) \in Nat
  OBVIOUS
<1>2. \A i \in 1 .. Len(s) : u[i] = s[i]
  OBVIOUS
<1>3. \A i \in 1 .. Len(t) : u[Len(s) + i] = t[i] /\ Len(s) + i \in DOMAIN u
  OBVIOUS
<1>4. ASSUME NEW i \in DOMAIN u, i \notin DOMAIN s
      PROVE  i - Len(s) \in DOMAIN t /\ u[i] = t[i - Len(s)]
  <2> DEFINE j == i - Len(s)
  <2>1. i \in Nat /\ j \in 1 .. Len(t) /\ Len(s) + j = i BY <1>1, <1>4
  <2> QED BY <1>1, <1>3, <2>1
<1>5. \A i \in DOMAIN u : u[i] \in ToSet(s) \cup ToSet(t) BY <1>1, <1>2, <1>4 DEF ToSet
<1>6. \A i \in DOMAIN s : s[i] \in ToSet(u) BY <1>1, <1>2 DEF ToSet
<1>7. \A i \in DOMAIN t : t[i] \in ToSet(u) BY <1>1, <1>3 DEF ToSet
<1> QED BY <1>5, <1>6, <1>7 DEF ToSet

LEMMA ToSetTail ==
  ASSUME NEW S, NEW s \in Seq(S), s # <<>>
  PROVE  ToSet(Tail(s)) \subseteq ToSet(s)
<1>1. \A i \in DOMAIN Tail(s) : i + 1 \in DOMAIN s /\ Tail(s)[i] = s[i + 1]
  OBVIOUS
<1> QED BY <1>1 DEF ToSet

LEMMA ToSetEmpty == ToSet(<<>>) = {}
BY DEF ToSet

\* What is left to do of a call: a suffix of one of Handle's plans.
Shapes == {<<>>, <<"broadcast">>, <<"enqueue", "broadcast">>, <<"persist", "enqueue", "broadcast">>}
CallsAreUnderWay ==
  \A e \in Emitters :
    call[e].todo \in Shapes /\ (call[e].todo # <<>> => call[e].event \in Events)

\* A shape is a sequence of phases, and so is what remains of it.
LEMMA ShapesType == Shapes \subseteq Seq(Phases)
BY DEF Shapes, Phases

LEMMA TailShape ==
  ASSUME NEW s \in Shapes, s # <<>>
  PROVE  /\ Len(s) = 1 => Head(s) = "broadcast"
         /\ Len(s) # 1 => Tail(s) \in Shapes /\ "broadcast" \in ToSet(Tail(s))
         /\ "broadcast" \in ToSet(s)
         /\ Head(s) = "persist" => Len(s) # 1
<1>0. \A x \in {s, Tail(s)} : ToSet(x) = {x[i] : i \in DOMAIN x} BY DEF ToSet
<1>1. CASE s = <<"broadcast">> BY <1>1, <1>0
<1>2. CASE s = <<"enqueue", "broadcast">> BY <1>2, <1>0 DEF Shapes
<1>3. CASE s = <<"persist", "enqueue", "broadcast">> BY <1>3, <1>0 DEF Shapes
<1> QED BY <1>1, <1>2, <1>3 DEF Shapes

\* A set of numbers has a least one, and a bounded one a largest.
LEMMA LeastNatural ==
  ASSUME NEW S \in SUBSET Nat, S # {}
  PROVE  \E n \in S : \A m \in S : n <= m
<1>1. PICK n \in S : \A m \in S : ~ (<<m, n>> \in OpToRel(<, Nat))
  BY NatLessThanWellFounded, WFMin
<1>2. ASSUME NEW m \in S PROVE n <= m
  <2>1. m \in Nat /\ n \in Nat OBVIOUS
  <2>2. m < n => <<m, n>> \in OpToRel(<, Nat) BY <2>1 DEF OpToRel
  <2>3. ~ (m < n) BY <1>1, <2>2, Zenon
  <2> QED BY <2>1, <2>3
<1> QED BY <1>2

LEMMA MaxOfBounded ==
  ASSUME NEW b \in Nat, NEW S \in SUBSET (0 .. b), S # {}
  PROVE  Max(S) \in S /\ \A m \in S : m <= Max(S)
<1> DEFINE T == {b - i : i \in S}
<1>1. \A i \in S : i \in Nat /\ b - i \in Nat OBVIOUS
<1>2. T \in SUBSET Nat BY <1>1
<1>3. T # {} OBVIOUS
<1>4. PICK t \in T : \A u \in T : t <= u BY <1>2, <1>3, LeastNatural
<1>5. PICK n \in S : t = b - n BY <1>4
<1>6. \A m \in S : b - n <= b - m BY <1>4, <1>5
<1>7. \A m \in S : m <= n BY <1>1, <1>6
<1> QED BY <1>7 DEF Max

\* The table has a last number.
TableIsBounded == \E b \in Nat : \A r \in table : r.seq <= b

\* A queued row carries a number that was given out, with the event that got it.
Numbered(r) == r.seq < seq /\ r.event = accepted[r.seq + 1]
QueueIsNumbered == seq = Len(accepted) /\ \A r \in Queued : Numbered(r)

\* The inductive invariant of the types.
TypeInv == TypeOK /\ CallsAreUnderWay /\ TableIsBounded /\ QueueIsNumbered

\* The number a review row takes is a number, whatever the table holds.
LEMMA NextInTableType ==
  ASSUME TypeOK, TableIsBounded
  PROVE  NextInTable \in Nat
<1>1. CASE table = {} BY <1>1 DEF NextInTable
<1>2. CASE table # {}
  <2> DEFINE S == {t.seq : t \in table}
  <2>1. PICK b \in Nat : \A r \in table : r.seq <= b BY DEF TableIsBounded
  <2>2. S \in SUBSET (0 .. b) /\ S # {} BY <1>2, <2>1 DEF TypeOK
  <2>3. Max(S) \in S BY <2>1, <2>2, MaxOfBounded
  <2> QED BY <1>2, <2>2, <2>3 DEF NextInTable
<1> QED BY <1>1, <1>2

\* The type of a call, kept when one of its phases is done.
Calls == [event : Events \cup {0}, kind : Kinds, todo : Seq(Phases)]

LEMMA DoneType ==
  ASSUME TypeOK, CallsAreUnderWay, NEW e \in Emitters, call[e].todo # <<>>, Done(e)
  PROVE  call' \in [Emitters -> Calls] /\ CallsAreUnderWay'
<1> DEFINE c == call[e]
           d == Rest(c)
<1>1. call' = [call EXCEPT ![e] = d] BY DEF Done
<1>2. c.todo \in Shapes /\ c.event \in Events /\ c.kind \in Kinds /\ call \in [Emitters -> Calls]
  BY DEF TypeOK, CallsAreUnderWay, Calls
<1>3. d \in [event : Events \cup {0}, kind : Kinds, todo : Shapes] /\ (d.todo # <<>> => d.event \in Events)
  <2>1. CASE Len(c.todo) = 1 BY <2>1 DEF Idle, Shapes, Kinds, Rest
  <2>2. CASE Len(c.todo) # 1
    <3>1. Tail(c.todo) \in Shapes BY <1>2, <2>2, TailShape
    <3>2. d = [event |-> c.event, kind |-> c.kind, todo |-> Tail(c.todo)] BY <1>2, <2>2 DEF Rest, Calls
    <3> HIDE DEF d
    <3> QED BY <1>2, <3>1, <3>2
  <2> QED BY <2>1, <2>2
<1> HIDE DEF d
<1>4. d \in Calls BY <1>3, ShapesType DEF Calls
<1>5. call' \in [Emitters -> Calls] BY <1>1, <1>2, <1>4
<1>6. CallsAreUnderWay' BY <1>1, <1>2, <1>3 DEF CallsAreUnderWay
<1> QED BY <1>5, <1>6

\* Every kind of event is handled by one of the plans.
LEMMA HandleShape == \A kind : Handle(kind) \in Shapes
BY DEF Handle, Shapes

\* Rows that wait or were taken are rows.
LEMMA QueuedType ==
  ASSUME TypeOK
  PROVE  Queued \subseteq Rows
BY DEF TypeOK, Queued, ToSet

\* The types hold at the start.
LEMMA TypeInit == Init => TypeInv
<1> SUFFICES ASSUME Init PROVE TypeInv
  OBVIOUS
<1>1. call \in [Emitters -> Calls] BY DEF Init, Idle, Calls, Kinds
<1>2. emitted \in 0 .. MaxEvents /\ buffer = <<>> /\ Len(buffer) <= BufferSize
  BY StreamAssumption DEF Init
<1>3. viewer \in [Viewers -> [open : BOOLEAN, got : SUBSET Events]] BY DEF Init, Closed
<1>4. TypeOK
  <2>1. pending \in Seq(Rows) /\ snapshot \in Seq(Rows) /\ accepted \in Seq(Events) /\ buffer \in Seq(Events)
    BY DEF Init
  <2>2. table \subseteq [seq : Nat, event : Events \cup {Review}] /\ lost \subseteq Nat
    BY DEF Init
  <2>3. seq \in Nat /\ failures \in Nat /\ crashes \in Nat /\ reviews \in Nat /\ alarm \in BOOLEAN
        /\ flush \in {"idle", "insert", "requeue"}
    BY DEF Init
  <2> QED BY <1>1, <1>2, <1>3, <2>1, <2>2, <2>3 DEF TypeOK, Calls
<1>5. CallsAreUnderWay BY DEF Init, CallsAreUnderWay, Idle, Shapes
<1>6. TableIsBounded BY DEF Init, TableIsBounded
<1>7. QueueIsNumbered BY ToSetEmpty DEF Init, QueueIsNumbered, Queued
<1> QED BY <1>4, <1>5, <1>6, <1>7 DEF TypeInv

\* A batch insert leaves a bounded table of rows.
LEMMA InsertedType ==
  ASSUME TypeInv
  PROVE  /\ Inserted(snapshot) \subseteq [seq : Nat, event : Events \cup {Review}]
         /\ \E b \in Nat : \A r \in Inserted(snapshot) : r.seq <= b
<1>1. ToSet(snapshot) \subseteq Rows BY DEF TypeInv, TypeOK, ToSet
<1>2. \A r \in ToSet(snapshot) : r.seq < seq BY DEF TypeInv, QueueIsNumbered, Numbered, Queued
<1>3. PICK b \in Nat : \A r \in table : r.seq <= b BY DEF TypeInv, TableIsBounded
<1>4. \A r \in Inserted(snapshot) : r \in ToSet(snapshot) \/ r \in table BY DEF Inserted
<1>5. \A r \in Inserted(snapshot) : r.seq <= b + seq
  BY <1>1, <1>2, <1>3, <1>4 DEF Rows, TypeInv, TypeOK
<1>6. Inserted(snapshot) \subseteq [seq : Nat, event : Events \cup {Review}]
  BY <1>1, <1>4 DEF Rows, TypeInv, TypeOK
<1>7. b + seq \in Nat BY <1>3 DEF TypeInv, TypeOK
<1> QED BY <1>5, <1>6, <1>7

\* Whatever leaves the numbers alone, and queues no row that was not queued.
LEMMA QueueShrinks ==
  ASSUME QueueIsNumbered, Queued' \subseteq Queued, UNCHANGED <<seq, accepted>>
  PROVE  QueueIsNumbered'
BY DEF QueueIsNumbered, Numbered

LEMMA TypeStep == TypeInv /\ [Next]_vars => TypeInv'
<1> SUFFICES ASSUME TypeInv, [Next]_vars PROVE TypeInv'
  OBVIOUS
<1> USE DEF TypeInv
<1>0. call \in [Emitters -> Calls] BY DEF TypeOK, Calls
<1>1. ASSUME NEW e \in Emitters, NEW kind \in Kinds, Post(e, kind) PROVE TypeInv'
  <2>1. emitted + 1 \in Events /\ emitted' \in 0 .. MaxEvents
    BY <1>1, StreamAssumption DEF Post, TypeOK, Events
  <2> DEFINE c == [event |-> emitted + 1, kind |-> kind, todo |-> Handle(kind)]
  <2>2. c \in [event : Events \cup {0}, kind : Kinds, todo : Shapes] BY <2>1, HandleShape
  <2>3. c \in Calls BY <2>2, ShapesType DEF Calls
  <2>4. call' = [call EXCEPT ![e] = c] BY <1>1 DEF Post
  <2>5. CallsAreUnderWay' BY <2>1, <2>2, <2>4, <1>0 DEF CallsAreUnderWay
  <2>6. TableIsBounded' BY <1>1 DEF Post, TableIsBounded
  <2>7. QueueIsNumbered' BY <1>1, QueueShrinks DEF Post, Queued
  <2>8. TypeOK' BY <1>0, <1>1, <2>1, <2>3, <2>4 DEF Post, TypeOK, Calls
  <2> QED BY <2>5, <2>6, <2>7, <2>8
<1>2. ASSUME NEW e \in Emitters, Repost(e) PROVE TypeInv'
  <2> DEFINE c == IF call[e].kind = "thinking" THEN Idle ELSE [call[e] EXCEPT !.todo = Handle("milestone")]
  <2>1. call' = [call EXCEPT ![e] = c] BY <1>2 DEF Repost
  <2>2. c \in [event : Events \cup {0}, kind : Kinds, todo : Shapes] /\ (c.todo # <<>> => c.event \in Events)
    BY <1>0, <1>2, HandleShape DEF Repost, Calls, Idle, Shapes, Kinds
  <2> HIDE DEF c
  <2>3. c \in Calls BY <2>2, ShapesType DEF Calls
  <2>4. CallsAreUnderWay' BY <1>0, <2>1, <2>2 DEF CallsAreUnderWay
  <2>5. TableIsBounded' BY <1>2 DEF Repost, TableIsBounded
  <2>6. QueueIsNumbered' BY <1>2, QueueShrinks DEF Repost, Queued
  <2>7. TypeOK' BY <1>0, <1>2, <2>1, <2>3 DEF Repost, TypeOK, Calls
  <2> QED BY <2>4, <2>5, <2>6, <2>7
<1>3. ASSUME NEW e \in Emitters, Persist(e) PROVE TypeInv'
  <2>1. call[e].todo # <<>> /\ call[e].event \in Events BY <1>3 DEF Persist, Due, CallsAreUnderWay
  <2>2. buffer' \in Seq(Events) /\ Len(buffer') <= BufferSize
    <3> DEFINE b == Append(buffer, call[e].event)
    <3>1. b \in Seq(Events) /\ Len(b) = Len(buffer) + 1 BY <2>1 DEF TypeOK
    <3>2. buffer' = IF Len(b) > BufferSize THEN Tail(b) ELSE b BY <1>3 DEF Persist, Trimmed
    <3>3. Len(buffer) \in Nat /\ Len(buffer) <= BufferSize BY DEF TypeOK
    <3>4. Len(Tail(b)) = Len(b) - 1 /\ Tail(b) \in Seq(Events) BY <3>1, <3>3
    <3> HIDE DEF b
    <3> QED BY <3>1, <3>2, <3>3, <3>4, StreamAssumption
  <2>3. call' \in [Emitters -> Calls] /\ CallsAreUnderWay' BY <1>3, <2>1, DoneType DEF Persist
  <2>4. TableIsBounded' BY <1>3 DEF Persist, TableIsBounded
  <2>5. QueueIsNumbered' BY <1>3, QueueShrinks DEF Persist, Queued
  <2>6. TypeOK' BY <1>3, <2>2, <2>3 DEF Persist, TypeOK, Calls
  <2> QED BY <2>3, <2>4, <2>5, <2>6
<1>4. ASSUME NEW e \in Emitters, Enqueue(e) PROVE TypeInv'
  <2>1. call[e].todo # <<>> /\ call[e].event \in Events BY <1>4 DEF Enqueue, Due, CallsAreUnderWay
  <2>2. call' \in [Emitters -> Calls] /\ CallsAreUnderWay' BY <1>4, <2>1, DoneType DEF Enqueue
  <2>3. TableIsBounded' BY <1>4 DEF Enqueue, TableIsBounded
  <2>4. CASE UNCHANGED <<seq, pending, alarm, accepted>>
    <3>1. QueueIsNumbered' BY <1>4, <2>4, QueueShrinks DEF Enqueue, Queued
    <3>2. TypeOK' BY <1>4, <2>2, <2>4 DEF Enqueue, TypeOK, Calls
    <3> QED BY <2>2, <2>3, <3>1, <3>2
  <2>5. CASE /\ pending' = Append(pending, Row(seq, call[e].event)) /\ seq' = seq + 1
             /\ alarm' = TRUE /\ accepted' = Append(accepted, call[e].event)
    <3> DEFINE r == Row(seq, call[e].event)
    <3>1. r \in Rows /\ r.seq = seq /\ r.event = call[e].event BY <2>1 DEF TypeOK, Rows, Row
    <3> HIDE DEF r
    <3>2. pending' \in Seq(Rows) BY <2>5, <3>1 DEF TypeOK, r
    <3>3. accepted' \in Seq(Events) /\ Len(accepted') = Len(accepted) + 1 BY <2>1, <2>5 DEF TypeOK
    <3>4. TypeOK' BY <1>4, <2>2, <2>5, <3>2, <3>3 DEF Enqueue, TypeOK, Calls
    <3>5. Queued' = Queued \cup {r}
      <4>1. ToSet(pending') = ToSet(pending) \cup {r} BY <2>5, <3>1, ToSetAppend DEF TypeOK, r
      <4> QED BY <1>4, <4>1 DEF Enqueue, Queued
    <3>6. \A n \in 1 .. seq : accepted'[n] = accepted[n]
      BY <2>1, <2>5 DEF TypeOK, QueueIsNumbered
    <3>7. accepted'[seq + 1] = call[e].event BY <2>1, <2>5 DEF TypeOK, QueueIsNumbered
    <3>8. \A q \in Queued : q.seq \in Nat BY QueuedType DEF Rows
    <3>9. QueueIsNumbered'
      BY <2>5, <3>1, <3>3, <3>5, <3>6, <3>7, <3>8 DEF QueueIsNumbered, Numbered, TypeOK
    <3> QED BY <2>2, <2>3, <3>4, <3>9
  <2> QED BY <1>4, <2>4, <2>5 DEF Enqueue
<1>5. ASSUME NEW e \in Emitters, Broadcast(e) PROVE TypeInv'
  <2>1. call[e].todo # <<>> /\ call[e].event \in Events BY <1>5 DEF Broadcast, Due, CallsAreUnderWay
  <2>2. viewer' \in [Viewers -> [open : BOOLEAN, got : SUBSET Events]]
    BY <1>5, <2>1 DEF Broadcast, TypeOK
  <2>3. call' \in [Emitters -> Calls] /\ CallsAreUnderWay' BY <1>5, <2>1, DoneType DEF Broadcast
  <2>4. TableIsBounded' BY <1>5 DEF Broadcast, TableIsBounded
  <2>5. QueueIsNumbered' BY <1>5, QueueShrinks DEF Broadcast, Queued
  <2>6. TypeOK' BY <1>5, <2>2, <2>3 DEF Broadcast, TypeOK, Calls
  <2> QED BY <2>3, <2>4, <2>5, <2>6
<1>6. CASE AlarmTake
  <2>1. CallsAreUnderWay' BY <1>6 DEF AlarmTake, CallsAreUnderWay
  <2>2. TableIsBounded' BY <1>6 DEF AlarmTake, TableIsBounded
  <2>3. Queued' \subseteq Queued
    <3>1. CASE pending = <<>> BY <1>6, <3>1 DEF AlarmTake, Queued
    <3>2. CASE pending # <<>> BY <1>6, <3>2, ToSetEmpty DEF AlarmTake, Queued
    <3> QED BY <3>1, <3>2
  <2>4. QueueIsNumbered' BY <1>6, <2>3, QueueShrinks DEF AlarmTake
  <2>5. pending' \in Seq(Rows) /\ snapshot' \in Seq(Rows) /\ flush' \in {"idle", "insert", "requeue"}
    <3>1. pending \in Seq(Rows) /\ snapshot \in Seq(Rows) /\ flush \in {"idle", "insert", "requeue"}
      BY DEF TypeOK
    <3>2. CASE pending = <<>> BY <1>6, <3>1, <3>2 DEF AlarmTake
    <3>3. CASE pending # <<>> BY <1>6, <3>1, <3>3 DEF AlarmTake
    <3> QED BY <3>2, <3>3
  <2>6. TypeOK' BY <1>6, <2>5 DEF AlarmTake, TypeOK
  <2> QED BY <2>1, <2>2, <2>4, <2>6
<1>7. CASE AlarmInsert
  <2>1. CallsAreUnderWay' BY <1>7 DEF AlarmInsert, CallsAreUnderWay
  <2>2. TableIsBounded' BY <1>7, InsertedType DEF AlarmInsert, TableIsBounded
  <2>3. Queued' \subseteq Queued BY <1>7, ToSetEmpty DEF AlarmInsert, QueueAfterInsert, Queued
  <2>4. QueueIsNumbered' BY <1>7, <2>3, QueueShrinks DEF AlarmInsert
  <2>5. TypeOK' BY <1>7, InsertedType DEF AlarmInsert, QueueAfterInsert, TypeOK
  <2> QED BY <2>1, <2>2, <2>4, <2>5
<1>8. CASE AlarmInsertFails
  <2>1. CallsAreUnderWay' BY <1>8 DEF AlarmInsertFails, CallsAreUnderWay
  <2>2. TableIsBounded' BY <1>8, InsertedType DEF AlarmInsertFails, TableIsBounded
  <2>3. QueueIsNumbered' BY <1>8, QueueShrinks DEF AlarmInsertFails, Queued
  <2>4. table' \subseteq [seq : Nat, event : Events \cup {Review}]
    BY <1>8, InsertedType DEF AlarmInsertFails, TypeOK
  <2>5. TypeOK' BY <1>8, <2>4 DEF AlarmInsertFails, TypeOK
  <2> QED BY <2>1, <2>2, <2>3, <2>5
<1>9. CASE AlarmRequeue
  <2>1. CallsAreUnderWay' BY <1>9 DEF AlarmRequeue, CallsAreUnderWay
  <2>2. TableIsBounded' BY <1>9 DEF AlarmRequeue, TableIsBounded
  <2>3. pending' = snapshot \o pending /\ snapshot' = <<>> BY <1>9 DEF AlarmRequeue, Requeued
  <2>4. ToSet(pending') = ToSet(snapshot) \cup ToSet(pending) BY <2>3, ToSetConcat DEF TypeOK
  <2>5. Queued' \subseteq Queued BY <2>3, <2>4, ToSetEmpty DEF Queued
  <2>6. QueueIsNumbered' BY <1>9, <2>5, QueueShrinks DEF AlarmRequeue
  <2>7. pending' \in Seq(Rows) BY <2>3 DEF TypeOK
  <2>8. TypeOK' BY <1>9, <2>3, <2>7 DEF AlarmRequeue, AlarmAfterFailure, TypeOK
  <2> QED BY <2>1, <2>2, <2>6, <2>8
<1>10. ASSUME NEW v \in Viewers, Open(v) PROVE TypeInv'
  <2>1. ToSet(buffer) \subseteq Events BY DEF ToSet, TypeOK
  <2>2. CallsAreUnderWay' BY <1>10 DEF Open, CallsAreUnderWay
  <2>3. TableIsBounded' BY <1>10 DEF Open, TableIsBounded
  <2>4. QueueIsNumbered' BY <1>10, QueueShrinks DEF Open, Queued
  <2>5. TypeOK' BY <1>10, <2>1 DEF Open, TypeOK
  <2> QED BY <2>2, <2>3, <2>4, <2>5
<1>11. ASSUME NEW v \in Viewers, Close(v) PROVE TypeInv'
  <2>2. CallsAreUnderWay' BY <1>11 DEF Close, CallsAreUnderWay
  <2>3. TableIsBounded' BY <1>11 DEF Close, TableIsBounded
  <2>4. QueueIsNumbered' BY <1>11, QueueShrinks DEF Close, Queued
  <2>5. TypeOK' BY <1>11 DEF Close, Closed, TypeOK
  <2> QED BY <2>2, <2>3, <2>4, <2>5
<1>12. CASE WriteReviewEvent
  <2>1. NextInTable \in Nat BY NextInTableType
  <2>2. Row(NextInTable, Review) \in [seq : Nat, event : Events \cup {Review}] BY <2>1 DEF Row
  <2>3. PICK b \in Nat : \A r \in table : r.seq <= b BY DEF TableIsBounded
  <2>4. \A r \in table' : r.seq <= b + NextInTable
    BY <1>12, <2>1, <2>3 DEF WriteReviewEvent, Row, TypeOK
  <2>5. b + NextInTable \in Nat BY <2>1
  <2>6. TableIsBounded' BY <2>4, <2>5 DEF TableIsBounded
  <2>7. CallsAreUnderWay' BY <1>12 DEF WriteReviewEvent, CallsAreUnderWay
  <2>8. QueueIsNumbered' BY <1>12, QueueShrinks DEF WriteReviewEvent, Queued
  <2>9. TypeOK' BY <1>12, <2>2 DEF WriteReviewEvent, TypeOK
  <2> QED BY <2>6, <2>7, <2>8, <2>9
<1>13. CASE Crash
  <2> DEFINE c(e) == [call[e] EXCEPT !.todo = <<>>]
  <2>1. \A e \in Emitters : c(e) \in Calls /\ c(e).todo = <<>>
    <3> TAKE e \in Emitters
    <3>1. call[e] \in Calls /\ <<>> \in Seq(Phases) BY <1>0
    <3>2. c(e) = [event |-> call[e].event, kind |-> call[e].kind, todo |-> <<>>] BY <3>1 DEF Calls
    <3> QED BY <3>1, <3>2 DEF Calls
  <2>2. call' = [e \in Emitters |-> c(e)] BY <1>13 DEF Crash
  <2>3. CallsAreUnderWay' BY <2>1, <2>2 DEF CallsAreUnderWay, Shapes
  <2>4. lost' \subseteq Nat
    <3>1. ToSet(snapshot) \subseteq Rows BY DEF ToSet, TypeOK
    <3> QED BY <1>13, <3>1 DEF Crash, TypeOK, Rows
  <2>5. call' \in [Emitters -> Calls] BY <2>1, <2>2
  <2>6. TableIsBounded' BY <1>13 DEF Crash, TableIsBounded
  <2>7. Queued' \subseteq Queued BY <1>13, ToSetEmpty DEF Crash, Queued
  <2>8. QueueIsNumbered' BY <1>13, <2>7, QueueShrinks DEF Crash
  <2>9. TypeOK' BY <1>13, <2>4, <2>5 DEF Crash, Closed, TypeOK, Calls
  <2> QED BY <2>3, <2>6, <2>8, <2>9
<1>14. CASE UNCHANGED vars
  <2>1. CallsAreUnderWay' /\ TableIsBounded' BY <1>14 DEF vars, CallsAreUnderWay, TableIsBounded
  <2>2. QueueIsNumbered' BY <1>14, QueueShrinks DEF vars, Queued
  <2>3. TypeOK' BY <1>14 DEF vars, TypeOK
  <2> QED BY <2>1, <2>2, <2>3
<1> QED BY <1>1, <1>2, <1>3, <1>4, <1>5, <1>6, <1>7, <1>8, <1>9, <1>10, <1>11, <1>12, <1>13, <1>14
     DEF Next, Serve, Alarm

-----------------------------------------------------------------------------
(* What the hub accepted is kept. *)

\* A row of the table that the review threads did not write carries its number's event.
TableIsNumbered == \A r \in table : r.event = Review \/ Numbered(r)

\* The inductive invariant of the log: the rows of the hub have the number of their event.
KeptInv == TypeInv /\ TableIsNumbered /\ AcceptedIsKept /\ (flush = "idle" => snapshot = <<>>)

\* The event of number n is in the log, queued, lost or its number is taken.
Lasts(n) ==
  \/ Row(n, accepted[n + 1]) \in table \cup Queued
  \/ n \in lost \/ Row(n, Review) \in table

\* A step that numbers nothing keeps what is kept, if no row goes but to the table, to
\* lost, or behind a row of the same number.
LEMMA KeptThrough ==
  ASSUME TypeInv, AcceptedIsKept, UNCHANGED <<seq, accepted>>,
         table \subseteq table', lost \subseteq lost',
         \A r \in Queued : r \in Queued' \cup table' \/ r.seq \in lost' \/ Row(r.seq, Review) \in table'
  PROVE  AcceptedIsKept'
<1> SUFFICES ASSUME NEW n \in 0 .. seq - 1 PROVE Lasts(n)'
  BY DEF AcceptedIsKept, Lasts
<1>1. Lasts(n) BY DEF AcceptedIsKept, Lasts
<1> DEFINE r == Row(n, accepted[n + 1])
<1>2. r.seq = n BY DEF Row
<1> QED BY <1>1, <1>2 DEF Lasts

\* A row of the snapshot that the table refuses is there already, or a review's is.
LEMMA InsertKeeps ==
  ASSUME KeptInv, NEW r \in ToSet(snapshot)
  PROVE  r \in Inserted(snapshot) \/ Row(r.seq, Review) \in Inserted(snapshot)
<1>1. r \in Rows /\ Numbered(r) BY QueuedType DEF KeptInv, TypeInv, QueueIsNumbered, Queued
<1>2. CASE \A t \in table : t.seq # r.seq BY <1>2 DEF Inserted
<1>3. ASSUME NEW t \in table, t.seq = r.seq PROVE t = r \/ t = Row(r.seq, Review)
  <2>1. t \in [seq : Nat, event : Events \cup {Review}] BY DEF KeptInv, TypeInv, TypeOK
  <2>2. t.event = Review \/ t.event = r.event BY <1>1, <1>3 DEF KeptInv, TableIsNumbered, Numbered
  <2> QED BY <1>1, <1>3, <2>1, <2>2 DEF Row, Rows
<1> QED BY <1>2, <1>3 DEF Inserted

\* Inserted rows keep the number of their event.
LEMMA InsertNumbered ==
  ASSUME KeptInv, UNCHANGED <<seq, accepted>>, table' \in {table, Inserted(snapshot)}
  PROVE  TableIsNumbered' /\ table \subseteq table'
<1>1. \A r \in table' : r \in table \/ r \in Queued BY DEF Inserted, Queued
<1> QED BY <1>1 DEF KeptInv, TypeInv, TableIsNumbered, QueueIsNumbered, Numbered, Inserted

\* Nothing was accepted at the start.
LEMMA KeptInit == Init => KeptInv
<1> SUFFICES ASSUME Init PROVE KeptInv
  OBVIOUS
<1>1. TypeInv BY TypeInit
<1> QED BY <1>1 DEF Init, KeptInv, TableIsNumbered, AcceptedIsKept

\* Every step keeps what was accepted: appends, flushes, failures and crashes.
LEMMA KeptStep == KeptInv /\ [Next]_vars => KeptInv'
<1> SUFFICES ASSUME KeptInv, [Next]_vars PROVE KeptInv'
  OBVIOUS
<1>0. TypeInv' BY TypeStep DEF KeptInv
<1> USE DEF KeptInv
<1>1. CASE UNCHANGED <<seq, accepted, table, lost, snapshot, pending, flush>>
  <2>1. TableIsNumbered' BY <1>1 DEF TableIsNumbered, Numbered
  <2>2. AcceptedIsKept' BY <1>1, KeptThrough DEF Queued
  <2> QED BY <1>0, <1>1, <2>1, <2>2
<1>2. ASSUME NEW e \in Emitters, Enqueue(e), ~UNCHANGED <<seq, pending, alarm, accepted>> PROVE KeptInv'
  <2> DEFINE r == Row(seq, call[e].event)
  <2>1. /\ pending' = Append(pending, r) /\ seq' = seq + 1
        /\ accepted' = Append(accepted, call[e].event)
        /\ UNCHANGED <<table, lost, snapshot, flush>>
    BY <1>2 DEF Enqueue
  <2>2. call[e].event \in Events BY <1>2 DEF TypeInv, CallsAreUnderWay, Enqueue, Due
  <2>3. r \in Rows BY <2>2 DEF TypeInv, TypeOK, Rows, Row
  <2>4. Queued' = Queued \cup {r}
    <3>1. ToSet(pending') = ToSet(pending) \cup {r} BY <2>1, <2>3, ToSetAppend DEF TypeInv, TypeOK
    <3> QED BY <2>1, <3>1 DEF Queued
  <2>5. seq \in Nat /\ seq = Len(accepted) /\ accepted \in Seq(Events)
    BY DEF TypeInv, TypeOK, QueueIsNumbered
  <2>6. \A n \in 0 .. seq - 1 : accepted'[n + 1] = accepted[n + 1] BY <2>1, <2>2, <2>5
  <2>7. accepted'[seq + 1] = call[e].event BY <2>1, <2>2, <2>5
  <2>8. TableIsNumbered'
    <3>1. \A t \in table : t.seq \in Nat BY DEF TypeInv, TypeOK
    <3> QED BY <2>1, <2>5, <2>6, <3>1 DEF TableIsNumbered, Numbered
  <2>9. ASSUME NEW n \in 0 .. seq' - 1 PROVE Lasts(n)'
    <3>1. CASE n = seq BY <2>1, <2>4, <2>7, <3>1 DEF Lasts
    <3>2. CASE n # seq
      <4>1. n \in 0 .. seq - 1 BY <2>1, <2>5, <3>2
      <4>2. Lasts(n) BY <4>1 DEF AcceptedIsKept, Lasts
      <4> QED BY <2>1, <2>4, <2>6, <4>1, <4>2 DEF Lasts
    <3> QED BY <3>1, <3>2
  <2>10. AcceptedIsKept' BY <2>9 DEF AcceptedIsKept, Lasts
  <2> QED BY <1>0, <2>1, <2>8, <2>10
<1>3. CASE AlarmTake
  <2>1. Queued' = Queued
    <3>1. snapshot = <<>> BY <1>3 DEF AlarmTake
    <3>2. CASE pending = <<>> BY <1>3, <3>2 DEF AlarmTake, Queued
    <3>3. CASE pending # <<>> BY <1>3, <3>1, <3>3, ToSetEmpty DEF AlarmTake, Queued
    <3> QED BY <3>2, <3>3
  <2>2. UNCHANGED <<seq, accepted, table, lost>> BY <1>3 DEF AlarmTake
  <2>3. TableIsNumbered' BY <2>2 DEF TableIsNumbered, Numbered
  <2>4. AcceptedIsKept' BY <2>1, <2>2, KeptThrough
  <2>5. flush' = "idle" => snapshot' = <<>>
    <3>1. CASE pending = <<>> BY <1>3, <3>1 DEF AlarmTake
    <3>2. CASE pending # <<>> BY <1>3, <3>2 DEF AlarmTake
    <3> QED BY <3>1, <3>2
  <2> QED BY <1>0, <2>3, <2>4, <2>5
<1>4. CASE AlarmInsert
  <2>1. UNCHANGED <<seq, accepted, lost, pending>> /\ table' = Inserted(snapshot) /\ snapshot' = <<>>
    BY <1>4 DEF AlarmInsert, QueueAfterInsert
  <2>2. TableIsNumbered' /\ table \subseteq table' BY <2>1, InsertNumbered
  <2>3. \A r \in Queued : r \in Queued' \cup table' \/ Row(r.seq, Review) \in table'
    BY <2>1, InsertKeeps DEF Queued
  <2>4. AcceptedIsKept' BY <2>1, <2>2, <2>3, KeptThrough
  <2> QED BY <1>0, <2>1, <2>2, <2>4
<1>5. CASE AlarmInsertFails
  <2>1. UNCHANGED <<seq, accepted, lost, pending, snapshot>> /\ table' \in {table, Inserted(snapshot)}
        /\ flush' = "requeue"
    BY <1>5 DEF AlarmInsertFails
  <2>2. TableIsNumbered' /\ table \subseteq table' BY <2>1, InsertNumbered
  <2>3. AcceptedIsKept' BY <2>1, <2>2, KeptThrough DEF Queued
  <2> QED BY <1>0, <2>1, <2>2, <2>3
<1>6. CASE AlarmRequeue
  <2>1. UNCHANGED <<seq, accepted, lost, table>> /\ pending' = snapshot \o pending /\ snapshot' = <<>>
    BY <1>6 DEF AlarmRequeue, Requeued
  <2>2. ToSet(pending') = ToSet(snapshot) \cup ToSet(pending) BY <2>1, ToSetConcat DEF TypeInv, TypeOK
  <2>3. Queued \subseteq Queued' BY <2>2 DEF Queued
  <2>4. TableIsNumbered' BY <2>1 DEF TableIsNumbered, Numbered
  <2>5. AcceptedIsKept' BY <2>1, <2>3, KeptThrough
  <2> QED BY <1>0, <2>1, <2>4, <2>5
<1>7. CASE WriteReviewEvent
  <2>1. UNCHANGED <<seq, accepted, lost, snapshot, pending, flush>>
        /\ table' = table \cup {Row(NextInTable, Review)}
    BY <1>7 DEF WriteReviewEvent
  <2>2. TableIsNumbered' BY <2>1 DEF TableIsNumbered, Numbered, Row
  <2>3. AcceptedIsKept' BY <2>1, KeptThrough DEF Queued
  <2> QED BY <1>0, <2>1, <2>2, <2>3
<1>8. CASE Crash
  <2>1. UNCHANGED <<seq, accepted, pending, table>> /\ snapshot' = <<>>
        /\ lost' = lost \cup {r.seq : r \in ToSet(snapshot)}
    BY <1>8 DEF Crash
  <2>2. \A r \in Queued : r \in Queued' \/ r.seq \in lost' BY <2>1 DEF Queued
  <2>3. TableIsNumbered' BY <2>1 DEF TableIsNumbered, Numbered
  <2>4. AcceptedIsKept' BY <2>1, <2>2, KeptThrough
  <2> QED BY <1>0, <2>1, <2>3, <2>4
<1>9. \/ UNCHANGED <<seq, accepted, table, lost, snapshot, pending, flush>>
      \/ \E e \in Emitters : Enqueue(e) /\ ~UNCHANGED <<seq, pending, alarm, accepted>>
      \/ AlarmTake \/ AlarmInsert \/ AlarmInsertFails \/ AlarmRequeue \/ WriteReviewEvent \/ Crash
  BY DEF Next, Serve, Alarm, Post, Repost, Persist, Enqueue, Broadcast, Open, Close, vars
<1> QED BY <1>1, <1>2, <1>3, <1>4, <1>5, <1>6, <1>7, <1>8, <1>9

-----------------------------------------------------------------------------
(* The queue is in order. *)

\* The rows of a queue have rising numbers.
InOrder(queue) == \A i, j \in DOMAIN queue : i < j => queue[i].seq < queue[j].seq

\* A suffix is in order, and so is a queue with a larger number appended.
LEMMA OrderOfSuffix ==
  ASSUME NEW s \in Seq(Rows), NEW t \in Seq(Rows), InOrder(s \o t)
  PROVE  InOrder(t)
<1> SUFFICES ASSUME NEW i \in DOMAIN t, NEW j \in DOMAIN t, i < j PROVE t[i].seq < t[j].seq
  BY DEF InOrder
<1> DEFINE u == s \o t
<1>1. /\ i + Len(s) \in DOMAIN u /\ j + Len(s) \in DOMAIN u
      /\ u[i + Len(s)] = t[i] /\ u[j + Len(s)] = t[j]
  OBVIOUS
<1>2. i \in Nat /\ j \in Nat /\ Len(s) \in Nat /\ i + Len(s) < j + Len(s) OBVIOUS
<1> QED BY <1>1, <1>2 DEF InOrder

LEMMA OrderOfAppend ==
  ASSUME NEW s \in Seq(Rows), InOrder(s), NEW r \in Rows, \A q \in ToSet(s) : q.seq < r.seq
  PROVE  InOrder(Append(s, r))
<1> DEFINE t == Append(s, r)
<1>1. DOMAIN t = 1 .. Len(s) + 1 /\ DOMAIN s = 1 .. Len(s) /\ Len(s) \in Nat OBVIOUS
<1>2. t[Len(s) + 1] = r /\ \A i \in 1 .. Len(s) : t[i] = s[i] OBVIOUS
<1> HIDE DEF t
<1>3. \A i \in DOMAIN s : s[i].seq < r.seq BY DEF ToSet
<1>4. ASSUME NEW i \in DOMAIN t, NEW j \in DOMAIN t, i < j PROVE t[i].seq < t[j].seq
  <2>1. i \in 1 .. Len(s) BY <1>1, <1>4
  <2>2. CASE j = Len(s) + 1 BY <1>1, <1>2, <1>3, <2>1, <2>2
  <2>3. CASE j \in 1 .. Len(s) BY <1>1, <1>2, <1>4, <2>1, <2>3 DEF InOrder
  <2> QED BY <1>1, <2>2, <2>3
<1>5. InOrder(t) BY <1>4 DEF InOrder
<1> QED BY <1>5 DEF t

\* An append behind two queues is an append behind the second.
LEMMA ConcatAppend ==
  ASSUME NEW s \in Seq(Rows), NEW t \in Seq(Rows), NEW r \in Rows
  PROVE  s \o Append(t, r) = Append(s \o t, r)
OBVIOUS

\* The empty queue before or behind another one.
LEMMA ConcatEmpty ==
  ASSUME NEW s \in Seq(Rows)
  PROVE  s \o <<>> = s /\ <<>> \o s = s
OBVIOUS

\* A row waits only with the alarm set: the handler clears it where it empties the queue.
AlarmForQueue == pending # <<>> => alarm

\* The inductive invariant of the queue: taken and waiting rows are in order.
OrderInv == KeptInv /\ AlarmForQueue /\ InOrder(snapshot \o pending)

\* The queue is empty at the start.
LEMMA OrderInit == Init => OrderInv
<1> SUFFICES ASSUME Init PROVE OrderInv
  OBVIOUS
<1>1. snapshot \o pending = <<>> BY DEF Init
<1>2. InOrder(snapshot \o pending) BY <1>1 DEF InOrder
<1> QED BY <1>2, KeptInit DEF Init, OrderInv, AlarmForQueue

\* Every step keeps the order, also the one that puts rows back.
LEMMA OrderStep == OrderInv /\ [Next]_vars => OrderInv'
<1> SUFFICES ASSUME OrderInv, [Next]_vars PROVE OrderInv'
  OBVIOUS
<1> DEFINE queue == snapshot \o pending
<1>0. KeptInv' BY KeptStep DEF OrderInv
<1>00. snapshot \in Seq(Rows) /\ pending \in Seq(Rows) /\ queue \in Seq(Rows)
  BY DEF OrderInv, KeptInv, TypeInv, TypeOK
<1> USE DEF OrderInv, KeptInv
<1>1. CASE UNCHANGED <<snapshot, pending, alarm>> BY <1>0, <1>1 DEF AlarmForQueue
<1>2. ASSUME NEW e \in Emitters, Enqueue(e), ~UNCHANGED <<seq, pending, alarm, accepted>> PROVE OrderInv'
  <2> DEFINE r == Row(seq, call[e].event)
  <2>1. pending' = Append(pending, r) /\ alarm' = TRUE /\ snapshot' = snapshot BY <1>2 DEF Enqueue
  <2>2. r \in Rows /\ r.seq = seq
    BY <1>2 DEF TypeInv, TypeOK, CallsAreUnderWay, Enqueue, Due, Rows, Row
  <2> HIDE DEF r
  <2>3. snapshot' \o pending' = Append(queue, r) BY <1>00, <2>1, <2>2, ConcatAppend
  <2>4. \A q \in ToSet(queue) : q.seq < r.seq
    BY <1>00, <2>2, ToSetConcat DEF Queued, TypeInv, QueueIsNumbered, Numbered
  <2>5. InOrder(snapshot' \o pending') BY <1>00, <2>2, <2>3, <2>4, OrderOfAppend
  <2> QED BY <1>0, <2>1, <2>5 DEF AlarmForQueue
<1>3. CASE AlarmTake
  <2>1. CASE pending = <<>>
    <3>1. pending' = pending /\ snapshot' = snapshot BY <1>3, <2>1 DEF AlarmTake
    <3> QED BY <1>0, <2>1, <3>1 DEF AlarmForQueue
  <2>2. CASE pending # <<>>
    <3>1. snapshot' = pending /\ pending' = <<>> /\ snapshot = <<>> BY <1>3, <2>2 DEF AlarmTake
    <3>2. snapshot' \o pending' = queue BY <1>00, <3>1, ConcatEmpty
    <3> QED BY <1>0, <3>1, <3>2 DEF AlarmForQueue
  <2> QED BY <2>1, <2>2
<1>4. CASE (AlarmInsert \/ Crash)
  <2>1. snapshot' = <<>> /\ pending' = pending BY <1>4 DEF AlarmInsert, QueueAfterInsert, Crash
  <2>2. snapshot' \o pending' = pending BY <1>00, <2>1, ConcatEmpty
  <2>3. InOrder(pending) BY <1>00, OrderOfSuffix
  <2>4. AlarmForQueue'
    <3>1. CASE AlarmInsert BY <2>1, <3>1 DEF AlarmInsert, AlarmForQueue
    <3>2. CASE Crash BY <2>1, <3>2, Zenon DEF Crash, AlarmForQueue
    <3> QED BY <1>4, <3>1, <3>2
  <2> QED BY <1>0, <2>1, <2>2, <2>3, <2>4
<1>5. CASE AlarmRequeue
  <2>1. snapshot' = <<>> /\ pending' = queue /\ alarm' = TRUE
    BY <1>5 DEF AlarmRequeue, Requeued, AlarmAfterFailure
  <2>2. snapshot' \o pending' = queue BY <1>00, <2>1, ConcatEmpty
  <2> QED BY <1>0, <2>1, <2>2 DEF AlarmForQueue
<1>6. \/ UNCHANGED <<snapshot, pending, alarm>>
      \/ \E e \in Emitters : Enqueue(e) /\ ~UNCHANGED <<seq, pending, alarm, accepted>>
      \/ AlarmTake \/ AlarmInsert \/ Crash \/ AlarmRequeue
  BY DEF Next, Serve, Alarm, Post, Repost, Persist, Enqueue, Broadcast, Open, Close, vars,
         AlarmInsertFails, WriteReviewEvent
<1> QED BY <1>1, <1>2, <1>3, <1>4, <1>5, <1>6

-----------------------------------------------------------------------------
(* What a connected viewer has got. *)

\* The inductive invariant of the viewers is the property itself, with the types.
ViewerInv == TypeInv /\ ViewerMissesNothing

\* A milestone that an emitter still has to broadcast.
Sending(m) == \E e \in Emitters : call[e].event = m /\ "broadcast" \in ToSet(call[e].todo)
Reached(v, m) == m \in viewer[v].got \/ Sending(m)

\* The replay buffer keeps only what it held or was given.
LEMMA TrimmedShrinks ==
  ASSUME NEW s \in Seq(Events)
  PROVE  ToSet(Trimmed(s)) \subseteq ToSet(s)
<1>1. CASE Len(s) > BufferSize
  <2>1. s # <<>> BY <1>1, StreamAssumption
  <2> QED BY <1>1, <2>1, ToSetTail DEF Trimmed
<1> QED BY <1>1 DEF Trimmed

\* Nobody is connected at the start.
LEMMA ViewerInit == Init => ViewerInv
BY TypeInit DEF Init, ViewerInv, ViewerMissesNothing, Closed

\* A phase that is done leaves every other call alone, and this one's broadcast to do,
\* unless that was the phase.
LEMMA DoneKeepsSending ==
  ASSUME TypeInv, NEW e \in Emitters, call[e].todo # <<>>, Done(e), NEW m \in Events, Sending(m)
  PROVE  Sending(m)' \/ (call[e].event = m /\ Head(call[e].todo) = "broadcast")
<1>1. PICK f \in Emitters : call[f].event = m /\ "broadcast" \in ToSet(call[f].todo) BY DEF Sending
<1>2. call \in [Emitters -> Calls] BY DEF TypeInv, TypeOK, Calls
<1>3. CASE f # e
  <2>1. call'[f] = call[f] BY <1>2, <1>3 DEF Done
  <2> QED BY <1>1, <2>1 DEF Sending
<1>4. CASE f = e /\ Len(call[e].todo) = 1
  BY <1>1, <1>4, TailShape DEF TypeInv, CallsAreUnderWay
<1>5. CASE f = e /\ Len(call[e].todo) # 1
  <2>1. "broadcast" \in ToSet(Tail(call[e].todo)) BY <1>5, TailShape DEF TypeInv, CallsAreUnderWay
  <2>2. call'[e] = [call[e] EXCEPT !.todo = Tail(call[e].todo)] BY <1>2, <1>5 DEF Done, Rest
  <2>3. call'[e].event = m /\ call'[e].todo = Tail(call[e].todo) BY <1>1, <1>2, <1>5, <2>2 DEF Calls
  <2> QED BY <2>1, <2>3 DEF Sending
<1> QED BY <1>3, <1>4, <1>5

\* Nothing happens to the viewers but that they get more, and nothing is left unsent.
LEMMA ReachedThrough ==
  ASSUME ViewerInv,
         \A v \in Viewers : viewer'[v].open =>
           \A m \in ToSet(buffer') : Reached(v, m)'
  PROVE  ViewerMissesNothing'
BY DEF ViewerMissesNothing, Reached, Sending

\* Every step keeps what viewers have or are about to be sent.
LEMMA ViewerStep == ViewerInv /\ [Next]_vars => ViewerInv'
<1> SUFFICES ASSUME ViewerInv, [Next]_vars PROVE ViewerInv'
  OBVIOUS
<1>0. TypeInv' BY TypeStep DEF ViewerInv
<1> USE DEF ViewerInv
<1>a. /\ call \in [Emitters -> Calls] /\ ToSet(buffer) \subseteq Events
      /\ viewer \in [Viewers -> [open : BOOLEAN, got : SUBSET Events]]
  BY DEF TypeInv, TypeOK, Calls, ToSet
<1>b. \A v \in Viewers : viewer[v].open => \A m \in ToSet(buffer) : Reached(v, m)
  BY DEF ViewerMissesNothing, Reached, Sending
<1>1. ASSUME UNCHANGED <<buffer, call, viewer>> PROVE ViewerInv'
  BY <1>0, <1>1 DEF ViewerMissesNothing
<1>2. ASSUME NEW e \in Emitters, \/ \E kind \in Kinds : Post(e, kind)
                                 \/ Repost(e)
      PROVE  ViewerInv'
  <2>1. UNCHANGED <<buffer, viewer>> BY <1>2 DEF Post, Repost
  <2>2. call[e].todo = <<>> \/ call[e].event = 0 BY <1>2 DEF Post, Repost
  <2>3. \A f \in Emitters : f # e => call'[f] = call[f] BY <1>2, <1>a DEF Post, Repost
  <2>4. ASSUME NEW m \in Events, Sending(m) PROVE Sending(m)'
    <3>1. PICK f \in Emitters : call[f].event = m /\ "broadcast" \in ToSet(call[f].todo) BY <2>4 DEF Sending
    <3>2. f # e BY <2>2, <3>1, ToSetEmpty DEF Events
    <3> QED BY <2>3, <3>1, <3>2 DEF Sending
  <2>5. \A v \in Viewers : viewer'[v].open => \A m \in ToSet(buffer') : Reached(v, m)'
    BY <1>a, <1>b, <2>1, <2>4 DEF Reached
  <2> QED BY <1>0, <2>5, ReachedThrough
<1>3. ASSUME NEW e \in Emitters, Persist(e) PROVE ViewerInv'
  <2>1. call[e].todo # <<>> /\ call[e].todo \in Shapes /\ call[e].event \in Events
        /\ Head(call[e].todo) = "persist"
    BY <1>3 DEF Persist, Due, TypeInv, CallsAreUnderWay
  <2>2. viewer' = viewer /\ Done(e) /\ buffer' = Trimmed(Append(buffer, call[e].event))
    BY <1>3 DEF Persist
  <2>3. ToSet(buffer') \subseteq ToSet(buffer) \cup {call[e].event}
    <3>1. ToSet(Append(buffer, call[e].event)) = ToSet(buffer) \cup {call[e].event}
      BY <2>1, ToSetAppend DEF TypeInv, TypeOK
    <3>2. Append(buffer, call[e].event) \in Seq(Events) BY <2>1 DEF TypeInv, TypeOK
    <3> QED BY <2>2, <3>1, <3>2, TrimmedShrinks
  <2>4. Sending(call[e].event) BY <2>1, TailShape DEF Sending
  <2>5. \A m \in Events : Sending(m) => Sending(m)' BY <2>1, <2>2, DoneKeepsSending
  <2>6. \A v \in Viewers : viewer'[v].open => \A m \in ToSet(buffer') : Reached(v, m)'
    BY <1>a, <1>b, <2>1, <2>2, <2>3, <2>4, <2>5 DEF Reached
  <2> QED BY <1>0, <2>6, ReachedThrough
<1>4. ASSUME NEW e \in Emitters, Enqueue(e) PROVE ViewerInv'
  <2>1. call[e].todo # <<>> /\ Head(call[e].todo) # "broadcast" BY <1>4 DEF Enqueue, Due
  <2>2. UNCHANGED <<viewer, buffer>> /\ Done(e) BY <1>4 DEF Enqueue
  <2>3. \A m \in Events : Sending(m) => Sending(m)' BY <2>1, <2>2, DoneKeepsSending
  <2>4. \A v \in Viewers : viewer'[v].open => \A m \in ToSet(buffer') : Reached(v, m)'
    BY <1>a, <1>b, <2>2, <2>3 DEF Reached
  <2> QED BY <1>0, <2>4, ReachedThrough
<1>5. ASSUME NEW e \in Emitters, Broadcast(e) PROVE ViewerInv'
  <2>1. call[e].todo # <<>> BY <1>5 DEF Broadcast, Due
  <2>2. buffer' = buffer /\ Done(e) BY <1>5 DEF Broadcast
  <2>3. \A v \in Viewers : viewer'[v].open =>
          viewer[v].open /\ viewer'[v].got = viewer[v].got \cup {call[e].event}
    BY <1>5, <1>a DEF Broadcast
  <2>4. \A m \in Events : Sending(m) => Sending(m)' \/ call[e].event = m BY <2>1, <2>2, DoneKeepsSending
  <2>5. \A v \in Viewers : viewer'[v].open => \A m \in ToSet(buffer') : Reached(v, m)'
    BY <1>a, <1>b, <2>2, <2>3, <2>4 DEF Reached
  <2> QED BY <1>0, <2>5, ReachedThrough
<1>6. ASSUME NEW v \in Viewers, Open(v) \/ Close(v) PROVE ViewerInv'
  <2>1. UNCHANGED <<call, buffer>> BY <1>6 DEF Open, Close
  <2>2. \A w \in Viewers \ {v} : viewer'[w] = viewer[w] BY <1>6, <1>a DEF Open, Close
  <2>3. viewer'[v].open => viewer'[v].got = ToSet(buffer) BY <1>6, <1>a DEF Open, Close, Closed
  <2>4. \A w \in Viewers : viewer'[w].open => \A m \in ToSet(buffer') : Reached(w, m)'
    BY <1>b, <2>1, <2>2, <2>3 DEF Reached, Sending
  <2> QED BY <1>0, <2>4, ReachedThrough
<1>7. CASE Crash
  <2>1. \A v \in Viewers : ~viewer'[v].open BY <1>7 DEF Crash, Closed
  <2> QED BY <1>0, <2>1 DEF ViewerMissesNothing
<1>8. \/ UNCHANGED <<buffer, call, viewer>>
      \/ \E e \in Emitters : (\E kind \in Kinds : Post(e, kind)) \/ Repost(e)
      \/ \E e \in Emitters : Persist(e) \/ Enqueue(e) \/ Broadcast(e)
      \/ \E v \in Viewers : Open(v) \/ Close(v)
      \/ Crash
  BY DEF Next, Serve, Alarm, vars, AlarmTake, AlarmInsert, AlarmInsertFails, AlarmRequeue, WriteReviewEvent
<1> QED BY <1>1, <1>2, <1>3, <1>4, <1>5, <1>6, <1>7, <1>8

-----------------------------------------------------------------------------
(* The theorems. *)

\* Every event that the hub numbered is in the log or queued under its number, unless a
\* crash took the handler's rows or a row of the review threads has the number.
THEOREM AcceptedStays == Spec => []AcceptedIsKept
<1>1. Spec => []KeptInv BY KeptInit, KeptStep, PTL DEF Spec
<1>2. KeptInv => AcceptedIsKept BY DEF KeptInv
<1> QED BY <1>1, <1>2, PTL

\* Types hold, a waiting row has an alarm, and the rows taken and the rows waiting are in
\* the order of their numbers, through every append, flush, failure and crash.
THEOREM QueueSound == Spec => []QueueIsSound
<1>1. Spec => []OrderInv BY OrderInit, OrderStep, PTL DEF Spec
<1>2. OrderInv => QueueIsSound
  BY DEF OrderInv, KeptInv, TypeInv, AlarmForQueue, InOrder, QueueIsSound, QueueHasAlarm, QueueInOrder
<1> QED BY <1>1, <1>2, PTL

\* A connected viewer has, or is about to be sent, every milestone that the replay buffer
\* holds.
THEOREM ViewersMissNothing == Spec => []ViewerMissesNothing
<1>1. Spec => []ViewerInv BY ViewerInit, ViewerStep, PTL DEF Spec
<1>2. ViewerInv => ViewerMissesNothing BY DEF ViewerInv
<1> QED BY <1>1, <1>2, PTL
=============================================================================
