-------------------------------- MODULE RunStream --------------------------------
(***************************************************************************)
(* The event hub of one run (deploy/cloudflare-workers/src/run-stream.ts): *)
(* a Durable Object that keeps the last milestones for late viewers,       *)
(* numbers every event, queues it as a row of run_event_logs, and fans it  *)
(* out to the viewers.  Appends interleave with each other, with the alarm *)
(* that flushes the queue to Postgres, and with viewers that come and go;  *)
(* storage survives a crash of the object, its memory does not.            *)
(*                                                                         *)
(* A read of storage and the write that follows it are one action: the     *)
(* object's gates deliver nothing to it in between.                        *)
(***************************************************************************)
EXTENDS Integers, Sequences, SequencesExt

CONSTANTS
  Emitters,         \* the workflow and the Gemini proxies that post events
  Viewers,          \* browsers
  BufferSize,       \* EVENT_BUFFER_SIZE
  PersistThinking,  \* the PERSIST_THINKING toggle
  MaxEvents,        \* bound: events emitted
  MaxFailures,      \* bound: flushes that fail
  MaxCrashes,       \* bound: crashes of the object
  MaxReviews        \* bound: rows written beside the hub by the review threads

ASSUME StreamAssumption ==
  /\ BufferSize \in Nat \ {0}
  /\ PersistThinking \in BOOLEAN
  /\ MaxEvents \in Nat /\ MaxFailures \in Nat /\ MaxCrashes \in Nat /\ MaxReviews \in Nat

Events == 1 .. MaxEvents
Kinds  == {"milestone", "thinking"}
Review == 0                \* the event of a row that the hub did not write
Row(n, e) == [seq |-> n, event |-> e]
Rows == [seq : Nat, event : Events]

VARIABLES
  emitted,   \* number of events emitted so far
  call,      \* emitter -> its POST /append: the event and what is left to do with it
  buffer,    \* storage: events, the milestones that are replayed
  seq,       \* storage: the next row's number
  pending,   \* storage: pending_logs, the rows to flush
  alarm,     \* storage: an alarm is set
  flush,     \* where the alarm's handler is
  snapshot,  \* the rows that the handler has taken
  table,     \* run_event_logs: the rows of this stream
  viewer,    \* viewer -> its connection and what it got over it
  accepted,  \* history: the event of each number the hub gave out
  lost,      \* history: numbers whose rows went down with a crash
  failures, crashes, reviews

vars == <<emitted, call, buffer, seq, pending, alarm, flush, snapshot, table, viewer,
          accepted, lost, failures, crashes, reviews>>

Phases == {"persist", "enqueue", "broadcast"}
Idle   == [event |-> 0, kind |-> "milestone", todo |-> <<>>]
Closed == [open |-> FALSE, got |-> {}]

TypeOK ==
  /\ emitted \in 0 .. MaxEvents
  /\ call \in [Emitters -> [event : Events \cup {0}, kind : Kinds, todo : Seq(Phases)]]
  /\ buffer \in Seq(Events) /\ Len(buffer) <= BufferSize
  /\ seq \in Nat
  /\ pending \in Seq(Rows)
  /\ alarm \in BOOLEAN
  /\ flush \in {"idle", "insert", "requeue"}
  /\ snapshot \in Seq(Rows)
  /\ table \subseteq [seq : Nat, event : Events \cup {Review}]
  /\ viewer \in [Viewers -> [open : BOOLEAN, got : SUBSET Events]]
  /\ accepted \in Seq(Events)
  /\ lost \subseteq Nat
  /\ failures \in Nat /\ crashes \in Nat /\ reviews \in Nat

Init ==
  /\ emitted = 0
  /\ call = [e \in Emitters |-> Idle]
  /\ buffer = <<>> /\ pending = <<>> /\ snapshot = <<>> /\ accepted = <<>>
  /\ seq = 0
  /\ alarm = FALSE
  /\ flush = "idle"
  /\ table = {} /\ lost = {}
  /\ viewer = [v \in Viewers |-> Closed]
  /\ failures = 0 /\ crashes = 0 /\ reviews = 0

-----------------------------------------------------------------------------
(* POST /append. *)

\* Mutant: the viewers are served first.
HandleBroadcastFirst(kind) == IF kind = "thinking" THEN <<"broadcast", "enqueue">>
                              ELSE <<"broadcast", "persist", "enqueue">>

\* What the handler does with an event: a thinking chunk is not for the replay buffer.
Handle(kind) == IF kind = "thinking" THEN <<"enqueue", "broadcast">>
                ELSE <<"persist", "enqueue", "broadcast">>

Post(e, kind) ==
  /\ call[e].event = 0
  /\ emitted < MaxEvents
  /\ emitted' = emitted + 1
  /\ call' = [call EXCEPT ![e] = [event |-> emitted + 1, kind |-> kind, todo |-> Handle(kind)]]
  /\ UNCHANGED <<buffer, seq, pending, alarm, flush, snapshot, table, viewer, accepted, lost,
                 failures, crashes, reviews>>

\* A workflow step whose post failed runs again; a proxy swallows the failure.
Repost(e) ==
  /\ call[e].event # 0
  /\ call[e].todo = <<>>
  /\ call' = [call EXCEPT ![e] = IF @.kind = "thinking" THEN Idle
                                 ELSE [@ EXCEPT !.todo = Handle("milestone")]]
  /\ UNCHANGED <<emitted, buffer, seq, pending, alarm, flush, snapshot, table, viewer, accepted,
                 lost, failures, crashes, reviews>>

Due(e, phase) == call[e].todo # <<>> /\ Head(call[e].todo) = phase

\* The phase is done; after the last one the emitter has its answer.
Rest(c) == IF Len(c.todo) = 1 THEN Idle ELSE [c EXCEPT !.todo = Tail(c.todo)]
Done(e) == call' = [call EXCEPT ![e] = Rest(call[e])]

\* The oldest milestone goes when the buffer is full.
Trimmed(events) == IF Len(events) > BufferSize THEN Tail(events) ELSE events

Persist(e) ==
  /\ Due(e, "persist")
  /\ buffer' = Trimmed(Append(buffer, call[e].event))
  /\ Done(e)
  /\ UNCHANGED <<emitted, seq, pending, alarm, flush, snapshot, table, viewer, accepted, lost,
                 failures, crashes, reviews>>

\* enqueueLog, in blockConcurrencyWhile: number the row, queue it, see to the alarm.
Enqueue(e) ==
  /\ Due(e, "enqueue")
  /\ IF call[e].kind = "thinking" /\ ~PersistThinking
     THEN UNCHANGED <<seq, pending, alarm, accepted>>
     ELSE /\ pending' = Append(pending, Row(seq, call[e].event))
          /\ seq' = seq + 1
          /\ alarm' = TRUE
          /\ accepted' = Append(accepted, call[e].event)
  /\ Done(e)
  /\ UNCHANGED <<emitted, buffer, flush, snapshot, table, viewer, lost,
                 failures, crashes, reviews>>

Broadcast(e) ==
  /\ Due(e, "broadcast")
  /\ viewer' = [v \in Viewers |-> IF viewer[v].open
                                  THEN [viewer[v] EXCEPT !.got = @ \cup {call[e].event}]
                                  ELSE viewer[v]]
  /\ Done(e)
  /\ UNCHANGED <<emitted, buffer, seq, pending, alarm, flush, snapshot, table, accepted, lost,
                 failures, crashes, reviews>>

-----------------------------------------------------------------------------
(* The alarm: a set alarm is cleared when its handler starts. *)

AlarmTake ==
  /\ alarm
  /\ flush = "idle"
  /\ alarm' = FALSE
  /\ IF pending = <<>>
     THEN UNCHANGED <<pending, flush, snapshot>>
     ELSE snapshot' = pending /\ pending' = <<>> /\ flush' = "insert"
  /\ UNCHANGED <<emitted, call, buffer, seq, table, viewer, accepted, lost,
                 failures, crashes, reviews>>

\* INSERT ... ON CONFLICT (stream_id, seq) DO NOTHING: one statement, all its rows.
Inserted(rows) == table \cup {r \in ToSet(rows) : \A t \in table : t.seq # r.seq}

\* Mutant: the queue is cleared once its rows are written.
QueueAfterInsertCleared == <<>>

\* What was appended meanwhile stays queued.
QueueAfterInsert == pending

AlarmInsert ==
  /\ flush = "insert"
  /\ table' = Inserted(snapshot)
  /\ pending' = QueueAfterInsert
  /\ snapshot' = <<>>
  /\ flush' = "idle"
  /\ UNCHANGED <<emitted, call, buffer, seq, alarm, viewer, accepted, lost,
                 failures, crashes, reviews>>

\* The statement fails, or is committed and its answer is lost.
AlarmInsertFails ==
  /\ flush = "insert"
  /\ failures < MaxFailures
  /\ failures' = failures + 1
  /\ table' \in {table, Inserted(snapshot)}
  /\ flush' = "requeue"
  /\ UNCHANGED <<emitted, call, buffer, seq, pending, alarm, snapshot, viewer, accepted, lost,
                 crashes, reviews>>

\* Mutant: the rows go behind those that arrived meanwhile.
RequeuedBehind == pending \o snapshot

\* Mutant: the rows wait for the next append to set the alarm.
AlarmAfterFailureKept == alarm

Requeued == snapshot \o pending
AlarmAfterFailure == TRUE

AlarmRequeue ==
  /\ flush = "requeue"
  /\ pending' = Requeued
  /\ snapshot' = <<>>
  /\ alarm' = AlarmAfterFailure
  /\ flush' = "idle"
  /\ UNCHANGED <<emitted, call, buffer, seq, table, viewer, accepted, lost,
                 failures, crashes, reviews>>

-----------------------------------------------------------------------------
(* Viewers, the review threads, and crashes. *)

\* GET /events: the history is replayed and the viewer registered in one go.
Open(v) ==
  /\ ~viewer[v].open
  /\ viewer' = [viewer EXCEPT ![v] = [open |-> TRUE, got |-> ToSet(buffer)]]
  /\ UNCHANGED <<emitted, call, buffer, seq, pending, alarm, flush, snapshot, table, accepted,
                 lost, failures, crashes, reviews>>

Close(v) ==
  /\ viewer[v].open
  /\ viewer' = [viewer EXCEPT ![v] = Closed]
  /\ UNCHANGED <<emitted, call, buffer, seq, pending, alarm, flush, snapshot, table, accepted,
                 lost, failures, crashes, reviews>>

\* writeReviewEvent: the row after the last one in the table.
NextInTable == IF table = {} THEN 0 ELSE 1 + Max({t.seq : t \in table})

WriteReviewEvent ==
  /\ reviews < MaxReviews
  /\ reviews' = reviews + 1
  /\ table' = table \cup {Row(NextInTable, Review)}
  /\ UNCHANGED <<emitted, call, buffer, seq, pending, alarm, flush, snapshot, viewer, accepted,
                 lost, failures, crashes>>

\* The object's memory goes: posts in flight fail, viewers are cut off, and a handler
\* of the alarm is run again from its start, without the rows it had taken.
Crash ==
  /\ crashes < MaxCrashes
  /\ crashes' = crashes + 1
  /\ call' = [e \in Emitters |-> [call[e] EXCEPT !.todo = <<>>]]
  /\ viewer' = [v \in Viewers |-> Closed]
  /\ alarm' = (alarm \/ flush # "idle")
  /\ flush' = "idle"
  /\ snapshot' = <<>>
  /\ lost' = lost \cup {r.seq : r \in ToSet(snapshot)}
  /\ UNCHANGED <<emitted, buffer, seq, pending, table, accepted, failures, reviews>>

-----------------------------------------------------------------------------
Serve(e) == Repost(e) \/ Persist(e) \/ Enqueue(e) \/ Broadcast(e)
Alarm    == AlarmTake \/ AlarmInsert \/ AlarmRequeue

Next ==
  \/ \E e \in Emitters : Serve(e) \/ \E kind \in Kinds : Post(e, kind)
  \/ Alarm \/ AlarmInsertFails
  \/ \E v \in Viewers : Open(v) \/ Close(v)
  \/ WriteReviewEvent
  \/ Crash

Spec == Init /\ [][Next]_vars

\* The platform runs an alarm that is set, and Postgres comes back: it fails at most
\* MaxFailures times.
FairSpec == Spec /\ WF_vars(Alarm)

-----------------------------------------------------------------------------
(* Safety. *)

Queued == ToSet(snapshot) \cup ToSet(pending)

\* Every event that the hub numbered is in the log, or still queued under that number.
\* Rows are lost only to a crash that hits the alarm's handler (the snapshot leaves
\* storage before the insert), and to a row of the review threads with the same number.
AcceptedIsKept ==
  \A n \in 0 .. seq - 1 :
    \/ Row(n, accepted[n + 1]) \in table \cup Queued
    \/ n \in lost \/ Row(n, Review) \in table

\* Queued rows have an alarm to flush them, or a handler that will see to it.
QueueHasAlarm == pending # <<>> => alarm \/ flush # "idle"

\* The queue stays in the order of the numbers, through failed flushes and whatever is
\* appended meanwhile: the log fills up in order, and a reader that polls for what comes
\* after the last number it has misses nothing that is queued.
QueueInOrder ==
  LET queue == snapshot \o pending IN
  \A i, j \in DOMAIN queue : i < j => queue[i].seq < queue[j].seq

\* Through appends, flushes, failures and crashes the queue is bounded, in order, and
\* never left without an alarm.
QueueIsSound == TypeOK /\ QueueHasAlarm /\ QueueInOrder

\* A connected viewer has every milestone that a later viewer would be replayed, unless
\* it is just being sent.
ViewerMissesNothing ==
  \A v \in Viewers : viewer[v].open =>
    \A m \in ToSet(buffer) :
      \/ m \in viewer[v].got
      \/ \E e \in Emitters : call[e].event = m /\ "broadcast" \in ToSet(call[e].todo)

(* Liveness. *)

\* What the hub has accepted reaches the log, unless a crash takes it.
AcceptedIsLogged ==
  \A n \in 0 .. MaxEvents :
    (seq > n) ~> (n \in lost \/ \E r \in table : r.seq = n)
=============================================================================
