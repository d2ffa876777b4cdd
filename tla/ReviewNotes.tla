------------------------------ MODULE ReviewNotes ------------------------------
(***************************************************************************)
(* The review notes of a run: a highlight in the text of a tab, the        *)
(* composer that is open on it (web/lib/useReviewThreads.ts), and the      *)
(* thread behind it in content_tool.review_threads (routes/runs.ts), with  *)
(* the deletion of the run, which takes the threads along.                 *)
(* A note is the number of its anchor, a message a number too.             *)
(***************************************************************************)
EXTENDS Naturals, FiniteSets

CONSTANTS
    Writers,      \* tabs that open notes
    Readers,      \* tabs that answer, resolve and remove
    NoNote,
    MaxNotes,     \* bound: highlights made
    MaxMessages   \* bound: messages and changes sent

Tabs == Writers \cup Readers

VARIABLES
    run,        \* "there", or how far the DELETE of the run has come
    linked,     \* a topic candidate names the run
    threads,    \* review_threads
    log,        \* rows of run_event_logs
    spans,      \* tab -> highlights in its text
    pending,    \* tab -> the note its composer is open on
    reqs,       \* requests on their way
    notes, messages,
    acked,      \* history: messages whose sender was told, with their thread
    raced,      \* history: messages of replies that overlapped another
    loose,      \* history: notes whose highlight and thread were parted
    late        \* history: rows and links written after their deletion
vars == <<run, linked, threads, log, spans, pending, reqs, notes, messages,
          acked, raced, loose, late>>

-----------------------------------------------------------------------------
Thread(id, n, m) == [id |-> id, note |-> n, msgs |-> {m}, open |-> TRUE]
ById(i) == {th \in threads : th.id = i}
Here == run # "gone"

Request(t, kind, i, n) ==
    [id |-> messages + 1, by |-> t, kind |-> kind, thread |-> i, note |-> n,
     msgs |-> {}, pc |-> "sent"]
Send(q) == reqs' = reqs \cup {q} /\ messages' = messages + 1 /\ messages < MaxMessages
To(q, pc) == (reqs \ {q}) \cup {[q EXCEPT !.pc = pc]}

Told(q) == [id |-> q.id, thread |-> IF q.kind = "create" THEN q.id ELSE q.thread]

-----------------------------------------------------------------------------
(* The page.                                                               *)

\* A highlight opens the composer, also when it is open on another one.
Begin(t) ==
    /\ notes < MaxNotes
    /\ notes' = notes + 1
    /\ spans' = [spans EXCEPT ![t] = @ \cup {notes + 1}]
    /\ pending' = [pending EXCEPT ![t] = notes + 1]
    /\ loose' = loose \cup ({pending[t]} \ {NoNote})
    /\ UNCHANGED <<run, linked, threads, log, reqs, messages, acked, raced, late>>

\* The thread may be on its way by now.
Cancel(t) ==
    /\ pending[t] # NoNote
    /\ spans' = [spans EXCEPT ![t] = @ \ {pending[t]}]
    /\ pending' = [pending EXCEPT ![t] = NoNote]
    /\ loose' = IF \E q \in reqs : q.kind = "create" /\ q.note = pending[t]
                THEN loose \cup {pending[t]} ELSE loose
    /\ UNCHANGED <<run, linked, threads, log, reqs, notes, messages, acked, raced, late>>

Submit(t) ==
    /\ pending[t] # NoNote
    /\ ~\E q \in reqs : q.by = t /\ q.kind = "create"
    /\ Send(Request(t, "create", 0, pending[t]))
    /\ UNCHANGED <<run, linked, threads, log, spans, pending, notes, acked, raced, loose, late>>

\* Reply, resolve and delete: one at a time.
Act(t, kind, th) ==
    /\ ~\E q \in reqs : q.by = t /\ q.kind # "create"
    /\ Send(Request(t, kind, th.id, th.note))
    /\ UNCHANGED <<run, linked, threads, log, spans, pending, notes, acked, raced, loose, late>>

\* The composer is closed when the note is sent (mutant).
AnswerClosingOthers(q) ==
    /\ q \in reqs /\ q.pc = "ok"
    /\ reqs' = reqs \ {q}
    /\ acked' = IF q.kind \in {"create", "reply"} THEN acked \cup {Told(q)} ELSE acked
    /\ pending' = IF q.kind = "create" THEN [pending EXCEPT ![q.by] = NoNote] ELSE pending
    /\ spans' = spans
    /\ UNCHANGED <<run, linked, threads, log, notes, messages, raced, loose, late>>

\* A created thread closes the composer, whatever note it is open on by now.
Answer(q) ==
    /\ q \in reqs /\ q.pc = "ok"
    /\ reqs' = reqs \ {q}
    /\ acked' = IF q.kind \in {"create", "reply"} THEN acked \cup {Told(q)} ELSE acked
    /\ pending' = IF q.kind = "create" THEN [pending EXCEPT ![q.by] = NoNote] ELSE pending
    /\ spans' = IF q.kind = "remove" THEN [spans EXCEPT ![q.by] = @ \ {q.note}] ELSE spans
    /\ loose' = IF q.kind = "create" THEN loose \cup ({pending[q.by]} \ {NoNote, q.note}) ELSE loose
    /\ UNCHANGED <<run, linked, threads, log, notes, messages, raced, late>>

\* A request is refused or fails, or its answer is lost: the composer stays.
Fail(q) ==
    /\ q \in reqs
    /\ reqs' = reqs \ {q}
    /\ loose' = IF q.kind # "reply" THEN loose \cup {q.note} ELSE loose
    /\ UNCHANGED <<run, linked, threads, log, spans, pending, notes, messages, acked, raced, late>>

-----------------------------------------------------------------------------
(* The handlers.                                                           *)

\* POST review-threads: the run is looked for, then the row is inserted.
CreateCheck(q) ==
    /\ q \in reqs /\ q.kind = "create" /\ q.pc = "sent" /\ Here
    /\ reqs' = To(q, "insert")
    /\ UNCHANGED <<run, linked, threads, log, spans, pending, notes, messages, acked, raced, loose, late>>

CreateInsert(q) ==
    /\ q \in reqs /\ q.kind = "create" /\ q.pc = "insert" /\ Here
    /\ threads' = threads \cup {Thread(q.id, q.note, q.id)}
    /\ reqs' = To(q, "log")
    /\ UNCHANGED <<run, linked, log, spans, pending, notes, messages, acked, raced, loose, late>>

\* POST replies: the messages are read, and written back with one more.
ReplyRead(q) ==
    /\ q \in reqs /\ q.kind = "reply" /\ q.pc = "sent"
    /\ \E th \in ById(q.thread) :
          reqs' = (reqs \ {q}) \cup {[q EXCEPT !.pc = "write", !.msgs = th.msgs]}
    /\ UNCHANGED <<run, linked, threads, log, spans, pending, notes, messages, acked, raced, loose, late>>

\* Replies that were read before this one was written.
Overlapping(q) == {p \in reqs \ {q} : p.thread = q.thread /\ p.kind = "reply" /\ p.pc = "write"}

ReplyWrite(q) ==
    /\ q \in reqs /\ q.kind = "reply" /\ q.pc = "write"
    /\ \E th \in ById(q.thread) :
          threads' = (threads \ {th}) \cup {[th EXCEPT !.msgs = q.msgs \cup {q.id}]}
    /\ reqs' = To(q, "ok")
    /\ raced' = IF Overlapping(q) = {} THEN raced ELSE raced \cup {q.id}
    /\ UNCHANGED <<run, linked, log, spans, pending, notes, messages, acked, loose, late>>

\* POST resolve, either way.
Resolve(q) ==
    /\ q \in reqs /\ q.kind = "resolve" /\ q.pc = "sent"
    /\ \E th \in ById(q.thread) :
          threads' = (threads \ {th}) \cup {[th EXCEPT !.open = ~th.open]}
    /\ reqs' = To(q, "log")
    /\ UNCHANGED <<run, linked, log, spans, pending, notes, messages, acked, raced, loose, late>>

\* writeReviewEvent: no foreign key ties the row to the run.
WriteReviewEvent(q) ==
    /\ q \in reqs /\ q.pc = "log"
    /\ log' = log \cup {q.id}
    /\ late' = IF run \in {"log", "gone"} THEN late \cup {q.id} ELSE late
    /\ reqs' = To(q, "ok")
    /\ UNCHANGED <<run, linked, threads, spans, pending, notes, messages, acked, raced, loose>>

\* DELETE review-threads/:tid.
Remove(q) ==
    /\ q \in reqs /\ q.kind = "remove" /\ q.pc = "sent"
    /\ threads' = threads \ ById(q.thread)
    /\ reqs' = To(q, "ok")
    /\ loose' = IF \E t \in Tabs \ {q.by} : q.note \in spans[t] THEN loose \cup {q.note} ELSE loose
    /\ UNCHANGED <<run, linked, log, spans, pending, notes, messages, acked, raced, late>>

-----------------------------------------------------------------------------
(* The run: the promotion names it after it was inserted, and DELETE       *)
(* clears what refers to it, in three steps; a failure leaves it where it  *)
(* is, and the next DELETE begins again.                                   *)

Link ==
    /\ ~linked /\ 0 \notin late
    /\ linked' = TRUE
    /\ late' = IF run = "there" THEN late ELSE late \cup {0}
    /\ UNCHANGED <<run, threads, log, spans, pending, reqs, notes, messages, acked, raced, loose>>

Unlink ==
    /\ run = "there"
    /\ run' = "unlinked" /\ linked' = FALSE
    /\ UNCHANGED <<threads, log, spans, pending, reqs, notes, messages, acked, raced, loose, late>>

DeleteLog ==
    /\ run = "unlinked"
    /\ run' = "log" /\ log' = {}
    /\ UNCHANGED <<linked, threads, spans, pending, reqs, notes, messages, acked, raced, loose, late>>

\* The threads cascade.
DeleteRun ==
    /\ run = "log"
    /\ run' = "gone" /\ threads' = {}
    /\ loose' = loose \cup {th.note : th \in threads}
    /\ UNCHANGED <<linked, log, spans, pending, reqs, notes, messages, acked, raced, late>>

DeleteFails ==
    /\ run \in {"unlinked", "log"}
    /\ run' = "there"
    /\ UNCHANGED <<linked, threads, log, spans, pending, reqs, notes, messages, acked, raced, loose, late>>

-----------------------------------------------------------------------------
Init ==
    /\ run = "there" /\ linked = FALSE /\ threads = {} /\ log = {} /\ reqs = {}
    /\ spans = [t \in Tabs |-> {}] /\ pending = [t \in Tabs |-> NoNote]
    /\ notes = 0 /\ messages = 0
    /\ acked = {} /\ raced = {} /\ loose = {} /\ late = {}

Next ==
    \/ \E t \in Writers : Begin(t) \/ Cancel(t) \/ Submit(t)
    \/ \E t \in Readers, th \in threads : \E kind \in {"reply", "resolve", "remove"} : Act(t, kind, th)
    \/ \E q \in reqs : \/ Answer(q) \/ Fail(q) \/ CreateCheck(q) \/ CreateInsert(q) \/ ReplyRead(q)
                       \/ ReplyWrite(q) \/ Resolve(q) \/ WriteReviewEvent(q) \/ Remove(q)
    \/ Link \/ Unlink \/ DeleteLog \/ DeleteRun \/ DeleteFails

Spec == Init /\ [][Next]_vars

-----------------------------------------------------------------------------
TypeOK ==
    /\ run \in {"there", "unlinked", "log", "gone"} /\ linked \in BOOLEAN
    /\ \A th \in threads : th.note \in 1 .. notes /\ th.msgs \subseteq 1 .. messages
    /\ \A t \in Tabs : spans[t] \subseteq 1 .. notes /\ pending[t] \in (1 .. notes) \cup {NoNote}
    /\ \A t \in Tabs : Cardinality({q \in reqs : q.by = t /\ q.kind = "create"}) <= 1
    /\ Cardinality({th.id : th \in threads}) = Cardinality(threads)

\* A message whose sender was told of it is in its thread until the thread is
\* removed, unless another reply was read before it and written after it.
AckedMessageStays ==
    \A a \in acked : a.id \in raced \/ \A th \in ById(a.thread) : a.id \in th.msgs

\* A highlight has its composer or its thread, and a thread its highlight in the
\* tab it was made in: what the composer, the answers and the removals do to the
\* two stays in step, unless a note was begun or cancelled over another, or an
\* answer was lost.
NotesMatch ==
    \A n \in (1 .. notes) \ loose :
        /\ \A t \in Tabs : n \in spans[t] =>
              \/ pending[t] = n \/ \E th \in threads : th.note = n
              \/ \E q \in reqs : q.kind = "remove" /\ q.note = n
        /\ (\E th \in threads : th.note = n) => \E t \in Tabs : n \in spans[t]

\* A note has one thread, unless the answer to its creation was lost.
OneThreadPerNote ==
    \A th, other \in threads : th.note = other.note /\ th # other => th.note \in loose

\* Of a run that has gone no thread is left, and no event or link but those
\* written after their step of the deletion.
NothingOutlivesTheRun ==
    run = "gone" => threads = {} /\ log \subseteq late /\ (linked => 0 \in late)
=============================================================================
