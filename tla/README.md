# A TLA+ model of the content workflow

This directory models the production backend of the repository: the Cloudflare
Workers program in `deploy/cloudflare-workers/src` (called `W/` below) that takes a
content run from its creation, through an outline and a first human gate, a writing
and auditing loop, a second human gate, to a post on WordPress or Ghost. It holds the
TLA+ modules, the TLC configurations that check them on small instances, and proofs
that TLAPS checks for every value of the constants.

The Python backend (`content_tool/`) is the predecessor that the Workers program ports
(`docs/adr/0002-cloudflare-workers-ts-port-as-production.md`). Where the two do the same
the Workers code is modelled; what the port replaced altogether, the executor that drives a
run from the memory of one process, has a module of its own.

## The system

| Component | State | Operations | What makes it correct |
|---|---|---|---|
| Content run (`W/workflows/production.ts`, `W/routes/runs.ts`) | the `runs` row, drafts and renders, a durable workflow instance, its buffered events | create, decide at gate 1 (`/resume`) and gate 2 (`/hitl-2`), save the article, re-read the existing post, restart; the workflow's steps | the row tells where the instance is; a decision is taken once and delivered; what is published was approved; a run always comes back to a person |
| CMS publishing (`W/wordpress/client.ts`, `publish` in `production.ts`, `/republish`) | `cms_post_id`, the target pin, `fetched_articles`, the CMS's posts | publish, republish, upsert with read-back and retries | one post per run; nobody else's post overwritten unapproved; the text stays on the voice's site |
| Event hub (`W/run-stream.ts`, `W/db/event-log.ts`) | milestone buffer, number counter, queue, alarm, `run_event_logs`, SSE viewers | append, flush, connect, disconnect | no event lost, kept in order, each viewer complete |
| Run editing (`routes/runs.ts` from line 1810, `web/lib/run-editor/`, `web/components/runs-ledger/`) | snapshots, review threads, and in each tab a text, a form, cached copies of the row | autosave, restore, AI edits, drawer and bulk edits, reply, resolve, delete, accept and reject changes | no edit lost unnoticed, bounded history, a field is not reverted by someone who never touched it, a note has one thread |
| Collaborative document (`W/run-doc.ts`, `web/lib/run-editor/`) | a Yjs document in an object and in each tab, the seeder grant, two backups | connect, seed, hydrate, type, relay, persist, evict | seeded once, all tabs agree, backups never go back |
| Topic batches (`routes/topic_batches.ts`, `workflows/topic_expansion.ts`) | batch status, candidates, the workflow's results per candidate | expand, analyse, skip, ask again, promote, close, delete | a candidate becomes one run; the batch's status follows its candidates; a batch comes to rest |
| Refresh scan (`workflows/refresh_scan.ts`, `refresh/`, `db/articles.ts`) | the queue of due articles, evaluations, dismissals, the budget of a tick | tick, scan one article, dismiss, restore | one open evaluation per article; the LLM cap; nothing due waits for ever |
| Prompts and source policy (`prompts/`, `routes/prompts.ts`, `routes/source_policy.ts`, the two pages) | live body, versions, a cache per isolate, buffers and drafts | save with the expected sha, revert, load | one chain of versions, no blind overwrite, no stale cache in the isolate that saved |
| Accounts (`routes/admin.ts`, `auth/authz.ts`) | identities, bans and sessions in GoTrue, `app_user` rows, access tokens | sign in, refresh, add, change role, disable, enable, delete, revoke sessions | an admin remains; status and ban agree; a revoked session stays out |
| Python executor (`content_tool/api/sse.py`, `content_tool/graph/`, `content_tool/api/routes/runs.py`) | a task in memory, the graph's checkpoint, the row | start, answer gates 1 and 2, restart, delete, republish, regenerate, recover at boot | a run in flight is driven by something; a decision is what is done |
| Gemini proxy (`gemini/`) | a stream per call | call with retries, append thoughts | finite retries |
| Others: compliance log, inventory import, personas, publish targets, costs, other pages | rows | single statements, checks of a request, pages | see `PROJECT.json` |

**Interactions.** A handler and the workflow share the `runs` row and nothing else,
except the events a handler sends to the instance with `sendEvent`. The database client
opens no transaction for the handlers, so any other actor can act between two of their
statements. Both publish through the upsert of the CMS client, and both
post events to the hub, as the Gemini proxy does; the hub writes the log that the review
threads write too. The same database serves several deployments, while an instance
exists on one of them only: a decision that reaches another one makes it adopt the run
(`rescueRunHere`).

**What is hard.** Two requests at one gate; a status read before an await and used after
it; a claim that is committed and an event that is not sent; compensation that meets
another claim; an event buffered for an earlier opening of a gate; a restart of an
instance that is not where the row says; a CMS that stores a post and loses the answer;
a durable step that is run again as a whole; a flush that fails after it has committed; a
page that keeps a copy, an index or a sha of something that others change.
`PROJECT.json` lists the hazards with their lines, and either the properties that watch
them or why none does yet.

## Modules

| Module | Models |
|---|---|
| `ProductionRun` | one run: row, drafts, an instance for each deployment, each request's handler statement by statement |
| `RunContract` | what a run promises to the desk and to the CMS, in seven stages |
| `SingleSiteRun` | a run on one deployment; the inductive invariant `StatusTracksStep`; the refinement of `RunContract` |
| `CmsPublish` | the publish step for WordPress and for Ghost, republish, both upserts, the pin, the sites |
| `RunStream` | the event hub with its log and viewers |
| `TopicBatch` | one batch: its expansion workflow, the requests about it, the page that offers them |
| `RunEditing` | tabs at the second gate: autosave, restore, AI edits, the version history |
| `LedgerDrawer` | the destination fields of one run in the drawer, the bulk bar and the bulk form of several tabs |
| `ReviewNotes` | highlights, composer and threads of a run, and the deletion of the run |
| `ReviewChanges` | tracked changes: the comparison, accepting and rejecting, and the names of the changes |
| `RunDoc` | the shared document: object, backups, pages |
| `RefreshScan` | ticks, single scans and dismissals of a few articles |
| `PromptStore` | one template or policy, with caches and the pages that edit it |
| `Accounts` | a few people, two of whom may be admins |
| `RunExecutor` | one run in the Python backend: task, graph, requests, loss of the process |
| `ProductionRun_proofs`, `CmsPublish_proofs`, `RunStream_proofs`, `Editing_proofs`, `PromptStore_proofs`, `Accounts_proofs`, `RunExecutor_proofs`, `Workflows_proofs` | the theorems, with the inductive invariants and the lemmas they rest on; the first also has those about `SingleSiteRun`, the last those about `TopicBatch` and `RefreshScan`; those about `RunDoc`, `RunEditing`, `LedgerDrawer` and `ReviewNotes` are in `Editing_proofs` |
| `MC...` | the instances that TLC explores: symmetry sets, or several small instances side by side |

`MCRunEditing`, `MCDesk`, `MCDecisions` and `MCWorkflows` hold several instances with different
bounds, of different modules: what people change about one run (and its shared document);
what several people have open at once (templates, accounts); decisions taken in two places at
once (two deployments, a topic batch, the Python executor); and the two other workflows with
the Python executor. The variable `scene` says which
instance a behaviour is about and never changes, so one run explores them all; the variables
of each instance are mapped to the slots `s1`, `s2`, ... Each property of such a module is
the conjunction of the instances' properties, for the scenes it is about, and its comment
names them. `MCRunEditing` extends `RunEditing`, `MCDesk` extends `Accounts`, `MCDecisions`
extends `TopicBatch` and `MCWorkflows` extends `RunExecutor`: these four components are in their
own variables, and their properties are checked under their own names (`NoSilentLoss`,
`HistoryIsTrue`, `AnAdminRemains`, `DeniedIsKeptOut`, `RunsMatchCandidates`,
`StatusFollowsCandidates`, `ResolvedIsFinal`, `RunIsDriven`), which are the names the theorems state.

`SingleSiteRun` extends `ProductionRun` and instantiates `RunContract`. `CmsPublish`
opens up two actions of `ProductionRun`: `PushToCms` (any number of attempts, each with
its outcomes) and `TargetMismatch` (a free choice there, computed from the pin here).
`RunStream` opens up the code behind `Announce`; the run only needs that an emit can fail.

### ProductionRun

`row` is the part of `content_tool.runs` that steers the run. `req[c]` is the handler
that serves client `c`: its `pc` is the next statement and its fields are the handler's
locals (`status`, `prior` = `priorIteration`, `checked` = the pre-flight ran and a pin
was computed). `wf[d]` is the instance on deployment `d`: its next durable step, its
revision counter, the events buffered for each gate, and the `gate-hitl2-N` steps it has
recorded. A text is a number, its order of writing; `seen`, `decided` and a request's
`view` are history that the code does not have.

| Actions | Code |
|---|---|
| `CreateRun`, `LaunchInstance` | `POST /`: the insert, then `PRODUCTION.create`, which may throw |
| `ClaimHitl1`, `OverrideRoute`, `SendHitl1`, `UndoHitl1` | `POST /:id/resume` |
| `ReadHitl2`, `PreflightHitl2`, `ClaimHitl2`, `EditRender`, `SendHitl2`, `UndoHitl2` | `POST /:id/hitl-2`: select, publish guards and pin, conditional claim, inline edits, event or rescue, compensation |
| `SaveArticle`, `RereadPost` | `PUT /:id/article`, `POST /:id/existing-post/refresh` |
| `ReadFailure`, `ClaimRestart`, `RestartInstance`, `UndoRestart` | `POST /:id/restart` |
| `Load` ... `Revise` | the steps of `runPipeline`, one action each |
| `Fail`, `PersistError` | a step that fails for good or a gate that times out; `on-error-persist` |

Choices worth knowing:

- A restart that names no step is a full replay (the comment at `routes/runs.ts:656-660`);
  a restarted instance gets only events sent after its restart. Both are the platform's
  behaviour, taken from how the code uses it (marked external).
- The pages send no body with a restart, and the handler names the step of a gate after a
  mismatch. A client of the API may name any recorded step; the model has the gates'
  (`FromGate1`, `FromGate`), which write the status of their gate again.
- What a decision was looking at (`view`) is what the run shows when the request is sent. A page
  that was loaded before a save, or before a revision that somebody else asked for, is left out.
- Events of one type are received in the order they were sent. `sendEvent` to a stopped
  or missing instance throws; it may also throw for a live one.
- `edit_outline` acts like `approve` at the first gate; the edited outline is data.
- The audit's verdict is a free choice. Retries of a step leave the same state, except in
  `CmsPublish`, where they are modelled. `on-error-persist` is assumed to succeed.
- The two statements of `SaveArticle` are one action. The race this hides is in the
  hazards.

### CmsPublish

`push[a]` is what a pusher does: the publish step, or a republish request. An upsert
counts its attempts; an attempt at a create is stored and answered, stored and the answer
lost, refused, or still under way when the client gives up (`Land` stores it later).
After a lost answer `ReadBack...` looks for the slug: found, absent (retry), or unknown
(throw). A step that throws is run again, up to `StepTries`. `approvedFor` is history: the
posts that an approver agreed to overwrite. A text is ours or not ours. The reads of one
load are one moment; persona and target edits during a run are left out; a slug that the
CMS makes up is one value, `CmsSlug`. An approval stores the slug, and so does `PUT /:id/article` at
any status (`SaveArticle`), but not while an upsert is under way: that bound is needed, because
a push that looks for its post by the old slug does not see a post that another one has just
given the new slug, and `OnePostPerUpsert` fails.

`kind` is the target of the run's voice. The publish step of a Ghost voice uses
`GhostCreate`, `GhostReadBack` and `GhostUpdate`, which try once and record `cms_post_id`;
everything else of the program knows WordPress only. There are two sites, the voice's own and
the default WordPress: for a WordPress voice all is on the first, while a republish of a
Ghost voice's run ends up on the second (`Site`).

### RunStream

An append is persisted, numbered and queued, then broadcast (`call[e].todo` is what is
left); thinking events skip some of it. A read of the object's storage and the write that
follows it are one action, as the platform's gates make them. The alarm takes the queue,
inserts outside the gate, and puts the rows back when the insert fails; a failed insert
may have committed. `Crash` loses memory and keeps storage. `lost` is history: the
numbers that were in a snapshot when the object crashed.

### TopicBatch

`wf` is the expansion workflow (`topic-gen`, fan-out, chunks of analyses, `aggregate`,
`on-error-persist`), `req[r]` a request between two of its statements, `page` the status
that the batch page shows and by which it offers actions. A candidate's verdict is
`analysed` and `last_error`; what the model writes is left out. `contested` is history: the
candidates that were validated twice at once, by two requests or by one that names the candidate
twice (`twice`: the list of a promotion is not de-duplicated), for which the code has no guard.

### RunEditing, LedgerDrawer, ReviewNotes, ReviewChanges

What people change about one run, each by itself: the four share no state but the run.

- `RunEditing`: a text is the set of edits it holds on top of the generated draft; a save is
  a message that is stored and answered, in any order, or lost. `excused` is history: edits
  that were thrown away by somebody, or in one of the ways the code accepts (listed below).
- `LedgerDrawer`: a value is the number of the edit that made it, so "an older value" means
  something. A tab has two cached copies of the row and seeds its form from one of them.
- `ReviewNotes`: a note is the number of its highlight. Replies are a read and a write;
  the deletion of a run is the handler's statements one by one.
- `ReviewChanges`: an article is a short sequence of tokens, and the document the sequence of
  all characters ever typed, with who typed and who erased each. `Diffs` is every comparison
  with as few differences as possible, since which one the library picks is not the code's;
  `Parts` builds the parts from it as the page indexes them. `Annotate` is the walk with two
  cursors that gives each change a name. Tags, white space, FAQ widgets and anchors are left
  out.

### RunDoc

A document is the set of operations it has, and a merge is a union. The object answers a
connection with a grant and its document, relays what is new, and persists on a timer to
its storage and to the database; either may fail, and the object may be lost. A page seeds,
hydrates from the newest version of the history, and types.

### RunExecutor

`task` is the entry that `RunExecutor._tasks` holds in memory: where `_run` is, and the state
update it was started with. `cp` is the LangGraph checkpoint in Postgres, as far as it routes:
the node that runs next and the channels its edges read (external, from how the code uses
`aupdate_state` and `astream`). A handler is split where another coroutine can run, so `req[r]`
stands after a commit, or between a read and the write that follows. `Crash` loses the task
and the handlers and boots again with `recover_orphaned`. Three histories name what the
properties exempt: `contested`, a decision recorded away from an open and idle gate 2 or a
counter written back stale; `crossed`, an answer to gate 1 that reached the graph elsewhere;
`excused`, a write that was lost in one of the ways that strand a run.

### RefreshScan

`queue` is the order of `next_scan_due_at`; a selection is a set of due articles (`Batches`) and
their order (`Ordered`), as the query's `WHERE`, `ORDER BY` and `LIMIT` give them. A tick selects, then scans in chunks whose
articles are durable steps of their own (`job`), with a budget reserved before the chunk
and refunded after it. The verdict on a page is computed as in the code (`Score`,
`Recommended`) from the counts that the checks give; which counts is a free choice.

### PromptStore

A text is its own sha. `page[e]` holds what a page has fetched, the sha it tracks, and its
buffer (library) or draft with the sha the draft began from (Studio). A save is one
transaction that takes the row's lock, then an invalidation of the one isolate that
served it. A voice that inherits its policy has no row yet and nothing to lock (`Inherits`).

### Accounts

A request of an admin is the handler's calls to GoTrue and its statements, one action each;
any of them may end it (`Fail`). Tokens carry whole seconds and a revocation the fraction
too. A person has one session and one token; the break-glass list is empty; the tickets of
streams are left out.

## What the runs check

Each run finishes within three minutes on two idle cores.

| Run | Shows | Bounds |
|---|---|---|
| `racing_desk` | two requests race each other and the workflow on one deployment: `StatusTracksStep`, `GateAgreement`, `FailedIsStopped`, `RoundCap`, `EndedIsLeftByFailureOnly`, and the refinement `KeepsContract` | 2 requests at a time, 2 decisions, 1 revision, 1 draft per round, 1 restart, edits at any time |
| `orderly_desk` | one request at a time and one decision for each opening: `ApproverOnRecord`, `GateIsInOrder` (an approval was validated, row and instance count the same revisions, and a target mismatch goes back to a gate that can reopen), `PublishedWasSeen` (what is posted was on the screen of whoever approved it); and a launched run always comes back to a gate, to `failed` or to its end (`Settles`) | 1 draft per round, 3 posts, 1 revision, 1 restart |
| `decisions` | `RunsMatchCandidates` (a candidate becomes one run, a skipped one none, and a run without an instance was reported), `StatusFollowsCandidates` (a batch is closed by what became of its candidates), `ResolvedIsFinal` (topic batch); `DecisionIsDone`: in the Python executor a verdict that was accepted is carried out, and what a run that a second deployment adopts puts on the site was seen by whoever approved it | 2 deployments, 2 drafts in the first round and 1 in the revision (`OneRevisedDraft`), 3 posts, no restart; 1 topic with two requests that race, 1 fault, 1 verdict asked for again; 3 requests at a run, 2 at a time, a cap of 2 |
| `event_log` | `AcceptedIsKept`, `QueueIsSound` (bounded, in order, never without an alarm), `ViewerMissesNothing`, `AcceptedIsLogged` | 2 emitters, 1 viewer, 2 events, buffer of 1, 1 failed flush, 1 crash, 1 review row |
| `cms_publish` | `OverwritesAreApproved`, `PostsAreOurs` (one post of an upsert, and the post on record is live and ours) | publish step and 1 republish, a voice on WordPress or on Ghost, 3 upserts of 2 attempts, 2 step runs, 1 restart, 1 late create (a behaviour has a third upsert, a restart or a late create, two of the three: `TwoOfThree`), a slug saved anew between two pushes, 2 articles, at most 2 posts created |
| `run_editing` | `NoSilentLoss`, `HistoryIsTrue` (gate), `FieldsKeep`, `DrawerIsCurrent` (ledger), `NotesMatch` (notes, also of a run that is deleted), `ChangesAreSound`, `ClickTakesWhatItShows` (tracked changes), `DocumentIsShared` (seeded once, converged, and what is unsaved is scheduled), `BackupsGrow` (shared document) | a tab that writes and one that reads, 2 edits, 2 saves, 1 version kept (after two listings that overlap, only one of the second edit and the second save: `OneOverlap`); a drawer beside a bulk selection, in one tab or two, 2 edits; 2 tabs, 2 notes or 3 messages; 2 people, 2 letters, 2 edits, or 1 edit and 1 of the model; 2 tabs on the document, 1 loss of the object, and 1 edit or 1 failure of a backup |
| `desk` | `HistoryIsChain`, `NoBlindOverwrite`, `TypingIsKept` (templates, policies), `AnAdminRemains`, `DeniedIsKeptOut` (accounts) | 2 editors in each pair of pages, 1 or 2 isolates, at most 2 texts typed and 2 versions, also of a voice that two editors save for the first time; 3 people, 2 of them admins, 2 requests, 1 tick of the clock |
| `workflows` | `ListsAreTrue` (a batch's status follows its candidates; a refresh scan leaves one open evaluation, none of a dismissed article, none of a page that passed, and the budget is kept), `BatchSettles` (topic batch), `DueIsScanned` (refresh scan), `RunIsDriven`, `ExecutorSettles` (Python executor) | a batch of 2 topics with 1 request; 1 article under a tick, a single scan and 2 dismissals, 2 faults; 2 articles in one chunk with a budget of 1, 1 fault; 2 articles and batches of 1; 2 requests at a run, 1 fault, 1 loss of the process |

A property of a run is often a conjunction of invariants that its module states one by one,
with the comment that says which code each is about: `QueueIsSound`, `PostsAreOurs`,
`DocumentIsShared`, `GateIsInOrder`, and those of the MC modules with several instances.
Outside the runs, the shared document was also explored with an edit, a failure and a loss of
the object together (2.2 million states), and the executor's three requests with a cap of 3. The
type invariant of a module is a conjunct of the first of them.

The bounds are the smallest that let each case meet each other one: two requests race for
one claim; one revision is enough to reach the cap, and a second draft to tell "the
latest" from "the first"; one restart follows a failure at any step; a buffer of one
overflows with the second milestone; two attempts have one read-back between them, and
three upserts let a republish follow a publish and its repetition, and two posts are what
any of the properties compares. A history of one version is pruned by the second save; two
edits are enough for one to be lost under the other; a chunk of two shares a budget of one;
two requests of admins are one overlap, or two steps of one story; two tokens are enough for
an insertion, a removal and a replacement beside a stretch that stays. `MaxPosts`,
`MaxRestarts`, `MaxUpserts`, `MaxLate`, `MaxEvents`, `MaxFailures`, `MaxCrashes`,
`MaxReviews`, `MaxCandidates`, `MaxRuns`, `MaxFaults`, `MaxVerdicts`, `MaxEdits`, `MaxSaves`,
`MaxNotes`, `MaxMessages`, `MaxAsked`, `MaxDismissals`, `MaxTexts`, `MaxVersions`, `MaxIds`,
`MaxTime` and `MaxRequests` bound the environment only. `MaxIterations`, `MaxRounds`,
`MaxAttempts`, `BufferSize`, `Concurrency`, `BatchSize`, `Cap` and `HITL2_SNAPSHOT_KEEP` are
the code's own limits made smaller.

Many properties name what they exempt, since the code has no guard there: overlapping
requests about one candidate, or one that names it twice (`contested`), first saves of a voice that
overlap and two writes of the Studio (`NoBlindOverwrite` lists them), overlapping replies (`raced`), overlapping
listings or persists (`overlapped`), a form that was legitimately behind (`foreign`), a
page's text that no longer follows the document (`behind`), a popover whose parts changed
(`moved`), admins who act on each other (`shaken`), half-done requests (`parted`), decisions that were
recorded away from their gate (`contested`, `crossed` of the executor). Such a
property says that these are the only ways to lose what it is about.

`CHECK_DEADLOCK FALSE` is everywhere: a run may be over, and the desk may do nothing.

Two switches separate what the code does from what it is used for. `OrderlyDesk` lets one
request be served at a time and one decision be posted for each opening of a gate;
`LateEdits` FALSE keeps saves and re-reads of the existing post to the open second gate,
before its decision. `PublishedWasSeen` and `ApproverOnRecord` need them: the code does
not stop a save between the approval and the publish step, nor a re-read while a run is
being published. `racing_desk` has neither restriction.

## Where the code and its comments differ

Four runs expect a violation, of something a comment says and the code does not do.
`PROJECT.json` quotes the lines.

| Run | What TLC finds |
|---|---|
| `duplicate_post` | the publish step, run again after its database write failed, creates a second post (a WordPress voice, as in the lines quoted; the publish step of a Ghost voice has the same shape) |
| `ghost_republish` | a republish always goes to a WordPress: for a run of a Ghost voice, whose target leaves the environment as it is, it creates a post on the default site, though the handler's comment says that nothing is pushed there silently |
| `lost_revision` | a revision starts again at iteration 0 while the gate and the publish step take the highest iteration: after a first round of two drafts the reviewer is shown, and may publish, the text from before the revision |
| `first_joiners` | two pages that join an empty document both fill it: the one that was not told to seed hydrates all the same, and the article is there twice |

The others were met while modelling, and the modules do what the code does:

- `routes/runs.ts:956-958` says that decisions are single-flighted; two at one gate are both
  claimed and both sent, because the claim leaves the status.
- `routes/runs.ts:888`: an approve read just before the gate opens skips the pre-flight that
  950-951 and 879-880 promise, and is claimed. `ApprovalWasChecked` holds for one request at
  a time.
- `production.ts:665`: an overridden route is stored, and the writer keeps the one loaded
  before the gate, against 216 and 286-287.
- `routes/runs.ts:77`: on the run's own deployment a failed `sendEvent` is answered as a
  success, through the duplicate create (73-75).
- `routes/runs.ts:2878`: a review row takes the number of an event still queued, whose insert
  then does nothing, against 2860-2862.
- `routes/source_policy.ts:140` calls the save of a policy one of optimistic concurrency. While
  the voice has no row, `FOR UPDATE` (193-198) locks nothing: two first saves both compare their sha
  with the inherited text and pass, and the upsert of the later one (222-229) replaces the text of the
  earlier, which its author never saw. Both are answered 200. `NoBlindOverwrite` and
  `HistoryIsChain` name this case, and the scene `firsts` of `MCDesk` reaches it with two different
  texts.
- `SourcePolicyEditor.tsx:233` gives a draft of the Studio the sha fetched last, and a revert from the
  Studio sends that sha too, so either may replace a text that the Studio did not display.
- `RunDrawer.tsx:86-87`: the fetched detail "keeps the open run authoritative"; a drawer that
  is opened again is seeded from the detail of the earlier opening and saves it.
- `useCmsAutosave.ts:228` flushes pending debounces on unmount, by its comment; it clears them.
- `BulkBar.tsx:64-72` leaves out the fields of Ghost and the schedule, and the approval
  (`routes/runs.ts:983-1003`) assigns null to every field it is not given.
- `routes/admin.ts:224-226`: adding a disabled person again "restores access"; the row becomes
  active and the ban in GoTrue stays.
- `routes/admin.ts:283-296` (and the delete route) refuses an admin's removal of the own role by
  comparing the identity in the token, while `loadRole` (447-454) falls back to the e-mail: somebody who was deleted and
  added again acts on with the old token and can disable themselves. `AnAdminRemains` names
  this case; the proof found it.
- `tracked-changes.ts:28-29`: the rejoined HTML stays valid; not when one hunk of a pair of
  tags is resolved without the other. Tags are not modelled.
- `collab-blame.ts`: characters that were typed and erased since, and accepted removals, stay
  among the erased ones and shift the names of removals.
- In the Python backend a third request of changes, which the cap of 3 rounds in the plans
  allows, ends the run: `graph/root.py:92` compares the round with `>=` after it was counted.
- `content_tool/api/routes/runs.py:445`: `/resume` does not look at the status, so a late
  answer to gate 1 moves a run that waits at gate 2 into a revision nobody asked for.
- A rejection that arrives late turns the graph of a published run, and then its row, to
  `rejected` in the Python backend; the post stays.
- `_IN_MOTION_STATUSES` lacks `publishing`: the Python regenerate is allowed while a run is
  being published, against its docstring ("Refused while the run is still in flight").
- `content_tool/api/routes/runs.py:867-869`: the number of a review row "does not race" the
  writer's counter in memory; the row takes a number the writer will use.
- Restoring a version is said to preserve current work first; it goes on when that save fails.

## Fairness

`Settles` assumes weak fairness of each instance's steps (the workflow engine resumes an
instance that can move) and of each request that is being served. It does not assume that
a step ever fails, that a gate times out or that anybody decides; it counts an open gate
and `failed` as places where a person takes over, and starts at the creation of the
instance. `event_log` assumes weak fairness of the alarm's handler only (the platform runs
an alarm that is set, and retries it); failed flushes are finite because Postgres comes
back. `BatchSettles` assumes weak fairness of the expansion workflow and of the poll of an
open batch page; nobody has to promote or close anything. `DueIsScanned` assumes weak
fairness of the Cron Trigger and of the steps of a tick it created, not of anybody who
presses a button; faults are bounded. `ExecutorSettles` assumes weak fairness of the task and
of each handler under way, since the event loop runs every coroutine that can run; it does not
assume that anybody answers a gate or that the process is ever lost. The other runs check safety only.

## What is proved

TLAPS checks these for every value of the constants: any number of requests, people, tabs,
posts, rounds, failures and restarts. A theorem that needs more than the constants' types says so
below. Each rests on an inductive invariant, for which its module proves that the initial
states have it and that each action keeps it, one action at a time and often through a lemma
on what a kind of action changes.

Some properties of the runs are conjunctions over several small instances, which only an MC
module can name (`HistoryIsChain`, `DocumentIsShared`, `NotesMatch`,
`ListsAreTrue`, `DecisionIsDone`, ...); the theorem states what each of those instances
is asked for, under the name the component gives it.

### `ProductionRun_proofs`

*Any number of deployments.* `TypeCorrect` and `RevisionsAreCapped` (`[]RoundCap`), from
`ConstantsAssumption` only. `TypeOK` is inductive: the latest draft exists when it is used
(`LatestExists`, from `GreatestNatural`), and a buffered decision is of its gate's kind. `RoundCap`
is not inductive: a compensation writes back the `prior` that its request read, and a rescued
instance continues from a claimed round. `RoundBound` adds that every `prior` still to be written
and every rescue is within the cap; the cap in the claim's `WHERE` clause and the one in the
workflow's dispatch are both needed.

*One deployment* (`SingleSite`), the desk as unruly as it likes. `StatusTracksStep` is inductive
beside `TypeOK`. It says which statuses the row can show at each step of the instance
(`StatusesAt`; a restart from a gate begins at the step that opens it), that only one request holds a claimed restart and then finds the instance errored,
that only one launches the instance, and that a decided request finds the instance there, so it
is never rescued a second time. From it follow `GatesAgree`, `FailedRunIsStopped`, the action
property `EndsAreKept`, and `ContractIsKept`: the initial states of the run map to those of
`RunContract` and each step to a step of it or to none (`HandlerStatus` for the handlers,
`StepStatus` for the workflow). With two deployments and a restart `GateAgreement` and
`FailedIsStopped` do not hold (the first instance can time out and write `failed` under the adopting
one), so the assumption is needed.

*One deployment and an orderly desk* (`Orderly`: `OrderlyDesk`, no late edits): what reaches the CMS
was on the screen of the approver (`PublishedTextWasSeen`), the run and the compliance log name that
approver (`ApprovalIsOnRecord`), and `SecondGateIsInOrder`. `OrderInv` adds to the status invariant
that the text an instance will publish is the one decided on (`SeenInv`), who decided
(`RecordInv`), that an approval under way was checked (`CheckInv`), that row and instance count the
same revisions (`CountInv`), and that a mismatch finds a gate that can reopen (`ReopenInv`).
`SecondGateIsInOrder` holds up to the first restart (`restarts <= 1`): a second restart brings
`MismatchReopensGate` down, since a restart that replays the run resets the instance's revisions and
not the row's.

### `CmsPublish_proofs`

`PublishingIsTyped`, from `LiveInv`: every id on record, pinned, or about to be written to is of a
post that exists. `OverwritesNeedApproval` and `PublishedPostIsLive` hold while no read-back takes a
post of somebody else (`[]ReadBackIsOurs`): a pusher past its pin check holds a post that is the run's
own or was approved (`WriteInv`). The condition is not vacuous and not free: the code recognises its
own post by the slug alone. `NewArticlesReadBackTheirOwn` discharges it for a new article whose
operator asks for no slug that is taken. For the refresh of an existing article TLC checks it.

### `RunStream_proofs`

`AcceptedStays`: every event that was numbered is in the log or in the queue under its number, or is one
of the named losses. `QueueSound`: the queue keeps its order and has an alarm. `ViewersMissNothing`.
They need where each call is between its writes (`TypeInv`), what a flush holds that is under way
(`KeptInv`), that snapshot and queue together are in order (`OrderInv`), and what each viewer was sent
(`ViewerInv`).

### `Editing_proofs`

*The shared document.* `DocumentStaysShared`: one page seeds, connected pages with nothing on the wire agree
with the object, and what the backups lack is scheduled. `BackupsOnlyGrow`: neither backup loses an operation.
The invariant accounts for the frames on each socket (`Wired`), for who has which operations (`Shared`),
for the grant (`Seeds`) and for what each backup was written from (`Backups`).

*The editor.* `EditsAreNotLost`: every edit that was typed is in a page, on its way, in the history or in what
was approved, or is one of the named losses. `StoredIsStored` (`[]HistoryIsTrue`): a save that was
acknowledged is in the history as long as retention keeps it, a page without unsaved changes shows a text
that was stored, and one page seeded the baseline. `PageInv` says where each edit is (`Somewhere`), which
saves and seeds are on their way and of which text (`Sent`), that each row of the history is of one
save, baselines first, and an acknowledged save is there unless the history is full of saved ones
(`InOrder`, `Numbered`, `Histories`), and who may still write the baseline (`Baseline`). `Sized` bounds the history by the
saves that were made, which makes `TypeOK` part of what is proved (`SizedMeans`). It assumes finitely many editors and that at least one version is kept.

*The destination fields.* `DrawerShowsTheRow`: a drawer at rest shows the row, but for the fields that others
stored since or that overlapping requests touched. `FieldsAreKept` is an action property: no store takes a field back,
unless its sender was legitimately behind on it. `DrawerInv` relates the three copies a tab keeps of a row (list,
detail, form) and the answers under way to the row, field by field (`Lists`, `Forms`, `Requests`), and says
that two requests of one tab, which may overtake each other, are both counted as behind (`Alone`).

*Highlights and threads.* `NotesAreMatched`, `MessagesAreKept` and `DeletionIsComplete`. `NotesInv`: ids and notes
belong to one thread each, a highlight has its composer, its thread or a request that will take it away (`Structure`); what
a request read of a thread is in it still, unless two replies overlapped (`Contents`); and each step of the deletion
leaves only what was written after it (`Swept`).

### `PromptStore_proofs`

`HistoryIsOneChain`: each version replaces the one before it, and the last is in force, which the lock and
the comparison of shas give (`ChainInv`). `StaleCachesAreForeign` (`FreshInv`): only an isolate
that did not take the save serves the old text. `NoTextIsOverwrittenUnseen` (`SeenInv`): whoever saved had
displayed what they replaced, because the sha a page sends is that of a text it showed. Three writes
are exempt by name: a first save that overlapped another, which passes the comparison without a row
to lock; a policy draft of the Studio; and a revert from the Studio. `TypedTextIsKept` is an action property. They assume that no
page is in both the library and the Studio.

### `Accounts_proofs`

`AdminStays`, for a nonempty set of eligible people: outside `shaken` everybody with a request under way is
an admin, and nobody's request is about the sender of another one (`AdminInv`), so no two requests
can remove the last two admins. `DeniedStaysOut`: who has no request left about them has a row and an
identity that agree (`CalmInv`), and no session from before a revocation can be refreshed
(`RevInv`). This is about revocations: a token older than the deletion of an account that was added
again is let in.

### `RunExecutor_proofs`

`RunStaysDriven` and `GatesStayParked`: a run in motion has a task that owns it, or its checkpoint fits
its status (`DriveInv`), outside the named ways to strand one. `DecisionsAreDone`: without a late answer
the graph publishes, or revises, only upon the decision for it (`DecisionInv`, with `GraphKnows` for
what the checkpoint remembers).

### `Workflows_proofs`

*Topic batches.* `CandidatesBecomeOneRun` (`[]RunsMatchCandidates`), `StatusIsEarned` (`[]StatusFollowsCandidates`) and
the action property `ResolutionsAreFinal`. The invariant has nine parts: types; rows refer to rows that are there (`Rows`);
the runs a promotion has made are its own and have no instance until it launches them (`Made`); a candidate outside
`contested` is being decided by one request, which does not name it twice (`Repeats`), and is still open, with at most one run that nobody was told of
(`Claims`); skipped ones have none (`Skips`); the page offers, and requests work, only after the last
candidate was inserted (`Phase`); and what the status `done` and `ready` stand for (`Done`,
`Verdicts`).

*Refresh scan.* `RefreshListStaysTrue` is about four properties. One evaluation is open: superseding and inserting are two
statements, so the invariant counts the scans between the two; outside `overlap` there is one at most, and then
nothing is open (`OneAtMost`). A dismissed article outside `excused` is in no scan and in no list, which with
`StepsAreListed` (an instance has steps only for what its list has, and only while it works on it) keeps a
rerun step from touching it (`Undisturbed`). The calls of a chunk fit what the chunks before have left of the cap: a
step has the allowance, or has used it, only for an article among the first `budget` of its chunk (`Budgeted`), so there
are no more calls than `budget`, whatever is rerun. And an article that passed the audit is not recommended.
It assumes finitely many articles, chunks of at least one, and a cap that is a number.

### Only model-checked

- Liveness (`Settles`, `AcceptedIsLogged`, `BatchSettles`, `DueIsScanned`, `ExecutorSettles`): fairness and ENABLED
  are beyond the prover.
- `OnePostPerUpsert`, and so `PostsAreOurs` as a whole: it does not hold for every value of the
  constants (two republishes at once, with an approval or a save of another slug between them, make
  two posts); `cms_publish` has one republish, and no save of a slug during an upsert.
- `PublishedWasSeen` on two deployments, without a restart (`decisions`).
- `ChangesAreSound` and `ClickTakesWhatItShows` (`ReviewChanges`): they speak of the longest common subsequence of two
  texts and of names that a fold numbers, which takes induction over data.
- The types of `RefreshScan`'s queue as TLC checks them (a `SelectSeq`); the proof has its own, `ScanTypes`.
- What a recursive definition or a fold computes for every input (`Parts` and `Annotate` in
  `ReviewChanges`): induction over data. No module here declares a RECURSIVE operator.

## Not modelled

- What agents write and how it is rendered, the checks of a page, the denial rules of a
  policy: data. The modules take their verdicts as free choices.
- The Gemini client's retries and stream; the setup page, personas and publish targets (single
  rows that an administrator edits).
- The read and the write of `PUT /:id/article` without `expected_version` are one action of
  `ProductionRun`; a revision between them would leave the edit in the older render.
- An executor of the Python backend without a WordPress client (`graph/root.py:49`), which the
  program never builds.
- A worker that dies inside a handler: it strands a run in `pending`, from which the code has
  no way out.
- The drawer's baseline of the body and of the SEO fields, which may be a minute old; carets,
  presence and reconnection of the shared document; anchors, tags and FAQ widgets inside a
  text.
- Of the Python predecessor: its event log, snapshots, threads, prompts, topic batches and
  refresh scan, whose ports to the Workers are modelled.
- Costs and tracing (output), the HTTP layer, migrations, evaluations and scripts.

The map covers about an eighth of the implementation's lines. Most of the rest has no state
of its own: forms and tables of the pages, types and schemas of requests, the API
client, SQL of declarative tables, prompt texts and their assembly, HTML rendering and
parsing, and the Python originals of modules that were ported.

## Plan

Theorems: `PublishedWasSeen` on two deployments, which needs what the adopting deployment
reads of the first one's run; `ReadBackIsOurs` for refresh runs without a taken slug; the tracked
changes of `ReviewChanges`.

Modules: the Gemini client with its retries, and the voices and publish targets beside
`PromptStore`.
