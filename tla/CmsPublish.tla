------------------------------ MODULE CmsPublish ------------------------------
(***************************************************************************)
(* Pushing one run to the CMS: the publish step of the workflow            *)
(* (workflows/production.ts, publish and publishToGhost), POST             *)
(* /runs/:id/republish (routes/runs.ts), the upserts they call             *)
(* (wordpress/client.ts, publishers/ghost.ts), the approval that pins the  *)
(* post to overwrite, and the CMS itself.  A voice publishes to a          *)
(* WordPress of its own or to a Ghost; beside it is the default WordPress. *)
(*                                                                         *)
(* A create is a POST and is not idempotent: an answer that is lost on the *)
(* way back says nothing of what the CMS did, so every retry first reads   *)
(* the slug back.  An update is a PUT and is simply retried.  The Ghost    *)
(* client tries once and reads the slug back after any failed create.      *)
(***************************************************************************)
EXTENDS Naturals, FiniteSets

CONSTANTS
    Step,         \* the workflow's publish step
    Requests,     \* POST /:id/republish requests
    Article,      \* ids of the posts other people put on a site
    Fresh,        \* ids the CMS gives to posts this program creates
    Slugs,        \* the slugs an operator may ask for
    ArticleSlug,  \* the one in the URL of the article a refresh run rewrites
    CmsSlug,      \* any slug the CMS makes up: from the title, or with a suffix
    NoSlug,       \* null
    NoPost,       \* null, for a post id
    Unpinned,     \* no pin: approved_target_kind is null
    Missing,      \* no such post on the CMS
    MaxAttempts,  \* attempts of one upsert
    StepTries,    \* runs of the publish step before it fails for good
    MaxUpserts,   \* bound: upserts in a behaviour
    MaxRestarts,  \* bound: restarts of a failed run
    MaxLate,      \* bound: creates the CMS stores after their client gave up on them
    ForeignSlug   \* TRUE: an operator may ask for the slug of somebody else's post

Posts == Article \cup Fresh
Pushers == Requests \cup {Step}

ASSUME PostIds == Article \cap Fresh = {} /\ NoPost \notin Posts /\ Unpinned \notin Posts \cup {NoPost}
ASSUME SlugNames == ArticleSlug \in Slugs /\ CmsSlug \notin Slugs \cup {NoSlug} /\ NoSlug \notin Slugs
ASSUME PusherNames == Step \notin Requests
ASSUME PublishBounds == /\ MaxAttempts \in Nat \ {0} /\ StepTries \in Nat \ {0}
                        /\ MaxUpserts \in Nat /\ MaxRestarts \in Nat
                        /\ MaxLate \in Nat /\ ForeignSlug \in BOOLEAN

VARIABLES
    mode,         \* runs.start_mode
    row,          \* the runs row, as far as publishing goes
    kind,         \* publish_targets.kind of the run's voice
    fetched,      \* fetched_articles: wp_post_id and cms_post_id
    wf,           \* the workflow instance: where it is and the run it loaded
    push,         \* what each pusher is doing
    posts,        \* the posts on the CMS
    inflight,     \* creates the CMS has received and will store later
    upserts,      \* number of upserts so far: the id of the newest
    restarts,     \* number of restarts so far
    approvedFor   \* history: the posts an approver agreed to overwrite

vars == <<mode, kind, row, fetched, wf, push, posts, inflight, upserts, restarts, approvedFor>>

-----------------------------------------------------------------------------
Someone == 0       \* instead of an upsert: the post is somebody else's
AnySlug == Slugs \cup {CmsSlug, NoSlug}
Ids == Posts \cup {NoPost}

Row == [status: {"hitl_2", "publishing", "published", "failed"},
        approved: BOOLEAN, mismatch: BOOLEAN, slug: Slugs \cup {NoSlug},
        pin: Ids \cup {Unpinned}, wp_pushed_post_id: Ids, cms_post_id: Ids, url: AnySlug]
Loaded == [own: Ids, url: AnySlug]
Sites == {"voice", "default"}
Post == [site: Sites, slug: AnySlug, ours: BOOLEAN, by: 0..MaxUpserts, late: BOOLEAN]

ASSUME MissingIsNoPost == Missing \notin Post

Push == [pc: {"idle", "load", "attempt", "readback", "save"}, tries: 0..StepTries,
         attempt: 0..MaxAttempts, post: Ids, slug: Slugs \cup {NoSlug},
         id: 0..MaxUpserts, got: Ids]

Idle == [pc |-> "idle", tries |-> 0, attempt |-> 0, post |-> NoPost, slug |-> NoSlug,
         id |-> Someone, got |-> NoPost]

OnSite(p) == posts[p] # Missing
Late(p) == OnSite(p) /\ posts[p].late
WithSlug(site, s) == {p \in Posts : OnSite(p) /\ posts[p].site = site /\ posts[p].slug = s}

(* A republish knows no Ghost: buildTargetEnv leaves the environment as it *)
(* is, which names the default WordPress.                                  *)
Ghost(a) == kind = "ghost" /\ a = Step
Site(a) == IF kind = "ghost" /\ a # Step THEN "default" ELSE "voice"

(* The slug the CMS stores for p when it is asked for s: a slug is unique, *)
(* so a taken one gets a suffix, and no slug keeps the old or is made up.  *)
SlugStored(p, site, s) ==
    IF s = NoSlug THEN IF OnSite(p) THEN posts[p].slug ELSE CmsSlug
    ELSE IF WithSlug(site, s) \subseteq {p} THEN s ELSE CmsSlug

Article0(site) ==
    [site |-> site, slug |-> ArticleSlug, ours |-> FALSE, by |-> Someone, late |-> FALSE]

(* What fetch_article stores: the post with the slug of the article's URL  *)
(* on the site of the voice, or none, also when the CMS did not answer.    *)
Nothing == [wp_post_id |-> NoPost, cms_post_id |-> NoPost]
Fetches == {Nothing} \cup
    IF mode = "create" THEN {}
    ELSE {IF kind = "ghost" THEN [Nothing EXCEPT !.cms_post_id = p]
                            ELSE [Nothing EXCEPT !.wp_post_id = p] : p \in WithSlug("voice", ArticleSlug)}

(* The run is at its second gate with a render.                            *)
Init ==
    /\ mode \in {"create", "refresh"} /\ kind \in {"wordpress", "ghost"}
    /\ posts \in [Posts -> {Missing} \cup {Article0(site) : site \in Sites}]
    /\ Cardinality({p \in Posts : posts[p] # Missing}) <= 1
    /\ \A p \in Posts : posts[p] # Missing =>
         p \in Article /\ (mode = "refresh" \/ ForeignSlug)
         /\ (kind = "wordpress" => posts[p].site = "voice")
    /\ fetched \in Fetches
    /\ row = [status |-> "hitl_2", approved |-> FALSE, mismatch |-> FALSE, slug |-> NoSlug,
              pin |-> Unpinned, wp_pushed_post_id |-> NoPost, cms_post_id |-> NoPost,
              url |-> IF mode = "refresh" THEN ArticleSlug ELSE NoSlug]
    /\ wf = [pc |-> "await", run |-> [own |-> NoPost, url |-> row.url]]
    /\ push = [a \in Pushers |-> Idle]
    /\ inflight = {} /\ upserts = 0 /\ restarts = 0 /\ approvedFor = {}

-----------------------------------------------------------------------------
(* The post an upsert writes, null for a new one.                          *)
OrElse(id, other) == IF id # NoPost THEN id ELSE other

resolvePostIdForSlug(id, url, s) ==
    IF id # NoPost /\ url # NoSlug /\ s # NoSlug /\ s # url THEN NoPost ELSE id

Own == IF kind = "ghost" THEN row.cms_post_id ELSE row.wp_pushed_post_id
Found0 == IF kind = "ghost" THEN fetched.cms_post_id ELSE fetched.wp_post_id

(* What the gate expects of a refresh: from the database.                  *)
Expected(s) == resolvePostIdForSlug(OrElse(Own, Found0), row.url, s)

(* What the publish step resolves: from the run it loaded at its start.    *)
Resolved ==
    resolvePostIdForSlug(IF mode = "refresh" THEN OrElse(wf.run.own, Found0)
                         ELSE wf.run.own, wf.run.url, row.slug)

(* What a republish writes: the slug rule is not applied, and the ids are  *)
(* those of WordPress.                                                     *)
Repushed == IF mode = "refresh" THEN OrElse(row.wp_pushed_post_id, fetched.wp_post_id)
            ELSE row.wp_pushed_post_id

(* assertPinnedTarget, and the pin a republish needs.                      *)
PinnedFor(post) == mode = "refresh" => row.pin = post

(* Fault for a mutant: a republish that asks for no pin.                  *)
RepublishUnpinned == TRUE

RepublishPinned ==
    mode = "refresh" /\ row.wp_pushed_post_id = NoPost => row.pin = fetched.wp_post_id

-----------------------------------------------------------------------------
(* The operator's side.                                                    *)

(* Unless ForeignSlug: nobody asks for a slug that somebody else's post    *)
(* has, but for the post that the run rewrites.                            *)
MayAskFor(s) ==
    ForeignSlug \/ \A p \in Posts : OnSite(p) /\ posts[p].slug = s /\ posts[p].by = Someone
                                   => Expected(s) = p

(* POST /:id/hitl-2 with "approve" at the gate, and the event it sends.    *)
Approve(s) ==
    /\ row.status = "hitl_2"
    /\ MayAskFor(s)
    /\ row' = [row EXCEPT !.approved = TRUE, !.slug = s,
                          !.pin = IF mode = "refresh" THEN Expected(s) ELSE Unpinned]
    /\ approvedFor' = IF mode = "refresh" THEN approvedFor \cup ({Expected(s)} \cap Posts)
                      ELSE approvedFor
    /\ wf' = [wf EXCEPT !.pc = "approved"]
    /\ UNCHANGED <<mode, kind, fetched, push, posts, inflight, upserts, restarts>>

Unapproved(r) == [r EXCEPT !.approved = FALSE, !.pin = Unpinned]

(* PUT /:id/article stores the slug at any status, and leaves an approval  *)
(* and its pin as they are; it cannot take a slug away.  Bound: not while  *)
(* an upsert is under way, whose read-back would look for another slug     *)
(* than the one a second push has given its post meanwhile.                *)
SaveArticle(s) ==
    /\ \A a \in Pushers : push[a].pc \in {"idle", "load"}
    /\ s # row.slug /\ MayAskFor(s)
    /\ row' = [row EXCEPT !.slug = s]
    /\ UNCHANGED <<mode, kind, fetched, wf, push, posts, inflight, upserts, restarts, approvedFor>>

(* POST /:id/existing-post/refresh finds the post the article's URL names, *)
(* on the WordPress that a republish writes to.                            *)
RereadPost ==
    /\ mode = "refresh"
    /\ \E p \in WithSlug(IF kind = "ghost" THEN "default" ELSE "voice", row.url) :
         /\ fetched' = [fetched EXCEPT !.wp_post_id = p]
         /\ row' = IF p # fetched.wp_post_id /\ row.approved /\ row.status # "published"
                   THEN Unapproved(row) ELSE row
    /\ UNCHANGED <<mode, kind, wf, push, posts, inflight, upserts, restarts, approvedFor>>

(* POST /:id/restart: after a target mismatch from the gate, keeping the   *)
(* steps before it; otherwise from the start, and the run is loaded again. *)
Restart ==
    /\ row.status = "failed" /\ wf.pc = "stopped" /\ restarts < MaxRestarts
    /\ restarts' = restarts + 1
    /\ row' = [row EXCEPT !.status = "hitl_2", !.mismatch = FALSE]
    /\ wf' = [pc |-> "await",
              run |-> IF row.mismatch THEN wf.run ELSE [own |-> Own, url |-> row.url]]
    /\ UNCHANGED <<mode, kind, fetched, push, posts, inflight, upserts, approvedFor>>

(* The site's editors replace the article: the old post is trashed and     *)
(* loses its slug to the new one.                                          *)
ReplaceArticle ==
    \E old \in WithSlug("voice", ArticleSlug), new \in Article :
        /\ posts[old].by = Someone /\ ~OnSite(new)
        /\ posts' = [posts EXCEPT ![old].slug = CmsSlug, ![new] = Article0("voice")]
        /\ UNCHANGED <<mode, kind, row, fetched, wf, push, inflight, upserts, restarts, approvedFor>>

-----------------------------------------------------------------------------
(* Beginning an upsert.                                                    *)

Begin(a, post) ==
    /\ upserts < MaxUpserts
    /\ upserts' = upserts + 1
    /\ push' = [push EXCEPT ![a] = [pc |-> "attempt", tries |-> push[a].tries, attempt |-> 1,
                                    post |-> post, slug |-> row.slug, id |-> upserts + 1,
                                    got |-> NoPost]]

(* The instance takes the approval and sets the status.                    *)
StartPublish ==
    /\ wf.pc = "approved"
    /\ wf' = [wf EXCEPT !.pc = "publish"]
    /\ row' = [row EXCEPT !.status = "publishing"]
    /\ push' = [push EXCEPT ![Step] = [Idle EXCEPT !.pc = "load", !.tries = 1]]
    /\ UNCHANGED <<mode, kind, fetched, posts, inflight, upserts, restarts, approvedFor>>

(* The step reads the row and resolves its target; a refresh asserts the   *)
(* pin before it writes.                                                   *)
LoadStep ==
    /\ push[Step].pc = "load" /\ PinnedFor(Resolved)
    /\ Begin(Step, Resolved)
    /\ UNCHANGED <<mode, kind, row, fetched, wf, posts, inflight, restarts, approvedFor>>

FailMismatch ==
    /\ push[Step].pc = "load" /\ ~PinnedFor(Resolved)
    /\ row' = [Unapproved(row) EXCEPT !.status = "failed", !.mismatch = TRUE]
    /\ wf' = [wf EXCEPT !.pc = "stopped"]
    /\ push' = [push EXCEPT ![Step] = Idle]
    /\ UNCHANGED <<mode, kind, fetched, posts, inflight, upserts, restarts, approvedFor>>

(* A republish looks at no status: only at the pin of a refresh that was   *)
(* never pushed.                                                           *)
Republish(a) ==
    /\ push[a].pc = "idle" /\ RepublishPinned
    /\ Begin(a, Repushed)
    /\ UNCHANGED <<mode, kind, row, fetched, wf, posts, inflight, restarts, approvedFor>>

-----------------------------------------------------------------------------
(* One attempt, as the CMS sees it and as the client does.                 *)

Stored(p, site, c, late) ==
    posts' = [posts EXCEPT ![p] = [site |-> site, slug |-> SlugStored(p, site, c.slug),
                                   ours |-> TRUE, late |-> late,
                                   by |-> IF OnSite(p) THEN posts[p].by ELSE c.id]]
Updated(a) ==
    LET p == push[a].post IN Stored(p, posts[p].site, push[a], posts[p].late)

Go(a, pc) == push' = [push EXCEPT ![a].pc = pc]
Got(a, p) == push' = [push EXCEPT ![a].pc = "save", ![a].got = p]

(* The POST is answered with the post it made; or it makes the post and    *)
(* the answer is lost; or nothing is made; or it is made later.            *)
PostAnswered(a) ==
    \E p \in Fresh : ~OnSite(p) /\ Stored(p, Site(a), push[a], FALSE) /\ Got(a, p) /\ UNCHANGED inflight

PostBlocked(a) ==
    /\ \/ \E p \in Fresh : ~OnSite(p) /\ Stored(p, Site(a), push[a], FALSE) /\ UNCHANGED inflight
       \/ UNCHANGED <<posts, inflight>>
       \/ /\ Cardinality(inflight) + Cardinality({p \in Fresh : Late(p)}) < MaxLate
          /\ inflight' = inflight \cup {[site |-> Site(a), slug |-> push[a].slug, id |-> push[a].id]}
          /\ UNCHANGED posts
    /\ Go(a, "readback")

(* The end of an attempt that may be tried again: the next one, or the     *)
(* error of the last.  An error inside the step runs the step again; its   *)
(* last error fails the run, while a republish just answers with it.       *)
Throw(a) ==
    IF a # Step
    THEN push' = [push EXCEPT ![a] = Idle] /\ UNCHANGED <<row, wf>>
    ELSE IF push[a].tries < StepTries
    THEN /\ push' = [push EXCEPT ![a] = [Idle EXCEPT !.pc = "load", !.tries = push[a].tries + 1]]
         /\ UNCHANGED <<row, wf>>
    ELSE /\ push' = [push EXCEPT ![a] = Idle]
         /\ row' = [row EXCEPT !.status = "failed"]
         /\ wf' = [wf EXCEPT !.pc = "stopped"]

NextAttempt(a) ==
    IF push[a].attempt < MaxAttempts
    THEN /\ push' = [push EXCEPT ![a].pc = "attempt", ![a].attempt = @ + 1]
         /\ UNCHANGED <<row, wf>>
    ELSE Throw(a)

AttemptCreate(a) ==
    /\ ~Ghost(a) /\ push[a].pc = "attempt" /\ push[a].post = NoPost
    /\ PostAnswered(a) \/ PostBlocked(a)
    /\ UNCHANGED <<mode, kind, row, fetched, wf, upserts, restarts, approvedFor>>

(* A PUT is applied and answered, or blocked with or without its effect.   *)
AttemptUpdate(a) ==
    /\ ~Ghost(a) /\ push[a].pc = "attempt" /\ push[a].post # NoPost
    /\ \/ Updated(a) /\ Got(a, push[a].post) /\ UNCHANGED <<row, wf>>
       \/ (Updated(a) \/ UNCHANGED posts) /\ NextAttempt(a)
    /\ UNCHANGED <<mode, kind, fetched, inflight, upserts, restarts, approvedFor>>

(* The CMS or its firewall refuses for good: 4xx, or 412.                  *)
AttemptRefused(a) ==
    /\ ~Ghost(a) /\ push[a].pc = "attempt"
    /\ Throw(a)
    /\ UNCHANGED <<mode, kind, fetched, posts, inflight, upserts, restarts, approvedFor>>

(* The gate of a create's retry.  A post with the slug is taken for the    *)
(* one the lost answer spoke of; none means the POST may be sent again; no *)
(* answer, or no slug to ask for, ends the upsert with an error.           *)
Found(a) == IF push[a].slug = NoSlug THEN {} ELSE WithSlug(Site(a), push[a].slug)

ReadBackFound(a) ==
    /\ ~Ghost(a) /\ push[a].pc = "readback"
    /\ \E p \in Found(a) : Got(a, p)
    /\ UNCHANGED <<mode, kind, row, fetched, wf, posts, inflight, upserts, restarts, approvedFor>>

ReadBackAbsent(a) ==
    /\ ~Ghost(a) /\ push[a].pc = "readback"
    /\ push[a].slug # NoSlug /\ Found(a) = {}
    /\ NextAttempt(a)
    /\ UNCHANGED <<mode, kind, fetched, posts, inflight, upserts, restarts, approvedFor>>

(* Fault for a mutant: a blocked read-back is read as proof of absence.    *)
ReadBackUnknownRetries(a) ==
    /\ ~Ghost(a) /\ push[a].pc = "readback"
    /\ NextAttempt(a)
    /\ UNCHANGED <<mode, kind, fetched, posts, inflight, upserts, restarts, approvedFor>>

ReadBackUnknown(a) ==
    /\ ~Ghost(a) /\ push[a].pc = "readback"
    /\ Throw(a)
    /\ UNCHANGED <<mode, kind, fetched, posts, inflight, upserts, restarts, approvedFor>>

(* GhostPublisher: a create is one POST, and whatever fails is read back   *)
(* by its slug once; a post that is not found, or no answer, is an error.  *)
GhostCreate ==
    /\ Ghost(Step) /\ push[Step].pc = "attempt" /\ push[Step].post = NoPost
    /\ PostAnswered(Step) \/ PostBlocked(Step)
    /\ UNCHANGED <<mode, kind, row, fetched, wf, upserts, restarts, approvedFor>>

GhostReadBack ==
    /\ Ghost(Step) /\ push[Step].pc = "readback"
    /\ \/ \E p \in Found(Step) : Got(Step, p) /\ UNCHANGED <<row, wf>>
       \/ Throw(Step)
    /\ UNCHANGED <<mode, kind, fetched, posts, inflight, upserts, restarts, approvedFor>>

(* An update reads updated_at and sends it along; a post that changed in   *)
(* between is a conflict, and an error like any other.                     *)
GhostUpdate ==
    /\ Ghost(Step) /\ push[Step].pc = "attempt" /\ push[Step].post # NoPost
    /\ \/ Updated(Step) /\ Got(Step, push[Step].post) /\ UNCHANGED <<row, wf>>
       \/ (Updated(Step) \/ UNCHANGED posts) /\ Throw(Step)
    /\ UNCHANGED <<mode, kind, fetched, inflight, upserts, restarts, approvedFor>>

(* The CMS gets round to a create its client has given up on.              *)
Land ==
    \E c \in inflight, p \in Fresh :
        /\ ~OnSite(p) /\ Stored(p, c.site, c, TRUE)
        /\ inflight' = inflight \ {c}
        /\ UNCHANGED <<mode, kind, row, fetched, wf, push, upserts, restarts, approvedFor>>

-----------------------------------------------------------------------------
(* The result goes on the row.  A republish of a refresh keeps the URL.    *)
Recorded(a) ==
    [row EXCEPT !.status = "published",
                !.wp_pushed_post_id = IF Ghost(a) THEN row.wp_pushed_post_id ELSE push[a].got,
                !.cms_post_id = IF Ghost(a) THEN push[a].got ELSE row.cms_post_id,
                !.url = IF a # Step /\ mode = "refresh" THEN row.url
                        ELSE posts[push[a].got].slug]

Save(a) ==
    /\ push[a].pc = "save"
    /\ row' = Recorded(a)
    /\ push' = [push EXCEPT ![a] = Idle]
    /\ wf' = IF a = Step THEN [wf EXCEPT !.pc = "published"] ELSE wf
    /\ UNCHANGED <<mode, kind, fetched, posts, inflight, upserts, restarts, approvedFor>>

(* The database is away: the error runs the whole step again, or is the    *)
(* republish's answer.                                                     *)
SaveFails(a) ==
    /\ push[a].pc = "save"
    /\ Throw(a)
    /\ UNCHANGED <<mode, kind, fetched, posts, inflight, upserts, restarts, approvedFor>>

(* A later step of the run, the compliance log for one, fails it.          *)
FailLater ==
    /\ wf.pc = "published"
    /\ row' = [row EXCEPT !.status = "failed"]
    /\ wf' = [wf EXCEPT !.pc = "stopped"]
    /\ UNCHANGED <<mode, kind, fetched, push, posts, inflight, upserts, restarts, approvedFor>>

-----------------------------------------------------------------------------
Upsert(a) ==
    \/ AttemptCreate(a) \/ AttemptUpdate(a) \/ AttemptRefused(a)
    \/ ReadBackFound(a) \/ ReadBackAbsent(a) \/ ReadBackUnknown(a)
    \/ Save(a) \/ SaveFails(a)

Next ==
    \/ \E s \in Slugs \cup {NoSlug} : Approve(s)
    \/ \E s \in Slugs : SaveArticle(s)
    \/ RereadPost \/ Restart \/ ReplaceArticle
    \/ StartPublish \/ LoadStep \/ FailMismatch \/ FailLater
    \/ \E a \in Requests : Republish(a)
    \/ \E a \in Pushers : Upsert(a)
    \/ GhostCreate \/ GhostReadBack \/ GhostUpdate
    \/ Land

Spec == Init /\ [][Next]_vars

-----------------------------------------------------------------------------
(* The state of publishing is well formed: rows, posts, pushers and        *)
(* creates in flight have their types.                                     *)
TypeOK ==
    /\ mode \in {"create", "refresh"} /\ kind \in {"wordpress", "ghost"} /\ row \in Row
    /\ fetched \in [wp_post_id: Ids, cms_post_id: Ids]
    /\ wf \in [pc: {"await", "approved", "publish", "published", "stopped"}, run: Loaded]
    /\ push \in [Pushers -> Push] /\ posts \in [Posts -> Post \cup {Missing}]
    /\ inflight \subseteq [site: Sites, slug: Slugs \cup {NoSlug}, id: 1..MaxUpserts]
    /\ upserts \in 0..MaxUpserts /\ restarts \in 0..MaxRestarts /\ approvedFor \subseteq Posts

(* A post somebody else made shows a text of this run only if an approver  *)
(* of the run agreed to overwrite that very post, whatever the re-reads,   *)
(* replaced articles, restarts and republishes since (target pin, issue    *)
(* #15, workflows/production.ts:1130-1137).                                *)
OverwritesAreApproved ==
    \A p \in Posts : OnSite(p) /\ posts[p].by = Someone /\ posts[p].ours
        => p \in approvedFor

(* However often answers are lost and POSTs repeated, one upsert makes at  *)
(* most one post that was stored by the time its attempt ended: what is    *)
(* left over can only be a create that the CMS stored later                *)
(* (wordpress/client.ts:337-338).                                          *)
OnePostPerUpsert ==
    \A p, q \in Posts :
        OnSite(p) /\ OnSite(q) /\ posts[p].by = posts[q].by /\ posts[p].by # Someone
        /\ ~posts[p].late /\ ~posts[q].late => p = q

(* A published run names a post that exists and shows a text of the run,   *)
(* also when the result was taken from a read-back.                        *)
RecordedPostIsLive ==
    row.status = "published" =>
        LET ids == {row.wp_pushed_post_id, row.cms_post_id} \ {NoPost}
        IN  ids # {} /\ \A p \in ids : OnSite(p) /\ posts[p].ours

(* A read-back meets no post of somebody else.                             *)
ReadBackIsOurs ==
    \A a \in Pushers : push[a].pc = "readback" => \A p \in Found(a) : posts[p].ours

(* What one upsert leaves behind is one post, and the post on record is    *)
(* one of ours, whatever answers were lost and steps repeated; while the   *)
(* operator asks for nobody else's slug, no read-back takes such a post.   *)
PostsAreOurs ==
    TypeOK /\ OnePostPerUpsert /\ RecordedPostIsLive /\ (ForeignSlug \/ ReadBackIsOurs)

(* A create run whose publish step is the only pusher makes one post, also *)
(* when the step is run again after an upsert or a database write failed   *)
(* ("gate every retry behind a slug read-back so a blocked-but-landed      *)
(* create never double-publishes", wordpress/client.ts:337-338).           *)
OnePostPerRun ==
    mode = "create" => Cardinality({p \in Posts : OnSite(p) /\ posts[p].by # Someone}) <= 1

(* A text of the run stays on the site of its voice ("never a silent push  *)
(* to Bowtie", routes/runs.ts:2594).                                       *)
PostsAreAtHome == \A p \in Posts : OnSite(p) /\ posts[p].ours => posts[p].site = "voice"

===============================================================================
