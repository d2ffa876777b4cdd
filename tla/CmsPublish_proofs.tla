--------------------------- MODULE CmsPublish_proofs ---------------------------
(***************************************************************************)
(* Proofs about CmsPublish, for any set of posts, slugs and requests: types*)
(* are kept and every id on record is of a post that is there; somebody    *)
(* else's post is overwritten only with an approval, and a published run   *)
(* names posts that show it.                                               *)
(***************************************************************************)
EXTENDS CmsPublish, TLAPS

(* What an id on record may be: null, or a post that is on the CMS.        *)
Live == {NoPost} \cup {p \in Posts : OnSite(p)}

\* What a call to the CMS holds, for a given set of live posts.
LiveIn(c, live) ==
    /\ c.post \in live /\ c.got \in live
    /\ c.pc = "save" => c.got # NoPost
    /\ c.pc \in {"attempt", "readback"} => c.id # Someone

\* The inductive invariant: every id on record is live.
LiveInv ==
    /\ TypeOK
    /\ fetched \in [wp_post_id: Live, cms_post_id: Live]
    /\ row.wp_pushed_post_id \in Live /\ row.cms_post_id \in Live /\ wf.run.own \in Live
    /\ row.pin \in Live \cup {Unpinned}
    /\ \A a \in Pushers : LiveIn(push[a], Live)
    /\ approvedFor \subseteq Live

(* Posts stay, whoever made them, and a text of the run stays too.         *)
PostsGrow ==
    /\ posts' \in [Posts -> Post \cup {Missing}]
    /\ \A p \in Posts : OnSite(p) => /\ OnSite(p)'
                                     /\ posts'[p].by = posts[p].by
                                     /\ posts[p].ours => posts'[p].ours

\* Live posts are ids, and null is live.
LEMMA LiveIds == Live \subseteq Ids
BY DEF Live, Ids

LEMMA NullLives == NoPost \in Live
BY DEF Live

\* What was live stays live when posts only grow.
LEMMA LiveGrows ==
    ASSUME PostsGrow
    PROVE  Live \subseteq Live'
BY DEF PostsGrow, Live

LEMMA SamePosts ==
    ASSUME TypeOK, UNCHANGED posts
    PROVE  PostsGrow /\ Live' = Live
BY DEF PostsGrow, Live, TypeOK, OnSite

\* The slug of a store and the post it makes have their types.
LEMMA SlugType ==
    ASSUME TypeOK, NEW p \in Posts, NEW site, NEW s \in Slugs \cup {NoSlug}
    PROVE  SlugStored(p, site, s) \in AnySlug
<1>1. OnSite(p) => posts[p].slug \in AnySlug BY DEF TypeOK, Post, OnSite
<1> QED BY <1>1 DEF SlugStored, AnySlug

LEMMA StoredPost ==
    ASSUME TypeOK, NEW p \in Posts, NEW site \in Sites, NEW c, c.slug \in Slugs \cup {NoSlug},
           c.id \in 0..MaxUpserts, NEW late \in BOOLEAN, Stored(p, site, c, late)
    PROVE  /\ PostsGrow
           /\ \A q \in Posts \ {p} : posts'[q] = posts[q]
           /\ OnSite(p)' /\ posts'[p].ours
           /\ posts'[p].by = IF OnSite(p) THEN posts[p].by ELSE c.id
<1> DEFINE new == [site |-> site, slug |-> SlugStored(p, site, c.slug), ours |-> TRUE, late |-> late,
                   by |-> IF OnSite(p) THEN posts[p].by ELSE c.id]
<1>1. posts' = [posts EXCEPT ![p] = new] BY DEF Stored
<1>2. new \in Post
    <2>1. (IF OnSite(p) THEN posts[p].by ELSE c.id) \in 0..MaxUpserts BY DEF TypeOK, Post, OnSite
    <2> QED BY <2>1, SlugType DEF Post
<1>3. new # Missing BY <1>2, MissingIsNoPost
<1>4. posts \in [Posts -> Post \cup {Missing}] BY DEF TypeOK
<1>5. new.ours = TRUE /\ new.late = late /\ new.site = site
      /\ new.by = IF OnSite(p) THEN posts[p].by ELSE c.id
    OBVIOUS
<1> HIDE DEF new
<1>6. posts'[p] = new /\ \A q \in Posts \ {p} : posts'[q] = posts[q] BY <1>1, <1>4
<1>7. PostsGrow
    <2>1. posts' \in [Posts -> Post \cup {Missing}] BY <1>1, <1>2, <1>4
    <2>2. ASSUME NEW q \in Posts, OnSite(q)
          PROVE  OnSite(q)' /\ posts'[q].by = posts[q].by /\ (posts[q].ours => posts'[q].ours)
        <3>1. CASE q = p BY <1>3, <1>5, <1>6, <2>2, <3>1 DEF OnSite
        <3>2. CASE q # p BY <1>6, <2>2, <3>2 DEF OnSite
        <3> QED BY <3>1, <3>2
    <2> QED BY <2>1, <2>2 DEF PostsGrow
<1> QED BY <1>3, <1>5, <1>6, <1>7 DEF OnSite

\* A call at rest holds nothing.
LEMMA IdleType ==
    /\ Idle \in Push /\ NoPost \in Live /\ Idle.post = NoPost /\ Idle.got = NoPost /\ Idle.pc = "idle"
    /\ \A t \in 0..StepTries : LET c == [Idle EXCEPT !.pc = "load", !.tries = t] IN
                                 c \in Push /\ c.post = NoPost /\ c.got = NoPost /\ c.pc = "load"
<1>1. 0 \in 0..MaxUpserts /\ 0 \in 0..StepTries /\ 0 \in 0..MaxAttempts BY PublishBounds
<1> QED BY <1>1 DEF Idle, Push, Ids, Someone, Live

\* The id an upsert expects or is resolved to is on record.
LEMMA ExpectedType ==
    ASSUME LiveInv, NEW s
    PROVE  Expected(s) \in Live
<1>1. Own \in Live /\ Found0 \in Live BY DEF LiveInv, Own, Found0
<1>2. OrElse(Own, Found0) \in Live BY <1>1 DEF OrElse
<1> QED BY <1>2, IdleType DEF Expected, resolvePostIdForSlug

LEMMA ResolvedType ==
    ASSUME LiveInv
    PROVE  Resolved \in Live /\ Repushed \in Live
<1>1. wf.run.own \in Live /\ Found0 \in Live BY DEF LiveInv, Found0
<1>2. OrElse(wf.run.own, Found0) \in Live BY <1>1 DEF OrElse
<1>3. Resolved \in Live BY <1>1, <1>2, IdleType DEF Resolved, resolvePostIdForSlug
<1>4. Repushed \in Live BY DEF LiveInv, Repushed, OrElse
<1> QED BY <1>3, <1>4

\* Nothing is on record at the start but what the instance was given.
LEMMA LiveInit == Init => LiveInv
<1> SUFFICES ASSUME Init PROVE LiveInv
    OBVIOUS
<1>0. 0 \in 0..MaxUpserts /\ 0 \in 0..MaxRestarts BY PublishBounds
<1>1. \A site \in Sites : Article0(site) \in Post
    BY <1>0, SlugNames DEF Article0, Post, Someone, AnySlug, Sites
<1>2. posts \in [Posts -> Post \cup {Missing}] BY <1>1 DEF Init
<1>3. \A site, s : WithSlug(site, s) \subseteq Live BY DEF WithSlug, Live
<1>4. fetched \in [wp_post_id: Live, cms_post_id: Live]
    <2>1. CASE fetched = Nothing BY <2>1, IdleType DEF Nothing
    <2>2. CASE \E p \in WithSlug("voice", ArticleSlug) :
                 fetched \in {[wp_post_id |-> NoPost, cms_post_id |-> p], [wp_post_id |-> p, cms_post_id |-> NoPost]}
        <3>1. PICK p \in Live : fetched \in {[wp_post_id |-> NoPost, cms_post_id |-> p],
                                            [wp_post_id |-> p, cms_post_id |-> NoPost]}
            BY <2>2, <1>3
        <3> QED BY <3>1, NullLives
    <2> QED BY <2>1, <2>2 DEF Init, Fetches, Nothing
<1>5. row \in Row /\ row.wp_pushed_post_id = NoPost /\ row.cms_post_id = NoPost /\ row.pin = Unpinned
    BY SlugNames DEF Init, Row, Ids, AnySlug
<1>6. wf \in [pc: {"await", "approved", "publish", "published", "stopped"}, run: Loaded] /\ wf.run.own = NoPost
    BY <1>5 DEF Init, Loaded, Ids, Row
<1>7. push \in [Pushers -> Push] /\ \A a \in Pushers : push[a] = Idle BY IdleType DEF Init
<1>8. \A a \in Pushers : LiveIn(push[a], Live) BY <1>7, IdleType DEF LiveIn
<1>9. fetched \in [wp_post_id: Ids, cms_post_id: Ids] BY <1>4, LiveIds
<1>10. TypeOK BY <1>0, <1>2, <1>5, <1>6, <1>7, <1>9 DEF Init, TypeOK
<1> QED BY <1>4, <1>5, <1>6, <1>8, <1>10, IdleType DEF LiveInv, Init

-----------------------------------------------------------------------------
(* What the parts of an attempt do. *)

\* The calls of all pushers, for a given set of live posts.
PushType(p, live) == p \in [Pushers -> Push] /\ \A b \in Pushers : LiveIn(p[b], live)

(* The ids on record, and what the row shows, stay as they are.            *)
RecordKept ==
    /\ row' \in Row /\ wf' \in [pc: {"await", "approved", "publish", "published", "stopped"}, run: Loaded]
    /\ row'.wp_pushed_post_id = row.wp_pushed_post_id /\ row'.cms_post_id = row.cms_post_id
    /\ row'.pin \in {row.pin, Unpinned} /\ wf'.run = wf.run
    /\ row'.status = "published" => row.status = "published"

\* One call is replaced, the others stay.
LEMMA PushSet ==
    ASSUME LiveInv, PostsGrow, NEW a \in Pushers, NEW c \in Push, LiveIn(c, Live'),
           push' = [push EXCEPT ![a] = c]
    PROVE  PushType(push', Live') /\ push'[a] = c /\ \A b \in Pushers \ {a} : push'[b] = push[b]
<1>1. Live \subseteq Live' BY LiveGrows
<1>2. push \in [Pushers -> Push] BY DEF LiveInv, TypeOK
<1>3. \A b \in Pushers : LiveIn(push[b], Live') BY <1>1 DEF LiveInv, LiveIn
<1>4. push'[a] = c /\ \A b \in Pushers \ {a} : push'[b] = push[b] BY <1>2
<1> QED BY <1>2, <1>3, <1>4 DEF PushType

\* A step that touches no post and no record keeps the invariant of the record.
LEMMA RecordSame ==
    ASSUME LiveInv, UNCHANGED <<row, wf>>
    PROVE  RecordKept
BY DEF LiveInv, TypeOK, RecordKept

(* Nothing new is written or recorded by a pusher that gives up.           *)
Resting(c) == c.post = NoPost /\ c.got = NoPost /\ c.pc \in {"idle", "load"}

\* A call that gives up, tries again, moves on or found a post keeps its type.
LEMMA ThrowType ==
    ASSUME LiveInv, PostsGrow, NEW a \in Pushers, Throw(a)
    PROVE  /\ RecordKept /\ PushType(push', Live')
           /\ Resting(push'[a]) /\ \A b \in Pushers \ {a} : push'[b] = push[b]
<1>1. NoPost \in Live' BY DEF Live
<1>2. \A c \in Push : Resting(c) => LiveIn(c, Live') BY <1>1 DEF Resting, LiveIn
<1>3. push[a] \in Push /\ row \in Row BY DEF LiveInv, TypeOK
<1>4. CASE a # Step
    <2>1. push' = [push EXCEPT ![a] = Idle] /\ UNCHANGED <<row, wf>> BY <1>4 DEF Throw
    <2>2. Resting(Idle) BY IdleType DEF Resting
    <2> QED BY <1>2, <2>1, <2>2, IdleType, PushSet, RecordSame
<1>5. CASE a = Step /\ push[a].tries < StepTries
    <2> DEFINE c == [Idle EXCEPT !.pc = "load", !.tries = push[a].tries + 1]
    <2>1. push' = [push EXCEPT ![a] = c] /\ UNCHANGED <<row, wf>> BY <1>5 DEF Throw
    <2>2. push[a].tries + 1 \in 0..StepTries BY <1>3, <1>5, PublishBounds DEF Push
    <2>3. c \in Push /\ Resting(c) BY <2>2, IdleType DEF Resting
    <2> HIDE DEF c
    <2> QED BY <1>2, <2>1, <2>3, PushSet, RecordSame
<1>6. CASE a = Step /\ ~(push[a].tries < StepTries)
    <2>1. push' = [push EXCEPT ![a] = Idle] BY <1>6 DEF Throw
    <2>2. Resting(Idle) BY IdleType DEF Resting
    <2>3. row' = [row EXCEPT !.status = "failed"] /\ wf' = [wf EXCEPT !.pc = "stopped"] BY <1>6 DEF Throw
    <2>4. RecordKept BY <1>3, <2>3 DEF RecordKept, Row, LiveInv, TypeOK
    <2> QED BY <1>2, <2>1, <2>2, <2>4, IdleType, PushSet
<1> QED BY <1>4, <1>5, <1>6

(* The pusher goes on with what it has.                                    *)
Going(a) == push'[a].post = push[a].post /\ push'[a].got = push[a].got

LEMMA NextAttemptType ==
    ASSUME LiveInv, PostsGrow, NEW a \in Pushers, push[a].pc \in {"attempt", "readback"}, NextAttempt(a)
    PROVE  /\ RecordKept /\ PushType(push', Live')
           /\ Resting(push'[a]) \/ Going(a)
           /\ \A b \in Pushers \ {a} : push'[b] = push[b]
<1>1. CASE push[a].attempt < MaxAttempts
    <2> DEFINE c == [push[a] EXCEPT !.pc = "attempt", !.attempt = push[a].attempt + 1]
    <2>1. push \in [Pushers -> Push] /\ push[a] \in Push BY DEF LiveInv, TypeOK
    <2>2. push' = [push EXCEPT ![a] = c] /\ UNCHANGED <<row, wf>> BY <1>1, <2>1 DEF NextAttempt
    <2>3. push[a].attempt + 1 \in 0..MaxAttempts BY <1>1, <2>1, PublishBounds DEF Push
    <2>4. c \in Push /\ c.post = push[a].post /\ c.got = push[a].got /\ c.id = push[a].id /\ c.pc = "attempt"
        BY <2>1, <2>3 DEF Push
    <2> HIDE DEF c
    <2>5. LiveIn(c, Live') BY <2>4, LiveGrows DEF LiveInv, LiveIn
    <2> QED BY <2>2, <2>4, <2>5, PushSet, RecordSame DEF Going
<1>2. CASE ~(push[a].attempt < MaxAttempts)
    BY <1>2, ThrowType DEF NextAttempt
<1> QED BY <1>1, <1>2

LEMMA GoType ==
    ASSUME LiveInv, PostsGrow, NEW a \in Pushers, push[a].pc = "attempt", Go(a, "readback")
    PROVE  /\ PushType(push', Live') /\ Going(a) /\ \A b \in Pushers \ {a} : push'[b] = push[b]
<1> DEFINE c == [push[a] EXCEPT !.pc = "readback"]
<1>1. push \in [Pushers -> Push] /\ push[a] \in Push BY DEF LiveInv, TypeOK
<1>2. push' = [push EXCEPT ![a] = c] BY <1>1 DEF Go
<1>3. c \in Push /\ c.post = push[a].post /\ c.got = push[a].got /\ c.id = push[a].id /\ c.pc = "readback"
    BY <1>1 DEF Push
<1> HIDE DEF c
<1>4. LiveIn(c, Live') BY <1>3, LiveGrows DEF LiveInv, LiveIn
<1> QED BY <1>2, <1>3, <1>4, PushSet DEF Going

LEMMA GotType ==
    ASSUME LiveInv, PostsGrow, NEW a \in Pushers, NEW p \in Posts, p \in Live', Got(a, p)
    PROVE  /\ PushType(push', Live') /\ push'[a].post = push[a].post /\ push'[a].got = p
           /\ \A b \in Pushers \ {a} : push'[b] = push[b]
<1> DEFINE c == [push[a] EXCEPT !.pc = "save", !.got = p]
<1>1. push \in [Pushers -> Push] /\ push[a] \in Push BY DEF LiveInv, TypeOK
<1>2. push' = [push EXCEPT ![a] = c] BY <1>1 DEF Got
<1>3. c \in Push /\ c.post = push[a].post /\ c.got = p /\ c.pc = "save"
    BY <1>1 DEF Push, Ids
<1> HIDE DEF c
<1>4. LiveIn(c, Live') BY <1>3, LiveGrows, PostIds DEF LiveInv, LiveIn
<1> QED BY <1>2, <1>3, <1>4, PushSet

(* No post of somebody else gets a text but the one that a writes to.      *)
Touches(a) ==
    /\ \A q \in Posts : OnSite(q)' /\ posts'[q].ours /\ posts'[q].by = Someone
                        => (OnSite(q) /\ posts[q].ours) \/ q = push[a].post
    /\ \A q \in Posts : posts'[q] # posts[q]
                        => posts'[q].ours /\ (OnSite(q) \/ posts'[q].by # Someone)

\* What an update and a create leave of a post.
LEMMA UpdatedType ==
    ASSUME LiveInv, NEW a \in Pushers, push[a].post # NoPost, Updated(a)
    PROVE  /\ PostsGrow /\ push[a].post \in Posts /\ push[a].post \in Live'
           /\ posts'[push[a].post].ours /\ Touches(a)
<1>1. push[a] \in Push /\ TypeOK BY DEF LiveInv, TypeOK
<1>2. PICK p \in Posts, c \in Push : p = push[a].post /\ c = push[a] /\ OnSite(p)
    BY <1>1 DEF LiveInv, LiveIn, Live
<1>3. posts[p] \in Post BY <1>1, <1>2 DEF TypeOK, OnSite
<1>4. PICK site \in Sites, late \in BOOLEAN : site = posts[p].site /\ late = posts[p].late
    BY <1>3 DEF Post
<1>5. c.slug \in Slugs \cup {NoSlug} /\ c.id \in 0..MaxUpserts BY <1>2 DEF Push
<1>6. Stored(p, site, c, late) BY <1>2, <1>4 DEF Updated
<1>7. /\ PostsGrow /\ \A q \in Posts \ {p} : posts'[q] = posts[q]
      /\ OnSite(p)' /\ posts'[p].ours
    BY <1>1, <1>5, <1>6, StoredPost
<1> QED BY <1>2, <1>7 DEF Touches, OnSite, Live

LEMMA MadeType ==
    ASSUME LiveInv, NEW a \in Pushers, NEW p \in Fresh, ~OnSite(p), NEW site \in Sites, NEW c,
           c.slug \in Slugs \cup {NoSlug}, c.id \in 0..MaxUpserts, c.id # Someone,
           NEW late \in BOOLEAN, Stored(p, site, c, late)
    PROVE  PostsGrow /\ p \in Posts /\ p \in Live' /\ posts'[p].ours /\ Touches(a)
<1>1. p \in Posts /\ TypeOK BY DEF Posts, LiveInv
<1>2. /\ PostsGrow /\ \A q \in Posts \ {p} : posts'[q] = posts[q]
      /\ OnSite(p)' /\ posts'[p].ours /\ posts'[p].by = c.id
    BY <1>1, StoredPost
<1> QED BY <1>1, <1>2 DEF Touches, OnSite, Live

\* Every call goes to one of the sites.
LEMMA SiteType == \A a : Site(a) \in Sites
BY DEF Site, Sites

(* What any step of an upsert does, the saving of its result apart.        *)
Took(a) ==
    /\ push'[a].post = push[a].post /\ push'[a].got \in Posts
    /\ \/ posts'[push'[a].got].ours
       \/ push[a].pc = "readback" /\ push'[a].got \in Found(a)

\* What one step of an upsert may do: to its call and to the posts it touches.
Attempted(a) ==
    /\ UNCHANGED <<mode, kind, fetched, upserts, restarts, approvedFor>>
    /\ inflight' \subseteq [site: Sites, slug: Slugs \cup {NoSlug}, id: 1..MaxUpserts]
    /\ PostsGrow /\ Touches(a) /\ RecordKept /\ PushType(push', Live')
    /\ Resting(push'[a]) \/ Going(a) \/ Took(a)
    /\ \A b \in Pushers \ {a} : push'[b] = push[b]

\* An upsert step that touches no post.
LEMMA UntouchedPosts ==
    ASSUME LiveInv, UNCHANGED posts, NEW a
    PROVE  PostsGrow /\ Touches(a) /\ Live' = Live
BY SamePosts DEF LiveInv, Touches, OnSite

\* Each step of an upsert is one of those.
LEMMA CreateAttempted ==
    ASSUME LiveInv, NEW a \in Pushers, push[a].pc = "attempt",
           PostAnswered(a) \/ PostBlocked(a),
           UNCHANGED <<mode, kind, row, fetched, wf, upserts, restarts, approvedFor>>
    PROVE  Attempted(a)
<1>1. push[a] \in Push /\ push[a].id # Someone BY DEF LiveInv, TypeOK, LiveIn
<1>2. push[a].slug \in Slugs \cup {NoSlug} /\ push[a].id \in 1..MaxUpserts /\ push[a].id \in 0..MaxUpserts
    BY <1>1 DEF Push, Someone
<1>3. inflight \subseteq [site: Sites, slug: Slugs \cup {NoSlug}, id: 1..MaxUpserts] /\ RecordKept
    BY RecordSame DEF LiveInv, TypeOK
<1>4. ASSUME NEW p \in Fresh, ~OnSite(p), Stored(p, Site(a), push[a], FALSE)
      PROVE  PostsGrow /\ p \in Posts /\ p \in Live' /\ posts'[p].ours /\ Touches(a)
    BY <1>1, <1>2, <1>4, MadeType, SiteType
<1>5. CASE PostAnswered(a)
    <2>1. PICK p \in Fresh : ~OnSite(p) /\ Stored(p, Site(a), push[a], FALSE) /\ Got(a, p) /\ UNCHANGED inflight
        BY <1>5 DEF PostAnswered
    <2>2. PostsGrow /\ p \in Posts /\ p \in Live' /\ posts'[p].ours /\ Touches(a) BY <1>4, <2>1
    <2>3. /\ PushType(push', Live') /\ push'[a].post = push[a].post /\ push'[a].got = p
          /\ \A b \in Pushers \ {a} : push'[b] = push[b]
        BY <2>1, <2>2, GotType
    <2> QED BY <1>3, <2>1, <2>2, <2>3 DEF Attempted, Took
<1>6. CASE PostBlocked(a)
    <2>1. PostsGrow /\ Touches(a)
        <3>1. CASE UNCHANGED posts BY <3>1, UntouchedPosts
        <3>2. CASE \E p \in Fresh : ~OnSite(p) /\ Stored(p, Site(a), push[a], FALSE) BY <1>4, <3>2
        <3> QED BY <1>6, <3>1, <3>2 DEF PostBlocked
    <2>2. inflight' \subseteq [site: Sites, slug: Slugs \cup {NoSlug}, id: 1..MaxUpserts]
        <3>1. [site |-> Site(a), slug |-> push[a].slug, id |-> push[a].id]
                \in [site: Sites, slug: Slugs \cup {NoSlug}, id: 1..MaxUpserts]
            BY <1>2, SiteType
        <3> QED BY <1>3, <1>6, <3>1 DEF PostBlocked
    <2>3. Go(a, "readback") BY <1>6 DEF PostBlocked
    <2>4. PushType(push', Live') /\ Going(a) /\ \A b \in Pushers \ {a} : push'[b] = push[b]
        BY <2>1, <2>3, GoType
    <2> QED BY <1>3, <2>1, <2>2, <2>4 DEF Attempted
<1> QED BY <1>5, <1>6

LEMMA ThrowAttempted ==
    ASSUME LiveInv, NEW a \in Pushers, Throw(a),
           UNCHANGED <<mode, kind, fetched, posts, inflight, upserts, restarts, approvedFor>>
    PROVE  Attempted(a)
<1>1. PostsGrow /\ Touches(a) BY UntouchedPosts
<1> QED BY <1>1, ThrowType DEF Attempted, LiveInv, TypeOK

LEMMA UpdateAttempted ==
    ASSUME LiveInv, NEW a \in Pushers, push[a].pc = "attempt", push[a].post # NoPost,
           \/ Updated(a) /\ Got(a, push[a].post) /\ UNCHANGED <<row, wf>>
           \/ (Updated(a) \/ UNCHANGED posts) /\ (NextAttempt(a) \/ Throw(a)),
           UNCHANGED <<mode, kind, fetched, inflight, upserts, restarts, approvedFor>>
    PROVE  Attempted(a)
<1>1. inflight' \subseteq [site: Sites, slug: Slugs \cup {NoSlug}, id: 1..MaxUpserts]
    BY DEF LiveInv, TypeOK
<1>2. CASE Updated(a) /\ Got(a, push[a].post) /\ UNCHANGED <<row, wf>>
    <2>1. /\ PostsGrow /\ push[a].post \in Posts /\ push[a].post \in Live'
          /\ posts'[push[a].post].ours /\ Touches(a)
        BY <1>2, UpdatedType
    <2> DEFINE p == push[a].post
    <2>2. Got(a, p) /\ p \in Posts /\ p \in Live' BY <1>2, <2>1
    <2>3. /\ PushType(push', Live') /\ push'[a].post = push[a].post /\ push'[a].got = p
          /\ \A b \in Pushers \ {a} : push'[b] = push[b]
        BY <2>1, <2>2, GotType
    <2> QED BY <1>1, <1>2, <2>1, <2>3, RecordSame DEF Attempted, Took
<1>3. CASE (Updated(a) \/ UNCHANGED posts) /\ (NextAttempt(a) \/ Throw(a))
    <2>1. PostsGrow /\ Touches(a) BY <1>3, UpdatedType, UntouchedPosts
    <2>2. /\ RecordKept /\ PushType(push', Live')
          /\ Resting(push'[a]) \/ Going(a)
          /\ \A b \in Pushers \ {a} : push'[b] = push[b]
        BY <1>3, <2>1, NextAttemptType, ThrowType
    <2> QED BY <1>1, <2>1, <2>2 DEF Attempted
<1> QED BY <1>2, <1>3

LEMMA FoundAttempted ==
    ASSUME LiveInv, NEW a \in Pushers, push[a].pc = "readback", NEW p \in Found(a), Got(a, p),
           UNCHANGED <<mode, kind, row, fetched, wf, posts, inflight, upserts, restarts, approvedFor>>
    PROVE  Attempted(a)
<1>1. PostsGrow /\ Touches(a) /\ Live' = Live BY UntouchedPosts
<1>2. p \in Posts /\ p \in Live BY DEF Found, WithSlug, Live
<1>3. /\ PushType(push', Live') /\ push'[a].post = push[a].post /\ push'[a].got = p
      /\ \A b \in Pushers \ {a} : push'[b] = push[b]
    BY <1>1, <1>2, GotType
<1> QED BY <1>1, <1>2, <1>3, RecordSame DEF Attempted, Took, LiveInv, TypeOK

LEMMA AgainAttempted ==
    ASSUME LiveInv, NEW a \in Pushers, push[a].pc = "readback", NextAttempt(a),
           UNCHANGED <<mode, kind, fetched, posts, inflight, upserts, restarts, approvedFor>>
    PROVE  Attempted(a)
<1>1. PostsGrow /\ Touches(a) BY UntouchedPosts
<1> QED BY <1>1, NextAttemptType DEF Attempted, LiveInv, TypeOK

\* The steps of a WordPress upsert together.
AttemptSteps(a) ==
    \/ AttemptCreate(a) \/ AttemptUpdate(a) \/ AttemptRefused(a)
    \/ ReadBackFound(a) \/ ReadBackAbsent(a) \/ ReadBackUnknown(a) \/ SaveFails(a)

\* Their effect, from the lemmas above.
LEMMA AttemptEffect ==
    ASSUME LiveInv, NEW a \in Pushers, AttemptSteps(a)
    PROVE  Attempted(a)
<1>1. CASE AttemptCreate(a) BY <1>1, CreateAttempted DEF AttemptCreate
<1>2. CASE AttemptUpdate(a) BY <1>2, UpdateAttempted DEF AttemptUpdate
<1>3. CASE AttemptRefused(a) BY <1>3, ThrowAttempted DEF AttemptRefused
<1>4. CASE ReadBackFound(a) BY <1>4, FoundAttempted DEF ReadBackFound
<1>5. CASE ReadBackAbsent(a) BY <1>5, AgainAttempted DEF ReadBackAbsent
<1>6. CASE ReadBackUnknown(a) BY <1>6, ThrowAttempted DEF ReadBackUnknown
<1>7. CASE SaveFails(a) BY <1>7, ThrowAttempted DEF SaveFails
<1> QED BY <1>1, <1>2, <1>3, <1>4, <1>5, <1>6, <1>7 DEF AttemptSteps

\* The steps of a Ghost upsert together.
GhostSteps == GhostCreate \/ GhostReadBack \/ GhostUpdate

\* Their effect.
LEMMA GhostEffect ==
    ASSUME LiveInv, GhostSteps
    PROVE  Attempted(Step)
<1>0. Step \in Pushers BY DEF Pushers
<1>1. CASE GhostCreate BY <1>0, <1>1, CreateAttempted DEF GhostCreate
<1>2. CASE GhostReadBack BY <1>0, <1>2, FoundAttempted, ThrowAttempted DEF GhostReadBack
<1>3. CASE GhostUpdate BY <1>0, <1>3, UpdateAttempted DEF GhostUpdate
<1> QED BY <1>1, <1>2, <1>3 DEF GhostSteps

-----------------------------------------------------------------------------
(* Every step. *)

\* The types of the workflow's state and of the ids read from the row.
Wfs == [pc: {"await", "approved", "publish", "published", "stopped"}, run: Loaded]
Fetched == [wp_post_id: Live, cms_post_id: Live]

(* The records and the pushers, checked against the posts there are now.   *)
RecordLives ==
    /\ row' \in Row /\ wf' \in Wfs /\ fetched' \in [wp_post_id: Live', cms_post_id: Live']
    /\ row'.wp_pushed_post_id \in Live' /\ row'.cms_post_id \in Live' /\ wf'.run.own \in Live'
    /\ row'.pin \in Live' \cup {Unpinned}

\* The invariant after a step in which posts only grow.
LEMMA LiveAgain ==
    ASSUME LiveInv, RecordLives, PushType(push', Live'), PostsGrow,
           approvedFor' \subseteq approvedFor \cup (Live \cap Posts),
           inflight' \subseteq [site: Sites, slug: Slugs \cup {NoSlug}, id: 1..MaxUpserts],
           UNCHANGED <<mode, kind>>, upserts' \in 0..MaxUpserts, restarts' \in 0..MaxRestarts
    PROVE  LiveInv'
<1>1. Live' \subseteq Ids BY DEF Live, Ids
<1>2. fetched' \in [wp_post_id: Ids, cms_post_id: Ids] BY <1>1 DEF RecordLives
<1>3. approvedFor' \subseteq Posts /\ approvedFor' \subseteq Live' BY LiveGrows DEF LiveInv, TypeOK
<1>4. TypeOK' BY <1>2, <1>3 DEF LiveInv, TypeOK, RecordLives, PushType, PostsGrow, Wfs
<1> QED BY <1>3, <1>4 DEF LiveInv, RecordLives, PushType

(* The ids on record go on being live, and a pin may be taken back.        *)
LEMMA RecordAgain ==
    ASSUME LiveInv, PostsGrow, RecordKept, UNCHANGED fetched
    PROVE  RecordLives
BY LiveGrows DEF LiveInv, RecordKept, RecordLives, Wfs

\* The calls after a step that leaves them.
LEMMA PushAgain ==
    ASSUME LiveInv, PostsGrow, UNCHANGED push
    PROVE  PushType(push', Live')
BY LiveGrows DEF LiveInv, TypeOK, PushType, LiveIn

\* What a read-back by slug finds is live.
LEMMA FoundLives == \A site, s : WithSlug(site, s) \subseteq Live \cap Posts
BY DEF WithSlug, Live

\* The invariant through a step of an upsert.
LEMMA LiveAttempted ==
    ASSUME LiveInv, NEW a \in Pushers, Attempted(a)
    PROVE  LiveInv'
<1>1. RecordLives BY RecordAgain DEF Attempted
<1>2. upserts' \in 0..MaxUpserts /\ restarts' \in 0..MaxRestarts BY DEF Attempted, LiveInv, TypeOK
<1> QED BY <1>1, <1>2, LiveAgain DEF Attempted

\* The invariant through the start of an upsert.
LEMMA LiveBegins ==
    ASSUME LiveInv, NEW a \in Pushers, NEW post \in Live, Begin(a, post),
           UNCHANGED <<mode, kind, row, fetched, wf, posts, inflight, restarts, approvedFor>>
    PROVE  LiveInv' /\ push'[a].post = post /\ push'[a].got = NoPost
           /\ \A b \in Pushers \ {a} : push'[b] = push[b]
<1> DEFINE c == [pc |-> "attempt", tries |-> push[a].tries, attempt |-> 1, post |-> post,
                 slug |-> row.slug, id |-> upserts + 1, got |-> NoPost]
<1>1. PostsGrow /\ Live' = Live BY SamePosts DEF LiveInv
<1>2. upserts + 1 \in 1..MaxUpserts BY PublishBounds DEF LiveInv, TypeOK, Begin
<1>3. 1 \in 0..MaxAttempts BY PublishBounds
<1>4. c \in Push
    <2>1. push[a].tries \in 0..StepTries /\ row.slug \in Slugs \cup {NoSlug}
        BY DEF LiveInv, TypeOK, Push, Row
    <2>2. upserts + 1 \in 0..MaxUpserts BY <1>2
    <2> QED BY <1>3, <2>1, <2>2, LiveIds DEF Push, Ids
<1>5. LiveIn(c, Live') BY <1>1, <1>2, NullLives DEF LiveIn, Someone
<1>6. push' = [push EXCEPT ![a] = c] BY DEF Begin
<1>7. c.post = post /\ c.got = NoPost OBVIOUS
<1> HIDE DEF c
<1>8. PushType(push', Live') /\ push'[a] = c /\ \A b \in Pushers \ {a} : push'[b] = push[b]
    BY <1>1, <1>4, <1>5, <1>6, PushSet
<1>9. RecordLives BY <1>1, RecordSame, RecordAgain
<1>10. upserts' \in 0..MaxUpserts BY <1>2 DEF Begin
<1>11. /\ inflight' \subseteq [site: Sites, slug: Slugs \cup {NoSlug}, id: 1..MaxUpserts]
       /\ restarts' \in 0..MaxRestarts
    BY DEF LiveInv, TypeOK
<1> QED BY <1>1, <1>7, <1>8, <1>9, <1>10, <1>11, LiveAgain

\* The row after a push was recorded.
LEMMA RecordedType ==
    ASSUME LiveInv, NEW a \in Pushers, push[a].pc = "save"
    PROVE  /\ push[a].got \in Posts /\ push[a].got \in Live
           /\ Recorded(a) \in Row
<1>1. push[a].got \in Posts /\ OnSite(push[a].got) BY DEF LiveInv, LiveIn, Live
<1>2. posts[push[a].got] \in Post BY <1>1 DEF LiveInv, TypeOK, OnSite
<1>3. posts[push[a].got].slug \in AnySlug /\ row \in Row BY <1>2 DEF Post, LiveInv, TypeOK
<1>4. Recorded(a) \in Row BY <1>1, <1>3 DEF Recorded, Row, Ids
<1> QED BY <1>1, <1>4 DEF Live

\* The invariant through the database write.
LEMMA LiveSave ==
    ASSUME LiveInv, NEW a \in Pushers, Save(a)
    PROVE  LiveInv'
<1>1. PostsGrow /\ Live' = Live BY SamePosts DEF LiveInv, Save
<1>2. push[a].got \in Live /\ row' \in Row BY RecordedType DEF Save
<1>3. row \in Row BY DEF LiveInv, TypeOK
<1>4. /\ row'.wp_pushed_post_id \in {row.wp_pushed_post_id, push[a].got}
      /\ row'.cms_post_id \in {row.cms_post_id, push[a].got} /\ row'.pin = row.pin
    BY <1>3 DEF Save, Recorded, Row
<1>5. wf' \in Wfs /\ wf'.run = wf.run BY DEF Save, LiveInv, TypeOK, Wfs
<1>6. RecordLives BY <1>1, <1>2, <1>4, <1>5 DEF RecordLives, LiveInv, Save
<1>7. LiveIn(Idle, Live') BY NullLives, <1>1, IdleType DEF LiveIn
<1>8. PushType(push', Live') BY <1>1, <1>7, IdleType, PushSet DEF Save
<1> QED BY <1>1, <1>6, <1>8, LiveAgain DEF Save, LiveInv, TypeOK

\* An editor who replaces an article leaves every post on the CMS.
LEMMA ReplaceGrows ==
    ASSUME LiveInv, ReplaceArticle
    PROVE  /\ PostsGrow
           /\ \A p \in Posts : OnSite(p)' /\ posts'[p].ours => OnSite(p) /\ posts[p].ours
<1>1. PICK old \in WithSlug("voice", ArticleSlug), new \in Article :
        /\ posts[old].by = Someone /\ ~OnSite(new)
        /\ posts' = [posts EXCEPT ![old].slug = CmsSlug, ![new] = Article0("voice")]
    BY DEF ReplaceArticle
<1>2. old \in Posts /\ OnSite(old) /\ new \in Posts /\ old # new BY <1>1 DEF WithSlug, Posts
<1> DEFINE trashed == [posts[old] EXCEPT !.slug = CmsSlug]
           fresh == Article0("voice")
<1>3. posts[old] \in Post /\ posts \in [Posts -> Post \cup {Missing}] BY <1>2 DEF LiveInv, TypeOK, OnSite
<1>4. trashed \in Post /\ trashed.by = posts[old].by /\ trashed.ours = posts[old].ours
    BY <1>3 DEF Post, AnySlug
<1>5. fresh \in Post
    <2>1. 0 \in 0..MaxUpserts BY PublishBounds
    <2> QED BY <2>1, SlugNames DEF Article0, Post, Someone, AnySlug, Sites
<1>6. posts' = [posts EXCEPT ![old] = trashed, ![new] = fresh] BY <1>1, <1>2, <1>3
<1> HIDE DEF trashed, fresh
<1>7. posts'[old] = trashed /\ posts'[new] = fresh /\ \A q \in Posts \ {old, new} : posts'[q] = posts[q]
    BY <1>2, <1>3, <1>6
<1>8. posts' \in [Posts -> Post \cup {Missing}] BY <1>3, <1>4, <1>5, <1>6
<1>9. PostsGrow
    <2> SUFFICES ASSUME NEW p \in Posts, OnSite(p)
                 PROVE  OnSite(p)' /\ posts'[p].by = posts[p].by /\ (posts[p].ours => posts'[p].ours)
        BY <1>8 DEF PostsGrow
    <2>1. CASE p = old BY <1>4, <1>7, <2>1, MissingIsNoPost DEF OnSite
    <2>2. CASE p \notin {old, new} BY <1>7, <2>2 DEF OnSite
    <2> QED BY <1>1, <2>1, <2>2
<1>10. \A p \in Posts : OnSite(p)' /\ posts'[p].ours => OnSite(p) /\ posts[p].ours
    <2>1. ~fresh.ours BY DEF fresh, Article0
    <2> QED BY <1>2, <1>4, <1>7, <2>1 DEF OnSite
<1> QED BY <1>9, <1>10

\* The invariant through every step.
LEMMA LiveStep == LiveInv /\ [Next]_vars => LiveInv'
<1> SUFFICES ASSUME LiveInv, [Next]_vars PROVE LiveInv'
    OBVIOUS
<1>0. /\ inflight \subseteq [site: Sites, slug: Slugs \cup {NoSlug}, id: 1..MaxUpserts]
      /\ upserts \in 0..MaxUpserts /\ restarts \in 0..MaxRestarts /\ row \in Row /\ wf \in Wfs
      /\ fetched \in Fetched
    BY DEF LiveInv, TypeOK, Wfs, Fetched
<1>00. UNCHANGED posts => PostsGrow /\ Live' = Live BY SamePosts DEF LiveInv
<1>1. ASSUME NEW s \in Slugs \cup {NoSlug}, Approve(s) PROVE LiveInv'
    <2>1. Expected(s) \in Live BY ExpectedType
    <2>2. row' \in Row /\ row'.wp_pushed_post_id = row.wp_pushed_post_id
          /\ row'.cms_post_id = row.cms_post_id /\ row'.pin \in {Expected(s), Unpinned}
        BY <1>0, <1>1, <2>1, LiveIds DEF Approve, Row
    <2>3. wf' \in Wfs /\ wf'.run = wf.run BY <1>0, <1>1 DEF Approve, Wfs
    <2>4. RecordLives BY <1>00, <1>0, <1>1, <2>1, <2>2, <2>3 DEF Approve, RecordLives, LiveInv
    <2>5. approvedFor' \subseteq approvedFor \cup (Live \cap Posts) BY <1>1, <2>1 DEF Approve
    <2>6. PushType(push', Live') BY <1>00, <1>1, PushAgain DEF Approve
    <2> QED BY <1>0, <1>00, <1>1, <2>4, <2>5, <2>6, LiveAgain DEF Approve
<1>2. CASE RereadPost
    <2>1. PICK p \in Live \cap Posts : fetched' = [fetched EXCEPT !.wp_post_id = p]
        BY <1>2, FoundLives DEF RereadPost
    <2>2. Live' = Live /\ PostsGrow BY <1>2, <1>00 DEF RereadPost
    <2>3. fetched' \in [wp_post_id: Live', cms_post_id: Live'] BY <1>0, <2>1, <2>2 DEF Fetched
    <2>4. RecordKept
        <3>1. UNCHANGED wf /\ row' \in {row, Unapproved(row)} BY <1>2 DEF RereadPost
        <3> QED BY <1>0, <3>1 DEF Unapproved, RecordKept, Row, Wfs
    <2>5. RecordLives BY <2>2, <2>3, <2>4 DEF RecordKept, RecordLives, LiveInv, Wfs
    <2>6. PushType(push', Live') BY <2>2, <1>2, PushAgain DEF RereadPost
    <2> QED BY <1>0, <1>2, <2>2, <2>5, <2>6, LiveAgain DEF RereadPost
<1>3. CASE Restart
    <2>1. row' \in Row /\ row'.wp_pushed_post_id = row.wp_pushed_post_id
          /\ row'.cms_post_id = row.cms_post_id /\ row'.pin = row.pin
        BY <1>0, <1>3 DEF Restart, Row
    <2>2. Own \in Live /\ row.url \in AnySlug BY <1>0 DEF Own, LiveInv, Row
    <2>3. [own |-> Own, url |-> row.url] \in Loaded BY <2>2, LiveIds DEF Loaded
    <2>4. wf' \in Wfs /\ wf'.run.own \in Live BY <1>0, <1>3, <2>2, <2>3 DEF Restart, Wfs, LiveInv
    <2>5. Live' = Live /\ PostsGrow BY <1>3, <1>00 DEF Restart
    <2>6. RecordLives BY <1>0, <1>3, <2>1, <2>4, <2>5 DEF RecordLives, LiveInv, Restart
    <2>7. PushType(push', Live') BY <2>5, <1>3, PushAgain DEF Restart
    <2>8. restarts' \in 0..MaxRestarts BY <1>0, <1>3, PublishBounds DEF Restart
    <2> QED BY <1>0, <1>3, <2>5, <2>6, <2>7, <2>8, LiveAgain DEF Restart
<1>4. CASE ReplaceArticle
    <2>9. PostsGrow BY <1>4, ReplaceGrows
    <2>10. RecordLives BY <1>4, <2>9, RecordSame, RecordAgain DEF ReplaceArticle
    <2>11. PushType(push', Live') BY <1>4, <2>9, PushAgain DEF ReplaceArticle
    <2> QED BY <1>0, <1>4, <2>9, <2>10, <2>11, LiveAgain DEF ReplaceArticle
<1>5. CASE StartPublish
    <2>1. Live' = Live /\ PostsGrow BY <1>5, <1>00 DEF StartPublish
    <2>2. RecordKept BY <1>0, <1>5 DEF StartPublish, RecordKept, Row, Wfs
    <2>3. 1 \in 0..StepTries BY PublishBounds
    <2> DEFINE c == [Idle EXCEPT !.pc = "load", !.tries = 1]
    <2>4. c \in Push /\ Resting(c) BY <2>3, IdleType DEF Resting
    <2>5. Step \in Pushers /\ push' = [push EXCEPT ![Step] = c] BY <1>5 DEF StartPublish, Pushers
    <2> HIDE DEF c
    <2>6. LiveIn(c, Live') BY <2>1, <2>4, NullLives DEF LiveIn, Resting
    <2>8. PushType(push', Live') BY <2>1, <2>4, <2>5, <2>6, PushSet
    <2>7. RecordLives BY <1>5, <2>1, <2>2, RecordAgain DEF StartPublish
    <2> QED BY <1>0, <1>5, <2>1, <2>7, <2>8, LiveAgain DEF StartPublish
<1>6. CASE LoadStep
    BY <1>6, ResolvedType, LiveBegins DEF LoadStep, Pushers
<1>7. CASE FailMismatch
    <2>1. Live' = Live /\ PostsGrow BY <1>7, <1>00 DEF FailMismatch
    <2>2. RecordKept BY <1>0, <1>7 DEF FailMismatch, Unapproved, RecordKept, Row, Wfs, Ids
    <2>3. LiveIn(Idle, Live') BY <2>1, NullLives, IdleType DEF LiveIn
    <2>4. PushType(push', Live') BY <1>7, <2>1, <2>3, IdleType, PushSet DEF FailMismatch, Pushers
    <2>5. RecordLives BY <1>7, <2>1, <2>2, RecordAgain DEF FailMismatch
    <2> QED BY <1>0, <1>7, <2>1, <2>4, <2>5, LiveAgain DEF FailMismatch
<1>8. CASE FailLater
    <2>1. Live' = Live /\ PostsGrow BY <1>8, <1>00 DEF FailLater
    <2>2. RecordKept BY <1>0, <1>8 DEF FailLater, RecordKept, Row, Wfs
    <2>3. PushType(push', Live') BY <1>8, <2>1, PushAgain DEF FailLater
    <2>4. RecordLives BY <1>8, <2>1, <2>2, RecordAgain DEF FailLater
    <2> QED BY <1>0, <1>8, <2>1, <2>3, <2>4, LiveAgain DEF FailLater
<1>9. ASSUME NEW a \in Requests, Republish(a) PROVE LiveInv'
    BY <1>9, ResolvedType, LiveBegins DEF Republish, Pushers
<1>10. ASSUME NEW a \in Pushers, AttemptSteps(a) PROVE LiveInv'
    BY <1>10, AttemptEffect, LiveAttempted
<1>11. CASE GhostSteps
    BY <1>11, GhostEffect, LiveAttempted DEF Pushers
<1>12. ASSUME NEW a \in Pushers, Save(a) PROVE LiveInv'
    BY <1>12, LiveSave
<1>13. CASE Land
    <2>1. PICK c \in inflight, p \in Fresh :
            ~OnSite(p) /\ Stored(p, c.site, c, TRUE) /\ inflight' = inflight \ {c}
        BY <1>13 DEF Land
    <2>2. c.site \in Sites /\ c.slug \in Slugs \cup {NoSlug} /\ c.id \in 0..MaxUpserts BY <1>0
    <2>3. PostsGrow BY <2>1, <2>2, StoredPost DEF Posts, LiveInv
    <2>4. RecordLives BY <1>13, <2>3, RecordSame, RecordAgain DEF Land
    <2>5. PushType(push', Live') BY <1>13, <2>3, PushAgain DEF Land
    <2> QED BY <1>0, <1>13, <2>1, <2>3, <2>4, <2>5, LiveAgain DEF Land
<1>14. CASE UNCHANGED vars
    <2>1. Live' = Live /\ PostsGrow BY <1>14, <1>00 DEF vars
    <2>2. RecordLives BY <1>14, <2>1, RecordSame, RecordAgain DEF vars
    <2>3. PushType(push', Live') BY <1>14, <2>1, PushAgain DEF vars
    <2> QED BY <1>0, <1>14, <2>1, <2>2, <2>3, LiveAgain DEF vars
<1>15. ASSUME NEW s \in Slugs, SaveArticle(s) PROVE LiveInv'
    <2>1. UNCHANGED wf /\ RecordKept BY <1>0, <1>15 DEF SaveArticle, RecordKept, Row, Wfs
    <2>2. Live' = Live /\ PostsGrow BY <1>15, <1>00 DEF SaveArticle
    <2>3. fetched' \in [wp_post_id: Live', cms_post_id: Live']
        BY <1>15, <2>2 DEF SaveArticle, LiveInv, RecordLives, Fetched
    <2>4. RecordLives BY <2>1, <2>2, <2>3 DEF RecordKept, RecordLives, LiveInv, Wfs
    <2>5. PushType(push', Live') BY <2>2, <1>15, PushAgain DEF SaveArticle
    <2> QED BY <1>0, <1>15, <2>2, <2>4, <2>5, LiveAgain DEF SaveArticle
<1> QED BY <1>1, <1>2, <1>3, <1>4, <1>5, <1>6, <1>7, <1>8, <1>9, <1>10, <1>11, <1>12, <1>13, <1>14, <1>15
        DEF Next, Upsert, AttemptSteps, GhostSteps

-----------------------------------------------------------------------------
(* Whose posts are written to. *)

\* Posts with a text of the run, and the posts an upsert may write to:
\* not somebody else's unless it was approved.
Mine == {NoPost} \cup {p \in Posts : OnSite(p) /\ posts[p].ours}
MayWrite == {NoPost} \cup {p \in Posts : OnSite(p) /\ (posts[p].by # Someone \/ p \in approvedFor)}

\* The inductive invariant: every call targets a post it may write to, and what
\* is recorded after it shows a text of the run.
WriteInv ==
    /\ OverwritesAreApproved
    /\ row.wp_pushed_post_id \in Mine /\ row.cms_post_id \in Mine /\ wf.run.own \in Mine
    /\ row.pin \in MayWrite \cup {Unpinned}
    /\ \A a \in Pushers : push[a].post \in MayWrite /\ push[a].got \in Mine
    /\ row.status = "published" => row.wp_pushed_post_id # NoPost \/ row.cms_post_id # NoPost

\* The run's own posts may be written, and stay its own.
LEMMA MineMayBeWritten ==
    ASSUME OverwritesAreApproved
    PROVE  Mine \subseteq MayWrite
BY DEF OverwritesAreApproved, Mine, MayWrite

LEMMA MineGrows ==
    ASSUME PostsGrow, approvedFor \subseteq approvedFor'
    PROVE  Mine \subseteq Mine' /\ MayWrite \subseteq MayWrite'
BY DEF PostsGrow, Mine, MayWrite

\* The condition at the start.
LEMMA WriteInit == Init => WriteInv
<1> SUFFICES ASSUME Init PROVE WriteInv
    OBVIOUS
<1>1. LiveInv BY LiveInit
<1>2. \A p \in Posts : OnSite(p) => ~posts[p].ours BY DEF Init, OnSite, Article0
<1>3. \A a \in Pushers : push[a].post = NoPost /\ push[a].got = NoPost BY IdleType DEF Init
<1>4. row.wp_pushed_post_id = NoPost /\ row.cms_post_id = NoPost /\ row.pin = Unpinned /\ row.status = "hitl_2"
      /\ wf.run.own = NoPost
    BY DEF Init
<1> QED BY <1>2, <1>3, <1>4 DEF WriteInv, OverwritesAreApproved, Mine, MayWrite

(* What a publish step may resolve to, and a republish.                    *)
LEMMA ResolvedMayBeWritten ==
    ASSUME LiveInv, WriteInv, PinnedFor(Resolved)
    PROVE  Resolved \in MayWrite
<1>1. Mine \subseteq MayWrite /\ NoPost \in Mine BY MineMayBeWritten DEF WriteInv, Mine
<1>2. CASE mode = "refresh"
    <2>1. row.pin = Resolved BY <1>2 DEF PinnedFor
    <2>2. Resolved # Unpinned BY ResolvedType, LiveIds, PostIds DEF Ids
    <2> QED BY <2>1, <2>2 DEF WriteInv
<1>3. CASE mode # "refresh" BY <1>1, <1>3 DEF Resolved, resolvePostIdForSlug, WriteInv
<1> QED BY <1>2, <1>3

\* What a republish resolves to may be written.
LEMMA RepushedMayBeWritten ==
    ASSUME LiveInv, WriteInv, RepublishPinned
    PROVE  Repushed \in MayWrite
<1>1. Mine \subseteq MayWrite BY MineMayBeWritten DEF WriteInv
<1>2. CASE mode = "refresh" /\ row.wp_pushed_post_id = NoPost
    <2>1. row.pin = fetched.wp_post_id /\ Repushed = fetched.wp_post_id
        BY <1>2 DEF RepublishPinned, Repushed, OrElse
    <2>2. fetched.wp_post_id # Unpinned BY LiveIds, PostIds DEF LiveInv, Ids
    <2> QED BY <2>1, <2>2 DEF WriteInv
<1>3. CASE ~(mode = "refresh" /\ row.wp_pushed_post_id = NoPost)
    BY <1>1, <1>3 DEF Repushed, OrElse, WriteInv
<1> QED BY <1>2, <1>3

(* A step that changes no post and pushes nothing, with the record as it   *)
(* was.                                                                    *)
LEMMA WriteKept ==
    ASSUME LiveInv, WriteInv, UNCHANGED <<posts, approvedFor>>, RecordKept,
           \A a \in Pushers : Resting(push'[a]) \/ push'[a] = push[a]
    PROVE  WriteInv'
<1>1. PostsGrow BY SamePosts DEF LiveInv
<1>2. Mine \subseteq Mine' /\ MayWrite \subseteq MayWrite' /\ NoPost \in Mine' /\ NoPost \in MayWrite'
    BY <1>1, MineGrows DEF Mine, MayWrite
<1>3. OverwritesAreApproved' BY DEF WriteInv, OverwritesAreApproved, OnSite
<1>4. \A a \in Pushers : push'[a].post \in MayWrite' /\ push'[a].got \in Mine'
    BY <1>2 DEF WriteInv, Resting
<1> QED BY <1>2, <1>3, <1>4 DEF WriteInv, RecordKept

\* The condition through a step of an upsert.
LEMMA WriteAttempted ==
    ASSUME LiveInv, WriteInv, ReadBackIsOurs, NEW a \in Pushers, Attempted(a)
    PROVE  WriteInv'
<1>1. Mine \subseteq Mine' /\ MayWrite \subseteq MayWrite' /\ NoPost \in Mine' /\ NoPost \in MayWrite'
    BY MineGrows DEF Attempted, Mine, MayWrite
<1>2. push[a].post \in MayWrite /\ push[a].got \in Mine BY DEF WriteInv
<1>3. OverwritesAreApproved'
    <2> SUFFICES ASSUME NEW p \in Posts, OnSite(p)', posts'[p].by = Someone, posts'[p].ours
                 PROVE  p \in approvedFor'
        BY DEF OverwritesAreApproved
    <2>1. CASE OnSite(p) /\ posts[p].ours
        BY <2>1 DEF Attempted, PostsGrow, WriteInv, OverwritesAreApproved
    <2>2. CASE p = push[a].post
        <3>1. p # NoPost BY PostIds
        <3>2. OnSite(p) /\ (posts[p].by # Someone \/ p \in approvedFor) BY <1>2, <2>2, <3>1 DEF MayWrite
        <3> QED BY <3>2 DEF Attempted, PostsGrow
    <2> QED BY <2>1, <2>2 DEF Attempted, Touches
<1>4. push'[a].post \in MayWrite' /\ push'[a].got \in Mine'
    <2>1. CASE Resting(push'[a]) \/ Going(a) BY <1>1, <1>2, <2>1 DEF Resting, Going
    <2>2. CASE Took(a)
        <3>1. CASE posts'[push'[a].got].ours
            <4>1. push'[a].got \in Live' BY DEF Attempted, PushType, LiveIn
            <4>2. push'[a].got \in Posts BY <2>2 DEF Took
            <4>3. push'[a].got \in Mine' BY <3>1, <4>1, <4>2, PostIds DEF Mine, Live
            <4> QED BY <1>1, <1>2, <2>2, <4>3 DEF Took
        <3>2. CASE push[a].pc = "readback" /\ push'[a].got \in Found(a)
            <4>1. push'[a].got \in Mine BY <3>2 DEF ReadBackIsOurs, Found, WithSlug, Mine
            <4> QED BY <1>1, <1>2, <2>2, <4>1 DEF Took
        <3> QED BY <2>2, <3>1, <3>2 DEF Took
    <2> QED BY <2>1, <2>2 DEF Attempted
<1>5. \A b \in Pushers : push'[b].post \in MayWrite' /\ push'[b].got \in Mine'
    BY <1>1, <1>4 DEF Attempted, WriteInv
<1> QED BY <1>1, <1>3, <1>5 DEF WriteInv, Attempted, RecordKept

\* The condition through the start of an upsert.
LEMMA WriteBegins ==
    ASSUME LiveInv, WriteInv, NEW a \in Pushers, NEW post \in MayWrite \cap Live, Begin(a, post),
           UNCHANGED <<mode, kind, row, fetched, wf, posts, inflight, restarts, approvedFor>>
    PROVE  WriteInv'
<1>1. PostsGrow BY SamePosts DEF LiveInv
<1>2. Mine \subseteq Mine' /\ MayWrite \subseteq MayWrite' /\ NoPost \in Mine' BY <1>1, MineGrows DEF Mine
<1>3. push'[a].post = post /\ push'[a].got = NoPost /\ \A b \in Pushers \ {a} : push'[b] = push[b]
    BY LiveBegins
<1>4. OverwritesAreApproved' BY DEF WriteInv, OverwritesAreApproved, OnSite
<1>5. \A b \in Pushers : push'[b].post \in MayWrite' /\ push'[b].got \in Mine' BY <1>2, <1>3 DEF WriteInv
<1> QED BY <1>2, <1>4, <1>5 DEF WriteInv

\* The condition through every step in which no read-back took a foreign post.
LEMMA WriteStep == LiveInv /\ WriteInv /\ ReadBackIsOurs /\ [Next]_vars => WriteInv'
<1> SUFFICES ASSUME LiveInv, WriteInv, ReadBackIsOurs, [Next]_vars PROVE WriteInv'
    OBVIOUS
<1>0. row \in Row /\ wf \in Wfs /\ push \in [Pushers -> Push] BY DEF LiveInv, TypeOK, Wfs
<1>00. UNCHANGED posts => PostsGrow BY SamePosts DEF LiveInv
<1>1. ASSUME NEW s \in Slugs \cup {NoSlug}, Approve(s) PROVE WriteInv'
    <2>1. Expected(s) \in Live BY ExpectedType
    <2>2. approvedFor \subseteq approvedFor' /\ PostsGrow /\ UNCHANGED posts BY <1>1, <1>00 DEF Approve
    <2>3. Mine \subseteq Mine' /\ MayWrite \subseteq MayWrite' BY <2>2, MineGrows
    <2>4. mode = "refresh" => Expected(s) \in MayWrite'
        <3> DEFINE x == Expected(s)
        <3>1. x \in Live /\ approvedFor' = (IF mode = "refresh" THEN approvedFor \cup ({x} \cap Posts) ELSE approvedFor)
            BY <1>1, <2>1 DEF Approve
        <3> HIDE DEF x
        <3>2. mode = "refresh" => x \in {NoPost} \cup {p \in Posts : posts'[p] # Missing /\ p \in approvedFor'}
            BY <2>2, <3>1 DEF Live, OnSite
        <3> QED BY <3>2 DEF MayWrite, OnSite, x
    <2>5. /\ row'.wp_pushed_post_id = row.wp_pushed_post_id /\ row'.cms_post_id = row.cms_post_id
          /\ row'.pin \in MayWrite' \cup {Unpinned} /\ row'.status = row.status /\ wf'.run = wf.run
        BY <1>0, <1>1, <2>4 DEF Approve, Row, Wfs
    <2>6. OverwritesAreApproved' BY <2>2 DEF WriteInv, OverwritesAreApproved, OnSite
    <2> QED BY <1>1, <2>3, <2>5, <2>6 DEF WriteInv, Approve
<1>2. CASE RereadPost
    <2>1. UNCHANGED <<wf, push, posts, approvedFor>> /\ row' \in {row, Unapproved(row)} BY <1>2 DEF RereadPost
    <2>2. RecordKept BY <1>0, <2>1 DEF Unapproved, RecordKept, Row, Wfs
    <2> QED BY <2>1, <2>2, WriteKept
<1>3. CASE Restart
    <2>1. /\ row'.wp_pushed_post_id = row.wp_pushed_post_id /\ row'.cms_post_id = row.cms_post_id
          /\ row'.pin = row.pin /\ row'.status = "hitl_2"
        BY <1>0, <1>3 DEF Restart, Row
    <2>2. wf'.run.own \in {wf.run.own, Own} BY <1>3 DEF Restart
    <2>3. UNCHANGED <<posts, approvedFor, push>> BY <1>3 DEF Restart
    <2>4. Mine \subseteq Mine' /\ MayWrite \subseteq MayWrite' BY <1>00, <2>3, MineGrows
    <2>5. OverwritesAreApproved' BY <2>3 DEF WriteInv, OverwritesAreApproved, OnSite
    <2> QED BY <2>1, <2>2, <2>3, <2>4, <2>5 DEF WriteInv, Own
<1>4. CASE ReplaceArticle
    <2>1. UNCHANGED <<row, wf, push, approvedFor>> BY <1>4 DEF ReplaceArticle
    <2>2. PostsGrow /\ \A p \in Posts : OnSite(p)' /\ posts'[p].ours => OnSite(p) /\ posts[p].ours
        BY <1>4, ReplaceGrows
    <2>3. Mine \subseteq Mine' /\ MayWrite \subseteq MayWrite' BY <2>1, <2>2, MineGrows
    <2>4. OverwritesAreApproved' BY <2>1, <2>2 DEF WriteInv, OverwritesAreApproved, PostsGrow
    <2> QED BY <2>1, <2>3, <2>4 DEF WriteInv
<1>5. CASE StartPublish
    <2>1. RecordKept BY <1>0, <1>5 DEF StartPublish, RecordKept, Row, Wfs
    <2>2. 1 \in 0..StepTries BY PublishBounds
    <2> DEFINE c == [Idle EXCEPT !.pc = "load", !.tries = 1]
    <2>3. Resting(c) BY <2>2, IdleType DEF Resting
    <2>4. push' = [push EXCEPT ![Step] = c] BY <1>5 DEF StartPublish
    <2> HIDE DEF c
    <2>5. \A a \in Pushers : Resting(push'[a]) \/ push'[a] = push[a] BY <1>0, <2>3, <2>4
    <2> QED BY <1>5, <2>1, <2>5, WriteKept DEF StartPublish
<1>6. CASE LoadStep
    BY <1>6, ResolvedType, ResolvedMayBeWritten, WriteBegins DEF LoadStep, Pushers
<1>7. CASE FailMismatch
    <2>1. RecordKept BY <1>0, <1>7 DEF FailMismatch, Unapproved, RecordKept, Row, Wfs, Ids
    <2>2. Resting(Idle) BY IdleType DEF Resting
    <2>3. \A a \in Pushers : Resting(push'[a]) \/ push'[a] = push[a] BY <1>0, <1>7, <2>2 DEF FailMismatch
    <2> QED BY <1>7, <2>1, <2>3, WriteKept DEF FailMismatch
<1>8. CASE FailLater
    <2>1. RecordKept BY <1>0, <1>8 DEF FailLater, RecordKept, Row, Wfs
    <2> QED BY <1>8, <2>1, WriteKept DEF FailLater
<1>9. ASSUME NEW a \in Requests, Republish(a) PROVE WriteInv'
    BY <1>9, ResolvedType, RepushedMayBeWritten, WriteBegins DEF Republish, Pushers
<1>10. ASSUME NEW a \in Pushers, AttemptSteps(a) PROVE WriteInv'
    BY <1>10, AttemptEffect, WriteAttempted
<1>11. CASE GhostSteps
    BY <1>11, GhostEffect, WriteAttempted DEF Pushers
<1>12. ASSUME NEW a \in Pushers, Save(a) PROVE WriteInv'
    <2>1. UNCHANGED <<posts, approvedFor>> BY <1>12 DEF Save
    <2>2. Mine \subseteq Mine' /\ MayWrite \subseteq MayWrite' /\ NoPost \in Mine' /\ NoPost \in MayWrite'
        BY <1>00, <2>1, MineGrows DEF Mine, MayWrite
    <2>3. OverwritesAreApproved' BY <2>1 DEF WriteInv, OverwritesAreApproved, OnSite
    <2>4. push[a].got \in Mine /\ push[a].got # NoPost BY <1>12 DEF Save, WriteInv, LiveInv, LiveIn
    <2>5. /\ row'.wp_pushed_post_id \in {row.wp_pushed_post_id, push[a].got}
          /\ row'.cms_post_id \in {row.cms_post_id, push[a].got} /\ row'.pin = row.pin
          /\ push[a].got \in {row'.wp_pushed_post_id, row'.cms_post_id}
        BY <1>0, <1>12 DEF Save, Recorded, Row
    <2>6. wf'.run = wf.run BY <1>0, <1>12 DEF Save, Wfs
    <2>7. \A b \in Pushers : Resting(push'[b]) \/ push'[b] = push[b]
        BY <1>0, <1>12, IdleType DEF Save, Resting
    <2>8. \A b \in Pushers : push'[b].post \in MayWrite' /\ push'[b].got \in Mine'
        BY <2>2, <2>7 DEF WriteInv, Resting
    <2> QED BY <2>2, <2>3, <2>4, <2>5, <2>6, <2>8 DEF WriteInv
<1>13. CASE Land
    <2>1. PICK c \in inflight, p \in Fresh : ~OnSite(p) /\ Stored(p, c.site, c, TRUE)
        BY <1>13 DEF Land
    <2>2. /\ c.site \in Sites /\ c.slug \in Slugs \cup {NoSlug} /\ c.id \in 0..MaxUpserts
          /\ c.id # Someone
        BY DEF LiveInv, TypeOK, Someone
    <2>3. /\ PostsGrow /\ \A q \in Posts \ {p} : posts'[q] = posts[q]
          /\ posts'[p].by = c.id
        BY <2>1, <2>2, StoredPost DEF Posts, LiveInv
    <2>4. UNCHANGED <<row, wf, push, approvedFor>> BY <1>13 DEF Land
    <2>5. Mine \subseteq Mine' /\ MayWrite \subseteq MayWrite' BY <2>3, <2>4, MineGrows
    <2>6. OverwritesAreApproved' BY <2>2, <2>3, <2>4 DEF WriteInv, OverwritesAreApproved, OnSite
    <2> QED BY <2>4, <2>5, <2>6 DEF WriteInv
<1>14. CASE UNCHANGED vars
    BY <1>14, RecordSame, WriteKept DEF vars
<1>15. ASSUME NEW s \in Slugs, SaveArticle(s) PROVE WriteInv'
    <2>1. UNCHANGED <<wf, push, posts, approvedFor>> BY <1>15 DEF SaveArticle
    <2>2. RecordKept BY <1>0, <1>15 DEF SaveArticle, RecordKept, Row, Wfs
    <2> QED BY <2>1, <2>2, WriteKept
<1> QED BY <1>1, <1>2, <1>3, <1>4, <1>5, <1>6, <1>7, <1>8, <1>9, <1>10, <1>11, <1>12, <1>13, <1>14, <1>15
        DEF Next, Upsert, AttemptSteps, GhostSteps

-----------------------------------------------------------------------------
(* The state of publishing keeps its types, and an id on record, a pin, a  *)
(* fetched id and the target of every upsert name a post that is there,    *)
(* through every lost answer, retry, restart and replaced article.         *)
THEOREM PublishingIsTyped == Spec => []TypeOK
<1>1. LiveInv => TypeOK BY DEF LiveInv
<1> QED BY <1>1, LiveInit, LiveStep, PTL DEF Spec

(* A post of somebody else is overwritten only by a read-back that takes   *)
(* it for the run's own: where none does, whatever else the operator asks  *)
(* for, every such post that shows a text of the run was approved for it.  *)
THEOREM OverwritesNeedApproval == Spec /\ []ReadBackIsOurs => []OverwritesAreApproved
<1>1. Spec => []LiveInv BY LiveInit, LiveStep, PTL DEF Spec
<1>2. WriteInv => OverwritesAreApproved BY DEF WriteInv
<1> QED BY <1>1, <1>2, WriteInit, WriteStep, PTL DEF Spec

(* Under the same condition a published run names posts that exist and     *)
(* show a text of the run.                                                 *)
THEOREM PublishedPostIsLive == Spec /\ []ReadBackIsOurs => []RecordedPostIsLive
<1>1. Spec => []LiveInv BY LiveInit, LiveStep, PTL DEF Spec
<1>2. WriteInv => RecordedPostIsLive BY DEF WriteInv, RecordedPostIsLive, Mine
<1> QED BY <1>1, <1>2, WriteInit, WriteStep, PTL DEF Spec

-----------------------------------------------------------------------------
(* Where there is nobody else's post, the condition holds.                 *)

\* The CMS holds what this program made, and a text of the run on all of it.
MadeHere == \A p \in Posts : OnSite(p) => posts[p].ours /\ posts[p].by # Someone
OwnInv == ~ForeignSlug /\ mode = "create" => MadeHere

\* Nothing is on the CMS of a new article's run.
LEMMA OwnInit == Init => OwnInv
BY DEF Init, OwnInv, MadeHere, OnSite

\* A step that makes posts, or leaves them, keeps that.
LEMMA OwnAttempted ==
    ASSUME LiveInv, OwnInv, NEW a \in Pushers, Attempted(a)
    PROVE  OwnInv'
<1> SUFFICES ASSUME ~ForeignSlug, mode = "create", NEW p \in Posts, OnSite(p)'
             PROVE  posts'[p].ours /\ posts'[p].by # Someone
    BY DEF OwnInv, MadeHere, Attempted
<1>1. CASE posts'[p] = posts[p] BY <1>1 DEF OwnInv, MadeHere, OnSite
<1>2. CASE posts'[p] # posts[p]
    <2>1. posts'[p].ours /\ (OnSite(p) \/ posts'[p].by # Someone) BY <1>2 DEF Attempted, Touches
    <2>2. OnSite(p) => posts'[p].by = posts[p].by BY DEF Attempted, PostsGrow
    <2> QED BY <2>1, <2>2 DEF OwnInv, MadeHere
<1> QED BY <1>1, <1>2

\* So does every other step: nobody can replace an article that is not there.
LEMMA OwnStep == LiveInv /\ OwnInv /\ [Next]_vars => OwnInv'
<1> SUFFICES ASSUME LiveInv, OwnInv, [Next]_vars PROVE OwnInv'
    OBVIOUS
<1>1. ASSUME UNCHANGED <<mode, posts>> PROVE OwnInv' BY <1>1 DEF OwnInv, MadeHere, OnSite
<1>2. CASE ReplaceArticle BY <1>2 DEF ReplaceArticle, OwnInv, MadeHere, WithSlug
<1>3. ASSUME NEW a \in Pushers, AttemptSteps(a) PROVE OwnInv'
    BY <1>3, AttemptEffect, OwnAttempted
<1>4. CASE GhostSteps BY <1>4, GhostEffect, OwnAttempted DEF Pushers
<1>5. CASE Land
    <2>1. PICK c \in inflight, p \in Fresh : ~OnSite(p) /\ Stored(p, c.site, c, TRUE)
        BY <1>5 DEF Land
    <2>2. /\ c.site \in Sites /\ c.slug \in Slugs \cup {NoSlug} /\ c.id \in 0..MaxUpserts
          /\ c.id # Someone
        BY DEF LiveInv, TypeOK, Someone
    <2>3. posts'[p].ours /\ posts'[p].by = c.id /\ \A q \in Posts \ {p} : posts'[q] = posts[q]
        BY <2>1, <2>2, StoredPost DEF Posts, LiveInv
    <2> QED BY <1>5, <2>2, <2>3 DEF Land, OwnInv, MadeHere, OnSite
<1>6. CASE UNCHANGED vars BY <1>1, <1>6 DEF vars
<1>7. CASE \/ \E s \in Slugs \cup {NoSlug} : Approve(s)
           \/ \E s \in Slugs : SaveArticle(s)
           \/ RereadPost \/ Restart \/ StartPublish \/ LoadStep \/ FailMismatch \/ FailLater
           \/ \E a \in Requests : Republish(a)
           \/ \E a \in Pushers : Save(a)
    BY <1>1, <1>7 DEF Approve, SaveArticle, RereadPost, Restart, StartPublish, LoadStep, FailMismatch, FailLater,
        Republish, Save
<1> QED BY <1>2, <1>3, <1>4, <1>5, <1>6, <1>7 DEF Next, Upsert, AttemptSteps, GhostSteps

(* The run of a new article meets nobody else's post in a read-back, as    *)
(* long as the operator asks for no slug that is taken: for it the         *)
(* condition of the two theorems above holds.                              *)
THEOREM NewArticlesReadBackTheirOwn ==
    Spec => [](~ForeignSlug /\ mode = "create" => ReadBackIsOurs)
<1>1. OwnInv => (~ForeignSlug /\ mode = "create" => ReadBackIsOurs)
    BY DEF OwnInv, MadeHere, ReadBackIsOurs, Found, WithSlug
<1>2. Spec => []LiveInv BY LiveInit, LiveStep, PTL DEF Spec
<1> QED BY <1>1, <1>2, OwnInit, OwnStep, PTL DEF Spec
=============================================================================
