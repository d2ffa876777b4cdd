---------------------------- MODULE MCCmsPublish ----------------------------
(* CmsPublish for TLC: the posts of each origin are interchangeable.       *)
EXTENDS CmsPublish, TLC

IdSymmetry == Permutations(Article) \cup Permutations(Fresh)

\* Bound: a behaviour has a restart, a create that is late and its last upsert:
\* two of the three, never all of them.
TwoOfThree == ~(restarts > 0 /\ upserts = MaxUpserts /\ (inflight # {} \/ \E p \in Fresh : Late(p)))

\* The voices whose target is a WordPress: the trace of duplicate_post is one of theirs.
OnWordPress == kind = "wordpress"
=============================================================================
