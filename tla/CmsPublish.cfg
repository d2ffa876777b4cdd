SPECIFICATION Spec
CONSTANTS
    Step = step
    Requests = {r1}
    Article = {a1, a2}
    Fresh = {p1, p2}
    Slugs = {old, new}
    ArticleSlug = old
    CmsSlug = made_up
    NoSlug = no_slug
    NoPost = no_post
    Unpinned = unpinned
    Missing = missing
    MaxAttempts = 2
    StepTries = 2
    MaxUpserts = 3
    MaxRestarts = 1
    MaxLate = 1
    ForeignSlug = FALSE
SYMMETRY IdSymmetry
CHECK_DEADLOCK FALSE
INVARIANTS OverwritesAreApproved PostsAreOurs
CONSTRAINT TwoOfThree
