---------------------------- MODULE ReviewChanges ----------------------------
(***************************************************************************)
(* Reviewing tracked changes in a shared article: the comparison of a      *)
(* baseline with the working text (web/lib/tracked-changes.ts), accepting  *)
(* and rejecting its changes (InlineTrackedChanges.tsx, hitl2/page.tsx),   *)
(* and the names the changes carry (web/lib/run-editor/collab-blame.ts).   *)
(* One page reviews; everybody edits.  The article is a sequence of        *)
(* tokens; tags, white space, anchors and FAQ widgets are left out.        *)
(***************************************************************************)
EXTENDS Naturals, FiniteSets, Sequences, SequencesExt

CONSTANTS
    Users,      \* who edits the document
    Reviewer,   \* whose page it is
    NoOne,      \* nobody, for the deleter of a character that is there
    NoText,     \* null, for a text
    Letters,    \* tokens
    Draft,      \* the text the document was seeded with
    MaxEdits,   \* bound: tokens typed and erased by hand
    MaxAsked    \* bound: edits asked of the model

VARIABLES
    items,      \* the characters of the Yjs document, erased ones too
    html,       \* the page's copy of the working text
    committed,  \* the page's baseline
    parts,      \* how the two compare
    mode,       \* "edit" or "review"
    popover,    \* index of the part it is open for, 0 when closed
    ai,         \* the text an edit was asked for, or NoText
    edits, asked,  \* counters
    behind,     \* history: html may lack what is in the document
    moved,      \* history: the parts changed while the popover was open
    left        \* history: tokens in the changes not resolved by the last click
vars == <<items, html, committed, parts, mode, popover, ai, edits, asked, behind, moved, left>>

-----------------------------------------------------------------------------
(* Comparing.                                                              *)

Monotone(S) == \A p, q \in S : p = q \/ (p[1] < q[1] /\ p[2] < q[2]) \/ (q[1] < p[1] /\ q[2] < p[2])
Matches(old, new) ==
    {S \in SUBSET {p \in (DOMAIN old) \X (DOMAIN new) : old[p[1]] = new[p[2]]} : Monotone(S)}
Longest(old, new) ==
    LET M == Matches(old, new) IN {S \in M : \A T \in M : Cardinality(T) <= Cardinality(S)}
Distance(old, new) ==
    Len(old) + Len(new) - 2 * Cardinality(CHOOSE S \in Longest(old, new) : TRUE)

Part(side, text) == IF text = <<>> THEN <<>> ELSE <<[side |-> side, text |-> text]>>

\* The parts of a comparison: what was removed before what was added.
Parts(old, new, S) ==
    LET Grow(acc, p) ==
            LET gone == SubSeq(old, acc.i + 1, p[1] - 1)
                come == SubSeq(new, acc.j + 1, p[2] - 1)
                same == IF p[1] <= Len(old) THEN <<old[p[1]]>> ELSE <<>>
                joins == gone = <<>> /\ come = <<>> /\ same # <<>> /\ acc.out # <<>> /\ Last(acc.out).side = "both"
            IN  [i |-> p[1], j |-> p[2],
                 out |-> IF joins THEN Front(acc.out) \o Part("both", Last(acc.out).text \o same)
                         ELSE acc.out \o Part("old", gone) \o Part("new", come) \o Part("both", same)]
        ordered == SetToSortSeq(S \cup {<<Len(old) + 1, Len(new) + 1>>}, LAMBDA p, q : p[1] < q[1])
    IN  FoldLeft(Grow, [i |-> 0, j |-> 0, out |-> <<>>], ordered).out

\* diffArrays: some comparison with as few differences as possible.
Diffs(old, new) == {Parts(old, new, S) : S \in Longest(old, new)}

\* Joining the parts that are not of one side, except for the targets.
Join(ps, targets, side, kept) ==
    FlattenSeq([i \in DOMAIN ps |->
        IF i \in targets THEN (IF ps[i].side = kept THEN ps[i].text ELSE <<>>)
        ELSE IF ps[i].side = side THEN <<>> ELSE ps[i].text])
Without(ps, side) == Join(ps, {}, side, side)

Pair(ps, i) ==
    {j \in {i - 1, i + 1} \cap DOMAIN ps : {ps[i].side, ps[j].side} = {"old", "new"}}

\* Resolving one half of a replacement (mutant).
TargetAlone(ps, i) == {i}
TargetSet(ps, i) == {i} \cup Pair(ps, i)

-----------------------------------------------------------------------------
(* The shared document.                                                    *)

Char(ch, u) == [ch |-> ch, by |-> u, gone |-> NoOne]
Alive(item) == item.gone = NoOne
Live(its) == SelectSeq(its, Alive)
Dead(its) == SelectSeq(its, LAMBDA item : ~Alive(item))
Text(its) == LET l == Live(its) IN [i \in DOMAIN l |-> l[i].ch]

\* The index of the n-th character that is there.
At(its, n) == CHOOSE i \in DOMAIN its : Alive(its[i]) /\ Len(Live(SubSeq(its, 1, i))) = n

\* replaceCollabDoc: y-prosemirror keeps what the texts begin and end with alike.
Replaced(its, text) ==
    LET now == Text(its)
        Alike(k, l) == /\ k + l <= Len(now) /\ k + l <= Len(text)
                       /\ SubSeq(now, 1, k) = SubSeq(text, 1, k)
                       /\ SubSeq(now, Len(now) - l + 1, Len(now)) = SubSeq(text, Len(text) - l + 1, Len(text))
        k == CHOOSE n \in 0 .. Len(text) : Alike(n, 0) /\ ~Alike(n + 1, 0)
        l == CHOOSE n \in 0 .. Len(text) : Alike(k, n) /\ ~Alike(k, n + 1)
        new == [n \in 1 .. Len(text) - k - l |-> Char(text[k + n], Reviewer)]
        cut == {At(its, n) : n \in k + 1 .. Len(now) - l}
        left1 == [i \in DOMAIN its |-> IF i \in cut THEN [its[i] EXCEPT !.gone = Reviewer] ELSE its[i]]
        where == IF k = 0 THEN 0 ELSE At(its, k)
    IN  SubSeq(left1, 1, where) \o new \o SubSeq(left1, where + 1, Len(left1))

\* Rendering compares again when a text has changed.
Render ==
    IF committed' = committed /\ html' = html THEN UNCHANGED <<parts, moved>>
    ELSE parts' \in Diffs(committed', html') /\ moved' = (popover' # 0)

\* The editor's update reaches the page's copy while the editor is mounted.
Mirror(u) ==
    /\ IF mode = "edit" THEN html' = Text(items') /\ behind' = FALSE
       ELSE UNCHANGED html /\ behind' = TRUE
    /\ Render

-----------------------------------------------------------------------------
Editing(u) == edits < MaxEdits /\ edits' = edits + 1 /\ (u = Reviewer => mode = "edit")

Type(u, n, ch) ==
    /\ Editing(u) /\ n <= Len(Live(items))
    /\ LET where == IF n = 0 THEN 0 ELSE At(items, n)
       IN  items' = SubSeq(items, 1, where) \o <<Char(ch, u)>> \o SubSeq(items, where + 1, Len(items))
    /\ UNCHANGED <<committed, mode, popover, ai, asked>>
    /\ Mirror(u) /\ left' = NoText

Erase(u, n) ==
    /\ Editing(u) /\ n \in DOMAIN Live(items)
    /\ items' = [items EXCEPT ![At(items, n)].gone = u]
    /\ UNCHANGED <<committed, mode, popover, ai, asked>>
    /\ Mirror(u) /\ left' = NoText

\* Binding the editor may or may not emit an update.
Switch ==
    /\ mode' = (IF mode = "edit" THEN "review" ELSE "edit")
    /\ popover' = 0 /\ left' = NoText
    /\ \/ mode' = "edit" /\ html' = Text(items) /\ behind' = FALSE
       \/ UNCHANGED <<html, behind>>
    /\ UNCHANGED <<items, committed, ai, edits, asked>>
    /\ Render

\* A change is pointed at: the popover remembers its index.
Open(i) ==
    /\ mode = "review" /\ i \in DOMAIN parts /\ parts[i].side # "both" /\ popover # i
    /\ popover' = i /\ moved' = FALSE
    /\ UNCHANGED <<items, html, committed, parts, mode, ai, edits, asked, behind, left>>

\* applyWorking: the document too, if the text differs from the page's copy.
ApplyWorking(text) ==
    /\ html' = text
    /\ items' = IF text = html THEN items ELSE Replaced(items, text)
    /\ behind' = (behind /\ text = html)

\* The tokens that differ, but for those of the change that has part i: what
\* lies between two stretches that stay.
Others(i) ==
    Len(FlattenSeq([j \in DOMAIN parts |->
        IF \A k \in (i .. j) \cup (j .. i) : k \in DOMAIN parts /\ parts[k].side # "both" THEN <<>>
        ELSE IF parts[j].side = "both" THEN <<>> ELSE parts[j].text]))

Resolve(old, new, rest) ==
    /\ committed' = old /\ ApplyWorking(new)
    /\ popover' = 0 /\ Render
    /\ left' = IF moved THEN NoText ELSE rest
    /\ UNCHANGED <<mode, ai, edits, asked>>

\* commitHunk: a target is kept as it was added.
Accept ==
    /\ popover # 0
    /\ LET T == IF popover \in DOMAIN parts THEN TargetSet(parts, popover) ELSE {popover}
       IN  Resolve(Join(parts, T, "new", "new"), Without(parts, "old"), Others(popover))

\* The other changes of the working text go too (mutant).
RejectTheRest ==
    /\ popover # 0
    /\ LET T == IF popover \in DOMAIN parts THEN TargetSet(parts, popover) ELSE {popover}
       IN  Resolve(Without(parts, "new"), Without(parts, "new"), Others(popover))

\* dismissHunk: a target is restored as it was removed.
Reject ==
    /\ popover # 0
    /\ LET T == IF popover \in DOMAIN parts THEN TargetSet(parts, popover) ELSE {popover}
       IN  Resolve(Without(parts, "new"), Join(parts, T, "old", "old"), Others(popover))

AcceptAll ==
    /\ mode = "review" /\ html # committed
    /\ Resolve(Without(parts, "old"), Without(parts, "old"), 0)
RejectAll ==
    /\ mode = "review" /\ html # committed
    /\ Resolve(Without(parts, "new"), Without(parts, "new"), 0)

\* An edit is asked of the model; the text that comes back, here with one token
\* less, becomes the working text and the baseline.
Ask ==
    /\ ai = NoText /\ asked < MaxAsked /\ html # <<>>
    /\ ai' = html /\ asked' = asked + 1
    /\ UNCHANGED <<items, html, committed, parts, mode, popover, edits, behind, moved, left>>
Applied(n) ==
    /\ ai # NoText /\ n \in DOMAIN ai
    /\ LET text == SubSeq(ai, 1, n - 1) \o SubSeq(ai, n + 1, Len(ai))
       IN  committed' = text /\ ApplyWorking(text)
    /\ ai' = NoText /\ UNCHANGED popover /\ Render /\ left' = NoText
    /\ UNCHANGED <<mode, edits, asked>>

Init ==
    /\ items = [i \in DOMAIN Draft |-> Char(Draft[i], Reviewer)]
    /\ html = Draft /\ committed = Draft /\ parts \in Diffs(Draft, Draft)
    /\ mode = "edit" /\ popover = 0 /\ ai = NoText /\ edits = 0 /\ asked = 0
    /\ behind = FALSE /\ moved = FALSE /\ left = NoText

Next ==
    \/ \E u \in Users, n \in 0 .. Len(items) : Erase(u, n) \/ \E ch \in Letters : Type(u, n, ch)
    \/ Switch \/ (\E i \in DOMAIN parts : Open(i)) \/ Accept \/ Reject \/ AcceptAll \/ RejectAll
    \/ Ask \/ \E n \in 1 .. Len(items) : Applied(n)

Spec == Init /\ [][Next]_vars

-----------------------------------------------------------------------------
(* Attribution.                                                            *)

\* The name with the most characters, and of several the first to have them.
Dominant(names) ==
    LET Count(u, k) == Cardinality({i \in 1 .. k : names[i] = u})
        most == CHOOSE m \in 0 .. Len(names) :
                    /\ \E u \in Users : Count(u, Len(names)) = m
                    /\ \A u \in Users : Count(u, Len(names)) <= m
        first == CHOOSE k \in DOMAIN names :
                    /\ Count(names[k], k) = most
                    /\ \A j \in 1 .. k - 1 : Count(names[j], j) < most
    IN  IF names = <<>> THEN NoOne ELSE names[first]

\* How far a part moves the cursor of the characters that are there, and the
\* cursor of the erased ones.
LiveStep(p) == IF p.side = "old" THEN 0 ELSE Len(p.text)
DeadStep(p) == IF p.side = "old" THEN Len(p.text) ELSE 0

\* annotate: the author of each part, from the characters its cursor passes.
Annotate(ps, its) ==
    LET live == Live(its)
        dead == Dead(its)
        Take(s, k, n) == SubSeq(s, k + 1, IF k + n < Len(s) THEN k + n ELSE Len(s))
        Names(acc, p) ==
            CASE p.side = "old" -> LET t == Take(dead, acc.dead, Len(p.text)) IN [k \in DOMAIN t |-> t[k].gone]
              [] p.side = "new" -> LET t == Take(live, acc.live, Len(p.text)) IN [k \in DOMAIN t |-> t[k].by]
              [] OTHER -> <<>>
        Step(acc, p) == [live |-> acc.live + LiveStep(p), dead |-> acc.dead + DeadStep(p),
                         out |-> Append(acc.out, Dominant(Names(acc, p)))]
    IN  FoldLeft(Step, [live |-> 0, dead |-> 0, out |-> <<>>], ps).out

-----------------------------------------------------------------------------
TypeOK ==
    /\ items \in Seq([ch : Letters, by : Users, gone : Users \cup {NoOne}])
    /\ Without(parts, "new") = committed /\ Without(parts, "old") = html
    /\ mode = "edit" => popover = 0
    /\ ~behind => html = Text(items)

\* What a click resolves is resolved on both sides, and no other change with
\* it: comparing again finds as many differences as the other changes have.
\* A click on a popover that was open when the parts changed is exempt.
OthersRemain == left # NoText => Distance(committed, html) = left

\* An insertion carries the name of whoever wrote the most of it, whatever
\* was removed before it and by whomever.
AddedByItsAuthor ==
    ~behind =>
      LET name == Annotate(parts, items)
          live == Live(items)
      IN  \A i \in DOMAIN parts : parts[i].side = "new" =>
            LET before == Len(Without(SubSeq(parts, 1, i - 1), "old"))
                own(u) == Cardinality({k \in DOMAIN parts[i].text : live[before + k].by = u})
            IN  \A u \in Users : own(u) <= own(name[i])

\* A removal carries the name of whoever erased the most of it, as long as the
\* tokens erased in the document are those the page shows as removed: nothing
\* typed since was erased, and no removal accepted.
RemovedByItsDeleter ==
    LET removed(k) == FlattenSeq([i \in 1 .. k |-> IF parts[i].side = "old" THEN parts[i].text ELSE <<>>])
        dead == Dead(items)
        name == Annotate(parts, items)
    IN  ~behind /\ removed(Len(parts)) = [k \in DOMAIN dead |-> dead[k].ch] =>
          \A i \in DOMAIN parts : parts[i].side = "old" =>
            LET own(u) == Cardinality({k \in Len(removed(i - 1)) + 1 .. Len(removed(i)) : dead[k].gone = u})
            IN  \A u \in Users : own(u) <= own(name[i])

\* What others wrote leaves the document by a click only when the click shows
\* it: in a review that was not shown what has been written since, it may go.
ClickStep ==
    ~behind /\ left' # NoText =>
        Len(Live(items)) - Len(Live(items')) <= Distance(committed, html) - left'
ClickTakesWhatItShows == [][ClickStep]_vars
=============================================================================
