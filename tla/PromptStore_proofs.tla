--------------------------- MODULE PromptStore_proofs ---------------------------
(***************************************************************************)
(* Proofs about PromptStore, for any editors, isolates, texts and saves,   *)
(* of a template or a policy, inherited or not: the history is one chain,  *)
(* a cache is stale for a named reason only, nobody overwrites a text they *)
(* did not see, and typing is kept.                                        *)
(***************************************************************************)
EXTENDS PromptStore, FiniteSetTheorems, TLAPS

\* What an instance has to give: a bound, and pages of one kind each.
Setting == MaxTexts \in Nat /\ Library \cap Studio = {}

-----------------------------------------------------------------------------
(* The inductive invariant. *)

Page == [data : Texts \cup {NoText}, sha : Texts \cup {NoText},
         buffer : Texts \cup {NoText}, base : Texts \cup {NoText}]
Fetch == [phase : {"none", "loading", "answered"}, at : Isolates \cup {NoText},
          text : Texts \cup {NoText}, overlap : BOOLEAN]
Save == [phase : {"none", "sent", "update", "insert", "committed", "saved", "refused"},
         at : Isolates \cup {NoText}, text : Texts \cup {NoText},
         expected : Texts \cup {NoText}, kind : {"save", "revert"}]
Version == [sha : Texts, by : Editors, kind : {"save", "revert"}, parent : Texts \cup {NoSha}]

\* A page has a sha once it has data, and a draft has its base.
PageTypes(e) ==
    /\ page[e].data # NoText => page[e].sha # NoText
    /\ e \in Studio => (page[e].buffer = NoText <=> page[e].base = NoText)
    /\ e \in Library => page[e].buffer # NoText

Types ==
    /\ own \in BOOLEAN /\ row \in Texts /\ lock \subseteq Editors /\ edits \in 0 .. MaxTexts
    /\ versions \in Seq(Version)
    /\ cache \in [Isolates -> Texts \cup {Null, Empty}]
    /\ page \in [Editors -> Page] /\ \A e \in Editors : PageTypes(e)
    /\ fetch \in [Editors -> Fetch]
    /\ \A e \in Editors : fetch[e].phase # "none" => fetch[e].text \in Texts
    /\ \A e \in Editors : fetch[e].phase = "loading" => fetch[e].at \in Isolates
    /\ save \in [Editors -> Save]
    /\ \A e \in Editors : save[e].phase # "none" => save[e].text \in Texts /\ save[e].at \in Isolates
    /\ shown \in [Editors -> SUBSET (Texts \cup {NoText})]
    /\ excused \subseteq Isolates

\* A transaction that has compared the shas and will update holds the row alone, and
\* its expected text is the one in force; one that will insert is of a voice that had
\* no row.
InForce(e) ==
    /\ save[e].phase = "update" => own /\ lock = {e} /\ save[e].expected = row
    /\ save[e].phase = "insert" => Inherits /\ save[e].expected = 0
    /\ e \in lock => save[e].phase = "update"

ChainInv ==
    /\ \A e \in Editors : InForce(e)
    /\ ~Inherits => own
    /\ versions = <<>> => row = 0
    /\ versions # <<>> => own
    /\ HistoryIsChain

\* A load that no commit overlapped brings the text in force.
FreshInv ==
    /\ \A e \in Editors : fetch[e].phase = "loading" /\ ~fetch[e].overlap => fetch[e].text = row
    /\ StaleIsForeign

-----------------------------------------------------------------------------
(* Types. *)

\* The texts are numbers, and none of the marks is one.
LEMMA TextsType ==
  ASSUME Setting
  PROVE  /\ 0 \in Texts /\ Blank \in Texts /\ Texts \subseteq Int
         /\ NoText \notin Texts /\ NoSha \notin Texts /\ Null \notin Texts /\ Empty \notin Texts
         /\ \A n \in 0 .. MaxTexts : n < MaxTexts => n + 1 \in Texts /\ n + 1 \in 0 .. MaxTexts
BY DEF Setting, Texts, Blank, NoText, NoSha, Null, Empty

\* What stays when the page of e changes to p.
LEMMA ShowType ==
  ASSUME Types, NEW e \in Editors, NEW p \in Page, Show(e, p),
         p.data # NoText => p.sha # NoText,
         e \in Studio => (p.buffer = NoText <=> p.base = NoText),
         e \in Library => p.buffer # NoText
  PROVE  /\ page' \in [Editors -> Page] /\ \A f \in Editors : PageTypes(f)'
         /\ shown' \in [Editors -> SUBSET (Texts \cup {NoText})]
         /\ page'[e] = p /\ \A f \in Editors \ {e} : page'[f] = page[f]
<1>1. /\ page' = [page EXCEPT ![e] = p] /\ page \in [Editors -> Page]
      /\ shown' = [shown EXCEPT ![e] = shown[e] \cup {On(e, p)}]
      /\ shown \in [Editors -> SUBSET (Texts \cup {NoText})]
  BY DEF Show, Types
<1>2. page'[e] = p /\ \A f \in Editors \ {e} : page'[f] = page[f] BY <1>1
<1>3. On(e, p) \in Texts \cup {NoText} BY DEF On, Page
<1>4. shown' \in [Editors -> SUBSET (Texts \cup {NoText})] BY <1>1, <1>3
<1>5. ASSUME NEW f \in Editors PROVE PageTypes(f)'
  <2>1. CASE f = e BY <1>2, <2>1 DEF PageTypes
  <2>2. CASE f # e BY <1>2, <2>2 DEF PageTypes, Types
  <2> QED BY <2>1, <2>2
<1> QED BY <1>1, <1>2, <1>4, <1>5

\* Nobody has fetched anything at the start.
LEMMA TypesInit == Setting /\ Init => Types
<1> SUFFICES ASSUME Setting, Init PROVE Types OBVIOUS
<1>1. NoFetch \in Fetch /\ NoFetch.phase = "none" BY DEF NoFetch, Fetch
<1>2. NoSave \in Save /\ NoSave.phase = "none" BY DEF NoSave, Save
<1>3. page \in [Editors -> Page] BY TextsType DEF Init, Page
<1>4. \A e \in Editors : PageTypes(e) BY TextsType DEF Init, PageTypes, Setting, Editors, Blank, NoText
<1>5. /\ own \in BOOLEAN /\ row \in Texts /\ lock \subseteq Editors /\ edits \in 0 .. MaxTexts
      /\ versions \in Seq(Version) /\ cache \in [Isolates -> Texts \cup {Null, Empty}]
      /\ shown \in [Editors -> SUBSET (Texts \cup {NoText})] /\ excused \subseteq Isolates
  BY TextsType DEF Init, Setting
<1> QED BY <1>1, <1>2, <1>3, <1>4, <1>5 DEF Init, Types

\* The page after each kind of change is a page.
LEMMA PagesType ==
  ASSUME Setting, Types, NEW e \in Editors
  PROVE  /\ fetch[e].phase = "answered" =>
              /\ Primed(e) \in Page /\ Primed(e).sha # NoText
              /\ e \in Studio => (Primed(e).buffer = NoText <=> Primed(e).base = NoText)
              /\ e \in Library => Primed(e).buffer # NoText
         /\ page[e].data # NoText /\ edits < MaxTexts =>
              /\ Typed(e) \in Page /\ Typed(e).sha # NoText
              /\ Typed(e).buffer # NoText /\ (e \in Studio => Typed(e).base # NoText)
         /\ save[e].phase = "saved" =>
              /\ Settled(e) \in Page
              /\ Settled(e).data # NoText => Settled(e).sha # NoText
              /\ e \in Studio => (Settled(e).buffer = NoText <=> Settled(e).base = NoText)
              /\ e \in Library => Settled(e).buffer # NoText
<1>1. /\ page[e] \in Page /\ PageTypes(e) /\ NoText \notin Texts
      /\ page[e] = [data |-> page[e].data, sha |-> page[e].sha, buffer |-> page[e].buffer,
                    base |-> page[e].base]
      /\ fetch[e].phase = "answered" => fetch[e].text \in Texts
      /\ save[e].phase = "saved" => save[e].text \in Texts
      /\ Library \cap Studio = {} /\ Editors = Library \cup Studio
  BY TextsType DEF Types, Page, Setting, Editors
<1>2. ASSUME fetch[e].phase = "answered"
      PROVE  /\ Primed(e) \in Page /\ Primed(e).sha # NoText
             /\ e \in Studio => (Primed(e).buffer = NoText <=> Primed(e).base = NoText)
             /\ e \in Library => Primed(e).buffer # NoText
  BY <1>1, <1>2 DEF Primed, Page, PageTypes
<1>3. ASSUME page[e].data # NoText, edits < MaxTexts
      PROVE  /\ Typed(e) \in Page /\ Typed(e).sha # NoText
             /\ Typed(e).buffer # NoText /\ (e \in Studio => Typed(e).base # NoText)
  <2>1. edits + 1 \in Texts BY <1>3, TextsType DEF Types
  <2> QED BY <1>1, <1>3, <2>1 DEF Typed, Page, PageTypes
<1>4. ASSUME save[e].phase = "saved"
      PROVE  /\ Settled(e) \in Page
             /\ Settled(e).data # NoText => Settled(e).sha # NoText
             /\ e \in Studio => (Settled(e).buffer = NoText <=> Settled(e).base = NoText)
             /\ e \in Library => Settled(e).buffer # NoText
  BY <1>1, <1>4 DEF Settled, Page, PageTypes
<1> QED BY <1>2, <1>3, <1>4

\* A call moves on to another phase.
LEMMA PhaseType ==
  ASSUME Types, NEW e \in Editors, save[e].phase # "none",
         NEW p \in {"sent", "update", "insert", "committed", "saved", "refused"},
         save' = [save EXCEPT ![e].phase = p]
  PROVE  /\ save' \in [Editors -> Save]
         /\ save'[e].phase = p /\ save'[e].text = save[e].text /\ save'[e].at = save[e].at
         /\ save'[e].expected = save[e].expected /\ save'[e].kind = save[e].kind
         /\ \A f \in Editors \ {e} : save'[f] = save[f]
         /\ \A f \in Editors : save'[f].phase # "none" =>
              save'[f].text \in Texts /\ save'[f].at \in Isolates
<1> DEFINE s == [save[e] EXCEPT !.phase = p]
<1>1. save \in [Editors -> Save] /\ save[e] \in Save BY DEF Types
<1>2. save' = [save EXCEPT ![e] = s] BY <1>1
<1>3. /\ s \in Save /\ s.phase = p /\ s.text = save[e].text /\ s.at = save[e].at
      /\ s.expected = save[e].expected /\ s.kind = save[e].kind
  BY <1>1 DEF Save
<1> HIDE DEF s
<1>4. save' \in [Editors -> Save] /\ save'[e] = s /\ \A f \in Editors \ {e} : save'[f] = save[f]
  BY <1>1, <1>2, <1>3
<1> QED BY <1>3, <1>4 DEF Types

\* Every step keeps the types.
LEMMA TypesStep == Setting /\ Types /\ ChainInv /\ [Next]_vars => Types'
<1> SUFFICES ASSUME Setting, Types, ChainInv, [Next]_vars PROVE Types' OBVIOUS
<1> DEFINE Fetched == /\ fetch' \in [Editors -> Fetch]
                      /\ \A f \in Editors : fetch'[f].phase # "none" => fetch'[f].text \in Texts
                      /\ \A f \in Editors : fetch'[f].phase = "loading" => fetch'[f].at \in Isolates
           Saving == /\ save' \in [Editors -> Save]
                     /\ \A f \in Editors : save'[f].phase # "none" =>
                          save'[f].text \in Texts /\ save'[f].at \in Isolates
           Shown == /\ page' \in [Editors -> Page] /\ \A f \in Editors : PageTypes(f)'
                    /\ shown' \in [Editors -> SUBSET (Texts \cup {NoText})]
<1>0. NoFetch \in Fetch /\ NoFetch.phase = "none" /\ NoSave \in Save /\ NoSave.phase = "none"
  BY DEF NoFetch, Fetch, NoSave, Save
<1>t. /\ fetch \in [Editors -> Fetch] /\ save \in [Editors -> Save] /\ page \in [Editors -> Page]
      /\ cache \in [Isolates -> Texts \cup {Null, Empty}] /\ row \in Texts /\ edits \in 0 .. MaxTexts
      /\ \A f \in Editors : fetch[f].phase # "none" => fetch[f].text \in Texts
      /\ \A f \in Editors : save[f].phase # "none" => save[f].text \in Texts /\ save[f].at \in Isolates
  BY DEF Types
<1>s. UNCHANGED <<page, shown>> => Shown BY DEF Types, PageTypes
<1>v. UNCHANGED save => Saving BY DEF Types
<1>f. UNCHANGED fetch => Fetched BY DEF Types
<1>n. ASSUME NEW e \in Editors, fetch' = [fetch EXCEPT ![e] = NoFetch] PROVE Fetched
  <2>1. fetch'[e] = NoFetch /\ \A f \in Editors \ {e} : fetch'[f] = fetch[f] BY <1>n, <1>t
  <2> QED BY <1>0, <1>n, <1>t, <2>1 DEF Types
<1>m. ASSUME NEW e \in Editors, save' = [save EXCEPT ![e] = NoSave] PROVE Saving
  <2>1. save'[e] = NoSave /\ \A f \in Editors \ {e} : save'[f] = save[f] BY <1>m, <1>t
  <2> QED BY <1>0, <1>m, <1>t, <2>1 DEF Types
<1>a. ASSUME NEW e \in Editors, NEW t \in Texts,
             fetch' = [fetch EXCEPT ![e] = [NoFetch EXCEPT !.phase = "answered", !.text = t]]
      PROVE  Fetched
  <2> DEFINE x == [NoFetch EXCEPT !.phase = "answered", !.text = t]
  <2>1. x \in Fetch /\ x.text \in Texts /\ x.phase = "answered" BY DEF NoFetch, Fetch
  <2> HIDE DEF x
  <2>2. fetch'[e] = x /\ \A f \in Editors \ {e} : fetch'[f] = fetch[f] BY <1>a, <1>t DEF x
  <2> QED BY <1>a, <1>t, <2>1, <2>2 DEF Types, x
<1>b. ASSUME NEW e \in Editors, NEW i \in Isolates, NEW t \in Texts, NEW x \in Texts \cup {NoText},
             NEW k \in {"save", "revert"},
             save' = [save EXCEPT ![e] = [phase |-> "sent", at |-> i, text |-> t, expected |-> x,
                                          kind |-> k]]
      PROVE  Saving
  <2> DEFINE s == [phase |-> "sent", at |-> i, text |-> t, expected |-> x, kind |-> k]
  <2>1. s \in Save /\ s.text = t /\ s.at = i BY DEF Save
  <2> HIDE DEF s
  <2>2. save'[e] = s /\ \A f \in Editors \ {e} : save'[f] = save[f] BY <1>b, <1>t DEF s
  <2> QED BY <1>b, <1>t, <2>1, <2>2 DEF s
<1>1. ASSUME NEW e \in Editors, NEW i \in Isolates, Hit(e, i) PROVE Types'
  BY <1>1, <1>a, <1>s, <1>v DEF Hit, Types
<1>2. ASSUME NEW e \in Editors, NEW i \in Isolates, StartLoad(e, i) PROVE Types'
  <2> DEFINE x == [phase |-> "loading", at |-> i, text |-> row, overlap |-> FALSE]
  <2>1. x \in Fetch /\ x.text \in Texts /\ x.at \in Isolates BY <1>t DEF Fetch
  <2> HIDE DEF x
  <2>2. fetch'[e] = x /\ \A f \in Editors \ {e} : fetch'[f] = fetch[f]
    BY <1>2, <1>t DEF x, StartLoad
  <2>3. fetch' = [fetch EXCEPT ![e] = x] BY <1>2 DEF x, StartLoad
  <2>4. Fetched BY <1>t, <2>1, <2>2, <2>3 DEF Types
  <2>5. cache' \in [Isolates -> Texts \cup {Null, Empty}] BY <1>2, <1>t DEF StartLoad
  <2> QED BY <1>2, <1>s, <1>v, <2>4, <2>5 DEF StartLoad, Types
<1>3. ASSUME NEW e \in Editors, EndLoad(e) PROVE Types'
  <2>1. fetch[e].text \in Texts /\ fetch[e].at \in Isolates BY <1>3 DEF EndLoad, Types
  <2>2. Fetched BY <1>3, <1>a, <1>n, <2>1 DEF EndLoad
  <2>3. cache' \in [Isolates -> Texts \cup {Null, Empty}] BY <1>3, <1>t, <2>1 DEF EndLoad
  <2>4. excused' \subseteq Isolates BY <1>3, <2>1 DEF EndLoad, Types
  <2> QED BY <1>3, <1>s, <1>v, <2>2, <2>3, <2>4 DEF EndLoad, Types
<1>4. ASSUME NEW e \in Editors, Arrive(e) PROVE Types'
  <2>1. Shown BY <1>4, PagesType, ShowType DEF Arrive
  <2>2. Fetched BY <1>4, <1>n DEF Arrive
  <2> QED BY <1>4, <1>v, <2>1, <2>2 DEF Arrive, Types
<1>5. ASSUME NEW e \in Editors, Type(e) PROVE Types'
  <2>1. Shown
    <3>1. e \in Library => e \notin Studio BY DEF Setting
    <3> QED BY <1>5, <3>1, PagesType, ShowType DEF Type
  <2>2. edits' \in 0 .. MaxTexts BY <1>5, TextsType DEF Type, Types
  <2> QED BY <1>5, <1>f, <1>v, <2>1, <2>2 DEF Type, Types
<1>6. ASSUME NEW e \in Editors, Reload(e) PROVE Types'
  <2> DEFINE p == [page[e] EXCEPT !.buffer = Blank]
  <2>1. p \in Page /\ p.data = page[e].data /\ p.sha = page[e].sha /\ p.buffer = Blank
    BY <1>t, TextsType DEF Page
  <2>2. Show(e, p) /\ e \notin Studio /\ Blank # NoText BY <1>6, TextsType DEF Reload, Setting
  <2> HIDE DEF p
  <2>3. Shown BY <2>1, <2>2, ShowType DEF Types, PageTypes
  <2> QED BY <1>6, <1>f, <1>v, <2>3 DEF Reload, Types
<1>7. ASSUME NEW e \in Editors, NEW i \in Isolates, StartSave(e, i) PROVE Types'
  <2>1. On(e, page[e]) \in Texts
    BY <1>7, <1>t DEF StartSave, On, Page, Types, PageTypes, Editors
  <2>2. (IF e \in Studio THEN page[e].base ELSE page[e].sha) \in Texts \cup {NoText} BY <1>t DEF Page
  <2>3. Saving BY <1>7, <1>b, <2>1, <2>2 DEF StartSave
  <2> QED BY <1>7, <1>f, <1>s, <2>3 DEF StartSave, Types
<1>8. ASSUME NEW e \in Editors, NEW i \in Isolates, StartRevert(e, i) PROVE Types'
  <2>1. PICK v \in ToSet(versions) :
          /\ save' = [save EXCEPT ![e] = [phase |-> "sent", at |-> i, text |-> v.sha,
                                          expected |-> page[e].sha, kind |-> "revert"]]
          /\ shown' = [shown EXCEPT ![e] = shown[e] \cup {v.sha}]
    BY <1>8 DEF StartRevert
  <2>2. v.sha \in Texts
    <3>1. PICK n \in DOMAIN versions : v = versions[n] BY DEF ToSet
    <3>2. versions \in Seq(Version) BY DEF Types
    <3>3. versions[n] \in Version BY <3>2
    <3> QED BY <3>1, <3>3 DEF Version
  <2>3. page[e].sha \in Texts \cup {NoText} BY <1>t DEF Page
  <2>4. Saving BY <1>b, <2>1, <2>2, <2>3
  <2>5. shown' \in [Editors -> SUBSET (Texts \cup {NoText})] BY <2>1, <2>2 DEF Types
  <2>6. Shown BY <1>8, <1>s, <2>5 DEF StartRevert, Types, PageTypes
  <2> QED BY <1>8, <1>f, <2>4, <2>6 DEF StartRevert, Types
<1>9. ASSUME NEW e \in Editors, Begin(e) PROVE Types'
  <2>1. \E p \in {"sent", "update", "insert", "committed", "saved", "refused"} :
          save' = [save EXCEPT ![e].phase = p]
    BY <1>9 DEF Begin
  <2>2. Saving BY <1>9, <2>1, PhaseType DEF Begin
  <2>3. lock' \subseteq Editors BY <1>9 DEF Begin, Types
  <2> QED BY <1>9, <1>f, <1>s, <2>2, <2>3 DEF Begin, Types
<1>10. ASSUME NEW e \in Editors, Commit(e) PROVE Types'
  <2>1. Saving BY <1>10, PhaseType DEF Commit
  <2>2. NewVersion(e) \in Version
    <3>1. save[e] \in Save /\ save[e].text \in Texts BY <1>10, <1>t DEF Commit
    <3>2. save[e].phase = "update" => save[e].expected \in Texts
      BY <1>10 DEF Commit, ChainInv, InForce, Types
    <3> QED BY <3>1, <3>2 DEF NewVersion, Version, Save
  <2>3. Fetched
    <3> DEFINE g(f) == [fetch[f] EXCEPT !.overlap = TRUE]
    <3>1. \A f \in Editors : g(f) \in Fetch /\ g(f).phase = fetch[f].phase
                             /\ g(f).text = fetch[f].text /\ g(f).at = fetch[f].at
      BY <1>t DEF Fetch
    <3> HIDE DEF g
    <3>2. fetch' = [f \in Editors |-> IF fetch[f].phase = "loading" THEN g(f) ELSE fetch[f]]
      BY <1>10 DEF Commit, g
    <3> QED BY <1>t, <3>1, <3>2 DEF Types
  <2>4. versions' \in Seq(Version) /\ row' \in Texts /\ lock' \subseteq Editors
        /\ excused' \subseteq Isolates /\ own' \in BOOLEAN
    BY <1>10, <1>t, <2>2 DEF Commit, Types
  <2> QED BY <1>10, <1>s, <2>1, <2>3, <2>4 DEF Commit, Types
<1>11. ASSUME NEW e \in Editors, Invalidate(e) PROVE Types'
  <2>1. Saving BY <1>11, PhaseType DEF Invalidate
  <2>2. cache' \in [Isolates -> Texts \cup {Null, Empty}] BY <1>11, <1>t DEF Invalidate
  <2> QED BY <1>11, <1>f, <1>s, <2>1, <2>2 DEF Invalidate, Types
<1>12. ASSUME NEW e \in Editors, SaveOk(e) PROVE Types'
  <2>1. Shown BY <1>12, PagesType, ShowType DEF SaveOk
  <2>2. Saving BY <1>12, <1>m DEF SaveOk
  <2> QED BY <1>12, <1>f, <2>1, <2>2 DEF SaveOk, Types
<1>13. ASSUME NEW e \in Editors, SaveRefused(e) PROVE Types'
  BY <1>13, <1>m, <1>f, <1>s DEF SaveRefused, Types
<1>14. ASSUME NEW i \in Isolates, Recycle(i) PROVE Types'
  <2>1. Fetched BY <1>14, <1>0, <1>t DEF Recycle, Types
  <2>2. cache' \in [Isolates -> Texts \cup {Null, Empty}] BY <1>14, <1>t DEF Recycle
  <2> QED BY <1>14, <1>s, <1>v, <2>1, <2>2 DEF Recycle, Types
<1>15. CASE UNCHANGED vars
  BY <1>15, <1>f, <1>s, <1>v DEF vars, Types
<1> QED BY <1>1, <1>2, <1>3, <1>4, <1>5, <1>6, <1>7, <1>8, <1>9, <1>10, <1>11, <1>12, <1>13, <1>14,
           <1>15 DEF Next

-----------------------------------------------------------------------------
(* The history. *)

\* The history after one more version, which replaces the last or is a first save.
LEMMA ChainAppend ==
  ASSUME NEW vs \in Seq(Version), NEW v \in Version, NEW r,
         vs # <<>> => Last(vs).sha = r,
         vs = <<>> => r = 0,
         \A n \in 2 .. Len(vs) : vs[n].parent = vs[n - 1].sha \/ (Inherits /\ vs[n].parent = NoSha),
         vs # <<>> /\ ~Inherits => vs[1].parent = 0,
         v.parent = r \/ (Inherits /\ v.parent = NoSha)
  PROVE  LET ws == Append(vs, v) IN
         /\ ws # <<>> /\ Last(ws).sha = v.sha
         /\ \A n \in 2 .. Len(ws) :
              ws[n].parent = ws[n - 1].sha \/ (Inherits /\ ws[n].parent = NoSha)
         /\ ~Inherits => ws[1].parent = 0
<1> DEFINE ws == Append(vs, v)
<1>1. /\ Len(ws) = Len(vs) + 1 /\ Len(vs) \in Nat /\ ws[Len(vs) + 1] = v
      /\ \A n \in 1 .. Len(vs) : ws[n] = vs[n]
  OBVIOUS
<1> HIDE DEF ws
<1>2. ws # <<>> /\ Last(ws).sha = v.sha BY <1>1 DEF Last
<1>3. ASSUME NEW n \in 2 .. Len(ws)
      PROVE  ws[n].parent = ws[n - 1].sha \/ (Inherits /\ ws[n].parent = NoSha)
  <2>1. CASE n = Len(vs) + 1
    <3>1. vs # <<>> /\ n - 1 = Len(vs) /\ n - 1 \in 1 .. Len(vs) BY <1>1, <2>1
    <3>2. ws[n] = v /\ ws[n - 1] = Last(vs) BY <1>1, <2>1, <3>1 DEF Last
    <3> QED BY <3>1, <3>2
  <2>2. CASE n # Len(vs) + 1
    <3>1. n \in 2 .. Len(vs) /\ n \in 1 .. Len(vs) /\ n - 1 \in 1 .. Len(vs) BY <1>1, <2>2
    <3> QED BY <1>1, <3>1
  <2> QED BY <2>1, <2>2
<1>4. ~Inherits => ws[1].parent = 0
  <2>1. CASE vs = <<>> BY <1>1, <2>1
  <2>2. CASE vs # <<>>
    <3>1. 1 \in 1 .. Len(vs) BY <1>1, <2>2
    <3> QED BY <1>1, <2>2, <3>1
  <2> QED BY <2>1, <2>2
<1> QED BY <1>2, <1>3, <1>4 DEF ws

\* There is no version at the start.
LEMMA ChainInit == Setting /\ Init => ChainInv
<1> SUFFICES ASSUME Init PROVE ChainInv OBVIOUS
<1>1. \A e \in Editors : save[e].phase = "none" /\ e \notin lock BY DEF Init, NoSave
<1>2. versions = <<>> /\ row = 0 BY DEF Init
<1>3. ~Inherits => own BY Zenon DEF Init
<1>4. HistoryIsChain BY <1>2 DEF HistoryIsChain
<1> QED BY <1>1, <1>2, <1>3, <1>4 DEF ChainInv, InForce

\* Every step keeps the chain: an update has the row locked from its comparison on.
LEMMA ChainStep == Setting /\ Types /\ ChainInv /\ [Next]_vars => ChainInv'
<1> SUFFICES ASSUME Setting, Types, ChainInv, [Next]_vars PROVE ChainInv' OBVIOUS
<1>t. save \in [Editors -> Save] /\ versions \in Seq(Version) /\ own \in BOOLEAN BY DEF Types
<1>0. ASSUME UNCHANGED <<own, row, versions, lock>>,
             \A f \in Editors :
               \/ save'[f] = save[f]
               \/ save'[f].phase \notin {"update", "insert"} /\ save[f].phase \notin {"update", "insert"}
      PROVE  ChainInv'
  <2>1. \A f \in Editors : InForce(f)' BY <1>0 DEF ChainInv, InForce
  <2> QED BY <1>0, <2>1 DEF ChainInv, HistoryIsChain
<1>1. ASSUME NEW e \in Editors, Begin(e) PROVE ChainInv'
  <2>1. UNCHANGED <<own, row, versions>> /\ save[e].phase = "sent" /\ (own => lock = {})
    BY <1>1 DEF Begin
  <2>2. \A f \in Editors \ {e} : save'[f] = save[f] BY <1>1, <1>t DEF Begin
  <2>3. save'[e].expected = save[e].expected
        /\ \/ save'[e].phase = "refused" /\ lock' = lock
           \/ own /\ save'[e].phase = "update" /\ lock' = {e} /\ save[e].expected = row
           \/ ~own /\ save'[e].phase = "insert" /\ lock' = lock /\ save[e].expected = row
    <3>1. ASSUME NEW p, save' = [save EXCEPT ![e].phase = p]
          PROVE  save'[e].phase = p /\ save'[e].expected = save[e].expected
      BY <1>t, <3>1 DEF Save
    <3>2. CASE ~Accepts(e) BY <1>1, <3>1, <3>2 DEF Begin
    <3>3. CASE Accepts(e) /\ own = TRUE
      <4>1. save' = [save EXCEPT ![e].phase = "update"] /\ lock' = {e} BY <1>1, <3>3 DEF Begin
      <4> QED BY <3>1, <3>3, <4>1 DEF Accepts
    <3>4. CASE Accepts(e) /\ own = FALSE
      <4>1. save' = [save EXCEPT ![e].phase = "insert"] /\ lock' = lock BY <1>1, <3>4 DEF Begin
      <4> QED BY <3>1, <3>4, <4>1 DEF Accepts
    <3> QED BY <1>t, <3>2, <3>3, <3>4
  <2>4. ASSUME NEW f \in Editors PROVE InForce(f)'
    <3>1. CASE f = e BY <2>1, <2>3, <3>1 DEF ChainInv, InForce
    <3>2. CASE f # e BY <2>1, <2>2, <2>3, <3>2 DEF ChainInv, InForce
    <3> QED BY <3>1, <3>2
  <2> QED BY <2>1, <2>4 DEF ChainInv, HistoryIsChain
<1>2. ASSUME NEW e \in Editors, Commit(e) PROVE ChainInv'
  <2>1. /\ own' = TRUE /\ row' = save[e].text /\ versions' = Append(versions, NewVersion(e))
        /\ lock' = lock \ {e} /\ lock \subseteq {e} /\ save[e].phase \in {"update", "insert"}
    BY <1>2 DEF Commit
  <2>2. \A f \in Editors \ {e} : save'[f] = save[f] BY <1>2, <1>t DEF Commit
  <2>3. save'[e].phase = "committed" BY <1>2, <1>t DEF Commit
  <2>4. NewVersion(e) \in Version /\ NewVersion(e).sha = row'
        /\ (NewVersion(e).parent = row \/ (Inherits /\ NewVersion(e).parent = NoSha))
    <3>1. save[e] \in Save /\ save[e].text \in Texts /\ row \in Texts BY <1>t, <2>1 DEF Types
    <3>2. save[e].phase = "update" => save[e].expected = row BY DEF ChainInv, InForce
    <3>3. save[e].phase = "insert" => Inherits BY DEF ChainInv, InForce
    <3> DEFINE parent == IF save[e].phase = "update" THEN save[e].expected ELSE NoSha
               v == [sha |-> save[e].text, by |-> e, kind |-> save[e].kind, parent |-> parent]
    <3>4. parent = row \/ (Inherits /\ parent = NoSha) BY <2>1, <3>2, <3>3
    <3>5. save[e].kind \in {"save", "revert"} BY <3>1 DEF Save
    <3>6. NewVersion(e) = v BY DEF NewVersion
    <3> HIDE DEF parent
    <3>7. parent \in Texts \cup {NoSha} BY <3>1, <3>4
    <3>8. v \in Version /\ v.sha = save[e].text /\ v.parent = parent BY <3>1, <3>5, <3>7 DEF Version
    <3> HIDE DEF v
    <3> QED BY <2>1, <3>4, <3>6, <3>8
  <2>5. /\ versions' # <<>> /\ Last(versions').sha = row'
        /\ \A n \in 2 .. Len(versions') :
             versions'[n].parent = versions'[n - 1].sha \/ (Inherits /\ versions'[n].parent = NoSha)
        /\ ~Inherits => versions'[1].parent = 0
    BY <1>t, <2>1, <2>4, ChainAppend DEF ChainInv, HistoryIsChain
  <2>6. ASSUME NEW f \in Editors PROVE InForce(f)'
    <3>1. CASE f = e BY <2>1, <2>3, <3>1 DEF InForce
    <3>2. CASE f # e BY <2>1, <2>2, <3>2 DEF ChainInv, InForce
    <3> QED BY <3>1, <3>2
  <2> QED BY <2>1, <2>5, <2>6 DEF ChainInv, HistoryIsChain
<1>3. ASSUME NEW e \in Editors, NEW i \in Isolates, StartSave(e, i) PROVE ChainInv'
  <2>1. save'[e].phase = "sent" /\ \A f \in Editors \ {e} : save'[f] = save[f]
    BY <1>3, <1>t DEF StartSave
  <2> QED BY <1>0, <1>3, <2>1 DEF StartSave
<1>4. ASSUME NEW e \in Editors, NEW i \in Isolates, StartRevert(e, i) PROVE ChainInv'
  <2>1. save'[e].phase = "sent" /\ \A f \in Editors \ {e} : save'[f] = save[f]
    BY <1>4, <1>t DEF StartRevert
  <2> QED BY <1>0, <1>4, <2>1 DEF StartRevert
<1>5. ASSUME NEW e \in Editors, Invalidate(e) PROVE ChainInv'
  <2>1. save'[e].phase = "saved" /\ \A f \in Editors \ {e} : save'[f] = save[f]
    BY <1>5, <1>t DEF Invalidate
  <2> QED BY <1>0, <1>5, <2>1 DEF Invalidate
<1>6. ASSUME NEW e \in Editors, SaveOk(e) \/ SaveRefused(e) PROVE ChainInv'
  <2>1. save'[e].phase = "none" /\ \A f \in Editors \ {e} : save'[f] = save[f]
    BY <1>6, <1>t DEF SaveOk, SaveRefused, NoSave
  <2> QED BY <1>0, <1>6, <2>1 DEF SaveOk, SaveRefused
<1>7. ASSUME UNCHANGED <<own, row, versions, lock, save>> PROVE ChainInv' BY <1>0, <1>7
<1>8. CASE UNCHANGED vars BY <1>7, <1>8 DEF vars
<1>9. CASE \/ \E e \in Editors : EndLoad(e) \/ Arrive(e) \/ Type(e) \/ Reload(e)
           \/ \E e \in Editors, i \in Isolates : Hit(e, i) \/ StartLoad(e, i)
           \/ \E i \in Isolates : Recycle(i)
  BY <1>7, <1>9 DEF EndLoad, Arrive, Type, Reload, Hit, StartLoad, Recycle
<1> QED BY <1>1, <1>2, <1>3, <1>4, <1>5, <1>6, <1>8, <1>9 DEF Next

-----------------------------------------------------------------------------
(* The caches. *)

\* Nothing is cached at the start.
LEMMA FreshInit == Setting /\ Init => FreshInv
BY TextsType DEF Init, FreshInv, StaleIsForeign, NoFetch

\* Every step keeps what is known of a load and of a cache.
LEMMA FreshStep == Setting /\ Types /\ FreshInv /\ [Next]_vars => FreshInv'
<1> SUFFICES ASSUME Setting, Types, FreshInv, [Next]_vars PROVE FreshInv' OBVIOUS
<1>t. /\ fetch \in [Editors -> Fetch] /\ cache \in [Isolates -> Texts \cup {Null, Empty}]
      /\ Null \notin Texts /\ Empty \notin Texts /\ NoFetch.phase = "none"
  BY TextsType DEF Types, NoFetch
<1>0. ASSUME UNCHANGED row,
             \A f \in Editors : fetch'[f] = fetch[f] \/ fetch'[f].phase # "loading",
             \A i \in Isolates : \/ cache'[i] = cache[i] /\ (i \in excused => i \in excused')
                                 \/ cache'[i] \notin Texts
      PROVE  FreshInv'
  BY <1>0 DEF FreshInv, StaleIsForeign
<1>1. ASSUME NEW e \in Editors, NEW i \in Isolates, Hit(e, i) PROVE FreshInv'
  <2>1. fetch'[e].phase = "answered" /\ \A f \in Editors \ {e} : fetch'[f] = fetch[f]
    BY <1>1, <1>t DEF Hit, NoFetch
  <2> QED BY <1>0, <1>1, <2>1 DEF Hit
<1>2. ASSUME NEW e \in Editors, NEW i \in Isolates, StartLoad(e, i) PROVE FreshInv'
  <2>1. fetch'[e].text = row /\ \A f \in Editors \ {e} : fetch'[f] = fetch[f]
    BY <1>2, <1>t DEF StartLoad
  <2>2. \A j \in Isolates : cache'[j] = cache[j] \/ cache'[j] \notin Texts BY <1>2, <1>t DEF StartLoad
  <2> QED BY <1>2, <2>1, <2>2 DEF StartLoad, FreshInv, StaleIsForeign
<1>3. ASSUME NEW e \in Editors, EndLoad(e) PROVE FreshInv'
  <2>1. fetch'[e].phase # "loading" /\ \A f \in Editors \ {e} : fetch'[f] = fetch[f]
    BY <1>3, <1>t DEF EndLoad, NoFetch
  <2>2. CASE UNCHANGED <<cache, excused>> BY <1>0, <1>3, <2>1, <2>2 DEF EndLoad
  <2>3. CASE ~UNCHANGED <<cache, excused>>
    <3> DEFINE i == fetch[e].at
    <3>1. /\ cache' = [cache EXCEPT ![i] = fetch[e].text] /\ UNCHANGED row
          /\ excused' = IF fetch[e].overlap THEN excused \cup {i} ELSE excused \ {i}
      BY <1>3, <2>3 DEF EndLoad
    <3>2. fetch[e].overlap \/ fetch[e].text = row BY <1>3 DEF EndLoad, FreshInv
    <3>3. i \in Isolates BY <1>3 DEF EndLoad, Types
    <3> HIDE DEF i
    <3>4. \A j \in Isolates \ {i} : cache'[j] = cache[j] /\ (j \in excused => j \in excused')
      BY <1>t, <3>1
    <3>5. cache'[i] = row' \/ i \in excused' BY <1>t, <3>1, <3>2, <3>3
    <3>6. StaleIsForeign' BY <3>1, <3>4, <3>5 DEF FreshInv, StaleIsForeign
    <3> QED BY <2>1, <3>1, <3>6 DEF FreshInv
  <2> QED BY <2>2, <2>3
<1>4. ASSUME NEW e \in Editors, Arrive(e) PROVE FreshInv'
  <2>1. fetch'[e] = NoFetch /\ \A f \in Editors \ {e} : fetch'[f] = fetch[f]
    BY <1>4, <1>t DEF Arrive
  <2> QED BY <1>0, <1>4, <1>t, <2>1 DEF Arrive
<1>5. ASSUME NEW e \in Editors, Commit(e) PROVE FreshInv'
  <2>1. \A f \in Editors : fetch'[f].phase = "loading" => fetch'[f].overlap
    <3>1. ASSUME NEW f \in Editors, fetch[f].phase = "loading" PROVE fetch'[f].overlap = TRUE
      <4>1. fetch'[f] = [fetch[f] EXCEPT !.overlap = TRUE] BY <1>5, <3>1 DEF Commit
      <4> QED BY <1>t, <4>1 DEF Fetch
    <3>2. ASSUME NEW f \in Editors, fetch[f].phase # "loading" PROVE fetch'[f] = fetch[f]
      BY <1>5, <3>2 DEF Commit
    <3> QED BY <3>1, <3>2
  <2>2. StaleIsForeign' BY <1>5 DEF Commit, StaleIsForeign
  <2> QED BY <2>1, <2>2 DEF FreshInv
<1>6. ASSUME NEW e \in Editors, Invalidate(e) PROVE FreshInv'
  <2>1. save[e].at \in Isolates BY <1>6 DEF Invalidate, Types
  <2>2. \A j \in Isolates : \/ cache'[j] = cache[j] /\ (j \in excused => j \in excused')
                            \/ cache'[j] \notin Texts
    BY <1>6, <1>t, <2>1 DEF Invalidate
  <2> QED BY <1>0, <1>6, <2>2 DEF Invalidate
<1>7. ASSUME NEW i \in Isolates, Recycle(i) PROVE FreshInv'
  <2>1. \A f \in Editors : fetch'[f] = fetch[f] \/ fetch'[f].phase # "loading"
    BY <1>7, <1>t DEF Recycle
  <2>2. \A j \in Isolates : \/ cache'[j] = cache[j] /\ (j \in excused => j \in excused')
                            \/ cache'[j] \notin Texts
    BY <1>7, <1>t DEF Recycle
  <2> QED BY <1>0, <1>7, <2>1, <2>2 DEF Recycle
<1>8. ASSUME UNCHANGED <<row, fetch, cache, excused>> PROVE FreshInv' BY <1>0, <1>8
<1>9. CASE UNCHANGED vars BY <1>8, <1>9 DEF vars
<1>10. CASE \/ \E e \in Editors : \/ Type(e) \/ Reload(e) \/ Begin(e) \/ SaveOk(e) \/ SaveRefused(e)
            \/ \E e \in Editors, i \in Isolates : StartSave(e, i) \/ StartRevert(e, i)
  BY <1>8, <1>10 DEF Type, Reload, Begin, SaveOk, SaveRefused, StartSave, StartRevert
<1> QED BY <1>1, <1>2, <1>3, <1>4, <1>5, <1>6, <1>7, <1>9, <1>10 DEF Next

-----------------------------------------------------------------------------
(* What was on the screen. *)

\* Whoever is held to NoBlindOverwrite.
Watched == {e \in Editors : ~(Policy /\ e \in Studio)}

\* On a page p whose editor displayed the texts s, a buffer and the sha a save will
\* expect were displayed; under a draft, the newest sha may be of data not yet seen.
SeenOn(e, p, s) ==
    /\ p.sha \in s \cup {p.data, NoText}
    /\ e \in Library => p.sha \in s \cup {NoText} /\ (p.data # NoText => p.buffer \in s)
    /\ e \in Studio /\ p.buffer # NoText => p.buffer \in s /\ p.base \in s
    /\ e \in Studio /\ p.buffer = NoText => {p.data, p.sha} \subseteq s \cup {NoText}

\* So were the text of e's save c under way and, unless it is a revert in the Studio, the
\* one it expects to replace.
SentOf(e, c, s) ==
    c.phase # "none" =>
        /\ c.text \in s
        /\ c.kind = "save" \/ e \in Library => c.expected \in s \cup {NoText}

SeenInv ==
    /\ \A e \in Watched : SeenOn(e, page[e], shown[e]) /\ SentOf(e, save[e], shown[e])
    /\ NoBlindOverwrite

\* What was seen stays seen.
LEMMA SeenGrows ==
  ASSUME NEW e, NEW p, NEW c, NEW s, NEW t, s \subseteq t
  PROVE  (SeenOn(e, p, s) => SeenOn(e, p, t)) /\ (SentOf(e, c, s) => SentOf(e, c, t))
BY DEF SeenOn, SentOf

\* A page that changes and is displayed goes on showing what it must.
LEMMA ShowSeen ==
  ASSUME Setting, Types, NEW e \in Watched, SeenOn(e, page[e], shown[e]), SentOf(e, save[e], shown[e])
  PROVE  /\ fetch[e].phase = "answered" =>
              SeenOn(e, Primed(e), shown[e] \cup {On(e, Primed(e))})
         /\ page[e].data # NoText /\ edits < MaxTexts =>
              SeenOn(e, Typed(e), shown[e] \cup {On(e, Typed(e))})
         /\ save[e].phase = "saved" =>
              SeenOn(e, Settled(e), shown[e] \cup {On(e, Settled(e))})
<1> DEFINE p == page[e]
           s == shown[e]
<1>1. /\ e \in Editors /\ p \in Page /\ PageTypes(e) /\ NoText \notin Texts
      /\ fetch[e].phase = "answered" => fetch[e].text \in Texts
      /\ save[e].phase = "saved" => save[e].text \in Texts
      /\ e \in Library => e \notin Studio
      /\ e \in Library \/ e \in Studio
      /\ e \in Studio => ~Policy
  BY TextsType DEF Types, Setting, Editors, Watched
<1>2. /\ p.sha \in s \cup {p.data, NoText}
      /\ e \in Library => p.sha \in s \cup {NoText} /\ (p.data # NoText => p.buffer \in s)
      /\ e \in Studio /\ p.buffer # NoText => p.buffer \in s /\ p.base \in s
      /\ e \in Studio /\ p.buffer = NoText => {p.data, p.sha} \subseteq s \cup {NoText}
  BY DEF SeenOn
<1>3. p.data # NoText => p.sha # NoText BY <1>1 DEF PageTypes
<1>4. ASSUME fetch[e].phase = "answered"
      PROVE  SeenOn(e, Primed(e), s \cup {On(e, Primed(e))})
  <2> DEFINE q == Primed(e)
             t == fetch[e].text
  <2>1. /\ q.data = t /\ q.sha = (IF t # p.data THEN t ELSE p.sha)
        /\ q.buffer = (IF t # p.data /\ e \in Library THEN t ELSE p.buffer)
        /\ e \in Studio => q.base = p.base
    BY <1>1 DEF Primed
  <2>2. t \in Texts /\ t # NoText BY <1>1, <1>4
  <2> HIDE DEF q, t
  <2>3. ASSUME e \in Library PROVE SeenOn(e, q, s \cup {On(e, q)})
    <3>1. On(e, q) = q.buffer /\ e \notin Studio BY <1>1, <2>3 DEF On
    <3> QED BY <1>2, <2>1, <2>2, <2>3, <3>1 DEF SeenOn
  <2>4. ASSUME e \in Studio PROVE SeenOn(e, q, s \cup {On(e, q)})
    <3>1. e \notin Library /\ On(e, q) = (IF p.buffer = NoText THEN t ELSE p.buffer)
          /\ q.buffer = p.buffer
      BY <1>1, <2>1, <2>4 DEF On
    <3> QED BY <1>2, <2>1, <2>2, <2>4, <3>1 DEF SeenOn
  <2> QED BY <1>1, <2>3, <2>4 DEF q
<1>5. ASSUME p.data # NoText, edits < MaxTexts
      PROVE  SeenOn(e, Typed(e), s \cup {On(e, Typed(e))})
  <2> DEFINE q == Typed(e)
             n == edits + 1
  <2>1. /\ q.data = p.data /\ q.sha = p.sha /\ q.buffer = n
        /\ e \in Studio => q.base = IF p.buffer = NoText THEN p.sha ELSE p.base
    BY <1>1 DEF Typed
  <2>2. n # NoText BY <1>5, TextsType DEF Types
  <2> HIDE DEF q, n
  <2>3. On(e, q) = n BY <2>1, <2>2 DEF On
  <2>4. SeenOn(e, q, s \cup {On(e, q)}) BY <1>1, <1>2, <1>3, <1>5, <2>1, <2>2, <2>3 DEF SeenOn
  <2> QED BY <2>4 DEF q
<1>6. ASSUME save[e].phase = "saved"
      PROVE  SeenOn(e, Settled(e), s \cup {On(e, Settled(e))})
  <2> DEFINE q == Settled(e)
             t == save[e].text
  <2>0. t \in s /\ t # NoText BY <1>1, <1>6 DEF SentOf
  <2>1. ASSUME e \in Studio, save[e].kind = "save" PROVE SeenOn(e, q, s \cup {On(e, q)})
    <3>1. q.data = p.data /\ q.sha = p.sha /\ q.buffer = NoText BY <1>1, <2>1 DEF Settled, Page
    <3> HIDE DEF q
    <3>2. On(e, q) = p.data /\ e \notin Library BY <1>1, <2>1, <3>1 DEF On
    <3> QED BY <1>2, <3>1, <3>2 DEF SeenOn
  <2>2. ASSUME ~(e \in Studio /\ save[e].kind = "save"), Policy PROVE SeenOn(e, q, s \cup {On(e, q)})
    <3>1. e \in Library /\ e \notin Studio BY <1>1, <2>2
    <3>2. q.data = t /\ q.sha = t /\ q.buffer = t BY <2>2, <3>1 DEF Settled
    <3> HIDE DEF q, t
    <3> QED BY <2>0, <3>1, <3>2 DEF SeenOn
  <2>3. ASSUME ~(e \in Studio /\ save[e].kind = "save"), ~Policy PROVE SeenOn(e, q, s \cup {On(e, q)})
    <3>1. q.data = p.data /\ q.sha = t /\ q.buffer = p.buffer /\ q.base = p.base
      BY <1>1, <2>3 DEF Settled, Page
    <3> HIDE DEF q, t
    <3> QED BY <1>1, <1>2, <2>0, <3>1 DEF SeenOn
  <2> QED BY <2>1, <2>2, <2>3
<1> QED BY <1>4, <1>5, <1>6

\* Nobody has displayed or saved anything at the start.
LEMMA SeenInit == Setting /\ Init => SeenInv
<1> SUFFICES ASSUME Setting, Init PROVE SeenInv OBVIOUS
<1>1. ASSUME NEW e \in Editors PROVE SeenOn(e, page[e], shown[e]) /\ SentOf(e, save[e], shown[e])
  <2>1. /\ page[e].data = NoText /\ page[e].sha = NoText /\ save[e].phase = "none"
        /\ e \in Studio => page[e].buffer = NoText
    BY DEF Init, NoSave, Setting
  <2> QED BY <2>1 DEF SeenOn, SentOf
<1>2. DOMAIN versions = {} BY DEF Init
<1> QED BY <1>1, <1>2 DEF SeenInv, Watched, NoBlindOverwrite

\* Every step keeps it.
LEMMA SeenStep == Setting /\ Types /\ ChainInv /\ SeenInv /\ [Next]_vars => SeenInv'
<1> SUFFICES ASSUME Setting, Types, ChainInv, SeenInv, [Next]_vars PROVE SeenInv' OBVIOUS
<1>t. /\ save \in [Editors -> Save] /\ page \in [Editors -> Page] /\ versions \in Seq(Version)
      /\ shown \in [Editors -> SUBSET (Texts \cup {NoText})]
      /\ Watched \subseteq Editors /\ Watched' = Watched
  BY DEF Types, Watched
<1>v. ASSUME UNCHANGED versions, \A e \in Editors : shown[e] \subseteq shown'[e] PROVE NoBlindOverwrite'
  <2>1. \A n \in DOMAIN versions : versions[n].by \in Editors
    <3>1. \A n \in DOMAIN versions : versions[n] \in Version BY <1>t
    <3> QED BY <3>1 DEF Version
  <2> QED BY <1>v, <2>1 DEF SeenInv, NoBlindOverwrite, Replaced
<1>o. ASSUME NEW e \in Watched, UNCHANGED <<page[e], shown[e], save[e]>>
      PROVE  SeenOn(e, page'[e], shown'[e]) /\ SentOf(e, save'[e], shown'[e])
  BY <1>o DEF SeenInv
\* A page that changes, while no call of its editor goes out.
<1>p. ASSUME NEW e \in Editors, NEW q, Show(e, q), UNCHANGED versions,
             e \in Watched => SeenOn(e, q, shown[e] \cup {On(e, q)}),
             \A f \in Editors : save'[f] = save[f] \/ save'[f].phase = "none"
      PROVE  SeenInv'
  <2>1. /\ page'[e] = q /\ \A f \in Editors \ {e} : page'[f] = page[f] /\ shown'[f] = shown[f]
        /\ shown'[e] = shown[e] \cup {On(e, q)}
    BY <1>p, <1>t DEF Show
  <2>2. ASSUME NEW f \in Watched
        PROVE  SeenOn(f, page'[f], shown'[f]) /\ SentOf(f, save'[f], shown'[f])
    <3>1. SentOf(f, save'[f], shown[f]) BY <1>p, <1>t DEF SeenInv, SentOf
    <3>2. CASE f = e BY <1>p, <2>1, <3>1, <3>2, SeenGrows
    <3>3. CASE f # e BY <1>t, <2>1, <3>1, <3>3 DEF SeenInv
    <3> QED BY <3>2, <3>3
  <2>3. NoBlindOverwrite' BY <1>p, <1>v, <2>1
  <2> QED BY <1>t, <2>2, <2>3 DEF SeenInv
\* A call that moves on, while no page changes.
<1>c. ASSUME NEW e \in Editors, UNCHANGED <<page, shown, versions>>,
             \A f \in Editors \ {e} : save'[f] = save[f],
             \/ save'[e].phase = "none"
             \/ /\ save[e].phase # "none" /\ save'[e].text = save[e].text
                /\ save'[e].kind = save[e].kind /\ save'[e].expected = save[e].expected
      PROVE  SeenInv'
  <2>1. \A f \in Watched : SentOf(f, save'[f], shown'[f]) BY <1>c, <1>t DEF SeenInv, SentOf
  <2>2. NoBlindOverwrite' BY <1>c, <1>v
  <2> QED BY <1>c, <1>t, <2>1, <2>2 DEF SeenInv
<1>1. ASSUME NEW e \in Editors, Arrive(e) PROVE SeenInv'
  BY <1>1, <1>p, ShowSeen DEF Arrive, SeenInv
<1>2. ASSUME NEW e \in Editors, Type(e) PROVE SeenInv'
  BY <1>2, <1>p, ShowSeen DEF Type, SeenInv
<1>3. ASSUME NEW e \in Editors, Reload(e) PROVE SeenInv'
  <2> DEFINE q == [page[e] EXCEPT !.buffer = Blank]
  <2>1. q.data = page[e].data /\ q.sha = page[e].sha /\ q.buffer = Blank BY <1>t DEF Page
  <2>2. Show(e, q) /\ e \in Library /\ e \notin Studio BY <1>3 DEF Reload, Setting
  <2> HIDE DEF q
  <2>3. e \in Watched => SeenOn(e, q, shown[e] \cup {On(e, q)})
    BY <2>1, <2>2 DEF SeenInv, SeenOn, On
  <2> QED BY <1>3, <1>p, <2>2, <2>3 DEF Reload
<1>4. ASSUME NEW e \in Editors, SaveOk(e) PROVE SeenInv'
  <2>1. \A f \in Editors : save'[f] = save[f] \/ save'[f].phase = "none"
    BY <1>4, <1>t DEF SaveOk, NoSave
  <2> QED BY <1>4, <1>p, <2>1, ShowSeen DEF SaveOk, SeenInv
<1>5. ASSUME NEW e \in Editors, NEW i \in Isolates, StartSave(e, i) PROVE SeenInv'
  <2>1. /\ save'[e].text = On(e, page[e]) /\ save'[e].kind = "save"
        /\ save'[e].expected = IF e \in Studio THEN page[e].base ELSE page[e].sha
        /\ \A f \in Editors \ {e} : save'[f] = save[f]
    BY <1>5, <1>t DEF StartSave
  <2>2. e \in Watched => SentOf(e, save'[e], shown[e])
    BY <1>5, <2>1 DEF StartSave, SeenInv, SeenOn, SentOf, On, Editors, Watched
  <2>3. UNCHANGED <<page, shown, versions>> BY <1>5 DEF StartSave
  <2>4. \A f \in Watched : SentOf(f, save'[f], shown'[f]) BY <1>t, <2>1, <2>2, <2>3 DEF SeenInv
  <2>5. NoBlindOverwrite' BY <1>v, <2>3
  <2> QED BY <1>t, <2>3, <2>4, <2>5 DEF SeenInv
<1>6. ASSUME NEW e \in Editors, NEW i \in Isolates, StartRevert(e, i) PROVE SeenInv'
  <2>1. PICK v \in ToSet(versions) :
          /\ save' = [save EXCEPT ![e] = [phase |-> "sent", at |-> i, text |-> v.sha,
                                          expected |-> page[e].sha, kind |-> "revert"]]
          /\ shown' = [shown EXCEPT ![e] = shown[e] \cup {v.sha}]
    BY <1>6 DEF StartRevert
  <2>2. /\ save'[e].text = v.sha /\ save'[e].kind = "revert"
        /\ shown'[e] = shown[e] \cup {v.sha}
        /\ \A f \in Editors \ {e} : save'[f] = save[f] /\ shown'[f] = shown[f]
    BY <1>t, <2>1
  <2>3. UNCHANGED <<page, versions>> BY <1>6 DEF StartRevert
  <2>4. ASSUME NEW f \in Watched
        PROVE  SeenOn(f, page'[f], shown'[f]) /\ SentOf(f, save'[f], shown'[f])
    <3>1. CASE f = e
      <4>1. SeenOn(e, page[e], shown[e]) BY <3>1 DEF SeenInv
      <4>2. SeenOn(e, page'[e], shown'[e]) BY <2>2, <2>3, <4>1, SeenGrows
      <4>3. save'[e].expected = page[e].sha BY <1>t, <2>1
      <4>4. e \in Library => page[e].sha \in shown[e] \cup {NoText} BY <4>1 DEF SeenOn
      <4> QED BY <2>2, <3>1, <4>2, <4>3, <4>4 DEF SentOf
    <3>2. CASE f # e BY <1>t, <2>2, <2>3, <3>2 DEF SeenInv
    <3> QED BY <3>1, <3>2
  <2>5. NoBlindOverwrite' BY <1>v, <2>2, <2>3
  <2> QED BY <1>t, <2>4, <2>5 DEF SeenInv
<1>7. ASSUME NEW e \in Editors, Begin(e) PROVE SeenInv'
  <2>1. PICK p \in {"sent", "update", "insert", "committed", "saved", "refused"} :
          save' = [save EXCEPT ![e].phase = p]
    BY <1>7 DEF Begin
  <2>2. UNCHANGED <<page, shown, versions>> /\ save[e].phase # "none" BY <1>7 DEF Begin
  <2> QED BY <1>c, <2>1, <2>2, PhaseType
<1>8. ASSUME NEW e \in Editors, Invalidate(e) PROVE SeenInv'
  <2>1. UNCHANGED <<page, shown, versions>> /\ save[e].phase # "none"
        /\ save' = [save EXCEPT ![e].phase = "saved"]
    BY <1>8 DEF Invalidate
  <2> QED BY <1>c, <2>1, PhaseType
<1>9. ASSUME NEW e \in Editors, SaveRefused(e) PROVE SeenInv'
  <2>1. UNCHANGED <<page, shown, versions>> /\ save'[e].phase = "none"
        /\ \A f \in Editors \ {e} : save'[f] = save[f]
    BY <1>9, <1>t DEF SaveRefused, NoSave
  <2> QED BY <1>c, <2>1
<1>10. ASSUME NEW e \in Editors, Commit(e) PROVE SeenInv'
  <2>1. /\ UNCHANGED <<page, shown>> /\ save[e].phase \in {"update", "insert"}
        /\ save' = [save EXCEPT ![e].phase = "committed"]
        /\ versions' = Append(versions, NewVersion(e))
    BY <1>10 DEF Commit
  <2>2. /\ save'[e].text = save[e].text /\ save'[e].kind = save[e].kind
        /\ save'[e].expected = save[e].expected /\ \A f \in Editors \ {e} : save'[f] = save[f]
    BY <2>1, PhaseType
  <2>3. \A f \in Watched : SentOf(f, save'[f], shown'[f]) BY <1>t, <2>1, <2>2 DEF SeenInv, SentOf
  <2> DEFINE v == NewVersion(e)
  <2>4. v.by = e /\ v.kind = save[e].kind
        /\ v.parent = IF save[e].phase = "update" THEN save[e].expected ELSE NoSha
    BY DEF NewVersion
  <2>5. \/ save[e].phase = "update" /\ save[e].expected = row
        \/ save[e].phase = "insert" /\ save[e].expected = 0
    BY <2>1 DEF ChainInv, InForce
  <2>6. row \in Texts /\ 0 \in Texts /\ NoText \notin Texts /\ NoSha \notin Texts
    BY TextsType DEF Types
  <2> HIDE DEF v
  <2>7. versions' = Append(versions, v) /\ versions \in Seq(Version) BY <1>t, <2>1 DEF v
  <2>8. \A n \in 1 .. Len(versions) : versions'[n] = versions[n] /\ n \in DOMAIN versions
    BY <2>7
  <2>9. ASSUME NEW n \in Nat, n = Len(versions) + 1 PROVE Replaced(n)' = row
    <3>1. CASE versions = <<>> BY <2>9, <3>1 DEF Replaced, ChainInv
    <3>2. CASE versions # <<>>
      <4>1. Len(versions) \in 1 .. Len(versions) /\ n # 1 /\ n - 1 = Len(versions)
        BY <2>7, <2>9, <3>2
      <4>2. versions[Len(versions)].sha = row BY <3>2 DEF ChainInv, HistoryIsChain, Last
      <4>3. versions'[n - 1] = versions[Len(versions)] BY <2>8, <4>1
      <4> QED BY <4>1, <4>2, <4>3 DEF Replaced
    <3> QED BY <3>1, <3>2
  <2>10. ASSUME versions = <<>> \/ v.parent # NoSha, ~(e \in Studio /\ (Policy \/ v.kind = "revert"))
         PROVE  row \in shown[e]
    <3>1. save[e].expected = row
      <4>1. CASE save[e].phase = "update" BY <2>5, <4>1
      <4>2. CASE save[e].phase # "update" BY <2>4, <2>5, <2>10, <4>2 DEF ChainInv
      <4> QED BY <4>1, <4>2
    <3>2. e \in Watched /\ (save[e].kind = "save" \/ e \in Library)
      <4>1. save[e].kind \in {"save", "revert"} BY <1>t DEF Save
      <4> QED BY <2>4, <2>10, <4>1 DEF Watched, Editors
    <3>3. SentOf(e, save[e], shown[e]) BY <3>2 DEF SeenInv
    <3> QED BY <2>1, <2>6, <3>1, <3>2, <3>3 DEF SentOf
  <2>11. ASSUME NEW n \in DOMAIN versions'
         PROVE  \/ n > 1 /\ versions'[n].parent = NoSha
                \/ versions'[n].by \in Studio /\ (Policy \/ versions'[n].kind = "revert")
                \/ Replaced(n)' \in shown'[versions'[n].by]
    <3>1. CASE n = Len(versions) + 1
      <4>1. n \in Nat /\ versions'[n] = v /\ (versions # <<>> => n > 1) BY <2>7, <3>1
      <4>2. Replaced(n)' = row BY <2>9, <3>1, <4>1
      <4>3. CASE versions # <<>> /\ v.parent = NoSha BY <4>1, <4>3
      <4>4. CASE e \in Studio /\ (Policy \/ v.kind = "revert") BY <2>4, <4>1, <4>4
      <4>5. CASE row \in shown[e] BY <2>1, <2>4, <4>1, <4>2, <4>5
      <4> QED BY <2>10, <4>3, <4>4, <4>5
    <3>2. CASE n # Len(versions) + 1
      <4>1. n \in 1 .. Len(versions) BY <2>7, <3>2
      <4>2. versions'[n] = versions[n] /\ n \in DOMAIN versions BY <2>8, <4>1
      <4>3. Replaced(n)' = Replaced(n)
        <5>1. CASE n = 1 BY <5>1 DEF Replaced
        <5>2. CASE n # 1
          <6>1. n - 1 \in 1 .. Len(versions) BY <4>1, <5>2
          <6> QED BY <2>8, <5>2, <6>1 DEF Replaced
        <5> QED BY <5>1, <5>2
      <4> QED BY <2>1, <4>2, <4>3 DEF SeenInv, NoBlindOverwrite
    <3> QED BY <3>1, <3>2
  <2>12. NoBlindOverwrite' BY <2>11 DEF NoBlindOverwrite
  <2> QED BY <1>t, <2>1, <2>3, <2>12 DEF SeenInv
<1>11. ASSUME UNCHANGED <<page, shown, save, versions>> PROVE SeenInv'
  BY <1>11 DEF SeenInv, Watched, NoBlindOverwrite, Replaced
<1>12. CASE UNCHANGED vars BY <1>11, <1>12 DEF vars
<1>13. CASE \/ \E e \in Editors : EndLoad(e)
            \/ \E e \in Editors, i \in Isolates : Hit(e, i) \/ StartLoad(e, i)
            \/ \E i \in Isolates : Recycle(i)
  BY <1>11, <1>13 DEF EndLoad, Hit, StartLoad, Recycle
<1> QED BY <1>1, <1>2, <1>3, <1>4, <1>5, <1>6, <1>7, <1>8, <1>9, <1>10, <1>12, <1>13 DEF Next

-----------------------------------------------------------------------------
(* What was typed. *)

\* The page of e alone changes, when it does.
LEMMA ShownBy ==
  ASSUME Types, NEW e \in Editors, NEW p, Show(e, p)
  PROVE  page'[e] = p /\ \A f \in Editors \ {e} : page'[f] = page[f]
BY DEF Types, Show

\* A text leaves the screen by an edit, a reload, newer data or the end of a save.
LEMMA TypingKept == Setting /\ Types /\ [Next]_vars => [TypingStep]_vars
<1> SUFFICES ASSUME Setting, Types, [Next]_vars PROVE TypingStep OBVIOUS
<1>t. page \in [Editors -> Page] /\ edits \in Nat /\ Editors = Library \cup Studio
  BY DEF Types, Setting, Editors
<1>0. ASSUME NEW e \in Editors, \A f \in Editors \ {e} : page'[f] = page[f],
             \/ page'[e].buffer = page[e].buffer
             \/ edits' > edits \/ page'[e].buffer = Blank
             \/ e \in Library /\ page'[e].data # page[e].data
             \/ save[e].phase = "saved" /\ (e \in Studio \/ Policy)
      PROVE  TypingStep
  BY <1>0 DEF TypingStep
<1>1. ASSUME NEW e \in Editors, Arrive(e) PROVE TypingStep
  <2>1. page'[e] = Primed(e) /\ \A f \in Editors \ {e} : page'[f] = page[f]
    BY <1>1, ShownBy DEF Arrive
  <2>2. Primed(e).data = fetch[e].text
        /\ Primed(e).buffer = IF fetch[e].text # page[e].data /\ e \in Library
                              THEN fetch[e].text ELSE page[e].buffer
    BY DEF Primed
  <2> QED BY <1>0, <2>1, <2>2
<1>2. ASSUME NEW e \in Editors, Type(e) PROVE TypingStep
  BY <1>0, <1>2, <1>t, ShownBy DEF Type
<1>3. ASSUME NEW e \in Editors, Reload(e) PROVE TypingStep
  <2>1. page'[e] = [page[e] EXCEPT !.buffer = Blank] /\ \A f \in Editors \ {e} : page'[f] = page[f]
    BY <1>3, ShownBy DEF Reload
  <2>2. page'[e].buffer = Blank BY <1>t, <2>1 DEF Page
  <2> QED BY <1>0, <2>1, <2>2
<1>4. ASSUME NEW e \in Editors, SaveOk(e) PROVE TypingStep
  <2>1. page'[e] = Settled(e) /\ \A f \in Editors \ {e} : page'[f] = page[f]
    BY <1>4, ShownBy DEF SaveOk
  <2>2. ~(e \in Studio \/ Policy) => Settled(e).buffer = page[e].buffer
    BY <1>t DEF Settled, Page
  <2> QED BY <1>0, <1>4, <2>1, <2>2 DEF SaveOk
<1>5. ASSUME UNCHANGED page PROVE TypingStep BY <1>5 DEF TypingStep
<1>6. CASE UNCHANGED vars BY <1>5, <1>6 DEF vars
<1>7. CASE \/ \E e \in Editors : EndLoad(e) \/ Begin(e) \/ Commit(e) \/ Invalidate(e) \/ SaveRefused(e)
           \/ \E e \in Editors, i \in Isolates :
                Hit(e, i) \/ StartLoad(e, i) \/ StartSave(e, i) \/ StartRevert(e, i)
           \/ \E i \in Isolates : Recycle(i)
  BY <1>5, <1>7 DEF EndLoad, Begin, Commit, Invalidate, SaveRefused, Hit, StartLoad, StartSave,
     StartRevert, Recycle
<1> QED BY <1>1, <1>2, <1>3, <1>4, <1>6, <1>7 DEF Next

-----------------------------------------------------------------------------
(* The theorems. *)

\* Types and the chain are invariants together.
LEMMA Inductive == ASSUME Setting PROVE Spec => [](Types /\ ChainInv)
<1>1. Init => Types /\ ChainInv BY TypesInit, ChainInit
<1>2. (Types /\ ChainInv) /\ [Next]_vars => (Types /\ ChainInv)'
  BY TypesStep, ChainStep
<1> QED BY <1>1, <1>2, PTL DEF Spec

\* The variables have their types, and at most one transaction holds the row.
THEOREM PromptTypes == ASSUME Setting PROVE Spec => []TypeOK
<1>1. Types /\ ChainInv => TypeOK
  <2> SUFFICES ASSUME Types, ChainInv PROVE TypeOK OBVIOUS
  <2>1. Cardinality(lock) <= 1
    <3>1. CASE lock = {} BY <3>1, FS_EmptySet
    <3>2. CASE lock # {}
      <4>1. PICK e \in lock : TRUE BY <3>2
      <4>2. lock = {e} BY <4>1 DEF Types, ChainInv, InForce
      <4>3. Cardinality({e}) = 1 BY FS_Singleton
      <4> QED BY <4>2, <4>3
    <3> QED BY <3>1, <3>2
  <2>2. \A e \in Editors : save[e].phase = "update" => e \in lock BY DEF ChainInv, InForce
  <2>3. \A e \in Editors : page[e].data \in Texts \cup {NoText} BY DEF Types, Page
  <2>4. own \in BOOLEAN BY Zenon DEF Types
  <2> QED BY <2>1, <2>2, <2>3, <2>4 DEF Types, PageTypes, TypeOK
<1> QED BY <1>1, Inductive, PTL

\* However many saves and reverts are under way at once, each version replaces the one
\* before it and the last is the text in force; only first saves of a voice that had no
\* row can stand beside each other.
THEOREM HistoryIsOneChain == ASSUME Setting PROVE Spec => []HistoryIsChain
<1>1. ChainInv => HistoryIsChain BY DEF ChainInv
<1> QED BY <1>1, Inductive, PTL

\* An isolate serves a replaced text only when another one took the save, or when a load
\* of its own overlapped it.
THEOREM StaleCachesAreForeign == ASSUME Setting PROVE Spec => []StaleIsForeign
<1>1. Init => FreshInv BY FreshInit
<1>2. Types /\ FreshInv /\ [Next]_vars => FreshInv' BY FreshStep
<1>3. FreshInv => StaleIsForeign BY DEF FreshInv
<1> QED BY <1>1, <1>2, <1>3, Inductive, PTL DEF Spec

\* Whoever saved or reverted had displayed the text in force that this replaced, the
\* inherited one for the first save of a voice.  Exempt are a first save that overlapped
\* another (FOR UPDATE finds no row to lock, and the later upsert replaces the earlier text
\* unseen), a policy draft of the Studio, and a revert in the Studio.
THEOREM NoTextIsOverwrittenUnseen == ASSUME Setting PROVE Spec => []NoBlindOverwrite
<1>1. Init => SeenInv BY SeenInit
<1>2. Types /\ ChainInv /\ SeenInv /\ [Next]_vars => SeenInv' BY SeenStep
<1>3. SeenInv => NoBlindOverwrite BY DEF SeenInv
<1> QED BY <1>1, <1>2, <1>3, Inductive, PTL DEF Spec

\* What somebody typed is replaced by newer data, their own edit or reload, or the end of
\* a save, and by nothing else.
THEOREM TypedTextIsKept == ASSUME Setting PROVE Spec => TypingIsKept
<1>1. Types /\ [Next]_vars => [TypingStep]_vars BY TypingKept
<1> QED BY <1>1, Inductive, PTL DEF Spec, TypingIsKept
=============================================================================
