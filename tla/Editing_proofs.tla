---------------------------- MODULE Editing_proofs ----------------------------
(***************************************************************************)
(* Proofs about what people change in one run, for any number of tabs,     *)
(* edits and requests:                                                     *)
(*   - RunDoc (part one): the pages and the object hold one document,     *)
(*     seeded once, what the object holds beyond its storage waits for     *)
(*     the timer, and neither backup loses an operation;                   *)
(*   - RunEditing (part two): no edit is lost without its author being     *)
(*     told, and what a page takes for stored is stored;                   *)
(*   - LedgerDrawer (part three): a drawer at rest shows the row, and a    *)
(*     field never goes back to an older value;                            *)
(*   - ReviewNotes (part four): highlights and threads match, messages     *)
(*     stay, and a deleted run leaves nothing behind.                      *)
(* The four have nothing to do with each other but the names they share    *)
(* (Writers, NoOne, NoText, MaxEdits, edits, overlapped), which stand for  *)
(* what each module calls so.                                              *)
(***************************************************************************)
EXTENDS RunEditing, FiniteSetTheorems, SequenceTheorems, WellFoundedInduction, TLAPS

CONSTANTS Clients, MaxFaults, MaxCrashes
VARIABLES hub, flights, stored, backup, page, down, up, faults, crashes

Collab == INSTANCE RunDoc

\* What the model takes from the code: NoOne is nobody, and the bounds are numbers.
CollabSetting == NoOne \notin Clients /\ MaxEdits \in Nat /\ MaxFaults \in Nat /\ MaxCrashes \in Nat

\* The operations that a frame, and a socket, carry.
Carry(m) == IF m.kind \in {"step2", "update"} THEN m.ops ELSE {}
Carries(s) == UNION {Carry(m) : m \in ToSet(s)}
HasStep2(s) == \E m \in ToSet(s) : m.kind = "step2"
Alive(c) == page[c].pc \in {"open", "connected"}

\* The sockets: the object knows every page that is connected, a page that is gone has
\* closed its socket behind everything it sent, and the grant is held by its page.
Wired ==
  /\ ~hub.loaded => hub = Collab!Asleep
  /\ hub.seeder # NoOne => hub.seeder \in hub.conns
  /\ \A c \in Clients :
       /\ Alive(c) => c \in hub.conns
       /\ c \in hub.conns => page[c].pc # "connecting"
       /\ c \notin hub.conns => up[c] = <<>>
       /\ ~Alive(c) => down[c] = <<>>
       /\ page[c].pc = "gone" => page[c] = Collab!NoPage
       /\ page[c].primary => hub.seeder = c
       /\ \A i \in DOMAIN up[c] : up[c][i].kind = "close" => i = Len(up[c]) /\ page[c].pc = "gone"

\* The documents: what a socket and a page have more than the other side is on its way.
Shared ==
  \A c \in Clients :
    /\ Carries(down[c]) \subseteq hub.doc
    /\ Alive(c) =>
         /\ page[c].doc \subseteq hub.doc \cup Carries(up[c])
         /\ Carries(up[c]) \subseteq page[c].doc
         /\ page[c].pc = "connected" \/ HasStep2(down[c])
              => hub.doc \subseteq page[c].doc \cup Carries(down[c])

\* The seeds: each is the seed of the object's document, or of the page that holds the
\* grant and is about to send it.
Single(doc) == \A x, y \in Collab!Seeders(doc) : x = y
SeedOf(c) == {c} \cap {hub.seeder}
Seeds ==
  /\ Single(hub.doc) /\ Single(stored) /\ Single(backup)
  /\ \A i \in DOMAIN flights : Single(flights[i])
  /\ hub.seeder # NoOne => Collab!Seeders(hub.doc) \subseteq {hub.seeder}
  /\ \A c \in Clients :
       /\ Collab!Seeders(page[c].doc) \subseteq Collab!Seeders(hub.doc) \cup SeedOf(c)
       /\ Collab!Seeders(Carries(up[c])) \subseteq Collab!Seeders(hub.doc) \cup SeedOf(c)
       /\ page[c].pc = "connecting" => Collab!Seeders(page[c].doc) = {}

\* The backups: storage is never ahead of the object, the database never of either.
Backups ==
  /\ Collab!UnsavedIsScheduled
  /\ faults = 0 /\ hub.loaded => stored \subseteq hub.doc
  /\ ~overlapped => Len(flights) <= 1
  /\ faults = 0 => \A i \in DOMAIN flights : flights[i] \subseteq stored
  /\ faults = 0 /\ ~overlapped =>
       /\ stored # Collab!Empty => backup \subseteq stored
       /\ hub.loaded => backup \subseteq hub.doc
       /\ \A i \in DOMAIN flights : backup \subseteq flights[i]

CollabInv == Collab!TypeOK /\ Wired /\ Shared /\ Seeds /\ Backups

-----------------------------------------------------------------------------
(* The frames of a socket, as a set.                                       *)

LEMMA EmptyFrames == ToSet(<<>>) = {} /\ Carries(<<>>) = {} /\ ~HasStep2(<<>>)
BY DEF ToSet, Carries, HasStep2

LEMMA AppendFrame ==
  ASSUME NEW s \in Seq(Collab!Msg), NEW m \in Collab!Msg
  PROVE  /\ Append(s, m) \in Seq(Collab!Msg)
         /\ Carries(Append(s, m)) = Carries(s) \cup Carry(m)
         /\ HasStep2(Append(s, m)) <=> HasStep2(s) \/ m.kind = "step2"
<1> DEFINE t == Append(s, m)
<1>1. Len(t) = Len(s) + 1 /\ DOMAIN t = 1 .. Len(s) + 1 /\ DOMAIN s = 1 .. Len(s) /\ Len(s) \in Nat
  OBVIOUS
<1>2. t[Len(s) + 1] = m /\ \A i \in 1 .. Len(s) : t[i] = s[i]
  OBVIOUS
<1>3. ToSet(t) = ToSet(s) \cup {m} BY <1>1, <1>2 DEF ToSet
<1>4. t \in Seq(Collab!Msg) OBVIOUS
<1> HIDE DEF t
<1>5. Carries(t) = Carries(s) \cup Carry(m) BY <1>3 DEF Carries
<1>6. HasStep2(t) <=> HasStep2(s) \/ m.kind = "step2" BY <1>3 DEF HasStep2
<1> QED BY <1>4, <1>5, <1>6 DEF t

LEMMA TakeFrame ==
  ASSUME NEW s \in Seq(Collab!Msg), s # <<>>
  PROVE  /\ Head(s) \in Collab!Msg /\ Tail(s) \in Seq(Collab!Msg)
         /\ Carries(s) = Carry(Head(s)) \cup Carries(Tail(s))
         /\ HasStep2(s) <=> Head(s).kind = "step2" \/ HasStep2(Tail(s))
<1> DEFINE t == Tail(s)
           h == Head(s)
<1>1. t \in Seq(Collab!Msg) /\ h \in Collab!Msg /\ h = s[1] /\ Len(s) \in Nat \ {0} /\ DOMAIN s = 1 .. Len(s)
  OBVIOUS
<1>2. Len(t) = Len(s) - 1 /\ DOMAIN t = 1 .. Len(s) - 1 /\ \A i \in 1 .. Len(s) - 1 : t[i] = s[i + 1]
  OBVIOUS
<1>3. \A i \in 1 .. Len(s) : i # 1 => i - 1 \in 1 .. Len(s) - 1 /\ s[i] = t[i - 1]
  <2> SUFFICES ASSUME NEW i \in 1 .. Len(s), i # 1 PROVE i - 1 \in 1 .. Len(s) - 1 /\ s[i] = t[i - 1]
    OBVIOUS
  <2>1. i - 1 \in 1 .. Len(s) - 1 /\ (i - 1) + 1 = i BY <1>1
  <2> QED BY <1>2, <2>1
<1>4. \A i \in 1 .. Len(s) - 1 : i + 1 \in 1 .. Len(s) BY <1>1
<1> HIDE DEF t, h
<1>5. ToSet(s) = {h} \cup ToSet(t)
  <2>1. ASSUME NEW x \in ToSet(s) PROVE x \in {h} \cup ToSet(t)
    <3>1. PICK i \in 1 .. Len(s) : x = s[i] BY <1>1, <2>1 DEF ToSet
    <3> QED BY <3>1, <1>1, <1>2, <1>3 DEF ToSet
  <2>2. ASSUME NEW x \in ToSet(t) PROVE x \in ToSet(s)
    <3>1. PICK i \in 1 .. Len(s) - 1 : x = t[i] BY <1>2, <2>2 DEF ToSet
    <3> QED BY <3>1, <1>1, <1>2, <1>4 DEF ToSet
  <2>3. h \in ToSet(s) BY <1>1 DEF ToSet
  <2> QED BY <2>1, <2>2, <2>3
<1>6. Carries(s) = Carry(h) \cup Carries(t) BY <1>5 DEF Carries
<1>7. HasStep2(s) <=> h.kind = "step2" \/ HasStep2(t) BY <1>5 DEF HasStep2
<1> QED BY <1>1, <1>6, <1>7 DEF t, h

\* A frame that carries operations is a step 2 or an update, and the other way round.
LEMMA FrameKinds ==
  ASSUME NEW m \in Collab!Msg
  PROVE  /\ m.kind \in {"step1", "close", "step2", "update"}
         /\ m.kind \in {"step2", "update"} => m.ops \in Collab!Doc /\ Carry(m) = m.ops
         /\ m.kind \notin {"step2", "update"} => Carry(m) = {}
         /\ Carry(m) \in Collab!Doc
BY DEF Collab!Msg, Carry, Collab!Doc

LEMMA MadeFrames ==
  /\ [kind |-> "step1"] \in Collab!Msg /\ [kind |-> "close"] \in Collab!Msg
  /\ \A d \in Collab!Doc, k \in {"step2", "update"} : [kind |-> k, ops |-> d] \in Collab!Msg
BY DEF Collab!Msg

-----------------------------------------------------------------------------
(* The documents.                                                          *)

LEMMA SeedersOf ==
  /\ Collab!Seeders({}) = {}
  /\ \A d, e : Collab!Seeders(d \cup e) = Collab!Seeders(d) \cup Collab!Seeders(e)
  /\ \A d, e : d \subseteq e => Collab!Seeders(d) \subseteq Collab!Seeders(e)
BY DEF Collab!Seeders

\* A document keeps its type, whatever is written, and only seeding it makes a seeder.
LEMMA MadeOps ==
  ASSUME CollabSetting, NEW c \in Clients
  PROVE  /\ Collab!Draft \in Collab!Piece
         /\ \A p \in Collab!Piece, how \in {"seed", "replace", "type", "user"} :
              Collab!Made(c, p, how) \in Collab!Op /\ Collab!Made(c, p, how).how = how /\ Collab!Made(c, p, how).by = c
         /\ \A op \in Collab!Op : Collab!Dead(op) \in Collab!Op /\ Collab!Dead(op).how = op.how /\ Collab!Dead(op).by = op.by
<1>1. Collab!Draft \in Collab!Piece BY DEF Collab!Draft, Collab!Piece, CollabSetting
<1>2. ASSUME NEW p \in Collab!Piece, NEW how \in {"seed", "replace", "type", "user"}
      PROVE  Collab!Made(c, p, how) \in Collab!Op /\ Collab!Made(c, p, how).how = how /\ Collab!Made(c, p, how).by = c
  BY DEF Collab!Made, Collab!Op
<1>3. ASSUME NEW op \in Collab!Op
      PROVE  Collab!Dead(op) \in Collab!Op /\ Collab!Dead(op).how = op.how /\ Collab!Dead(op).by = op.by
  BY DEF Collab!Dead, Collab!Op
<1> QED BY <1>1, <1>2, <1>3

LEMMA Replacing ==
  ASSUME CollabSetting, NEW c \in Clients, NEW doc \in Collab!Doc, NEW text \in SUBSET Collab!Piece
  PROVE  /\ Collab!Replaced(c, doc, text) \in Collab!Doc /\ doc \subseteq Collab!Replaced(c, doc, text)
         /\ Collab!Seeders(Collab!Replaced(c, doc, text)) = Collab!Seeders(doc)
<1> DEFINE gone == {Collab!Dead(op) : op \in {o \in Collab!Visible(doc) : o.piece \notin text}}
           new == {Collab!Made(c, p, "replace") : p \in text \ Collab!Pieces(doc)}
<1>1. Collab!Visible(doc) \subseteq doc /\ doc \subseteq Collab!Op BY DEF Collab!Visible, Collab!Doc
<1>2. gone \in Collab!Doc /\ Collab!Seeders(gone) \subseteq Collab!Seeders(doc)
  <2>1. ASSUME NEW x \in gone PROVE x \in Collab!Op /\ \E o \in doc : x.how = o.how /\ x.by = o.by
    <3>1. PICK o \in Collab!Visible(doc) : x = Collab!Dead(o) OBVIOUS
    <3> QED BY <3>1, <1>1, MadeOps
  <2> HIDE DEF gone
  <2> QED BY <2>1 DEF Collab!Doc, Collab!Seeders
<1>3. new \in Collab!Doc /\ Collab!Seeders(new) = {}
  <2>1. ASSUME NEW x \in new PROVE x \in Collab!Op /\ x.how = "replace"
    <3>1. PICK p \in text : x = Collab!Made(c, p, "replace") OBVIOUS
    <3> QED BY <3>1, MadeOps
  <2> HIDE DEF new
  <2> QED BY <2>1 DEF Collab!Doc, Collab!Seeders
<1>4. Collab!Replaced(c, doc, text) = doc \cup gone \cup new BY DEF Collab!Replaced
<1> HIDE DEF gone, new
<1>5. Collab!Seeders(doc \cup gone \cup new) = Collab!Seeders(doc)
  <2>1. Collab!Seeders((doc \cup gone) \cup new) = Collab!Seeders(doc \cup gone) \cup Collab!Seeders(new)
    BY SeedersOf
  <2>2. Collab!Seeders(doc \cup gone) = Collab!Seeders(doc) \cup Collab!Seeders(gone) BY SeedersOf
  <2> QED BY <1>2, <1>3, <2>1, <2>2
<1> QED BY <1>2, <1>3, <1>4, <1>5 DEF Collab!Doc

LEMMA SeedsAreOne ==
  ASSUME CollabSetting, NEW c \in Clients, NEW doc \in Collab!Doc
  PROVE  /\ Collab!Seeded(c, doc) \in Collab!Doc /\ doc \subseteq Collab!Seeded(c, doc)
         /\ Collab!Seeders(Collab!Seeded(c, doc)) \subseteq Collab!Seeders(doc) \cup {c}
<1> DEFINE op == Collab!Made(c, Collab!Draft, "seed")
<1>1. op \in Collab!Op /\ op.by = c BY MadeOps
<1> HIDE DEF op
<1>2. Collab!Seeders({op}) \subseteq {c} BY <1>1 DEF Collab!Seeders
<1>3. Collab!Seeders(doc \cup {op}) \subseteq Collab!Seeders(doc) \cup {c} BY <1>2, SeedersOf
<1> QED BY <1>1, <1>3 DEF Collab!Seeded, Collab!Doc, op

-----------------------------------------------------------------------------
(* What the page does by itself: it takes a frame or none, and writes.     *)

\* pg is the page afterwards, got what the frame brought and made what was written.
Local(c, pg, got, made) ==
  /\ page[c].pc # "gone"
  /\ UNCHANGED <<hub, flights, stored, backup, overlapped, faults, crashes>>
  /\ pg \in Collab!PageState /\ got \in Collab!Doc /\ made \in Collab!Doc
  /\ page' = [page EXCEPT ![c] = pg]
  /\ pg.doc = page[c].doc \cup got \cup made /\ pg.primary = page[c].primary
  /\ Collab!Seeders(made) \subseteq Collab!Seeders(page[c].doc \cup got)
                          \cup (IF page[c].primary /\ pg.pc = "connected" THEN {c} ELSE {})
  /\ \/ got = {} /\ down' = down /\ pg.pc = page[c].pc
     \/ /\ down[c] # <<>> /\ down' = [down EXCEPT ![c] = Tail(@)] /\ got = Carry(Head(down[c]))
        /\ pg.pc = IF Head(down[c]).kind = "step2" THEN "connected" ELSE page[c].pc
  /\ \/ up' = up /\ (pg.pc \in {"open", "connected"} => made \subseteq page[c].doc \cup got)
     \/ /\ pg.pc \in {"open", "connected"}
        /\ \E sent \in Collab!Doc : /\ up' = [up EXCEPT ![c] = Append(@, [kind |-> "update", ops |-> sent])]
                             /\ sent \subseteq made /\ made \subseteq sent \cup page[c].doc \cup got

LEMMA TypeOKPage ==
  ASSUME Collab!TypeOK, NEW c \in Clients
  PROVE  /\ page[c] \in Collab!PageState /\ page[c].doc \in Collab!Doc
         /\ down[c] \in Seq(Collab!Msg) /\ up[c] \in Seq(Collab!Msg)
         /\ page[c].pending \in (SUBSET Collab!Piece) \cup {NoText}
BY DEF Collab!TypeOK, Collab!PageState

\* The page of a tab with some fields changed is a page.
LEMMA PageWith ==
  ASSUME Collab!TypeOK, NEW c \in Clients, NEW pc \in {"connecting", "open", "connected", "gone"},
         NEW doc \in Collab!Doc, NEW pending \in (SUBSET Collab!Piece) \cup {NoText}, NEW h \in BOOLEAN
  PROVE  LET pg == [page[c] EXCEPT !.pc = pc, !.doc = doc, !.pending = pending, !.hydrated = h]
         IN  /\ pg \in Collab!PageState /\ pg.pc = pc /\ pg.doc = doc /\ pg.primary = page[c].primary
BY TypeOKPage DEF Collab!PageState

LEMMA UpdatedIsLocal ==
  ASSUME CollabSetting, Collab!TypeOK, Wired, NEW c \in Clients, Collab!Updated(c)
  PROVE  \E pg, got, made : Local(c, pg, got, made)
<1> DEFINE h == Head(down[c])
           pg == [page[c] EXCEPT !.doc = page[c].doc \cup h.ops]
<1>1. h \in Collab!Msg BY TypeOKPage, TakeFrame DEF Collab!Updated
<1>2. h.kind = "update" /\ h.ops \in Collab!Doc /\ Carry(h) = h.ops BY <1>1, FrameKinds DEF Collab!Updated
<1>3. page[c].pc # "gone" BY DEF Collab!Updated, Wired, Alive
<1>4. pg \in Collab!PageState /\ pg.pc = page[c].pc /\ pg.primary = page[c].primary /\ pg.doc = page[c].doc \cup h.ops
  BY <1>2, TypeOKPage DEF Collab!PageState, Collab!Doc
<1>5. page' = [page EXCEPT ![c] = pg] BY DEF Collab!Updated, Collab!TypeOK
<1>6. {} \in Collab!Doc /\ Collab!Seeders({}) = {} BY SeedersOf DEF Collab!Doc
<1>7. /\ UNCHANGED <<hub, flights, stored, backup, overlapped, faults, crashes>> /\ up' = up
      /\ down' = [down EXCEPT ![c] = Tail(@)] /\ down[c] # <<>>
  BY DEF Collab!Updated, Collab!disk, Collab!counters
<1> HIDE DEF pg, h
<1>8. Local(c, pg, h.ops, {}) BY <1>2, <1>3, <1>4, <1>5, <1>6, <1>7 DEF h, Local
<1> QED BY <1>8

\* What an edit by hand or by a text of the history makes of the page.
LEMMA EditedIsLocal ==
  ASSUME CollabSetting, Collab!TypeOK, NEW c \in Clients, page[c].pc # "gone", NEW pg \in Collab!PageState, NEW doc \in Collab!Doc,
         UNCHANGED <<hub, down, Collab!disk, faults, crashes>>, Collab!Edited(c, pg, doc),
         page[c].doc \subseteq doc, Collab!Seeders(doc) = Collab!Seeders(page[c].doc),
         pg.pc = page[c].pc, pg.primary = page[c].primary
  PROVE  \E q, got, made : Local(c, q, got, made)
<1> DEFINE q == [pg EXCEPT !.doc = doc]
           old == page[c].doc
           made == doc \ old
<1>1. q \in Collab!PageState /\ q.pc = page[c].pc /\ q.primary = page[c].primary /\ q.doc = doc
  BY DEF Collab!PageState
<1>2. old \in Collab!Doc /\ made \in Collab!Doc /\ {} \in Collab!Doc BY TypeOKPage DEF Collab!Doc
<1>3. q.doc = old \cup {} \cup made BY <1>1
<1>4. Collab!Seeders(made) \subseteq Collab!Seeders(old \cup {}) BY SeedersOf
<1>5. page' = [page EXCEPT ![c] = q] BY DEF Collab!Edited
<1>6. \/ up' = up /\ (q.pc \in {"open", "connected"} => made = {})
      \/ q.pc \in {"open", "connected"} /\ up' = [up EXCEPT ![c] = Append(@, [kind |-> "update", ops |-> made])]
  BY <1>1 DEF Collab!Edited
<1>7. UNCHANGED <<hub, flights, stored, backup, overlapped, faults, crashes>> /\ down' = down
  BY DEF Collab!disk
<1> HIDE DEF q, made, old
<1>8. Local(c, q, {}, made) BY <1>1, <1>2, <1>3, <1>4, <1>5, <1>6, <1>7 DEF Local, old
<1> QED BY <1>8

LEMMA TypeIsLocal ==
  ASSUME CollabSetting, Collab!TypeOK, NEW c \in Clients, Collab!Type(c)
  PROVE  \E pg, got, made : Local(c, pg, got, made)
<1> DEFINE op == Collab!Made(c, edits + 1, "type")
           doc == page[c].doc \cup {op}
<1>1. edits + 1 \in Collab!Piece BY DEF Collab!Type, Collab!TypeOK, Collab!Piece, CollabSetting
<1>2. op \in Collab!Op /\ op.how = "type" BY <1>1, MadeOps
<1> HIDE DEF op
<1>3. Collab!Seeders({op}) = {} BY <1>2 DEF Collab!Seeders
<1>4. doc \in Collab!Doc BY <1>2, TypeOKPage DEF Collab!Doc
<1>7. Collab!Seeders(doc) = Collab!Seeders(page[c].doc) BY <1>3, SeedersOf
<1>5. Collab!Edited(c, page[c], doc) /\ UNCHANGED <<hub, down, Collab!disk, faults, crashes>> /\ page[c].pc # "gone"
  BY DEF Collab!Type, op
<1> HIDE DEF doc
<1>6. page[c].doc \subseteq doc BY DEF doc
<1> QED BY <1>4, <1>5, <1>6, <1>7, TypeOKPage, EditedIsLocal

LEMMA HydrateIsLocal ==
  ASSUME CollabSetting, Collab!TypeOK, NEW c \in Clients, Collab!Hydrate(c)
  PROVE  \E pg, got, made : Local(c, pg, got, made)
<1>0. {Collab!Draft} \in SUBSET Collab!Piece /\ page[c].pc # "gone" /\ UNCHANGED <<hub, down, Collab!disk, Collab!counters>>
  BY MadeOps DEF Collab!Hydrate
<1>1. CASE page[c].pc = "connected"
  <2> DEFINE pg == [page[c] EXCEPT !.hydrated = TRUE]
             doc == Collab!Replaced(c, page[c].doc, {Collab!Draft})
  <2>1. pg \in Collab!PageState /\ pg.pc = page[c].pc /\ pg.primary = page[c].primary
    BY TypeOKPage DEF Collab!PageState
  <2>2. doc \in Collab!Doc /\ page[c].doc \subseteq doc /\ Collab!Seeders(doc) = Collab!Seeders(page[c].doc)
    BY <1>0, TypeOKPage, Replacing
  <2>3. Collab!Edited(c, pg, doc) BY <1>1 DEF Collab!Hydrate
  <2> HIDE DEF pg, doc
  <2> QED BY <1>0, <2>1, <2>2, <2>3, EditedIsLocal DEF Collab!counters
<1>2. CASE page[c].pc # "connected"
  <2> DEFINE pg == [page[c] EXCEPT !.hydrated = TRUE, !.pending = {Collab!Draft}]
  <2>1. pg \in Collab!PageState /\ pg.pc = page[c].pc /\ pg.primary = page[c].primary /\ pg.doc = page[c].doc
    BY <1>0, TypeOKPage DEF Collab!PageState
  <2>2. page' = [page EXCEPT ![c] = pg] BY <1>2 DEF Collab!Hydrate, Collab!TypeOK
  <2>3. up' = up BY <1>2 DEF Collab!Hydrate
  <2>4. {} \in Collab!Doc /\ Collab!Seeders({}) = {} BY SeedersOf DEF Collab!Doc
  <2>5. UNCHANGED <<flights, stored, backup, overlapped, faults, crashes>>
    BY <1>0 DEF Collab!disk, Collab!counters
  <2> HIDE DEF pg
  <2>6. Local(c, pg, {}, {}) BY <1>0, <2>1, <2>2, <2>3, <2>4, <2>5 DEF Local
  <2> QED BY <2>6
<1> QED BY <1>1, <1>2

\* The sync: what the seeder sows and what the pending text replaces is sent.
LEMMA SyncedIsLocal ==
  ASSUME CollabSetting, Collab!TypeOK, Wired, NEW c \in Clients, Collab!Synced(c)
  PROVE  \E pg, got, made : Local(c, pg, got, made)
<1> DEFINE h == Head(down[c])
           met == page[c].doc \cup h.ops
           sown == IF page[c].primary THEN Collab!Seeded(c, met) ELSE met
           doc == IF page[c].pending = NoText THEN sown ELSE Collab!Replaced(c, sown, page[c].pending)
           made == doc \ met
           pg == [page[c] EXCEPT !.pc = "connected", !.doc = doc, !.pending = NoText]
<1>1. h \in Collab!Msg BY TypeOKPage, TakeFrame DEF Collab!Synced
<1>2. h.kind = "step2" /\ h.ops \in Collab!Doc /\ Carry(h) = h.ops BY <1>1, FrameKinds DEF Collab!Synced
<1>3. page[c].pc # "gone" BY DEF Collab!Synced, Wired, Alive
<1> HIDE DEF h
<1>4. met \in Collab!Doc BY <1>2, TypeOKPage DEF Collab!Doc
<1> HIDE DEF met
<1>5. /\ sown \in Collab!Doc /\ met \subseteq sown
      /\ Collab!Seeders(sown) \subseteq Collab!Seeders(met) \cup (IF page[c].primary THEN {c} ELSE {})
  BY <1>4, SeedsAreOne
<1> HIDE DEF sown
<1>6. doc \in Collab!Doc /\ sown \subseteq doc /\ Collab!Seeders(doc) = Collab!Seeders(sown)
  <2>1. CASE page[c].pending = NoText BY <2>1, <1>5
  <2>2. CASE page[c].pending # NoText
    <3>1. page[c].pending \in SUBSET Collab!Piece BY <2>2, TypeOKPage
    <3>2. doc = Collab!Replaced(c, sown, page[c].pending) BY <2>2
    <3> QED BY <3>1, <3>2, <1>5, Replacing
  <2> QED BY <2>1, <2>2
<1>7. /\ page' = [page EXCEPT ![c] = pg]
      /\ up' = IF doc = met THEN up ELSE [up EXCEPT ![c] = Append(@, [kind |-> "update", ops |-> made])]
  BY DEF Collab!Synced, h, met, sown, Collab!TypeOK
<1> HIDE DEF doc
<1>8. pg \in Collab!PageState /\ pg.pc = "connected" /\ pg.doc = doc /\ pg.primary = page[c].primary
  <2>1. NoText \in (SUBSET Collab!Piece) \cup {NoText} OBVIOUS
  <2> QED BY <1>6, <2>1, TypeOKPage DEF Collab!PageState
<1>9. doc = page[c].doc \cup h.ops \cup made /\ made \in Collab!Doc
  BY <1>5, <1>6 DEF met, Collab!Doc
<1>10. Collab!Seeders(made) \subseteq Collab!Seeders(page[c].doc \cup h.ops) \cup (IF page[c].primary THEN {c} ELSE {})
  <2>1. Collab!Seeders(made) \subseteq Collab!Seeders(doc) BY SeedersOf
  <2> QED BY <2>1, <1>5, <1>6 DEF met
<1>11. /\ UNCHANGED <<hub, flights, stored, backup, overlapped, faults, crashes>>
       /\ down' = [down EXCEPT ![c] = Tail(@)] /\ down[c] # <<>>
  BY DEF Collab!Synced, Collab!disk, Collab!counters
<1>12. doc = met => made = {} OBVIOUS
<1> HIDE DEF pg, made
<1>13. Local(c, pg, h.ops, made)
  BY <1>2, <1>3, <1>7, <1>8, <1>9, <1>10, <1>11, <1>12 DEF h, Local
<1> QED BY <1>13

LEMMA LocalSteps ==
  ASSUME CollabSetting, Collab!TypeOK, Wired, NEW c \in Clients,
         Collab!Synced(c) \/ Collab!Updated(c) \/ Collab!Hydrate(c) \/ Collab!Type(c)
  PROVE  \E pg, got, made : Local(c, pg, got, made)
BY SyncedIsLocal, UpdatedIsLocal, HydrateIsLocal, TypeIsLocal

\* What such a step does to the two directions of the page's socket.
LEMMA LocalSockets ==
  ASSUME CollabSetting, Collab!TypeOK, Wired, NEW c \in Clients, NEW pg, NEW got, NEW made, Local(c, pg, got, made)
  PROVE  /\ page' \in [Clients -> Collab!PageState] /\ page'[c] = pg
         /\ down' \in [Clients -> Seq(Collab!Msg)] /\ up' \in [Clients -> Seq(Collab!Msg)]
         /\ \A d \in Clients : d # c => page'[d] = page[d] /\ down'[d] = down[d] /\ up'[d] = up[d]
         /\ Carries(down[c]) = got \cup Carries(down'[c])
         /\ pg.pc = "connected" \/ HasStep2(down'[c]) <=> page[c].pc = "connected" \/ HasStep2(down[c])
         /\ Carries(up[c]) \subseteq Carries(up'[c]) /\ Carries(up'[c]) \subseteq Carries(up[c]) \cup made
         /\ Alive(c)' => made \subseteq page[c].doc \cup got \cup Carries(up'[c])
         /\ Alive(c)' <=> Alive(c)
         /\ pg.pc = "connecting" <=> page[c].pc = "connecting"
         /\ down[c] = <<>> => down'[c] = <<>>
<1>1. page' \in [Clients -> Collab!PageState] /\ page'[c] = pg /\ \A d \in Clients : d # c => page'[d] = page[d]
  BY DEF Local, Collab!TypeOK
<1>2. /\ down' \in [Clients -> Seq(Collab!Msg)] /\ \A d \in Clients : d # c => down'[d] = down[d]
      /\ Carries(down[c]) = got \cup Carries(down'[c])
      /\ pg.pc = "connected" \/ HasStep2(down'[c]) <=> page[c].pc = "connected" \/ HasStep2(down[c])
      /\ pg.pc # page[c].pc => pg.pc = "connected" /\ Alive(c)
      /\ down[c] = <<>> => down'[c] = <<>>
  <2>1. CASE got = {} /\ down' = down /\ pg.pc = page[c].pc BY <2>1 DEF Collab!TypeOK
  <2>2. CASE /\ down[c] # <<>> /\ down' = [down EXCEPT ![c] = Tail(@)] /\ got = Carry(Head(down[c]))
             /\ pg.pc = IF Head(down[c]).kind = "step2" THEN "connected" ELSE page[c].pc
    <3>1. Alive(c) BY <2>2 DEF Wired
    <3>2. down'[c] = Tail(down[c]) /\ \A d \in Clients : d # c => down'[d] = down[d] BY <2>2 DEF Collab!TypeOK
    <3>3. /\ Tail(down[c]) \in Seq(Collab!Msg)
          /\ Carries(down[c]) = Carry(Head(down[c])) \cup Carries(Tail(down[c]))
          /\ HasStep2(down[c]) <=> Head(down[c]).kind = "step2" \/ HasStep2(Tail(down[c]))
      BY <2>2, TypeOKPage, TakeFrame
    <3>4. down' \in [Clients -> Seq(Collab!Msg)] BY <2>2, <3>3 DEF Collab!TypeOK
    <3> QED BY <2>2, <3>1, <3>2, <3>3, <3>4
  <2> QED BY <2>1, <2>2 DEF Local
<1>3. /\ up' \in [Clients -> Seq(Collab!Msg)] /\ \A d \in Clients : d # c => up'[d] = up[d]
      /\ Carries(up[c]) \subseteq Carries(up'[c]) /\ Carries(up'[c]) \subseteq Carries(up[c]) \cup made
      /\ pg.pc \in {"open", "connected"} => made \subseteq page[c].doc \cup got \cup Carries(up'[c])
  <2>1. CASE up' = up /\ (pg.pc \in {"open", "connected"} => made \subseteq page[c].doc \cup got)
    BY <2>1 DEF Collab!TypeOK
  <2>2. ASSUME NEW sent \in Collab!Doc, up' = [up EXCEPT ![c] = Append(@, [kind |-> "update", ops |-> sent])],
               sent \subseteq made, made \subseteq sent \cup page[c].doc \cup got
        PROVE  /\ up' \in [Clients -> Seq(Collab!Msg)] /\ \A d \in Clients : d # c => up'[d] = up[d]
               /\ Carries(up[c]) \subseteq Carries(up'[c]) /\ Carries(up'[c]) \subseteq Carries(up[c]) \cup made
               /\ pg.pc \in {"open", "connected"} => made \subseteq page[c].doc \cup got \cup Carries(up'[c])
    <3> DEFINE m == [kind |-> "update", ops |-> sent]
    <3>1. m \in Collab!Msg /\ Carry(m) = sent BY MadeFrames DEF Carry
    <3> HIDE DEF m
    <3>2. Append(up[c], m) \in Seq(Collab!Msg) /\ Carries(Append(up[c], m)) = Carries(up[c]) \cup sent
      BY <3>1, TypeOKPage, AppendFrame
    <3>3. up'[c] = Append(up[c], m) /\ \A d \in Clients : d # c => up'[d] = up[d] BY <2>2 DEF Collab!TypeOK, m
    <3>4. up' \in [Clients -> Seq(Collab!Msg)] BY <2>2, <3>2 DEF Collab!TypeOK, m
    <3> QED BY <2>2, <3>2, <3>3, <3>4
  <2> QED BY <2>1, <2>2 DEF Local
<1>4. Alive(c)' <=> pg.pc \in {"open", "connected"} BY <1>1 DEF Alive
<1> QED BY <1>1, <1>2, <1>3, <1>4 DEF Alive

-----------------------------------------------------------------------------
(* Types.                                                                  *)

LEMMA InitTypes == CollabSetting => (Collab!Init => Collab!TypeOK)
<1> SUFFICES ASSUME CollabSetting, Collab!Init PROVE Collab!TypeOK OBVIOUS
<1>1. {} \in Collab!Doc /\ Collab!Empty = {} /\ 0 \in 0..MaxEdits /\ 0 \in 0..MaxFaults /\ 0 \in 0..MaxCrashes
  BY DEF CollabSetting, Collab!Doc, Collab!Empty
<1>2. \A c \in Clients : Collab!Opened(c) \in Collab!PageState
  <2> TAKE c \in Clients
  <2>1. Collab!User(c) \in Collab!Op BY MadeOps DEF Collab!User
  <2> QED BY <2>1 DEF Collab!Opened, Collab!PageState, Collab!Doc
<1>3. hub \in [loaded : BOOLEAN, doc : Collab!Doc, conns : SUBSET Clients, seeder : Clients \cup {NoOne}, timer : BOOLEAN]
  BY <1>1 DEF Collab!Init, Collab!Asleep
<1>4. page \in [Clients -> Collab!PageState] BY <1>2 DEF Collab!Init
<1>5. <<>> \in Seq(Collab!Doc) /\ <<>> \in Seq(Collab!Msg) OBVIOUS
<1>6. down \in [Clients -> Seq(Collab!Msg)] /\ up \in [Clients -> Seq(Collab!Msg)] BY <1>5 DEF Collab!Init
<1> QED BY <1>1, <1>3, <1>4, <1>5, <1>6 DEF Collab!Init, Collab!TypeOK

\* The object after a step that changes some of its fields.
HubState == [loaded : BOOLEAN, doc : Collab!Doc, conns : SUBSET Clients, seeder : Clients \cup {NoOne}, timer : BOOLEAN]

\* What Connect leaves behind: doc is the document that the object loaded or had.
Joined(c, doc, primary, failed) ==
  /\ page[c].pc = "connecting" /\ Collab!Loads(doc, failed) /\ doc \in Collab!Doc
  /\ primary <=> hub.seeder = NoOne /\ doc = Collab!Empty
  /\ primary \in BOOLEAN /\ failed \in BOOLEAN
  /\ hub' \in HubState
  /\ hub'.loaded /\ hub'.doc = doc /\ hub'.conns = hub.conns \cup {c}
  /\ hub'.timer = (hub.timer \/ doc # hub.doc)
  /\ hub'.seeder = IF primary THEN c ELSE hub.seeder
  /\ page' \in [Clients -> Collab!PageState] /\ up' \in [Clients -> Seq(Collab!Msg)]
  /\ page'[c].pc = "open" /\ page'[c].primary = primary /\ page'[c].doc = page[c].doc
  /\ Carries(up'[c]) = page[c].doc /\ \A i \in DOMAIN up'[c] : up'[c][i].kind # "close"
  /\ \A d \in Clients : d # c => page'[d] = page[d] /\ up'[d] = up[d]
  /\ faults' \in 0..MaxFaults /\ (faults' = 0 => faults = 0 /\ ~failed)
  /\ UNCHANGED <<down, flights, stored, backup, overlapped, edits, crashes>>

LEMMA ConnectJoins ==
  ASSUME CollabSetting, Collab!TypeOK, NEW c \in Clients, Collab!Connect(c)
  PROVE  \E doc, primary, failed : Joined(c, doc, primary, failed)
<1>1. PICK doc \in {hub.doc, stored, backup, Collab!Empty}, failed \in BOOLEAN :
        /\ Collab!Loads(doc, failed)
        /\ LET primary == hub.seeder = NoOne /\ doc = Collab!Empty
           IN  /\ hub' = [hub EXCEPT !.loaded = TRUE, !.doc = doc, !.conns = @ \cup {c},
                                     !.timer = @ \/ doc # hub.doc, !.seeder = IF primary THEN c ELSE @]
               /\ page' = [page EXCEPT ![c].pc = "open", ![c].primary = primary]
        /\ faults' = faults + (IF failed THEN 1 ELSE 0)
  BY DEF Collab!Connect
<1> DEFINE primary == hub.seeder = NoOne /\ doc = Collab!Empty
           h == [hub EXCEPT !.loaded = TRUE, !.doc = doc, !.conns = hub.conns \cup {c},
                            !.timer = hub.timer \/ doc # hub.doc, !.seeder = IF primary THEN c ELSE hub.seeder]
           pg == [page[c] EXCEPT !.pc = "open", !.primary = primary]
           s1 == [kind |-> "step1"]
           s2 == [kind |-> "step2", ops |-> page[c].doc]
<1>2. hub' = h /\ page' = [page EXCEPT ![c] = pg] BY <1>1 DEF Collab!TypeOK
<1>3. hub \in HubState BY DEF Collab!TypeOK, HubState
<1>4. doc \in Collab!Doc BY <1>1, <1>3 DEF Collab!TypeOK, HubState, Collab!Doc, Collab!Empty
<1>5. primary \in BOOLEAN OBVIOUS
<1> HIDE DEF primary
<1>6. /\ h \in HubState /\ h.loaded /\ h.doc = doc /\ h.conns = hub.conns \cup {c}
      /\ h.timer = (hub.timer \/ doc # hub.doc) /\ h.seeder = IF primary THEN c ELSE hub.seeder
  BY <1>3, <1>4, <1>5 DEF HubState
<1>7. pg \in Collab!PageState /\ pg.pc = "open" /\ pg.primary = primary /\ pg.doc = page[c].doc
  BY <1>5, TypeOKPage DEF Collab!PageState
<1>8. /\ s1 \in Collab!Msg /\ s2 \in Collab!Msg /\ Carry(s1) = {} /\ Carry(s2) = page[c].doc
      /\ s1.kind # "close" /\ s2.kind # "close"
  BY MadeFrames, TypeOKPage DEF Carry
<1>9. up' = [up EXCEPT ![c] = <<s1, s2>>] BY DEF Collab!Connect
<1> HIDE DEF h, pg, s1, s2
<1>10. <<s1, s2>> \in Seq(Collab!Msg) /\ Carries(<<s1, s2>>) = page[c].doc /\ \A i \in DOMAIN <<s1, s2>> : <<s1, s2>>[i].kind # "close"
  <2>1. ToSet(<<s1, s2>>) = {s1, s2} BY DEF ToSet
  <2> QED BY <1>8, <2>1 DEF Carries
<1>11. /\ up' \in [Clients -> Seq(Collab!Msg)] /\ up'[c] = <<s1, s2>>
       /\ \A d \in Clients : d # c => up'[d] = up[d]
  BY <1>9, <1>10 DEF Collab!TypeOK
<1>12. /\ page' \in [Clients -> Collab!PageState] /\ page'[c] = pg
       /\ \A d \in Clients : d # c => page'[d] = page[d]
  BY <1>2, <1>7 DEF Collab!TypeOK
<1>13. faults' \in 0..MaxFaults /\ (faults' = 0 => faults = 0 /\ ~failed)
  BY <1>1 DEF Collab!Loads, Collab!TypeOK, CollabSetting
<1>14. Collab!Loads(doc, failed) /\ page[c].pc = "connecting" /\ UNCHANGED <<down, flights, stored, backup, overlapped, edits, crashes>>
  BY <1>1 DEF Collab!Connect, Collab!disk
<1>15. primary <=> hub.seeder = NoOne /\ doc = Collab!Empty BY DEF primary
<1>16. Joined(c, doc, primary, failed)
  BY <1>2, <1>4, <1>5, <1>6, <1>7, <1>10, <1>11, <1>12, <1>13, <1>14, <1>15, ZenonT(40) DEF Joined
<1> QED BY <1>16

\* The object takes the first frame of a socket.
Taken(c) ==
  /\ up[c] # <<>>
  /\ up' \in [Clients -> Seq(Collab!Msg)] /\ \A d \in Clients : d # c => up'[d] = up[d]
  /\ Carries(up[c]) = Carry(Head(up[c])) \cup Carries(up'[c])
  /\ \A i \in DOMAIN up'[c] : up'[c][i].kind = "close" => i = Len(up'[c]) /\ page[c].pc = "gone"
  /\ Head(up[c]) \in Collab!Msg
  /\ Head(up[c]).kind = "close" => up'[c] = <<>> /\ page[c].pc = "gone"

\* A sequence of no frames is the empty one.
LEMMA NoFrames == ASSUME NEW S, NEW t \in Seq(S), Len(t) = 0 PROVE t = <<>>
BY EmptySeq

LEMMA Taking ==
  ASSUME Collab!TypeOK, Wired, NEW c \in Clients, up[c] # <<>>, up' = [up EXCEPT ![c] = Tail(@)]
  PROVE  Taken(c)
<1> DEFINE s == up[c]
           t == Tail(s)
<1>1. s \in Seq(Collab!Msg) BY TypeOKPage
<1>2. t \in Seq(Collab!Msg) /\ Head(s) \in Collab!Msg /\ Carries(s) = Carry(Head(s)) \cup Carries(t)
  BY <1>1, TakeFrame
<1>3. up'[c] = t /\ up' \in [Clients -> Seq(Collab!Msg)] /\ \A d \in Clients : d # c => up'[d] = up[d]
  BY <1>2 DEF Collab!TypeOK
<1>4. /\ Len(s) \in Nat \ {0} /\ DOMAIN s = 1 .. Len(s) /\ Len(t) = Len(s) - 1 /\ DOMAIN t = 1 .. Len(s) - 1
      /\ \A i \in 1 .. Len(s) - 1 : t[i] = s[i + 1]
      /\ Head(s) = s[1]
  BY <1>1
<1>5. \A i \in DOMAIN s : s[i].kind = "close" => i = Len(s) /\ page[c].pc = "gone" BY DEF Wired
<1>6. \A i \in DOMAIN t : t[i].kind = "close" => i = Len(t) /\ page[c].pc = "gone"
  <2> TAKE i \in DOMAIN t
  <2>1. i + 1 \in DOMAIN s /\ t[i] = s[i + 1] BY <1>4
  <2>2. t[i].kind = "close" => i + 1 = Len(s) /\ page[c].pc = "gone" BY <1>5, <2>1
  <2> QED BY <1>4, <2>1, <2>2
<1>7. Head(s).kind = "close" => t = <<>> /\ page[c].pc = "gone"
  <2>3. 1 \in DOMAIN s /\ s[1] = Head(s) BY <1>4
  <2>1. Head(s).kind = "close" => 1 = Len(s) /\ page[c].pc = "gone" BY <2>3, <1>5
  <2>2. Len(t) = 0 => t = <<>> BY <1>2, NoFrames
  <2> QED BY <1>4, <2>1, <2>2
<1> HIDE DEF t
<1> QED BY <1>2, <1>3, <1>6, <1>7 DEF Taken

\* What Answer leaves behind.
Answered(c) ==
  /\ Taken(c) /\ Carry(Head(up[c])) = {} /\ Head(up[c]).kind # "close"
  /\ down' \in [Clients -> Seq(Collab!Msg)] /\ \A d \in Clients : d # c => down'[d] = down[d]
  /\ Alive(c) => Carries(down'[c]) = Carries(down[c]) \cup hub.doc
  /\ ~Alive(c) => down'[c] = down[c]
  /\ UNCHANGED <<hub, page, flights, stored, backup, overlapped, edits, faults, crashes>>

LEMMA AnswerAnswers ==
  ASSUME CollabSetting, Collab!TypeOK, Wired, NEW c \in Clients, Collab!Answer(c)
  PROVE  Answered(c)
<1> DEFINE m == [kind |-> "step2", ops |-> hub.doc]
<1>1. m \in Collab!Msg /\ Carry(m) = hub.doc BY MadeFrames DEF Carry, Collab!TypeOK
<1>2. Taken(c) BY Taking DEF Collab!Answer
<1>3. Head(up[c]).kind = "step1" /\ Carry(Head(up[c])) = {} BY DEF Collab!Answer, Carry
<1>4. /\ down' = [down EXCEPT ![c] = Collab!Send(c, m)]
      /\ UNCHANGED <<hub, page, flights, stored, backup, overlapped, edits, faults, crashes>>
  BY DEF Collab!Answer, Collab!disk, Collab!counters
<1> HIDE DEF m
<1>5. /\ Append(down[c], m) \in Seq(Collab!Msg) /\ Carries(Append(down[c], m)) = Carries(down[c]) \cup hub.doc
  BY <1>1, TypeOKPage, AppendFrame
<1>6. Collab!Send(c, m) = IF Alive(c) THEN Append(down[c], m) ELSE down[c] BY DEF Collab!Send, Alive
<1>7. down'[c] = Collab!Send(c, m) /\ \A d \in Clients : d # c => down'[d] = down[d] BY <1>4 DEF Collab!TypeOK
<1>8. down' \in [Clients -> Seq(Collab!Msg)] BY <1>4, <1>5, <1>6 DEF Collab!TypeOK
<1> QED BY <1>2, <1>3, <1>4, <1>5, <1>6, <1>7, <1>8 DEF Answered

\* What Relay leaves behind: new is what the object did not have.
Relayed(c, new) ==
  /\ Taken(c) /\ Head(up[c]).kind # "close"
  /\ new = Carry(Head(up[c])) \ hub.doc
  /\ hub' \in HubState /\ hub'.doc = hub.doc \cup new /\ hub'.timer = (hub.timer \/ new # {})
  /\ hub'.loaded = hub.loaded /\ hub'.conns = hub.conns /\ hub'.seeder = hub.seeder
  /\ down' \in [Clients -> Seq(Collab!Msg)]
  /\ \A d \in Clients :
       /\ Carries(down'[d]) \subseteq Carries(down[d]) \cup new
       /\ Carries(down[d]) \subseteq Carries(down'[d])
       /\ Alive(d) /\ d # c => new \subseteq Carries(down'[d])
       /\ HasStep2(down'[d]) <=> HasStep2(down[d])
       /\ ~Alive(d) => down'[d] = down[d]
  /\ UNCHANGED <<page, flights, stored, backup, overlapped, edits, faults, crashes>>

LEMMA RelayRelays ==
  ASSUME CollabSetting, Collab!TypeOK, Wired, NEW c \in Clients, Collab!Relay(c)
  PROVE  \E new : Relayed(c, new)
<1> DEFINE ops == Head(up[c]).ops
           new == ops \ hub.doc
           m == [kind |-> "update", ops |-> new]
<1>1. Taken(c) /\ Head(up[c]).kind # "close" BY Taking DEF Collab!Relay
<1>2. ops \in Collab!Doc /\ Carry(Head(up[c])) = ops BY <1>1, FrameKinds DEF Collab!Relay, Taken
<1> HIDE DEF ops
<1>3. new \in Collab!Doc BY <1>2 DEF Collab!Doc
<1>4. hub \in HubState /\ hub.doc \in Collab!Doc BY DEF Collab!TypeOK, HubState
<1>5. UNCHANGED <<page, flights, stored, backup, overlapped, edits, faults, crashes>>
  BY DEF Collab!Relay, Collab!disk, Collab!counters
<1>6. CASE new = {}
  <2>1. UNCHANGED <<hub, down>> BY <1>6 DEF Collab!Relay, ops
  <2>2. hub.doc = hub.doc \cup new /\ hub.timer = (hub.timer \/ new # {})
    BY <1>4, <1>6 DEF HubState
  <2>3. Relayed(c, {}) BY <1>1, <1>2, <1>4, <1>5, <1>6, <2>1, <2>2 DEF Relayed, Collab!TypeOK
  <2> QED BY <2>3
<1>7. CASE new # {}
  <2> DEFINE h == [hub EXCEPT !.doc = hub.doc \cup new, !.timer = TRUE]
  <2>1. /\ hub' = h
        /\ down' = [d \in Clients |-> IF d \in hub.conns \ {c} THEN Collab!Send(d, m) ELSE down[d]]
    BY <1>7 DEF Collab!Relay, ops, Collab!TypeOK
  <2>2. /\ h \in HubState /\ h.doc = hub.doc \cup new /\ h.timer /\ h.loaded = hub.loaded
        /\ h.conns = hub.conns /\ h.seeder = hub.seeder
    BY <1>3, <1>4 DEF HubState, Collab!Doc
  <2>3. m \in Collab!Msg /\ Carry(m) = new /\ m.kind # "step2" BY <1>3, MadeFrames DEF Carry
  <2> HIDE DEF h, m, new
  <2>4. ASSUME NEW d \in Clients
        PROVE  /\ down'[d] \in Seq(Collab!Msg)
               /\ Carries(down'[d]) \subseteq Carries(down[d]) \cup new
               /\ Carries(down[d]) \subseteq Carries(down'[d])
               /\ Alive(d) /\ d # c => new \subseteq Carries(down'[d])
               /\ HasStep2(down'[d]) <=> HasStep2(down[d])
               /\ ~Alive(d) => down'[d] = down[d]
    <3>1. /\ Append(down[d], m) \in Seq(Collab!Msg) /\ Carries(Append(down[d], m)) = Carries(down[d]) \cup new
          /\ HasStep2(Append(down[d], m)) <=> HasStep2(down[d])
      BY <2>3, TypeOKPage, AppendFrame
    <3>2. down'[d] = IF d \in hub.conns \ {c} /\ Alive(d) THEN Append(down[d], m) ELSE down[d]
      BY <2>1 DEF Collab!Send, Alive
    <3>3. Alive(d) => d \in hub.conns BY DEF Wired
    <3> QED BY <3>1, <3>2, <3>3, TypeOKPage
  <2>5. down' \in [Clients -> Seq(Collab!Msg)] BY <2>1, <2>4
  <2>6. hub'.timer = (hub.timer \/ new # {}) BY <1>7, <1>4, <2>1, <2>2 DEF HubState
  <2>7. new = Carry(Head(up[c])) \ hub.doc BY <1>2 DEF new
  <2>8. Relayed(c, new) BY <1>1, <1>5, <2>1, <2>2, <2>4, <2>5, <2>6, <2>7 DEF Relayed
  <2> QED BY <2>8
<1> QED BY <1>6, <1>7

\* What OnClose leaves behind.
Closed(c) ==
  /\ Taken(c) /\ Head(up[c]).kind = "close"
  /\ hub' \in HubState /\ hub'.doc = hub.doc /\ hub'.timer = hub.timer
  /\ hub'.loaded = hub.loaded /\ hub'.conns = hub.conns \ {c}
  /\ hub'.seeder = IF hub.seeder = c THEN NoOne ELSE hub.seeder
  /\ UNCHANGED <<page, down, flights, stored, backup, overlapped, edits, faults, crashes>>

LEMMA OnCloseCloses ==
  ASSUME CollabSetting, Collab!TypeOK, Wired, NEW c \in Clients, Collab!OnClose(c)
  PROVE  Closed(c)
<1> DEFINE h == [hub EXCEPT !.conns = hub.conns \ {c}, !.seeder = IF hub.seeder = c THEN NoOne ELSE hub.seeder]
<1>1. hub \in HubState BY DEF Collab!TypeOK, HubState
<1>2. hub' = h BY DEF Collab!OnClose, Collab!TypeOK
<1>3. /\ h \in HubState /\ h.doc = hub.doc /\ h.timer = hub.timer /\ h.loaded = hub.loaded
      /\ h.conns = hub.conns \ {c} /\ h.seeder = IF hub.seeder = c THEN NoOne ELSE hub.seeder
  BY <1>1 DEF HubState
<1>4. Taken(c) /\ Head(up[c]).kind = "close" BY Taking DEF Collab!OnClose
<1>5. UNCHANGED <<page, down, flights, stored, backup, overlapped, edits, faults, crashes>>
  BY DEF Collab!OnClose, Collab!disk, Collab!counters
<1> HIDE DEF h
<1> QED BY <1>2, <1>3, <1>4, <1>5 DEF Closed

\* What Leave leaves behind: a page that is gone, and a socket that says so.
Left(c) ==
  /\ page[c].pc # "gone"
  /\ page' \in [Clients -> Collab!PageState] /\ page'[c] = Collab!NoPage /\ \A d \in Clients : d # c => page'[d] = page[d]
  /\ down' \in [Clients -> Seq(Collab!Msg)] /\ down'[c] = <<>> /\ \A d \in Clients : d # c => down'[d] = down[d]
  /\ up' \in [Clients -> Seq(Collab!Msg)] /\ \A d \in Clients : d # c => up'[d] = up[d]
  /\ Carries(up'[c]) \subseteq Carries(up[c])
  /\ c \notin hub.conns => up'[c] = <<>>
  /\ \A i \in DOMAIN up'[c] : up'[c][i].kind = "close" => i = Len(up'[c])
  /\ UNCHANGED <<hub, flights, stored, backup, overlapped, edits, faults, crashes>>

LEMMA LeaveLeaves ==
  ASSUME CollabSetting, Collab!TypeOK, Wired, NEW c \in Clients, Collab!Leave(c)
  PROVE  Left(c)
<1> DEFINE m == [kind |-> "close"]
<1>1. PICK sent \in {up[c], <<>>} :
        up' = [up EXCEPT ![c] = IF c \in hub.conns THEN Append(sent, m) ELSE <<>>]
  BY DEF Collab!Leave
<1>2. /\ page[c].pc # "gone" /\ page' = [page EXCEPT ![c] = Collab!NoPage] /\ down' = [down EXCEPT ![c] = <<>>]
      /\ UNCHANGED <<hub, flights, stored, backup, overlapped, edits, faults, crashes>>
  BY DEF Collab!Leave, Collab!disk, Collab!counters
<1>3. Collab!NoPage \in Collab!PageState BY DEF Collab!NoPage, Collab!PageState, Collab!Doc, Collab!Empty
<1>4. <<>> \in Seq(Collab!Msg) OBVIOUS
<1>5. m \in Collab!Msg /\ Carry(m) = {} BY MadeFrames DEF Carry
<1> HIDE DEF m
<1>6. sent \in Seq(Collab!Msg) /\ Carries(sent) \subseteq Carries(up[c]) /\ \A i \in DOMAIN sent : sent[i].kind # "close"
  <2>1. \A i \in DOMAIN up[c] : up[c][i].kind # "close" BY <1>2 DEF Wired
  <2>2. CASE sent = up[c] BY <2>1, <2>2, TypeOKPage
  <2>3. CASE sent = <<>> BY <2>3, <1>4, EmptyFrames
  <2> QED BY <2>2, <2>3
<1>7. Append(sent, m) \in Seq(Collab!Msg) /\ Carries(Append(sent, m)) = Carries(sent) BY <1>5, <1>6, AppendFrame
<1>8. \A i \in DOMAIN Append(sent, m) : Append(sent, m)[i].kind = "close" => i = Len(Append(sent, m))
  <2>1. /\ Len(sent) \in Nat /\ DOMAIN sent = 1 .. Len(sent) /\ Len(Append(sent, m)) = Len(sent) + 1
        /\ DOMAIN Append(sent, m) = 1 .. Len(sent) + 1
        /\ \A i \in 1 .. Len(sent) : Append(sent, m)[i] = sent[i]
    BY <1>6
  <2> TAKE i \in DOMAIN Append(sent, m)
  <2>2. i \in 1 .. Len(sent) \/ i = Len(sent) + 1 BY <2>1
  <2> QED BY <1>6, <2>1, <2>2
<1>9. up'[c] = (IF c \in hub.conns THEN Append(sent, m) ELSE <<>>) /\ \A d \in Clients : d # c => up'[d] = up[d]
  BY <1>1 DEF Collab!TypeOK
<1>10. up' \in [Clients -> Seq(Collab!Msg)] BY <1>1, <1>4, <1>7 DEF Collab!TypeOK
<1>11. /\ page' \in [Clients -> Collab!PageState] /\ page'[c] = Collab!NoPage /\ \A d \in Clients : d # c => page'[d] = page[d]
       /\ down' \in [Clients -> Seq(Collab!Msg)] /\ down'[c] = <<>> /\ \A d \in Clients : d # c => down'[d] = down[d]
  BY <1>2, <1>3, <1>4 DEF Collab!TypeOK
<1>12. /\ Carries(up'[c]) \subseteq Carries(up[c]) /\ (c \notin hub.conns => up'[c] = <<>>)
       /\ \A i \in DOMAIN up'[c] : up'[c][i].kind = "close" => i = Len(up'[c])
  BY <1>6, <1>7, <1>8, <1>9, EmptyFrames
<1> QED BY <1>2, <1>9, <1>10, <1>11, <1>12 DEF Left

\* What Persist, BackUp and Evict leave behind.
Persisted ==
  /\ hub.timer /\ hub' \in HubState /\ ~hub'.timer
  /\ hub'.doc = hub.doc /\ hub'.loaded = hub.loaded /\ hub'.conns = hub.conns /\ hub'.seeder = hub.seeder
  /\ flights \in Seq(Collab!Doc) /\ flights' \in Seq(Collab!Doc) /\ hub.doc \in Collab!Doc
  /\ \A i \in DOMAIN flights' : flights'[i] = hub.doc \/ \E j \in DOMAIN flights : flights'[i] = flights[j]
  /\ Len(flights) \in Nat /\ Len(flights') = Len(flights) + 1
  /\ overlapped' \in BOOLEAN
  /\ overlapped' = (overlapped \/ flights # <<>>)
  /\ \/ stored' = hub.doc /\ faults' = faults
     \/ faults' \in 1..MaxFaults /\ stored' = stored
  /\ UNCHANGED <<backup, page, down, up, edits, crashes>>

LEMMA PersistPersists ==
  ASSUME CollabSetting, Collab!TypeOK, Collab!Persist
  PROVE  Persisted
<1> DEFINE h == [hub EXCEPT !.timer = FALSE]
<1>1. hub \in HubState /\ hub.doc \in Collab!Doc /\ flights \in Seq(Collab!Doc) BY DEF Collab!TypeOK, HubState
<1>2. /\ h \in HubState /\ ~h.timer
      /\ h.doc = hub.doc /\ h.loaded = hub.loaded /\ h.conns = hub.conns /\ h.seeder = hub.seeder
  BY <1>1 DEF HubState
<1>3. hub' = h /\ flights' = Append(flights, hub.doc) BY DEF Collab!Persist
<1> HIDE DEF h
<1>4. /\ flights' \in Seq(Collab!Doc) /\ Len(flights) \in Nat /\ Len(flights') = Len(flights) + 1
      /\ DOMAIN flights' = 1 .. Len(flights) + 1 /\ DOMAIN flights = 1 .. Len(flights)
      /\ flights'[Len(flights) + 1] = hub.doc /\ \A i \in 1 .. Len(flights) : flights'[i] = flights[i]
  BY <1>1, <1>3
<1>5. ASSUME NEW i \in DOMAIN flights'
      PROVE  flights'[i] = hub.doc \/ \E j \in DOMAIN flights : flights'[i] = flights[j]
  <2>1. i \in 1 .. Len(flights) \/ i = Len(flights) + 1 BY <1>4
  <2> QED BY <1>4, <2>1
<1>6. overlapped' \in BOOLEAN /\ overlapped' = (overlapped \/ flights # <<>>)
  BY DEF Collab!Persist, Collab!TypeOK
<1>7. \/ stored' = hub.doc /\ faults' = faults
      \/ faults' \in 1..MaxFaults /\ stored' = stored
  BY DEF Collab!Persist, Collab!TypeOK, CollabSetting
<1>8. hub.timer /\ UNCHANGED <<backup, page, down, up, edits, crashes>> BY DEF Collab!Persist
<1> QED BY <1>1, <1>2, <1>3, <1>4, <1>5, <1>6, <1>7, <1>8 DEF Persisted

BackedUp(doc) ==
  /\ \E i \in DOMAIN flights : doc = flights[i]
  /\ flights \in Seq(Collab!Doc) /\ flights' \in Seq(Collab!Doc)
  /\ \A j \in DOMAIN flights' : \E k \in DOMAIN flights : flights'[j] = flights[k]
  /\ Len(flights) \in Nat /\ Len(flights') = Len(flights) - 1
  /\ \/ backup' = doc /\ faults' = faults
     \/ faults' \in 1..MaxFaults /\ backup' = backup
  /\ UNCHANGED <<hub, stored, overlapped, page, down, up, edits, crashes>>

LEMMA BackUpBacksUp ==
  ASSUME CollabSetting, Collab!TypeOK, NEW i \in DOMAIN flights, Collab!BackUp(i)
  PROVE  BackedUp(flights[i])
<1> DEFINE s == flights
           front == SubSeq(s, 1, i - 1)
           rest == SubSeq(s, i + 1, Len(s))
<1>1. s \in Seq(Collab!Doc) /\ Len(s) \in Nat /\ DOMAIN s = 1 .. Len(s) /\ i \in 1 .. Len(s)
  BY DEF Collab!TypeOK
<1>2. front \in Seq(Collab!Doc) /\ Len(front) = i - 1 /\ \A k \in 1 .. i - 1 : front[k] = s[k]
  BY <1>1
<1>3. rest \in Seq(Collab!Doc) /\ Len(rest) = Len(s) - i /\ \A k \in 1 .. Len(s) - i : rest[k] = s[i + k]
  <2>1. i + 1 \in 1 .. Len(s) + 1 /\ i \in Nat BY <1>1
  <2>2. rest \in Seq(Collab!Doc) /\ Len(rest) = Len(s) - i BY <1>1, <2>1
  <2>3. ASSUME NEW k \in 1 .. Len(s) - i PROVE rest[k] = s[i + k]
    <3>1. rest[k] = s[(i + 1) + k - 1] BY <1>1, <2>1, <2>2
    <3>2. (i + 1) + k - 1 = i + k BY <1>1
    <3> QED BY <3>1, <3>2
  <2> QED BY <2>2, <2>3
<1>4. flights' = front \o rest BY DEF Collab!BackUp, Collab!RemoveAt
<1> HIDE DEF front, rest
<1>5. /\ flights' \in Seq(Collab!Doc) /\ Len(flights') = Len(s) - 1 /\ DOMAIN flights' = 1 .. Len(s) - 1
      /\ \A j \in 1 .. Len(s) - 1 : flights'[j] = IF j <= i - 1 THEN front[j] ELSE rest[j - (i - 1)]
  <2>1. i - 1 \in Nat /\ Len(s) - i \in Nat /\ (i - 1) + (Len(s) - i) = Len(s) - 1 BY <1>1
  <2>2. flights' \in Seq(Collab!Doc) /\ Len(flights') = Len(s) - 1 BY <1>2, <1>3, <1>4, <2>1
  <2>3. DOMAIN flights' = 1 .. Len(s) - 1 BY <2>2
  <2>4. \A j \in 1 .. Len(s) - 1 : flights'[j] = IF j <= i - 1 THEN front[j] ELSE rest[j - (i - 1)]
    <3>1. \A j \in 1 .. Len(front) + Len(rest) :
            (front \o rest)[j] = IF j <= Len(front) THEN front[j] ELSE rest[j - Len(front)]
      BY <1>2, <1>3, SMTT(30)
    <3>2. Len(front) = i - 1 /\ Len(front) + Len(rest) = Len(s) - 1 BY <1>2, <1>3, <2>1
    <3> QED BY <1>4, <3>1, <3>2
  <2> QED BY <2>2, <2>3, <2>4
<1>6. ASSUME NEW j \in DOMAIN flights' PROVE \E k \in DOMAIN flights : flights'[j] = flights[k]
  <2>1. CASE j <= i - 1
    <3>1. j \in 1 .. i - 1 /\ j \in 1 .. Len(s) BY <1>1, <1>5, <2>1
    <3> QED BY <1>1, <1>2, <1>5, <2>1, <3>1
  <2>2. CASE ~(j <= i - 1)
    <3> DEFINE k == j - (i - 1)
    <3>1. k \in 1 .. Len(s) - i /\ i + k = j + 1 /\ i + k \in 1 .. Len(s) BY <1>1, <1>5, <2>2
    <3>2. flights'[j] = rest[k] BY <1>5, <2>2
    <3>3. rest[k] = s[i + k] BY <1>3, <3>1
    <3> QED BY <1>1, <3>1, <3>2, <3>3
  <2> QED BY <2>1, <2>2
<1>7. \/ backup' = flights[i] /\ faults' = faults
      \/ faults' \in 1..MaxFaults /\ backup' = backup
  BY DEF Collab!BackUp, Collab!TypeOK, CollabSetting
<1>8. UNCHANGED <<hub, stored, overlapped, page, down, up, edits, crashes>> BY DEF Collab!BackUp
<1> QED BY <1>1, <1>5, <1>6, <1>7, <1>8 DEF BackedUp

Evicted ==
  /\ hub' = Collab!Asleep /\ hub' \in HubState /\ flights' = <<>> /\ flights' \in Seq(Collab!Doc)
  /\ page' \in [Clients -> Collab!PageState]
  /\ \A c \in Clients : page'[c] = IF c \in hub.conns THEN Collab!NoPage ELSE page[c]
  /\ down' = [c \in Clients |-> <<>>] /\ down' \in [Clients -> Seq(Collab!Msg)]
  /\ up' = [c \in Clients |-> <<>>] /\ up' \in [Clients -> Seq(Collab!Msg)]
  /\ stored' \in {stored, Collab!Empty} /\ stored' \in Collab!Doc
  /\ crashes' \in 0..MaxCrashes
  /\ UNCHANGED <<backup, overlapped, edits, faults>>

LEMMA EvictEvicts ==
  ASSUME CollabSetting, Collab!TypeOK, Collab!Evict
  PROVE  Evicted
<1>1. {} \in Collab!Doc /\ Collab!Empty = {} BY DEF Collab!Doc, Collab!Empty
<1>2. Collab!Asleep \in HubState BY <1>1 DEF Collab!Asleep, HubState
<1>3. Collab!NoPage \in Collab!PageState BY <1>1 DEF Collab!NoPage, Collab!PageState
<1>4. <<>> \in Seq(Collab!Msg) /\ <<>> \in Seq(Collab!Doc) OBVIOUS
<1>5. page' \in [Clients -> Collab!PageState] /\ \A c \in Clients : page'[c] = IF c \in hub.conns THEN Collab!NoPage ELSE page[c]
  BY <1>3 DEF Collab!Evict, Collab!TypeOK
<1>6. crashes' \in 0..MaxCrashes BY DEF Collab!Evict, Collab!TypeOK, CollabSetting
<1>7. stored' \in {stored, Collab!Empty} /\ stored' \in Collab!Doc BY <1>1 DEF Collab!Evict, Collab!TypeOK
<1>8. /\ hub' = Collab!Asleep /\ flights' = <<>> /\ down' = [c \in Clients |-> <<>>] /\ up' = [c \in Clients |-> <<>>]
      /\ UNCHANGED <<backup, overlapped, edits, faults>>
  BY DEF Collab!Evict
<1>9. down' \in [Clients -> Seq(Collab!Msg)] /\ up' \in [Clients -> Seq(Collab!Msg)] BY <1>4, <1>8
<1> QED BY <1>2, <1>4, <1>5, <1>6, <1>7, <1>8, <1>9 DEF Evicted

\* Every step is one of these.
Kinds ==
  \/ \E c \in Clients :
       \/ \E pg, got, made : Local(c, pg, got, made) /\ edits' \in 0..MaxEdits
       \/ \E doc, primary, failed : Joined(c, doc, primary, failed)
       \/ \E new : Relayed(c, new)
       \/ Left(c) \/ Answered(c) \/ Closed(c)
  \/ Persisted \/ (\E doc : BackedUp(doc)) \/ Evicted

LEMMA StepKinds == CollabSetting /\ Collab!TypeOK /\ Wired /\ Collab!Next => Kinds
<1> SUFFICES ASSUME CollabSetting, Collab!TypeOK, Wired, Collab!Next PROVE Kinds OBVIOUS
<1>1. ASSUME NEW c \in Clients, Collab!Synced(c) \/ Collab!Updated(c) \/ Collab!Hydrate(c) \/ Collab!Type(c) PROVE Kinds
  <2>1. edits' \in 0..MaxEdits BY <1>1 DEF Collab!Synced, Collab!Updated, Collab!Hydrate, Collab!Type,
         Collab!counters, Collab!TypeOK, CollabSetting
  <2> QED BY <1>1, <2>1, LocalSteps DEF Kinds
<1>2. ASSUME NEW c \in Clients, Collab!Connect(c) PROVE Kinds BY <1>2, ConnectJoins DEF Kinds
<1>3. ASSUME NEW c \in Clients, Collab!Relay(c) PROVE Kinds BY <1>3, RelayRelays DEF Kinds
<1>4. ASSUME NEW c \in Clients, Collab!Leave(c) PROVE Kinds BY <1>4, LeaveLeaves DEF Kinds
<1>5. ASSUME NEW c \in Clients, Collab!Answer(c) PROVE Kinds BY <1>5, AnswerAnswers DEF Kinds
<1>6. ASSUME NEW c \in Clients, Collab!OnClose(c) PROVE Kinds BY <1>6, OnCloseCloses DEF Kinds
<1>7. ASSUME Collab!Persist PROVE Kinds BY <1>7, PersistPersists DEF Kinds
<1>8. ASSUME NEW i \in DOMAIN flights, Collab!BackUp(i) PROVE Kinds BY <1>8, BackUpBacksUp DEF Kinds
<1>9. ASSUME Collab!Evict PROVE Kinds BY <1>9, EvictEvicts DEF Kinds
<1> QED BY <1>1, <1>2, <1>3, <1>4, <1>5, <1>6, <1>7, <1>8, <1>9 DEF Collab!Next

LEMMA StepTypes ==
  ASSUME CollabSetting, Collab!TypeOK, Wired, Kinds
  PROVE  Collab!TypeOK'
<1>0. HubState = [loaded : BOOLEAN, doc : Collab!Doc, conns : SUBSET Clients, seeder : Clients \cup {NoOne}, timer : BOOLEAN]
  BY DEF HubState
<1>1. ASSUME NEW c \in Clients, NEW pg, NEW got, NEW made, Local(c, pg, got, made), edits' \in 0..MaxEdits
      PROVE  Collab!TypeOK'
  <2>1. page' \in [Clients -> Collab!PageState] /\ down' \in [Clients -> Seq(Collab!Msg)] /\ up' \in [Clients -> Seq(Collab!Msg)]
    BY <1>1, LocalSockets
  <2> QED BY <1>1, <2>1 DEF Collab!TypeOK, Local
<1>2. ASSUME NEW c \in Clients, NEW doc, NEW primary, NEW failed, Joined(c, doc, primary, failed)
      PROVE  Collab!TypeOK'
  BY <1>0, <1>2 DEF Collab!TypeOK, Joined
<1>3. ASSUME NEW c \in Clients, NEW new, Relayed(c, new) PROVE Collab!TypeOK'
  BY <1>0, <1>3 DEF Collab!TypeOK, Relayed, Taken
<1>4. ASSUME NEW c \in Clients, Left(c) PROVE Collab!TypeOK' BY <1>4 DEF Collab!TypeOK, Left
<1>5. ASSUME NEW c \in Clients, Answered(c) PROVE Collab!TypeOK' BY <1>5 DEF Collab!TypeOK, Answered, Taken
<1>6. ASSUME NEW c \in Clients, Closed(c) PROVE Collab!TypeOK' BY <1>0, <1>6 DEF Collab!TypeOK, Closed, Taken
<1>7. ASSUME Persisted PROVE Collab!TypeOK'
  <2>1. stored' \in Collab!Doc /\ faults' \in 0..MaxFaults BY <1>7 DEF Collab!TypeOK, Persisted, CollabSetting
  <2> QED BY <1>0, <1>7, <2>1 DEF Collab!TypeOK, Persisted
<1>8. ASSUME NEW doc, BackedUp(doc) PROVE Collab!TypeOK'
  <2>1. backup' \in Collab!Doc /\ faults' \in 0..MaxFaults BY <1>8 DEF Collab!TypeOK, BackedUp, CollabSetting
  <2> QED BY <1>8, <2>1 DEF Collab!TypeOK, BackedUp
<1>9. ASSUME Evicted PROVE Collab!TypeOK' BY <1>0, <1>9 DEF Collab!TypeOK, Evicted
<1> QED BY <1>1, <1>2, <1>3, <1>4, <1>5, <1>6, <1>7, <1>8, <1>9 DEF Kinds

-----------------------------------------------------------------------------
(* The sockets.                                                            *)

LEMMA InitWired == CollabSetting => (Collab!Init => Wired)
<1> SUFFICES ASSUME CollabSetting, Collab!Init PROVE Wired OBVIOUS
<1>1. hub = Collab!Asleep /\ hub.loaded = FALSE /\ hub.seeder = NoOne /\ hub.conns = {}
  BY DEF Collab!Init, Collab!Asleep
<1>2. \A c \in Clients : page[c].pc = "connecting" /\ page[c].primary = FALSE /\ up[c] = <<>> /\ down[c] = <<>>
  BY DEF Collab!Init, Collab!Opened
<1> QED BY <1>1, <1>2 DEF Wired, Alive

\* Wired about one tab.
WiredAt(c) ==
  /\ Alive(c) => c \in hub.conns
  /\ c \in hub.conns => page[c].pc # "connecting"
  /\ c \notin hub.conns => up[c] = <<>>
  /\ ~Alive(c) => down[c] = <<>>
  /\ page[c].pc = "gone" => page[c] = Collab!NoPage
  /\ page[c].primary => hub.seeder = c
  /\ \A i \in DOMAIN up[c] : up[c][i].kind = "close" => i = Len(up[c]) /\ page[c].pc = "gone"

LEMMA WiredIs ==
  Wired <=> /\ ~hub.loaded => hub = Collab!Asleep
            /\ hub.seeder # NoOne => hub.seeder \in hub.conns
            /\ \A c \in Clients : WiredAt(c)
BY DEF Wired, WiredAt

LEMMA LocalSendsNoClose ==
  ASSUME CollabSetting, Collab!TypeOK, Wired, NEW c \in Clients, NEW pg, NEW got, NEW made, Local(c, pg, got, made)
  PROVE  \A i \in DOMAIN up'[c] : up'[c][i].kind # "close"
<1>1. \A i \in DOMAIN up[c] : up[c][i].kind # "close" BY DEF Wired, Local
<1>2. CASE up' = up BY <1>1, <1>2
<1>3. ASSUME NEW sent \in Collab!Doc, up' = [up EXCEPT ![c] = Append(@, [kind |-> "update", ops |-> sent])]
      PROVE  \A i \in DOMAIN up'[c] : up'[c][i].kind # "close"
  <2> DEFINE m == [kind |-> "update", ops |-> sent]
             s == up[c]
             t == Append(s, m)
  <2>1. m \in Collab!Msg /\ m.kind = "update" BY MadeFrames
  <2>2. s \in Seq(Collab!Msg) BY TypeOKPage
  <2>3. up'[c] = t BY <1>3 DEF Collab!TypeOK
  <2> HIDE DEF m
  <2>4. /\ Len(s) \in Nat /\ DOMAIN s = 1 .. Len(s) /\ DOMAIN t = 1 .. Len(s) + 1
        /\ t[Len(s) + 1] = m /\ \A i \in 1 .. Len(s) : t[i] = s[i]
    BY <2>1, <2>2
  <2> HIDE DEF s, t
  <2>5. ASSUME NEW i \in DOMAIN t PROVE t[i].kind # "close"
    <3>1. i \in 1 .. Len(s) \/ i = Len(s) + 1 BY <2>4
    <3> QED BY <1>1, <2>1, <2>4, <3>1 DEF s
  <2> QED BY <2>3, <2>5
<1> QED BY <1>2, <1>3 DEF Local

LEMMA StepWired ==
  ASSUME CollabSetting, Collab!TypeOK, Wired, Kinds
  PROVE  Wired'
<1> USE DEF Alive
<1> DEFINE Hub == (~hub.loaded => hub = Collab!Asleep) /\ (hub.seeder # NoOne => hub.seeder \in hub.conns)
           All == \A d \in Clients : WiredAt(d)
<1>0. Hub /\ All BY WiredIs
<1>a. Collab!NoPage.pc = "gone" /\ ~Collab!NoPage.primary BY DEF Collab!NoPage
<1>b. Collab!Asleep.conns = {} /\ Collab!Asleep.seeder = NoOne /\ ~Collab!Asleep.loaded BY DEF Collab!Asleep
<1>1. ASSUME NEW c \in Clients, NEW pg, NEW got, NEW made, Local(c, pg, got, made)
      PROVE  Hub' /\ All'
  <2>1. hub' = hub /\ page[c].pc # "gone" /\ pg.primary = page[c].primary BY <1>1 DEF Local
  <2>2. /\ page'[c] = pg /\ (pg.pc = "connecting" <=> page[c].pc = "connecting") /\ (Alive(c)' <=> Alive(c))
        /\ \A d \in Clients : d # c => page'[d] = page[d] /\ down'[d] = down[d] /\ up'[d] = up[d]
        /\ (down[c] = <<>> => down'[c] = <<>>)
    BY <1>1, LocalSockets
  <2>3. \A i \in DOMAIN up'[c] : up'[c][i].kind # "close" BY <1>1, LocalSendsNoClose
  <2>4. page[c] \in Collab!PageState /\ pg \in Collab!PageState BY <1>1, TypeOKPage DEF Local
  <2>5. pg.pc # "gone" BY <2>1, <2>2, <2>4 DEF Collab!PageState
  <2>6. c \notin hub.conns => up'[c] = <<>>
    <3>1. c \notin hub.conns => ~Alive(c) /\ up[c] = <<>> BY <1>0 DEF WiredAt
    <3>2. pg.pc \notin {"open", "connected"} => up' = up BY <1>1 DEF Local
    <3> QED BY <2>2, <3>1, <3>2
  <2>7. WiredAt(c)' BY <1>0, <2>1, <2>2, <2>3, <2>5, <2>6 DEF WiredAt
  <2>8. ASSUME NEW d \in Clients, d # c PROVE WiredAt(d)'
    BY <1>0, <2>1, <2>2, <2>8 DEF WiredAt
  <2> QED BY <1>0, <2>1, <2>7, <2>8
<1>2. ASSUME NEW c \in Clients, NEW doc, NEW primary, NEW failed, Joined(c, doc, primary, failed)
      PROVE  Hub' /\ All'
  <2>1. Hub' BY <1>0, <1>2 DEF Joined
  <2>2. ~Alive(c) /\ c \notin hub.conns /\ hub.seeder # c BY <1>0, <1>2 DEF Joined, WiredAt, CollabSetting
  <2>3. WiredAt(c)' BY <1>0, <1>2, <2>2 DEF Joined, WiredAt
  <2>4. ASSUME NEW d \in Clients, d # c PROVE WiredAt(d)'
    <3>1. page[d].primary => hub'.seeder = d BY <1>0, <1>2, <2>4 DEF Joined, WiredAt, CollabSetting
    <3> QED BY <1>0, <1>2, <2>4, <3>1 DEF Joined, WiredAt
  <2> QED BY <2>1, <2>3, <2>4
<1>3. ASSUME NEW c \in Clients, NEW new, Relayed(c, new)
      PROVE  Hub' /\ All'
  <2>1. hub.loaded
    <3>1. c \in hub.conns BY <1>0, <1>3 DEF Relayed, Taken, WiredAt
    <3> QED BY <1>0, <1>b, <3>1
  <2>2. Hub' BY <1>0, <1>3, <2>1 DEF Relayed
  <2>3. ASSUME NEW d \in Clients PROVE WiredAt(d)'
    <3>1. CASE d = c BY <1>0, <1>3, <3>1 DEF Relayed, Taken, WiredAt
    <3>2. CASE d # c BY <1>0, <1>3, <3>2, SMTT(30) DEF Relayed, Taken, WiredAt
    <3> QED BY <3>1, <3>2
  <2> QED BY <2>2, <2>3
<1>4. ASSUME NEW c \in Clients, Left(c)
      PROVE  Hub' /\ All'
  <2>1. WiredAt(c)' BY <1>0, <1>a, <1>4 DEF Left, WiredAt
  <2>2. ASSUME NEW d \in Clients, d # c PROVE WiredAt(d)'
    <3>1. page'[d] = page[d] /\ down'[d] = down[d] /\ up'[d] = up[d] /\ hub' = hub BY <1>4, <2>2 DEF Left
    <3> QED BY <1>0, <3>1 DEF WiredAt
  <2> QED BY <1>0, <1>4, <2>1, <2>2 DEF Left
<1>5. ASSUME NEW c \in Clients, Answered(c)
      PROVE  Hub' /\ All'
  <2>1. WiredAt(c)' BY <1>0, <1>5 DEF Answered, Taken, WiredAt
  <2>2. ASSUME NEW d \in Clients, d # c PROVE WiredAt(d)'
    <3>1. page'[d] = page[d] /\ down'[d] = down[d] /\ up'[d] = up[d] /\ hub' = hub
      BY <1>5, <2>2 DEF Answered, Taken
    <3> QED BY <1>0, <3>1 DEF WiredAt
  <2> QED BY <1>0, <1>5, <2>1, <2>2 DEF Answered
<1>6. ASSUME NEW c \in Clients, Closed(c)
      PROVE  Hub' /\ All'
  <2>1. page[c].pc = "gone" /\ up'[c] = <<>> /\ page' = page /\ down' = down BY <1>6 DEF Closed, Taken
  <2>2. page[c] = Collab!NoPage BY <1>0, <2>1 DEF WiredAt
  <2>3. WiredAt(c)' BY <1>0, <1>6, <2>1, <2>2, <1>a DEF Closed, WiredAt
  <2>4. ASSUME NEW d \in Clients, d # c PROVE WiredAt(d)' BY <1>0, <1>6, <2>4 DEF Closed, Taken, WiredAt
  <2>5. hub.loaded
    <3>1. c \in hub.conns BY <1>0, <1>6 DEF Closed, Taken, WiredAt
    <3> QED BY <1>0, <1>b, <3>1
  <2> QED BY <1>0, <1>6, <2>3, <2>4, <2>5 DEF Closed
<1>7. ASSUME Persisted
      PROVE  Hub' /\ All'
  <2>1. hub.loaded BY <1>0, <1>7 DEF Persisted, Collab!Asleep
  <2>2. ASSUME NEW d \in Clients PROVE WiredAt(d)' BY <1>0, <1>7 DEF Persisted, WiredAt
  <2> QED BY <1>0, <1>7, <2>1, <2>2 DEF Persisted
<1>8. ASSUME NEW doc, BackedUp(doc)
      PROVE  Hub' /\ All'
  <2>1. ASSUME NEW d \in Clients PROVE WiredAt(d)' BY <1>0, <1>8 DEF BackedUp, WiredAt
  <2> QED BY <1>0, <1>8, <2>1 DEF BackedUp
<1>9. ASSUME Evicted
      PROVE  Hub' /\ All'
  <2>1. ASSUME NEW d \in Clients PROVE WiredAt(d)'
    <3>1. up'[d] = <<>> /\ down'[d] = <<>> /\ DOMAIN <<>> = {} BY <1>9 DEF Evicted
    <3>2. CASE d \in hub.conns BY <1>0, <1>9, <1>a, <1>b, <3>1, <3>2 DEF Evicted, WiredAt
    <3>3. CASE d \notin hub.conns
      <4>1. ~Alive(d) /\ page'[d] = page[d] BY <1>0, <1>9, <3>3 DEF Evicted, WiredAt
      <4>2. ~page[d].primary
        <5>1. page[d].primary => hub.seeder = d /\ hub.seeder # NoOne BY <1>0 DEF WiredAt, CollabSetting
        <5> QED BY <1>0, <3>3, <5>1
      <4> QED BY <1>0, <1>9, <1>b, <3>1, <4>1, <4>2 DEF Evicted, WiredAt
    <3> QED BY <3>2, <3>3
  <2> QED BY <1>9, <1>b, <2>1 DEF Evicted
<1> HIDE DEF Hub, All
<1>10. Hub' /\ All' BY <1>1, <1>2, <1>3, <1>4, <1>5, <1>6, <1>7, <1>8, <1>9 DEF Kinds
<1> QED BY <1>10 DEF Wired, WiredAt, Hub, All

-----------------------------------------------------------------------------
(* The documents.                                                          *)

SharedAt(c) ==
  /\ Carries(down[c]) \subseteq hub.doc
  /\ Alive(c) =>
       /\ page[c].doc \subseteq hub.doc \cup Carries(up[c])
       /\ Carries(up[c]) \subseteq page[c].doc
       /\ page[c].pc = "connected" \/ HasStep2(down[c])
            => hub.doc \subseteq page[c].doc \cup Carries(down[c])

LEMMA SharedIs == Shared <=> \A c \in Clients : SharedAt(c)
BY DEF Shared, SharedAt

LEMMA InitShared == CollabSetting => (Collab!Init => Shared)
BY EmptyFrames DEF Collab!Init, Shared, Collab!Opened, Alive

\* While the object is asleep no page is connected and nothing is on its way.
LEMMA AsleepIsQuiet ==
  ASSUME CollabSetting, Wired, ~hub.loaded
  PROVE  /\ hub.doc = {} /\ hub.conns = {} /\ hub.seeder = NoOne
         /\ \A c \in Clients : ~Alive(c) /\ down[c] = <<>> /\ up[c] = <<>>
BY DEF Wired, Collab!Asleep, Collab!Empty

LEMMA StepShared ==
  ASSUME CollabSetting, Collab!TypeOK, Wired, Shared, Kinds
  PROVE  Shared'
<1>0. \A c \in Clients : SharedAt(c) BY SharedIs
<1>a. Collab!NoPage.pc = "gone" BY DEF Collab!NoPage
<1> SUFFICES \A d \in Clients : SharedAt(d)' BY DEF Shared, SharedAt
<1>1. ASSUME NEW c \in Clients, NEW pg, NEW got, NEW made, Local(c, pg, got, made)
      PROVE  \A d \in Clients : SharedAt(d)'
  <2>1. hub' = hub /\ pg.doc = page[c].doc \cup got \cup made BY <1>1 DEF Local
  <2>2. /\ page'[c] = pg
        /\ \A d \in Clients : d # c => page'[d] = page[d] /\ down'[d] = down[d] /\ up'[d] = up[d]
        /\ Carries(down[c]) = got \cup Carries(down'[c])
        /\ pg.pc = "connected" \/ HasStep2(down'[c]) <=> page[c].pc = "connected" \/ HasStep2(down[c])
        /\ Carries(up[c]) \subseteq Carries(up'[c]) /\ Carries(up'[c]) \subseteq Carries(up[c]) \cup made
        /\ Alive(c)' => made \subseteq page[c].doc \cup got \cup Carries(up'[c])
        /\ Alive(c)' <=> Alive(c)
    BY <1>1, LocalSockets, ZenonT(40)
  <2>3. SharedAt(c)'
    <3>1. Carries(down'[c]) \subseteq hub'.doc /\ got \subseteq hub.doc BY <1>0, <2>1, <2>2 DEF SharedAt
    <3>2. ASSUME Alive(c)'
          PROVE  /\ page'[c].doc \subseteq hub'.doc \cup Carries(up'[c])
                 /\ Carries(up'[c]) \subseteq page'[c].doc
                 /\ page'[c].pc = "connected" \/ HasStep2(down'[c])
                      => hub'.doc \subseteq page'[c].doc \cup Carries(down'[c])
      BY <1>0, <2>1, <2>2, <3>1, <3>2 DEF SharedAt
    <3> QED BY <3>1, <3>2 DEF SharedAt
  <2>4. ASSUME NEW d \in Clients, d # c PROVE SharedAt(d)'
    <3>1. page'[d] = page[d] /\ down'[d] = down[d] /\ up'[d] = up[d] /\ hub' = hub BY <2>1, <2>2, <2>4
    <3> QED BY <1>0, <3>1 DEF SharedAt, Alive
  <2> QED BY <2>3, <2>4
<1>2. ASSUME NEW c \in Clients, NEW doc, NEW primary, NEW failed, Joined(c, doc, primary, failed)
      PROVE  \A d \in Clients : SharedAt(d)'
  <2>1. /\ hub'.doc = doc /\ page'[c].pc = "open" /\ page'[c].doc = page[c].doc /\ Carries(up'[c]) = page[c].doc
        /\ down' = down /\ \A d \in Clients : d # c => page'[d] = page[d] /\ up'[d] = up[d]
    BY <1>2 DEF Joined
  <2>2. ~Alive(c) /\ down[c] = <<>> BY <1>2 DEF Joined, Alive, Wired
  <2>3. SharedAt(c)' BY <2>1, <2>2, EmptyFrames DEF SharedAt
  <2>4. ASSUME NEW d \in Clients, d # c PROVE SharedAt(d)'
    <3>1. page'[d] = page[d] /\ down'[d] = down[d] /\ up'[d] = up[d] BY <2>1, <2>4
    <3>2. CASE hub.loaded
      <4>1. hub'.doc = hub.doc BY <1>2, <2>1, <3>2 DEF Joined, Collab!Loads
      <4> QED BY <1>0, <3>1, <4>1 DEF SharedAt, Alive
    <3>3. CASE ~hub.loaded
      <4>1. ~Alive(d) /\ down[d] = <<>> BY <3>3, AsleepIsQuiet
      <4> QED BY <3>1, <4>1, EmptyFrames DEF SharedAt, Alive
    <3> QED BY <3>2, <3>3
  <2> QED BY <2>3, <2>4
<1>3. ASSUME NEW c \in Clients, NEW new, Relayed(c, new)
      PROVE  \A d \in Clients : SharedAt(d)'
  <2>1. /\ hub'.doc = hub.doc \cup new /\ page' = page
        /\ new = Carry(Head(up[c])) \ hub.doc
        /\ Carries(up[c]) = Carry(Head(up[c])) \cup Carries(up'[c])
        /\ \A d \in Clients : d # c => up'[d] = up[d]
    BY <1>3 DEF Relayed, Taken
  <2>2. \A d \in Clients :
          /\ Carries(down'[d]) \subseteq Carries(down[d]) \cup new
          /\ Carries(down[d]) \subseteq Carries(down'[d])
          /\ Alive(d) /\ d # c => new \subseteq Carries(down'[d])
          /\ HasStep2(down'[d]) <=> HasStep2(down[d])
    BY <1>3 DEF Relayed
  <2>3. SharedAt(c)' BY <1>0, <2>1, <2>2 DEF SharedAt, Alive
  <2>4. ASSUME NEW d \in Clients, d # c PROVE SharedAt(d)' BY <1>0, <2>1, <2>2, <2>4 DEF SharedAt, Alive
  <2> QED BY <2>3, <2>4
<1>4. ASSUME NEW c \in Clients, Left(c)
      PROVE  \A d \in Clients : SharedAt(d)'
  <2>1. SharedAt(c)' BY <1>4, <1>a, EmptyFrames DEF SharedAt, Left, Alive
  <2>2. ASSUME NEW d \in Clients, d # c PROVE SharedAt(d)'
    <3>1. page'[d] = page[d] /\ down'[d] = down[d] /\ up'[d] = up[d] /\ hub' = hub BY <1>4, <2>2 DEF Left
    <3> QED BY <1>0, <3>1 DEF SharedAt, Alive
  <2> QED BY <2>1, <2>2
<1>5. ASSUME NEW c \in Clients, Answered(c)
      PROVE  \A d \in Clients : SharedAt(d)'
  <2>1. /\ hub' = hub /\ page' = page /\ Carries(up'[c]) = Carries(up[c])
        /\ \A d \in Clients : d # c => up'[d] = up[d] /\ down'[d] = down[d]
        /\ Alive(c) => Carries(down'[c]) = Carries(down[c]) \cup hub.doc
        /\ ~Alive(c) => down'[c] = down[c]
    BY <1>5 DEF Answered, Taken
  <2>2. SharedAt(c)' BY <1>0, <2>1 DEF SharedAt, Alive
  <2>3. ASSUME NEW d \in Clients, d # c PROVE SharedAt(d)'
    <3>1. page'[d] = page[d] /\ down'[d] = down[d] /\ up'[d] = up[d] /\ hub' = hub BY <2>1, <2>3
    <3> QED BY <1>0, <3>1 DEF SharedAt, Alive
  <2> QED BY <2>2, <2>3
<1>6. ASSUME NEW c \in Clients, Closed(c)
      PROVE  \A d \in Clients : SharedAt(d)'
  <2>1. /\ hub'.doc = hub.doc /\ page' = page /\ down' = down /\ page[c].pc = "gone"
        /\ \A d \in Clients : d # c => up'[d] = up[d]
    BY <1>6 DEF Closed, Taken
  <2>2. SharedAt(c)' BY <1>0, <2>1 DEF SharedAt, Alive
  <2>3. ASSUME NEW d \in Clients, d # c PROVE SharedAt(d)' BY <1>0, <2>1, <2>3 DEF SharedAt, Alive
  <2> QED BY <2>2, <2>3
<1>7. ASSUME Persisted
      PROVE  \A d \in Clients : SharedAt(d)'
  BY <1>0, <1>7 DEF Persisted, SharedAt, Alive
<1>8. ASSUME NEW doc, BackedUp(doc)
      PROVE  \A d \in Clients : SharedAt(d)'
  BY <1>0, <1>8 DEF BackedUp, SharedAt, Alive
<1>9. ASSUME Evicted
      PROVE  \A d \in Clients : SharedAt(d)'
  <2> TAKE d \in Clients
  <2>1. down'[d] = <<>> BY <1>9 DEF Evicted
  <2>2. ~Alive(d)' BY <1>9, <1>a DEF Evicted, Alive, Wired
  <2> QED BY <2>1, <2>2, EmptyFrames DEF SharedAt
<1> QED BY <1>1, <1>2, <1>3, <1>4, <1>5, <1>6, <1>7, <1>8, <1>9 DEF Kinds

-----------------------------------------------------------------------------
(* The seeds.                                                              *)

SeedsHub ==
  /\ Single(hub.doc) /\ Single(stored) /\ Single(backup)
  /\ \A i \in DOMAIN flights : Single(flights[i])
  /\ hub.seeder # NoOne => Collab!Seeders(hub.doc) \subseteq {hub.seeder}
SeedsAt(c) ==
  /\ Collab!Seeders(page[c].doc) \subseteq Collab!Seeders(hub.doc) \cup SeedOf(c)
  /\ Collab!Seeders(Carries(up[c])) \subseteq Collab!Seeders(hub.doc) \cup SeedOf(c)
  /\ page[c].pc = "connecting" => Collab!Seeders(page[c].doc) = {}

LEMMA SeedsAre == Seeds <=> SeedsHub /\ \A c \in Clients : SeedsAt(c)
BY DEF Seeds, SeedsHub, SeedsAt

LEMMA InitSeeds == CollabSetting => (Collab!Init => Seeds)
<1> SUFFICES ASSUME CollabSetting, Collab!Init PROVE Seeds OBVIOUS
<1>1. hub.doc = {} /\ hub.seeder = NoOne /\ stored = {} /\ backup = {} /\ flights = <<>> /\ DOMAIN <<>> = {}
  BY DEF Collab!Init, Collab!Asleep, Collab!Empty
<1>2. Single({}) BY SeedersOf DEF Single
<1>3. \A c \in Clients : page[c].doc = {Collab!User(c)} /\ up[c] = <<>> BY DEF Collab!Init, Collab!Opened
<1>4. \A c \in Clients : Collab!Seeders({Collab!User(c)}) = {} BY DEF Collab!Seeders, Collab!User, Collab!Made
<1>5. SeedsHub BY <1>1, <1>2 DEF SeedsHub
<1>6. \A c \in Clients : SeedsAt(c) BY <1>3, <1>4, EmptyFrames, SeedersOf DEF SeedsAt
<1> QED BY <1>5, <1>6, SeedsAre

\* A step that touches nothing of a tab, and lets the object's document grow.
LEMMA SeedsStay ==
  ASSUME NEW d \in Clients, SeedsAt(d), Collab!Seeders(hub.doc) \subseteq Collab!Seeders(hub'.doc),
         SeedOf(d) \subseteq SeedOf(d)' \cup Collab!Seeders(hub'.doc),
         page'[d].doc = page[d].doc, page'[d].pc = page[d].pc,
         Collab!Seeders(Carries(up'[d])) \subseteq Collab!Seeders(Carries(up[d]))
  PROVE  SeedsAt(d)'
BY DEF SeedsAt

LEMMA StepSeeds ==
  ASSUME CollabSetting, Collab!TypeOK, Wired, Shared, Seeds, Kinds
  PROVE  Seeds'
<1>0. SeedsHub /\ \A c \in Clients : SeedsAt(c) BY SeedsAre
<1>a. Collab!NoPage.pc = "gone" /\ Collab!NoPage.doc = {} /\ Collab!Seeders({}) = {} /\ Single({})
  BY SeedersOf DEF Collab!NoPage, Collab!Empty, Single
<1> SUFFICES SeedsHub' /\ \A d \in Clients : SeedsAt(d)' BY DEF Seeds, SeedsHub, SeedsAt
<1>1. ASSUME NEW c \in Clients, NEW pg, NEW got, NEW made, Local(c, pg, got, made)
      PROVE  SeedsHub' /\ \A d \in Clients : SeedsAt(d)'
  <2>1. /\ hub' = hub /\ flights' = flights /\ stored' = stored /\ backup' = backup
        /\ pg.doc = page[c].doc \cup got \cup made
        /\ Collab!Seeders(made) \subseteq Collab!Seeders(page[c].doc \cup got)
                                \cup (IF page[c].primary /\ pg.pc = "connected" THEN {c} ELSE {})
    BY <1>1 DEF Local
  <2>2. /\ page'[c] = pg
        /\ \A d \in Clients : d # c => page'[d] = page[d] /\ down'[d] = down[d] /\ up'[d] = up[d]
        /\ Carries(down[c]) = got \cup Carries(down'[c])
        /\ Carries(up'[c]) \subseteq Carries(up[c]) \cup made
        /\ pg.pc = "connecting" <=> page[c].pc = "connecting"
    BY <1>1, LocalSockets
  <2>3. SeedsHub' BY <1>0, <2>1 DEF SeedsHub
  <2>4. got \subseteq hub.doc BY <2>2 DEF Shared
  <2>5. Collab!Seeders(got) \subseteq Collab!Seeders(hub.doc) BY <2>4, SeedersOf
  <2>6. Collab!Seeders(page[c].doc \cup got) = Collab!Seeders(page[c].doc) \cup Collab!Seeders(got) BY SeedersOf
  <2>7. page[c].primary => c \in SeedOf(c) BY DEF Wired, SeedOf
  <2>8. Collab!Seeders(made) \subseteq Collab!Seeders(hub.doc) \cup SeedOf(c)
    BY <1>0, <2>1, <2>5, <2>6, <2>7 DEF SeedsAt
  <2>9. Collab!Seeders(pg.doc) = Collab!Seeders(page[c].doc \cup got) \cup Collab!Seeders(made)
    BY <2>1, SeedersOf
  <2>10. Collab!Seeders(Carries(up'[c])) \subseteq Collab!Seeders(Carries(up[c])) \cup Collab!Seeders(made)
    <3>1. Collab!Seeders(Carries(up'[c])) \subseteq Collab!Seeders(Carries(up[c]) \cup made) BY <2>2, SeedersOf
    <3> QED BY <3>1, SeedersOf
  <2>11. pg.pc = "connecting" => Collab!Seeders(pg.doc) = {}
    <3> SUFFICES ASSUME pg.pc = "connecting" PROVE Collab!Seeders(pg.doc) = {} OBVIOUS
    <3>1. page[c].pc = "connecting" /\ Collab!Seeders(page[c].doc) = {} BY <1>0, <2>2 DEF SeedsAt
    <3>2. down[c] = <<>> BY <3>1 DEF Wired, Alive
    <3>3. got = {} BY <1>1, <3>2 DEF Local
    <3>4. Collab!Seeders(page[c].doc \cup got) = {} BY <3>1, <3>3
    <3> QED BY <2>1, <2>9, <3>1, <3>4
  <2>12. SeedOf(c)' = SeedOf(c) BY <2>1 DEF SeedOf
  <2>13. SeedsAt(c)' BY <1>0, <2>1, <2>2, <2>5, <2>6, <2>8, <2>9, <2>10, <2>11, <2>12 DEF SeedsAt
  <2>14. ASSUME NEW d \in Clients, d # c PROVE SeedsAt(d)'
    BY <1>0, <2>1, <2>2, <2>14, SeedsStay DEF SeedOf
  <2> QED BY <2>3, <2>13, <2>14
<1>2. ASSUME NEW c \in Clients, NEW doc, NEW primary, NEW failed, Joined(c, doc, primary, failed)
      PROVE  SeedsHub' /\ \A d \in Clients : SeedsAt(d)'
  <2>1. /\ hub'.doc = doc /\ page'[c].pc = "open" /\ page'[c].doc = page[c].doc /\ Carries(up'[c]) = page[c].doc
        /\ \A d \in Clients : d # c => page'[d] = page[d] /\ up'[d] = up[d]
        /\ flights' = flights /\ stored' = stored /\ backup' = backup
        /\ hub'.seeder = (IF primary THEN c ELSE hub.seeder)
        /\ primary <=> hub.seeder = NoOne /\ doc = {}
        /\ Collab!Seeders(page[c].doc) = {}
    BY <1>0, <1>2 DEF Joined, Collab!Empty, SeedsAt
  <2>2. hub.loaded => doc = hub.doc BY <1>2 DEF Joined, Collab!Loads
  <2>3. ~hub.loaded => doc \in {stored, backup, {}} /\ hub.doc = {} /\ hub.seeder = NoOne
    BY <1>2, AsleepIsQuiet DEF Joined, Collab!Loads, Collab!Empty
  <2>4. Single(doc) BY <1>0, <1>a, <2>2, <2>3 DEF SeedsHub
  <2>5. hub'.seeder # NoOne => Collab!Seeders(doc) \subseteq {hub'.seeder}
    <3>1. CASE primary BY <2>1, <3>1, SeedersOf
    <3>2. CASE ~primary BY <1>0, <2>1, <2>2, <2>3, <3>2 DEF SeedsHub
    <3> QED BY <3>1, <3>2
  <2>6. SeedsHub' BY <1>0, <2>1, <2>4, <2>5 DEF SeedsHub
  <2>7. SeedsAt(c)' BY <2>1, <1>a DEF SeedsAt
  <2>8. Collab!Seeders(hub.doc) \subseteq Collab!Seeders(hub'.doc) BY <2>1, <2>2, <2>3, <1>a
  <2>9. ASSUME NEW d \in Clients, d # c PROVE SeedsAt(d)'
    <3>1. SeedOf(d) \subseteq SeedOf(d)' BY <2>1 DEF SeedOf, CollabSetting
    <3> QED BY <1>0, <2>1, <2>8, <2>9, <3>1, SeedsStay
  <2> QED BY <2>6, <2>7, <2>9
<1>3. ASSUME NEW c \in Clients, NEW new, Relayed(c, new)
      PROVE  SeedsHub' /\ \A d \in Clients : SeedsAt(d)'
  <2>1. /\ hub'.doc = hub.doc \cup new /\ hub'.seeder = hub.seeder /\ page' = page
        /\ flights' = flights /\ stored' = stored /\ backup' = backup
        /\ new = Carry(Head(up[c])) \ hub.doc
        /\ Carries(up[c]) = Carry(Head(up[c])) \cup Carries(up'[c])
        /\ \A d \in Clients : d # c => up'[d] = up[d]
    BY <1>3 DEF Relayed, Taken
  <2>2. Collab!Seeders(hub'.doc) = Collab!Seeders(hub.doc) \cup Collab!Seeders(new) BY <2>1, SeedersOf
  <2>3. new \subseteq Carries(up[c]) /\ Carries(up'[c]) \subseteq Carries(up[c]) BY <2>1
  <2>4. Collab!Seeders(new) \subseteq Collab!Seeders(hub.doc) \cup SeedOf(c)
    <3>1. Collab!Seeders(new) \subseteq Collab!Seeders(Carries(up[c])) BY <2>3, SeedersOf
    <3> QED BY <1>0, <3>1 DEF SeedsAt
  <2>5. hub.seeder # NoOne => Collab!Seeders(hub'.doc) \subseteq {hub.seeder}
    BY <1>0, <2>2, <2>4 DEF SeedsHub, SeedOf
  <2>6. Single(hub'.doc)
    <3>1. CASE hub.seeder = NoOne
      <4>1. SeedOf(c) = {} BY <3>1 DEF SeedOf, CollabSetting
      <4>2. Collab!Seeders(hub'.doc) = Collab!Seeders(hub.doc) BY <2>2, <2>4, <4>1
      <4> QED BY <1>0, <4>2 DEF SeedsHub, Single
    <3>2. CASE hub.seeder # NoOne BY <2>5, <3>2 DEF Single
    <3> QED BY <3>1, <3>2
  <2>7. SeedsHub' BY <1>0, <2>1, <2>5, <2>6 DEF SeedsHub
  <2>8. ASSUME NEW d \in Clients PROVE SeedsAt(d)'
    <3>1. Carries(up'[d]) \subseteq Carries(up[d]) BY <2>1, <2>3
    <3>2. Collab!Seeders(Carries(up'[d])) \subseteq Collab!Seeders(Carries(up[d])) BY <3>1, SeedersOf
    <3>3. SeedOf(d)' = SeedOf(d) BY <2>1 DEF SeedOf
    <3> QED BY <1>0, <2>1, <2>2, <3>2, <3>3, SeedsStay
  <2> QED BY <2>7, <2>8
<1>4. ASSUME NEW c \in Clients, Left(c)
      PROVE  SeedsHub' /\ \A d \in Clients : SeedsAt(d)'
  <2>1. /\ hub' = hub /\ flights' = flights /\ stored' = stored /\ backup' = backup
        /\ page'[c] = Collab!NoPage /\ Carries(up'[c]) \subseteq Carries(up[c])
        /\ \A d \in Clients : d # c => page'[d] = page[d] /\ up'[d] = up[d]
    BY <1>4 DEF Left
  <2>2. SeedsHub' BY <1>0, <2>1 DEF SeedsHub
  <2>3. Collab!Seeders(Carries(up'[c])) \subseteq Collab!Seeders(Carries(up[c])) BY <2>1, SeedersOf
  <2>4. \A d \in Clients : SeedOf(d)' = SeedOf(d) BY <2>1 DEF SeedOf
  <2>5. SeedsAt(c)' BY <1>0, <1>a, <2>1, <2>3, <2>4 DEF SeedsAt
  <2>6. ASSUME NEW d \in Clients, d # c PROVE SeedsAt(d)' BY <1>0, <2>1, <2>4, <2>6, SeedsStay
  <2> QED BY <2>2, <2>5, <2>6
<1>5. ASSUME NEW c \in Clients, Answered(c)
      PROVE  SeedsHub' /\ \A d \in Clients : SeedsAt(d)'
  <2>1. /\ hub' = hub /\ page' = page /\ flights' = flights /\ stored' = stored /\ backup' = backup
        /\ \A d \in Clients : Carries(up'[d]) = Carries(up[d])
    BY <1>5 DEF Answered, Taken
  <2>2. SeedsHub' BY <1>0, <2>1 DEF SeedsHub
  <2> QED BY <1>0, <2>1, <2>2 DEF SeedsAt, SeedOf
<1>6. ASSUME NEW c \in Clients, Closed(c)
      PROVE  SeedsHub' /\ \A d \in Clients : SeedsAt(d)'
  <2>1. /\ hub'.doc = hub.doc /\ page' = page /\ page[c].pc = "gone" /\ up'[c] = <<>>
        /\ flights' = flights /\ stored' = stored /\ backup' = backup
        /\ hub'.seeder = (IF hub.seeder = c THEN NoOne ELSE hub.seeder)
        /\ \A d \in Clients : d # c => up'[d] = up[d]
    BY <1>6 DEF Closed, Taken
  <2>2. SeedsHub' BY <1>0, <2>1 DEF SeedsHub
  <2>3. page[c] = Collab!NoPage BY <2>1 DEF Wired
  <2>4. SeedsAt(c)' BY <1>a, <2>1, <2>3, EmptyFrames DEF SeedsAt
  <2>5. ASSUME NEW d \in Clients, d # c PROVE SeedsAt(d)'
    <3>1. SeedOf(d) \subseteq SeedOf(d)' BY <2>1, <2>5 DEF SeedOf
    <3> QED BY <1>0, <2>1, <2>5, <3>1, SeedsStay
  <2> QED BY <2>2, <2>4, <2>5
<1>7. ASSUME Persisted
      PROVE  SeedsHub' /\ \A d \in Clients : SeedsAt(d)'
  <2>1. hub'.doc = hub.doc /\ hub'.seeder = hub.seeder /\ page' = page /\ up' = up /\ backup' = backup
    BY <1>7 DEF Persisted
  <2>2. Single(stored') BY <1>0, <1>7 DEF Persisted, SeedsHub
  <2>3. \A i \in DOMAIN flights' : Single(flights'[i])
    <3> TAKE i \in DOMAIN flights'
    <3>1. flights'[i] = hub.doc \/ \E j \in DOMAIN flights : flights'[i] = flights[j]
      BY <1>7 DEF Persisted
    <3> QED BY <1>0, <3>1 DEF SeedsHub
  <2>4. SeedsHub' BY <1>0, <2>1, <2>2, <2>3 DEF SeedsHub
  <2> QED BY <1>0, <2>1, <2>4 DEF SeedsAt, SeedOf
<1>8. ASSUME NEW doc, BackedUp(doc)
      PROVE  SeedsHub' /\ \A d \in Clients : SeedsAt(d)'
  <2>1. hub' = hub /\ page' = page /\ up' = up /\ stored' = stored BY <1>8 DEF BackedUp
  <2>2. Single(backup') BY <1>0, <1>8 DEF BackedUp, SeedsHub
  <2>3. \A i \in DOMAIN flights' : Single(flights'[i])
    <3> TAKE i \in DOMAIN flights'
    <3>1. \E j \in DOMAIN flights : flights'[i] = flights[j] BY <1>8 DEF BackedUp
    <3> QED BY <1>0, <3>1 DEF SeedsHub
  <2>4. SeedsHub' BY <1>0, <2>1, <2>2, <2>3 DEF SeedsHub
  <2> QED BY <1>0, <2>1, <2>4 DEF SeedsAt, SeedOf
<1>9. ASSUME Evicted
      PROVE  SeedsHub' /\ \A d \in Clients : SeedsAt(d)'
  <2>1. /\ hub'.doc = {} /\ hub'.seeder = NoOne /\ flights' = <<>> /\ DOMAIN <<>> = {}
        /\ stored' \in {stored, {}} /\ backup' = backup
    BY <1>9 DEF Evicted, Collab!Asleep, Collab!Empty
  <2>2. SeedsHub' BY <1>0, <1>a, <2>1 DEF SeedsHub
  <2>3. ASSUME NEW d \in Clients PROVE SeedsAt(d)'
    <3>1. up'[d] = <<>> BY <1>9 DEF Evicted
    <3>2. CASE d \in hub.conns
      <4>1. page'[d] = Collab!NoPage BY <1>9, <3>2 DEF Evicted
      <4> QED BY <1>a, <3>1, <4>1, EmptyFrames DEF SeedsAt
    <3>3. CASE d \notin hub.conns
      <4>1. page'[d] = page[d] BY <1>9, <3>3 DEF Evicted
      <4>2. page[d].pc \in {"connecting", "gone"} BY <3>3, TypeOKPage DEF Wired, Alive, Collab!PageState
      <4>3. Collab!Seeders(page[d].doc) = {} BY <1>0, <1>a, <4>2 DEF SeedsAt, Wired
      <4> QED BY <1>a, <3>1, <4>1, <4>3, EmptyFrames DEF SeedsAt
    <3> QED BY <3>2, <3>3
  <2> QED BY <2>2, <2>3
<1> QED BY <1>1, <1>2, <1>3, <1>4, <1>5, <1>6, <1>7, <1>8, <1>9 DEF Kinds

-----------------------------------------------------------------------------
(* The backups.                                                            *)

LEMMA InitBackups == CollabSetting => (Collab!Init => Backups)
BY DEF Collab!Init, Backups, Collab!UnsavedIsScheduled, Collab!Asleep, Collab!Empty

\* Steps that leave the object's document and the backups alone.
LEMMA BackupsStay ==
  ASSUME Backups,
         hub'.doc = hub.doc, hub'.loaded = hub.loaded, hub'.timer = hub.timer,
         UNCHANGED <<flights, stored, backup, overlapped, faults>>
  PROVE  Backups'
BY DEF Backups, Collab!UnsavedIsScheduled

LEMMA StepBackups ==
  ASSUME CollabSetting, Collab!TypeOK, Wired, Backups, Kinds
  PROVE  Backups' /\ Collab!BackupStep
<1> USE DEF Collab!UnsavedIsScheduled
<1>0. hub \in HubState /\ faults \in Nat BY DEF Collab!TypeOK, HubState, CollabSetting
<1>s. ASSUME stored' = stored, backup' = backup PROVE Collab!BackupStep BY <1>s DEF Collab!BackupStep
<1>1. ASSUME NEW c \in Clients, NEW pg, NEW got, NEW made, Local(c, pg, got, made)
      PROVE  Backups' /\ Collab!BackupStep
  BY <1>1, <1>s, BackupsStay DEF Local
<1>2. ASSUME NEW c \in Clients, NEW doc, NEW primary, NEW failed, Joined(c, doc, primary, failed)
      PROVE  Backups' /\ Collab!BackupStep
  <2>1. /\ hub'.loaded /\ hub'.doc = doc /\ hub'.timer = (hub.timer \/ doc # hub.doc)
        /\ (faults' = 0 => faults = 0 /\ ~failed) /\ Collab!Loads(doc, failed)
        /\ UNCHANGED <<flights, stored, backup, overlapped>>
    BY <1>2 DEF Joined
  <2>2. CASE hub.loaded
    <3>1. doc = hub.doc BY <2>1, <2>2 DEF Collab!Loads
    <3>2. hub'.timer <=> hub.timer BY <2>1, <3>1
    <3>3. Backups' BY <2>1, <2>2, <3>1, <3>2 DEF Backups
    <3> QED BY <2>1, <3>3, <1>s
  <2>3. CASE ~hub.loaded
    <3>1. hub.doc = {} BY <2>3, AsleepIsQuiet
    <3>2. faults' = 0 => doc = IF stored # Collab!Empty THEN stored ELSE backup BY <2>1, <2>3 DEF Collab!Loads
    <3>3. ~hub'.timer => doc = {} BY <2>1, <3>1
    <3>4. faults' = 0 => stored \subseteq doc /\ (doc = {} => stored = {})
      BY <3>2 DEF Collab!Empty
    <3>5. faults' = 0 /\ ~overlapped => backup \subseteq doc BY <2>1, <3>2 DEF Backups
    <3>6. Backups' BY <2>1, <3>3, <3>4, <3>5 DEF Backups
    <3> QED BY <2>1, <3>6, <1>s
  <2> QED BY <2>2, <2>3
<1>3. ASSUME NEW c \in Clients, NEW new, Relayed(c, new)
      PROVE  Backups' /\ Collab!BackupStep
  <2>1. /\ hub'.doc = hub.doc \cup new /\ hub'.timer = (hub.timer \/ new # {}) /\ hub'.loaded = hub.loaded
        /\ UNCHANGED <<flights, stored, backup, overlapped, faults>>
    BY <1>3 DEF Relayed
  <2>2. ~hub'.timer => ~hub.timer /\ hub'.doc = hub.doc BY <2>1
  <2>3. Backups' BY <2>1, <2>2 DEF Backups
  <2> QED BY <2>1, <2>3, <1>s
<1>4. ASSUME NEW c \in Clients, Left(c)
      PROVE  Backups' /\ Collab!BackupStep
  BY <1>4, <1>s, BackupsStay DEF Left
<1>5. ASSUME NEW c \in Clients, Answered(c)
      PROVE  Backups' /\ Collab!BackupStep
  BY <1>5, <1>s, BackupsStay DEF Answered
<1>6. ASSUME NEW c \in Clients, Closed(c)
      PROVE  Backups' /\ Collab!BackupStep
  BY <1>6, <1>s, BackupsStay DEF Closed
<1>7. ASSUME Persisted
      PROVE  Backups' /\ Collab!BackupStep
  <2>1. /\ hub.timer /\ ~hub'.timer /\ hub'.doc = hub.doc /\ hub'.loaded = hub.loaded
        /\ backup' = backup /\ overlapped' = (overlapped \/ flights # <<>>)
        /\ Len(flights') = Len(flights) + 1 /\ flights \in Seq(Collab!Doc)
        /\ \A i \in DOMAIN flights' : flights'[i] = hub.doc \/ \E j \in DOMAIN flights : flights'[i] = flights[j]
    BY <1>7 DEF Persisted
  <2>2. hub.loaded BY <2>1 DEF Wired, Collab!Asleep
  <2>3. faults' = 0 => faults = 0 /\ stored' = hub.doc BY <1>7, <1>0 DEF Persisted, CollabSetting
  <2>4. ~overlapped' => ~overlapped /\ Len(flights') <= 1
    <3>1. ~overlapped' => ~overlapped /\ flights = <<>> BY <2>1, Zenon
    <3>2. flights = <<>> => Len(flights) = 0 OBVIOUS
    <3> QED BY <2>1, <3>1, <3>2
  <2>5. ASSUME faults' = 0
        PROVE  \A i \in DOMAIN flights' : flights'[i] \subseteq stored'
    <3> TAKE i \in DOMAIN flights'
    <3>1. faults = 0 /\ stored' = hub.doc /\ stored \subseteq hub.doc BY <2>2, <2>3, <2>5 DEF Backups
    <3> QED BY <2>1, <3>1 DEF Backups
  <2>6. ASSUME faults' = 0, ~overlapped'
        PROVE  backup \subseteq hub.doc /\ \A i \in DOMAIN flights' : backup \subseteq flights'[i]
    <3>1. faults = 0 /\ ~overlapped BY <2>3, <2>4, <2>6
    <3>2. backup \subseteq hub.doc BY <3>1, <2>2 DEF Backups
    <3>3. \A j \in DOMAIN flights : backup \subseteq flights[j] BY <3>1 DEF Backups
    <3> QED BY <2>1, <3>2, <3>3
  <2>7. Backups' BY <2>1, <2>2, <2>3, <2>4, <2>5, <2>6 DEF Backups
  <2>8. faults' = 0 => stored \subseteq stored' BY <2>2, <2>3 DEF Backups
  <2>9. Collab!BackupStep BY <2>1, <2>8 DEF Collab!BackupStep
  <2> QED BY <2>7, <2>9
<1>8. ASSUME NEW doc, BackedUp(doc)
      PROVE  Backups' /\ Collab!BackupStep
  <2>1. /\ UNCHANGED <<hub, stored, overlapped>>
        /\ Len(flights') = Len(flights) - 1 /\ Len(flights) \in Nat /\ flights' \in Seq(Collab!Doc)
        /\ \A j \in DOMAIN flights' : \E k \in DOMAIN flights : flights'[j] = flights[k]
    BY <1>8 DEF BackedUp
  <2>2. PICK i \in DOMAIN flights : doc = flights[i] BY <1>8 DEF BackedUp
  <2>3. faults' = 0 => faults = 0 /\ backup' = doc BY <1>8, <1>0 DEF BackedUp, CollabSetting
  <2>4. faults' = 0 => \A j \in DOMAIN flights' : flights'[j] \subseteq stored BY <2>1, <2>3 DEF Backups
  <2>5. faults' = 0 => doc \subseteq stored BY <2>2, <2>3 DEF Backups
  <2>6. ~overlapped => DOMAIN flights' = {}
    <3>1. ~overlapped => Len(flights') <= 0 BY <2>1 DEF Backups
    <3>2. Len(flights') \in Nat /\ DOMAIN flights' = 1 .. Len(flights') BY <2>1
    <3> QED BY <3>1, <3>2
  <2>7. faults' = 0 /\ hub.loaded => doc \subseteq hub.doc BY <2>3, <2>5 DEF Backups
  <2>8. ~overlapped => Len(flights') <= 1 BY <2>1 DEF Backups
  <2>9. Backups' BY <2>1, <2>3, <2>4, <2>5, <2>6, <2>7, <2>8 DEF Backups
  <2>10. faults' = 0 /\ ~overlapped' => backup \subseteq backup' BY <2>1, <2>2, <2>3 DEF Backups
  <2>11. Collab!BackupStep BY <2>1, <2>10 DEF Collab!BackupStep
  <2> QED BY <2>9, <2>11
<1>9. ASSUME Evicted
      PROVE  Backups' /\ Collab!BackupStep
  <2>1. /\ ~hub'.loaded /\ flights' = <<>> /\ DOMAIN <<>> = {} /\ Len(<<>>) = 0
        /\ stored' \in {stored, Collab!Empty} /\ UNCHANGED <<backup, overlapped, faults>>
    BY <1>9 DEF Evicted, Collab!Asleep
  <2>2. Backups' BY <2>1 DEF Backups
  <2>3. Collab!BackupStep BY <2>1 DEF Collab!BackupStep
  <2> QED BY <2>2, <2>3
<1> QED BY <1>1, <1>2, <1>3, <1>4, <1>5, <1>6, <1>7, <1>8, <1>9 DEF Kinds

-----------------------------------------------------------------------------
(* The theorems.                                                           *)

LEMMA InvInductive ==
  CollabSetting => (Collab!Init => CollabInv) /\ (CollabInv /\ [Collab!Next]_(Collab!vars) => CollabInv' /\ [Collab!BackupStep]_(Collab!vars))
<1> SUFFICES ASSUME CollabSetting PROVE (Collab!Init => CollabInv) /\ (CollabInv /\ [Collab!Next]_(Collab!vars) => CollabInv' /\ [Collab!BackupStep]_(Collab!vars))
  OBVIOUS
<1>1. Collab!Init => CollabInv BY InitTypes, InitWired, InitShared, InitSeeds, InitBackups DEF CollabInv
<1>2. ASSUME CollabInv, Collab!Next PROVE CollabInv' /\ Collab!BackupStep
  <2>1. Collab!TypeOK /\ Wired /\ Shared /\ Seeds /\ Backups /\ Kinds BY <1>2, StepKinds DEF CollabInv
  <2> QED BY <2>1, StepTypes, StepWired, StepShared, StepSeeds, StepBackups DEF CollabInv
<1>3. ASSUME CollabInv, UNCHANGED Collab!vars PROVE CollabInv'
  BY <1>3 DEF CollabInv, Collab!vars, Collab!TypeOK, Wired, Shared, Seeds, Backups, Alive, SeedOf,
         Collab!UnsavedIsScheduled
<1> QED BY <1>1, <1>2, <1>3

\* Seeders are few when they are all one.
LEMMA AtMostOne ==
  ASSUME NEW doc, Single(doc) PROVE Collab!Cardinality(Collab!Seeders(doc)) <= 1
<1> DEFINE S == Collab!Seeders(doc)
<1>1. Collab!Cardinality(S) = Cardinality(S) BY DEF Collab!Cardinality, Cardinality
<1>2. CASE S = {} BY <1>1, <1>2, FS_EmptySet
<1>3. CASE S # {}
  <2>1. PICK x \in S : TRUE BY <1>3
  <2>2. S = {x} BY <2>1 DEF Single
  <2>3. Cardinality({x}) = 1 BY FS_Singleton
  <2> QED BY <1>1, <2>2, <2>3
<1> QED BY <1>2, <1>3

LEMMA InvMeans == CollabSetting /\ CollabInv => Collab!DocumentIsShared
<1> SUFFICES ASSUME CollabSetting, CollabInv PROVE Collab!DocumentIsShared OBVIOUS
<1>1. Collab!OneSeed
  <2>1. Collab!Cardinality(Collab!Seeders(hub.doc)) <= 1 BY AtMostOne DEF CollabInv, Seeds
  <2>2. ASSUME NEW c \in Clients PROVE Single(page[c].doc)
    <3>1. Collab!Seeders(page[c].doc) \subseteq Collab!Seeders(hub.doc) \cup SeedOf(c) BY DEF CollabInv, Seeds
    <3>2. CASE hub.seeder = NoOne
      <4>1. SeedOf(c) = {} BY <3>2 DEF SeedOf, CollabSetting
      <4> QED BY <3>1, <4>1 DEF CollabInv, Seeds, Single
    <3>3. CASE hub.seeder # NoOne BY <3>1, <3>3 DEF CollabInv, Seeds, Single, SeedOf
    <3> QED BY <3>2, <3>3
  <2> QED BY <2>1, <2>2, AtMostOne DEF Collab!OneSeed
<1>2. Collab!Converged
  <2> SUFFICES ASSUME NEW c \in hub.conns, page[c].pc = "connected", down[c] = <<>>, up[c] = <<>>
               PROVE  page[c].doc = hub.doc
    BY DEF Collab!Converged
  <2>1. c \in Clients /\ Alive(c) BY DEF Alive, CollabInv, Collab!TypeOK
  <2> QED BY <2>1, EmptyFrames DEF CollabInv, Shared
<1> QED BY <1>1, <1>2 DEF Collab!DocumentIsShared, CollabInv, Backups

\* The pages, the object and its storage hold one document, seeded once: whatever differs
\* is on its way or waits for the timer, for any number of tabs, edits, failures of the
\* backups and losses of the object (run-doc.ts; useCollabDoc, useSeedCollabDoc).
THEOREM DocumentStaysShared == ASSUME CollabSetting PROVE Collab!Spec => []Collab!DocumentIsShared
<1>1. Collab!Init => CollabInv BY InvInductive
<1>2. CollabInv /\ [Collab!Next]_(Collab!vars) => CollabInv' BY InvInductive
<1>3. CollabInv => Collab!DocumentIsShared BY InvMeans
<1> QED BY <1>1, <1>2, <1>3, PTL DEF Collab!Spec

\* Neither backup loses an operation it had: while no write or load has failed, and for
\* the database, no two persists overlapped (ensureLoaded, persist).
THEOREM BackupsOnlyGrow == ASSUME CollabSetting PROVE Collab!Spec => Collab!BackupsGrow
<1>1. Collab!Init => CollabInv BY InvInductive
<1>2. CollabInv /\ [Collab!Next]_(Collab!vars) => CollabInv' BY InvInductive
<1>3. CollabInv /\ [Collab!Next]_(Collab!vars) => [Collab!BackupStep]_(Collab!vars) BY InvInductive
<1> QED BY <1>1, <1>2, <1>3, PTL DEF Collab!Spec, Collab!BackupsGrow

-----------------------------------------------------------------------------
(***************************************************************************)
(* Part two, RunEditing: the page of the second gate.                      *)
(***************************************************************************)
PageSetting ==
  /\ NoOne \notin Editors /\ NoText \notin Text
  /\ HITL2_SNAPSHOT_KEEP \in Nat \ {0} /\ MaxEdits \in Nat /\ MaxSaves \in Nat
  /\ IsFiniteSet(Editors)

-----------------------------------------------------------------------------
(* The inductive invariant. *)

PageRec == [pc : {"closed", "open", "gone"}, text : Text, saved : Text \cup {NoText},
            hyd : {"check", "seed", "answer", "done"}, found : Text \cup {NoText},
            ai : Text \cup {NoText}, restoring : Text \cup {NoText}]

PageTypes ==
  /\ snaps \in Seq(Row) /\ ed \in [Editors -> PageRec] /\ posts \subseteq Post
  /\ edits \in 0..MaxEdits /\ saves \in 0..MaxSaves
  /\ decided \in Text \cup {NoText}
  /\ acked \subseteq 1..MaxSaves /\ excused \subseteq 0..MaxEdits /\ overlapped \in BOOLEAN

\* A text that the server holds or held: what a page takes for saved is one.
Stored(t) == t = Draft \/ (\E r \in Rows : r.text = t) \/ t \subseteq excused

Pages ==
  \A e \in Editors :
    /\ ed[e].pc = "open" => ed[e].saved # NoText /\ Stored(ed[e].saved)
    /\ ed[e].pc # "open" => ed[e].hyd = "done"
    /\ ed[e].found # NoText => Stored(ed[e].found)
    /\ ed[e].restoring # NoText => Stored(ed[e].restoring)

\* An edit that nothing has lost.
Somewhere(n) ==
  \/ n \in excused
  \/ \E r \in Rows : n \in r.text
  \/ \E e \in Editors : ed[e].pc = "open" /\ n \in ed[e].text
  \/ \E p \in posts : n \in p.text
  \/ decided # NoText /\ n \in decided

\* A save on its way: its page is open, and holds what the server does not; when it has
\* been inserted the server holds it.
Sent ==
  \A p \in posts :
    /\ p.id <= saves
    /\ p.pc = "prune" => Stored(p.text)
    /\ p.by # NoOne => /\ ed[p.by].pc = "open"
                       /\ \A n \in p.text : \/ n = 0 \/ n \in ed[p.by].text \/ n \in excused
                                            \/ \E r \in Rows : n \in r.text

\* The versions: the baselines before all others, each of which is of one save.
InOrder ==
  \A i, j \in DOMAIN snaps :
    /\ i < j /\ snaps[j].id = 0 => snaps[i].id = 0
    /\ i # j /\ snaps[i].id = snaps[j].id => snaps[i].id = 0
Numbered ==
  /\ \A i \in DOMAIN snaps : snaps[i].id <= saves
  /\ \A p, q \in posts : p.id = q.id => p = q
  /\ \A p \in posts : p.pc = "sent" => \A i \in DOMAIN snaps : snaps[i].id # p.id

\* The history holds as many saved versions as it keeps.
Full ==
  /\ Len(snaps) >= HITL2_SNAPSHOT_KEEP
  /\ \A i \in DOMAIN snaps : i > Len(snaps) - HITL2_SNAPSHOT_KEEP => snaps[i].id # 0
Kept(n) == Full \/ \E i \in DOMAIN snaps : snaps[i].id = n
Histories ==
  /\ \A n \in acked : Kept(n)
  /\ \A p \in posts : p.pc = "prune" => Kept(p.id)

\* The baseline.
Seeding(e) == ed[e].hyd = "seed"
Baseline ==
  ~overlapped =>
    /\ \A e, f \in Editors : Seeding(e) /\ Seeding(f) => e = f
    /\ \A e \in Editors : Seeding(e) => \A i \in DOMAIN snaps : snaps[i].id # 0
    /\ \A i, j \in DOMAIN snaps : snaps[i].id = 0 /\ snaps[j].id = 0 => i = j

PageInv == /\ PageTypes /\ Pages /\ Sent /\ InOrder /\ Numbered /\ Histories /\ Baseline
           /\ \A n \in 1..edits : Somewhere(n)

-----------------------------------------------------------------------------
(* Rows, and what a step may do to them. *)

\* A nonempty set of numbers up to a bound has a greatest one.
LEMMA GreatestOf ==
  ASSUME NEW b \in Nat, NEW S \in SUBSET (0 .. b), S # {}
  PROVE  \E n \in S : \A m \in S : m <= n
<1> DEFINE T == {b - i : i \in S}
<1>1. \A i \in S : i \in Nat /\ b - i \in Nat OBVIOUS
<1>2. T \in SUBSET Nat /\ T # {} BY <1>1
<1>3. \E t \in T : \A u \in T : t <= u
  <2>1. PICK t \in T : \A u \in T : ~ (<<u, t>> \in OpToRel(<, Nat))
    BY <1>2, NatLessThanWellFounded, WFMin
  <2>2. ASSUME NEW u \in T PROVE t <= u
    <3>1. u \in Nat /\ t \in Nat BY <1>2
    <3>2. u < t => <<u, t>> \in OpToRel(<, Nat) BY <3>1 DEF OpToRel
    <3>3. ~ (u < t) BY <2>1, <3>2, Zenon
    <3> QED BY <3>1, <3>3
  <2> QED BY <2>2
<1>4. PICK n \in S : \A u \in T : b - n <= u BY <1>3
<1>5. \A m \in S : b - n <= b - m BY <1>4
<1> QED BY <1>1, <1>5

LEMMA RowsAre ==
  /\ \A i \in DOMAIN snaps : snaps[i] \in Rows
  /\ \A r \in Rows : \E i \in DOMAIN snaps : r = snaps[i]
BY DEF Rows, Range

\* The last rows that the prune leaves, and those that it cuts.
Cut == IF Len(snaps) > HITL2_SNAPSHOT_KEEP THEN Len(snaps) - HITL2_SNAPSHOT_KEEP ELSE 0

LEMMA PrunedIs ==
  ASSUME PageSetting, PageTypes, snaps' = SubSeq(snaps, Cut + 1, Len(snaps))
  PROVE  /\ Cut \in Nat /\ Cut <= Len(snaps)
         /\ snaps' \in Seq(Row) /\ Len(snaps') = Len(snaps) - Cut
         /\ \A i \in DOMAIN snaps' : i + Cut \in DOMAIN snaps /\ snaps'[i] = snaps[i + Cut]
         /\ \A i \in DOMAIN snaps : i > Cut => i - Cut \in DOMAIN snaps' /\ snaps'[i - Cut] = snaps[i]
<1>1. Len(snaps) \in Nat /\ DOMAIN snaps = 1..Len(snaps) /\ HITL2_SNAPSHOT_KEEP \in Nat \ {0}
  BY DEF PageSetting, PageTypes
<1>2. Cut \in Nat /\ Cut <= Len(snaps) BY <1>1 DEF Cut
<1>3. CASE Cut + 1 <= Len(snaps)
  <2>1. snaps' \in Seq(Row) /\ Len(snaps') = Len(snaps) - Cut
        /\ \A i \in 1..(Len(snaps) - Cut) : snaps'[i] = snaps[i + Cut]
    BY <1>1, <1>2, <1>3, SubSeqProperties DEF PageTypes
  <2>2. DOMAIN snaps' = 1..(Len(snaps) - Cut) BY <2>1
  <2>3. \A i \in DOMAIN snaps : i > Cut => i - Cut \in 1..(Len(snaps) - Cut) /\ (i - Cut) + Cut = i
    BY <1>1, <1>2
  <2>4. \A i \in 1..(Len(snaps) - Cut) : i + Cut \in DOMAIN snaps BY <1>1, <1>2
  <2> QED BY <1>2, <2>1, <2>2, <2>3, <2>4
<1>4. CASE Cut = Len(snaps)
  <2>1. snaps' = << >> BY <1>1, <1>4
  <2> QED BY <1>1, <1>2, <1>4, <2>1
<1>5. Cut + 1 <= Len(snaps) \/ Cut = Len(snaps)
  <2> DEFINE c == Cut  n == Len(snaps)
  <2>1. c \in Nat /\ n \in Nat /\ c <= n BY <1>1, <1>2
  <2> HIDE DEF c, n
  <2>2. c + 1 <= n \/ c = n BY <2>1
  <2> QED BY <2>2 DEF c, n
<1> QED BY <1>3, <1>4, <1>5

LEMMA AppendedIs ==
  ASSUME PageTypes, NEW r \in Row, snaps' = Append(snaps, r)
  PROVE  /\ snaps' \in Seq(Row) /\ Len(snaps) \in Nat /\ Len(snaps') = Len(snaps) + 1
         /\ DOMAIN snaps = 1..Len(snaps) /\ DOMAIN snaps' = 1..(Len(snaps) + 1)
         /\ \A i \in DOMAIN snaps : snaps'[i] = snaps[i]
         /\ snaps'[Len(snaps) + 1] = r
BY DEF PageTypes

LEMMA SeededIs ==
  ASSUME PageTypes, NEW r \in Row, snaps' = << r >> \o snaps
  PROVE  /\ snaps' \in Seq(Row) /\ Len(snaps) \in Nat /\ Len(snaps') = Len(snaps) + 1
         /\ DOMAIN snaps = 1..Len(snaps) /\ DOMAIN snaps' = 1..(Len(snaps) + 1)
         /\ snaps'[1] = r
         /\ \A i \in DOMAIN snaps : snaps'[i + 1] = snaps[i]
<1>1. snaps \in Seq(Row) /\ << r >> \in Seq(Row) /\ Len(<< r >>) = 1 BY DEF PageTypes
<1>2. /\ snaps' \in Seq(Row) /\ Len(snaps') = 1 + Len(snaps)
      /\ \A i \in 1..(1 + Len(snaps)) :
           snaps'[i] = IF i <= 1 THEN << r >>[i] ELSE snaps[i - 1]
  BY <1>1
<1>3. Len(snaps) \in Nat /\ DOMAIN snaps = 1..Len(snaps) BY <1>1
<1>4. \A i \in DOMAIN snaps : snaps'[i + 1] = snaps[i]
  <2> TAKE i \in DOMAIN snaps
  <2>1. i + 1 \in 1..(1 + Len(snaps)) /\ ~(i + 1 <= 1) /\ (i + 1) - 1 = i BY <1>3
  <2> QED BY <1>2, <2>1
<1> QED BY <1>2, <1>3, <1>4

-----------------------------------------------------------------------------
(* What the server held it holds, or its loss is on record. *)

Keeps ==
  /\ excused \subseteq excused'
  /\ \A r \in Rows : (\E q \in Rows' : q.text = r.text) \/ r.text \subseteq excused'

LEMMA KeepsStored ==
  ASSUME Keeps, NEW t, Stored(t)
  PROVE  Stored(t)'
BY DEF Keeps, Stored, Draft

LEMMA SaveAnsweredKeeps ==
  ASSUME PageSetting, PageTypes, NEW p \in posts, SaveAnswered(p)
  PROVE  Keeps /\ snaps' = SubSeq(snaps, Cut + 1, Len(snaps))
<1> DEFINE pruned == UNION {snaps[i].text : i \in 1..Cut}
<1>1. snaps' = SubSeq(snaps, Cut + 1, Len(snaps)) BY DEF SaveAnswered, Cut
<1>2. excused \cup pruned \subseteq excused'
  BY DEF SaveAnswered, Settled, Cut
<1> HIDE DEF pruned
<1>3. ASSUME NEW r \in Rows
      PROVE  (\E q \in Rows' : q.text = r.text) \/ r.text \subseteq excused'
  <2>1. PICK i \in DOMAIN snaps : r = snaps[i] BY RowsAre
  <2>2. Cut \in Nat /\ i \in Nat /\ i >= 1 BY <1>1, PrunedIs DEF PageTypes
  <2>3. CASE i > Cut
    <3>1. i - Cut \in DOMAIN snaps' /\ snaps'[i - Cut] = snaps[i] BY <1>1, <2>3, PrunedIs
    <3>2. snaps[i] \in Rows' BY <3>1 DEF Rows, Range
    <3> QED BY <2>1, <3>2
  <2>4. CASE i <= Cut
    <3>1. i \in 1..Cut BY <2>2, <2>4
    <3>2. r.text \subseteq pruned BY <2>1, <3>1 DEF pruned
    <3> QED BY <1>2, <3>2
  <2> QED BY <2>2, <2>3, <2>4
<1> QED BY <1>1, <1>2, <1>3 DEF Keeps

LEMMA SameKeeps ==
  ASSUME snaps' = snaps, excused \subseteq excused'
  PROVE  Keeps
BY DEF Keeps, Rows

LEMMA RowTypes ==
  /\ PageTypes => \A i \in DOMAIN snaps : snaps[i].id \in Nat /\ snaps[i].text \in Text
  /\ MaxEdits \in Nat /\ MaxSaves \in Nat => [id |-> Generated, text |-> Draft] \in Row
  /\ \A p \in Post : MaxSaves \in Nat => [id |-> p.id, text |-> p.text] \in Row
<1>1. ASSUME MaxEdits \in Nat, MaxSaves \in Nat
      PROVE  [id |-> Generated, text |-> Draft] \in Row
  <2>1. {0} \in SUBSET (0..MaxEdits) /\ 0 \in 0..MaxSaves BY <1>1
  <2> QED BY <2>1 DEF Row, Generated, Draft, Text
<1>2. ASSUME PageTypes, NEW i \in DOMAIN snaps
      PROVE  snaps[i].id \in Nat /\ snaps[i].text \in Text
  <2>1. snaps[i] \in Row BY <1>2 DEF PageTypes
  <2> QED BY <2>1 DEF Row
<1>3. ASSUME NEW p \in Post, MaxSaves \in Nat
      PROVE  [id |-> p.id, text |-> p.text] \in Row
  BY <1>3 DEF Row, Post
<1> QED BY <1>1, <1>2, <1>3

LEMMA PageKeeps ==
  ASSUME PageSetting, PageTypes, Next
  PROVE  Keeps
<1>1. ASSUME NEW e \in Editors, BaselineSeed(e) PROVE Keeps
  <2>1. [id |-> Generated, text |-> Draft] \in Row BY RowTypes DEF PageSetting
  <2>2. snaps' = << [id |-> Generated, text |-> Draft] >> \o snaps /\ excused' = excused
    BY <1>1 DEF BaselineSeed
  <2>3. \A i \in DOMAIN snaps : i + 1 \in DOMAIN snaps' /\ snaps'[i + 1] = snaps[i]
    BY <2>1, <2>2, SeededIs
  <2> QED BY <2>2, <2>3 DEF Keeps, Rows, Range
<1>2. ASSUME NEW p \in posts, InsertSnapshot(p) PROVE Keeps
  <2>1. [id |-> p.id, text |-> p.text] \in Row BY RowTypes DEF PageSetting, PageTypes
  <2>2. snaps' = Append(snaps, [id |-> p.id, text |-> p.text]) /\ excused' = excused
    BY <1>2 DEF InsertSnapshot
  <2>3. \A i \in DOMAIN snaps : i \in DOMAIN snaps' /\ snaps'[i] = snaps[i]
    BY <2>1, <2>2, AppendedIs
  <2> QED BY <2>2, <2>3 DEF Keeps, Rows, Range
<1>3. ASSUME NEW p \in posts, SaveAnswered(p) PROVE Keeps BY <1>3, SaveAnsweredKeeps
<1>4. ASSUME NEW p \in posts, SaveFails(p) PROVE Keeps
  BY <1>4, SameKeeps DEF SaveFails, Settled
<1>5. ASSUME NEW e \in Editors,
             \/ Open(e) \/ BaselineCheck(e) \/ Hydrate(e) \/ Type(e)
             \/ RequestEdit(e) \/ EditApplied(e) \/ EditFails(e) \/ Save(e)
             \/ Restore(e) \/ Leave(e) \/ Teardown(e) \/ Decide(e)
      PROVE  Keeps
  BY <1>5, SameKeeps DEF Open, BaselineCheck, Hydrate, Type, RequestEdit,
     EditApplied, EditFails, Save, Restore, Leave, Teardown, Decide
<1> QED BY <1>1, <1>2, <1>3, <1>4, <1>5 DEF Next

-----------------------------------------------------------------------------
(* Types. *)

LEMMA AwayIs ==
  ASSUME PageSetting
  PROVE  /\ Away \in PageRec /\ Draft \in Text
         /\ Away.hyd = "done" /\ Away.found = NoText /\ Away.restoring = NoText
<1>1. 0 \in 0..MaxEdits BY DEF PageSetting
<1> QED BY <1>1 DEF Away, PageRec, Draft, Text

LEMMA SendIs ==
  ASSUME PageSetting, PageTypes, NEW e \in Editors, NEW t \in Text, NEW exit \in BOOLEAN,
         Send(e, t, exit)
  PROVE  /\ saves' = saves + 1 /\ saves' \in 0..MaxSaves /\ posts' \subseteq Post
         /\ \A q \in posts' :
              \/ q = [id |-> saves + 1, by |-> IF exit THEN NoOne ELSE e, text |-> t, pc |-> "sent"]
              \/ \E p \in posts : q = [p EXCEPT !.by = IF exit /\ p.by = e THEN NoOne ELSE p.by]
         /\ \A p \in posts : \E q \in posts' : q.text = p.text
         /\ \E q \in posts' : q.text = t
<1> DEFINE new == [id |-> saves + 1, by |-> IF exit THEN NoOne ELSE e, text |-> t, pc |-> "sent"]
           from(p) == [p EXCEPT !.by = IF exit /\ p.by = e THEN NoOne ELSE p.by]
<1>1. saves' = saves + 1 /\ saves' \in 0..MaxSaves /\ saves + 1 \in 1..MaxSaves
  BY DEF Send, PageTypes, PageSetting
<1>2. posts' = {from(p) : p \in posts} \cup {new} BY DEF Send
<1>3. new \in Post BY <1>1 DEF Post
<1>4. ASSUME NEW p \in posts PROVE from(p) \in Post /\ from(p).text = p.text
  <2>1. p \in Post BY DEF PageTypes
  <2> QED BY <2>1 DEF Post
<1>5. new.text = t OBVIOUS
<1> HIDE DEF new, from
<1>6. posts' \subseteq Post BY <1>2, <1>3, <1>4
<1>7. \A q \in posts' : q = new \/ \E p \in posts : q = from(p) BY <1>2
<1>8. \A p \in posts : \E q \in posts' : q.text = p.text BY <1>2, <1>4
<1>9. \E q \in posts' : q.text = t BY <1>2, <1>5
<1> QED BY <1>1, <1>6, <1>7, <1>8, <1>9 DEF new, from

LEMMA SendStays ==
  ASSUME PageSetting, PageTypes, NEW e \in Editors, NEW t \in Text, Send(e, t, FALSE)
  PROVE  /\ saves' = saves + 1
         /\ \A q \in posts' :
              \/ q = [id |-> saves + 1, by |-> e, text |-> t, pc |-> "sent"]
              \/ \E p \in posts : q = [p EXCEPT !.by = p.by]
         /\ \A p \in posts : \E q \in posts' : q.text = p.text
<1>1. PICK exit \in BOOLEAN : exit = FALSE OBVIOUS
<1>2. Send(e, t, exit) BY <1>1
<1>3. /\ saves' = saves + 1
      /\ \A q \in posts' :
           \/ q = [id |-> saves + 1, by |-> IF exit THEN NoOne ELSE e, text |-> t, pc |-> "sent"]
           \/ \E p \in posts : q = [p EXCEPT !.by = IF exit /\ p.by = e THEN NoOne ELSE p.by]
      /\ \A p \in posts : \E q \in posts' : q.text = p.text
      /\ \E q \in posts' : q.text = t
  BY <1>2, SendIs
<1>4. (IF exit THEN NoOne ELSE e) = e BY <1>1
<1>5. \A p : [p EXCEPT !.by = IF exit /\ p.by = e THEN NoOne ELSE p.by] = [p EXCEPT !.by = p.by]
  BY <1>1
<1> QED BY <1>3, <1>4, <1>5

LEMMA SendLeaves ==
  ASSUME PageSetting, PageTypes, NEW e \in Editors, NEW t \in Text, Send(e, t, TRUE)
  PROVE  /\ saves' = saves + 1
         /\ \A q \in posts' :
              \/ q = [id |-> saves + 1, by |-> NoOne, text |-> t, pc |-> "sent"]
              \/ \E p \in posts : q = [p EXCEPT !.by = IF p.by = e THEN NoOne ELSE p.by]
         /\ \A p \in posts : \E q \in posts' : q.text = p.text
         /\ \E q \in posts' : q.text = t
<1>1. PICK exit \in BOOLEAN : exit = TRUE OBVIOUS
<1>2. Send(e, t, exit) BY <1>1
<1>3. /\ saves' = saves + 1
      /\ \A q \in posts' :
           \/ q = [id |-> saves + 1, by |-> IF exit THEN NoOne ELSE e, text |-> t, pc |-> "sent"]
           \/ \E p \in posts : q = [p EXCEPT !.by = IF exit /\ p.by = e THEN NoOne ELSE p.by]
      /\ \A p \in posts : \E q \in posts' : q.text = p.text
      /\ \E q \in posts' : q.text = t
  BY <1>2, SendIs
<1>4. (IF exit THEN NoOne ELSE e) = NoOne BY <1>1
<1>5. \A p : [p EXCEPT !.by = IF exit /\ p.by = e THEN NoOne ELSE p.by] = [p EXCEPT !.by = IF p.by = e THEN NoOne ELSE p.by]
  BY <1>1
<1> QED BY <1>3, <1>4, <1>5

LEMMA ForgottenIs ==
  ASSUME PageSetting, PageTypes, NEW e \in Editors, posts' = Forgotten(e)
  PROVE  /\ posts' \subseteq Post
         /\ \A q \in posts' : \E p \in posts : q = [p EXCEPT !.by = IF p.by = e THEN NoOne ELSE p.by]
         /\ \A p \in posts : \E q \in posts' : q.text = p.text
<1> DEFINE from(p) == [p EXCEPT !.by = IF p.by = e THEN NoOne ELSE p.by]
<1>1. posts' = {from(p) : p \in posts} BY DEF Forgotten
<1>2. ASSUME NEW p \in posts PROVE from(p) \in Post /\ from(p).text = p.text
  <2>1. p \in Post BY DEF PageTypes
  <2> QED BY <2>1 DEF Post
<1> HIDE DEF from
<1>3. posts' \subseteq Post BY <1>1, <1>2
<1>4. \A q \in posts' : \E p \in posts : q = from(p) BY <1>1
<1>5. \A p \in posts : \E q \in posts' : q.text = p.text BY <1>1, <1>2
<1> QED BY <1>3, <1>4, <1>5 DEF from

LEMMA ResumedIs ==
  ASSUME PageSetting, NEW rows \in Seq(Row)
  PROVE  \/ Resumed(rows) = NoText
         \/ \E i \in DOMAIN rows : Resumed(rows) = rows[i].text
<1> DEFINE listed == {i \in DOMAIN rows : i > Len(rows) - HITL2_SNAPSHOT_KEEP /\ rows[i].text # Blank}
<1>1. CASE listed = {} BY <1>1 DEF Resumed
<1>2. CASE listed # {}
  <2>1. Len(rows) \in Nat /\ listed \in SUBSET (0..Len(rows)) OBVIOUS
  <2> HIDE DEF listed
  <2>2. PICK n \in listed : \A m \in listed : m <= n BY <1>2, <2>1, GreatestOf
  <2>3. \A m \in listed : n >= m BY <2>1, <2>2
  <2>4. Max(listed) \in listed BY <2>2, <2>3 DEF Max
  <2>5. Resumed(rows) = rows[Max(listed)].text BY <1>2 DEF Resumed, listed
  <2>6. Max(listed) \in DOMAIN rows BY <2>4 DEF listed
  <2> QED BY <2>5, <2>6
<1> QED BY <1>1, <1>2

\* What a page is once its save has an answer.
LEMMA SettledTypes ==
  ASSUME PageSetting, PageTypes, NEW e \in Editors, NEW t \in Text \cup {NoText}, NEW kept,
         NEW gone \in SUBSET (0..MaxEdits), Settled(e, t, kept, gone)
  PROVE  ed' \in [Editors -> PageRec] /\ excused' \subseteq 0..MaxEdits
<1> DEFINE after == IF ed[e].restoring = NoText THEN ed[e].text ELSE ed[e].restoring
<1>1. ed[e] \in PageRec BY DEF PageTypes
<1>2. after \in Text /\ ed[e].text \in Text BY <1>1 DEF PageRec
<1>3. ed' = [ed EXCEPT ![e].saved = t, ![e].text = after, ![e].restoring = NoText]
      /\ excused' = excused \cup gone \cup (ed[e].text \ (after \cup kept))
  BY DEF Settled
<1> HIDE DEF after
<1>4. [ed[e] EXCEPT !.saved = t, !.text = after, !.restoring = NoText] \in PageRec
  BY <1>1, <1>2 DEF PageRec
<1>5. ed' \in [Editors -> PageRec] BY <1>3, <1>4 DEF PageTypes
<1>6. excused' \subseteq 0..MaxEdits BY <1>2, <1>3 DEF PageTypes, Text
<1> QED BY <1>5, <1>6

LEMMA PageTypesStep ==
  ASSUME PageSetting, PageTypes, [Next]_(vars)
  PROVE  PageTypes'
<1> USE DEF PageTypes
<1>1. ASSUME NEW e \in Editors, Open(e) PROVE PageTypes'
  <2>1. [Away EXCEPT !.pc = "open", !.saved = Draft, !.hyd = "check"] \in PageRec
    BY AwayIs DEF PageRec
  <2> QED BY <1>1, <2>1 DEF Open
<1>2. ASSUME NEW e \in Editors, BaselineCheck(e) PROVE PageTypes'
  <2>1. Resumed(snaps) \in Text \cup {NoText} BY ResumedIs, RowTypes
  <2>2. [ed[e] EXCEPT !.hyd = "answer", !.found = Resumed(snaps)] \in PageRec
        /\ [ed[e] EXCEPT !.hyd = "seed"] \in PageRec
    BY <2>1 DEF PageRec
  <2>3. ed' \in [Editors -> PageRec] BY <1>2, <2>2 DEF BaselineCheck
  <2>4. overlapped' \in BOOLEAN BY <1>2 DEF BaselineCheck
  <2>5. UNCHANGED <<snaps, posts, edits, saves, decided, acked, excused>>
    BY <1>2 DEF BaselineCheck
  <2> QED BY <2>3, <2>4, <2>5
<1>3. ASSUME NEW e \in Editors, BaselineSeed(e) PROVE PageTypes'
  <2>1. snaps' \in Seq(Row) BY <1>3, RowTypes, SeededIs DEF BaselineSeed, PageSetting
  <2>2. Resumed(snaps') \in Text \cup {NoText}
    <3>1. \A i \in DOMAIN snaps' : snaps'[i] \in Row BY <2>1
    <3>2. \A r \in Row : r.text \in Text BY DEF Row
    <3> QED BY <2>1, <3>1, <3>2, ResumedIs
  <2>3. [ed[e] EXCEPT !.hyd = "answer", !.found = Resumed(snaps')] \in PageRec
    BY <2>2 DEF PageRec
  <2>4. ed' \in [Editors -> PageRec] BY <1>3, <2>3 DEF BaselineSeed
  <2> QED BY <1>3, <2>1, <2>4 DEF BaselineSeed
<1>4. ASSUME NEW e \in Editors, Hydrate(e) PROVE PageTypes'
  <2>1. ed[e] \in PageRec OBVIOUS
  <2>2. CASE ed[e].found = NoText
    <3>1. [ed[e] EXCEPT !.hyd = "done"] \in PageRec BY <2>1 DEF PageRec
    <3> QED BY <1>4, <2>2, <3>1 DEF Hydrate
  <2>3. CASE ed[e].found # NoText
    <3>1. ed[e].found \in Text /\ ed[e].text \in Text BY <2>1, <2>3 DEF PageRec
    <3>2. [ed[e] EXCEPT !.hyd = "done", !.text = ed[e].found, !.saved = ed[e].found, !.found = NoText]
            \in PageRec
      BY <2>1, <3>1 DEF PageRec
    <3>3. excused' \subseteq 0..MaxEdits BY <1>4, <2>3, <3>1 DEF Hydrate, Text
    <3> QED BY <1>4, <2>3, <3>2, <3>3 DEF Hydrate
  <2> QED BY <2>2, <2>3
<1>5. ASSUME NEW e \in Editors, Type(e) PROVE PageTypes'
  <2>1. edits + 1 \in 0..MaxEdits BY <1>5 DEF Type, PageSetting
  <2>2. [ed[e] EXCEPT !.text = @ \cup {edits + 1}] \in PageRec BY <2>1, ZenonT(40) DEF PageRec, Text
  <2> QED BY <1>5, <2>1, <2>2 DEF Type
<1>6. ASSUME NEW e \in Editors, RequestEdit(e) PROVE PageTypes'
  <2>1. [ed[e] EXCEPT !.ai = ed[e].text] \in PageRec BY DEF PageRec
  <2> QED BY <1>6, <2>1 DEF RequestEdit
<1>7. ASSUME NEW e \in Editors, EditApplied(e) PROVE PageTypes'
  <2>1. edits + 1 \in 0..MaxEdits BY <1>7 DEF EditApplied, PageSetting
  <2>2. ed[e].ai \in Text /\ ed[e].text \in Text BY <1>7 DEF EditApplied, PageRec
  <2>3. [ed[e] EXCEPT !.text = ed[e].ai \cup {edits + 1}, !.ai = NoText] \in PageRec
    BY <2>1, <2>2, ZenonT(40) DEF PageRec, Text
  <2>4. excused' \subseteq 0..MaxEdits BY <1>7, <2>2 DEF EditApplied, Text
  <2> QED BY <1>7, <2>1, <2>3, <2>4 DEF EditApplied
<1>8. ASSUME NEW e \in Editors, EditFails(e) PROVE PageTypes'
  <2>1. [ed[e] EXCEPT !.ai = NoText] \in PageRec BY DEF PageRec
  <2> QED BY <1>8, <2>1 DEF EditFails
<1>9. ASSUME NEW e \in Editors, Save(e) PROVE PageTypes'
  <2>1. ed[e].text \in Text BY DEF PageRec
  <2> QED BY <1>9, <2>1, SendIs DEF Save
<1>10. ASSUME NEW e \in Editors, Restore(e) PROVE PageTypes'
  <2>1. ed[e].text \in Text BY DEF PageRec
  <2>2. PICK r \in Rows :
          IF Dirty(e)
          THEN /\ ed' = [ed EXCEPT ![e].restoring = r.text]
               /\ Send(e, ed[e].text, FALSE)
          ELSE /\ ed' = [ed EXCEPT ![e].text = r.text]
               /\ UNCHANGED <<posts, saves>>
    BY <1>10 DEF Restore
  <2>3. r.text \in Text BY RowsAre, RowTypes
  <2>4. [ed[e] EXCEPT !.restoring = r.text] \in PageRec /\ [ed[e] EXCEPT !.text = r.text] \in PageRec
    BY <2>3 DEF PageRec
  <2>5. ed' \in [Editors -> PageRec] BY <2>2, <2>4
  <2>6. posts' \subseteq Post /\ saves' \in 0..MaxSaves BY <2>1, <2>2, SendIs
  <2> QED BY <1>10, <2>5, <2>6 DEF Restore
<1>11. ASSUME NEW e \in Editors, Leave(e) \/ Teardown(e) \/ Decide(e) PROVE PageTypes'
  <2>1. ed[e].text \in Text BY DEF PageRec
  <2>2. [Away EXCEPT !.pc = "gone"] \in PageRec BY AwayIs DEF PageRec
  <2>3. ed' = [ed EXCEPT ![e] = [Away EXCEPT !.pc = "gone"]]
    BY <1>11 DEF Leave, Teardown, Decide, Gone
  <2>4. \/ Send(e, ed[e].text, TRUE)
        \/ posts' = Forgotten(e) /\ saves' = saves
    <3>1. CASE Leave(e)
      <4>1. CASE Dirty(e) BY <3>1, <4>1 DEF Leave
      <4>2. CASE ~Dirty(e) BY <3>1, <4>2 DEF Leave
      <4> QED BY <4>1, <4>2
    <3>2. CASE Teardown(e) BY <3>2 DEF Teardown
    <3>3. CASE Decide(e) BY <3>3 DEF Decide
    <3> QED BY <1>11, <3>1, <3>2, <3>3
  <2>5. posts' \subseteq Post /\ saves' \in 0..MaxSaves BY <2>1, <2>4, SendIs, ForgottenIs
  <2>6. decided' \in Text \cup {NoText} /\ excused' \subseteq 0..MaxEdits
    BY <1>11, <2>1 DEF Leave, Teardown, Decide, Text
  <2>7. UNCHANGED <<snaps, edits, acked, overlapped>>
    BY <1>11 DEF Leave, Teardown, Decide
  <2> QED BY <2>2, <2>3, <2>5, <2>6, <2>7
<1>12. ASSUME NEW p \in posts, InsertSnapshot(p) PROVE PageTypes'
  <2>1. p \in Post OBVIOUS
  <2>2. snaps' \in Seq(Row) BY <1>12, <2>1, RowTypes, AppendedIs DEF InsertSnapshot, PageSetting
  <2>3. [p EXCEPT !.pc = "prune"] \in Post BY <2>1 DEF Post
  <2> QED BY <1>12, <2>2, <2>3 DEF InsertSnapshot
<1>13. ASSUME NEW p \in posts, SaveAnswered(p) PROVE PageTypes'
  <2>1. p \in Post OBVIOUS
  <2>2. p.text \in Text /\ p.id \in 1..MaxSaves BY <2>1 DEF Post
  <2>3. snaps' \in Seq(Row) BY <1>13, SaveAnsweredKeeps, PrunedIs
  <2> DEFINE pruned == UNION {snaps[i].text : i \in 1..Cut}
  <2>4. pruned \subseteq 0..MaxEdits
    <3>1. Cut \in Nat /\ Cut <= Len(snaps) BY <1>13, SaveAnsweredKeeps, PrunedIs
    <3>2. \A i \in 1..Cut : i \in DOMAIN snaps BY <3>1
    <3>3. \A i \in DOMAIN snaps : snaps[i].text \subseteq 0..MaxEdits BY RowTypes DEF Text
    <3> QED BY <3>2, <3>3
  <2>5. CASE p.by = NoOne
    <3>1. ed' = ed /\ excused' = excused \cup pruned BY <1>13, <2>5 DEF SaveAnswered, Cut
    <3> QED BY <1>13, <2>2, <2>3, <2>4, <3>1 DEF SaveAnswered
  <2>6. CASE p.by # NoOne
    <3>1. p.by \in Editors BY <2>1, <2>6 DEF Post
    <3>2. Settled(p.by, p.text, p.text, pruned) BY <1>13, <2>6 DEF SaveAnswered, Cut
    <3> HIDE DEF pruned
    <3>3. ed' \in [Editors -> PageRec] /\ excused' \subseteq 0..MaxEdits
      BY <2>2, <2>4, <3>1, <3>2, SettledTypes
    <3> QED BY <1>13, <2>2, <2>3, <3>3 DEF SaveAnswered
  <2> QED BY <2>5, <2>6
<1>14. ASSUME NEW p \in posts, SaveFails(p) PROVE PageTypes'
  <2>1. p \in Post OBVIOUS
  <2>2. p.text \in Text BY <2>1 DEF Post
  <2>5. CASE p.by = NoOne
    <3>1. ed' = ed /\ excused' \subseteq excused \cup p.text BY <1>14, <2>5 DEF SaveFails
    <3>2. excused' \subseteq 0..MaxEdits BY <2>2, <3>1 DEF Text
    <3> QED BY <1>14, <3>1, <3>2 DEF SaveFails
  <2>6. CASE p.by # NoOne
    <3>1. p.by \in Editors BY <2>1, <2>6 DEF Post
    <3>2. Settled(p.by, ed[p.by].saved, {}, {}) BY <1>14, <2>6 DEF SaveFails
    <3>3. ed[p.by].saved \in Text \cup {NoText} BY <3>1 DEF PageRec
    <3>4. ed' \in [Editors -> PageRec] /\ excused' \subseteq 0..MaxEdits
      BY <3>1, <3>2, <3>3, SettledTypes
    <3> QED BY <1>14, <3>4 DEF SaveFails
  <2> QED BY <2>5, <2>6
<1>15. CASE UNCHANGED vars BY <1>15 DEF vars
<1> QED
  BY <1>1, <1>2, <1>3, <1>4, <1>5, <1>6, <1>7, <1>8, <1>9, <1>10, <1>11, <1>12, <1>13, <1>14, <1>15
  DEF Next

-----------------------------------------------------------------------------
(* What a page takes for stored is stored. *)

LEMMA ResumedIsStored ==
  ASSUME PageSetting, snaps \in Seq(Row), Resumed(snaps) # NoText
  PROVE  Stored(Resumed(snaps))
<1>1. PICK i \in DOMAIN snaps : Resumed(snaps) = snaps[i].text BY ResumedIs
<1> QED BY <1>1, RowsAre DEF Stored

LEMMA PagesStep ==
  ASSUME PageSetting, PageTypes, Pages, \A p \in posts : p.pc = "prune" => Stored(p.text),
         [Next]_(vars)
  PROVE  Pages'
<1> DEFINE Fine(e) == /\ ed[e].pc = "open" => ed[e].saved # NoText /\ Stored(ed[e].saved)
                      /\ ed[e].pc # "open" => ed[e].hyd = "done"
                      /\ ed[e].found # NoText => Stored(ed[e].found)
                      /\ ed[e].restoring # NoText => Stored(ed[e].restoring)
<1> USE DEF PageTypes
<1>0. \A e \in Editors : Fine(e) BY DEF Pages
<1>1. CASE UNCHANGED vars
  BY <1>1 DEF vars, Pages, Stored, Rows
<1>2. ASSUME Next PROVE Pages'
  <2>1. \A t : Stored(t) => Stored(t)' BY <1>2, PageKeeps, KeepsStored
  <2>2. ASSUME NEW e \in Editors, ed'[e] = ed[e] PROVE Fine(e)'
    BY <1>0, <2>1, <2>2
  <2>3. \A e \in Editors : ed[e] \in PageRec OBVIOUS
  <2>4. ed' \in [Editors -> PageRec] BY <1>2, PageTypesStep
  <2>5. ASSUME NEW e \in Editors, NEW new, ed' = [ed EXCEPT ![e] = new], Fine(e)' PROVE Pages'
    <3>1. ASSUME NEW f \in Editors PROVE Fine(f)'
      <4>1. CASE f = e BY <2>5, <4>1
      <4>2. CASE f # e BY <2>2, <2>5, <4>2
      <4> QED BY <4>1, <4>2
    <3> QED BY <3>1 DEF Pages
  <2>6. Stored(Draft)' BY DEF Stored
  <2> HIDE DEF Fine
  <2>7. ASSUME ed' = ed PROVE Pages'
    <3>1. \A f \in Editors : Fine(f)' BY <2>2, <2>7
    <3> QED BY <3>1 DEF Pages, Fine
  <2>10. ASSUME NEW e \in Editors, Open(e) PROVE Pages'
    <3>1. Away.found = NoText /\ Away.restoring = NoText BY AwayIs
    <3>2. ed' = [ed EXCEPT ![e] = [Away EXCEPT !.pc = "open", !.saved = Draft, !.hyd = "check"]]
      BY <2>10 DEF Open
    <3>3. ed'[e] = [Away EXCEPT !.pc = "open", !.saved = Draft, !.hyd = "check"] BY <3>2
    <3>4. ed'[e].pc = "open" /\ ed'[e].saved = Draft /\ ed'[e].found = NoText
          /\ ed'[e].restoring = NoText
      BY <3>3 DEF Away
    <3>5. Draft # NoText BY AwayIs DEF PageSetting
    <3>6. Fine(e)' BY <2>6, <3>4, <3>5 DEF Fine
    <3> QED BY <2>5, <3>2, <3>6
  <2>11. ASSUME NEW e \in Editors, BaselineCheck(e) PROVE Pages'
    <3>0. PICK r : r = Resumed(snaps) OBVIOUS
    <3>1. r # NoText => Stored(r)' BY <2>1, <3>0, ResumedIsStored
    <3>2. ed[e].pc = "open" BY <2>11 DEF BaselineCheck
    <3>3. \/ ed' = [ed EXCEPT ![e] = [ed[e] EXCEPT !.hyd = "answer", !.found = r]]
          \/ ed' = [ed EXCEPT ![e] = [ed[e] EXCEPT !.hyd = "seed"]]
      BY <2>11, <3>0 DEF BaselineCheck
    <3>4. CASE ed' = [ed EXCEPT ![e] = [ed[e] EXCEPT !.hyd = "answer", !.found = r]]
      <4>1. ed'[e].pc = "open" /\ ed'[e].saved = ed[e].saved /\ ed'[e].found = r
            /\ ed'[e].restoring = ed[e].restoring
        BY <2>3, <3>2, <3>4 DEF PageRec
      <4>2. Fine(e)' BY <1>0, <2>1, <3>1, <3>2, <4>1 DEF Fine
      <4> QED BY <2>5, <3>4, <4>2
    <3>5. CASE ed' = [ed EXCEPT ![e] = [ed[e] EXCEPT !.hyd = "seed"]]
      <4>1. ed'[e].pc = "open" /\ ed'[e].saved = ed[e].saved /\ ed'[e].found = ed[e].found
            /\ ed'[e].restoring = ed[e].restoring
        BY <2>3, <3>2, <3>5 DEF PageRec
      <4>2. Fine(e)' BY <1>0, <2>1, <3>2, <4>1 DEF Fine
      <4> QED BY <2>5, <3>5, <4>2
    <3> QED BY <3>3, <3>4, <3>5
  <2>12. ASSUME NEW e \in Editors, BaselineSeed(e) PROVE Pages'
    <3>r. PICK r : r = Resumed(snaps') OBVIOUS
    <3>0. snaps' \in Seq(Row) BY <1>2, PageTypesStep
    <3>1. r # NoText => Stored(r)'
      <4>1. ASSUME r # NoText PROVE \E i \in DOMAIN snaps' : r = snaps'[i].text
        <5>1. \A i \in DOMAIN snaps' : snaps'[i] \in Row BY <3>0
        <5> QED BY <3>r, <3>0, <4>1, <5>1, ResumedIs
      <4>2. \A i \in DOMAIN snaps' : snaps'[i] \in Rows' BY DEF Rows, Range
      <4>3. ASSUME r # NoText PROVE \E x \in Rows' : x.text = r BY <4>1, <4>2, <4>3
      <4> QED BY <4>3 DEF Stored
    <3>2. ed[e].pc = "open" /\ ed' = [ed EXCEPT ![e] = [ed[e] EXCEPT !.hyd = "answer", !.found = r]]
      BY <2>12, <3>r DEF BaselineSeed
    <3>3. ed'[e].pc = "open" /\ ed'[e].saved = ed[e].saved /\ ed'[e].found = r
          /\ ed'[e].restoring = ed[e].restoring
      BY <2>3, <3>2 DEF PageRec
    <3>4. Fine(e)' BY <1>0, <2>1, <3>1, <3>2, <3>3 DEF Fine
    <3> QED BY <2>5, <3>2, <3>4
  <2>13. ASSUME NEW e \in Editors, Hydrate(e) PROVE Pages'
    <3>1. ed[e].pc = "open" BY <2>13 DEF Hydrate
    <3>2. CASE ed[e].found = NoText
      <4>1. ed' = [ed EXCEPT ![e] = [ed[e] EXCEPT !.hyd = "done"]] BY <2>13, <3>2 DEF Hydrate
      <4>2. ed'[e].pc = "open" /\ ed'[e].saved = ed[e].saved /\ ed'[e].found = NoText
            /\ ed'[e].restoring = ed[e].restoring
        BY <2>3, <3>1, <3>2, <4>1 DEF PageRec
      <4>3. Fine(e)' BY <1>0, <2>1, <3>1, <4>2 DEF Fine
      <4> QED BY <2>5, <4>1, <4>3
    <3>3. CASE ed[e].found # NoText
      <4>1. ed' = [ed EXCEPT ![e] = [ed[e] EXCEPT !.hyd = "done", !.text = ed[e].found,
                                                 !.saved = ed[e].found, !.found = NoText]]
        BY <2>13, <3>3 DEF Hydrate
      <4>2. ed'[e].pc = "open" /\ ed'[e].saved = ed[e].found /\ ed'[e].found = NoText
            /\ ed'[e].restoring = ed[e].restoring
        BY <2>3, <3>1, <4>1 DEF PageRec
      <4>3. Fine(e)' BY <1>0, <2>1, <3>1, <3>3, <4>2 DEF Fine
      <4> QED BY <2>5, <4>1, <4>3
    <3> QED BY <3>2, <3>3
  <2>14. ASSUME NEW e \in Editors,
                Type(e) \/ RequestEdit(e) \/ EditApplied(e) \/ EditFails(e)
         PROVE  Pages'
    <3>1. ed[e].pc = "open"
      BY <2>14 DEF Type, RequestEdit, EditApplied, EditFails
    <3>2. PICK t, m : ed' = [ed EXCEPT ![e] = [ed[e] EXCEPT !.text = t, !.ai = m]]
      <4>1. CASE Type(e)
        <5>1. ed' = [ed EXCEPT ![e] = [ed[e] EXCEPT !.text = @ \cup {edits + 1}, !.ai = @]]
          BY <2>3, <4>1 DEF Type, PageRec
        <5> QED BY <5>1
      <4>2. CASE RequestEdit(e)
        <5>1. ed' = [ed EXCEPT ![e] = [ed[e] EXCEPT !.text = @, !.ai = ed[e].text]]
          BY <2>3, <4>2 DEF RequestEdit, PageRec
        <5> QED BY <5>1
      <4>3. CASE EditApplied(e)
        <5>1. ed' = [ed EXCEPT ![e] = [ed[e] EXCEPT !.text = ed[e].ai \cup {edits + 1}, !.ai = NoText]]
          BY <4>3 DEF EditApplied
        <5> QED BY <5>1
      <4>4. CASE EditFails(e)
        <5>1. ed' = [ed EXCEPT ![e] = [ed[e] EXCEPT !.text = @, !.ai = NoText]]
          BY <2>3, <4>4 DEF EditFails, PageRec
        <5> QED BY <5>1
      <4> QED BY <2>14, <4>1, <4>2, <4>3, <4>4
    <3>3. ed'[e].pc = "open" /\ ed'[e].saved = ed[e].saved /\ ed'[e].found = ed[e].found
          /\ ed'[e].restoring = ed[e].restoring
      BY <2>3, <3>1, <3>2 DEF PageRec
    <3>4. Fine(e)' BY <1>0, <2>1, <3>1, <3>3 DEF Fine
    <3> QED BY <2>5, <3>2, <3>4
  <2>15. ASSUME NEW e \in Editors, Restore(e) PROVE Pages'
    <3>1. PICK r \in Rows :
            \/ ed' = [ed EXCEPT ![e] = [ed[e] EXCEPT !.restoring = r.text]]
            \/ ed' = [ed EXCEPT ![e] = [ed[e] EXCEPT !.text = r.text]]
      BY <2>15 DEF Restore
    <3>2. Stored(r.text)' BY <2>1 DEF Stored
    <3>3. ed[e].pc = "open" BY <2>15 DEF Restore
    <3>4. ed'[e].pc = "open" /\ ed'[e].saved = ed[e].saved /\ ed'[e].found = ed[e].found
          /\ ed'[e].restoring \in {ed[e].restoring, r.text}
      BY <2>3, <3>1, <3>3 DEF PageRec
    <3>5. Fine(e)' BY <1>0, <2>1, <3>2, <3>3, <3>4 DEF Fine
    <3> QED BY <2>5, <3>1, <3>5
  <2>16. ASSUME NEW e \in Editors, Leave(e) \/ Teardown(e) \/ Decide(e) PROVE Pages'
    <3>1. ed' = [ed EXCEPT ![e] = [Away EXCEPT !.pc = "gone"]]
      BY <2>16 DEF Leave, Teardown, Decide, Gone
    <3>2. ed'[e] = [Away EXCEPT !.pc = "gone"] BY <3>1
    <3>3. ed'[e].pc = "gone" /\ ed'[e].hyd = "done" /\ ed'[e].found = NoText
          /\ ed'[e].restoring = NoText
      BY <3>2 DEF Away
    <3>4. Fine(e)' BY <3>3 DEF Fine
    <3> QED BY <2>5, <3>1, <3>4
  <2>17. ASSUME NEW e \in Editors, Save(e) PROVE Pages' BY <2>7, <2>17 DEF Save
  <2>18. ASSUME NEW p \in posts, InsertSnapshot(p) PROVE Pages'
    BY <2>7, <2>18 DEF InsertSnapshot
  <2>19. ASSUME NEW e \in Editors, NEW t, NEW kept, NEW gone, Settled(e, t, kept, gone),
                ed[e].pc = "open" => t # NoText /\ Stored(t)'
         PROVE  Pages'
    <3>1. PICK after : ed' = [ed EXCEPT ![e] = [ed[e] EXCEPT !.saved = t, !.text = after,
                                                            !.restoring = NoText]]
      BY <2>19 DEF Settled
    <3>2. ed'[e].pc = ed[e].pc /\ ed'[e].hyd = ed[e].hyd /\ ed'[e].saved = t
          /\ ed'[e].found = ed[e].found /\ ed'[e].restoring = NoText
      BY <2>3, <3>1 DEF PageRec
    <3>3. Fine(e)' BY <1>0, <2>1, <2>19, <3>2 DEF Fine
    <3> QED BY <2>5, <3>1, <3>3
  <2>20. ASSUME NEW p \in posts, SaveAnswered(p) PROVE Pages'
    <3>1. CASE p.by = NoOne BY <2>7, <2>20, <3>1 DEF SaveAnswered
    <3>2. CASE p.by # NoOne
      <4>1. p.by \in Editors /\ p.text \in Text BY <3>2 DEF Post
      <4>2. Stored(p.text)' /\ p.text # NoText
        BY <2>1, <2>20, <4>1 DEF SaveAnswered, PageSetting
      <4>3. PICK gone : Settled(p.by, p.text, p.text, gone) BY <2>20, <3>2 DEF SaveAnswered
      <4> QED BY <2>19, <4>1, <4>2, <4>3
    <3> QED BY <3>1, <3>2
  <2>21. ASSUME NEW p \in posts, SaveFails(p) PROVE Pages'
    <3>1. CASE p.by = NoOne BY <2>7, <2>21, <3>1 DEF SaveFails
    <3>2. CASE p.by # NoOne
      <4>1. p.by \in Editors BY <3>2 DEF Post
      <4> PICK t : t = ed[p.by].saved OBVIOUS
      <4>2. Settled(p.by, t, {}, {}) BY <2>21, <3>2 DEF SaveFails
      <4>3. ed[p.by].pc = "open" => t # NoText /\ Stored(t)'
        <5>1. Fine(p.by) BY <1>0, <4>1
        <5>2. ed[p.by].pc = "open" => t # NoText /\ Stored(t)
          BY <5>1 DEF Fine
        <5> QED BY <2>1, <5>2
      <4> QED BY <2>19, <4>1, <4>2, <4>3
    <3> QED BY <3>1, <3>2
  <2> QED
    BY <1>2, <2>10, <2>11, <2>12, <2>13, <2>14, <2>15, <2>16, <2>17, <2>18, <2>20, <2>21 DEF Next
<1> QED BY <1>1, <1>2

-----------------------------------------------------------------------------
(* Saves on their way, and edits. *)

\* Where an edit can be found for good, and where it is otherwise.
Held(n) == n = 0 \/ n \in excused \/ \E r \in Rows : n \in r.text
Owned == \A p \in posts : p.by # NoOne => /\ ed[p.by].pc = "open"
                                          /\ \A n \in p.text : n \in ed[p.by].text \/ Held(n)

LEMMA KeepsHeld ==
  ASSUME Keeps, NEW n, Held(n)
  PROVE  Held(n)'
BY DEF Keeps, Held

LEMMA StoredIsHeld ==
  ASSUME NEW t, Stored(t), NEW n \in t
  PROVE  Held(n)
BY DEF Stored, Held, Draft

LEMMA SentIs == Sent <=> /\ \A p \in posts : p.id <= saves /\ (p.pc = "prune" => Stored(p.text))
                         /\ Owned
BY DEF Sent, Owned, Held

\* A page whose text is not dirty has nothing but what is held.
LEMMA CleanIsHeld ==
  ASSUME PageTypes, Pages, NEW e \in Editors, ed[e].pc = "open", ~Dirty(e), NEW n \in ed[e].text
  PROVE  Held(n)
<1>1. ed[e].text # Blank BY DEF Blank
<1>2. ed[e].saved # NoText /\ Stored(ed[e].saved) BY DEF Pages
<1>3. ed[e].text = ed[e].saved BY <1>1, <1>2 DEF Dirty
<1> QED BY <1>2, <1>3, StoredIsHeld

\* A step on one page that sends nothing, and loses only what is held or excused.
LEMMA OwnedByPage ==
  ASSUME PageTypes, PageTypes', Owned, Keeps, NEW e \in Editors, NEW new, ed' = [ed EXCEPT ![e] = new],
         posts' = posts,
         ed[e].pc = "open" => /\ new.pc = "open"
                              /\ \A n \in ed[e].text : n \in new.text \/ Held(n) \/ n \in excused'
  PROVE  Owned'
<1> SUFFICES ASSUME NEW p \in posts, p.by # NoOne
             PROVE  /\ ed'[p.by].pc = "open"
                    /\ \A n \in p.text : n \in ed'[p.by].text \/ Held(n)'
  BY DEF Owned
<1>1. p.by \in Editors BY DEF PageTypes, Post
<1>2. ed[p.by].pc = "open" /\ \A n \in p.text : n \in ed[p.by].text \/ Held(n) BY DEF Owned
<1>3. \A n : Held(n) => Held(n)' BY KeepsHeld
<1>4. \A n : n \in excused' => Held(n)' BY DEF Held
<1>5. ed'[p.by] = IF p.by = e THEN new ELSE ed[p.by] BY <1>1 DEF PageTypes
<1> QED BY <1>2, <1>3, <1>4, <1>5

\* A step that closes a page: its saves go on without it.
LEMMA OwnedByLeaving ==
  ASSUME PageSetting, PageTypes, Owned, Keeps, NEW e \in Editors, NEW new, ed' = [ed EXCEPT ![e] = new],
         \A q \in posts' : \/ q.by = NoOne
                           \/ \E p \in posts : q = [p EXCEPT !.by = IF p.by = e THEN NoOne ELSE p.by]
  PROVE  Owned'
<1> SUFFICES ASSUME NEW q \in posts', q.by # NoOne
             PROVE  /\ ed'[q.by].pc = "open"
                    /\ \A n \in q.text : n \in ed'[q.by].text \/ Held(n)'
  BY DEF Owned
<1>1. PICK p \in posts : q = [p EXCEPT !.by = IF p.by = e THEN NoOne ELSE p.by] OBVIOUS
<1>2. p \in Post BY DEF PageTypes
<1>3. p.by # e /\ q.by = p.by /\ q.text = p.text BY <1>1, <1>2 DEF Post
<1>4. p.by \in Editors BY <1>2, <1>3 DEF Post
<1>5. ed'[q.by] = ed[p.by] BY <1>3, <1>4 DEF PageTypes
<1>6. ed[p.by].pc = "open" /\ \A n \in p.text : n \in ed[p.by].text \/ Held(n) BY <1>3 DEF Owned
<1>7. \A n : Held(n) => Held(n)' BY KeepsHeld
<1> QED BY <1>3, <1>5, <1>6, <1>7

\* A step that settles a save.
LEMMA OwnedBySettling ==
  ASSUME PageTypes, Owned, Keeps, posts' \subseteq posts, NEW e \in Editors, NEW t, NEW kept, NEW gone,
         Settled(e, t, kept, gone), \A n \in kept : Held(n)
  PROVE  /\ Owned'
         /\ \A n \in ed[e].text : n \in ed'[e].text \/ Held(n)'
         /\ \A f \in Editors : ed'[f].pc = ed[f].pc /\ (f # e => ed'[f].text = ed[f].text)
<1> DEFINE after == IF ed[e].restoring = NoText THEN ed[e].text ELSE ed[e].restoring
<1>1. ed' = [ed EXCEPT ![e].saved = t, ![e].text = after, ![e].restoring = NoText]
      /\ excused' = excused \cup gone \cup (ed[e].text \ (after \cup kept))
  BY DEF Settled
<1> HIDE DEF after
<1>2. \A f \in Editors : ed[f] \in PageRec BY DEF PageTypes
<1>3. \A f \in Editors : ed'[f].pc = ed[f].pc /\ (f # e => ed'[f].text = ed[f].text)
  BY <1>1, <1>2 DEF PageTypes, PageRec
<1>4. ed'[e].text = after BY <1>1, <1>2 DEF PageTypes, PageRec
<1>5. \A n : Held(n) => Held(n)' BY KeepsHeld
<1>6. \A n : n \in excused' => Held(n)' BY DEF Held
<1>7. \A n \in ed[e].text : n \in ed'[e].text \/ Held(n)' BY <1>1, <1>4, <1>5, <1>6
<1>8. ASSUME NEW p \in posts', p.by # NoOne
      PROVE  ed'[p.by].pc = "open" /\ \A n \in p.text : n \in ed'[p.by].text \/ Held(n)'
  <2>1. p \in posts /\ p.by \in Editors BY <1>8 DEF PageTypes, Post
  <2>2. ed[p.by].pc = "open" /\ \A n \in p.text : n \in ed[p.by].text \/ Held(n) BY <1>8, <2>1 DEF Owned
  <2> QED BY <1>3, <1>5, <1>7, <2>1, <2>2
<1> QED BY <1>3, <1>7, <1>8 DEF Owned

\* A step that leaves every page its text, and may send what a page shows.
LEMMA OwnedBySend ==
  ASSUME PageTypes, Owned, Keeps, \A f \in Editors : ed'[f].pc = ed[f].pc /\ ed'[f].text = ed[f].text,
         \A q \in posts' :
           \/ q.by \in Editors /\ ed[q.by].pc = "open" /\ q.text = ed[q.by].text
           \/ \E p \in posts : q.by = p.by /\ q.text = p.text
  PROVE  Owned'
<1> SUFFICES ASSUME NEW q \in posts', q.by # NoOne
             PROVE  /\ ed'[q.by].pc = "open"
                    /\ \A n \in q.text : n \in ed'[q.by].text \/ Held(n)'
  BY DEF Owned
<1>1. CASE q.by \in Editors /\ ed[q.by].pc = "open" /\ q.text = ed[q.by].text BY <1>1
<1>2. CASE \E p \in posts : q.by = p.by /\ q.text = p.text
  <2>1. PICK p \in posts : q.by = p.by /\ q.text = p.text BY <1>2
  <2>2. p.by \in Editors BY <2>1 DEF PageTypes, Post
  <2>3. ed[p.by].pc = "open" /\ \A n \in p.text : n \in ed[p.by].text \/ Held(n) BY <2>1 DEF Owned
  <2>4. \A n : Held(n) => Held(n)' BY KeepsHeld
  <2> QED BY <2>1, <2>2, <2>3, <2>4
<1> QED BY <1>1, <1>2

\* What is found stays found if what the pages and the saves lose is.
LEMMA FoundStays ==
  ASSUME Keeps, decided # NoText => decided' = decided,
         \A f \in Editors : \A n : ed[f].pc = "open" /\ n \in ed[f].text /\ n # 0 => Somewhere(n)',
         \A p \in posts : \A n : n \in p.text /\ n # 0 => Somewhere(n)',
         NEW n, n # 0, Somewhere(n)
  PROVE  Somewhere(n)'
<1>1. CASE n \in excused \/ \E r \in Rows : n \in r.text BY <1>1 DEF Keeps, Somewhere
<1>2. CASE \E e \in Editors : ed[e].pc = "open" /\ n \in ed[e].text BY <1>2
<1>3. CASE \E p \in posts : n \in p.text BY <1>3
<1>4. CASE decided # NoText /\ n \in decided BY <1>4 DEF Somewhere
<1> QED BY <1>1, <1>2, <1>3, <1>4 DEF Somewhere

LEMMA HeldIsFound == \A n : Held(n) /\ n # 0 => Somewhere(n)
BY DEF Held, Somewhere

EditsFound == \A n \in 1..edits : Somewhere(n)

\* A step that leaves the saves alone, and one page all it shows but what is held or excused.
LEMMA FoundByPage ==
  ASSUME PageTypes, EditsFound, Keeps, NEW e \in Editors, NEW new, ed' = [ed EXCEPT ![e] = new],
         posts' = posts, decided' = decided,
         ed[e].pc = "open" => /\ new.pc = "open"
                              /\ \A n \in ed[e].text : n \in new.text \/ Held(n) \/ n \in excused',
         edits' = edits \/ (edits' = edits + 1 /\ new.pc = "open" /\ edits + 1 \in new.text)
  PROVE  EditsFound'
<1>1. ASSUME NEW f \in Editors, NEW n, ed[f].pc = "open" /\ n \in ed[f].text /\ n # 0
      PROVE  Somewhere(n)'
  <2>1. CASE f # e
    <3>1. ed'[f] = ed[f] BY <2>1 DEF PageTypes
    <3> QED BY <1>1, <3>1 DEF Somewhere
  <2>2. CASE f = e
    <3>1. ed'[e] = new BY DEF PageTypes
    <3>2. Held(n) => Held(n)' BY KeepsHeld
    <3>3. Held(n)' => Somewhere(n)' BY <1>1 DEF Held, Somewhere
    <3> QED BY <1>1, <2>2, <3>1, <3>2, <3>3 DEF Somewhere
  <2> QED BY <2>1, <2>2
<1>2. \A p \in posts : \A n : n \in p.text /\ n # 0 => Somewhere(n)' BY DEF Somewhere
<1>3. \A n : n # 0 /\ Somewhere(n) => Somewhere(n)' BY <1>1, <1>2, FoundStays
<1>4. edits \in Nat BY DEF PageTypes
<1>5. \A n \in 1..edits : Somewhere(n)'
  <2> TAKE n \in 1..edits
  <2>1. n # 0 BY <1>4
  <2> QED BY <1>3, <2>1 DEF EditsFound
<1>6. ASSUME NEW k, k = edits + 1, edits' = k PROVE Somewhere(k)'
  <2>1. edits' # edits BY <1>4, <1>6
  <2>2. new.pc = "open" /\ k \in new.text BY <1>6, <2>1
  <2>3. ed'[e] = new BY DEF PageTypes
  <2> QED BY <2>2, <2>3 DEF Somewhere
<1>7. \A n \in 1..edits' : n \in 1..edits \/ (n = edits + 1 /\ edits' = n) BY <1>4
<1>8. \A n \in 1..edits' : Somewhere(n)' BY <1>5, <1>6, <1>7
<1> QED BY <1>8 DEF EditsFound

\* A step after which what pages and saves held is found.
LEMMA FoundByAll ==
  ASSUME PageTypes, EditsFound, Keeps, edits' = edits, decided # NoText => decided' = decided,
         \A f \in Editors : \A n : ed[f].pc = "open" /\ n \in ed[f].text /\ n # 0 => Somewhere(n)',
         \A p \in posts : \A n : n \in p.text /\ n # 0 => Somewhere(n)'
  PROVE  EditsFound'
<1>1. \A n : n # 0 /\ Somewhere(n) => Somewhere(n)' BY FoundStays
<1>2. \A n \in 1..edits : n # 0 BY DEF PageTypes
<1> QED BY <1>1, <1>2 DEF EditsFound

LEMMA EditsStep ==
  ASSUME PageSetting, PageTypes, Pages, Sent, EditsFound, [Next]_(vars)
  PROVE  Owned' /\ EditsFound'
<1>1. CASE UNCHANGED vars
  <2>1. Owned BY SentIs
  <2> QED BY <1>1, <2>1 DEF vars, Owned, Held, EditsFound, Somewhere, Rows
<1>2. ASSUME Next PROVE Owned' /\ EditsFound'
  <2>1. Keeps BY <1>2, PageKeeps
  <2>2. PageTypes' BY <1>2, PageTypesStep
  <2>3. Owned /\ \A p \in posts : p.pc = "prune" => Stored(p.text) BY SentIs
  <2>4. \A e \in Editors : ed[e] \in PageRec BY DEF PageTypes
  <2>5. \A p \in posts : p \in Post BY DEF PageTypes
  <2> DEFINE Goal == Owned' /\ EditsFound'
  <2>6. ASSUME NEW e \in Editors, NEW new, ed' = [ed EXCEPT ![e] = new],
               posts' = posts, decided' = decided,
               ed[e].pc = "open" => /\ new.pc = "open"
                                    /\ \A n \in ed[e].text : n \in new.text \/ Held(n) \/ n \in excused',
               edits' = edits \/ (edits' = edits + 1 /\ new.pc = "open" /\ edits + 1 \in new.text)
        PROVE  Goal
    BY <2>1, <2>2, <2>3, <2>6, OwnedByPage, FoundByPage
  <2>7. ASSUME edits' = edits, decided' = decided, \A n \in excused : n \in excused',
               \A f \in Editors : ed'[f].pc = ed[f].pc /\ ed'[f].text = ed[f].text,
               \A q \in posts' :
                 \/ q.by \in Editors /\ ed[q.by].pc = "open" /\ q.text = ed[q.by].text
                 \/ \E p \in posts : q.by = p.by /\ q.text = p.text,
               \A p \in posts : \E q \in posts' : q.text = p.text
        PROVE  Goal
    <3>1. Owned' BY <2>1, <2>3, <2>7, OwnedBySend
    <3>2. \A f \in Editors : \A n : ed[f].pc = "open" /\ n \in ed[f].text /\ n # 0 => Somewhere(n)'
      BY <2>7 DEF Somewhere
    <3>3. \A p \in posts : \A n : n \in p.text /\ n # 0 => Somewhere(n)' BY <2>7 DEF Somewhere
    <3>4. EditsFound' BY <2>1, <2>7, <3>2, <3>3, FoundByAll
    <3> QED BY <3>1, <3>4
  <2>8. ASSUME NEW e \in Editors, Open(e) PROVE Goal
    <3>1. ed' = [ed EXCEPT ![e] = [Away EXCEPT !.pc = "open", !.saved = Draft, !.hyd = "check"]]
          /\ ed[e].pc # "open" /\ posts' = posts /\ decided' = decided /\ edits' = edits
      BY <2>8 DEF Open
    <3> QED BY <2>6, <3>1
  <2>9. ASSUME NEW e \in Editors,
               BaselineCheck(e) \/ BaselineSeed(e) \/ RequestEdit(e) \/ EditFails(e)
        PROVE Goal
    <3>1. posts' = posts /\ decided' = decided /\ edits' = edits /\ excused' = excused
      BY <2>9 DEF BaselineCheck, BaselineSeed, RequestEdit, EditFails
    <3>2. \A f \in Editors : ed'[f].pc = ed[f].pc /\ ed'[f].text = ed[f].text
      <4> USE <2>4 DEF PageTypes, PageRec
      <4>1. CASE BaselineCheck(e) BY <4>1 DEF BaselineCheck
      <4>2. CASE BaselineSeed(e) BY <4>2 DEF BaselineSeed
      <4>3. CASE RequestEdit(e) BY <4>3 DEF RequestEdit
      <4>4. CASE EditFails(e) BY <4>4 DEF EditFails
      <4> QED BY <2>9, <4>1, <4>2, <4>3, <4>4
    <3> QED BY <2>7, <3>1, <3>2
  <2>10. ASSUME NEW e \in Editors, Hydrate(e) PROVE Goal
    <3>1. ed[e].pc = "open" /\ posts' = posts /\ decided' = decided /\ edits' = edits
      BY <2>10 DEF Hydrate
    <3>2. CASE ed[e].found = NoText
      <4>1. ed' = [ed EXCEPT ![e] = [ed[e] EXCEPT !.hyd = "done"]] BY <2>10, <3>2 DEF Hydrate
      <4> QED BY <2>4, <2>6, <3>1, <4>1 DEF PageRec
    <3>3. CASE ed[e].found # NoText
      <4> DEFINE new == [ed[e] EXCEPT !.hyd = "done", !.text = ed[e].found, !.saved = ed[e].found,
                                      !.found = NoText]
      <4>1. ed' = [ed EXCEPT ![e] = new] /\ excused' = excused \cup (ed[e].text \ ed[e].found)
        BY <2>10, <3>3 DEF Hydrate
      <4>2. new.pc = "open" /\ new.text = ed[e].found BY <2>4, <3>1 DEF PageRec
      <4> HIDE DEF new
      <4>3. \A n \in ed[e].text : n \in new.text \/ n \in excused' BY <4>1, <4>2
      <4> QED BY <2>6, <3>1, <4>1, <4>2, <4>3
    <3> QED BY <3>2, <3>3
  <2>11. ASSUME NEW e \in Editors, Type(e) PROVE Goal
    <3> DEFINE new == [ed[e] EXCEPT !.text = @ \cup {edits + 1}]
    <3>1. ed[e].pc = "open" /\ posts' = posts /\ decided' = decided /\ edits' = edits + 1
          /\ ed' = [ed EXCEPT ![e] = new]
      BY <2>11 DEF Type
    <3>2. new.pc = "open" /\ new.text = ed[e].text \cup {edits + 1} BY <2>4, <3>1 DEF PageRec
    <3> HIDE DEF new
    <3> QED BY <2>6, <3>1, <3>2
  <2>12. ASSUME NEW e \in Editors, EditApplied(e) PROVE Goal
    <3> DEFINE new == [ed[e] EXCEPT !.text = ed[e].ai \cup {edits + 1}, !.ai = NoText]
    <3>1. ed[e].pc = "open" /\ posts' = posts /\ decided' = decided /\ edits' = edits + 1
          /\ ed' = [ed EXCEPT ![e] = new] /\ excused' = excused \cup (ed[e].text \ ed[e].ai)
      BY <2>12 DEF EditApplied
    <3>2. new.pc = "open" /\ new.text = ed[e].ai \cup {edits + 1} BY <2>4, <3>1 DEF PageRec
    <3> HIDE DEF new
    <3>3. \A n \in ed[e].text : n \in new.text \/ n \in excused' BY <3>1, <3>2
    <3> QED BY <2>6, <3>1, <3>2, <3>3
  <2>13. ASSUME NEW e \in Editors, Send(e, ed[e].text, FALSE), ed[e].pc = "open",
                edits' = edits, decided' = decided, excused' = excused,
                \A f \in Editors : ed'[f].pc = ed[f].pc /\ ed'[f].text = ed[f].text
         PROVE  Goal
    <3>1. ed[e].text \in Text BY <2>4 DEF PageRec
    <3>2. /\ \A q \in posts' :
               \/ q = [id |-> saves + 1, by |-> e, text |-> ed[e].text, pc |-> "sent"]
               \/ \E p \in posts : q = [p EXCEPT !.by = p.by]
          /\ \A p \in posts : \E q \in posts' : q.text = p.text
      BY <2>13, <3>1, SendStays
    <3>3. \A q \in posts' :
            \/ q.by \in Editors /\ ed[q.by].pc = "open" /\ q.text = ed[q.by].text
            \/ \E p \in posts : q.by = p.by /\ q.text = p.text
      BY <2>5, <2>13, <3>2 DEF Post
    <3> QED BY <2>7, <2>13, <3>2, <3>3
  <2>14. ASSUME NEW e \in Editors, Save(e) PROVE Goal
    BY <2>13, <2>14 DEF Save
  <2>15. ASSUME NEW e \in Editors, Restore(e) PROVE Goal
    <3>1. PICK r \in Rows :
            IF Dirty(e)
            THEN /\ ed' = [ed EXCEPT ![e].restoring = r.text]
                 /\ Send(e, ed[e].text, FALSE)
            ELSE /\ ed' = [ed EXCEPT ![e].text = r.text]
                 /\ UNCHANGED <<posts, saves>>
      BY <2>15 DEF Restore
    <3>2. ed[e].pc = "open" /\ edits' = edits /\ decided' = decided /\ excused' = excused
      BY <2>15 DEF Restore
    <3>3. CASE Dirty(e)
      <4>1. ed' = [ed EXCEPT ![e].restoring = r.text] /\ Send(e, ed[e].text, FALSE)
        BY <3>1, <3>3
      <4>2. \A f \in Editors : ed'[f].pc = ed[f].pc /\ ed'[f].text = ed[f].text
        BY <2>4, <4>1 DEF PageTypes, PageRec
      <4> QED BY <2>13, <3>2, <4>1, <4>2
    <3>4. CASE ~Dirty(e)
      <4> DEFINE new == [ed[e] EXCEPT !.text = r.text]
      <4>1. ed' = [ed EXCEPT ![e] = new] /\ posts' = posts BY <3>1, <3>4
      <4>2. new.pc = "open" BY <2>4, <3>2 DEF PageRec
      <4> HIDE DEF new
      <4>3. \A n \in ed[e].text : Held(n) BY <3>2, <3>4, CleanIsHeld
      <4> QED BY <2>6, <3>2, <4>1, <4>2, <4>3
    <3> QED BY <3>3, <3>4
  <2>16. ASSUME NEW e \in Editors, Leave(e) \/ Teardown(e) \/ Decide(e) PROVE Goal
    <3>1. /\ ed' = [ed EXCEPT ![e] = [Away EXCEPT !.pc = "gone"]] /\ ed[e].pc = "open"
          /\ decided # NoText => decided' = decided
          /\ edits' = edits
      BY <2>16 DEF Leave, Teardown, Decide, Gone
    <3>2. ed[e].text \in Text BY <2>4 DEF PageRec
    <3>3. /\ \A q \in posts' :
               \/ q.by = NoOne
               \/ \E p \in posts : q = [p EXCEPT !.by = IF p.by = e THEN NoOne ELSE p.by]
          /\ \A p \in posts : \E q \in posts' : q.text = p.text
      <4>1. ASSUME Send(e, ed[e].text, TRUE)
            PROVE  /\ \A q \in posts' :
                        \/ q = [id |-> saves + 1, by |-> NoOne, text |-> ed[e].text, pc |-> "sent"]
                        \/ \E p \in posts : q = [p EXCEPT !.by = IF p.by = e THEN NoOne ELSE p.by]
                   /\ \A p \in posts : \E q \in posts' : q.text = p.text
        BY <3>2, <4>1, SendLeaves
      <4>2. CASE Leave(e)
        <5>1. CASE Dirty(e)
          <6>1. Send(e, ed[e].text, TRUE) BY <4>2, <5>1 DEF Leave
          <6> QED BY <4>1, <6>1
        <5>2. CASE ~Dirty(e)
          <6>1. posts' = Forgotten(e) BY <4>2, <5>2 DEF Leave
          <6> QED BY <6>1, ForgottenIs
        <5> QED BY <5>1, <5>2
      <4>3. CASE Teardown(e) \/ Decide(e)
        <5>1. posts' = Forgotten(e) BY <4>3 DEF Teardown, Decide
        <5> QED BY <5>1, ForgottenIs
      <4> QED BY <2>16, <4>2, <4>3
    <3>4. ASSUME NEW n, n \in ed[e].text, n # 0 PROVE Somewhere(n)'
      <4>1. CASE Leave(e)
        <5>1. CASE Dirty(e)
          <6>1. Send(e, ed[e].text, TRUE) BY <4>1, <5>1 DEF Leave
          <6>2. \E q \in posts' : q.text = ed[e].text BY <3>2, <6>1, SendLeaves
          <6> QED BY <3>4, <6>2 DEF Somewhere
        <5>2. CASE ~Dirty(e)
          <6>1. Held(n) BY <3>1, <3>4, <5>2, CleanIsHeld
          <6>2. Held(n)' BY <2>1, <6>1, KeepsHeld
          <6> QED BY <3>4, <6>2 DEF Held, Somewhere
        <5> QED BY <5>1, <5>2
      <4>2. CASE Teardown(e) BY <3>4, <4>2 DEF Teardown, Somewhere
      <4>3. CASE Decide(e)
        <5>1. decided' = ed[e].text /\ ed[e].text # NoText
          BY <3>2, <4>3 DEF Decide, PageSetting
        <5> QED BY <3>4, <5>1 DEF Somewhere
      <4> QED BY <2>16, <4>1, <4>2, <4>3
    <3>5. Owned' BY <2>1, <2>3, <3>1, <3>3, OwnedByLeaving
    <3>6. ASSUME NEW f \in Editors, NEW n, ed[f].pc = "open" /\ n \in ed[f].text /\ n # 0
          PROVE  Somewhere(n)'
      <4>1. CASE f = e BY <3>4, <3>6, <4>1
      <4>2. CASE f # e
        <5>1. ed'[f] = ed[f] BY <3>1, <4>2 DEF PageTypes
        <5> QED BY <3>6, <5>1 DEF Somewhere
      <4> QED BY <4>1, <4>2
    <3>7. \A p \in posts : \A n : n \in p.text /\ n # 0 => Somewhere(n)' BY <3>3 DEF Somewhere
    <3>8. EditsFound' BY <2>1, <3>1, <3>6, <3>7, FoundByAll
    <3> QED BY <3>5, <3>8
  <2>17. ASSUME NEW p \in posts, InsertSnapshot(p) PROVE Goal
    <3>1. posts' = (posts \ {p}) \cup {[p EXCEPT !.pc = "prune"]} /\ ed' = ed /\ edits' = edits
          /\ decided' = decided /\ excused' = excused
      BY <2>17 DEF InsertSnapshot
    <3>2. [p EXCEPT !.pc = "prune"].by = p.by /\ [p EXCEPT !.pc = "prune"].text = p.text
      BY <2>5 DEF Post
    <3>3. \A q \in posts' : \E r \in posts : q.by = r.by /\ q.text = r.text BY <3>1, <3>2
    <3>4. \A r \in posts : \E q \in posts' : q.text = r.text BY <3>1, <3>2
    <3> QED BY <2>7, <3>1, <3>3, <3>4
  \* What a save carried is held, or with its page.
  <2>18. ASSUME NEW p \in posts, posts' = posts \ {p}, edits' = edits, decided' = decided,
                NEW e \in Editors, p.by = e, NEW t, NEW kept, NEW gone,
                Settled(e, t, kept, gone), \A n \in kept : Held(n)
         PROVE  Goal
    <3>1. /\ Owned'
          /\ \A n \in ed[e].text : n \in ed'[e].text \/ Held(n)'
          /\ \A f \in Editors : ed'[f].pc = ed[f].pc /\ (f # e => ed'[f].text = ed[f].text)
      BY <2>1, <2>3, <2>18, OwnedBySettling
    <3>2. \A n : Held(n)' /\ n # 0 => Somewhere(n)' BY DEF Held, Somewhere
    <3>3. \A f \in Editors : \A n : ed[f].pc = "open" /\ n \in ed[f].text /\ n # 0 => Somewhere(n)'
      BY <3>1, <3>2 DEF Somewhere
    <3>4. ASSUME NEW q \in posts, NEW n, n \in q.text, n # 0 PROVE Somewhere(n)'
      <4>1. CASE q # p
        <5>1. q \in posts' BY <2>18, <4>1
        <5> QED BY <3>4, <5>1 DEF Somewhere
      <4>2. CASE q = p
        <5>1. p.by # NoOne BY <2>18 DEF PageSetting
        <5>2. ed[e].pc = "open" /\ (n \in ed[e].text \/ Held(n))
          BY <2>3, <2>18, <3>4, <4>2, <5>1 DEF Owned
        <5>3. Held(n) => Held(n)' BY <2>1, KeepsHeld
        <5> QED BY <3>2, <3>3, <3>4, <5>2, <5>3
      <4> QED BY <4>1, <4>2
    <3>5. EditsFound' BY <2>1, <2>18, <3>3, <3>4, FoundByAll
    <3> QED BY <3>1, <3>5
  <2>19. ASSUME NEW p \in posts, p.by = NoOne, ed' = ed, posts' = posts \ {p}, edits' = edits,
                decided' = decided, \A n \in p.text : Held(n)'
         PROVE  Goal
    <3>1. Owned'
      <4>1. \A n : Held(n) => Held(n)' BY <2>1, KeepsHeld
      <4> QED BY <2>3, <2>19, <4>1 DEF Owned
    <3>2. \A f \in Editors : \A n : ed[f].pc = "open" /\ n \in ed[f].text /\ n # 0 => Somewhere(n)'
      BY <2>19 DEF Somewhere
    <3>3. ASSUME NEW q \in posts, NEW n, n \in q.text, n # 0 PROVE Somewhere(n)'
      <4>1. CASE q # p
        <5>1. q \in posts' BY <2>19, <4>1
        <5> QED BY <3>3, <5>1 DEF Somewhere
      <4>2. CASE q = p
        <5>1. Held(n)' BY <2>19, <3>3, <4>2
        <5> QED BY <3>3, <5>1 DEF Held, Somewhere
      <4> QED BY <4>1, <4>2
    <3>4. EditsFound' BY <2>1, <2>19, <3>2, <3>3, FoundByAll
    <3> QED BY <3>1, <3>4
  <2>20. ASSUME NEW p \in posts, SaveAnswered(p) PROVE Goal
    <3>1. posts' = posts \ {p} /\ edits' = edits /\ decided' = decided /\ p.pc = "prune"
      BY <2>20 DEF SaveAnswered
    <3>2. \A n \in p.text : Held(n) BY <2>3, <3>1, StoredIsHeld
    <3>3. CASE p.by = NoOne
      <4>1. ed' = ed BY <2>20, <3>3 DEF SaveAnswered
      <4>2. \A n \in p.text : Held(n)' BY <2>1, <3>2, KeepsHeld
      <4> QED BY <2>19, <3>1, <3>3, <4>1, <4>2
    <3>4. CASE p.by # NoOne
      <4>1. p.by \in Editors BY <2>5, <3>4 DEF Post
      <4>2. PICK gone : Settled(p.by, p.text, p.text, gone) BY <2>20, <3>4 DEF SaveAnswered
      <4> QED BY <2>18, <3>1, <3>2, <4>1, <4>2
    <3> QED BY <3>3, <3>4
  <2>21. ASSUME NEW p \in posts, SaveFails(p) PROVE Goal
    <3>1. posts' = posts \ {p} /\ edits' = edits /\ decided' = decided
      BY <2>21 DEF SaveFails
    <3>2. CASE p.by = NoOne
      <4>1. ed' = ed /\ excused' = IF p.pc = "sent" THEN excused \cup p.text ELSE excused
        BY <2>21, <3>2 DEF SaveFails
      <4>2. \A n \in p.text : Held(n)'
        <5>1. CASE p.pc = "sent" BY <4>1, <5>1 DEF Held
        <5>2. CASE p.pc = "prune" BY <2>1, <2>3, <5>2, StoredIsHeld, KeepsHeld
        <5> QED BY <2>5, <5>1, <5>2 DEF Post
      <4> QED BY <2>19, <3>1, <3>2, <4>1, <4>2
    <3>3. CASE p.by # NoOne
      <4>1. p.by \in Editors BY <2>5, <3>3 DEF Post
      <4>2. Settled(p.by, ed[p.by].saved, {}, {}) BY <2>21, <3>3 DEF SaveFails
      <4> QED BY <2>18, <3>1, <4>1, <4>2
    <3> QED BY <3>2, <3>3
  <2> QED
    BY <1>2, <2>8, <2>9, <2>10, <2>11, <2>12, <2>14, <2>15, <2>16, <2>17, <2>20, <2>21 DEF Next
<1> QED BY <1>1, <1>2

-----------------------------------------------------------------------------
(* The history. *)

LEMMA KeptByAppend ==
  ASSUME PageSetting, PageTypes, NEW r \in Row, r.id # 0, snaps' = Append(snaps, r), NEW n, Kept(n)
  PROVE  Kept(n)'
<1>1. /\ Len(snaps) \in Nat /\ Len(snaps') = Len(snaps) + 1
      /\ DOMAIN snaps = 1..Len(snaps) /\ DOMAIN snaps' = 1..(Len(snaps) + 1)
      /\ \A i \in DOMAIN snaps : snaps'[i] = snaps[i]
      /\ snaps'[Len(snaps) + 1] = r
  BY AppendedIs
<1>2. HITL2_SNAPSHOT_KEEP \in Nat \ {0} BY DEF PageSetting
<1>3. CASE Full
  <2>1. Len(snaps) >= HITL2_SNAPSHOT_KEEP BY <1>3 DEF Full
  <2>2. ASSUME NEW i \in DOMAIN snaps', i > Len(snaps') - HITL2_SNAPSHOT_KEEP PROVE snaps'[i].id # 0
    <3>1. CASE i = Len(snaps) + 1 BY <1>1, <3>1
    <3>2. CASE i # Len(snaps) + 1
      <4>1. i \in DOMAIN snaps /\ i > Len(snaps) - HITL2_SNAPSHOT_KEEP BY <1>1, <1>2, <2>2, <3>2
      <4> QED BY <1>1, <1>3, <4>1 DEF Full
    <3> QED BY <3>1, <3>2
  <2> QED BY <1>1, <1>2, <2>1, <2>2, SMTT(30) DEF Full, Kept
<1>4. CASE \E i \in DOMAIN snaps : snaps[i].id = n
  <2>1. PICK i \in DOMAIN snaps : snaps[i].id = n BY <1>4
  <2>2. i \in DOMAIN snaps' /\ snaps'[i].id = n BY <1>1, <2>1
  <2> QED BY <2>2 DEF Kept
<1> QED BY <1>3, <1>4 DEF Kept

LEMMA KeptBySeed ==
  ASSUME PageSetting, PageTypes, NEW r \in Row, snaps' = << r >> \o snaps, NEW n, Kept(n)
  PROVE  Kept(n)'
<1>1. /\ Len(snaps) \in Nat /\ Len(snaps') = Len(snaps) + 1
      /\ DOMAIN snaps = 1..Len(snaps) /\ DOMAIN snaps' = 1..(Len(snaps) + 1)
      /\ \A i \in DOMAIN snaps : snaps'[i + 1] = snaps[i]
  BY SeededIs
<1>2. HITL2_SNAPSHOT_KEEP \in Nat \ {0} BY DEF PageSetting
<1>3. CASE Full
  <2>1. Len(snaps) >= HITL2_SNAPSHOT_KEEP BY <1>3 DEF Full
  <2>2. ASSUME NEW i \in DOMAIN snaps', i > Len(snaps') - HITL2_SNAPSHOT_KEEP PROVE snaps'[i].id # 0
    <3>1. i - 1 \in DOMAIN snaps /\ i - 1 > Len(snaps) - HITL2_SNAPSHOT_KEEP /\ (i - 1) + 1 = i
      BY <1>1, <1>2, <2>1, <2>2
    <3>2. snaps'[i] = snaps[i - 1] BY <1>1, <3>1
    <3> QED BY <1>3, <3>1, <3>2 DEF Full
  <2> QED BY <1>1, <1>2, <2>1, <2>2 DEF Full, Kept
<1>4. CASE \E i \in DOMAIN snaps : snaps[i].id = n
  <2>1. PICK i \in DOMAIN snaps : snaps[i].id = n BY <1>4
  <2>2. i + 1 \in DOMAIN snaps' /\ snaps'[i + 1].id = n BY <1>1, <2>1
  <2> QED BY <2>2 DEF Kept
<1> QED BY <1>3, <1>4 DEF Kept

\* What the prune cuts is older than every saved version that it leaves.
LEMMA KeptByPrune ==
  ASSUME PageSetting, PageTypes, InOrder, snaps' = SubSeq(snaps, Cut + 1, Len(snaps)),
         NEW n, n # 0, Kept(n)
  PROVE  Kept(n)'
<1> DEFINE K == HITL2_SNAPSHOT_KEEP
<1>1. /\ Cut \in Nat /\ Cut <= Len(snaps) /\ Len(snaps') = Len(snaps) - Cut
      /\ \A i \in DOMAIN snaps' : i + Cut \in DOMAIN snaps /\ snaps'[i] = snaps[i + Cut]
      /\ \A i \in DOMAIN snaps : i > Cut => i - Cut \in DOMAIN snaps' /\ snaps'[i - Cut] = snaps[i]
      /\ snaps' \in Seq(Row)
  BY PrunedIs
<1>2. K \in Nat \ {0} /\ Len(snaps) \in Nat /\ DOMAIN snaps = 1..Len(snaps)
      /\ DOMAIN snaps' = 1..Len(snaps')
  BY <1>1 DEF PageSetting, PageTypes
<1>3. Cut = IF Len(snaps) > K THEN Len(snaps) - K ELSE 0 BY DEF Cut
<1>a. Len(snaps) >= K => Cut = Len(snaps) - K /\ Len(snaps) - Cut = K
  <2> DEFINE len == Len(snaps)  c == Cut
  <2>1. len \in Nat /\ c = IF len > K THEN len - K ELSE 0 BY <1>2, <1>3
  <2> HIDE DEF len, c, K
  <2>2. len >= K => c = len - K /\ len - c = K BY <1>2, <2>1
  <2> QED BY <2>2, ZenonT(40) DEF len, c
<1>b. ASSUME NEW i \in DOMAIN snaps, i <= Cut PROVE Len(snaps) >= K
  <2> DEFINE len == Len(snaps)  c == Cut
  <2>1. len \in Nat /\ i \in 1..len /\ i <= c /\ c = IF len > K THEN len - K ELSE 0
    BY <1>2, <1>3, <1>b
  <2> HIDE DEF len, c, K
  <2>2. len >= K BY <1>2, <2>1
  <2> QED BY <2>2, ZenonT(40) DEF len
<1>4. ASSUME Len(snaps) >= K, \A i \in DOMAIN snaps : i > Len(snaps) - K => snaps[i].id # 0
      PROVE  Full'
  <2>1. Cut = Len(snaps) - K /\ Len(snaps') = K BY <1>1, <1>4, <1>a
  <2>2. ASSUME NEW i \in DOMAIN snaps' PROVE snaps'[i].id # 0
    <3>1. i + Cut > Len(snaps) - K /\ i + Cut \in DOMAIN snaps BY <1>1, <1>2, <2>1
    <3> QED BY <1>1, <1>4, <3>1
  <2> QED BY <1>2, <2>1, <2>2 DEF Full
<1>5. CASE Full BY <1>4, <1>5 DEF Full, Kept
<1>6. CASE \E i \in DOMAIN snaps : snaps[i].id = n
  <2>1. PICK i \in DOMAIN snaps : snaps[i].id = n BY <1>6
  <2>2. CASE i > Cut BY <1>1, <2>1, <2>2 DEF Kept
  <2>3. CASE i <= Cut
    <3>1. Len(snaps) >= K /\ Cut = Len(snaps) - K BY <2>3, <1>a, <1>b
    <3>2. ASSUME NEW j \in DOMAIN snaps, j > Len(snaps) - K PROVE snaps[j].id # 0
      <4>1. i < j BY <1>2, <2>3, <3>1, <3>2
      <4> QED BY <2>1, <4>1 DEF InOrder
    <3> QED BY <1>4, <3>1, <3>2 DEF Kept
  <2>4. Cut \in Nat BY <1>1
  <2>6. i \in Nat BY <1>2
  <2>5. i > Cut \/ i <= Cut BY <2>4, <2>6
  <2> QED BY <2>2, <2>3, <2>5
<1> QED BY <1>5, <1>6 DEF Kept

\* Saves on their way are numbered.
Waiting ==
  \A p \in posts : p.id <= saves /\ (p.pc = "prune" => Stored(p.text) /\ Kept(p.id))
Apart ==
  /\ \A p, q \in posts : p.id = q.id => p = q
  /\ \A p \in posts : p.pc = "sent" => \A i \in DOMAIN snaps : snaps[i].id # p.id
Bounded == \A i \in DOMAIN snaps : snaps[i].id <= saves
AckedIsKept == \A n \in acked : Kept(n)
History == InOrder /\ Bounded /\ Apart /\ Waiting /\ AckedIsKept

LEMMA HistoryIs == InOrder /\ Numbered /\ Histories /\ Sent <=> History /\ Owned
BY SentIs DEF History, Numbered, Histories, Bounded, Apart, Waiting, AckedIsKept

\* A step that may send or forget saves, and leaves the history alone.
LEMMA HistoryBySend ==
  ASSUME PageSetting, PageTypes, PageTypes', History, Keeps, snaps' = snaps, acked' = acked,
         saves' = saves \/ saves' = saves + 1,
         \A q, r \in posts' : q.id = r.id => q = r,
         \A q \in posts' :
           \/ q.id = saves + 1 /\ saves' = saves + 1 /\ q.pc = "sent"
           \/ \E p \in posts : q.id = p.id /\ q.pc = p.pc /\ q.text = p.text
  PROVE  History'
<1>1. saves \in Nat /\ saves' >= saves /\ saves' \in Nat /\ \A i \in DOMAIN snaps : snaps[i].id \in Nat
  BY RowTypes DEF PageTypes
<1>2. InOrder' /\ AckedIsKept' /\ Bounded'
  BY <1>1 DEF History, InOrder, AckedIsKept, Kept, Full, Bounded
<1>3. \A p \in posts : p.id \in Nat BY DEF PageTypes, Post
<1>4. \A t : Stored(t) => Stored(t)' BY KeepsStored
<1>5. \A n : Kept(n) => Kept(n)' BY DEF Kept, Full
<1>6. ASSUME NEW q \in posts'
      PROVE  /\ q.id <= saves' /\ (q.pc = "prune" => Stored(q.text)' /\ Kept(q.id)')
             /\ q.pc = "sent" => \A i \in DOMAIN snaps : snaps[i].id # q.id
  <2>1. CASE q.id = saves + 1 /\ saves' = saves + 1 /\ q.pc = "sent"
    <3>1. \A i \in DOMAIN snaps : snaps[i].id <= saves BY DEF History, Bounded
    <3> QED BY <1>1, <2>1, <3>1
  <2>2. CASE \E p \in posts : q.id = p.id /\ q.pc = p.pc /\ q.text = p.text
    <3>1. PICK p \in posts : q.id = p.id /\ q.pc = p.pc /\ q.text = p.text BY <2>2
    <3>2. p.id <= saves /\ (p.pc = "prune" => Stored(p.text) /\ Kept(p.id)) BY DEF History, Waiting
    <3>3. q.id <= saves' BY <1>1, <1>3, <3>1, <3>2
    <3>4. p.pc = "sent" => \A i \in DOMAIN snaps : snaps[i].id # p.id BY DEF History, Apart
    <3>5. p.pc = "prune" => Stored(p.text)' /\ Kept(p.id)' BY <1>4, <1>5, <3>2
    <3>6. ASSUME q.pc = "prune" PROVE Stored(q.text)' /\ Kept(q.id)' BY <3>1, <3>5, <3>6
    <3> QED BY <3>1, <3>3, <3>4, <3>6
  <2> QED BY <2>1, <2>2
<1>7. Waiting' BY <1>6 DEF Waiting
<1>8. Apart' BY <1>6 DEF Apart
<1> QED BY <1>2, <1>7, <1>8 DEF History

LEMMA SendApart ==
  ASSUME PageSetting, PageTypes, History, NEW e \in Editors, NEW t \in Text, NEW exit \in BOOLEAN,
         Send(e, t, exit)
  PROVE  /\ saves' = saves + 1
         /\ \A q, r \in posts' : q.id = r.id => q = r
         /\ \A q \in posts' :
              \/ q.id = saves + 1 /\ saves' = saves + 1 /\ q.pc = "sent"
              \/ \E p \in posts : q.id = p.id /\ q.pc = p.pc /\ q.text = p.text
<1> DEFINE new == [id |-> saves + 1, by |-> IF exit THEN NoOne ELSE e, text |-> t, pc |-> "sent"]
           from(p) == [p EXCEPT !.by = IF exit /\ p.by = e THEN NoOne ELSE p.by]
<1>1. saves' = saves + 1 /\ \A q \in posts' : q = new \/ \E p \in posts : q = from(p) BY SendIs
<1>2. \A p \in posts : from(p).id = p.id /\ from(p).pc = p.pc /\ from(p).text = p.text
  BY DEF PageTypes, Post
<1>3. new.id = saves + 1 /\ new.pc = "sent" OBVIOUS
<1> HIDE DEF new, from
<1>4. saves \in Nat /\ \A p \in posts : p.id \in Nat /\ p.id <= saves
  BY DEF PageTypes, Post, History, Waiting
<1>5. \A p \in posts : from(p).id # new.id BY <1>2, <1>3, <1>4
<1>6. \A p, s \in posts : from(p).id = from(s).id => p = s BY <1>2 DEF History, Apart
<1>7. \A q, r \in posts' : q.id = r.id => q = r BY <1>1, <1>5, <1>6
<1>8. ASSUME NEW q \in posts'
      PROVE  \/ q.id = saves + 1 /\ saves' = saves + 1 /\ q.pc = "sent"
             \/ \E p \in posts : q.id = p.id /\ q.pc = p.pc /\ q.text = p.text
  BY <1>1, <1>2, <1>3
<1> QED BY <1>1, <1>7, <1>8

LEMMA ForgottenApart ==
  ASSUME PageSetting, PageTypes, History, NEW e \in Editors, posts' = Forgotten(e)
  PROVE  /\ \A q, r \in posts' : q.id = r.id => q = r
         /\ \A q \in posts' : \E p \in posts : q.id = p.id /\ q.pc = p.pc /\ q.text = p.text
<1> DEFINE from(p) == [p EXCEPT !.by = IF p.by = e THEN NoOne ELSE p.by]
<1>1. \A q \in posts' : \E p \in posts : q = from(p) BY ForgottenIs
<1>2. \A p \in posts : from(p).id = p.id /\ from(p).pc = p.pc /\ from(p).text = p.text
  BY DEF PageTypes, Post
<1> HIDE DEF from
<1>3. \A p, s \in posts : from(p).id = from(s).id => p = s BY <1>2 DEF History, Apart
<1>4. \A q, r \in posts' : q.id = r.id => q = r BY <1>1, <1>3
<1> QED BY <1>1, <1>2, <1>4

LEMMA HistoryStep ==
  ASSUME PageSetting, PageTypes, History, [Next]_(vars)
  PROVE  History'
<1>1. CASE UNCHANGED vars
  BY <1>1 DEF vars, History, InOrder, Bounded, Apart, Waiting, AckedIsKept, Kept, Full, Stored, Rows
<1>2. ASSUME Next PROVE History'
  <2>1. Keeps BY <1>2, PageKeeps
  <2>2. PageTypes' BY <1>2, PageTypesStep
  <2>3. \A t : Stored(t) => Stored(t)' BY <2>1, KeepsStored
  <2>4. \A p \in posts : p \in Post /\ p.id \in Nat /\ p.id # 0 BY DEF PageTypes, Post
  <2>5. ASSUME NEW e \in Editors, snaps' = snaps, acked' = acked,
               \/ posts' = posts /\ saves' = saves
               \/ posts' = Forgotten(e) /\ saves' = saves
               \/ \E exit \in BOOLEAN : Send(e, ed[e].text, exit)
        PROVE  History'
    <3>1. CASE posts' = posts /\ saves' = saves
      <4>1. \A q, r \in posts' : q.id = r.id => q = r BY <3>1 DEF History, Apart
      <4> QED BY <2>1, <2>2, <2>5, <3>1, <4>1, HistoryBySend
    <3>2. CASE posts' = Forgotten(e) /\ saves' = saves
      BY <2>1, <2>2, <2>5, <3>2, ForgottenApart, HistoryBySend
    <3>3. ASSUME NEW exit \in BOOLEAN, Send(e, ed[e].text, exit) PROVE History'
      <4>1. ed[e].text \in Text BY DEF PageTypes, PageRec
      <4> QED BY <2>1, <2>2, <2>5, <3>3, <4>1, SendApart, HistoryBySend
    <3> QED BY <2>5, <3>1, <3>2, <3>3
  <2>6. ASSUME NEW e \in Editors,
               \/ Open(e) \/ BaselineCheck(e) \/ Hydrate(e) \/ Type(e)
               \/ RequestEdit(e) \/ EditApplied(e) \/ EditFails(e)
        PROVE  History'
    <3>1. snaps' = snaps /\ acked' = acked /\ posts' = posts /\ saves' = saves
      BY <2>6 DEF Open, BaselineCheck, Hydrate, Type, RequestEdit,
         EditApplied, EditFails
    <3> QED BY <2>5, <3>1
  <2>7. ASSUME NEW e \in Editors, Save(e) PROVE History'
    BY <2>5, <2>7 DEF Save
  <2>8. ASSUME NEW e \in Editors, Restore(e) PROVE History'
    <3>1. snaps' = snaps /\ acked' = acked BY <2>8 DEF Restore
    <3>2. CASE Dirty(e)
      <4>1. Send(e, ed[e].text, FALSE) BY <2>8, <3>2 DEF Restore
      <4> QED BY <2>5, <3>1, <4>1
    <3>3. CASE ~Dirty(e)
      <4>1. posts' = posts /\ saves' = saves BY <2>8, <3>3 DEF Restore
      <4> QED BY <2>5, <3>1, <4>1
    <3> QED BY <3>2, <3>3
  <2>9. ASSUME NEW e \in Editors, Leave(e) PROVE History'
    <3>1. snaps' = snaps /\ acked' = acked BY <2>9 DEF Leave
    <3>2. CASE Dirty(e)
      <4>1. Send(e, ed[e].text, TRUE) BY <2>9, <3>2 DEF Leave
      <4> QED BY <2>5, <3>1, <4>1
    <3>3. CASE ~Dirty(e)
      <4>1. posts' = Forgotten(e) /\ saves' = saves BY <2>9, <3>3 DEF Leave
      <4> QED BY <2>5, <3>1, <4>1
    <3> QED BY <3>2, <3>3
  <2>10. ASSUME NEW e \in Editors, Teardown(e) \/ Decide(e) PROVE History'
    <3>1. snaps' = snaps /\ acked' = acked /\ posts' = Forgotten(e) /\ saves' = saves
      BY <2>10 DEF Teardown, Decide
    <3> QED BY <2>5, <3>1
  <2>11. ASSUME NEW e \in Editors, BaselineSeed(e) PROVE History'
    <3> DEFINE r == [id |-> Generated, text |-> Draft]
    <3>1. r \in Row /\ r.id = 0 BY RowTypes DEF PageSetting, Generated
    <3>2. snaps' = << r >> \o snaps /\ posts' = posts /\ saves' = saves /\ acked' = acked
      BY <2>11 DEF BaselineSeed
    <3> HIDE DEF r
    <3>3. /\ Len(snaps) \in Nat /\ DOMAIN snaps = 1..Len(snaps) /\ DOMAIN snaps' = 1..(Len(snaps) + 1)
          /\ snaps'[1] = r /\ \A i \in DOMAIN snaps : snaps'[i + 1] = snaps[i]
      BY <3>1, <3>2, SeededIs
    <3>4. ASSUME NEW i \in DOMAIN snaps'
          PROVE  i = 1 \/ (i - 1 \in DOMAIN snaps /\ snaps'[i] = snaps[i - 1])
      <4>1. i # 1 => i - 1 \in DOMAIN snaps /\ (i - 1) + 1 = i BY <3>3
      <4> QED BY <3>3, <4>1
    <3>5. ASSUME NEW i \in DOMAIN snaps', NEW j \in DOMAIN snaps'
          PROVE  /\ i < j /\ snaps'[j].id = 0 => snaps'[i].id = 0
                 /\ i # j /\ snaps'[i].id = snaps'[j].id => snaps'[i].id = 0
      <4>1. CASE i = 1 BY <3>1, <3>3, <4>1
      <4>2. CASE j = 1 BY <3>1, <3>3, <4>2
      <4>3. CASE i # 1 /\ j # 1
        <5>1. i - 1 \in DOMAIN snaps /\ snaps'[i] = snaps[i - 1] BY <3>4, <4>3
        <5>2. j - 1 \in DOMAIN snaps /\ snaps'[j] = snaps[j - 1] BY <3>4, <4>3
        <5>3. (i < j => i - 1 < j - 1) /\ (i # j => i - 1 # j - 1) BY <3>3
        <5> QED BY <5>1, <5>2, <5>3 DEF History, InOrder
      <4> QED BY <4>1, <4>2, <4>3
    <3>6. InOrder' BY <3>5 DEF InOrder
    <3>7. saves \in Nat BY DEF PageTypes
    <3>8. \A i \in DOMAIN snaps' : snaps'[i].id = 0 \/ \E j \in DOMAIN snaps : snaps'[i] = snaps[j]
      BY <3>1, <3>3, <3>4
    <3>9. Bounded' BY <3>2, <3>7, <3>8 DEF History, Bounded
    <3>10. Apart' BY <2>4, <3>2, <3>8 DEF History, Apart
    <3>11. \A n : Kept(n) => Kept(n)' BY <3>1, <3>2, KeptBySeed
    <3>12. Waiting' /\ AckedIsKept' BY <2>3, <3>2, <3>11 DEF History, Waiting, AckedIsKept
    <3> QED BY <3>6, <3>9, <3>10, <3>12 DEF History
  <2>12. ASSUME NEW p \in posts, InsertSnapshot(p) PROVE History'
    <3> DEFINE r == [id |-> p.id, text |-> p.text]  q == [p EXCEPT !.pc = "prune"]
    <3>1. r \in Row /\ r.id = p.id /\ r.text = p.text BY <2>4, RowTypes DEF PageSetting
    <3>2. snaps' = Append(snaps, r) /\ posts' = (posts \ {p}) \cup {q} /\ saves' = saves /\ acked' = acked
          /\ p.pc = "sent"
      BY <2>12 DEF InsertSnapshot
    <3>3. q.id = p.id /\ q.pc = "prune" /\ q.text = p.text BY <2>4 DEF Post
    <3> HIDE DEF r, q
    <3>4. /\ Len(snaps) \in Nat /\ DOMAIN snaps = 1..Len(snaps) /\ DOMAIN snaps' = 1..(Len(snaps) + 1)
          /\ \A i \in DOMAIN snaps : snaps'[i] = snaps[i]
          /\ snaps'[Len(snaps) + 1] = r
      BY <3>1, <3>2, AppendedIs
    <3>5. \A i \in DOMAIN snaps' : i = Len(snaps) + 1 \/ i \in DOMAIN snaps BY <3>4
    <3>6. \A i \in DOMAIN snaps : snaps[i].id # p.id BY <3>2 DEF History, Apart
    <3>7. ASSUME NEW i \in DOMAIN snaps', NEW j \in DOMAIN snaps'
          PROVE  /\ i < j /\ snaps'[j].id = 0 => snaps'[i].id = 0
                 /\ i # j /\ snaps'[i].id = snaps'[j].id => snaps'[i].id = 0
      <4>1. CASE i = Len(snaps) + 1 /\ j = Len(snaps) + 1 BY <4>1
      <4>2. CASE i = Len(snaps) + 1 /\ j \in DOMAIN snaps BY <3>1, <3>4, <3>6, <4>2
      <4>3. CASE i \in DOMAIN snaps /\ j = Len(snaps) + 1 BY <2>4, <3>1, <3>4, <3>6, <4>3
      <4>4. CASE i \in DOMAIN snaps /\ j \in DOMAIN snaps BY <3>4, <4>4 DEF History, InOrder
      <4> QED BY <3>5, <4>1, <4>2, <4>3, <4>4
    <3>8. InOrder' BY <3>7 DEF InOrder
    <3>9. p.id <= saves BY DEF History, Waiting
    <3>10. Bounded' BY <3>1, <3>2, <3>4, <3>5, <3>9 DEF History, Bounded
    <3>11. \A s \in posts \ {p} : s.id # p.id BY DEF History, Apart
    <3>12. ASSUME NEW s \in posts', NEW o \in posts', s.id = o.id PROVE s = o
      BY <3>2, <3>3, <3>11, <3>12 DEF History, Apart
    <3>13. ASSUME NEW s \in posts', s.pc = "sent", NEW i \in DOMAIN snaps' PROVE snaps'[i].id # s.id
      <4>1. s \in posts \ {p} BY <3>2, <3>3, <3>13
      <4>2. CASE i = Len(snaps) + 1 BY <3>1, <3>4, <3>11, <4>1, <4>2
      <4>3. CASE i \in DOMAIN snaps BY <3>4, <3>13, <4>1, <4>3 DEF History, Apart
      <4> QED BY <3>5, <4>2, <4>3
    <3>14. Apart' BY <3>12, <3>13 DEF Apart
    <3>15. \A n : Kept(n) => Kept(n)' BY <2>4, <3>1, <3>2, KeptByAppend
    <3>16. Kept(p.id)'
      <4>1. Len(snaps) + 1 \in DOMAIN snaps' BY <3>4
      <4> QED BY <3>1, <3>4, <4>1 DEF Kept
    <3>17. Stored(p.text)'
      <4>1. Len(snaps) + 1 \in DOMAIN snaps' BY <3>4
      <4>2. r \in Rows' BY <3>4, <4>1 DEF Rows, Range
      <4> QED BY <3>1, <4>2 DEF Stored
    <3>18. ASSUME NEW s \in posts'
           PROVE  s.id <= saves' /\ (s.pc = "prune" => Stored(s.text)' /\ Kept(s.id)')
      <4>1. CASE s = q BY <3>2, <3>3, <3>9, <3>16, <3>17, <4>1
      <4>2. CASE s \in posts BY <2>3, <3>2, <3>15, <4>2 DEF History, Waiting
      <4> QED BY <3>2, <4>1, <4>2
    <3>19. Waiting' BY <3>18 DEF Waiting
    <3>20. AckedIsKept' BY <3>2, <3>15 DEF History, AckedIsKept
    <3> QED BY <3>8, <3>10, <3>14, <3>19, <3>20 DEF History
  <2>13. ASSUME NEW p \in posts, SaveAnswered(p) PROVE History'
    <3>1. snaps' = SubSeq(snaps, Cut + 1, Len(snaps)) BY <2>13, SaveAnsweredKeeps
    <3>2. posts' = posts \ {p} /\ saves' = saves /\ acked' = acked \cup {p.id} /\ p.pc = "prune"
      BY <2>13 DEF SaveAnswered
    <3>3. /\ Cut \in Nat
          /\ \A i \in DOMAIN snaps' : i + Cut \in DOMAIN snaps /\ snaps'[i] = snaps[i + Cut]
      BY <3>1, PrunedIs
    <3>4. \A i \in DOMAIN snaps' : i \in Nat BY <2>2 DEF PageTypes
    <3>5. ASSUME NEW i \in DOMAIN snaps', NEW j \in DOMAIN snaps'
          PROVE  /\ i < j /\ snaps'[j].id = 0 => snaps'[i].id = 0
                 /\ i # j /\ snaps'[i].id = snaps'[j].id => snaps'[i].id = 0
      <4>1. (i < j => i + Cut < j + Cut) /\ (i # j => i + Cut # j + Cut) BY <3>3, <3>4
      <4> QED BY <3>3, <4>1 DEF History, InOrder
    <3>6. InOrder' BY <3>5 DEF InOrder
    <3>7. Bounded' BY <3>2, <3>3 DEF History, Bounded
    <3>8. Apart' BY <3>2, <3>3 DEF History, Apart
    <3>9. \A n : n # 0 /\ Kept(n) => Kept(n)' BY <3>1, KeptByPrune DEF History
    <3>10. ASSUME NEW s \in posts'
           PROVE  s.id <= saves' /\ (s.pc = "prune" => Stored(s.text)' /\ Kept(s.id)')
      BY <2>3, <2>4, <3>2, <3>9 DEF History, Waiting
    <3>11. Waiting' BY <3>10 DEF Waiting
    <3>12. \A n \in acked : n # 0 BY DEF PageTypes
    <3>13. Kept(p.id) BY <3>2 DEF History, Waiting
    <3>14. \A n \in acked' : Kept(n)' BY <2>4, <3>2, <3>9, <3>12, <3>13 DEF History, AckedIsKept
    <3>15. AckedIsKept' BY <3>14 DEF AckedIsKept
    <3> QED BY <3>6, <3>7, <3>8, <3>11, <3>15 DEF History
  <2>14. ASSUME NEW p \in posts, SaveFails(p) PROVE History'
    <3>1. posts' = posts \ {p} /\ snaps' = snaps /\ saves' = saves /\ acked' = acked
      BY <2>14 DEF SaveFails
    <3>2. \A q, r \in posts' : q.id = r.id => q = r BY <3>1 DEF History, Apart
    <3> QED BY <2>1, <2>2, <3>1, <3>2, HistoryBySend
  <2> QED BY <1>2, <2>6, <2>7, <2>8, <2>9, <2>10, <2>11, <2>12, <2>13, <2>14 DEF Next
<1> QED BY <1>1, <1>2

-----------------------------------------------------------------------------
(* The baseline. *)

LEMMA BaselineStep ==
  ASSUME PageSetting, PageTypes, Pages, Baseline, [Next]_(vars)
  PROVE  Baseline'
<1> DEFINE NoneSeeded == \A i \in DOMAIN snaps : snaps[i].id # 0
           OneSeeded == \A i, j \in DOMAIN snaps : snaps[i].id = 0 /\ snaps[j].id = 0 => i = j
<1>1. CASE UNCHANGED vars BY <1>1 DEF vars, Baseline, Seeding
<1>2. ASSUME Next PROVE Baseline'
  <2>1. \A e \in Editors : ed[e] \in PageRec BY DEF PageTypes
  \* Of a step that leaves no page looking for the baseline that did not.
  <2>2. ASSUME \A f \in Editors : Seeding(f)' => Seeding(f), ~overlapped' => ~overlapped,
               ~overlapped => (NoneSeeded => NoneSeeded') /\ (OneSeeded => OneSeeded')
        PROVE  Baseline'
    BY <2>2 DEF Baseline
  <2>3. ASSUME NEW e \in Editors, NEW new, ed' = [ed EXCEPT ![e] = new], new.hyd = "seed" => Seeding(e),
               snaps' = snaps, overlapped' = overlapped
        PROVE  Baseline'
    <3>1. \A f \in Editors : Seeding(f)' => Seeding(f) BY <2>3 DEF Seeding, PageTypes
    <3> QED BY <2>2, <2>3, <3>1
  <2>4. ASSUME NEW e \in Editors, BaselineCheck(e) PROVE Baseline'
    <3>1. overlapped' = (overlapped \/ \E f \in Editors \ {e} : ed[f].hyd = "seed") /\ snaps' = snaps
          /\ ed[e].hyd = "check"
      BY <2>4 DEF BaselineCheck
    <3>2. CASE Generated \in RowIds
      <4>1. ed' = [ed EXCEPT ![e] = [ed[e] EXCEPT !.hyd = "answer", !.found = Resumed(snaps)]]
        BY <2>4, <3>2 DEF BaselineCheck
      <4>2. ed'[e].hyd # "seed" /\ \A f \in Editors : f # e => ed'[f] = ed[f]
        BY <2>1, <4>1 DEF PageTypes, PageRec
      <4>3. \A f \in Editors : Seeding(f)' => Seeding(f) BY <4>2 DEF Seeding
      <4>4. ~overlapped' => ~overlapped BY <3>1 DEF PageTypes
      <4> QED BY <2>2, <3>1, <4>3, <4>4
    <3>3. CASE Generated \notin RowIds
      <4>1. ed' = [ed EXCEPT ![e] = [ed[e] EXCEPT !.hyd = "seed"]] BY <2>4, <3>3 DEF BaselineCheck
      <4>2. NoneSeeded BY <3>3 DEF RowIds, Rows, Range, Generated
      <4>3. ASSUME ~overlapped', NEW f \in Editors, Seeding(f)' PROVE f = e
        <5>1. f # e => ed'[f] = ed[f] BY <4>1 DEF PageTypes
        <5> QED BY <3>1, <4>3, <5>1 DEF Seeding
      <4> QED BY <3>1, <4>2, <4>3 DEF Baseline
    <3> QED BY <3>2, <3>3
  <2>5. ASSUME NEW e \in Editors, BaselineSeed(e) PROVE Baseline'
    <3> DEFINE r == [id |-> Generated, text |-> Draft]
    <3>1. r \in Row BY RowTypes DEF PageSetting
    <3>2. snaps' = << r >> \o snaps /\ overlapped' = overlapped /\ Seeding(e)
          /\ ed' = [ed EXCEPT ![e] = [ed[e] EXCEPT !.hyd = "answer", !.found = Resumed(snaps')]]
      BY <2>5 DEF BaselineSeed, Seeding
    <3> HIDE DEF r
    <3>3. ed'[e].hyd # "seed" /\ \A f \in Editors : f # e => ed'[f] = ed[f]
      BY <2>1, <3>2 DEF PageTypes, PageRec
    <3>4. ASSUME ~overlapped PROVE (\A f \in Editors : ~Seeding(f)') /\ OneSeeded'
      <4>1. \A f \in Editors : Seeding(f) => f = e BY <3>2, <3>4 DEF Baseline
      <4>2. \A f \in Editors : ~Seeding(f)' BY <3>3, <4>1 DEF Seeding
      <4>3. NoneSeeded BY <3>2, <3>4 DEF Baseline
      <4>4. /\ Len(snaps) \in Nat /\ DOMAIN snaps = 1..Len(snaps)
            /\ DOMAIN snaps' = 1..(Len(snaps) + 1)
            /\ \A i \in DOMAIN snaps : snaps'[i + 1] = snaps[i]
        BY <3>1, <3>2, SeededIs
      <4>5. ASSUME NEW i \in DOMAIN snaps', i # 1 PROVE snaps'[i].id # 0
        <5>1. i - 1 \in DOMAIN snaps /\ (i - 1) + 1 = i BY <4>4, <4>5
        <5>2. snaps'[i] = snaps[i - 1] BY <4>4, <5>1
        <5> QED BY <4>3, <5>1, <5>2
      <4>6. \A i, j \in DOMAIN snaps' : snaps'[i].id = 0 /\ snaps'[j].id = 0 => i = j BY <4>5
      <4> QED BY <4>2, <4>6
    <3> QED BY <3>2, <3>4 DEF Baseline
  <2>6. ASSUME NEW e \in Editors, Open(e) PROVE Baseline'
    <3>1. ed' = [ed EXCEPT ![e] = [Away EXCEPT !.pc = "open", !.saved = Draft, !.hyd = "check"]]
          /\ snaps' = snaps /\ overlapped' = overlapped
      BY <2>6 DEF Open
    <3>2. [Away EXCEPT !.pc = "open", !.saved = Draft, !.hyd = "check"].hyd = "check"
      BY DEF Away
    <3> QED BY <2>3, <3>1, <3>2
  <2>7. ASSUME NEW e \in Editors,
               \/ Hydrate(e) \/ Type(e) \/ RequestEdit(e)
               \/ EditApplied(e) \/ EditFails(e)
        PROVE  Baseline'
    <3>1. snaps' = snaps /\ overlapped' = overlapped
      BY <2>7 DEF Hydrate, Type, RequestEdit, EditApplied, EditFails
    <3>2. \A f \in Editors : ed'[f].hyd = "seed" => ed[f].hyd = "seed"
      <4> USE <2>1 DEF PageTypes, PageRec
      <4>1. CASE Hydrate(e)
        <5>1. CASE ed[e].found = NoText BY <4>1, <5>1 DEF Hydrate
        <5>2. CASE ed[e].found # NoText BY <4>1, <5>2 DEF Hydrate
        <5> QED BY <5>1, <5>2
      <4>2. CASE Type(e) BY <4>2 DEF Type
      <4>3. CASE RequestEdit(e) BY <4>3 DEF RequestEdit
      <4>4. CASE EditApplied(e) BY <4>4 DEF EditApplied
      <4>5. CASE EditFails(e) BY <4>5 DEF EditFails
      <4> QED BY <2>7, <4>1, <4>2, <4>3, <4>4, <4>5
    <3> QED BY <2>2, <3>1, <3>2 DEF Seeding
  <2>8. ASSUME NEW e \in Editors, Save(e) PROVE Baseline'
    BY <2>2, <2>8 DEF Save, Seeding
  <2>9. ASSUME NEW e \in Editors, Restore(e) PROVE Baseline'
    <3>1. PICK r \in Rows : ed' = [ed EXCEPT ![e].restoring = r.text] \/ ed' = [ed EXCEPT ![e].text = r.text]
      BY <2>9 DEF Restore
    <3>2. \A f \in Editors : ed'[f].hyd = ed[f].hyd BY <2>1, <3>1 DEF PageTypes, PageRec
    <3>3. snaps' = snaps /\ overlapped' = overlapped BY <2>9 DEF Restore
    <3> QED BY <2>2, <3>2, <3>3 DEF Seeding
  <2>10. ASSUME NEW e \in Editors, Leave(e) \/ Teardown(e) \/ Decide(e) PROVE Baseline'
    <3>1. ed' = [ed EXCEPT ![e] = [Away EXCEPT !.pc = "gone"]] /\ snaps' = snaps
          /\ overlapped' = overlapped
      BY <2>10 DEF Leave, Teardown, Decide, Gone
    <3>2. [Away EXCEPT !.pc = "gone"].hyd = "done" BY DEF Away
    <3> QED BY <2>3, <3>1, <3>2
  <2>11. ASSUME NEW p \in posts, InsertSnapshot(p) PROVE Baseline'
    <3> DEFINE r == [id |-> p.id, text |-> p.text]
    <3>1. r \in Row /\ r.id # 0
      <4>1. p \in Post BY DEF PageTypes
      <4> QED BY <4>1, RowTypes DEF PageSetting, Post
    <3>2. snaps' = Append(snaps, r) /\ ed' = ed /\ overlapped' = overlapped
      BY <2>11 DEF InsertSnapshot
    <3> HIDE DEF r
    <3>3. /\ Len(snaps) \in Nat /\ DOMAIN snaps = 1..Len(snaps)
          /\ DOMAIN snaps' = 1..(Len(snaps) + 1)
          /\ \A i \in DOMAIN snaps : snaps'[i] = snaps[i]
          /\ snaps'[Len(snaps) + 1] = r
      BY <3>1, <3>2, AppendedIs
    <3>4. \A i \in DOMAIN snaps' : snaps'[i].id # 0 \/ (i \in DOMAIN snaps /\ snaps'[i] = snaps[i])
      BY <3>1, <3>3
    <3>5. (NoneSeeded => NoneSeeded') /\ (OneSeeded => OneSeeded') BY <3>4
    <3> QED BY <2>2, <3>2, <3>5 DEF Seeding
  <2>12. ASSUME NEW p \in posts, SaveAnswered(p) \/ SaveFails(p) PROVE Baseline'
    <3>1. overlapped' = overlapped BY <2>12 DEF SaveAnswered, SaveFails
    <3>2. \A f \in Editors : ed'[f].hyd = ed[f].hyd
      <4>1. ASSUME NEW e \in Editors, NEW t, NEW kept, NEW gone, Settled(e, t, kept, gone)
            PROVE  \A f \in Editors : ed'[f].hyd = ed[f].hyd
        <5>1. PICK after : ed' = [ed EXCEPT ![e] = [ed[e] EXCEPT !.saved = t, !.text = after,
                                                                !.restoring = NoText]]
          BY <4>1 DEF Settled
        <5> QED BY <2>1, <5>1 DEF PageTypes, PageRec
      <4>2. CASE p.by = NoOne
        <5>1. ed' = ed BY <2>12, <4>2 DEF SaveAnswered, SaveFails
        <5> QED BY <5>1
      <4>3. CASE p.by # NoOne
        <5>1. p.by \in Editors BY <4>3 DEF PageTypes, Post
        <5>2. PICK t, kept, gone : Settled(p.by, t, kept, gone)
          <6>1. CASE SaveAnswered(p) BY <4>3, <6>1 DEF SaveAnswered
          <6>2. CASE SaveFails(p) BY <4>3, <6>2 DEF SaveFails
          <6> QED BY <2>12, <6>1, <6>2
        <5> QED BY <4>1, <5>1, <5>2
      <4> QED BY <4>2, <4>3
    <3>3. (NoneSeeded => NoneSeeded') /\ (OneSeeded => OneSeeded')
      <4>1. CASE SaveAnswered(p)
        <5>1. snaps' = SubSeq(snaps, Cut + 1, Len(snaps)) BY <4>1, SaveAnsweredKeeps
        <5>2. /\ Cut \in Nat /\ snaps' \in Seq(Row)
              /\ \A i \in DOMAIN snaps' : i + Cut \in DOMAIN snaps /\ snaps'[i] = snaps[i + Cut]
          BY <5>1, PrunedIs
        <5>3. \A i, j \in DOMAIN snaps' : i + Cut = j + Cut => i = j
          <6>1. \A i \in DOMAIN snaps' : i \in Nat BY <5>2
          <6>2. Cut \in Nat BY <5>2
          <6> QED BY <6>1, <6>2
        <5> QED BY <5>2, <5>3
      <4>2. CASE SaveFails(p) BY <4>2 DEF SaveFails
      <4> QED BY <2>12, <4>1, <4>2
    <3> QED BY <2>2, <3>1, <3>2, <3>3 DEF Seeding
  <2> QED BY <1>2, <2>4, <2>5, <2>6, <2>7, <2>8, <2>9, <2>10, <2>11, <2>12 DEF Next
<1> QED BY <1>1, <1>2

-----------------------------------------------------------------------------
(* The invariant, and what follows from it. *)

LEMMA PageInvIs ==
  PageInv <=> PageTypes /\ Pages /\ Sent /\ History /\ Owned /\ Baseline /\ EditsFound
BY HistoryIs DEF PageInv, EditsFound, History, Numbered, Histories, Bounded, Apart, Waiting, AckedIsKept

LEMMA PageInit ==
  ASSUME PageSetting, Init
  PROVE  PageInv
<1>1. PageTypes
  <2>1. Away \in PageRec BY AwayIs
  <2>2. 0 \in 0..MaxEdits /\ 0 \in 0..MaxSaves BY DEF PageSetting
  <2>3. ed \in [Editors -> PageRec] BY <2>1 DEF Init
  <2>4. snaps \in Seq(Row) BY DEF Init
  <2>5. /\ posts \subseteq Post /\ edits \in 0..MaxEdits /\ saves \in 0..MaxSaves
        /\ decided \in Text \cup {NoText} /\ acked \subseteq 1..MaxSaves
        /\ excused \subseteq 0..MaxEdits /\ overlapped \in BOOLEAN
    BY <2>2 DEF Init
  <2> QED BY <2>3, <2>4, <2>5 DEF PageTypes
<1>2. Pages
  <2>1. \A e \in Editors : ed[e] = Away BY DEF Init
  <2>2. Away.pc = "closed" BY DEF Away
  <2> QED BY <2>1, <2>2, AwayIs DEF Pages
<1>3. DOMAIN snaps = {} BY DEF Init
<1>4. Sent /\ InOrder /\ Numbered /\ Histories BY <1>3 DEF Init, Sent, InOrder, Numbered, Histories
<1>5. \A e \in Editors : ~Seeding(e) BY AwayIs DEF Init, Seeding
<1>6. Baseline BY <1>3, <1>5 DEF Baseline
<1>7. \A n \in 1..edits : Somewhere(n) BY DEF Init
<1> QED BY <1>1, <1>2, <1>4, <1>6, <1>7 DEF PageInv

LEMMA PageInvStep ==
  ASSUME PageSetting, PageInv, [Next]_(vars)
  PROVE  PageInv'
<1>1. PageTypes /\ Pages /\ Sent /\ History /\ Owned /\ Baseline /\ EditsFound
      /\ \A p \in posts : p.pc = "prune" => Stored(p.text)
  BY PageInvIs, SentIs
<1>2. PageTypes' BY <1>1, PageTypesStep
<1>3. Pages' BY <1>1, PagesStep
<1>4. Owned' /\ EditsFound' BY <1>1, EditsStep
<1>5. History' BY <1>1, HistoryStep
<1>6. Baseline' BY <1>1, BaselineStep
<1>7. InOrder' /\ Numbered' /\ Histories'
  BY <1>5 DEF History, Numbered, Histories, Bounded, Apart, Waiting, AckedIsKept
<1>8. Sent' BY <1>4, <1>5 DEF Sent, History, Waiting, Owned, Held
<1> QED BY <1>2, <1>3, <1>4, <1>6, <1>7, <1>8 DEF PageInv, EditsFound

LEMMA PageInvHolds ==
  ASSUME PageSetting
  PROVE  Spec => []PageInv
<1>1. Init => PageInv BY PageInit
<1>2. PageInv /\ [Next]_(vars) => PageInv' BY PageInvStep
<1> QED BY <1>1, <1>2, PTL DEF Spec

-----------------------------------------------------------------------------
(* The length of the history: a page seeds once, and a save is inserted    *)
(* once; what is not at the front is a save.                               *)

PastSeed == {e \in Editors : ed[e].pc # "closed" /\ ed[e].hyd \in {"answer", "done"}}
Sized == \E z \in Nat : /\ z <= Cardinality(PastSeed)
                        /\ \A i \in DOMAIN snaps : i > z => snaps[i].id # 0

LEMMA SeededCounts ==
  ASSUME PageSetting, PastSeed \subseteq PastSeed'
  PROVE  /\ IsFiniteSet(PastSeed) /\ Cardinality(PastSeed) \in Nat
         /\ IsFiniteSet(PastSeed') /\ Cardinality(PastSeed') \in Nat
         /\ Cardinality(PastSeed) <= Cardinality(PastSeed')
<1>1. PICK S : S = PastSeed' OBVIOUS
<1>2. PastSeed \subseteq Editors /\ S \subseteq Editors BY <1>1 DEF PastSeed
<1>3. IsFiniteSet(PastSeed) /\ IsFiniteSet(S) BY <1>2, FS_Subset DEF PageSetting
<1>4. Cardinality(PastSeed) \in Nat /\ Cardinality(S) \in Nat BY <1>3, FS_CardinalityType
<1>5. Cardinality(PastSeed) <= Cardinality(S) BY <1>1, <1>3, FS_Subset
<1> QED BY <1>1, <1>3, <1>4, <1>5

\* Rows that keep their numbers, or come after those that do.
LEMMA SizedBy ==
  ASSUME PageSetting, Sized, PastSeed \subseteq PastSeed',
         NEW k \in Nat, \A i \in DOMAIN snaps' : /\ i \in Nat
                           /\ \/ snaps'[i].id # 0
                              \/ i + k \in DOMAIN snaps /\ snaps'[i].id = snaps[i + k].id
  PROVE  Sized'
<1>1. PICK z \in Nat : /\ z <= Cardinality(PastSeed)
                       /\ \A i \in DOMAIN snaps : i > z => snaps[i].id # 0
  BY DEF Sized
<1>2. z <= Cardinality(PastSeed') BY <1>1, SeededCounts
<1>3. \A i \in DOMAIN snaps' : i > z => snaps'[i].id # 0
  <2> SUFFICES ASSUME NEW i \in DOMAIN snaps', i > z, i + k \in DOMAIN snaps, i \in Nat,
                      snaps'[i].id = snaps[i + k].id
               PROVE  snaps'[i].id # 0
    OBVIOUS
  <2>1. i + k > z OBVIOUS
  <2> QED BY <1>1, <2>1
<1> QED BY <1>2, <1>3 DEF Sized

LEMMA SizedSame ==
  ASSUME PageSetting, PageTypes, Sized, snaps' = snaps, PastSeed \subseteq PastSeed'
  PROVE  Sized'
<1>1. \A i \in DOMAIN snaps' : i \in Nat /\ i + 0 \in DOMAIN snaps /\ snaps'[i].id = snaps[i + 0].id
  BY DEF PageTypes
<1> QED BY <1>1, SizedBy

LEMMA SeededBySettling ==
  ASSUME PageTypes, NEW e \in Editors,
         NEW s, NEW t, ed' = [ed EXCEPT ![e].saved = s, ![e].text = t, ![e].restoring = NoText]
  PROVE  PastSeed \subseteq PastSeed'
BY DEF PageTypes, PageRec, PastSeed

LEMMA SizedStep ==
  ASSUME PageSetting, PageTypes, Sized, [Next]_(vars)
  PROVE  Sized'
<1>1. CASE UNCHANGED vars BY <1>1, SizedSame DEF vars, PastSeed
<1>2. ASSUME NEW e \in Editors, BaselineSeed(e) PROVE Sized'
  <2> DEFINE r == [id |-> Generated, text |-> Draft]
  <2>1. r \in Row BY RowTypes DEF PageSetting
  <2>2. snaps' = << r >> \o snaps /\ ed[e].hyd = "seed" /\ ed[e].pc = "open"
        /\ ed' = [ed EXCEPT ![e].hyd = "answer", ![e].found = Resumed(snaps')]
    BY <1>2 DEF BaselineSeed
  <2> HIDE DEF r
  <2>3. /\ \A i \in DOMAIN snaps : snaps'[i + 1] = snaps[i]
        /\ DOMAIN snaps = 1..Len(snaps) /\ DOMAIN snaps' = 1..(Len(snaps) + 1) /\ Len(snaps) \in Nat
    BY <2>1, <2>2, SeededIs
  <2>4. e \notin PastSeed BY <2>2 DEF PastSeed
  <2>5. PICK S : S = PastSeed' OBVIOUS
  <2>6. S = PastSeed \cup {e} BY <2>2, <2>5 DEF PageTypes, PageRec, PastSeed
  <2>7. PastSeed \subseteq PastSeed' BY <2>5, <2>6
  <2>8. IsFiniteSet(PastSeed) /\ Cardinality(PastSeed) \in Nat BY <2>7, SeededCounts
  <2>9. Cardinality(PastSeed') = Cardinality(PastSeed) + 1
    BY <2>4, <2>5, <2>6, <2>8, FS_AddElement
  <2>10. PICK z \in Nat : /\ z <= Cardinality(PastSeed)
                          /\ \A i \in DOMAIN snaps : i > z => snaps[i].id # 0
    BY DEF Sized
  <2>11. z + 1 \in Nat /\ z + 1 <= Cardinality(PastSeed') BY <2>8, <2>9, <2>10
  <2>12. ASSUME NEW i \in DOMAIN snaps', i > z + 1 PROVE snaps'[i].id # 0
    <3>1. i - 1 \in DOMAIN snaps /\ i - 1 > z /\ (i - 1) + 1 = i BY <2>3, <2>12
    <3> QED BY <2>3, <2>10, <3>1
  <2> QED BY <2>11, <2>12 DEF Sized
<1>3. ASSUME NEW p \in posts, InsertSnapshot(p) PROVE Sized'
  <2> DEFINE r == [id |-> p.id, text |-> p.text]
  <2>1. r \in Row /\ r.id # 0 BY RowTypes DEF PageSetting, PageTypes, Post
  <2>2. snaps' = Append(snaps, r) /\ PastSeed \subseteq PastSeed'
    BY <1>3 DEF InsertSnapshot, PastSeed
  <2> HIDE DEF r
  <2>3. /\ \A i \in DOMAIN snaps : snaps'[i] = snaps[i]
        /\ snaps'[Len(snaps) + 1] = r
        /\ DOMAIN snaps = 1..Len(snaps) /\ DOMAIN snaps' = 1..(Len(snaps) + 1) /\ Len(snaps) \in Nat
    BY <2>1, <2>2, AppendedIs
  <2>4. ASSUME NEW i \in DOMAIN snaps'
        PROVE  /\ i \in Nat
               /\ \/ snaps'[i].id # 0
                  \/ i + 0 \in DOMAIN snaps /\ snaps'[i].id = snaps[i + 0].id
    <3>1. i \in Nat /\ (i \in DOMAIN snaps \/ i = Len(snaps) + 1) BY <2>3
    <3>2. CASE i \in DOMAIN snaps
      <4>1. i + 0 = i BY <3>1
      <4> QED BY <2>3, <3>1, <3>2, <4>1
    <3>3. CASE i = Len(snaps) + 1 BY <2>1, <2>3, <3>1, <3>3
    <3> QED BY <3>1, <3>2, <3>3
  <2> QED BY <2>2, <2>4, SizedBy
<1>4. ASSUME NEW p \in posts, SaveAnswered(p) PROVE Sized'
  <2>1. snaps' = SubSeq(snaps, Cut + 1, Len(snaps)) BY <1>4, SaveAnsweredKeeps
  <2>2. /\ Cut \in Nat /\ snaps' \in Seq(Row)
        /\ \A i \in DOMAIN snaps' : i + Cut \in DOMAIN snaps /\ snaps'[i] = snaps[i + Cut]
    BY <2>1, PrunedIs
  <2>3. \A i \in DOMAIN snaps' :
          i \in Nat /\ i + Cut \in DOMAIN snaps /\ snaps'[i].id = snaps[i + Cut].id
    BY <2>2
  <2>4. CASE p.by = NoOne
    <3>1. ed' = ed BY <1>4, <2>4 DEF SaveAnswered
    <3> QED BY <2>2, <2>3, <3>1, SizedBy DEF PastSeed
  <2>5. CASE p.by # NoOne
    <3>1. p.by \in Editors BY <2>5 DEF PageTypes, Post
    <3>2. PastSeed \subseteq PastSeed'
      BY <1>4, <2>5, <3>1, SeededBySettling DEF SaveAnswered, Settled
    <3> QED BY <2>2, <2>3, <3>2, SizedBy
  <2> QED BY <2>4, <2>5
<1>5. ASSUME NEW p \in posts, SaveFails(p) PROVE Sized'
  <2>1. snaps' = snaps BY <1>5 DEF SaveFails
  <2>2. CASE p.by = NoOne
    <3>1. ed' = ed BY <1>5, <2>2 DEF SaveFails
    <3> QED BY <2>1, <3>1, SizedSame DEF PastSeed
  <2>3. CASE p.by # NoOne
    <3>1. p.by \in Editors BY <2>3 DEF PageTypes, Post
    <3>2. PastSeed \subseteq PastSeed'
      BY <1>5, <2>3, <3>1, SeededBySettling DEF SaveFails, Settled
    <3> QED BY <2>1, <3>2, SizedSame
  <2> QED BY <2>2, <2>3
<1>6. ASSUME NEW e \in Editors,
             \/ Open(e) \/ BaselineCheck(e) \/ Hydrate(e) \/ Type(e)
             \/ RequestEdit(e) \/ EditApplied(e) \/ EditFails(e) \/ Save(e)
             \/ Restore(e) \/ Leave(e) \/ Teardown(e) \/ Decide(e)
      PROVE  Sized'
  <2>1. snaps' = snaps
    BY <1>6 DEF Open, BaselineCheck, Hydrate, Type, RequestEdit,
       EditApplied, EditFails, Save, Restore, Leave, Teardown,
       Decide
  <2>2. PastSeed \subseteq PastSeed'
    <3>1. CASE Open(e) BY <3>1 DEF Open, PastSeed, PageTypes, PageRec
    <3>2. CASE BaselineCheck(e) BY <3>2 DEF BaselineCheck, PastSeed, PageTypes, PageRec
    <3>3. CASE Hydrate(e) BY <3>3 DEF Hydrate, PastSeed, PageTypes, PageRec
    <3>4. CASE Type(e) \/ RequestEdit(e) \/ EditApplied(e) \/ EditFails(e)
      BY <3>4 DEF Type, RequestEdit, EditApplied, EditFails, PastSeed,
         PageTypes, PageRec
    <3>5. CASE Save(e) BY <3>5 DEF Save, PastSeed
    <3>6. CASE Restore(e)
      <4>1. PICK r \in Rows : \/ ed' = [ed EXCEPT ![e].restoring = r.text]
                                   \/ ed' = [ed EXCEPT ![e].text = r.text]
        BY <3>6 DEF Restore
      <4>2. CASE ed' = [ed EXCEPT ![e].restoring = r.text] BY <4>2 DEF PastSeed, PageTypes, PageRec
      <4>3. CASE ed' = [ed EXCEPT ![e].text = r.text] BY <4>3 DEF PastSeed, PageTypes, PageRec
      <4> QED BY <4>1, <4>2, <4>3
    <3>7. CASE Leave(e) \/ Teardown(e) \/ Decide(e)
      <4>1. ed' = [ed EXCEPT ![e] = [Away EXCEPT !.pc = "gone"]]
        BY <3>7 DEF Leave, Teardown, Decide, Gone
      <4>2. /\ \A f \in Editors \ {e} : ed'[f] = ed[f]
            /\ ed'[e].pc = "gone" /\ ed'[e].hyd = "done"
        BY <4>1 DEF PageTypes, Away
      <4> QED BY <4>2 DEF PastSeed
    <3> QED BY <1>6, <3>1, <3>2, <3>3, <3>4, <3>5, <3>6, <3>7
  <2> QED BY <2>1, <2>2, SizedSame
<1> QED BY <1>1, <1>2, <1>3, <1>4, <1>5, <1>6 DEF Next

LEMMA SizedHolds ==
  ASSUME PageSetting
  PROVE  Spec => []Sized
<1>1. ASSUME Init PROVE Sized
  <2>1. DOMAIN snaps = {} /\ PastSeed \subseteq Editors BY <1>1 DEF Init, PastSeed
  <2>2. IsFiniteSet(PastSeed) BY <2>1, FS_Subset DEF PageSetting
  <2>3. 0 \in Nat /\ 0 <= Cardinality(PastSeed) BY <2>2, FS_CardinalityType
  <2> QED BY <2>1, <2>3 DEF Sized
<1>2. Sized /\ PageInv /\ [Next]_(vars) => Sized' BY SizedStep DEF PageInv
<1> QED BY <1>1, <1>2, PageInvHolds, PTL DEF Spec

\* There are no more versions than saves and pages.
LEMMA SizedMeans ==
  ASSUME PageSetting, PageInv, Sized
  PROVE  TypeOK
<1>1. PICK z \in Nat : /\ z <= Cardinality(PastSeed)
                       /\ \A i \in DOMAIN snaps : i > z => snaps[i].id # 0
  BY DEF Sized
<1>2. Len(snaps) \in Nat /\ DOMAIN snaps = 1..Len(snaps) /\ MaxSaves \in Nat
  BY DEF PageInv, PageTypes, PageSetting
<1>3. Cardinality(Editors) \in Nat /\ z <= Cardinality(Editors)
  <2>1. PastSeed \subseteq Editors BY DEF PastSeed
  <2>2. Cardinality(Editors) \in Nat BY FS_CardinalityType DEF PageSetting
  <2>3. IsFiniteSet(PastSeed) /\ Cardinality(PastSeed) <= Cardinality(Editors)
    BY <2>1, FS_Subset DEF PageSetting
  <2>4. Cardinality(PastSeed) \in Nat BY <2>3, FS_CardinalityType
  <2> QED BY <1>1, <2>2, <2>3, <2>4
<1>4. Len(snaps) <= z => Len(snaps) <= MaxSaves + Cardinality(Editors) BY <1>2, <1>3
<1>5. ASSUME Len(snaps) > z PROVE Len(snaps) <= MaxSaves + Cardinality(Editors)
  <2> DEFINE d == Len(snaps) - z
             f == [k \in 1..d |-> snaps[z + k].id]
  <2>1. d \in Nat /\ z + d = Len(snaps) BY <1>2, <1>5
  <2>2. ASSUME NEW k \in 1..d PROVE z + k \in DOMAIN snaps /\ snaps[z + k].id \in 1..MaxSaves
    <3>1. z + k \in DOMAIN snaps /\ z + k > z BY <1>2, <2>1
    <3>2. snaps[z + k] \in Row BY <3>1 DEF PageInv, PageTypes
    <3>3. snaps[z + k].id \in 0..MaxSaves /\ snaps[z + k].id # 0 BY <1>1, <3>1, <3>2 DEF Row
    <3> QED BY <1>2, <3>1, <3>3
  <2>3. f \in [1..d -> 1..MaxSaves] BY <2>2
  <2>4. ASSUME NEW k \in 1..d, NEW l \in 1..d, f[k] = f[l] PROVE k = l
    <3>1. snaps[z + k].id = snaps[z + l].id BY <2>4
    <3>2. z + k \in DOMAIN snaps /\ z + l \in DOMAIN snaps /\ snaps[z + k].id \in 1..MaxSaves BY <2>2
    <3>3. snaps[z + k].id # 0 BY <1>2, <3>2
    <3>4. InOrder BY DEF PageInv
    <3>5. z + k = z + l BY <3>1, <3>2, <3>3, <3>4 DEF InOrder
    <3> QED BY <2>1, <3>5
  <2>5. f \in Injection(1..d, 1..MaxSaves) BY <2>3, <2>4 DEF Injection, IsInjective
  <2> HIDE DEF f
  <2>6. IsFiniteSet(1..MaxSaves) /\ Cardinality(1..MaxSaves) = MaxSaves BY <1>2, FS_Interval, SMTT(30)
  <2>7. Cardinality(1..d) = d BY <2>1, FS_Interval
  <2>8. d <= MaxSaves BY <2>5, <2>6, <2>7, FS_Injection
  <2> HIDE DEF d
  <2> QED BY <1>2, <1>3, <2>1, <2>8
<1>6. Len(snaps) <= MaxSaves + Cardinality(Editors) BY <1>2, <1>4, <1>5
<1> QED BY <1>6 DEF PageInv, PageTypes, PageRec, TypeOK

\* A history that is full of saved versions has that many.
LEMMA FullCounts ==
  ASSUME PageSetting, PageInv, Full
  PROVE  Cardinality({j \in RowIds : j # Generated}) >= HITL2_SNAPSHOT_KEEP
<1> DEFINE K == HITL2_SNAPSHOT_KEEP  S == {j \in RowIds : j # Generated}  d == Len(snaps) - K
<1>1. K \in Nat \ {0} /\ Len(snaps) \in Nat /\ DOMAIN snaps = 1..Len(snaps) /\ d \in Nat
      /\ d + K = Len(snaps)
  BY DEF PageSetting, PageInv, PageTypes, Full
<1> DEFINE f == [k \in 1..K |-> snaps[d + k].id]
<1>2. ASSUME NEW k \in 1..K PROVE d + k \in DOMAIN snaps /\ d + k > d /\ snaps[d + k].id # 0
  <2>1. d + k \in DOMAIN snaps /\ d + k > d BY <1>1
  <2> QED BY <2>1 DEF Full
<1>3. \A i \in DOMAIN snaps : snaps[i].id \in RowIds BY DEF RowIds, Rows, Range
<1>4. f \in [1..K -> S] BY <1>2, <1>3 DEF Generated
<1>5. ASSUME NEW k \in 1..K, NEW l \in 1..K, f[k] = f[l] PROVE k = l
  <2>1. snaps[d + k].id = snaps[d + l].id BY <1>5
  <2>2. d + k = d + l BY <1>2, <2>1 DEF PageInv, InOrder
  <2> QED BY <1>1, <2>2
<1>6. f \in Injection(1..K, S) BY <1>4, <1>5 DEF Injection, IsInjective
<1>7. S \in SUBSET (0..MaxSaves)
  <2>1. \A i \in DOMAIN snaps : snaps[i].id \in 0..MaxSaves
    <3>1. \A i \in DOMAIN snaps : snaps[i] \in Row BY DEF PageInv, PageTypes
    <3> QED BY <3>1 DEF Row
  <2>2. \A n \in RowIds : \E i \in DOMAIN snaps : n = snaps[i].id BY RowsAre DEF RowIds
  <2> QED BY <2>1, <2>2
<1>8. IsFiniteSet(0..MaxSaves) BY FS_Interval DEF PageSetting
<1>9. IsFiniteSet(S) BY <1>7, <1>8, FS_Subset
<1> HIDE DEF f, S
<1>10. Cardinality(1..K) <= Cardinality(S) BY <1>6, <1>9, FS_Injection
<1>11. Cardinality(1..K) = K BY <1>1, FS_Interval
<1>12. Cardinality(S) \in Nat BY <1>9, FS_CardinalityType
<1>13. Cardinality(S) >= K BY <1>1, <1>10, <1>11, <1>12
<1> QED BY <1>13 DEF S

\* An edit is never lost in silence, whoever types, saves, restores, asks the model, leaves
\* or approves meanwhile (web/lib/run-editor/useSnapshotAutosave.ts).
THEOREM EditsAreNotLost ==
  ASSUME PageSetting
  PROVE  Spec => []NoSilentLoss
<1>1. ASSUME PageInv PROVE NoSilentLoss
  <2> DEFINE Texts == UNION {ed[e].text : e \in {f \in Editors : ed[f].pc = "open"}}
             Sending == UNION {p.text : p \in posts}
             Versions == UNION {r.text : r \in Rows}
             Approved == IF decided = NoText THEN {} ELSE decided
  <2>1. ASSUME NEW n \in 1..edits PROVE n \in excused \cup Texts \cup Sending \cup Versions \cup Approved
    <3>1. Somewhere(n) BY <1>1 DEF PageInv
    <3>2. (\E r \in Rows : n \in r.text) => n \in Versions OBVIOUS
    <3>3. (\E e \in Editors : ed[e].pc = "open" /\ n \in ed[e].text) => n \in Texts OBVIOUS
    <3>4. (\E p \in posts : n \in p.text) => n \in Sending OBVIOUS
    <3>5. decided # NoText /\ n \in decided => n \in Approved OBVIOUS
    <3> HIDE DEF Texts, Sending, Versions, Approved
    <3> QED BY <3>1, <3>2, <3>3, <3>4, <3>5 DEF Somewhere
  <2>2. 1..edits \subseteq excused \cup Texts \cup Sending \cup Versions \cup Approved
    <3> HIDE DEF Texts, Sending, Versions, Approved
    <3> QED BY <2>1
  <2> QED BY <2>2 DEF NoSilentLoss
<1> QED BY <1>1, PageInvHolds, PTL

\* What a page takes for stored is stored: a save whose client was told of it, the text of a
\* page without unsaved changes, and the baseline, once (routes/runs.ts, hitl2-snapshots).
THEOREM StoredIsStored ==
  ASSUME PageSetting
  PROVE  Spec => []HistoryIsTrue
<1>1. ASSUME PageInv PROVE AcknowledgedIsKept
  <2> SUFFICES ASSUME NEW n \in acked, ~Full PROVE n \in RowIds
    BY <1>1, FullCounts DEF AcknowledgedIsKept
  <2>1. Kept(n) BY <1>1 DEF PageInv, Histories
  <2> QED BY <2>1 DEF Kept, RowIds, Rows, Range
<1>2. ASSUME PageInv PROVE CleanIsStored
  BY <1>2 DEF PageInv, Pages, Stored, CleanIsStored
<1>3. ASSUME PageInv PROVE BaselineIsSeededOnce
  <2> SUFFICES ASSUME ~overlapped
               PROVE  Cardinality({i \in DOMAIN snaps : snaps[i].id = Generated}) <= 1
    BY DEF BaselineIsSeededOnce
  <2> DEFINE S == {i \in DOMAIN snaps : snaps[i].id = Generated}
  <2>1. \A i, j \in S : i = j BY <1>3 DEF PageInv, Baseline, Generated
  <2> HIDE DEF S
  <2>2. S = {} \/ \E i : S = {i} BY <2>1
  <2>3. Cardinality(S) <= 1 BY <2>2, FS_EmptySet, FS_Singleton
  <2> QED BY <2>3 DEF S
<1>4. PageInv /\ Sized => HistoryIsTrue BY <1>1, <1>2, <1>3, SizedMeans DEF HistoryIsTrue
<1> QED BY <1>4, PageInvHolds, SizedHolds, PTL

-----------------------------------------------------------------------------
(***************************************************************************)
(* Part three, LedgerDrawer.  MaxEdits and edits stand for what that       *)
(* module calls so.                                                        *)
(***************************************************************************)
CONSTANTS Drawers, Bulks, Carried, Others, NoRow, Asked
VARIABLES row, atGate, list, detail, fetch, form, reqs, foreign

Ledger == INSTANCE LedgerDrawer

LedgerSetting ==
  /\ MaxEdits \in Nat /\ NoRow # Asked
  /\ NoRow \notin [Ledger!Fields -> Int] /\ Asked \notin [Ledger!Fields -> Int]

-----------------------------------------------------------------------------
(* The inductive invariant. *)

\* A row: a value of an edit that was made, or none; a carried field has one.
IsRow(v) ==
  /\ v \in [Ledger!Fields -> Int]
  /\ \A f \in Ledger!Fields : v[f] >= Ledger!Null /\ v[f] <= edits
  /\ \A f \in Carried : v[f] # Ledger!Null

\* What a request carries: also nothing, of a field that a PATCH leaves out.
IsSent(v) ==
  /\ v \in [Ledger!Fields -> Int]
  /\ \A f \in Ledger!Fields : v[f] >= Ledger!Keep /\ v[f] <= edits
  /\ \A f \in Carried : v[f] # Ledger!Null

FormRec == [open : BOOLEAN, val : [Ledger!Fields -> Int], timer : BOOLEAN, dry : BOOLEAN,
            old : SUBSET Ledger!Fields, again : SUBSET Ledger!Fields]
FetchRec == [list : {NoRow, Asked} \cup [Ledger!Fields -> Int],
             detail : {NoRow, Asked} \cup [Ledger!Fields -> Int]]
ReqRec == [id : Nat, by : Ledger!Tabs, kind : {"patch", "approve"}, val : [Ledger!Fields -> Int],
           old : SUBSET Ledger!Fields, pc : {"sent", "ok", "failed"}]

Shapes ==
  /\ atGate \in BOOLEAN /\ edits \in 0..MaxEdits
  /\ list \in [Ledger!Tabs -> [Ledger!Fields -> Int]]
  /\ detail \in [Ledger!Tabs -> {NoRow} \cup [Ledger!Fields -> Int]]
  /\ fetch \in [Ledger!Tabs -> FetchRec] /\ form \in [Ledger!Tabs -> FormRec]
  /\ reqs \subseteq ReqRec /\ foreign \in [Ledger!Tabs -> SUBSET Ledger!Fields]

Values ==
  /\ IsRow(row)
  /\ \A t \in Ledger!Tabs :
       /\ IsRow(list[t]) /\ (detail[t] # NoRow => IsRow(detail[t])) /\ IsRow(form[t].val)
       /\ fetch[t].list \notin {NoRow, Asked} => IsRow(fetch[t].list)
       /\ fetch[t].detail \notin {NoRow, Asked} => IsRow(fetch[t].detail)
       /\ form[t].timer => form[t].open
       /\ form[t].open => detail[t] # NoRow
  /\ \A q \in reqs :
       IsSent(q.val) /\ (q.kind = "approve" => \A f \in Ledger!Fields : q.val[f] # Ledger!Keep)

\* The list that a tab has, or is being sent, shows the row but for what others stored.
Shows(t, v) == \A f \in Ledger!Fields \ foreign[t] : v[f] = row[f]
Lists ==
  \A t \in Ledger!Tabs : (\A q \in reqs : q.by = t => q.pc = "sent") =>
    /\ fetch[t].list = NoRow => Shows(t, list[t])
    /\ fetch[t].list \notin {NoRow, Asked} => Shows(t, fetch[t].list)

\* An open form against a value of its field: beyond it while the timer runs.
Meets(t, f, n) == IF form[t].timer THEN form[t].val[f] >= n ELSE form[t].val[f] = n
FormHolds(t) ==
  \A f \in Ledger!Fields \ (form[t].old \cup form[t].again) :
    /\ \A q \in reqs : q.by = t /\ q.val[f] # Ledger!Keep =>
          /\ q.pc = "sent" => Meets(t, f, q.val[f])
          /\ q.pc = "ok" => Meets(t, f, row[f])
    /\ (\A q \in reqs : q.by = t => q.val[f] = Ledger!Keep) => Meets(t, f, row[f])
Forms == \A t \in Ledger!Tabs : form[t].open => FormHolds(t)

\* A request that is no longer the only one of its tab may be behind on every field, another
\* only on those that it says.
Alone == \A p, q \in reqs : p.by = q.by /\ p # q => p.old = Ledger!Fields
Ahead(q, f) ==
  \/ q.val[f] = Ledger!Keep \/ q.val[f] >= row[f]
  \/ f \in Others /\ q.kind = "approve" /\ q.val[f] = Ledger!Null
Requests == \A q \in reqs : q.pc = "sent" => \A f \in Ledger!Fields \ q.old : Ahead(q, f)

DrawerInv == Shapes /\ Values /\ Lists /\ Forms /\ Alone /\ Requests

-----------------------------------------------------------------------------
(* Fields, rows and requests. *)

LEMMA FieldsAre ==
  /\ Carried \subseteq Ledger!Fields /\ Others \subseteq Ledger!Fields
  /\ \A f \in Ledger!Fields : f \notin Carried => f \in Others
  /\ Drawers \subseteq Ledger!Tabs /\ Bulks \subseteq Ledger!Tabs
  /\ Ledger!Null = -1 /\ Ledger!Keep = -2
BY DEF Ledger!Fields, Ledger!Tabs, Ledger!Null, Ledger!Keep

\* What stands for an answer on its way is not a row.
LEMMA RowIsNoMark ==
  ASSUME LedgerSetting, NEW v, IsRow(v)
  PROVE  v \in [Ledger!Fields -> Int] /\ v # NoRow /\ v # Asked
BY DEF LedgerSetting, IsRow

LEMMA FormTypes ==
  ASSUME Shapes, NEW t \in Ledger!Tabs
  PROVE  /\ form[t] \in FormRec /\ form[t].val \in [Ledger!Fields -> Int]
         /\ form[t].old \subseteq Ledger!Fields /\ form[t].again \subseteq Ledger!Fields
         /\ form[t].open \in BOOLEAN /\ form[t].timer \in BOOLEAN /\ form[t].dry \in BOOLEAN
<1>1. form[t] \in FormRec BY DEF Shapes
<1> QED BY <1>1 DEF FormRec

LEMMA MineAre ==
  ASSUME NEW t
  PROVE  \A q : q \in Ledger!Mine(t) <=> q \in reqs /\ q.by = t
BY DEF Ledger!Mine

\* A request that is posted: it comes beside those of its tab, which are then behind.
Posted(q) ==
  /\ reqs' \subseteq ReqRec
  /\ \A p : p.by # q.by => (p \in reqs' <=> p \in reqs)
  /\ \A p \in reqs' : p.by = q.by =>
        \/ p.val = q.val /\ p.kind = q.kind /\ p.pc = "sent"
        \/ \E r \in reqs : r.by = q.by /\ p.val = r.val /\ p.kind = r.kind /\ p.pc = r.pc
  /\ \A r \in reqs : r.by = q.by =>
        \E p \in reqs' : p.by = q.by /\ p.val = r.val /\ p.kind = r.kind /\ p.pc = r.pc
  /\ \E p \in reqs' : p.by = q.by /\ p.val = q.val
  /\ (\E r \in reqs : r.by = q.by) => \A p \in reqs' : p.by = q.by => p.old = Ledger!Fields
  /\ (\A r \in reqs : r.by # q.by) => \A p \in reqs' : p.by = q.by => p = q

LEMMA SendPosts ==
  ASSUME reqs \subseteq ReqRec, NEW q \in ReqRec, q.pc = "sent", Ledger!Send(q)
  PROVE  Posted(q)
<1> DEFINE Late(p) == [p EXCEPT !.old = Ledger!Fields]
           new == IF Ledger!Mine(q.by) = {} THEN q ELSE Late(q)
<1>1. reqs' = {IF p.by = q.by THEN Late(p) ELSE p : p \in reqs} \cup {new}
  BY DEF Ledger!Send
<1>2. \A p \in ReqRec : /\ Late(p) \in ReqRec /\ Late(p).old = Ledger!Fields
                        /\ Late(p).by = p.by /\ Late(p).val = p.val /\ Late(p).kind = p.kind
                        /\ Late(p).pc = p.pc
  BY DEF ReqRec
<1>3. Ledger!Mine(q.by) = {} <=> \A r \in reqs : r.by # q.by BY DEF Ledger!Mine
<1>4. new \in ReqRec /\ new.by = q.by /\ new.val = q.val /\ new.kind = q.kind /\ new.pc = "sent"
  BY <1>2
<1> HIDE DEF Late
<1>5. reqs' \subseteq ReqRec BY <1>1, <1>2, <1>4
<1>6. \A p : p.by # q.by => (p \in reqs' <=> p \in reqs) BY <1>1, <1>2, <1>4
<1>7. \A p \in reqs' : p.by = q.by =>
        \/ p.val = q.val /\ p.kind = q.kind /\ p.pc = "sent"
        \/ \E r \in reqs : r.by = q.by /\ p.val = r.val /\ p.kind = r.kind /\ p.pc = r.pc
  BY <1>1, <1>2, <1>4
<1>8. \A r \in reqs : r.by = q.by =>
        \E p \in reqs' : p.by = q.by /\ p.val = r.val /\ p.kind = r.kind /\ p.pc = r.pc
  <2> TAKE r \in reqs
  <2> HAVE r.by = q.by
  <2>1. Late(r) \in reqs' BY <1>1
  <2> QED BY <1>2, <2>1
<1>9. \E p \in reqs' : p.by = q.by /\ p.val = q.val
  <2>1. new \in reqs' BY <1>1
  <2> QED BY <1>4, <2>1
<1>10. (\E r \in reqs : r.by = q.by) => \A p \in reqs' : p.by = q.by => p.old = Ledger!Fields
  BY <1>1, <1>2, <1>3
<1>11. (\A r \in reqs : r.by # q.by) => \A p \in reqs' : p.by = q.by => p = q
  BY <1>1, <1>2, <1>3
<1> HIDE DEF new
<1> QED BY <1>5, <1>6, <1>7, <1>8, <1>9, <1>10, <1>11 DEF Posted

\* What a posted request leaves of the invariant.
LEMMA PostedKeeps ==
  ASSUME DrawerInv, NEW q \in ReqRec, Posted(q), row' = row, IsSent(q.val)', edits' >= edits,
         edits' \in Nat,
         q.kind = "approve" => \A f \in Ledger!Fields : q.val[f] # Ledger!Keep,
         (\A r \in reqs : r.by # q.by) => \A f \in Ledger!Fields \ q.old : Ahead(q, f)
  PROVE  Alone' /\ Requests' /\ \A p \in reqs' :
           IsSent(p.val)' /\ (p.kind = "approve" => \A f \in Ledger!Fields : p.val[f] # Ledger!Keep)
<1>1. Alone'
  <2>1. ASSUME NEW p \in reqs', NEW r \in reqs', p.by = r.by, p # r PROVE p.old = Ledger!Fields
    <3>1. CASE p.by # q.by BY <2>1, <3>1 DEF Posted, DrawerInv, Alone
    <3>2. CASE p.by = q.by BY <2>1, <3>2 DEF Posted
    <3> QED BY <3>1, <3>2
  <2> QED BY <2>1 DEF Alone
<1>2. Requests'
  <2>1. ASSUME NEW p \in reqs', p.pc = "sent", NEW f \in Ledger!Fields \ p.old PROVE Ahead(p, f)'
    <3>1. CASE p.by # q.by
      <4>1. Ahead(p, f) BY <2>1, <3>1 DEF Posted, DrawerInv, Requests
      <4> QED BY <4>1 DEF Ahead
    <3>2. CASE p.by = q.by
      <4>1. \A r \in reqs : r.by # q.by BY <2>1, <3>2 DEF Posted
      <4>2. p = q BY <3>2, <4>1 DEF Posted
      <4>3. Ahead(p, f) BY <2>1, <4>1, <4>2
      <4> QED BY <4>3 DEF Ahead
    <3> QED BY <3>1, <3>2
  <2> QED BY <2>1 DEF Requests
<1>3. \A p \in reqs' : IsSent(p.val)' /\ (p.kind = "approve" => \A f \in Ledger!Fields : p.val[f] # Ledger!Keep)
  <2> TAKE p \in reqs'
  <2>1. \A r \in reqs : IsSent(r.val) /\ (r.kind = "approve" => \A f \in Ledger!Fields : r.val[f] # Ledger!Keep)
    BY DEF DrawerInv, Values
  <2>2. edits \in Nat BY DEF DrawerInv, Shapes
  <2>3. \A r \in reqs : IsSent(r.val)' BY <2>1, <2>2 DEF IsSent
  <2>4. CASE p.by # q.by BY <2>1, <2>3, <2>4 DEF Posted
  <2>5. CASE p.by = q.by
    <3>1. CASE p.val = q.val /\ p.kind = q.kind BY <3>1
    <3>2. CASE \E r \in reqs : r.by = q.by /\ p.val = r.val /\ p.kind = r.kind BY <2>1, <2>3, <3>2
    <3> QED BY <2>5, <3>1, <3>2 DEF Posted
  <2> QED BY <2>4, <2>5
<1> QED BY <1>1, <1>2, <1>3

LEMMA PostedLists ==
  ASSUME DrawerInv, NEW q, Posted(q), UNCHANGED <<row, list, fetch, foreign>>
  PROVE  Lists'
<1>1. ASSUME NEW t \in Ledger!Tabs, \A p \in reqs' : p.by = t => p.pc = "sent"
      PROVE  \A p \in reqs : p.by = t => p.pc = "sent"
  <2>1. CASE t = q.by BY <1>1, <2>1 DEF Posted
  <2>2. CASE t # q.by BY <1>1, <2>2 DEF Posted
  <2> QED BY <2>1, <2>2
<1> QED BY <1>1 DEF DrawerInv, Lists, Shows

\* A tab whose form and requests a step leaves alone.
LEMMA SameForm ==
  ASSUME NEW t, FormHolds(t), row' = row, form'[t] = form[t],
         \A p : p.by = t => (p \in reqs' <=> p \in reqs)
  PROVE  FormHolds(t)'
BY DEF FormHolds, Meets

\* One whose form holds fewer claims.
LEMMA LessForm ==
  ASSUME NEW t, FormHolds(t), row' = row, reqs' = reqs,
         form'[t].val = form[t].val, form'[t].timer = form[t].timer,
         form[t].old \subseteq form'[t].old, form'[t].again = form[t].again
  PROVE  FormHolds(t)'
BY DEF FormHolds, Meets

LEMMA InitInv == ASSUME LedgerSetting, Ledger!Init PROVE DrawerInv
<1> DEFINE z == [f \in Ledger!Fields |-> 0]
<1>1. IsRow(z)
  BY DEF IsRow, LedgerSetting, Ledger!Init, Ledger!Null, Ledger!Fields
<1>2. row = z /\ reqs = {} /\ edits = 0 /\ list = [t \in Ledger!Tabs |-> z] BY DEF Ledger!Init
<1>3. \A t \in Ledger!Tabs : /\ form[t] = Ledger!Shut /\ detail[t] = NoRow
                              /\ fetch[t].list = NoRow /\ fetch[t].detail = NoRow /\ list[t] = z
  BY DEF Ledger!Init
<1>4. Ledger!Shut \in FormRec BY DEF Ledger!Shut, FormRec
<1>5. z \in [Ledger!Fields -> Int] OBVIOUS
<1>6. Ledger!Shut.val = z /\ Ledger!Shut.open = FALSE /\ Ledger!Shut.timer = FALSE BY DEF Ledger!Shut
<1> HIDE DEF z
<1>7. Shapes BY <1>2, <1>4, <1>5 DEF Shapes, Ledger!Init, FetchRec, LedgerSetting
<1>8. Values BY <1>1, <1>2, <1>3, <1>6 DEF Values
<1>9. Lists BY <1>2, <1>3 DEF Lists, Shows
<1>10. Forms /\ Alone /\ Requests BY <1>2, <1>3, <1>6 DEF Forms, Alone, Requests
<1> QED BY <1>7, <1>8, <1>9, <1>10 DEF DrawerInv

-----------------------------------------------------------------------------
(* The drawer. *)

LEMMA OpenKeeps ==
  ASSUME LedgerSetting, DrawerInv, NEW t \in Drawers, Ledger!Open(t)
  PROVE  DrawerInv'
<1> DEFINE seed == IF detail[t] # NoRow THEN detail[t] ELSE list[t]
           stale == {f \in Ledger!Fields : detail[t] # NoRow /\ seed[f] # row[f]}
           behind == IF Ledger!Quiet(t) THEN foreign[t] ELSE Ledger!Fields
           new == [Ledger!Shut EXCEPT !.open = TRUE, !.val = seed, !.again = stale, !.old = behind]
<1>1. t \in Ledger!Tabs BY FieldsAre
<1>2. IsRow(seed) BY <1>1 DEF DrawerInv, Values
<1>3. seed \in [Ledger!Fields -> Int] /\ seed # NoRow BY <1>2, RowIsNoMark
<1>4. stale \subseteq Ledger!Fields /\ behind \subseteq Ledger!Fields
  BY <1>1 DEF DrawerInv, Shapes
<1>5. /\ ~form[t].open /\ form' = [form EXCEPT ![t] = new] /\ detail' = [detail EXCEPT ![t] = seed]
      /\ fetch' = [fetch EXCEPT ![t]["detail"] = Asked]
      /\ UNCHANGED <<row, atGate, list, reqs, edits, foreign>>
  BY DEF Ledger!Open, Ledger!Ask
<1>6. ~Ledger!Quiet(t) => behind = Ledger!Fields OBVIOUS
<1>7. Ledger!Quiet(t) => behind = foreign[t] /\ fetch[t].list = NoRow /\ \A q \in reqs : q.by # t
  BY DEF Ledger!Quiet, Ledger!Mine
<1>8. \A f \in Ledger!Fields \ stale : detail[t] # NoRow => seed[f] = row[f] OBVIOUS
<1>9. detail[t] = NoRow => seed = list[t] OBVIOUS
<1>10. /\ new \in FormRec /\ new.open = TRUE /\ new.timer = FALSE /\ new.val = seed /\ new.old = behind
       /\ new.again = stale
  <2> HIDE DEF seed, stale, behind
  <2> QED BY <1>3, <1>4 DEF Ledger!Shut, FormRec
<1> HIDE DEF seed, stale, behind, new
<1>11. /\ \A u \in Ledger!Tabs : u # t => form'[u] = form[u] /\ detail'[u] = detail[u]
       /\ form'[t] = new /\ detail'[t] = seed
       /\ \A u \in Ledger!Tabs : fetch'[u].list = fetch[u].list
       /\ \A u \in Ledger!Tabs : fetch'[u].detail = fetch[u].detail \/ fetch'[u].detail = Asked
  BY <1>1, <1>5 DEF DrawerInv, Shapes, FetchRec
<1>12. Shapes'
  <2>1. fetch' \in [Ledger!Tabs -> FetchRec] BY <1>5 DEF DrawerInv, Shapes, FetchRec
  <2> QED BY <1>3, <1>5, <1>10, <2>1 DEF DrawerInv, Shapes
<1>13. Values'
  <2>1. \A v : IsRow(v)' <=> IsRow(v) BY <1>5 DEF IsRow
  <2> QED BY <1>2, <1>3, <1>5, <1>10, <1>11, <2>1 DEF DrawerInv, Values, IsRow, IsSent
<1>14. Lists' BY <1>5, <1>11 DEF DrawerInv, Lists, Shows
<1>15. FormHolds(t)'
  <2>1. ASSUME NEW f \in Ledger!Fields \ (behind \cup stale)
        PROVE  seed[f] = row[f] /\ \A q \in reqs : q.by # t
    <3>1. Ledger!Quiet(t) BY <1>6
    <3>2. Shows(t, list[t]) BY <1>1, <1>7, <3>1 DEF DrawerInv, Lists
    <3>3. list[t][f] = row[f] BY <1>7, <3>1, <3>2 DEF Shows
    <3> QED BY <1>7, <1>8, <1>9, <3>1, <3>3
  <2> QED BY <1>5, <1>10, <1>11, <2>1 DEF FormHolds, Meets
<1>16. Forms'
  <2>1. ASSUME NEW u \in Ledger!Tabs, form'[u].open, u # t PROVE FormHolds(u)'
    BY <1>5, <1>11, <2>1, SameForm DEF DrawerInv, Forms
  <2> QED BY <1>15, <2>1 DEF Forms
<1>17. Alone' /\ Requests' BY <1>5 DEF DrawerInv, Alone, Requests, Ahead
<1> QED BY <1>12, <1>13, <1>14, <1>16, <1>17 DEF DrawerInv

LEMMA SetFieldKeeps ==
  ASSUME LedgerSetting, DrawerInv, NEW t \in Drawers, NEW g \in Ledger!Fields, Ledger!SetField(t, g)
  PROVE  DrawerInv'
<1>1. t \in Ledger!Tabs BY FieldsAre
<1>2. /\ edits \in 0..MaxEdits /\ edits < MaxEdits /\ edits' = edits + 1 /\ form[t].open
      /\ form' = [form EXCEPT ![t].val[g] = edits + 1, ![t].timer = TRUE]
      /\ UNCHANGED <<row, atGate, list, detail, fetch, reqs, foreign>>
  BY DEF Ledger!SetField, DrawerInv, Shapes
<1>3. MaxEdits \in Nat /\ edits \in Nat /\ edits' \in 0..MaxEdits BY <1>2 DEF LedgerSetting
<1>4. form[t] \in FormRec /\ form \in [Ledger!Tabs -> FormRec] BY <1>1 DEF DrawerInv, Shapes
<1>5. PICK new : new = [form[t] EXCEPT !.val = [form[t].val EXCEPT ![g] = edits + 1], !.timer = TRUE]
  OBVIOUS
<1>6. /\ new \in FormRec /\ new.open = form[t].open /\ new.timer = TRUE /\ new.old = form[t].old
      /\ new.again = form[t].again /\ new.val = [form[t].val EXCEPT ![g] = edits + 1]
  <2>1. PICK w : w = [form[t].val EXCEPT ![g] = edits + 1] OBVIOUS
  <2>2. form[t].val \in [Ledger!Fields -> Int] /\ edits + 1 \in Int BY <1>3, <1>4 DEF FormRec
  <2>3. w \in [Ledger!Fields -> Int] BY <2>1, <2>2
  <2>4. new = [form[t] EXCEPT !.val = w, !.timer = TRUE] BY <1>5, <2>1
  <2>5. new \in FormRec /\ new.open = form[t].open /\ new.timer = TRUE /\ new.old = form[t].old
        /\ new.again = form[t].again /\ new.val = w
    BY <1>4, <2>3, <2>4 DEF FormRec
  <2> QED BY <2>1, <2>5
<1>7. /\ form' = [form EXCEPT ![t] = new] BY <1>2, <1>4, <1>5 DEF FormRec
<1>8. /\ \A u \in Ledger!Tabs : u # t => form'[u] = form[u]
      /\ form'[t] = new /\ form' \in [Ledger!Tabs -> FormRec]
  BY <1>1, <1>4, <1>6, <1>7
<1>9. Shapes' BY <1>2, <1>3, <1>8 DEF DrawerInv, Shapes
<1>10. \A v : IsRow(v) => IsRow(v)' BY <1>2, <1>3 DEF IsRow
<1>11. Values'
  <2>1. form[t].val \in [Ledger!Fields -> Int] /\ IsRow(form[t].val) BY <1>1 DEF DrawerInv, Values, IsRow
  <2>2. new.val \in [Ledger!Fields -> Int] /\ \A h \in Ledger!Fields : new.val[h] = IF h = g THEN edits + 1 ELSE form[t].val[h]
    BY <1>3, <1>6, <2>1
  <2>3. IsRow(new.val)' BY <1>2, <1>3, <2>1, <2>2, FieldsAre DEF IsRow
  <2>4. \A q \in reqs : IsSent(q.val)' BY <1>2, <1>3 DEF DrawerInv, Values, IsSent
  <2>5. (\A q \in reqs : IsSent(q.val) /\ (q.kind = "approve" => \A f \in Ledger!Fields : q.val[f] # Ledger!Keep))'
    BY <1>2, <2>4 DEF DrawerInv, Values
  <2>6. ASSUME NEW u \in Ledger!Tabs
        PROVE (/\ IsRow(list[u]) /\ (detail[u] # NoRow => IsRow(detail[u])) /\ IsRow(form[u].val)
               /\ fetch[u].list \notin {NoRow, Asked} => IsRow(fetch[u].list)
               /\ fetch[u].detail \notin {NoRow, Asked} => IsRow(fetch[u].detail)
               /\ form[u].timer => form[u].open
               /\ form[u].open => detail[u] # NoRow)'
    <3>1. IsRow(list[u])' /\ (detail[u] # NoRow => IsRow(detail[u]))'
          /\ (fetch[u].list \notin {NoRow, Asked} => IsRow(fetch[u].list))'
          /\ (fetch[u].detail \notin {NoRow, Asked} => IsRow(fetch[u].detail))'
      BY <1>2, <1>10 DEF DrawerInv, Values, IsRow
    <3>2. IsRow(form[u].val)'
      <4>1. CASE u = t BY <1>8, <2>3, <4>1 DEF IsRow
      <4>2. CASE u # t BY <1>8, <1>10, <4>2, ZenonT(40) DEF DrawerInv, Values, IsRow
      <4> QED BY <4>1, <4>2
    <3>3. (form[u].timer => form[u].open)' /\ (form[u].open => detail[u] # NoRow)'
      BY <1>2, <1>6, <1>8 DEF DrawerInv, Values
    <3> QED BY <3>1, <3>2, <3>3
  <2>7. IsRow(row)' BY <1>2, <1>10 DEF DrawerInv, Values, IsRow
  <2> QED BY <2>5, <2>6, <2>7 DEF Values
<1>12. Lists' BY <1>2 DEF DrawerInv, Lists, Shows
<1>13. FormHolds(t)'
  <2>1. FormHolds(t) BY <1>1, <1>2 DEF DrawerInv, Forms
  <2>2. row \in [Ledger!Fields -> Int] /\ row[g] <= edits BY DEF DrawerInv, Values, IsRow
  <2>3. \A q \in reqs : q.val \in [Ledger!Fields -> Int] /\ q.val[g] <= edits
    BY DEF DrawerInv, Values, IsSent
  <2>4. form[t].val \in [Ledger!Fields -> Int] BY <1>4 DEF FormRec
  <2>5. new.val[g] = edits + 1 /\ \A f \in Ledger!Fields : f # g => new.val[f] = form[t].val[f]
    BY <1>6, <2>4
  <2>6. ASSUME NEW f \in Ledger!Fields, f # g, NEW n \in Int, Meets(t, f, n) PROVE Meets(t, f, n)'
    BY <1>6, <1>8, <2>4, <2>5, <2>6 DEF Meets
  <2>7. ASSUME NEW n \in Int, n <= edits PROVE Meets(t, g, n)'
    <3>1. form'[t].timer = TRUE /\ form'[t].val[g] = edits + 1 BY <1>6, <1>8, <2>5
    <3>2. edits + 1 >= n BY <1>3, <2>7
    <3> QED BY <3>1, <3>2 DEF Meets
  <2>8. ASSUME NEW f \in Ledger!Fields \ (form[t].old \cup form[t].again)
        PROVE /\ \A q \in reqs : q.by = t /\ q.val[f] # Ledger!Keep =>
                     /\ q.pc = "sent" => Meets(t, f, q.val[f])'
                     /\ q.pc = "ok" => Meets(t, f, row[f])'
              /\ (\A q \in reqs : q.by = t => q.val[f] = Ledger!Keep) => Meets(t, f, row[f])'
    <3>1. \A q \in reqs : q.val[f] \in Int BY <2>3
    <3>2. row[f] \in Int BY <2>2
    <3>3. CASE f = g BY <1>2, <2>2, <2>3, <2>7, <3>1, <3>2, <3>3 DEF Meets
    <3>4. CASE f # g BY <1>2, <2>1, <2>6, <3>1, <3>2, <3>4, ZenonT(40) DEF FormHolds, Meets
    <3> QED BY <3>3, <3>4
  <2> QED BY <1>2, <1>6, <1>8, <2>8 DEF FormHolds, Meets
<1>14. Forms'
  <2>1. ASSUME NEW u \in Ledger!Tabs, form'[u].open, u # t PROVE FormHolds(u)'
    BY <1>2, <1>8, <2>1, SameForm DEF DrawerInv, Forms
  <2> QED BY <1>13, <2>1 DEF Forms
<1>15. Alone' /\ Requests' BY <1>2 DEF DrawerInv, Alone, Requests, Ahead
<1> QED BY <1>9, <1>11, <1>12, <1>14, <1>15 DEF DrawerInv

\* What a change of one form asks of it, when it saves nothing.
LEMMA FormStep ==
  ASSUME LedgerSetting, DrawerInv, NEW t \in Ledger!Tabs, NEW new \in FormRec,
         form' = [form EXCEPT ![t] = new],
         UNCHANGED <<row, atGate, list, detail, fetch, reqs, edits, foreign>>,
         IsRow(new.val), new.timer => new.open, new.open => form[t].open,
         new.open => FormHolds(t)'
  PROVE  DrawerInv'
<1>1. /\ \A u \in Ledger!Tabs : u # t => form'[u] = form[u]
      /\ form'[t] = new /\ form' \in [Ledger!Tabs -> FormRec]
  BY DEF DrawerInv, Shapes
<1>2. Shapes' BY <1>1 DEF DrawerInv, Shapes
<1>3. Values' BY <1>1 DEF DrawerInv, Values, IsRow, IsSent
<1>4. Lists' BY DEF DrawerInv, Lists, Shows
<1>5. Forms'
  <2>1. ASSUME NEW u \in Ledger!Tabs, form'[u].open, u # t PROVE FormHolds(u)'
    BY <1>1, <2>1, SameForm DEF DrawerInv, Forms
  <2> QED BY <1>1, <2>1 DEF Forms
<1>6. Alone' /\ Requests' BY DEF DrawerInv, Alone, Requests, Ahead
<1> QED BY <1>2, <1>3, <1>4, <1>5, <1>6 DEF DrawerInv

LEMMA ShutIs ==
  ASSUME LedgerSetting, DrawerInv
  PROVE  /\ Ledger!Shut \in FormRec /\ Ledger!Shut.open = FALSE /\ Ledger!Shut.timer = FALSE
         /\ IsRow(Ledger!Shut.val)
<1>1. edits \in Nat BY DEF DrawerInv, Shapes
<1> QED BY <1>1, FieldsAre DEF Ledger!Shut, FormRec, IsRow

LEMMA CloseKeeps ==
  ASSUME LedgerSetting, DrawerInv, NEW t \in Drawers, Ledger!Close(t)
  PROVE  DrawerInv'
<1>1. t \in Ledger!Tabs BY FieldsAre
<1>2. form' = [form EXCEPT ![t] = Ledger!Shut]
      /\ UNCHANGED <<row, atGate, list, detail, fetch, reqs, edits, foreign>>
  BY DEF Ledger!Close
<1> QED BY <1>1, <1>2, ShutIs, FormStep

LEMMA PreviewKeeps ==
  ASSUME LedgerSetting, DrawerInv, NEW t \in Drawers, Ledger!Preview(t)
  PROVE  DrawerInv'
<1>1. t \in Ledger!Tabs /\ form[t] \in FormRec /\ form \in [Ledger!Tabs -> FormRec]
  BY FieldsAre DEF DrawerInv, Shapes
<1>2. PICK new : new = [form[t] EXCEPT !.dry = TRUE, !.timer = FALSE,
                                    !.old = IF form[t].timer THEN Ledger!Fields ELSE form[t].old]
  OBVIOUS
<1>3. /\ new \in FormRec /\ new.open = form[t].open /\ new.timer = FALSE /\ new.val = form[t].val
      /\ new.again = form[t].again
      /\ new.old = IF form[t].timer THEN Ledger!Fields ELSE form[t].old
  BY <1>1, <1>2 DEF FormRec
<1>4. form[t].open /\ form' = [form EXCEPT ![t] = new]
      /\ UNCHANGED <<row, atGate, list, detail, fetch, reqs, edits, foreign>>
  BY <1>1, <1>2 DEF Ledger!Preview, FormRec
<1>5. form'[t] = new BY <1>1, <1>4
<1>6. FormHolds(t) /\ IsRow(form[t].val) BY <1>1, <1>4 DEF DrawerInv, Forms, Values
<1>7. FormHolds(t)'
  <2>1. CASE form[t].timer
    <3>1. form'[t].old = Ledger!Fields BY <1>3, <1>5, <2>1
    <3> QED BY <3>1 DEF FormHolds
  <2>2. CASE ~form[t].timer
    <3>1. form'[t].timer = form[t].timer BY <1>1, <1>3, <1>5, <2>2 DEF FormRec
    <3> QED BY <1>3, <1>4, <1>5, <1>6, <2>2, <3>1, LessForm
  <2> QED BY <2>1, <2>2
<1> QED BY <1>1, <1>3, <1>4, <1>6, <1>7, FormStep

LEMMA DismissKeeps ==
  ASSUME LedgerSetting, DrawerInv, NEW t \in Drawers, Ledger!Dismiss(t)
  PROVE  DrawerInv'
<1>1. t \in Ledger!Tabs /\ form[t] \in FormRec /\ form \in [Ledger!Tabs -> FormRec]
  BY FieldsAre DEF DrawerInv, Shapes
<1>2. PICK new : new = [form[t] EXCEPT !.dry = FALSE] OBVIOUS
<1>3. /\ new \in FormRec /\ new.open = form[t].open /\ new.timer = form[t].timer /\ new.val = form[t].val
      /\ new.again = form[t].again /\ new.old = form[t].old
  BY <1>1, <1>2 DEF FormRec
<1>4. form' = [form EXCEPT ![t] = new]
      /\ UNCHANGED <<row, atGate, list, detail, fetch, reqs, edits, foreign>>
  BY <1>1, <1>2 DEF Ledger!Dismiss, FormRec
<1>5. form'[t] = new BY <1>1, <1>4
<1>6. IsRow(form[t].val) /\ (form[t].timer => form[t].open) BY <1>1 DEF DrawerInv, Values
<1>7. new.open => FormHolds(t)'
  <2>1. ASSUME new.open PROVE FormHolds(t)'
    <3>1. FormHolds(t) BY <1>1, <1>3, <2>1 DEF DrawerInv, Forms
    <3> QED BY <1>3, <1>4, <1>5, <3>1, LessForm
  <2> QED BY <2>1
<1> QED BY <1>1, <1>3, <1>4, <1>6, <1>7, FormStep

-----------------------------------------------------------------------------
(* What a tab sends: the drawer's autosave and approval, and the bulk bar. *)

\* A posted request and the form of its tab.
LEMMA PostStep ==
  ASSUME LedgerSetting, DrawerInv, NEW t \in Ledger!Tabs, NEW new \in FormRec, NEW q \in ReqRec,
         form' = [form EXCEPT ![t] = new], Ledger!Send(q), q.pc = "sent", q.by = t,
         UNCHANGED <<row, atGate, list, detail, fetch, foreign>>,
         edits' \in edits .. MaxEdits,
         IsSent(q.val)', q.kind = "approve" => \A f \in Ledger!Fields : q.val[f] # Ledger!Keep,
         (\A r \in reqs : r.by # t) => \A f \in Ledger!Fields \ q.old : Ahead(q, f),
         new.val = form[t].val, new.timer => new.open, new.open = form[t].open,
         Posted(q) /\ new.open => FormHolds(t)'
  PROVE  DrawerInv'
<1>1. Posted(q) BY SendPosts DEF DrawerInv, Shapes
<1>2. edits \in Nat /\ edits' \in 0..MaxEdits /\ edits' \in Nat /\ edits' >= edits /\ MaxEdits \in Nat
  BY DEF LedgerSetting, DrawerInv, Shapes
<1>3. /\ \A u \in Ledger!Tabs : u # t => form'[u] = form[u]
      /\ form'[t] = new /\ form' \in [Ledger!Tabs -> FormRec]
  BY DEF DrawerInv, Shapes
<1>4. Shapes' BY <1>1, <1>2, <1>3 DEF DrawerInv, Shapes, Posted
<1>5. /\ Alone' /\ Requests'
      /\ \A p \in reqs' : IsSent(p.val)' /\ (p.kind = "approve" => \A f \in Ledger!Fields : p.val[f] # Ledger!Keep)
  BY <1>1, <1>2, PostedKeeps
<1>6. \A v : IsRow(v) => IsRow(v)' BY <1>2 DEF IsRow
<1>7. Values'
  <2>1. IsRow(row)' BY <1>6 DEF DrawerInv, Values, IsRow
  <2>2. ASSUME NEW u \in Ledger!Tabs
        PROVE (/\ IsRow(list[u]) /\ (detail[u] # NoRow => IsRow(detail[u])) /\ IsRow(form[u].val)
               /\ fetch[u].list \notin {NoRow, Asked} => IsRow(fetch[u].list)
               /\ fetch[u].detail \notin {NoRow, Asked} => IsRow(fetch[u].detail)
               /\ form[u].timer => form[u].open
               /\ form[u].open => detail[u] # NoRow)'
    <3>1. IsRow(list[u])' /\ (detail[u] # NoRow => IsRow(detail[u]))'
          /\ (fetch[u].list \notin {NoRow, Asked} => IsRow(fetch[u].list))'
          /\ (fetch[u].detail \notin {NoRow, Asked} => IsRow(fetch[u].detail))'
      BY <1>6 DEF DrawerInv, Values, IsRow
    <3>2. form'[u].val = form[u].val /\ form'[u].open = form[u].open
      BY <1>3
    <3>3. IsRow(form[u].val)' BY <1>6, <3>2 DEF DrawerInv, Values, IsRow
    <3>4. (form[u].timer => form[u].open)' /\ (form[u].open => detail[u] # NoRow)'
      BY <1>3, <3>2 DEF DrawerInv, Values
    <3> QED BY <3>1, <3>3, <3>4
  <2> QED BY <1>5, <2>1, <2>2 DEF Values
<1>8. Lists' BY <1>1, PostedLists
<1>9. Forms'
  <2>1. ASSUME NEW u \in Ledger!Tabs, form'[u].open, u # t PROVE FormHolds(u)'
    <3>1. \A p : p.by = u => (p \in reqs' <=> p \in reqs) BY <1>1, <2>1 DEF Posted
    <3> QED BY <1>3, <2>1, <3>1, SameForm DEF DrawerInv, Forms
  <2> QED BY <1>1, <1>3, <2>1 DEF Forms
<1> QED BY <1>4, <1>5, <1>7, <1>8, <1>9 DEF DrawerInv

\* The form is posted as it is, by a tab that has nothing else on its way.
LEMMA FormPosted ==
  ASSUME DrawerInv, NEW t \in Ledger!Tabs, NEW q \in ReqRec, Posted(q),
         q.by = t, q.val = form[t].val, q.pc = "sent", row' = row, form[t].open, FormHolds(t),
         form'[t].val = form[t].val, form'[t].again = form[t].again,
         form'[t].timer \in BOOLEAN, form'[t].timer => form[t].timer,
         form'[t].old = IF Ledger!Mine(t) = {} THEN form[t].old ELSE Ledger!Fields
  PROVE  FormHolds(t)'
<1>1. CASE Ledger!Mine(t) # {}
  <2>1. form'[t].old = Ledger!Fields BY <1>1
  <2> QED BY <2>1 DEF FormHolds
<1>2. CASE Ledger!Mine(t) = {}
  <2>1. \A p \in reqs' : p.by = t => p = q BY <1>2 DEF Posted, Ledger!Mine
  <2>2. form[t].val \in [Ledger!Fields -> Int] /\ \A f \in Ledger!Fields : form[t].val[f] # Ledger!Keep
    BY FieldsAre DEF DrawerInv, Values, IsRow
  <2>3. \E p \in reqs' : p.by = t BY DEF Posted
  <2>4. q \in reqs' BY <2>1, <2>3
  <2>5. \A f \in Ledger!Fields : Meets(t, f, form[t].val[f])' BY <2>2 DEF Meets
  <2> QED BY <2>1, <2>2, <2>4, <2>5 DEF FormHolds, Meets
<1> QED BY <1>1, <1>2

\* And it is then not behind on what it does not say.
LEMMA FormAhead ==
  ASSUME DrawerInv, NEW t \in Ledger!Tabs, form[t].open, \A r \in reqs : r.by # t,
         NEW q, q.val = form[t].val, q.old = form[t].old \cup form[t].again
  PROVE  \A f \in Ledger!Fields \ q.old : Ahead(q, f)
<1>1. FormHolds(t) BY DEF DrawerInv, Forms
<1>2. row \in [Ledger!Fields -> Int] /\ form[t].val \in [Ledger!Fields -> Int]
  BY DEF DrawerInv, Values, IsRow
<1>3. ASSUME NEW f \in Ledger!Fields \ q.old PROVE Ahead(q, f)
  <2>1. Meets(t, f, row[f]) BY <1>1 DEF FormHolds
  <2>2. form[t].val[f] >= row[f] BY <1>2, <2>1 DEF Meets
  <2> QED BY <2>2 DEF Ahead
<1> QED BY <1>3

LEMMA RequestIs ==
  ASSUME NEW t, NEW k, NEW v, NEW o, NEW q, q = Ledger!Request(t, k, v, o)
  PROVE  q.by = t /\ q.kind = k /\ q.val = v /\ q.old = o /\ q.pc = "sent" /\ q.id = edits
BY DEF Ledger!Request

LEMMA AutosaveKeeps ==
  ASSUME LedgerSetting, DrawerInv, NEW t \in Drawers, Ledger!Autosave(t)
  PROVE  DrawerInv'
<1>1. t \in Ledger!Tabs BY FieldsAre
<1>2. /\ form[t].timer
      /\ form' = [form EXCEPT ![t].timer = FALSE,
                              ![t].old = IF Ledger!Mine(t) = {} THEN form[t].old ELSE Ledger!Fields]
      /\ UNCHANGED <<row, atGate, list, detail, fetch, edits, foreign>>
  BY <1>1 DEF Ledger!Autosave, DrawerInv, Shapes
<1>3. PICK q : q = Ledger!Request(t, "patch", form[t].val, form[t].old \cup form[t].again) OBVIOUS
<1>4. Ledger!Send(q) BY <1>3 DEF Ledger!Autosave
<1>5. /\ q.by = t /\ q.kind = "patch" /\ q.val = form[t].val /\ q.old = form[t].old \cup form[t].again
      /\ q.pc = "sent"
  BY <1>3, RequestIs
<1>6. edits \in Nat /\ edits \in 0..MaxEdits BY DEF DrawerInv, Shapes
<1>7. q \in ReqRec BY <1>1, <1>3, <1>6, FormTypes DEF DrawerInv, Ledger!Request, ReqRec
<1>8. form[t] \in FormRec /\ form \in [Ledger!Tabs -> FormRec] BY <1>1 DEF DrawerInv, Shapes
<1>9. PICK new : new = [form[t] EXCEPT !.timer = FALSE,
                          !.old = IF Ledger!Mine(t) = {} THEN form[t].old ELSE Ledger!Fields]
  OBVIOUS
<1>10. /\ new \in FormRec /\ new.open = form[t].open /\ new.timer = FALSE /\ new.val = form[t].val
       /\ new.again = form[t].again
       /\ new.old = IF Ledger!Mine(t) = {} THEN form[t].old ELSE Ledger!Fields
  BY <1>8, <1>9 DEF FormRec
<1>11. form' = [form EXCEPT ![t] = new] BY <1>2, <1>8, <1>9 DEF FormRec
<1>12. form[t].open /\ IsRow(form[t].val) BY <1>1, <1>2 DEF DrawerInv, Values
<1>13. FormHolds(t) BY <1>1, <1>12 DEF DrawerInv, Forms
<1>14. form'[t] = new BY <1>1, <1>8, <1>11
<1>15. IsSent(q.val)'
  BY <1>2, <1>5, <1>12, FieldsAre DEF IsRow, IsSent
<1>16. (\A r \in reqs : r.by # t) => \A f \in Ledger!Fields \ q.old : Ahead(q, f)
  BY <1>1, <1>5, <1>12, FormAhead
<1>17. Posted(q) /\ new.open => FormHolds(t)'
  BY <1>1, <1>2, <1>5, <1>7, <1>10, <1>12, <1>13, <1>14, FormPosted
<1>18. edits' \in edits .. MaxEdits BY <1>2, <1>6
<1>19. q.kind # "approve" BY <1>5
<1> QED
  BY <1>1, <1>2, <1>4, <1>5, <1>7, <1>10, <1>11, <1>15, <1>16, <1>17, <1>18, <1>19, PostStep

LEMMA ConfirmKeeps ==
  ASSUME LedgerSetting, DrawerInv, NEW t \in Drawers, Ledger!Confirm(t)
  PROVE  DrawerInv'
<1>1. t \in Ledger!Tabs BY FieldsAre
<1>2. /\ form[t].open /\ edits < MaxEdits /\ edits' = edits + 1
      /\ form' = [form EXCEPT ![t].dry = FALSE,
                              ![t].old = IF Ledger!Mine(t) = {} THEN form[t].old ELSE Ledger!Fields]
      /\ UNCHANGED <<row, atGate, list, detail, fetch, foreign>>
  BY <1>1 DEF Ledger!Confirm, DrawerInv, Shapes
<1>3. PICK q : q = Ledger!Request(t, "approve", form[t].val, form[t].old \cup form[t].again) OBVIOUS
<1>4. Ledger!Send(q) BY <1>3 DEF Ledger!Confirm
<1>5. /\ q.by = t /\ q.kind = "approve" /\ q.val = form[t].val
      /\ q.old = form[t].old \cup form[t].again /\ q.pc = "sent"
  BY <1>3, RequestIs
<1>6. edits \in Nat /\ edits \in 0..MaxEdits /\ MaxEdits \in Nat
  BY DEF LedgerSetting, DrawerInv, Shapes
<1>7. q \in ReqRec BY <1>1, <1>3, <1>6, FormTypes DEF DrawerInv, Ledger!Request, ReqRec
<1>8. form[t] \in FormRec /\ form \in [Ledger!Tabs -> FormRec] BY <1>1 DEF DrawerInv, Shapes
<1>9. PICK new : new = [form[t] EXCEPT !.dry = FALSE,
                          !.old = IF Ledger!Mine(t) = {} THEN form[t].old ELSE Ledger!Fields]
  OBVIOUS
<1>10. /\ new \in FormRec /\ new.open = form[t].open /\ new.timer = form[t].timer
       /\ new.val = form[t].val /\ new.again = form[t].again
       /\ new.old = IF Ledger!Mine(t) = {} THEN form[t].old ELSE Ledger!Fields
  BY <1>8, <1>9 DEF FormRec
<1>11. form' = [form EXCEPT ![t] = new] BY <1>2, <1>8, <1>9 DEF FormRec
<1>12. IsRow(form[t].val) /\ (form[t].timer => form[t].open) /\ form[t].timer \in BOOLEAN
  BY <1>1, <1>8 DEF DrawerInv, Values, FormRec
<1>13. FormHolds(t) BY <1>1, <1>2 DEF DrawerInv, Forms
<1>14. form'[t] = new BY <1>1, <1>8, <1>11
<1>15. IsSent(q.val)'
  BY <1>2, <1>5, <1>6, <1>12, FieldsAre DEF IsRow, IsSent
<1>16. (\A r \in reqs : r.by # t) => \A f \in Ledger!Fields \ q.old : Ahead(q, f)
  BY <1>1, <1>2, <1>5, FormAhead
<1>17. Posted(q) /\ new.open => FormHolds(t)'
  BY <1>1, <1>2, <1>5, <1>7, <1>10, <1>12, <1>13, <1>14, FormPosted
<1>18. edits' \in edits .. MaxEdits BY <1>2, <1>6
<1>19. \A f \in Ledger!Fields : q.val[f] # Ledger!Keep BY <1>5, <1>12, FieldsAre DEF IsRow
<1> QED
  BY <1>1, <1>2, <1>4, <1>5, <1>7, <1>10, <1>11, <1>12, <1>15, <1>16, <1>17, <1>18, <1>19, PostStep

LEMMA BulkSetKeeps ==
  ASSUME LedgerSetting, DrawerInv, NEW t \in Bulks, NEW g \in Carried, Ledger!BulkSet(t, g)
  PROVE  DrawerInv'
<1>1. t \in Ledger!Tabs /\ g \in Ledger!Fields BY FieldsAre
<1>2. /\ edits < MaxEdits /\ edits' = edits + 1
      /\ form' = [form EXCEPT ![t].old = IF form[t].open THEN form[t].old \cup {g} ELSE form[t].old]
      /\ UNCHANGED <<row, atGate, list, detail, fetch, foreign>>
  BY <1>1 DEF Ledger!BulkSet, DrawerInv, Shapes
<1>3. PICK v : v = [f \in Ledger!Fields |-> IF f = g THEN edits + 1 ELSE Ledger!Keep] OBVIOUS
<1>4. PICK q : q = Ledger!Request(t, "patch", v, {}) OBVIOUS
<1>5. Ledger!Send(q) BY <1>3, <1>4 DEF Ledger!BulkSet
<1>6. q.by = t /\ q.kind = "patch" /\ q.val = v /\ q.old = {} /\ q.pc = "sent"
  BY <1>4, RequestIs
<1>7. edits \in Nat /\ edits \in 0..MaxEdits /\ MaxEdits \in Nat
  BY DEF LedgerSetting, DrawerInv, Shapes
<1>8. v \in [Ledger!Fields -> Int] BY <1>3, <1>7, FieldsAre
<1>9. \A f \in Ledger!Fields : v[f] = IF f = g THEN edits + 1 ELSE Ledger!Keep BY <1>3
<1>10. q \in ReqRec BY <1>1, <1>4, <1>7, <1>8 DEF Ledger!Request, ReqRec
<1>11. form[t] \in FormRec /\ form \in [Ledger!Tabs -> FormRec] BY <1>1 DEF DrawerInv, Shapes
<1>12. PICK new : new = [form[t] EXCEPT !.old = IF form[t].open THEN form[t].old \cup {g} ELSE form[t].old]
  OBVIOUS
<1>13. /\ new \in FormRec /\ new.open = form[t].open /\ new.timer = form[t].timer
       /\ new.val = form[t].val /\ new.again = form[t].again
       /\ new.old = IF form[t].open THEN form[t].old \cup {g} ELSE form[t].old
  BY <1>1, <1>11, <1>12 DEF FormRec
<1>14. form' = [form EXCEPT ![t] = new] BY <1>2, <1>11, <1>12 DEF FormRec
<1>15. form'[t] = new BY <1>1, <1>11, <1>14
<1>16. form[t].timer => form[t].open BY <1>1 DEF DrawerInv, Values
<1>17. IsSent(q.val)'
  <2>1. \A f \in Ledger!Fields : v[f] >= Ledger!Keep /\ v[f] <= edits + 1
    BY <1>7, <1>9, FieldsAre
  <2>2. \A f \in Carried : v[f] # Ledger!Null BY <1>7, <1>9, FieldsAre
  <2> QED BY <1>2, <1>6, <1>8, <2>1, <2>2 DEF IsSent
<1>18. \A f \in Ledger!Fields : Ahead(q, f)
  <2>1. row \in [Ledger!Fields -> Int] /\ row[g] <= edits BY <1>1 DEF DrawerInv, Values, IsRow
  <2>2. v[g] >= row[g] BY <1>1, <1>7, <1>9, <2>1
  <2> QED BY <1>6, <1>9, <2>2 DEF Ahead
<1>19. ASSUME Posted(q), new.open PROVE FormHolds(t)'
  <2>1. FormHolds(t) BY <1>1, <1>13, <1>19 DEF DrawerInv, Forms
  <2>2. ASSUME NEW f \in Ledger!Fields \ (new.old \cup new.again)
        PROVE /\ \A p \in reqs' : p.by = t /\ p.val[f] # Ledger!Keep =>
                     /\ p.pc = "sent" => Meets(t, f, p.val[f])
                     /\ p.pc = "ok" => Meets(t, f, row[f])
              /\ (\A p \in reqs' : p.by = t => p.val[f] = Ledger!Keep) => Meets(t, f, row[f])
    <3>1. f # g /\ f \in Ledger!Fields \ (form[t].old \cup form[t].again) BY <1>13, <1>19
    <3>2. v[f] = Ledger!Keep BY <1>9, <3>1
    <3>3. \A p \in reqs' : p.by = t =>
            \/ p.val[f] = Ledger!Keep
            \/ \E r \in reqs : r.by = t /\ p.val = r.val /\ p.pc = r.pc
      BY <1>6, <1>19, <3>2 DEF Posted
    <3>4. \A r \in reqs : r.by = t => \E p \in reqs' : p.by = t /\ p.val = r.val
      BY <1>6, <1>19 DEF Posted
    <3>5. \A r \in reqs : r.by = t /\ r.val[f] # Ledger!Keep =>
            /\ r.pc = "sent" => Meets(t, f, r.val[f])
            /\ r.pc = "ok" => Meets(t, f, row[f])
      BY <2>1, <3>1 DEF FormHolds
    <3>6. (\A r \in reqs : r.by = t => r.val[f] = Ledger!Keep) => Meets(t, f, row[f])
      BY <2>1, <3>1 DEF FormHolds
    <3>7. \A p \in reqs' : p.by = t /\ p.val[f] # Ledger!Keep =>
            /\ p.pc = "sent" => Meets(t, f, p.val[f])
            /\ p.pc = "ok" => Meets(t, f, row[f])
      BY <3>3, <3>5
    <3>8. (\A p \in reqs' : p.by = t => p.val[f] = Ledger!Keep) => Meets(t, f, row[f])
      BY <3>4, <3>6
    <3> QED BY <3>7, <3>8
  <2>3. \A f, n : Meets(t, f, n)' <=> Meets(t, f, n) BY <1>13, <1>15 DEF Meets
  <2> QED BY <1>2, <1>13, <1>15, <2>2, <2>3 DEF FormHolds, Meets
<1>20. edits' \in edits .. MaxEdits BY <1>2, <1>7
<1>21. q.kind # "approve" BY <1>6
<1> QED
  BY <1>1, <1>2, <1>5, <1>6, <1>10, <1>13, <1>14, <1>16, <1>17, <1>18, <1>19, <1>20, <1>21, PostStep

LEMMA BulkApproveKeeps ==
  ASSUME LedgerSetting, DrawerInv, NEW t \in Bulks, Ledger!BulkApprove(t)
  PROVE  DrawerInv'
<1>1. t \in Ledger!Tabs BY FieldsAre
<1>2. /\ edits < MaxEdits /\ edits' = edits + 1
      /\ form' = [form EXCEPT ![t].old = IF form[t].open THEN Ledger!Fields ELSE form[t].old]
      /\ UNCHANGED <<row, atGate, list, detail, fetch, foreign>>
  BY <1>1 DEF Ledger!BulkApprove, DrawerInv, Shapes
<1>3. PICK v : v = [f \in Ledger!Fields |-> IF f \in Carried THEN list[t][f] ELSE Ledger!Null] OBVIOUS
<1>4. PICK o : o = IF Ledger!Quiet(t) THEN foreign[t] ELSE Ledger!Fields OBVIOUS
<1>5. PICK q : q = Ledger!Request(t, "approve", v, o) OBVIOUS
<1>6. Ledger!Send(q) BY <1>3, <1>4, <1>5 DEF Ledger!BulkApprove
<1>7. q.by = t /\ q.kind = "approve" /\ q.val = v /\ q.old = o /\ q.pc = "sent"
  BY <1>5, RequestIs
<1>8. edits \in Nat /\ edits \in 0..MaxEdits /\ MaxEdits \in Nat
  BY DEF LedgerSetting, DrawerInv, Shapes
<1>9. IsRow(list[t]) BY <1>1 DEF DrawerInv, Values
<1>10. v \in [Ledger!Fields -> Int] BY <1>3, <1>9, FieldsAre DEF IsRow
<1>11. \A f \in Ledger!Fields : v[f] = IF f \in Carried THEN list[t][f] ELSE Ledger!Null BY <1>3
<1>12. o \subseteq Ledger!Fields BY <1>1, <1>4 DEF DrawerInv, Shapes
<1>13. q \in ReqRec BY <1>1, <1>5, <1>8, <1>10, <1>12 DEF Ledger!Request, ReqRec
<1>14. form[t] \in FormRec /\ form \in [Ledger!Tabs -> FormRec] BY <1>1 DEF DrawerInv, Shapes
<1>15. PICK new : new = [form[t] EXCEPT !.old = IF form[t].open THEN Ledger!Fields ELSE form[t].old]
  OBVIOUS
<1>16. /\ new \in FormRec /\ new.open = form[t].open /\ new.timer = form[t].timer
       /\ new.val = form[t].val /\ new.old = IF form[t].open THEN Ledger!Fields ELSE form[t].old
  BY <1>14, <1>15 DEF FormRec
<1>17. form' = [form EXCEPT ![t] = new] BY <1>2, <1>14, <1>15 DEF FormRec
<1>18. form'[t] = new BY <1>1, <1>14, <1>17
<1>19. form[t].timer => form[t].open BY <1>1 DEF DrawerInv, Values
<1>20. IsSent(q.val)'
  <2>1. \A f \in Ledger!Fields : v[f] >= Ledger!Keep /\ v[f] <= edits + 1
    BY <1>8, <1>9, <1>11, FieldsAre DEF IsRow
  <2>2. \A f \in Carried : v[f] # Ledger!Null BY <1>9, <1>11, FieldsAre DEF IsRow
  <2> QED BY <1>2, <1>7, <1>10, <2>1, <2>2 DEF IsSent
<1>21. ASSUME \A r \in reqs : r.by # t, NEW f \in Ledger!Fields \ q.old PROVE Ahead(q, f)
  <2>1. CASE f \in Carried
    <3>1. Ledger!Quiet(t) BY <1>4, <1>7, <1>21
    <3>2. fetch[t].list = NoRow BY <3>1 DEF Ledger!Quiet
    <3>3. Shows(t, list[t]) BY <1>1, <1>21, <3>2 DEF DrawerInv, Lists
    <3>4. v[f] = row[f] BY <1>4, <1>7, <1>11, <1>21, <2>1, <3>1, <3>3 DEF Shows
    <3>5. row[f] \in Int BY <1>21 DEF DrawerInv, Values, IsRow
    <3> QED BY <1>7, <3>4, <3>5 DEF Ahead
  <2>2. CASE f \notin Carried BY <1>7, <1>11, <1>21, <2>2, FieldsAre DEF Ahead
  <2> QED BY <2>1, <2>2
<1>22. new.open => FormHolds(t)' BY <1>16, <1>18 DEF FormHolds
<1>23. edits' \in edits .. MaxEdits BY <1>2, <1>8
<1>24. \A f \in Ledger!Fields : q.val[f] # Ledger!Keep
  BY <1>7, <1>9, <1>11, FieldsAre DEF IsRow
<1> QED
  BY <1>1, <1>2, <1>6, <1>7, <1>13, <1>16, <1>17, <1>19, <1>20, <1>21, <1>22, <1>23, <1>24, PostStep

-----------------------------------------------------------------------------
(* The Worker, and what comes back. *)

\* What a store leaves a row: the request's value, or the one that there was.
LEMMA MergedIs ==
  ASSUME LedgerSetting, DrawerInv, NEW q \in reqs
  PROVE  /\ IsRow(Ledger!Merged(q))
         /\ \A f \in Ledger!Fields :
              /\ \/ Ledger!Merged(q)[f] = q.val[f] /\ q.val[f] # Ledger!Keep
                 \/ Ledger!Merged(q)[f] = row[f] /\ q.val[f] = Ledger!Keep
              /\ f \notin Ledger!Changed(q) => Ledger!Merged(q)[f] = row[f]
<1>1. q \in ReqRec /\ edits \in Nat BY DEF DrawerInv, Shapes
<1>2. q.kind \in {"patch", "approve"} /\ q.val \in [Ledger!Fields -> Int] BY <1>1 DEF ReqRec
<1>3. row \in [Ledger!Fields -> Int] /\ IsRow(row) BY DEF DrawerInv, Values, IsRow
<1>4. IsSent(q.val) /\ (q.kind = "approve" => \A f \in Ledger!Fields : q.val[f] # Ledger!Keep)
  BY DEF DrawerInv, Values
<1>5. PICK m : m = Ledger!Merged(q) OBVIOUS
<1>6. m = [f \in Ledger!Fields |->
             IF q.kind = "patch" /\ (q.val[f] = Ledger!Keep \/ (q.val[f] = Ledger!Null /\ f \in Carried))
             THEN row[f] ELSE q.val[f]]
  BY <1>5 DEF Ledger!Merged
<1>7. m \in [Ledger!Fields -> Int] BY <1>2, <1>3, <1>6
<1>8. \A f \in Ledger!Fields : \/ m[f] = q.val[f] /\ q.val[f] # Ledger!Keep
                               \/ m[f] = row[f] /\ q.val[f] = Ledger!Keep
  <2> TAKE f \in Ledger!Fields
  <2>1. m[f] = IF q.kind = "patch" /\ (q.val[f] = Ledger!Keep \/ (q.val[f] = Ledger!Null /\ f \in Carried))
               THEN row[f] ELSE q.val[f]
    BY <1>6
  <2>2. ~(q.val[f] = Ledger!Null /\ f \in Carried) BY <1>4 DEF IsSent
  <2>3. q.kind # "patch" => q.val[f] # Ledger!Keep BY <1>2, <1>4
  <2>4. CASE q.val[f] = Ledger!Keep
    <3>1. q.kind = "patch" BY <2>3, <2>4
    <3>2. m[f] = row[f] BY <2>1, <2>4, <3>1
    <3> QED BY <2>4, <3>2
  <2>5. CASE q.val[f] # Ledger!Keep
    <3>1. m[f] = q.val[f] BY <2>1, <2>2, <2>5, Zenon
    <3> QED BY <2>5, <3>1
  <2> QED BY <2>4, <2>5
<1>9. IsRow(m)
  <2>1. \A f \in Ledger!Fields : q.val[f] # Ledger!Keep => q.val[f] >= Ledger!Null
    BY <1>2, <1>4, FieldsAre DEF IsSent
  <2>2. \A f \in Ledger!Fields : m[f] >= Ledger!Null /\ m[f] <= edits
    BY <1>3, <1>4, <1>8, <2>1 DEF IsRow, IsSent
  <2>3. \A f \in Carried : m[f] # Ledger!Null BY <1>3, <1>4, <1>8, FieldsAre DEF IsRow, IsSent
  <2> QED BY <1>7, <2>2, <2>3 DEF IsRow
<1>10. \A f \in Ledger!Fields : f \notin Ledger!Changed(q) => m[f] = row[f]
  BY <1>5 DEF Ledger!Changed
<1> QED BY <1>5, <1>8, <1>9, <1>10

\* A request that is stored or refused, or fails.
Finished(q, pc) == [q EXCEPT !.pc = pc]

LEMMA FinishedIs ==
  ASSUME NEW q \in ReqRec, NEW pc \in {"sent", "ok", "failed"}
  PROVE  /\ Finished(q, pc) \in ReqRec /\ Finished(q, pc).by = q.by /\ Finished(q, pc).val = q.val
         /\ Finished(q, pc).old = q.old /\ Finished(q, pc).kind = q.kind /\ Finished(q, pc).pc = pc
BY DEF Finished, ReqRec

LEMMA FailKeeps ==
  ASSUME LedgerSetting, DrawerInv, NEW q \in reqs, Ledger!Fail(q)
  PROVE  DrawerInv'
<1>1. PICK n : n = Finished(q, "failed") OBVIOUS
<1>2. reqs' = (reqs \ {q}) \cup {n}
      /\ UNCHANGED <<row, atGate, list, detail, fetch, form, edits, foreign>>
  BY <1>1 DEF Ledger!Fail, Finished
<1>3. q \in ReqRec BY DEF DrawerInv, Shapes
<1>4. n \in ReqRec /\ n.by = q.by /\ n.val = q.val /\ n.old = q.old /\ n.kind = q.kind /\ n.pc = "failed"
  BY <1>1, <1>3, FinishedIs
<1>5. Shapes' BY <1>2, <1>4 DEF DrawerInv, Shapes
<1>6. Values' BY <1>2, <1>4 DEF DrawerInv, Values, IsRow, IsSent
<1>7. Lists' BY <1>2, <1>4 DEF DrawerInv, Lists, Shows
<1>8. Forms'
  <2>1. ASSUME NEW t \in Ledger!Tabs, form[t].open PROVE FormHolds(t)'
    <3>1. FormHolds(t) BY <2>1 DEF DrawerInv, Forms
    <3> QED BY <1>2, <1>4, <3>1 DEF FormHolds, Meets
  <2> QED BY <1>2, <2>1 DEF Forms
<1>9. Alone' BY <1>2, <1>4 DEF DrawerInv, Alone
<1>10. Requests' BY <1>2, <1>4 DEF DrawerInv, Requests, Ahead
<1> QED BY <1>5, <1>6, <1>7, <1>8, <1>9, <1>10 DEF DrawerInv

LEMMA StoreKeeps ==
  ASSUME LedgerSetting, DrawerInv, NEW q \in reqs, Ledger!Store(q)
  PROVE  DrawerInv'
<1>1. PICK ok \in BOOLEAN : ok <=> (q.kind = "patch" \/ atGate) OBVIOUS
<1>2. PICK n : n = Finished(q, IF ok THEN "ok" ELSE "failed") OBVIOUS
<1> DEFINE Told(p) == IF ok /\ p.by # q.by THEN [p EXCEPT !.old = p.old \cup Ledger!Changed(q)] ELSE p
<1>3. /\ q.pc = "sent" /\ row' = IF ok THEN Ledger!Merged(q) ELSE row
      /\ atGate' = (atGate /\ q.kind = "patch")
      /\ reqs' = {Told(p) : p \in reqs \ {q}} \cup {n}
      /\ foreign' = [t \in Ledger!Tabs |-> IF ok /\ t # q.by THEN foreign[t] \cup Ledger!Changed(q) ELSE foreign[t]]
      /\ form' = [t \in Ledger!Tabs |-> IF ok /\ t # q.by /\ form[t].open
                                          THEN [form[t] EXCEPT !.old = form[t].old \cup Ledger!Changed(q)] ELSE form[t]]
      /\ UNCHANGED <<list, detail, fetch, edits>>
  BY <1>1, <1>2 DEF Ledger!Store, Finished
<1>4. reqs \subseteq ReqRec /\ q \in ReqRec /\ Ledger!Changed(q) \subseteq Ledger!Fields
  BY DEF DrawerInv, Shapes, Ledger!Changed
<1>5. /\ n \in ReqRec /\ n.by = q.by /\ n.val = q.val /\ n.old = q.old /\ n.kind = q.kind
      /\ n.pc = IF ok THEN "ok" ELSE "failed"
  BY <1>2, <1>4, FinishedIs
<1>6. \A p \in reqs : /\ Told(p) \in ReqRec /\ Told(p).by = p.by /\ Told(p).val = p.val
                      /\ Told(p).kind = p.kind /\ Told(p).pc = p.pc
                      /\ Told(p).old = IF ok /\ p.by # q.by THEN p.old \cup Ledger!Changed(q) ELSE p.old
  BY <1>4 DEF ReqRec
<1> HIDE DEF Told
<1>7. /\ \A p \in reqs' : p = n \/ \E r \in reqs : r # q /\ p = Told(r)
      /\ \A r \in reqs : r # q => Told(r) \in reqs'
      /\ n \in reqs'
  BY <1>3
<1>17. \A p \in reqs' : \E r \in reqs :
         /\ p.by = r.by /\ p.val = r.val /\ p.kind = r.kind /\ (r # q => p.pc = r.pc)
         /\ r = q => p = n
  <2> TAKE p \in reqs'
  <2>1. CASE p = n BY <1>5, <2>1
  <2>2. CASE \E r \in reqs : r # q /\ p = Told(r)
    <3>1. PICK r \in reqs : r # q /\ p = Told(r) BY <2>2
    <3>2. p.by = r.by /\ p.val = r.val /\ p.kind = r.kind /\ p.pc = r.pc BY <1>6, <3>1
    <3> QED BY <3>1, <3>2
  <2> QED BY <1>7, <2>1, <2>2
<1>18. \A r \in reqs : \E p \in reqs' : p.by = r.by /\ p.val = r.val /\ (r # q => p.pc = r.pc)
  <2> TAKE r \in reqs
  <2>1. CASE r = q BY <1>5, <1>7, <2>1
  <2>2. CASE r # q
    <3>1. Told(r) \in reqs' BY <1>7, <2>2
    <3>2. Told(r).by = r.by /\ Told(r).val = r.val /\ Told(r).pc = r.pc BY <1>6
    <3> QED BY <3>1, <3>2
  <2> QED BY <2>1, <2>2
<1>8. \A t \in Ledger!Tabs :
        /\ form'[t] \in FormRec /\ form'[t].open = form[t].open /\ form'[t].val = form[t].val
        /\ form'[t].timer = form[t].timer /\ form'[t].again = form[t].again
        /\ form'[t].old = IF ok /\ t # q.by /\ form[t].open THEN form[t].old \cup Ledger!Changed(q) ELSE form[t].old
  <2> TAKE t \in Ledger!Tabs
  <2>1. form[t] \in FormRec BY DEF DrawerInv, Shapes
  <2>2. form'[t] = IF ok /\ t # q.by /\ form[t].open
                   THEN [form[t] EXCEPT !.old = form[t].old \cup Ledger!Changed(q)] ELSE form[t]
    BY <1>3
  <2> QED BY <1>4, <2>1, <2>2 DEF FormRec
<1>9. \A t \in Ledger!Tabs : foreign'[t] = IF ok /\ t # q.by THEN foreign[t] \cup Ledger!Changed(q) ELSE foreign[t]
  BY <1>3
<1>10. /\ IsRow(row) /\ row \in [Ledger!Fields -> Int] /\ IsRow(row') /\ row' \in [Ledger!Fields -> Int]
       /\ \A f \in Ledger!Fields : \/ row'[f] = q.val[f] /\ q.val[f] # Ledger!Keep
                                   \/ row'[f] = row[f] /\ (~ok \/ q.val[f] = Ledger!Keep)
       /\ \A f \in Ledger!Fields : (ok => f \notin Ledger!Changed(q)) => row'[f] = row[f]
  <2>1. IsRow(row) BY DEF DrawerInv, Values
  <2>2. CASE ok
    <3>1. row' = Ledger!Merged(q) BY <1>3, <2>2
    <3>2. IsRow(row') BY <3>1, MergedIs
    <3>3. \A f \in Ledger!Fields :
            /\ \/ row'[f] = q.val[f] /\ q.val[f] # Ledger!Keep
               \/ row'[f] = row[f] /\ q.val[f] = Ledger!Keep
            /\ f \notin Ledger!Changed(q) => row'[f] = row[f]
      BY <3>1, MergedIs
    <3>4. row \in [Ledger!Fields -> Int] /\ row' \in [Ledger!Fields -> Int]
      BY <2>1, <3>2 DEF IsRow
    <3> QED BY <2>1, <2>2, <3>2, <3>3, <3>4
  <2>3. CASE ~ok
    <3>1. row' = row BY <1>3, <2>3
    <3> QED BY <2>1, <2>3, <3>1 DEF IsRow
  <2> QED BY <2>2, <2>3
<1>11. Shapes'
  <2>1. form' \in [Ledger!Tabs -> FormRec] BY <1>3, <1>8
  <2>2. foreign' \in [Ledger!Tabs -> SUBSET Ledger!Fields]
    BY <1>3, <1>4, <1>9 DEF DrawerInv, Shapes
  <2>3. reqs' \subseteq ReqRec BY <1>5, <1>6, <1>7
  <2> QED BY <1>3, <2>1, <2>2, <2>3 DEF DrawerInv, Shapes
<1>12. Values'
  <2>1. \A v : IsRow(v) => IsRow(v)' BY <1>3 DEF IsRow
  <2>2. IsRow(row)' BY <1>10, <2>1 DEF IsRow
  <2>3. (\A t \in Ledger!Tabs :
           /\ IsRow(list[t]) /\ (detail[t] # NoRow => IsRow(detail[t])) /\ IsRow(form[t].val)
           /\ fetch[t].list \notin {NoRow, Asked} => IsRow(fetch[t].list)
           /\ fetch[t].detail \notin {NoRow, Asked} => IsRow(fetch[t].detail)
           /\ form[t].timer => form[t].open
           /\ form[t].open => detail[t] # NoRow)'
    BY <1>3, <1>8 DEF DrawerInv, Values, IsRow
  <2>4. \A p \in reqs : IsSent(p.val)' /\ (p.kind = "approve" => \A f \in Ledger!Fields : p.val[f] # Ledger!Keep)
    BY <1>3 DEF DrawerInv, Values, IsSent
  <2>5. (\A p \in reqs : IsSent(p.val) /\ (p.kind = "approve" => \A f \in Ledger!Fields : p.val[f] # Ledger!Keep))'
    <3> TAKE p \in reqs'
    <3>1. PICK r \in reqs : p.val = r.val /\ p.kind = r.kind BY <1>17
    <3>2. IsSent(r.val)' /\ (r.kind = "approve" => \A f \in Ledger!Fields : r.val[f] # Ledger!Keep) BY <2>4
    <3> QED BY <3>1, <3>2
  <2> QED BY <2>2, <2>3, <2>5 DEF Values
<1>13. Lists'
  <2>1. ASSUME NEW t \in Ledger!Tabs, \A p \in reqs' : p.by = t => p.pc = "sent", NEW v, Shows(t, v)
        PROVE  Shows(t, v)'
    <3>1. t # q.by BY <1>5, <1>7, <2>1
    <3>2. ASSUME NEW f \in Ledger!Fields \ foreign'[t] PROVE v[f] = row'[f]
      <4>1. f \notin foreign[t] /\ (ok => f \notin Ledger!Changed(q)) BY <1>9, <3>1, <3>2
      <4> QED BY <1>10, <2>1, <4>1 DEF Shows
    <3> QED BY <3>2 DEF Shows
  <2>2. ASSUME NEW t \in Ledger!Tabs, \A p \in reqs' : p.by = t => p.pc = "sent"
        PROVE  \A p \in reqs : p.by = t => p.pc = "sent"
    BY <1>3, <1>6, <1>7, <2>2, ZenonT(40)
  <2>3. ASSUME NEW t \in Ledger!Tabs, \A p \in reqs' : p.by = t => p.pc = "sent"
        PROVE  /\ fetch[t].list = NoRow => Shows(t, list[t])
               /\ fetch[t].list \notin {NoRow, Asked} => Shows(t, fetch[t].list)
    BY <2>2, <2>3 DEF DrawerInv, Lists
  <2> QED BY <1>3, <2>1, <2>3 DEF Lists, Shows
<1>14. Forms'
  <2>1. ASSUME NEW t \in Ledger!Tabs, form[t].open PROVE FormHolds(t)'
    <3>1. FormHolds(t) BY <2>1 DEF DrawerInv, Forms
    <3>2. \A f, m : Meets(t, f, m)' <=> Meets(t, f, m) BY <1>8 DEF Meets
    <3>3. ASSUME NEW f \in Ledger!Fields \ (form'[t].old \cup form'[t].again)
          PROVE /\ \A p \in reqs' : p.by = t /\ p.val[f] # Ledger!Keep =>
                       /\ p.pc = "sent" => Meets(t, f, p.val[f])
                       /\ p.pc = "ok" => Meets(t, f, row'[f])
                /\ (\A p \in reqs' : p.by = t => p.val[f] = Ledger!Keep) => Meets(t, f, row'[f])
      <4>1. f \in Ledger!Fields \ (form[t].old \cup form[t].again) BY <1>8, <3>3
      <4>2. /\ \A p \in reqs : p.by = t /\ p.val[f] # Ledger!Keep =>
                   /\ p.pc = "sent" => Meets(t, f, p.val[f])
                   /\ p.pc = "ok" => Meets(t, f, row[f])
            /\ (\A p \in reqs : p.by = t => p.val[f] = Ledger!Keep) => Meets(t, f, row[f])
        BY <3>1, <4>1 DEF FormHolds
      <4>3. CASE t # q.by
        <5>1. row'[f] = row[f] BY <1>8, <1>10, <2>1, <3>3, <4>3
        <5> QED BY <1>17, <1>18, <4>2, <4>3, <5>1
      <4>4. CASE t = q.by /\ q.val[f] = Ledger!Keep
        <5>1. row'[f] = row[f] BY <1>10, <4>1, <4>4
        <5>2. ASSUME NEW p \in reqs', p.by = t, p.val[f] # Ledger!Keep
              PROVE /\ p.pc = "sent" => Meets(t, f, p.val[f])
                    /\ p.pc = "ok" => Meets(t, f, row'[f])
          <6>1. PICK r \in reqs : p.by = r.by /\ p.val = r.val /\ (r # q => p.pc = r.pc) BY <1>17
          <6>2. r # q BY <4>4, <5>2, <6>1
          <6> QED BY <4>2, <5>1, <5>2, <6>1, <6>2
        <5>3. (\A p \in reqs' : p.by = t => p.val[f] = Ledger!Keep) => Meets(t, f, row'[f])
          BY <1>18, <4>2, <5>1
        <5> QED BY <5>2, <5>3
      <4>5. CASE t = q.by /\ q.val[f] # Ledger!Keep
        <5>1. Meets(t, f, q.val[f]) BY <1>3, <4>2, <4>5
        <5>2. ok => row'[f] = q.val[f] BY <1>10, <4>1, <4>5
        <5>3. ASSUME NEW p \in reqs', p.by = t, p.val[f] # Ledger!Keep
              PROVE /\ p.pc = "sent" => Meets(t, f, p.val[f])
                    /\ p.pc = "ok" => Meets(t, f, row'[f])
          <6>1. CASE p = n BY <1>5, <5>1, <5>2, <6>1
          <6>2. CASE \E r \in reqs : r # q /\ p = Told(r)
            <7>1. PICK r \in reqs : r # q /\ p = Told(r) BY <6>2
            <7>2. r.by = t /\ p.val = r.val /\ p.pc = r.pc BY <1>6, <5>3, <7>1
            <7>3. p.pc = "sent" => Meets(t, f, p.val[f]) BY <4>2, <5>3, <7>2
            <7>4. ~ok => row' = row BY <1>3
            <7>5. p.pc = "ok" => Meets(t, f, row'[f]) BY <4>2, <5>1, <5>2, <5>3, <7>2, <7>4
            <7> QED BY <7>3, <7>5
          <6> QED BY <1>7, <6>1, <6>2
        <5>4. \E p \in reqs' : p.by = t /\ p.val[f] # Ledger!Keep BY <1>5, <1>7, <4>5
        <5> QED BY <5>3, <5>4
      <4> QED BY <4>3, <4>4, <4>5
    <3> QED BY <3>2, <3>3 DEF FormHolds, Meets
  <2> QED BY <1>8, <2>1 DEF Forms
<1>15. Alone'
  <2>1. ASSUME NEW p \in reqs', NEW r \in reqs', p.by = r.by, p # r PROVE p.old = Ledger!Fields
    <3>1. Alone BY DEF DrawerInv
    <3>2. CASE p = n
      <4>1. PICK s \in reqs : s # q /\ r = Told(s) BY <1>7, <2>1, <3>2
      <4>2. s.by = q.by BY <1>5, <1>6, <2>1, <3>2, <4>1
      <4>3. q.old = Ledger!Fields BY <3>1, <4>1, <4>2 DEF Alone
      <4> QED BY <1>5, <3>2, <4>3
    <3>3. CASE p # n
      <4>1. PICK s \in reqs : s # q /\ p = Told(s) BY <1>7, <3>3
      <4>2. \E u \in reqs : u # s /\ u.by = s.by
        <5>1. CASE r = n BY <1>5, <1>6, <2>1, <4>1, <5>1
        <5>2. CASE r # n
          <6>1. PICK u \in reqs : u # q /\ r = Told(u) BY <1>7, <5>2
          <6>2. r.by = u.by /\ p.by = s.by BY <1>6, <4>1, <6>1
          <6> QED BY <2>1, <4>1, <6>1, <6>2
        <5> QED BY <5>1, <5>2
      <4>3. s.old = Ledger!Fields BY <3>1, <4>2 DEF Alone
      <4> QED BY <1>4, <1>6, <4>1, <4>3
    <3> QED BY <3>2, <3>3
  <2> QED BY <2>1 DEF Alone
<1>16. Requests'
  <2>1. ASSUME NEW p \in reqs', p.pc = "sent", NEW f \in Ledger!Fields \ p.old PROVE Ahead(p, f)'
    <3>1. PICK r \in reqs : r # q /\ p = Told(r) BY <1>5, <1>7, <2>1
    <3>2. /\ r.by = p.by /\ r.val = p.val /\ r.kind = p.kind /\ r.pc = "sent" /\ f \notin r.old
          /\ ok /\ r.by # q.by => f \notin Ledger!Changed(q)
      BY <1>6, <2>1, <3>1
    <3>3. r.by # q.by BY <2>1, <3>1, <3>2 DEF DrawerInv, Alone
    <3>4. row'[f] = row[f] BY <1>10, <2>1, <3>2, <3>3
    <3>5. Ahead(r, f) BY <2>1, <3>2 DEF DrawerInv, Requests
    <3> QED BY <3>2, <3>4, <3>5 DEF Ahead
  <2> QED BY <2>1 DEF Requests
<1> QED BY <1>11, <1>12, <1>13, <1>14, <1>15, <1>16 DEF DrawerInv

LEMMA AnswerKeeps ==
  ASSUME LedgerSetting, DrawerInv, NEW q \in reqs, Ledger!Answer(q)
  PROVE  DrawerInv'
<1>1. PICK t : t = q.by OBVIOUS
<1>2. q \in ReqRec /\ t \in Ledger!Tabs /\ q.pc \in {"ok", "failed"}
  BY <1>1 DEF DrawerInv, Shapes, ReqRec, Ledger!Answer
<1>3. form[t] \in FormRec /\ form \in [Ledger!Tabs -> FormRec] /\ fetch[t] \in FetchRec
      /\ fetch \in [Ledger!Tabs -> FetchRec]
  BY <1>2 DEF DrawerInv, Shapes
<1>4. PICK new : new = IF q.pc = "ok" /\ q.kind = "approve" THEN Ledger!Shut
                       ELSE IF q.pc = "failed" /\ form[t].open THEN [form[t] EXCEPT !.old = Ledger!Fields]
                       ELSE form[t]
  OBVIOUS
<1>5. PICK got : got = [list |-> Asked, detail |-> IF q.pc = "ok" /\ q.kind = "approve" THEN Asked
                                                  ELSE fetch[t].detail]
  OBVIOUS
<1>6. reqs' = reqs \ {q} /\ form' = [form EXCEPT ![t] = new] /\ fetch' = [fetch EXCEPT ![t] = got]
      /\ UNCHANGED <<row, atGate, list, detail, edits, foreign>>
  BY <1>1, <1>4, <1>5 DEF Ledger!Answer
<1>7. /\ new \in FormRec
      /\ \/ new.open = FALSE /\ new.timer = FALSE /\ IsRow(new.val)
         \/ new.open = TRUE /\ new.old = Ledger!Fields /\ new.val = form[t].val /\ new.timer = form[t].timer
            /\ form[t].open
         \/ new = form[t] /\ (q.pc = "failed" => ~form[t].open)
  <2>1. CASE new = Ledger!Shut BY <2>1, ShutIs
  <2>2. CASE new = [form[t] EXCEPT !.old = Ledger!Fields] /\ form[t].open BY <1>3, <2>2 DEF FormRec
  <2>3. CASE new = form[t] /\ (q.pc = "failed" => ~form[t].open) BY <1>3, <2>3
  <2> QED BY <1>4, <2>1, <2>2, <2>3
<1>8. got \in FetchRec /\ got.list = Asked /\ (got.detail = Asked \/ got.detail = fetch[t].detail)
  BY <1>3, <1>5 DEF FetchRec
<1>9. /\ \A u \in Ledger!Tabs : u # t => form'[u] = form[u] /\ fetch'[u] = fetch[u]
      /\ form'[t] = new /\ form' \in [Ledger!Tabs -> FormRec]
      /\ fetch'[t] = got /\ fetch' \in [Ledger!Tabs -> FetchRec]
  BY <1>2, <1>3, <1>6, <1>7, <1>8
<1>10. Shapes' BY <1>6, <1>9 DEF DrawerInv, Shapes
<1>11. Values'
  <2>1. IsRow(row) /\ \A u \in Ledger!Tabs :
          /\ IsRow(list[u]) /\ (detail[u] # NoRow => IsRow(detail[u])) /\ IsRow(form[u].val)
          /\ fetch[u].list \notin {NoRow, Asked} => IsRow(fetch[u].list)
          /\ fetch[u].detail \notin {NoRow, Asked} => IsRow(fetch[u].detail)
          /\ form[u].timer => form[u].open
          /\ form[u].open => detail[u] # NoRow
    BY DEF DrawerInv, Values
  <2>2. \A u \in Ledger!Tabs :
          /\ IsRow(form'[u].val) /\ (form'[u].timer => form'[u].open)
          /\ form'[u].open => form[u].open
    BY <1>2, <1>7, <1>9, <2>1
  <2>3. \A u \in Ledger!Tabs :
          /\ fetch'[u].list = fetch[u].list \/ fetch'[u].list = Asked
          /\ fetch'[u].detail = fetch[u].detail \/ fetch'[u].detail = Asked
    BY <1>8, <1>9
  <2>4. \A p \in reqs' : p \in reqs BY <1>6
  <2> QED BY <1>6, <2>1, <2>2, <2>3, <2>4 DEF DrawerInv, Values, IsRow, IsSent
<1>12. Lists'
  <2>1. ASSUME NEW u \in Ledger!Tabs, \A p \in reqs' : p.by = u => p.pc = "sent"
        PROVE  (/\ fetch[u].list = NoRow => Shows(u, list[u])
                /\ fetch[u].list \notin {NoRow, Asked} => Shows(u, fetch[u].list))'
    <3>1. CASE u = t BY <1>8, <1>9, <3>1 DEF LedgerSetting
    <3>2. CASE u # t
      <4>1. \A p \in reqs : p.by = u => p.pc = "sent" BY <1>1, <1>6, <2>1, <3>2
      <4> QED BY <1>6, <1>9, <3>2, <4>1 DEF DrawerInv, Lists, Shows
    <3> QED BY <3>1, <3>2
  <2> QED BY <2>1 DEF Lists
<1>13. Forms'
  <2>1. ASSUME NEW u \in Ledger!Tabs, form'[u].open, u # t PROVE FormHolds(u)'
    <3>1. \A p : p.by = u => (p \in reqs' <=> p \in reqs) BY <1>1, <1>6, <2>1
    <3> QED BY <1>6, <1>9, <2>1, <3>1, SameForm DEF DrawerInv, Forms
  <2>2. ASSUME new.open PROVE FormHolds(t)'
    <3>1. CASE new.old = Ledger!Fields BY <1>9, <3>1 DEF FormHolds
    <3>2. CASE new = form[t] /\ (q.pc = "failed" => ~form[t].open)
      <4>1. FormHolds(t) /\ q.pc = "ok" BY <1>2, <2>2, <3>2 DEF DrawerInv, Forms
      <4>3. ASSUME NEW f \in Ledger!Fields \ (new.old \cup new.again)
            PROVE /\ \A p \in reqs' : p.by = t /\ p.val[f] # Ledger!Keep =>
                         /\ p.pc = "sent" => Meets(t, f, p.val[f])
                         /\ p.pc = "ok" => Meets(t, f, row[f])
                  /\ (\A p \in reqs' : p.by = t => p.val[f] = Ledger!Keep) => Meets(t, f, row[f])
        <5>1. /\ \A p \in reqs : p.by = t /\ p.val[f] # Ledger!Keep =>
                     /\ p.pc = "sent" => Meets(t, f, p.val[f])
                     /\ p.pc = "ok" => Meets(t, f, row[f])
              /\ (\A p \in reqs : p.by = t => p.val[f] = Ledger!Keep) => Meets(t, f, row[f])
          BY <3>2, <4>1, <4>3 DEF FormHolds
        <5>2. q.val[f] # Ledger!Keep => Meets(t, f, row[f]) BY <1>1, <4>1, <5>1
        <5>3. ASSUME \A p \in reqs' : p.by = t => p.val[f] = Ledger!Keep PROVE Meets(t, f, row[f])
          <6>1. q.val[f] = Ledger!Keep => \A p \in reqs : p.by = t => p.val[f] = Ledger!Keep
            BY <1>6, <5>3
          <6> QED BY <5>1, <5>2, <6>1
        <5> QED BY <1>6, <5>1, <5>3
      <4>4. form'[t] = form[t] /\ row' = row BY <1>6, <1>9, <3>2
      <4> QED BY <3>2, <4>3, <4>4 DEF FormHolds, Meets
    <3> QED BY <1>7, <2>2, <3>1, <3>2
  <2> QED BY <1>9, <2>1, <2>2 DEF Forms
<1>14. Alone' /\ Requests' BY <1>6 DEF DrawerInv, Alone, Requests, Ahead
<1> QED BY <1>10, <1>11, <1>12, <1>13, <1>14 DEF DrawerInv

\* The reads: the list and the detail are asked for and arrive.
LEMMA ReadKeeps ==
  ASSUME LedgerSetting, DrawerInv, NEW t \in Ledger!Tabs, NEW k \in {"list", "detail"}, Ledger!Read(t, k)
  PROVE  DrawerInv'
<1>1. /\ fetch[t][k] = Asked /\ fetch' = [fetch EXCEPT ![t][k] = row]
      /\ foreign' = IF k = "list" THEN [foreign EXCEPT ![t] = {}] ELSE foreign
      /\ UNCHANGED <<row, atGate, list, detail, form, reqs, edits>>
  BY DEF Ledger!Read
<1>2. IsRow(row) /\ row \in [Ledger!Fields -> Int] /\ row \notin {NoRow, Asked}
  <2>1. IsRow(row) BY DEF DrawerInv, Values
  <2> QED BY <2>1, RowIsNoMark
<1>3. fetch[t] \in FetchRec /\ fetch \in [Ledger!Tabs -> FetchRec] BY DEF DrawerInv, Shapes
<1>4. PICK got : got = [fetch[t] EXCEPT ![k] = row] OBVIOUS
<1>5. /\ got \in FetchRec
      /\ k = "list" => got.list = row /\ got.detail = fetch[t].detail
      /\ k = "detail" => got.detail = row /\ got.list = fetch[t].list
  BY <1>2, <1>3, <1>4 DEF FetchRec
<1>6. fetch' = [fetch EXCEPT ![t] = got] BY <1>1, <1>3, <1>4
<1>7. /\ \A u \in Ledger!Tabs : u # t => fetch'[u] = fetch[u] /\ foreign'[u] = foreign[u]
      /\ fetch'[t] = got /\ fetch' \in [Ledger!Tabs -> FetchRec]
      /\ k = "detail" => foreign'[t] = foreign[t]
      /\ foreign' \in [Ledger!Tabs -> SUBSET Ledger!Fields]
  BY <1>1, <1>3, <1>5, <1>6 DEF DrawerInv, Shapes
<1>8. Shapes' BY <1>1, <1>7 DEF DrawerInv, Shapes
<1>9. Values'
  <2>1. \A u \in Ledger!Tabs :
          /\ fetch'[u].list \notin {NoRow, Asked} => IsRow(fetch'[u].list)
          /\ fetch'[u].detail \notin {NoRow, Asked} => IsRow(fetch'[u].detail)
    BY <1>2, <1>5, <1>7 DEF DrawerInv, Values
  <2> QED BY <1>1, <2>1 DEF DrawerInv, Values, IsRow, IsSent
<1>10. Lists'
  <2>1. ASSUME NEW u \in Ledger!Tabs, \A p \in reqs' : p.by = u => p.pc = "sent"
        PROVE  (/\ fetch[u].list = NoRow => Shows(u, list[u])
                /\ fetch[u].list \notin {NoRow, Asked} => Shows(u, fetch[u].list))'
    <3>1. CASE u = t /\ k = "list"
      <4>1. fetch'[u].list = row /\ row # NoRow BY <1>2, <1>5, <1>7, <3>1
      <4> QED BY <1>1, <4>1 DEF Shows
    <3>2. CASE u # t \/ k = "detail"
      <4>1. fetch'[u].list = fetch[u].list /\ foreign'[u] = foreign[u] BY <1>5, <1>7, <3>2
      <4> QED BY <1>1, <2>1, <4>1 DEF DrawerInv, Lists, Shows
    <3> QED BY <3>1, <3>2
  <2> QED BY <2>1 DEF Lists
<1>11. Forms' BY <1>1 DEF DrawerInv, Forms, FormHolds, Meets
<1>12. Alone' /\ Requests' BY <1>1 DEF DrawerInv, Alone, Requests, Ahead
<1> QED BY <1>8, <1>9, <1>10, <1>11, <1>12 DEF DrawerInv

LEMMA ArriveKeeps ==
  ASSUME LedgerSetting, DrawerInv, NEW t \in Ledger!Tabs, NEW k \in {"list", "detail"}, Ledger!Arrive(t, k)
  PROVE  DrawerInv'
<1>1. /\ fetch[t][k] \notin {NoRow, Asked} /\ fetch' = [fetch EXCEPT ![t][k] = NoRow]
      /\ k = "list" => list' = [list EXCEPT ![t] = fetch[t][k]] /\ detail' = detail
      /\ k = "detail" => detail' = [detail EXCEPT ![t] = fetch[t][k]] /\ list' = list
      /\ UNCHANGED <<row, atGate, form, reqs, edits, foreign>>
  BY DEF Ledger!Arrive
<1>2. fetch[t] \in FetchRec /\ fetch \in [Ledger!Tabs -> FetchRec] BY DEF DrawerInv, Shapes
<1>3. PICK got : got = [fetch[t] EXCEPT ![k] = NoRow] OBVIOUS
<1>4. /\ got \in FetchRec
      /\ k = "list" => got.list = NoRow /\ got.detail = fetch[t].detail
      /\ k = "detail" => got.detail = NoRow /\ got.list = fetch[t].list
  BY <1>2, <1>3 DEF FetchRec
<1>5. fetch' = [fetch EXCEPT ![t] = got] BY <1>1, <1>2, <1>3
<1>6. PICK v : v = fetch[t][k] OBVIOUS
<1>7. IsRow(v) /\ v \in [Ledger!Fields -> Int] /\ v # NoRow
  <2>1. IsRow(v) BY <1>1, <1>6 DEF DrawerInv, Values
  <2> QED BY <2>1, RowIsNoMark
<1>8. /\ \A u \in Ledger!Tabs : u # t => fetch'[u] = fetch[u] /\ list'[u] = list[u] /\ detail'[u] = detail[u]
      /\ fetch'[t] = got /\ fetch' \in [Ledger!Tabs -> FetchRec]
      /\ k = "list" => list'[t] = v /\ detail'[t] = detail[t]
      /\ k = "detail" => detail'[t] = v /\ list'[t] = list[t]
      /\ list' \in [Ledger!Tabs -> [Ledger!Fields -> Int]]
      /\ detail' \in [Ledger!Tabs -> {NoRow} \cup [Ledger!Fields -> Int]]
  BY <1>1, <1>2, <1>4, <1>5, <1>6, <1>7, ZenonT(40) DEF DrawerInv, Shapes
<1>9. Shapes' BY <1>1, <1>8 DEF DrawerInv, Shapes
<1>10. Values'
  <2>1. \A u \in Ledger!Tabs :
          /\ IsRow(list'[u]) /\ (detail'[u] # NoRow => IsRow(detail'[u]))
          /\ fetch'[u].list \notin {NoRow, Asked} => IsRow(fetch'[u].list)
          /\ fetch'[u].detail \notin {NoRow, Asked} => IsRow(fetch'[u].detail)
          /\ form[u].open => detail'[u] # NoRow
    BY <1>4, <1>7, <1>8 DEF DrawerInv, Values
  <2> QED BY <1>1, <2>1 DEF DrawerInv, Values, IsRow, IsSent
<1>11. Lists'
  <2>1. ASSUME NEW u \in Ledger!Tabs, \A p \in reqs' : p.by = u => p.pc = "sent"
        PROVE  (/\ fetch[u].list = NoRow => Shows(u, list[u])
                /\ fetch[u].list \notin {NoRow, Asked} => Shows(u, fetch[u].list))'
    <3>1. CASE u = t /\ k = "list"
      <4>1. fetch[t].list = v /\ v \notin {NoRow, Asked} BY <1>1, <1>6, <3>1
      <4>2. Shows(t, v) BY <1>1, <2>1, <3>1, <4>1 DEF DrawerInv, Lists
      <4>3. fetch'[t].list = NoRow /\ list'[t] = v BY <1>4, <1>8, <3>1
      <4> QED BY <1>1, <3>1, <4>2, <4>3 DEF Shows
    <3>2. CASE u # t \/ k = "detail"
      <4>1. fetch'[u].list = fetch[u].list /\ list'[u] = list[u] BY <1>4, <1>8, <3>2
      <4> QED BY <1>1, <2>1, <4>1 DEF DrawerInv, Lists, Shows
    <3> QED BY <3>1, <3>2
  <2> QED BY <2>1 DEF Lists
<1>12. Forms' BY <1>1 DEF DrawerInv, Forms, FormHolds, Meets
<1>13. Alone' /\ Requests' BY <1>1 DEF DrawerInv, Alone, Requests, Ahead
<1> QED BY <1>9, <1>10, <1>11, <1>12, <1>13 DEF DrawerInv

-----------------------------------------------------------------------------
(* The theorems. *)

LEMMA DrawerKeeps == ASSUME LedgerSetting, DrawerInv, [Ledger!Next]_(Ledger!vars) PROVE DrawerInv'
<1>1. CASE Ledger!Next
  <2>1. ASSUME NEW t \in Drawers, \/ Ledger!Open(t) \/ Ledger!Autosave(t) \/ Ledger!Close(t)
                                  \/ Ledger!Preview(t) \/ Ledger!Dismiss(t) \/ Ledger!Confirm(t)
                                  \/ \E f \in Ledger!Fields : Ledger!SetField(t, f)
        PROVE  DrawerInv'
    BY <2>1, OpenKeeps, AutosaveKeeps, CloseKeeps, PreviewKeeps, DismissKeeps, ConfirmKeeps, SetFieldKeeps
  <2>2. ASSUME NEW t \in Bulks, Ledger!BulkApprove(t) \/ \E f \in Carried : Ledger!BulkSet(t, f)
        PROVE  DrawerInv'
    BY <2>2, BulkApproveKeeps, BulkSetKeeps
  <2>3. ASSUME NEW t \in Ledger!Tabs, NEW k \in {"list", "detail"}, Ledger!Read(t, k) \/ Ledger!Arrive(t, k)
        PROVE  DrawerInv'
    BY <2>3, ReadKeeps, ArriveKeeps
  <2>4. ASSUME NEW q \in reqs, Ledger!Store(q) \/ Ledger!Fail(q) \/ Ledger!Answer(q)
        PROVE  DrawerInv'
    BY <2>4, StoreKeeps, FailKeeps, AnswerKeeps
  <2> QED BY <1>1, <2>1, <2>2, <2>3, <2>4 DEF Ledger!Next
<1>2. CASE UNCHANGED Ledger!vars
  BY <1>2 DEF Ledger!vars, DrawerInv, Shapes, Values, IsRow, IsSent, Lists, Shows, Forms, FormHolds, Meets,
              Alone, Requests, Ahead
<1> QED BY <1>1, <1>2

LEMMA DrawerInvHolds == ASSUME LedgerSetting PROVE Ledger!Spec => []DrawerInv
<1>1. Ledger!Init => DrawerInv BY InitInv
<1>2. DrawerInv /\ [Ledger!Next]_(Ledger!vars) => DrawerInv' BY DrawerKeeps
<1> QED BY <1>1, <1>2, PTL DEF Ledger!Spec

\* The cells of the ledger hold values of edits that were made, and a drawer whose
\* timer runs is open on a run that was read.
THEOREM LedgerTypeOK == ASSUME LedgerSetting PROVE Ledger!Spec => []Ledger!TypeOK
<1>1. ASSUME DrawerInv PROVE Ledger!TypeOK
  <2>1. edits \in 0..MaxEdits /\ MaxEdits \in Nat /\ edits \in Nat
    BY <1>1 DEF LedgerSetting, DrawerInv, Shapes
  <2>2. ASSUME NEW v, IsRow(v) PROVE v \in [Ledger!Fields -> Ledger!Values]
    <3>1. v \in [Ledger!Fields -> Int] /\ \A f \in Ledger!Fields : v[f] >= -1 /\ v[f] <= MaxEdits
      BY <2>1, <2>2, FieldsAre DEF IsRow
    <3>2. \A f \in Ledger!Fields : v[f] \in Ledger!Values
      BY <3>1 DEF Ledger!Values, Ledger!Null
    <3> QED BY <3>1, <3>2
  <2>3. row \in [Ledger!Fields -> Ledger!Values] /\ \A f \in Ledger!Fields : row[f] # Ledger!Keep
    BY <1>1, <2>2, FieldsAre DEF DrawerInv, Values, IsRow
  <2>4. list \in [Ledger!Tabs -> [Ledger!Fields -> Ledger!Values]]
    <3>1. \A t \in Ledger!Tabs : list[t] \in [Ledger!Fields -> Ledger!Values]
      BY <1>1, <2>2 DEF DrawerInv, Values
    <3>2. list \in [Ledger!Tabs -> [Ledger!Fields -> Int]] BY <1>1 DEF DrawerInv, Shapes
    <3> QED BY <3>1, <3>2
  <2>5. detail \in [Ledger!Tabs -> [Ledger!Fields -> Ledger!Values] \cup {NoRow}]
    <3>1. \A t \in Ledger!Tabs : detail[t] = NoRow \/ detail[t] \in [Ledger!Fields -> Ledger!Values]
      BY <1>1, <2>2 DEF DrawerInv, Values
    <3>2. detail \in [Ledger!Tabs -> {NoRow} \cup [Ledger!Fields -> Int]] BY <1>1 DEF DrawerInv, Shapes
    <3> QED BY <3>1, <3>2
  <2>6. \A t \in Ledger!Tabs : form[t].timer => form[t].open /\ detail[t] # NoRow
    BY <1>1 DEF DrawerInv, Values
  <2>7. \A q \in reqs : q.by \in Ledger!Tabs BY <1>1 DEF DrawerInv, Shapes, ReqRec
  <2>8. atGate \in BOOLEAN BY <1>1 DEF DrawerInv, Shapes
  <2> QED BY <2>1, <2>3, <2>4, <2>5, <2>6, <2>7, <2>8 DEF Ledger!TypeOK
<1> QED BY <1>1, DrawerInvHolds, PTL

\* A drawer at rest shows the row: what the debounce, the two caches and the
\* answers of one's own requests do in between loses no field, but those that
\* others stored since, and after overlaps, failures and dropped timers.
THEOREM DrawerShowsTheRow == ASSUME LedgerSetting PROVE Ledger!Spec => []Ledger!DrawerIsCurrent
<1>1. ASSUME DrawerInv PROVE Ledger!DrawerIsCurrent
  <2>1. ASSUME NEW t \in Ledger!Tabs, Ledger!Rests(t),
               NEW f \in Ledger!Fields \ (form[t].old \cup form[t].again)
        PROVE  form[t].val[f] = row[f]
    <3>1. form[t].open /\ ~form[t].timer /\ \A q \in reqs : q.by # t
      BY <2>1 DEF Ledger!Rests, Ledger!Quiet, Ledger!Mine
    <3>2. FormHolds(t) BY <1>1, <3>1 DEF DrawerInv, Forms
    <3>3. Meets(t, f, row[f]) BY <2>1, <3>1, <3>2 DEF FormHolds
    <3> QED BY <3>1, <3>3 DEF Meets
  <2> QED BY <2>1 DEF Ledger!DrawerIsCurrent
<1> QED BY <1>1, DrawerInvHolds, PTL

\* No store takes a field back to an older value, or to none, unless its sender
\* was legitimately behind on that field.
THEOREM FieldsAreKept == ASSUME LedgerSetting PROVE Ledger!Spec => Ledger!FieldsKeep
<1>1. ASSUME DrawerInv, [Ledger!Next]_(Ledger!vars) PROVE [Ledger!FieldsKeepStep]_(Ledger!vars)
  <2>1. ASSUME NEW q \in reqs, Ledger!Store(q), NEW f \in Ledger!Fields, row'[f] < row[f],
               f \notin q.old
        PROVE  f \in Others /\ q.kind = "approve" /\ row'[f] = Ledger!Null
    <3>1. q.pc = "sent" /\ (row' = Ledger!Merged(q) \/ row' = row) BY <2>1 DEF Ledger!Store
    <3>2. Ahead(q, f) BY <1>1, <2>1, <3>1 DEF DrawerInv, Requests
    <3>3. row[f] \in Int /\ q.val[f] \in Int
      BY <1>1, <2>1 DEF DrawerInv, Values, IsRow, IsSent
    <3>4. row'[f] # row[f] BY <2>1, <3>3
    <3>5. row' = Ledger!Merged(q) BY <3>1, <3>4
    <3>6. row'[f] = q.val[f] /\ q.val[f] # Ledger!Keep
      <4>1. \/ row'[f] = q.val[f] /\ q.val[f] # Ledger!Keep
            \/ row'[f] = row[f] /\ q.val[f] = Ledger!Keep
        <5>1. PICK m : m = Ledger!Merged(q) OBVIOUS
        <5>2. (m[f] = q.val[f] /\ q.val[f] # Ledger!Keep) \/ (m[f] = row[f] /\ q.val[f] = Ledger!Keep)
          BY <1>1, <2>1, <5>1, MergedIs
        <5> QED BY <3>5, <5>1, <5>2
      <4> QED BY <3>4, <4>1
    <3>7. ~(q.val[f] >= row[f]) BY <2>1, <3>3, <3>6
    <3> QED BY <3>2, <3>6, <3>7 DEF Ahead
  <2> QED BY <2>1 DEF Ledger!FieldsKeepStep
<1> QED BY <1>1, DrawerInvHolds, PTL DEF Ledger!Spec, Ledger!FieldsKeep

-----------------------------------------------------------------------------
(***************************************************************************)
(* Part four, ReviewNotes.  Writers, acked and reqs stand for what that    *)
(* module calls so.                                                        *)
(***************************************************************************)
CONSTANTS Readers, NoNote, MaxNotes, MaxMessages
VARIABLES run, linked, threads, log, spans, pending, notes, messages, raced, loose, late

Notes == INSTANCE ReviewNotes

NotesSetting == MaxNotes \in Nat /\ MaxMessages \in Nat /\ NoNote \notin Nat

-----------------------------------------------------------------------------
(* The inductive invariant. *)

ThreadRec == [id : Nat, note : Nat, msgs : SUBSET Nat, open : BOOLEAN]
NoteReq == [id : Nat, by : Notes!Tabs, kind : {"create", "reply", "resolve", "remove"},
            thread : Nat, note : Nat, msgs : SUBSET Nat,
            pc : {"sent", "insert", "log", "write", "ok"}]

NoteTypes ==
  /\ run \in {"there", "unlinked", "log", "gone"} /\ linked \in BOOLEAN
  /\ notes \in Nat /\ messages \in Nat
  /\ threads \subseteq ThreadRec /\ IsFiniteSet(threads) /\ reqs \subseteq NoteReq
  /\ spans \in [Notes!Tabs -> SUBSET (1 .. notes)]
  /\ pending \in [Notes!Tabs -> (1 .. notes) \cup {NoNote}]
  /\ \A th \in threads : th.id <= messages /\ th.note \in 1 .. notes /\ th.msgs \subseteq 1 .. messages
  /\ \A q \in reqs : /\ q.id \in 1 .. messages /\ q.thread <= messages /\ q.note \in 1 .. notes
                     /\ q.msgs \subseteq 1 .. messages
                     /\ q.pc = "insert" => q.kind = "create"
                     /\ q.pc = "log" => q.kind \in {"create", "resolve"}
                     /\ q.pc = "write" => q.kind = "reply"
  /\ \A a \in acked : a.thread \in Nat /\ a.thread <= messages

Creates(q) == q.kind = "create"
Early(q) == q.kind = "create" /\ q.pc \in {"sent", "insert"}
Late(q) == q.kind = "create" /\ q.pc \in {"log", "ok"}

\* Requests and threads have one id each, and nobody knows a thread before it is there.
Named ==
  /\ \A p, q \in reqs : p.id = q.id => p = q
  /\ \A th, other \in threads : th.id = other.id => th = other
  /\ \A q \in reqs : Early(q) =>
       /\ \A th \in threads : th.id # q.id
       /\ \A p \in reqs : ~Creates(p) => p.thread # q.id
       /\ \A a \in acked : a.thread # q.id

\* A message whose sender was told, or is about to be.
Holds(m, i) == m \in raced \/ \A th \in threads : th.id = i => m \in th.msgs
Messages ==
  /\ \A a \in acked : Holds(a.id, a.thread)
  /\ \A q \in reqs : /\ Late(q) => Holds(q.id, q.id)
                     /\ q.kind = "reply" /\ q.pc = "ok" => Holds(q.id, q.thread)

\* What a reply read is what the thread holds, but for overlaps.
Snapshots ==
  \A q \in reqs : q.pc = "write" =>
    \A th \in threads : th.id = q.thread => th.msgs \ raced = q.msgs \ raced

\* A note is of one tab, which sends it once at a time.
OfOneTab ==
  /\ \A t, u \in Notes!Tabs : pending[t] = pending[u] /\ pending[t] # NoNote => t = u
  /\ \A q \in reqs : Creates(q) => \A t \in Notes!Tabs : pending[t] = q.note => t = q.by
  /\ \A p, q \in reqs : Creates(p) /\ Creates(q) /\ (p.note = q.note \/ p.by = q.by) => p = q

Thought(n) == \E q \in reqs : Creates(q) /\ q.note = n
Unsaid(n) == /\ \A th \in threads : th.note # n
             /\ \A p \in reqs : p.note = n => Creates(p)

\* A composer's note that is not on its way, or on its way and not yet a thread.
Begun ==
  /\ \A t \in Notes!Tabs : pending[t] # NoNote /\ pending[t] \notin loose /\ ~Thought(pending[t]) =>
       pending[t] \in spans[t] /\ Unsaid(pending[t])
  /\ \A q \in reqs : Early(q) /\ q.note \notin loose => q.note \in spans[q.by] /\ Unsaid(q.note)

Nowhere(n) == \A t \in Notes!Tabs : n \notin spans[t]
Shown(n) == (\E th \in threads : th.note = n) \/ (\E q \in reqs : q.kind = "remove" /\ q.note = n)

\* One that is a thread, or is removed.
Tied ==
  /\ \A q \in reqs : Late(q) /\ q.note \notin loose => Shown(q.note) \/ Nowhere(q.note)
  /\ \A p \in reqs : ~Creates(p) => \A th \in threads :
       /\ th.id = p.thread => th.note = p.note
       /\ th.note = p.note /\ p.note \notin loose => th.id = p.thread
  /\ \A p \in reqs : p.kind = "remove" /\ p.pc = "ok" /\ p.note \notin loose =>
       /\ \A t \in Notes!Tabs : t # p.by => p.note \notin spans[t]
       /\ \A th \in threads : th.note # p.note

Matched ==
  \A n \in (1 .. notes) \ loose :
    /\ \A t \in Notes!Tabs : n \in spans[t] => pending[t] = n \/ Shown(n)
    /\ (\E th \in threads : th.note = n) => ~Nowhere(n)

Swept ==
  /\ run \in {"log", "gone"} => log \subseteq late
  /\ run # "there" /\ linked => 0 \in late
  /\ run = "gone" => threads = {}

Structure == Named /\ OfOneTab /\ Begun /\ Tied /\ Matched /\ Notes!OneThreadPerNote
Contents == Messages /\ Snapshots
NotesInv == NoteTypes /\ Structure /\ Contents /\ Swept

-----------------------------------------------------------------------------
(* What a step may do to requests and threads. *)

Same(p, s) == p.id = s.id /\ p.by = s.by /\ p.kind = s.kind /\ p.thread = s.thread /\ p.note = s.note

\* A step that makes no request and no thread, and parts only notes that it says.
LEMMA StructureKeeps ==
  ASSUME Structure,
         \A p \in reqs' : \E s \in reqs :
           /\ Same(p, s) /\ (Early(p) => Early(s)) /\ (Late(p) => Late(s))
           /\ p.kind = "remove" /\ p.pc = "ok" => s.pc = "ok",
         \A p, q \in reqs' : p.id = q.id => p = q,
         \A s \in reqs : s.kind \in {"create", "remove"} /\ s.note \notin loose' =>
           \E p \in reqs' : p.kind = s.kind /\ p.note = s.note,
         \A th \in threads' : \E o \in threads : th.id = o.id /\ th.note = o.note,
         \A th, o \in threads' : th.id = o.id => th = o,
         \A o \in threads : o.note \notin loose' => \E th \in threads' : th.id = o.id /\ th.note = o.note,
         loose \subseteq loose', UNCHANGED <<notes, spans, pending>>,
         \A q \in reqs' : Early(q) => \A a \in acked' : a.thread # q.id
  PROVE  Structure'
<1>1. Named' BY DEF Structure, Named, Same, Creates
<1>2. OfOneTab' BY DEF Structure, OfOneTab, Same, Creates
<1>3. \A n : n \notin loose' /\ Thought(n) => Thought(n)' BY DEF Thought, Creates
<1>4. \A n : Unsaid(n) => Unsaid(n)' BY DEF Unsaid, Same, Creates
<1>5. Begun'
  <2>1. ASSUME NEW t \in Notes!Tabs, pending'[t] # NoNote, pending'[t] \notin loose', ~Thought(pending[t])'
        PROVE  pending'[t] \in spans'[t] /\ Unsaid(pending[t])'
    <3>1. PICK n : n = pending[t] OBVIOUS
    <3>2. n # NoNote /\ n \notin loose /\ ~Thought(n)' BY <2>1, <3>1 DEF Thought
    <3>3. ~Thought(n) BY <1>3, <2>1, <3>1, <3>2
    <3>4. n \in spans[t] /\ Unsaid(n) BY <3>1, <3>2, <3>3 DEF Structure, Begun
    <3>5. Unsaid(n)' BY <1>4, <3>4
    <3> QED BY <3>1, <3>4, <3>5 DEF Unsaid
  <2>2. ASSUME NEW q \in reqs', Early(q), q.note \notin loose'
        PROVE  q.note \in spans'[q.by] /\ Unsaid(q.note)'
    <3>1. PICK s \in reqs : Same(q, s) /\ Early(s) BY <2>2
    <3>2. s.note \in spans[s.by] /\ Unsaid(s.note) BY <2>2, <3>1 DEF Structure, Begun, Same
    <3>3. Unsaid(s.note)' BY <1>4, <3>2
    <3> QED BY <3>1, <3>2, <3>3 DEF Same
  <2> QED BY <2>1, <2>2 DEF Begun, Early
<1>6. \A n : n \notin loose' /\ Shown(n) => Shown(n)' BY DEF Shown
<1>7. Tied'
  <2>1. ASSUME NEW q \in reqs', Late(q), q.note \notin loose' PROVE Shown(q.note)' \/ Nowhere(q.note)'
    <3>1. PICK s \in reqs : Same(q, s) /\ Late(s) BY <2>1
    <3>2. q.note = s.note /\ s.note \notin loose BY <2>1, <3>1 DEF Same
    <3>3. Shown(q.note) \/ Nowhere(q.note) BY <3>1, <3>2 DEF Structure, Tied
    <3>4. Nowhere(q.note) => Nowhere(q.note)' BY DEF Nowhere
    <3> QED BY <1>6, <2>1, <3>3, <3>4
  <2>2. ASSUME NEW p \in reqs', ~Creates(p), NEW th \in threads'
        PROVE  /\ th.id = p.thread => th.note = p.note
               /\ th.note = p.note /\ p.note \notin loose' => th.id = p.thread
    <3>1. PICK s \in reqs : Same(p, s) OBVIOUS
    <3>2. PICK o \in threads : th.id = o.id /\ th.note = o.note OBVIOUS
    <3>3. ~Creates(s) BY <2>2, <3>1 DEF Same, Creates
    <3> QED BY <3>1, <3>2, <3>3 DEF Structure, Tied, Same
  <2>3. ASSUME NEW p \in reqs', p.kind = "remove", p.pc = "ok", p.note \notin loose'
        PROVE  /\ \A t \in Notes!Tabs : t # p.by => p.note \notin spans'[t]
               /\ \A th \in threads' : th.note # p.note
    <3>1. PICK s \in reqs : Same(p, s) /\ s.pc = "ok" BY <2>3
    <3>2. s.kind = "remove" /\ s.note \notin loose BY <2>3, <3>1 DEF Same
    <3> QED BY <3>1, <3>2 DEF Structure, Tied, Same
  <2> QED BY <2>1, <2>2, <2>3 DEF Tied, Late, Creates
<1>8. Matched'
  <2>1. ASSUME NEW n \in (1 .. notes') \ loose'
        PROVE  /\ \A t \in Notes!Tabs : n \in spans'[t] => pending'[t] = n \/ Shown(n)'
               /\ (\E th \in threads' : th.note = n) => ~Nowhere(n)'
    <3>1. n \in (1 .. notes) \ loose /\ n \notin loose' OBVIOUS
    <3>2. /\ \A t \in Notes!Tabs : n \in spans[t] => pending[t] = n \/ Shown(n)
          /\ (\E th \in threads : th.note = n) => ~Nowhere(n)
      BY <3>1 DEF Structure, Matched
    <3>3. Nowhere(n)' => Nowhere(n) BY DEF Nowhere
    <3> QED BY <1>6, <3>1, <3>2, <3>3
  <2> QED BY <2>1 DEF Matched
<1>9. Notes!OneThreadPerNote'
  <2>1. ASSUME NEW th \in threads', NEW other \in threads', th.note = other.note, th # other
        PROVE  th.note \in loose'
    <3>1. PICK o \in threads : th.id = o.id /\ th.note = o.note OBVIOUS
    <3>2. PICK u \in threads : other.id = u.id /\ other.note = u.note OBVIOUS
    <3>3. o # u BY <2>1, <3>1, <3>2
    <3>4. Notes!OneThreadPerNote BY DEF Structure
    <3>5. o.note = u.note BY <2>1, <3>1, <3>2
    <3>6. o.note \in loose BY <3>3, <3>4, <3>5 DEF Notes!OneThreadPerNote
    <3> QED BY <3>1, <3>6
  <2> QED BY <2>1 DEF Notes!OneThreadPerNote
<1> QED BY <1>1, <1>2, <1>5, <1>7, <1>8, <1>9 DEF Structure

\* One that writes no message.
LEMMA ContentsKeep ==
  ASSUME Contents, raced' = raced,
         \A th \in threads' : \E o \in threads : th.id = o.id /\ th.msgs = o.msgs,
         \A p \in reqs' : \/ p.pc = "sent"
                          \/ p \in reqs
                          \/ \E s \in reqs : /\ Same(p, s) /\ (Late(p) => Late(s))
                                             /\ ~(p.kind = "reply" /\ p.pc = "ok") /\ p.pc # "write",
         \A a \in acked' : a \in acked \/ Holds(a.id, a.thread)
  PROVE  Contents'
<1>1. \A m, i : Holds(m, i) => Holds(m, i)' BY DEF Holds
<1>2. Messages'
  <2>1. \A a \in acked' : Holds(a.id, a.thread)'
    <3> TAKE a \in acked'
    <3>1. Holds(a.id, a.thread) BY DEF Contents, Messages
    <3> QED BY <1>1, <3>1
  <2>2. ASSUME NEW p \in reqs', Late(p) PROVE Holds(p.id, p.id)'
    <3>1. \E s \in reqs : s.id = p.id /\ Late(s) BY <2>2 DEF Same, Late
    <3>2. Holds(p.id, p.id) BY <3>1 DEF Contents, Messages
    <3> QED BY <1>1, <3>2
  <2>3. ASSUME NEW p \in reqs', p.kind = "reply", p.pc = "ok" PROVE Holds(p.id, p.thread)'
    <3>1. Holds(p.id, p.thread) BY <2>3 DEF Contents, Messages
    <3> QED BY <1>1, <3>1
  <2> QED BY <2>1, <2>2, <2>3 DEF Messages
<1>3. Snapshots' BY DEF Contents, Snapshots
<1> QED BY <1>2, <1>3 DEF Contents

\* A request that goes on.
Moves(q, r) == q \in reqs /\ reqs' = (reqs \ {q}) \cup {r} /\ Same(r, q)

LEMMA MoveIs ==
  ASSUME Structure, NEW q, NEW r, Moves(q, r)
  PROVE  /\ \A p \in reqs' : p = r \/ (p \in reqs /\ p # q)
         /\ \A p, s \in reqs' : p.id = s.id => p = s
         /\ \A s \in reqs : \E p \in reqs' : Same(p, s)
         /\ r \in reqs'
<1>1. \A p, s \in reqs : p.id = s.id => p = s BY DEF Structure, Named
<1>2. q \in reqs /\ reqs' = (reqs \ {q}) \cup {r} /\ Same(r, q) BY DEF Moves
<1>3. \A p \in reqs' : p = r \/ (p \in reqs /\ p # q) BY <1>2
<1>4. \A p, s \in reqs' : p.id = s.id => p = s
  <2>1. r.id = q.id BY <1>2 DEF Same
  <2> QED BY <1>1, <1>2, <1>3, <2>1
<1>5. \A s \in reqs : \E p \in reqs' : Same(p, s)
  <2> TAKE s \in reqs
  <2>1. CASE s = q BY <1>2, <2>1
  <2>2. CASE s # q
    <3>1. s \in reqs' BY <1>2, <2>2
    <3> QED BY <3>1 DEF Same
  <2> QED BY <2>1, <2>2
<1> QED BY <1>2, <1>3, <1>4, <1>5

\* One that goes on and leaves the threads alone, or changes no note or id of them.
LEMMA MoveKeeps ==
  ASSUME Structure, NEW q, NEW r, Moves(q, r),
         Early(r) => Early(q), Late(r) => Late(q), r.kind = "remove" => r.pc # "ok",
         \A th \in threads' : \E o \in threads : th.id = o.id /\ th.note = o.note,
         \A th, o \in threads' : th.id = o.id => th = o,
         \A o \in threads : \E th \in threads' : th.id = o.id /\ th.note = o.note,
         UNCHANGED <<notes, spans, pending, acked, loose>>
  PROVE  Structure'
<1>1. /\ \A p \in reqs' : p = r \/ (p \in reqs /\ p # q)
      /\ \A p, s \in reqs' : p.id = s.id => p = s
      /\ \A s \in reqs : \E p \in reqs' : Same(p, s)
  BY MoveIs
<1>2. q \in reqs /\ Same(r, q) BY DEF Moves
<1>3. ASSUME NEW p \in reqs'
      PROVE \E s \in reqs : /\ Same(p, s) /\ (Early(p) => Early(s)) /\ (Late(p) => Late(s))
                            /\ p.kind = "remove" /\ p.pc = "ok" => s.pc = "ok"
  <2>1. CASE p = r BY <1>2, <2>1
  <2>2. CASE p \in reqs BY <2>2 DEF Same
  <2> QED BY <1>1, <2>1, <2>2
<1>4. ASSUME NEW s \in reqs, s.kind \in {"create", "remove"}, s.note \notin loose'
      PROVE \E p \in reqs' : p.kind = s.kind /\ p.note = s.note
  BY <1>1 DEF Same
<1>5. ASSUME NEW p \in reqs', Early(p), NEW a \in acked' PROVE a.thread # p.id
  <2>1. PICK s \in reqs : Same(p, s) /\ Early(s) BY <1>3, <1>5
  <2> QED BY <2>1 DEF Structure, Named, Same
<1> QED BY <1>1, <1>3, <1>4, <1>5, StructureKeeps

LEMMA ToIs ==
  ASSUME NoteTypes, NEW q \in reqs, NEW x \in {"sent", "insert", "log", "write", "ok"}, NEW r,
         r = [q EXCEPT !.pc = x], reqs' = Notes!To(q, x)
  PROVE  /\ Moves(q, r) /\ Same(r, q) /\ r.pc = x /\ r.msgs = q.msgs /\ r \in NoteReq
         /\ r.id = q.id /\ r.kind = q.kind /\ r.thread = q.thread /\ r.note = q.note
<1>1. q \in NoteReq BY DEF NoteTypes
<1>2. reqs' = (reqs \ {q}) \cup {r} BY DEF Notes!To
<1> QED BY <1>1, <1>2 DEF NoteReq, Moves, Same

\* The types of a request that goes on.
LEMMA MoveTypes ==
  ASSUME NoteTypes, NEW q \in reqs, NEW r \in NoteReq, Moves(q, r), r.msgs \subseteq 1 .. messages,
         r.pc = "insert" => r.kind = "create", r.pc = "log" => r.kind \in {"create", "resolve"},
         r.pc = "write" => r.kind = "reply",
         run' \in {"there", "unlinked", "log", "gone"}, linked' \in BOOLEAN,
         threads' \subseteq ThreadRec, IsFiniteSet(threads'),
         \A th \in threads' : th.id <= messages /\ th.note \in 1 .. notes /\ th.msgs \subseteq 1 .. messages,
         UNCHANGED <<notes, messages, spans, pending, acked>>
  PROVE  NoteTypes'
<1>1. reqs' = (reqs \ {q}) \cup {r} /\ Same(r, q) BY DEF Moves
<1>2. \A p \in reqs' : /\ p \in NoteReq /\ p.id \in 1 .. messages /\ p.thread <= messages
                       /\ p.note \in 1 .. notes /\ p.msgs \subseteq 1 .. messages
                       /\ p.pc = "insert" => p.kind = "create"
                       /\ p.pc = "log" => p.kind \in {"create", "resolve"}
                       /\ p.pc = "write" => p.kind = "reply"
  BY <1>1 DEF NoteTypes, Same
<1> QED BY <1>2 DEF NoteTypes

-----------------------------------------------------------------------------
(* The handlers. *)

LEMMA CreateCheckKeeps ==
  ASSUME NotesSetting, NotesInv, NEW q \in reqs, Notes!CreateCheck(q)
  PROVE  NotesInv'
<1>1. PICK r : r = [q EXCEPT !.pc = "insert"] OBVIOUS
<1>2. /\ q.kind = "create" /\ q.pc = "sent" /\ reqs' = Notes!To(q, "insert")
      /\ UNCHANGED <<run, linked, threads, log, spans, pending, notes, messages, acked, raced, loose, late>>
  BY DEF Notes!CreateCheck
<1>3. /\ Moves(q, r) /\ Same(r, q) /\ r.pc = "insert" /\ r.msgs = q.msgs /\ r \in NoteReq
      /\ r.kind = "create"
  BY <1>1, <1>2, ToIs DEF NotesInv
<1>4. NoteTypes'
  <2>1. /\ threads \subseteq ThreadRec /\ IsFiniteSet(threads) /\ q.msgs \subseteq 1 .. messages
        /\ \A th \in threads : th.id <= messages /\ th.note \in 1 .. notes /\ th.msgs \subseteq 1 .. messages
        /\ run \in {"there", "unlinked", "log", "gone"} /\ linked \in BOOLEAN
    BY DEF NotesInv, NoteTypes
  <2> QED BY <1>2, <1>3, <2>1, MoveTypes DEF NotesInv
<1>5. Structure'
  <2>1. Early(r) /\ Early(q) /\ ~Late(r) BY <1>2, <1>3 DEF Early, Late
  <2>2. \A th, o \in threads : th.id = o.id => th = o BY DEF NotesInv, Structure, Named
  <2> QED BY <1>2, <1>3, <2>1, <2>2, MoveKeeps DEF NotesInv
<1>6. Contents'
  <2>1. \A p \in reqs' : p = r \/ p \in reqs BY <1>3 DEF Moves
  <2> QED BY <1>2, <1>3, <2>1, ContentsKeep DEF NotesInv, Late
<1>7. Swept' BY <1>2 DEF NotesInv, Swept
<1> QED BY <1>4, <1>5, <1>6, <1>7 DEF NotesInv

LEMMA WriteReviewEventKeeps ==
  ASSUME NotesSetting, NotesInv, NEW q \in reqs, Notes!WriteReviewEvent(q)
  PROVE  NotesInv'
<1>1. PICK r : r = [q EXCEPT !.pc = "ok"] OBVIOUS
<1>2. /\ q.pc = "log" /\ reqs' = Notes!To(q, "ok") /\ log' = log \cup {q.id}
      /\ late' = IF run \in {"log", "gone"} THEN late \cup {q.id} ELSE late
      /\ UNCHANGED <<run, linked, threads, spans, pending, notes, messages, acked, raced, loose>>
  BY DEF Notes!WriteReviewEvent
<1>3. /\ Moves(q, r) /\ Same(r, q) /\ r.pc = "ok" /\ r.msgs = q.msgs /\ r \in NoteReq
      /\ r.kind = q.kind
  BY <1>1, <1>2, ToIs DEF NotesInv
<1>4. q.kind \in {"create", "resolve"} BY <1>2 DEF NotesInv, NoteTypes
<1>5. NoteTypes'
  <2>1. /\ threads \subseteq ThreadRec /\ IsFiniteSet(threads) /\ q.msgs \subseteq 1 .. messages
        /\ \A th \in threads : th.id <= messages /\ th.note \in 1 .. notes /\ th.msgs \subseteq 1 .. messages
        /\ run \in {"there", "unlinked", "log", "gone"} /\ linked \in BOOLEAN
    BY DEF NotesInv, NoteTypes
  <2> QED BY <1>2, <1>3, <2>1, MoveTypes DEF NotesInv
<1>6. Structure'
  <2>1. ~Early(r) /\ (Late(r) => Late(q)) /\ r.kind # "remove" BY <1>2, <1>3, <1>4 DEF Early, Late
  <2>2. \A th, o \in threads : th.id = o.id => th = o BY DEF NotesInv, Structure, Named
  <2> QED BY <1>2, <1>3, <2>1, <2>2, MoveKeeps DEF NotesInv
<1>7. Contents'
  <2>1. \A p \in reqs' : p = r \/ p \in reqs BY <1>3 DEF Moves
  <2>2. (Late(r) => Late(q)) /\ r.kind # "reply" BY <1>2, <1>3, <1>4 DEF Late
  <2> QED BY <1>2, <1>3, <2>1, <2>2, ContentsKeep DEF NotesInv
<1>8. Swept' BY <1>2 DEF NotesInv, Swept
<1> QED BY <1>5, <1>6, <1>7, <1>8 DEF NotesInv

LEMMA ReplyReadKeeps ==
  ASSUME NotesSetting, NotesInv, NEW q \in reqs, Notes!ReplyRead(q)
  PROVE  NotesInv'
<1>1. PICK th \in threads : th.id = q.thread /\
        reqs' = (reqs \ {q}) \cup {[q EXCEPT !.pc = "write", !.msgs = th.msgs]}
  BY DEF Notes!ReplyRead, Notes!ById
<1>2. PICK r : r = [q EXCEPT !.pc = "write", !.msgs = th.msgs] OBVIOUS
<1>3. /\ q.kind = "reply" /\ q.pc = "sent"
      /\ UNCHANGED <<run, linked, threads, log, spans, pending, notes, messages, acked, raced, loose, late>>
  BY DEF Notes!ReplyRead
<1>4. q \in NoteReq /\ th \in ThreadRec /\ th.msgs \subseteq 1 .. messages BY DEF NotesInv, NoteTypes
<1>5. Moves(q, r) /\ Same(r, q) /\ r.pc = "write" /\ r.msgs = th.msgs /\ r \in NoteReq /\ r.kind = "reply"
      /\ r.thread = th.id
  BY <1>1, <1>2, <1>3, <1>4 DEF NoteReq, ThreadRec, Moves, Same
<1>6. NoteTypes'
  <2>1. /\ threads \subseteq ThreadRec /\ IsFiniteSet(threads)
        /\ \A o \in threads : o.id <= messages /\ o.note \in 1 .. notes /\ o.msgs \subseteq 1 .. messages
        /\ run \in {"there", "unlinked", "log", "gone"} /\ linked \in BOOLEAN
    BY DEF NotesInv, NoteTypes
  <2> QED BY <1>3, <1>4, <1>5, <2>1, MoveTypes DEF NotesInv
<1>7. \A u, o \in threads : u.id = o.id => u = o BY DEF NotesInv, Structure, Named
<1>8. Structure'
  <2>1. ~Early(r) /\ ~Late(r) BY <1>5 DEF Early, Late
  <2> QED BY <1>3, <1>5, <1>7, <2>1, MoveKeeps DEF NotesInv
<1>9. \A p \in reqs' : p = r \/ p \in reqs BY <1>5 DEF Moves
<1>10. Messages' BY <1>3, <1>5, <1>9 DEF NotesInv, Contents, Messages, Holds, Late
<1>11. Snapshots' BY <1>3, <1>5, <1>7, <1>9 DEF NotesInv, Contents, Snapshots
<1>12. Swept' BY <1>3 DEF NotesInv, Swept
<1> QED BY <1>6, <1>8, <1>10, <1>11, <1>12 DEF NotesInv, Contents

\* A thread that a step changes keeps its id and its note.
Changes(th, new) ==
  th \in threads /\ threads' = (threads \ {th}) \cup {new} /\ new.id = th.id /\ new.note = th.note

LEMMA ChangesIs ==
  ASSUME Structure, NEW th, NEW new, Changes(th, new)
  PROVE  /\ \A u \in threads' : u = new \/ (u \in threads /\ u # th)
         /\ \A u \in threads' : \E o \in threads : u.id = o.id /\ u.note = o.note
         /\ \A u, o \in threads' : u.id = o.id => u = o
         /\ \A o \in threads : \E u \in threads' : u.id = o.id /\ u.note = o.note
<1>1. \A u, o \in threads : u.id = o.id => u = o BY DEF Structure, Named
<1>2. th \in threads /\ threads' = (threads \ {th}) \cup {new} /\ new.id = th.id /\ new.note = th.note
  BY DEF Changes
<1>3. \A u \in threads' : u = new \/ (u \in threads /\ u # th) BY <1>2
<1>4. \A u \in threads' : \E o \in threads : u.id = o.id /\ u.note = o.note BY <1>2
<1>5. \A u, o \in threads' : u.id = o.id => u = o BY <1>1, <1>2, <1>3
<1>6. \A o \in threads : \E u \in threads' : u.id = o.id /\ u.note = o.note
  <2> TAKE o \in threads
  <2>1. CASE o = th BY <1>2, <2>1
  <2>2. CASE o # th BY <1>2, <2>2
  <2> QED BY <2>1, <2>2
<1> QED BY <1>3, <1>4, <1>5, <1>6

LEMMA ChangesTypes ==
  ASSUME NoteTypes, NEW th, NEW new \in ThreadRec, Changes(th, new), new.msgs \subseteq 1 .. messages
  PROVE  /\ threads' \subseteq ThreadRec /\ IsFiniteSet(threads')
         /\ \A u \in threads' : u.id <= messages /\ u.note \in 1 .. notes /\ u.msgs \subseteq 1 .. messages
<1>1. th \in threads /\ threads' = (threads \ {th}) \cup {new} /\ new.id = th.id /\ new.note = th.note
  BY DEF Changes
<1>2. IsFiniteSet(threads) BY DEF NoteTypes
<1>3. IsFiniteSet(threads') BY <1>1, <1>2, FS_RemoveElement, FS_AddElement
<1> QED BY <1>1, <1>3 DEF NoteTypes

LEMMA ResolveKeeps ==
  ASSUME NotesSetting, NotesInv, NEW q \in reqs, Notes!Resolve(q)
  PROVE  NotesInv'
<1>1. PICK th \in threads : th.id = q.thread /\
        threads' = (threads \ {th}) \cup {[th EXCEPT !.open = ~th.open]}
  BY DEF Notes!Resolve, Notes!ById
<1>2. PICK new : new = [th EXCEPT !.open = ~th.open] OBVIOUS
<1>3. PICK r : r = [q EXCEPT !.pc = "log"] OBVIOUS
<1>4. /\ q.kind = "resolve" /\ q.pc = "sent" /\ reqs' = Notes!To(q, "log")
      /\ UNCHANGED <<run, linked, log, spans, pending, notes, messages, acked, raced, loose, late>>
  BY DEF Notes!Resolve
<1>5. /\ Moves(q, r) /\ Same(r, q) /\ r.pc = "log" /\ r.msgs = q.msgs /\ r \in NoteReq
      /\ r.kind = "resolve"
  BY <1>3, <1>4, ToIs DEF NotesInv
<1>6. th \in ThreadRec /\ th.msgs \subseteq 1 .. messages BY DEF NotesInv, NoteTypes
<1>7. Changes(th, new) /\ new \in ThreadRec /\ new.msgs = th.msgs /\ new.id = th.id
  BY <1>1, <1>2, <1>6 DEF Changes, ThreadRec
<1>8. NoteTypes'
  <2>1. /\ q.msgs \subseteq 1 .. messages
        /\ run \in {"there", "unlinked", "log", "gone"} /\ linked \in BOOLEAN
    BY DEF NotesInv, NoteTypes
  <2>2. /\ threads' \subseteq ThreadRec /\ IsFiniteSet(threads')
        /\ \A u \in threads' : u.id <= messages /\ u.note \in 1 .. notes /\ u.msgs \subseteq 1 .. messages
    BY <1>6, <1>7, ChangesTypes DEF NotesInv
  <2> QED BY <1>4, <1>5, <2>1, <2>2, MoveTypes DEF NotesInv
<1>9. /\ \A u \in threads' : u = new \/ (u \in threads /\ u # th)
      /\ \A u \in threads' : \E o \in threads : u.id = o.id /\ u.note = o.note
      /\ \A u, o \in threads' : u.id = o.id => u = o
      /\ \A o \in threads : \E u \in threads' : u.id = o.id /\ u.note = o.note
  BY <1>7, ChangesIs DEF NotesInv
<1>10. Structure'
  <2>1. ~Early(r) /\ ~Late(r) /\ r.kind # "remove" BY <1>5 DEF Early, Late
  <2> QED BY <1>4, <1>5, <1>9, <2>1, MoveKeeps DEF NotesInv
<1>11. Contents'
  <2>1. \A p \in reqs' : p = r \/ p \in reqs BY <1>5 DEF Moves
  <2>2. \A u \in threads' : \E o \in threads : u.id = o.id /\ u.msgs = o.msgs BY <1>7, <1>9
  <2>3. ~Late(r) BY <1>5 DEF Late
  <2> QED BY <1>4, <1>5, <2>1, <2>2, <2>3, ContentsKeep DEF NotesInv
<1>12. Swept' BY <1>1, <1>4 DEF NotesInv, Swept
<1> QED BY <1>8, <1>10, <1>11, <1>12 DEF NotesInv

LEMMA ReplyWriteKeeps ==
  ASSUME NotesSetting, NotesInv, NEW q \in reqs, Notes!ReplyWrite(q)
  PROVE  NotesInv'
<1>1. PICK th \in threads : th.id = q.thread /\
        threads' = (threads \ {th}) \cup {[th EXCEPT !.msgs = q.msgs \cup {q.id}]}
  BY DEF Notes!ReplyWrite, Notes!ById
<1>2. PICK new : new = [th EXCEPT !.msgs = q.msgs \cup {q.id}] OBVIOUS
<1>3. PICK r : r = [q EXCEPT !.pc = "ok"] OBVIOUS
<1>4. /\ q.kind = "reply" /\ q.pc = "write" /\ reqs' = Notes!To(q, "ok")
      /\ raced' = IF Notes!Overlapping(q) = {} THEN raced ELSE raced \cup {q.id}
      /\ UNCHANGED <<run, linked, log, spans, pending, notes, messages, acked, loose, late>>
  BY DEF Notes!ReplyWrite
<1>5. /\ Moves(q, r) /\ Same(r, q) /\ r.pc = "ok" /\ r.msgs = q.msgs /\ r \in NoteReq
      /\ r.kind = "reply" /\ r.id = q.id /\ r.thread = q.thread
  BY <1>3, <1>4, ToIs DEF NotesInv
<1>6. th \in ThreadRec /\ q \in NoteReq /\ q.msgs \subseteq 1 .. messages /\ q.id \in 1 .. messages
  BY DEF NotesInv, NoteTypes
<1>7. Changes(th, new) /\ new \in ThreadRec /\ new.msgs = q.msgs \cup {q.id} /\ new.id = th.id
  BY <1>1, <1>2, <1>6 DEF Changes, ThreadRec, NoteReq
<1>8. NoteTypes'
  <2>1. run \in {"there", "unlinked", "log", "gone"} /\ linked \in BOOLEAN BY DEF NotesInv, NoteTypes
  <2>2. /\ threads' \subseteq ThreadRec /\ IsFiniteSet(threads')
        /\ \A u \in threads' : u.id <= messages /\ u.note \in 1 .. notes /\ u.msgs \subseteq 1 .. messages
    BY <1>6, <1>7, ChangesTypes DEF NotesInv
  <2> QED BY <1>4, <1>5, <1>6, <2>1, <2>2, MoveTypes DEF NotesInv
<1>9. /\ \A u \in threads' : u = new \/ (u \in threads /\ u # th)
      /\ \A u \in threads' : \E o \in threads : u.id = o.id /\ u.note = o.note
      /\ \A u, o \in threads' : u.id = o.id => u = o
      /\ \A o \in threads : \E u \in threads' : u.id = o.id /\ u.note = o.note
  BY <1>7, ChangesIs DEF NotesInv
<1>10. Structure'
  <2>1. ~Early(r) /\ ~Late(r) /\ r.kind # "remove" BY <1>5 DEF Early, Late
  <2> QED BY <1>4, <1>5, <1>9, <2>1, MoveKeeps DEF NotesInv
<1>11. \A p \in reqs' : p = r \/ (p \in reqs /\ p # q) BY <1>5, MoveIs DEF NotesInv
<1>12. raced \subseteq raced' BY <1>4
<1>13. th.msgs \ raced = q.msgs \ raced BY <1>1, <1>4 DEF NotesInv, Contents, Snapshots
<1>14. \A u \in threads : u.id = th.id => u = th BY DEF NotesInv, Structure, Named
<1>15. \A m, i : Holds(m, i) => Holds(m, i)'
  <2>1. ASSUME NEW m, NEW i, Holds(m, i), m \notin raced', NEW u \in threads', u.id = i
        PROVE  m \in u.msgs
    <3>1. CASE u = new
      <4>1. m \in th.msgs BY <1>7, <1>12, <2>1, <3>1 DEF Holds
      <4> QED BY <1>7, <1>12, <1>13, <2>1, <3>1, <4>1
    <3>2. CASE u \in threads BY <1>12, <2>1, <3>2 DEF Holds
    <3> QED BY <1>9, <3>1, <3>2
  <2> QED BY <2>1 DEF Holds
<1>16. Holds(q.id, q.thread)' BY <1>1, <1>7, <1>9, <1>14 DEF Holds
<1>17. Messages'
  <2>1. \A a \in acked' : Holds(a.id, a.thread)' BY <1>4, <1>15 DEF NotesInv, Contents, Messages
  <2>2. ASSUME NEW p \in reqs', Late(p) PROVE Holds(p.id, p.id)'
    <3>1. p \in reqs BY <1>5, <1>11, <2>2 DEF Late
    <3> QED BY <1>15, <2>2, <3>1 DEF NotesInv, Contents, Messages
  <2>3. ASSUME NEW p \in reqs', p.kind = "reply", p.pc = "ok" PROVE Holds(p.id, p.thread)'
    <3>1. CASE p = r
      <4>1. p.id = q.id /\ p.thread = q.thread BY <1>5, <3>1
      <4> QED BY <1>16, <4>1
    <3>2. CASE p \in reqs BY <1>15, <2>3, <3>2 DEF NotesInv, Contents, Messages
    <3> QED BY <1>11, <3>1, <3>2
  <2> QED BY <2>1, <2>2, <2>3 DEF Messages, Late
<1>18. Snapshots'
  <2>1. ASSUME NEW p \in reqs', p.pc = "write", NEW u \in threads', u.id = p.thread
        PROVE  u.msgs \ raced' = p.msgs \ raced'
    <3>1. p \in reqs /\ p # q BY <1>5, <1>11, <2>1
    <3>2. CASE u = new
      <4>1. p.kind = "reply" BY <2>1, <3>1 DEF NotesInv, NoteTypes
      <4>2. p.thread = q.thread BY <1>1, <1>7, <2>1, <3>2
      <4>3. p \in Notes!Overlapping(q) BY <2>1, <3>1, <4>1, <4>2 DEF Notes!Overlapping
      <4>4. raced' = raced \cup {q.id} BY <1>4, <4>3
      <4>5. th.msgs \ raced = p.msgs \ raced
        BY <1>1, <2>1, <3>1, <4>2 DEF NotesInv, Contents, Snapshots
      <4> QED BY <1>7, <1>13, <3>2, <4>4, <4>5
    <3>3. CASE u \in threads
      <4>1. u.msgs \ raced = p.msgs \ raced BY <2>1, <3>1, <3>3 DEF NotesInv, Contents, Snapshots
      <4> QED BY <1>12, <4>1
    <3> QED BY <1>9, <3>2, <3>3
  <2> QED BY <2>1 DEF Snapshots
<1>19. Swept' BY <1>1, <1>4 DEF NotesInv, Swept
<1> QED BY <1>8, <1>10, <1>17, <1>18, <1>19 DEF NotesInv, Contents

LEMMA CreateInsertKeeps ==
  ASSUME NotesSetting, NotesInv, NEW q \in reqs, Notes!CreateInsert(q)
  PROVE  NotesInv'
<1>1. PICK new : new = Notes!Thread(q.id, q.note, q.id) OBVIOUS
<1>2. PICK r : r = [q EXCEPT !.pc = "log"] OBVIOUS
<1>3. /\ q.kind = "create" /\ q.pc = "insert" /\ reqs' = Notes!To(q, "log") /\ run # "gone"
      /\ threads' = threads \cup {new}
      /\ UNCHANGED <<run, linked, log, spans, pending, notes, messages, acked, raced, loose, late>>
  BY <1>1 DEF Notes!CreateInsert, Notes!Here
<1>4. /\ Moves(q, r) /\ Same(r, q) /\ r.pc = "log" /\ r.msgs = q.msgs /\ r \in NoteReq
      /\ r.kind = "create" /\ r.id = q.id /\ r.note = q.note
  BY <1>2, <1>3, ToIs DEF NotesInv
<1>5. /\ q \in NoteReq /\ q.id \in 1 .. messages /\ q.note \in 1 .. notes /\ q.msgs \subseteq 1 .. messages
      /\ messages \in Nat
  BY DEF NotesInv, NoteTypes
<1>6. new.id = q.id /\ new.note = q.note /\ new.msgs = {q.id} /\ new \in ThreadRec
  BY <1>1, <1>5 DEF Notes!Thread, ThreadRec, NoteReq
<1>7. NoteTypes'
  <2>1. /\ threads \subseteq ThreadRec /\ IsFiniteSet(threads)
        /\ \A o \in threads : o.id <= messages /\ o.note \in 1 .. notes /\ o.msgs \subseteq 1 .. messages
        /\ run \in {"there", "unlinked", "log", "gone"} /\ linked \in BOOLEAN
    BY DEF NotesInv, NoteTypes
  <2>2. IsFiniteSet(threads') BY <1>3, <2>1, FS_AddElement
  <2>3. threads' \subseteq ThreadRec BY <1>3, <1>6, <2>1
  <2>4. \A o \in threads' : o.id <= messages /\ o.note \in 1 .. notes /\ o.msgs \subseteq 1 .. messages
    BY <1>3, <1>5, <1>6, <2>1
  <2> QED BY <1>3, <1>4, <1>5, <2>1, <2>2, <2>3, <2>4, MoveTypes DEF NotesInv
<1>8. /\ \A p \in reqs' : p = r \/ (p \in reqs /\ p # q)
      /\ \A p, s \in reqs' : p.id = s.id => p = s
      /\ \A s \in reqs : \E p \in reqs' : Same(p, s)
      /\ r \in reqs'
  BY <1>4, MoveIs DEF NotesInv
<1>9. /\ \A th \in threads : th.id # q.id
      /\ \A p \in reqs : ~Creates(p) => p.thread # q.id
      /\ \A a \in acked : a.thread # q.id
      /\ q.note \notin loose => q.note \in spans[q.by] /\ Unsaid(q.note)
  BY <1>3 DEF NotesInv, Structure, Named, Begun, Early
<1>10. \A th \in threads' : th = new \/ th \in threads BY <1>3
<1>11. ~Early(r) /\ Late(r) /\ Creates(r) /\ Creates(q) BY <1>3, <1>4 DEF Early, Late, Creates
<1>12. \A p, s \in reqs : p.id = s.id => p = s BY DEF NotesInv, Structure, Named
<1>13. Named'
  <2>1. \A th, o \in threads' : th.id = o.id => th = o
    BY <1>6, <1>9, <1>10 DEF NotesInv, Structure, Named
  <2>2. ASSUME NEW p \in reqs', Early(p)
        PROVE  /\ \A th \in threads' : th.id # p.id
               /\ \A s \in reqs' : ~Creates(s) => s.thread # p.id
               /\ \A a \in acked' : a.thread # p.id
    <3>1. p \in reqs /\ p # q BY <1>8, <1>11, <2>2
    <3>2. p.id # q.id BY <1>12, <3>1
    <3>3. \A s \in reqs' : ~Creates(s) => s \in reqs BY <1>8, <1>11
    <3> QED BY <1>3, <1>6, <1>10, <2>2, <3>1, <3>2, <3>3 DEF NotesInv, Structure, Named
  <2> QED BY <1>8, <2>1, <2>2 DEF Named, Early, Creates
<1>14. OfOneTab'
  <2>1. \A p \in reqs' : \E s \in reqs : Same(p, s) /\ (p = s \/ (p = r /\ s = q))
    BY <1>4, <1>8 DEF Same
  <2> QED BY <1>3, <1>8, <2>1 DEF NotesInv, Structure, OfOneTab, Same, Creates
<1>15. \A n : Unsaid(n) /\ n # q.note => Unsaid(n)'
  BY <1>6, <1>8, <1>10, <1>11 DEF Unsaid, Creates
<1>16. Begun'
  <2>1. ASSUME NEW t \in Notes!Tabs, pending[t] # NoNote, pending[t] \notin loose, ~Thought(pending[t])'
        PROVE  pending[t] \in spans[t] /\ Unsaid(pending[t])'
    <3>1. PICK n : n = pending[t] OBVIOUS
    <3>2. ~Thought(n)' BY <1>3, <2>1, <3>1 DEF Thought
    <3>3. ~Thought(n) /\ n # q.note BY <1>4, <1>8, <1>11, <3>2 DEF Thought, Creates, Same
    <3>4. n \in spans[t] /\ Unsaid(n) BY <2>1, <3>1, <3>3 DEF NotesInv, Structure, Begun
    <3>5. Unsaid(n)' BY <1>15, <3>3, <3>4
    <3> QED BY <1>3, <3>1, <3>4, <3>5 DEF Unsaid
  <2>2. ASSUME NEW p \in reqs', Early(p), p.note \notin loose
        PROVE  p.note \in spans[p.by] /\ Unsaid(p.note)'
    <3>1. p \in reqs /\ p # q BY <1>8, <1>11, <2>2
    <3>2. p.note # q.note BY <1>11, <2>2, <3>1 DEF NotesInv, Structure, OfOneTab, Early, Creates
    <3>3. p.note \in spans[p.by] /\ Unsaid(p.note) BY <2>2, <3>1 DEF NotesInv, Structure, Begun
    <3> QED BY <1>15, <3>2, <3>3
  <2> QED BY <1>3, <2>1, <2>2 DEF Begun, Early
<1>17. \A n : Shown(n) => Shown(n)' BY <1>3, <1>8 DEF Shown, Same
<1>18. Tied'
  <2>1. ASSUME NEW p \in reqs', Late(p), p.note \notin loose PROVE Shown(p.note)' \/ Nowhere(p.note)'
    <3>1. CASE p = r BY <1>3, <1>4, <1>6, <3>1 DEF Shown
    <3>2. CASE p \in reqs
      <4>1. Shown(p.note) \/ Nowhere(p.note) BY <2>1, <3>2 DEF NotesInv, Structure, Tied
      <4>2. Nowhere(p.note) => Nowhere(p.note)' BY <1>3 DEF Nowhere
      <4> QED BY <1>17, <4>1, <4>2
    <3> QED BY <1>8, <3>1, <3>2
  <2>2. ASSUME NEW p \in reqs', ~Creates(p), NEW th \in threads'
        PROVE  /\ th.id = p.thread => th.note = p.note
               /\ th.note = p.note /\ p.note \notin loose => th.id = p.thread
    <3>1. p \in reqs BY <1>8, <1>11, <2>2
    <3>2. CASE th = new BY <1>6, <1>9, <2>2, <3>1, <3>2 DEF Unsaid
    <3>3. CASE th \in threads BY <2>2, <3>1, <3>3 DEF NotesInv, Structure, Tied
    <3> QED BY <1>10, <3>2, <3>3
  <2>3. ASSUME NEW p \in reqs', p.kind = "remove", p.pc = "ok", p.note \notin loose
        PROVE  /\ \A t \in Notes!Tabs : t # p.by => p.note \notin spans[t]
               /\ \A th \in threads' : th.note # p.note
    <3>1. p \in reqs /\ ~Creates(p) BY <1>4, <1>8, <2>3 DEF Creates
    <3>2. p.note # q.note BY <1>9, <2>3, <3>1 DEF Unsaid
    <3> QED BY <1>6, <1>10, <2>3, <3>1, <3>2 DEF NotesInv, Structure, Tied
  <2> QED BY <1>3, <2>1, <2>2, <2>3 DEF Tied, Late, Creates
<1>19. Matched'
  <2>1. ASSUME NEW n \in (1 .. notes) \ loose
        PROVE  /\ \A t \in Notes!Tabs : n \in spans[t] => pending[t] = n \/ Shown(n)'
               /\ (\E th \in threads' : th.note = n) => ~Nowhere(n)
    <3>1. \A t \in Notes!Tabs : n \in spans[t] => pending[t] = n \/ Shown(n)'
      BY <1>17 DEF NotesInv, Structure, Matched
    <3>2. q.by \in Notes!Tabs BY <1>5 DEF NoteReq
    <3>3. n = q.note => ~Nowhere(n) BY <1>9, <3>2 DEF Nowhere
    <3>4. (\E th \in threads : th.note = n) => ~Nowhere(n) BY DEF NotesInv, Structure, Matched
    <3> QED BY <1>6, <1>10, <3>1, <3>3, <3>4
  <2>2. \A n : Nowhere(n)' <=> Nowhere(n) BY <1>3 DEF Nowhere
  <2> QED BY <1>3, <2>1, <2>2 DEF Matched
<1>20. Notes!OneThreadPerNote'
  BY <1>3, <1>6, <1>9, <1>10 DEF NotesInv, Structure, Notes!OneThreadPerNote, Unsaid
<1>21. \A m, i : Holds(m, i) /\ i # q.id => Holds(m, i)' BY <1>3, <1>6, <1>10 DEF Holds
<1>22. Messages'
  <2>1. \A a \in acked' : Holds(a.id, a.thread)' BY <1>3, <1>9, <1>21 DEF NotesInv, Contents, Messages
  <2>2. ASSUME NEW p \in reqs', Late(p) PROVE Holds(p.id, p.id)'
    <3>1. CASE p = r BY <1>4, <1>6, <1>9, <1>10, <3>1 DEF Holds
    <3>2. CASE p \in reqs /\ p # q
      <4>1. p.id # q.id BY <1>12, <3>2
      <4> QED BY <1>21, <2>2, <3>2, <4>1 DEF NotesInv, Contents, Messages
    <3> QED BY <1>8, <3>1, <3>2
  <2>3. ASSUME NEW p \in reqs', p.kind = "reply", p.pc = "ok" PROVE Holds(p.id, p.thread)'
    <3>1. p \in reqs /\ ~Creates(p) BY <1>4, <1>8, <2>3 DEF Creates
    <3>2. p.thread # q.id BY <1>9, <3>1
    <3> QED BY <1>21, <2>3, <3>1, <3>2 DEF NotesInv, Contents, Messages
  <2> QED BY <2>1, <2>2, <2>3 DEF Messages, Late
<1>23. Snapshots'
  <2>1. ASSUME NEW p \in reqs', p.pc = "write", NEW th \in threads', th.id = p.thread
        PROVE  th.msgs \ raced = p.msgs \ raced
    <3>1. p \in reqs BY <1>4, <1>8, <2>1
    <3>2. ~Creates(p) BY <2>1, <3>1 DEF NotesInv, NoteTypes, Creates
    <3>3. th \in threads BY <1>6, <1>9, <1>10, <2>1, <3>1, <3>2
    <3> QED BY <2>1, <3>1, <3>3 DEF NotesInv, Contents, Snapshots
  <2> QED BY <1>3, <2>1 DEF Snapshots
<1>24. Swept' BY <1>3 DEF NotesInv, Swept
<1> QED BY <1>7, <1>13, <1>14, <1>16, <1>18, <1>19, <1>20, <1>22, <1>23, <1>24
     DEF NotesInv, Structure, Contents

LEMMA RemoveKeeps ==
  ASSUME NotesSetting, NotesInv, NEW q \in reqs, Notes!Remove(q)
  PROVE  NotesInv'
<1>1. PICK r : r = [q EXCEPT !.pc = "ok"] OBVIOUS
<1>2. /\ q.kind = "remove" /\ q.pc = "sent" /\ reqs' = Notes!To(q, "ok")
      /\ threads' = threads \ Notes!ById(q.thread)
      /\ loose' = IF \E t \in Notes!Tabs \ {q.by} : q.note \in spans[t] THEN loose \cup {q.note} ELSE loose
      /\ UNCHANGED <<run, linked, log, spans, pending, notes, messages, acked, raced, late>>
  BY DEF Notes!Remove
<1>3. /\ Moves(q, r) /\ Same(r, q) /\ r.pc = "ok" /\ r.msgs = q.msgs /\ r \in NoteReq
      /\ r.kind = "remove" /\ r.id = q.id /\ r.note = q.note /\ r.by = q.by
  BY <1>1, <1>2, ToIs DEF NotesInv, Same
<1>4. threads' \subseteq threads /\ \A o \in threads : o \notin threads' <=> o.id = q.thread
  BY <1>2 DEF Notes!ById
<1>5. NoteTypes'
  <2>1. /\ threads \subseteq ThreadRec /\ IsFiniteSet(threads)
        /\ \A o \in threads : o.id <= messages /\ o.note \in 1 .. notes /\ o.msgs \subseteq 1 .. messages
        /\ run \in {"there", "unlinked", "log", "gone"} /\ linked \in BOOLEAN
        /\ q.msgs \subseteq 1 .. messages
    BY DEF NotesInv, NoteTypes
  <2>2. IsFiniteSet(threads') BY <1>4, <2>1, FS_Subset
  <2> QED BY <1>2, <1>3, <1>4, <2>1, <2>2, MoveTypes DEF NotesInv
<1>6. /\ \A p \in reqs' : p = r \/ (p \in reqs /\ p # q)
      /\ \A p, s \in reqs' : p.id = s.id => p = s
      /\ \A s \in reqs : \E p \in reqs' : Same(p, s)
      /\ r \in reqs'
  BY <1>3, MoveIs DEF NotesInv
<1>7. ~Early(r) /\ ~Late(r) /\ ~Creates(r) /\ ~Creates(q) /\ loose \subseteq loose'
  BY <1>2, <1>3 DEF Early, Late, Creates
<1>8. \A p \in reqs' : Creates(p) => p \in reqs BY <1>6, <1>7
<1>9. \A p \in reqs' : \E s \in reqs : Same(p, s) BY <1>3, <1>6 DEF Same
<1>10. Named'
  <2>1. ASSUME NEW p \in reqs', Early(p)
        PROVE  /\ \A th \in threads' : th.id # p.id
               /\ \A s \in reqs' : ~Creates(s) => s.thread # p.id
               /\ \A a \in acked' : a.thread # p.id
    <3>1. p \in reqs BY <1>6, <1>7, <2>1
    <3>2. \A s \in reqs : ~Creates(s) => s.thread # p.id
      BY <2>1, <3>1 DEF NotesInv, Structure, Named
    <3>3. \A s \in reqs' : ~Creates(s) => s.thread # p.id BY <1>9, <3>2 DEF Same, Creates
    <3> QED BY <1>2, <1>4, <2>1, <3>1, <3>3 DEF NotesInv, Structure, Named
  <2> QED BY <1>4, <1>6, <2>1 DEF NotesInv, Structure, Named, Early, Creates
<1>11. OfOneTab' BY <1>2, <1>8 DEF NotesInv, Structure, OfOneTab, Creates
<1>12. \A n : Unsaid(n) => Unsaid(n)' BY <1>4, <1>9 DEF Unsaid, Same, Creates
<1>13. \A n : Thought(n) => Thought(n)' BY <1>6 DEF Thought, Creates, Same
<1>14. Begun'
  <2>1. ASSUME NEW t \in Notes!Tabs, pending[t] # NoNote, pending[t] \notin loose', ~Thought(pending[t])'
        PROVE  pending[t] \in spans[t] /\ Unsaid(pending[t])'
    <3>1. PICK n : n = pending[t] OBVIOUS
    <3>2. ~Thought(n)' BY <1>2, <2>1, <3>1 DEF Thought
    <3>3. ~Thought(n) BY <1>13, <3>2
    <3>4. n \in spans[t] /\ Unsaid(n) BY <1>7, <2>1, <3>1, <3>3 DEF NotesInv, Structure, Begun
    <3>5. Unsaid(n)' BY <1>12, <3>4
    <3> QED BY <1>2, <3>1, <3>4, <3>5 DEF Unsaid
  <2>2. ASSUME NEW p \in reqs', Early(p), p.note \notin loose'
        PROVE  p.note \in spans[p.by] /\ Unsaid(p.note)'
    <3>1. p \in reqs BY <1>6, <1>7, <2>2
    <3>2. p.note \in spans[p.by] /\ Unsaid(p.note) BY <1>7, <2>2, <3>1 DEF NotesInv, Structure, Begun
    <3> QED BY <1>12, <3>2
  <2> QED BY <1>2, <2>1, <2>2 DEF Begun, Early
<1>15. \A n : Shown(n) /\ n \notin loose => Shown(n)'
  <2>1. ASSUME NEW n, n \notin loose, NEW th \in threads, th.note = n PROVE Shown(n)'
    <3>1. CASE th.id = q.thread
      <4>1. th.note = q.note BY <1>7, <3>1 DEF NotesInv, Structure, Tied
      <4> QED BY <1>3, <1>6, <2>1, <4>1 DEF Shown
    <3>2. CASE th.id # q.thread BY <1>4, <2>1, <3>2 DEF Shown
    <3> QED BY <3>1, <3>2
  <2>2. ASSUME NEW n, NEW s \in reqs, s.kind = "remove", s.note = n PROVE Shown(n)'
    BY <1>6, <2>2 DEF Shown, Same
  <2> QED BY <2>1, <2>2 DEF Shown
<1>16. Tied'
  <2>1. ASSUME NEW p \in reqs', Late(p), p.note \notin loose' PROVE Shown(p.note)' \/ Nowhere(p.note)'
    <3>1. p \in reqs BY <1>6, <1>7, <2>1
    <3>2. Shown(p.note) \/ Nowhere(p.note) BY <1>7, <2>1, <3>1 DEF NotesInv, Structure, Tied
    <3>3. Nowhere(p.note) => Nowhere(p.note)' BY <1>2 DEF Nowhere
    <3> QED BY <1>7, <1>15, <2>1, <3>2, <3>3
  <2>2. ASSUME NEW p \in reqs', ~Creates(p), NEW th \in threads'
        PROVE  /\ th.id = p.thread => th.note = p.note
               /\ th.note = p.note /\ p.note \notin loose' => th.id = p.thread
    <3>1. PICK s \in reqs : Same(p, s) BY <1>9
    <3>2. ~Creates(s) /\ th \in threads BY <1>4, <2>2, <3>1 DEF Same, Creates
    <3> QED BY <1>7, <3>1, <3>2 DEF NotesInv, Structure, Tied, Same
  <2>3. ASSUME NEW p \in reqs', p.kind = "remove", p.pc = "ok", p.note \notin loose'
        PROVE  /\ \A t \in Notes!Tabs : t # p.by => p.note \notin spans[t]
               /\ \A th \in threads' : th.note # p.note
    <3>1. CASE p = r
      <4>1. \A t \in Notes!Tabs : t # q.by => q.note \notin spans[t] BY <1>2, <1>3, <2>3, <3>1
      <4>2. \A th \in threads : th.note = q.note => th.id = q.thread
        BY <1>3, <1>7, <2>3, <3>1 DEF NotesInv, Structure, Tied
      <4> QED BY <1>3, <1>4, <3>1, <4>1, <4>2
    <3>2. CASE p \in reqs BY <1>4, <1>7, <2>3, <3>2 DEF NotesInv, Structure, Tied
    <3> QED BY <1>6, <3>1, <3>2
  <2> QED BY <1>2, <2>1, <2>2, <2>3 DEF Tied, Late, Creates
<1>17. Matched'
  <2>1. \A n : Nowhere(n)' <=> Nowhere(n) BY <1>2 DEF Nowhere
  <2> QED BY <1>2, <1>4, <1>7, <1>15, <2>1 DEF NotesInv, Structure, Matched
<1>18. Notes!OneThreadPerNote' BY <1>4, <1>7 DEF NotesInv, Structure, Notes!OneThreadPerNote
<1>19. Contents'
  <2>1. \A p \in reqs' : p = r \/ p \in reqs BY <1>6
  <2> QED BY <1>2, <1>3, <1>4, <1>7, <2>1, ContentsKeep DEF NotesInv
<1>20. Swept' BY <1>2, <1>4 DEF NotesInv, Swept
<1> QED BY <1>5, <1>10, <1>11, <1>14, <1>16, <1>17, <1>18, <1>19, <1>20 DEF NotesInv, Structure

-----------------------------------------------------------------------------
(* The page. *)

\* A request that ends, and what the tab that sent it does of it.
LEMMA EndsTypes ==
  ASSUME NoteTypes, NEW q \in reqs, reqs' = reqs \ {q},
         spans' \in [Notes!Tabs -> SUBSET (1 .. notes)],
         pending' \in [Notes!Tabs -> (1 .. notes) \cup {NoNote}],
         acked' \subseteq acked \cup {Notes!Told(q)},
         UNCHANGED <<run, linked, threads, notes, messages>>
  PROVE  NoteTypes'
<1>1. \A a \in acked' : a.thread \in Nat /\ a.thread <= messages
  <2>1. q.id \in Nat /\ q.id <= messages /\ q.thread \in Nat /\ q.thread <= messages
    BY DEF NoteTypes, NoteReq
  <2>2. Notes!Told(q).thread \in Nat /\ Notes!Told(q).thread <= messages
    BY <2>1 DEF Notes!Told
  <2> QED BY <2>2 DEF NoteTypes
<1> QED BY <1>1 DEF NoteTypes

LEMMA EndsContents ==
  ASSUME NotesInv, NEW q \in reqs, reqs' = reqs \ {q},
         acked' = acked \/ (q.pc = "ok" /\ q.kind \in {"create", "reply"} /\ acked' = acked \cup {Notes!Told(q)}),
         UNCHANGED <<threads, raced>>
  PROVE  Contents'
<1>1. q.pc = "ok" /\ q.kind \in {"create", "reply"} => Holds(Notes!Told(q).id, Notes!Told(q).thread)
  BY DEF NotesInv, Contents, Messages, Late, Notes!Told
<1>2. \A a \in acked' : a \in acked \/ Holds(a.id, a.thread) BY <1>1
<1>3. \A p \in reqs' : p \in reqs OBVIOUS
<1> QED BY <1>2, <1>3, ContentsKeep DEF NotesInv

\* The end of a request that changes no highlight: of its note nothing is said any more, or it is loose.
LEMMA EndsStructure ==
  ASSUME NotesInv, NEW q \in reqs, reqs' = reqs \ {q},
         q.kind \in {"create", "remove"} => q.note \in loose', loose \subseteq loose',
         acked' = acked \/ (~Creates(q) /\ acked' = acked \cup {Notes!Told(q)}),
         UNCHANGED <<threads, notes, spans, pending>>
  PROVE  Structure'
<1>1. \A p \in reqs' : p \in reqs OBVIOUS
<1>2. \A p \in reqs' : \E s \in reqs :
        /\ Same(p, s) /\ (Early(p) => Early(s)) /\ (Late(p) => Late(s))
        /\ p.kind = "remove" /\ p.pc = "ok" => s.pc = "ok"
  BY <1>1 DEF Same
<1>3. \A s \in reqs : s.kind \in {"create", "remove"} /\ s.note \notin loose' =>
        \E p \in reqs' : p.kind = s.kind /\ p.note = s.note
  OBVIOUS
<1>4. ASSUME NEW p \in reqs', Early(p), NEW a \in acked' PROVE a.thread # p.id
  <2>1. CASE a \in acked BY <1>1, <1>4, <2>1 DEF NotesInv, Structure, Named
  <2>2. CASE ~Creates(q) /\ a = Notes!Told(q)
    <3>1. a.thread = q.thread BY <2>2 DEF Notes!Told, Creates
    <3> QED BY <1>1, <1>4, <2>2, <3>1 DEF NotesInv, Structure, Named
  <2> QED BY <2>1, <2>2
<1>5. \A p, s \in reqs' : p.id = s.id => p = s BY <1>1 DEF NotesInv, Structure, Named
<1>6. \A th, o \in threads : th.id = o.id => th = o BY DEF NotesInv, Structure, Named
<1> QED BY <1>2, <1>3, <1>4, <1>5, <1>6, StructureKeeps DEF NotesInv

LEMMA NoteFailKeeps ==
  ASSUME NotesSetting, NotesInv, NEW q \in reqs, Notes!Fail(q)
  PROVE  NotesInv'
<1>1. /\ reqs' = reqs \ {q} /\ loose' = IF q.kind # "reply" THEN loose \cup {q.note} ELSE loose
      /\ UNCHANGED <<run, linked, threads, log, spans, pending, notes, messages, acked, raced, late>>
  BY DEF Notes!Fail
<1>2. NoteTypes'
  <2>1. /\ spans \in [Notes!Tabs -> SUBSET (1 .. notes)]
        /\ pending \in [Notes!Tabs -> (1 .. notes) \cup {NoNote}]
    BY DEF NotesInv, NoteTypes
  <2> QED BY <1>1, <2>1, EndsTypes DEF NotesInv
<1>3. Structure' BY <1>1, EndsStructure
<1>4. Contents' BY <1>1, EndsContents
<1>5. Swept' BY <1>1 DEF NotesInv, Swept
<1> QED BY <1>2, <1>3, <1>4, <1>5 DEF NotesInv

LEMMA AnswerReplyKeeps ==
  ASSUME NotesSetting, NotesInv, NEW q \in reqs, Notes!Answer(q), q.kind \in {"reply", "resolve"}
  PROVE  NotesInv'
<1>1. /\ reqs' = reqs \ {q} /\ q.pc = "ok"
      /\ acked' = IF q.kind = "reply" THEN acked \cup {Notes!Told(q)} ELSE acked
      /\ UNCHANGED <<run, linked, threads, log, spans, pending, notes, messages, raced, loose, late>>
  BY DEF Notes!Answer
<1>2. ~Creates(q) BY DEF Creates
<1>3. NoteTypes'
  <2>1. /\ spans \in [Notes!Tabs -> SUBSET (1 .. notes)]
        /\ pending \in [Notes!Tabs -> (1 .. notes) \cup {NoNote}]
    BY DEF NotesInv, NoteTypes
  <2>2. acked' \subseteq acked \cup {Notes!Told(q)} BY <1>1
  <2> QED BY <1>1, <2>1, <2>2, EndsTypes DEF NotesInv
<1>4. Structure' BY <1>1, <1>2, EndsStructure
<1>5. Contents' BY <1>1, EndsContents
<1>6. Swept' BY <1>1 DEF NotesInv, Swept
<1> QED BY <1>3, <1>4, <1>5, <1>6 DEF NotesInv

\* The thread is there, and the composer is closed, whatever note it is open on.
LEMMA AnswerCreateKeeps ==
  ASSUME NotesSetting, NotesInv, NEW q \in reqs, Notes!Answer(q), q.kind = "create"
  PROVE  NotesInv'
<1>1. /\ reqs' = reqs \ {q} /\ q.pc = "ok"
      /\ acked' = acked \cup {Notes!Told(q)}
      /\ pending' = [pending EXCEPT ![q.by] = NoNote]
      /\ loose' = loose \cup ({pending[q.by]} \ {NoNote, q.note})
      /\ UNCHANGED <<run, linked, threads, log, spans, notes, messages, raced, late>>
  BY DEF Notes!Answer
<1>2. q.by \in Notes!Tabs /\ Late(q) /\ Creates(q) /\ loose \subseteq loose'
  BY <1>1 DEF NotesInv, NoteTypes, NoteReq, Late, Creates
<1>3. /\ pending \in [Notes!Tabs -> (1 .. notes) \cup {NoNote}]
      /\ spans \in [Notes!Tabs -> SUBSET (1 .. notes)]
      /\ \A p \in reqs : p.note \in Nat
  BY DEF NotesInv, NoteTypes, NoteReq
<1>4. pending' \in [Notes!Tabs -> (1 .. notes) \cup {NoNote}] BY <1>1, <1>3
<1>5. \A t \in Notes!Tabs : pending'[t] = IF t = q.by THEN NoNote ELSE pending[t] BY <1>1, <1>2, <1>3
<1>6. NoteTypes' BY <1>1, <1>3, <1>4, EndsTypes DEF NotesInv
<1>7. Contents' BY <1>1, EndsContents
<1>8. Swept' BY <1>1 DEF NotesInv, Swept
<1>9. Named'
  <2>1. ASSUME NEW p \in reqs', Early(p), NEW a \in acked' PROVE a.thread # p.id
    <3>1. p \in reqs /\ p # q BY <1>1
    <3>2. CASE a \in acked BY <2>1, <3>1, <3>2 DEF NotesInv, Structure, Named
    <3>3. CASE a = Notes!Told(q)
      <4>1. a.thread = q.id BY <3>3 DEF Notes!Told
      <4>2. p.id # q.id BY <3>1 DEF NotesInv, Structure, Named
      <4> QED BY <4>1, <4>2
    <3> QED BY <1>1, <3>2, <3>3
  <2> QED BY <1>1, <2>1 DEF NotesInv, Structure, Named, Early, Creates
<1>10. OfOneTab'
  <2>1. ASSUME NEW t \in Notes!Tabs, NEW u \in Notes!Tabs, pending'[t] = pending'[u], pending'[t] # NoNote
        PROVE  t = u
    <3>1. pending[t] = pending[u] /\ pending[t] # NoNote BY <1>5, <2>1
    <3> QED BY <3>1 DEF NotesInv, Structure, OfOneTab
  <2>2. ASSUME NEW p \in reqs', Creates(p), NEW t \in Notes!Tabs, pending'[t] = p.note PROVE t = p.by
    <3>1. p \in reqs /\ p.note # NoNote BY <1>1, <1>3 DEF NotesSetting
    <3>2. pending[t] = p.note BY <1>5, <2>2, <3>1
    <3> QED BY <2>2, <3>1, <3>2 DEF NotesInv, Structure, OfOneTab
  <2>3. \A p, s \in reqs' : Creates(p) /\ Creates(s) /\ (p.note = s.note \/ p.by = s.by) => p = s
    BY <1>1 DEF NotesInv, Structure, OfOneTab
  <2> QED BY <2>1, <2>2, <2>3 DEF OfOneTab, Creates
<1>11. \A n : Unsaid(n) => Unsaid(n)' BY <1>1 DEF Unsaid, Creates
<1>12. Begun'
  <2>1. ASSUME NEW t \in Notes!Tabs, pending'[t] # NoNote, pending'[t] \notin loose', ~Thought(pending[t])'
        PROVE  pending'[t] \in spans[t] /\ Unsaid(pending[t])'
    <3>1. PICK n : n = pending[t] OBVIOUS
    <3>2. t # q.by /\ pending'[t] = n /\ n # NoNote /\ n \notin loose BY <1>2, <1>5, <2>1, <3>1
    <3>3. ~Thought(n)' BY <2>1, <3>1, <3>2 DEF Thought
    <3>4. n # q.note BY <1>2, <3>1, <3>2 DEF NotesInv, Structure, OfOneTab
    <3>5. ~Thought(n) BY <1>1, <3>3, <3>4 DEF Thought, Creates
    <3>6. n \in spans[t] /\ Unsaid(n) BY <3>1, <3>2, <3>5 DEF NotesInv, Structure, Begun
    <3>7. Unsaid(n)' BY <1>11, <3>6
    <3> QED BY <3>1, <3>2, <3>6, <3>7 DEF Unsaid
  <2>2. ASSUME NEW p \in reqs', Early(p), p.note \notin loose'
        PROVE  p.note \in spans[p.by] /\ Unsaid(p.note)'
    <3>1. p.note \in spans[p.by] /\ Unsaid(p.note) BY <1>1, <1>2, <2>2 DEF NotesInv, Structure, Begun
    <3> QED BY <1>11, <3>1
  <2> QED BY <1>1, <2>1, <2>2 DEF Begun, Early
<1>13. \A n : Shown(n) => Shown(n)' BY <1>1 DEF Shown
<1>14. \A n : Nowhere(n) <=> Nowhere(n)' BY <1>1 DEF Nowhere
<1>15. Tied'
  <2>1. ASSUME NEW p \in reqs', Late(p), p.note \notin loose' PROVE Shown(p.note)' \/ Nowhere(p.note)'
    <3>1. Shown(p.note) \/ Nowhere(p.note) BY <1>1, <1>2, <2>1 DEF NotesInv, Structure, Tied
    <3> QED BY <1>13, <1>14, <3>1
  <2> QED BY <1>1, <1>2, <2>1 DEF NotesInv, Structure, Tied, Late, Creates
<1>16. Matched'
  <2>1. ASSUME NEW n \in (1 .. notes) \ loose', NEW t \in Notes!Tabs, n \in spans[t]
        PROVE  pending'[t] = n \/ Shown(n)'
    <3>1. pending[t] = n \/ Shown(n) BY <1>2, <2>1 DEF NotesInv, Structure, Matched
    <3>2. CASE pending[t] = n /\ t = q.by
      <4>1. n # NoNote BY <2>1 DEF NotesSetting, NotesInv, NoteTypes
      <4>2. n = q.note /\ n \notin loose BY <1>1, <2>1, <3>2, <4>1
      <4>3. Shown(n) \/ Nowhere(n) BY <1>2, <4>2 DEF NotesInv, Structure, Tied
      <4> QED BY <1>13, <2>1, <4>3 DEF Nowhere
    <3> QED BY <1>5, <1>13, <3>1, <3>2
  <2>2. ASSUME NEW n \in (1 .. notes) \ loose', \E th \in threads : th.note = n PROVE ~Nowhere(n)'
    <3>1. n \in (1 .. notes) \ loose BY <1>2
    <3>2. ~Nowhere(n) BY <2>2, <3>1 DEF NotesInv, Structure, Matched
    <3> QED BY <1>14, <3>2
  <2> QED BY <1>1, <2>1, <2>2 DEF Matched
<1>17. Notes!OneThreadPerNote' BY <1>1, <1>2 DEF NotesInv, Structure, Notes!OneThreadPerNote
<1> QED BY <1>6, <1>7, <1>8, <1>9, <1>10, <1>12, <1>15, <1>16, <1>17 DEF NotesInv, Structure

\* The thread has gone, and its highlight goes from the tab that removed it.
LEMMA AnswerRemoveKeeps ==
  ASSUME NotesSetting, NotesInv, NEW q \in reqs, Notes!Answer(q), q.kind = "remove"
  PROVE  NotesInv'
<1>1. /\ reqs' = reqs \ {q} /\ q.pc = "ok"
      /\ spans' = [spans EXCEPT ![q.by] = @ \ {q.note}]
      /\ UNCHANGED <<run, linked, threads, log, pending, notes, messages, acked, raced, loose, late>>
  BY DEF Notes!Answer
<1>2. q.by \in Notes!Tabs /\ ~Late(q) /\ ~Early(q) /\ ~Creates(q)
  BY DEF NotesInv, NoteTypes, NoteReq, Late, Early, Creates
<1>3. /\ pending \in [Notes!Tabs -> (1 .. notes) \cup {NoNote}]
      /\ spans \in [Notes!Tabs -> SUBSET (1 .. notes)]
  BY DEF NotesInv, NoteTypes
<1>4. spans' \in [Notes!Tabs -> SUBSET (1 .. notes)] BY <1>1, <1>2, <1>3
<1>5. \A t \in Notes!Tabs : spans'[t] = IF t = q.by THEN spans[t] \ {q.note} ELSE spans[t]
  BY <1>1, <1>2, <1>3
<1>6. NoteTypes' BY <1>1, <1>3, <1>4, EndsTypes DEF NotesInv
<1>7. Contents' BY <1>1, EndsContents
<1>8. Swept' BY <1>1 DEF NotesInv, Swept
<1>9. \A p \in reqs' : p \in reqs BY <1>1
<1>10. Named' BY <1>1, <1>9 DEF NotesInv, Structure, Named, Early, Creates
<1>11. OfOneTab' BY <1>1, <1>9 DEF NotesInv, Structure, OfOneTab, Creates
<1>12. \A n : Unsaid(n) => Unsaid(n)' /\ n # q.note BY <1>1, <1>2, <1>9 DEF Unsaid, Creates
<1>13. \A n : Thought(n) => Thought(n)' BY <1>1, <1>2 DEF Thought, Creates
<1>14. Begun'
  <2>1. ASSUME NEW t \in Notes!Tabs, pending[t] # NoNote, pending[t] \notin loose, ~Thought(pending[t])'
        PROVE  pending[t] \in spans'[t] /\ Unsaid(pending[t])'
    <3>1. PICK n : n = pending[t] OBVIOUS
    <3>2. ~Thought(n)' BY <1>1, <2>1, <3>1 DEF Thought
    <3>3. ~Thought(n) BY <1>13, <3>2
    <3>4. n \in spans[t] /\ Unsaid(n) BY <2>1, <3>1, <3>3 DEF NotesInv, Structure, Begun
    <3>5. Unsaid(n)' /\ n # q.note BY <1>12, <3>4
    <3> QED BY <1>1, <1>5, <3>1, <3>4, <3>5 DEF Unsaid
  <2>2. ASSUME NEW p \in reqs', Early(p), p.note \notin loose
        PROVE  p.note \in spans'[p.by] /\ Unsaid(p.note)'
    <3>1. p.note \in spans[p.by] /\ Unsaid(p.note) BY <1>9, <2>2 DEF NotesInv, Structure, Begun
    <3>2. p.by \in Notes!Tabs BY <1>9 DEF NotesInv, NoteTypes, NoteReq
    <3> QED BY <1>5, <1>12, <3>1, <3>2
  <2> QED BY <1>1, <2>1, <2>2 DEF Begun, Early
<1>15. q.note \notin loose =>
         /\ \A t \in Notes!Tabs : t # q.by => q.note \notin spans[t]
         /\ \A th \in threads : th.note # q.note
  BY <1>1 DEF NotesInv, Structure, Tied
<1>16. \A n : Nowhere(n) => Nowhere(n)' BY <1>5 DEF Nowhere
<1>17. q.note \notin loose => Nowhere(q.note)' BY <1>5, <1>15 DEF Nowhere
<1>18. \A n : Shown(n) /\ n # q.note => Shown(n)' BY <1>1 DEF Shown
<1>19. Tied'
  <2>1. ASSUME NEW p \in reqs', Late(p), p.note \notin loose PROVE Shown(p.note)' \/ Nowhere(p.note)'
    <3>1. Shown(p.note) \/ Nowhere(p.note) BY <1>9, <2>1 DEF NotesInv, Structure, Tied
    <3>2. CASE p.note = q.note
      <4>1. q.note \notin loose BY <2>1, <3>2
      <4>2. Nowhere(q.note)' BY <1>17, <4>1
      <4> QED BY <3>2, <4>2 DEF Nowhere
    <3>3. CASE p.note # q.note BY <1>16, <1>18, <3>1, <3>3
    <3> QED BY <3>2, <3>3
  <2>2. \A p \in reqs' : ~Creates(p) => \A th \in threads :
          /\ th.id = p.thread => th.note = p.note
          /\ th.note = p.note /\ p.note \notin loose => th.id = p.thread
    BY <1>9 DEF NotesInv, Structure, Tied
  <2>3. ASSUME NEW p \in reqs', p.kind = "remove", p.pc = "ok", p.note \notin loose
        PROVE  /\ \A t \in Notes!Tabs : t # p.by => p.note \notin spans'[t]
               /\ \A th \in threads : th.note # p.note
    <3>1. /\ \A t \in Notes!Tabs : t # p.by => p.note \notin spans[t]
          /\ \A th \in threads : th.note # p.note
      BY <1>9, <2>3 DEF NotesInv, Structure, Tied
    <3> QED BY <1>5, <3>1
  <2> QED BY <1>1, <2>1, <2>2, <2>3 DEF Tied, Late, Creates
<1>20. Matched'
  <2>1. ASSUME NEW n \in (1 .. notes) \ loose, NEW t \in Notes!Tabs, n \in spans'[t]
        PROVE  pending[t] = n \/ Shown(n)'
    <3>1. n \in spans[t] BY <1>5, <2>1
    <3>2. pending[t] = n \/ Shown(n) BY <2>1, <3>1 DEF NotesInv, Structure, Matched
    <3>3. n # q.note BY <1>5, <1>15, <2>1
    <3> QED BY <1>18, <3>2, <3>3
  <2>2. ASSUME NEW n \in (1 .. notes) \ loose, NEW th \in threads, th.note = n PROVE ~Nowhere(n)'
    <3>1. ~Nowhere(n) BY <2>2 DEF NotesInv, Structure, Matched
    <3>2. n # q.note BY <1>15, <2>2
    <3> QED BY <1>5, <3>1, <3>2 DEF Nowhere
  <2> QED BY <1>1, <2>1, <2>2 DEF Matched
<1>21. Notes!OneThreadPerNote' BY <1>1 DEF NotesInv, Structure, Notes!OneThreadPerNote
<1> QED BY <1>6, <1>7, <1>8, <1>10, <1>11, <1>14, <1>19, <1>20, <1>21 DEF NotesInv, Structure

LEMMA BeginKeeps ==
  ASSUME NotesSetting, NotesInv, NEW t \in Writers, Notes!Begin(t)
  PROVE  NotesInv'
<1>1. PICK n0 : n0 = notes + 1 OBVIOUS
<1>2. PICK old : old = pending[t] OBVIOUS
<1>3. /\ notes' = n0
      /\ spans' = [spans EXCEPT ![t] = @ \cup {n0}]
      /\ pending' = [pending EXCEPT ![t] = n0]
      /\ loose' = loose \cup ({old} \ {NoNote})
      /\ UNCHANGED <<run, linked, threads, log, reqs, messages, acked, raced, late>>
  BY <1>1, <1>2 DEF Notes!Begin
<1>4. t \in Notes!Tabs BY DEF Notes!Tabs
<1>5. /\ pending \in [Notes!Tabs -> (1 .. notes) \cup {NoNote}]
      /\ spans \in [Notes!Tabs -> SUBSET (1 .. notes)]
      /\ notes \in Nat /\ n0 \in Nat /\ n0 \in 1 .. n0 /\ n0 \notin 1 .. notes /\ n0 # NoNote
      /\ 1 .. n0 = (1 .. notes) \cup {n0}
      /\ \A p \in reqs : p.note \in 1 .. notes
      /\ \A th \in threads : th.note \in 1 .. notes
  BY <1>1 DEF NotesInv, NoteTypes, NotesSetting
<1>6. \A u \in Notes!Tabs : pending'[u] = IF u = t THEN n0 ELSE pending[u] BY <1>3, <1>4, <1>5
<1>7. \A u \in Notes!Tabs : spans'[u] = IF u = t THEN spans[u] \cup {n0} ELSE spans[u] BY <1>3, <1>4, <1>5
<1>8. loose \subseteq loose' /\ \A n \in loose' : n \in loose \/ n = old BY <1>3
<1>9. n0 \notin {old} BY <1>2, <1>4, <1>5
<1>10. NoteTypes'
  <2>1. pending' \in [Notes!Tabs -> (1 .. n0) \cup {NoNote}] BY <1>3, <1>4, <1>5
  <2>2. spans' \in [Notes!Tabs -> SUBSET (1 .. n0)]
    <3>1. \A u \in Notes!Tabs : spans'[u] \subseteq 1 .. n0 BY <1>5, <1>7
    <3>2. spans' = [u \in Notes!Tabs |-> spans'[u]] BY <1>3, <1>5
    <3> QED BY <3>1, <3>2
  <2> QED BY <1>3, <1>5, <2>1, <2>2 DEF NotesInv, NoteTypes
<1>11. Named' BY <1>3 DEF NotesInv, Structure, Named, Early, Creates
<1>12. OfOneTab'
  <2>1. \A u, v \in Notes!Tabs : pending'[u] = pending'[v] /\ pending'[u] # NoNote => u = v
    BY <1>5, <1>6 DEF NotesInv, Structure, OfOneTab
  <2>2. \A p \in reqs : Creates(p) => \A u \in Notes!Tabs : pending'[u] = p.note => u = p.by
    BY <1>5, <1>6 DEF NotesInv, Structure, OfOneTab
  <2> QED BY <1>3, <2>1, <2>2 DEF NotesInv, Structure, OfOneTab, Creates
<1>13. \A n : (Unsaid(n)' <=> Unsaid(n)) /\ (Thought(n)' <=> Thought(n)) /\ (Shown(n)' <=> Shown(n))
  BY <1>3 DEF Unsaid, Thought, Shown, Creates
<1>14. \A n \in 1 .. notes : Nowhere(n) <=> Nowhere(n)' BY <1>5, <1>7 DEF Nowhere
<1>15. Begun'
  <2>1. ASSUME NEW u \in Notes!Tabs, pending'[u] # NoNote, pending'[u] \notin loose', ~Thought(pending[u])'
        PROVE  pending'[u] \in spans'[u] /\ Unsaid(pending[u])'
    <3>1. PICK n : n = pending'[u] OBVIOUS
    <3>2. ~Thought(n) BY <1>3, <2>1, <3>1 DEF Thought, Creates
    <3>3. CASE u = t
      <4>1. n = n0 BY <1>6, <3>1, <3>3
      <4>2. Unsaid(n) BY <1>5, <4>1 DEF Unsaid
      <4> QED BY <1>3, <1>7, <3>1, <3>3, <4>1, <4>2 DEF Unsaid, Creates
    <3>4. CASE u # t
      <4>1. n = pending[u] /\ n # NoNote /\ n \notin loose BY <1>6, <1>8, <2>1, <3>1, <3>4
      <4>2. n \in spans[u] /\ Unsaid(n) BY <3>2, <4>1 DEF NotesInv, Structure, Begun
      <4> QED BY <1>3, <1>7, <3>1, <3>4, <4>2 DEF Unsaid, Creates
    <3> QED BY <3>3, <3>4
  <2>2. ASSUME NEW p \in reqs, Early(p), p.note \notin loose'
        PROVE  p.note \in spans'[p.by] /\ Unsaid(p.note)
    <3>1. p.note \in spans[p.by] /\ Unsaid(p.note) BY <1>8, <2>2 DEF NotesInv, Structure, Begun
    <3>2. p.by \in Notes!Tabs BY DEF NotesInv, NoteTypes, NoteReq
    <3> QED BY <1>7, <3>1, <3>2
  <2> QED BY <1>3, <1>13, <2>1, <2>2 DEF Begun, Early
<1>16. Tied'
  <2>1. ASSUME NEW p \in reqs, Late(p), p.note \notin loose' PROVE Shown(p.note)' \/ Nowhere(p.note)'
    <3>1. Shown(p.note) \/ Nowhere(p.note) BY <1>8, <2>1 DEF NotesInv, Structure, Tied
    <3> QED BY <1>5, <1>13, <1>14, <3>1
  <2>2. ASSUME NEW p \in reqs, p.kind = "remove", p.pc = "ok", p.note \notin loose'
        PROVE  /\ \A u \in Notes!Tabs : u # p.by => p.note \notin spans'[u]
               /\ \A th \in threads : th.note # p.note
    <3>1. /\ \A u \in Notes!Tabs : u # p.by => p.note \notin spans[u]
          /\ \A th \in threads : th.note # p.note
      BY <1>8, <2>2 DEF NotesInv, Structure, Tied
    <3>2. p.note # n0 BY <1>5
    <3> QED BY <1>7, <3>1, <3>2
  <2>3. \A p \in reqs : ~Creates(p) => \A th \in threads :
          /\ th.id = p.thread => th.note = p.note
          /\ th.note = p.note /\ p.note \notin loose' => th.id = p.thread
    BY <1>8 DEF NotesInv, Structure, Tied
  <2> QED BY <1>3, <2>1, <2>2, <2>3 DEF Tied, Late, Creates
<1>17. Matched'
  <2>1. ASSUME NEW n \in (1 .. n0) \ loose', NEW u \in Notes!Tabs, n \in spans'[u]
        PROVE  pending'[u] = n \/ Shown(n)'
    <3>1. CASE n = n0 BY <1>5, <1>6, <1>7, <2>1, <3>1
    <3>2. CASE n # n0
      <4>1. n \in (1 .. notes) \ loose BY <1>5, <1>8, <2>1, <3>2
      <4>2. n \in spans[u] BY <1>7, <2>1, <3>2
      <4>3. pending[u] = n \/ Shown(n) BY <4>1, <4>2 DEF NotesInv, Structure, Matched
      <4>4. u = t => pending[u] # n
        <5> HAVE u = t
        <5>1. NoNote \notin 1 .. notes BY <1>5 DEF NotesSetting
        <5> QED BY <1>2, <1>3, <2>1, <4>1, <5>1
      <4> QED BY <1>6, <1>13, <4>3, <4>4
    <3> QED BY <3>1, <3>2
  <2>2. ASSUME NEW n \in (1 .. n0) \ loose', NEW th \in threads, th.note = n PROVE ~Nowhere(n)'
    <3>1. n \in (1 .. notes) \ loose BY <1>5, <1>8, <2>2
    <3>2. ~Nowhere(n) BY <2>2, <3>1 DEF NotesInv, Structure, Matched
    <3> QED BY <1>14, <3>1, <3>2
  <2> QED BY <1>3, <2>1, <2>2 DEF Matched
<1>18. Notes!OneThreadPerNote' BY <1>3, <1>8 DEF NotesInv, Structure, Notes!OneThreadPerNote
<1>19. Contents' BY <1>3, ContentsKeep DEF NotesInv
<1>20. Swept' BY <1>3 DEF NotesInv, Swept
<1> QED BY <1>10, <1>11, <1>12, <1>15, <1>16, <1>17, <1>18, <1>19, <1>20 DEF NotesInv, Structure

LEMMA CancelKeeps ==
  ASSUME NotesSetting, NotesInv, NEW t \in Writers, Notes!Cancel(t)
  PROVE  NotesInv'
<1>1. PICK n0 : n0 = pending[t] OBVIOUS
<1>2. /\ n0 # NoNote
      /\ spans' = [spans EXCEPT ![t] = @ \ {n0}]
      /\ pending' = [pending EXCEPT ![t] = NoNote]
      /\ loose' = IF \E q \in reqs : q.kind = "create" /\ q.note = n0 THEN loose \cup {n0} ELSE loose
      /\ UNCHANGED <<run, linked, threads, log, reqs, notes, messages, acked, raced, late>>
  BY <1>1 DEF Notes!Cancel
<1>3. t \in Notes!Tabs BY DEF Notes!Tabs
<1>4. /\ pending \in [Notes!Tabs -> (1 .. notes) \cup {NoNote}]
      /\ spans \in [Notes!Tabs -> SUBSET (1 .. notes)]
      /\ \A p \in reqs : p.note \in Nat /\ p.by \in Notes!Tabs
  BY DEF NotesInv, NoteTypes, NoteReq
<1>5. \A u \in Notes!Tabs : pending'[u] = IF u = t THEN NoNote ELSE pending[u] BY <1>2, <1>3, <1>4
<1>6. \A u \in Notes!Tabs : spans'[u] = IF u = t THEN spans[u] \ {n0} ELSE spans[u] BY <1>2, <1>3, <1>4
<1>7. loose \subseteq loose' /\ (Thought(n0) => n0 \in loose') BY <1>2 DEF Thought, Creates
<1>8. NoteTypes'
  <2>1. pending' \in [Notes!Tabs -> (1 .. notes) \cup {NoNote}] BY <1>2, <1>3, <1>4
  <2>2. spans' \in [Notes!Tabs -> SUBSET (1 .. notes)] BY <1>2, <1>3, <1>4
  <2> QED BY <1>2, <2>1, <2>2 DEF NotesInv, NoteTypes
<1>9. Named' BY <1>2 DEF NotesInv, Structure, Named, Early, Creates
<1>10. OfOneTab'
  <2>1. \A u, v \in Notes!Tabs : pending'[u] = pending'[v] /\ pending'[u] # NoNote => u = v
    BY <1>5 DEF NotesInv, Structure, OfOneTab
  <2>2. ASSUME NEW p \in reqs, Creates(p), NEW u \in Notes!Tabs, pending'[u] = p.note PROVE u = p.by
    <3>1. p.note # NoNote BY <1>4 DEF NotesSetting
    <3>2. pending[u] = p.note BY <1>5, <2>2, <3>1
    <3> QED BY <2>2, <3>2 DEF NotesInv, Structure, OfOneTab
  <2> QED BY <1>2, <2>1, <2>2 DEF NotesInv, Structure, OfOneTab, Creates
<1>11. \A n : (Unsaid(n)' <=> Unsaid(n)) /\ (Thought(n)' <=> Thought(n)) /\ (Shown(n)' <=> Shown(n))
  BY <1>2 DEF Unsaid, Thought, Shown, Creates
<1>12. \A n : Nowhere(n) => Nowhere(n)' BY <1>6 DEF Nowhere
<1>13. Begun'
  <2>1. ASSUME NEW u \in Notes!Tabs, pending'[u] # NoNote, pending'[u] \notin loose', ~Thought(pending[u])'
        PROVE  pending'[u] \in spans'[u] /\ Unsaid(pending[u])'
    <3>1. PICK n : n = pending[u] OBVIOUS
    <3>2. u # t /\ pending'[u] = n /\ n # NoNote /\ n \notin loose BY <1>5, <1>7, <2>1, <3>1
    <3>3. ~Thought(n) BY <1>2, <2>1, <3>1, <3>2 DEF Thought, Creates
    <3>4. n \in spans[u] /\ Unsaid(n) BY <3>1, <3>2, <3>3 DEF NotesInv, Structure, Begun
    <3> QED BY <1>2, <1>6, <3>1, <3>2, <3>4 DEF Unsaid, Creates
  <2>2. ASSUME NEW p \in reqs, Early(p), p.note \notin loose'
        PROVE  p.note \in spans'[p.by] /\ Unsaid(p.note)
    <3>1. p.note \in spans[p.by] /\ Unsaid(p.note) BY <1>7, <2>2 DEF NotesInv, Structure, Begun
    <3>2. p.note # n0 BY <1>7, <2>2 DEF Early, Thought, Creates
    <3> QED BY <1>4, <1>6, <3>1, <3>2
  <2> QED BY <1>2, <1>11, <2>1, <2>2 DEF Begun, Early
<1>14. Tied'
  <2>1. ASSUME NEW p \in reqs, Late(p), p.note \notin loose' PROVE Shown(p.note)' \/ Nowhere(p.note)'
    <3>1. Shown(p.note) \/ Nowhere(p.note) BY <1>7, <2>1 DEF NotesInv, Structure, Tied
    <3> QED BY <1>11, <1>12, <3>1
  <2>2. ASSUME NEW p \in reqs, p.kind = "remove", p.pc = "ok", p.note \notin loose'
        PROVE  /\ \A u \in Notes!Tabs : u # p.by => p.note \notin spans'[u]
               /\ \A th \in threads : th.note # p.note
    BY <1>6, <1>7, <2>2 DEF NotesInv, Structure, Tied
  <2>3. \A p \in reqs : ~Creates(p) => \A th \in threads :
          /\ th.id = p.thread => th.note = p.note
          /\ th.note = p.note /\ p.note \notin loose' => th.id = p.thread
    BY <1>7 DEF NotesInv, Structure, Tied
  <2> QED BY <1>2, <2>1, <2>2, <2>3 DEF Tied, Late, Creates
<1>15. Matched'
  <2>1. ASSUME NEW n \in (1 .. notes) \ loose', NEW u \in Notes!Tabs, n \in spans'[u]
        PROVE  pending'[u] = n \/ Shown(n)'
    <3>1. n \in (1 .. notes) \ loose /\ n \in spans[u] BY <1>6, <1>7, <2>1
    <3>2. pending[u] = n \/ Shown(n) BY <3>1 DEF NotesInv, Structure, Matched
    <3>3. u = t => n # n0 BY <1>6, <2>1
    <3> QED BY <1>1, <1>5, <1>11, <3>2, <3>3
  <2>2. ASSUME NEW n \in (1 .. notes) \ loose', NEW th \in threads, th.note = n PROVE ~Nowhere(n)'
    <3>1. n \in (1 .. notes) \ loose BY <1>7
    <3>2. ~Nowhere(n) BY <2>2, <3>1 DEF NotesInv, Structure, Matched
    <3>3. n # n0
      <4> SUFFICES ASSUME n = n0 PROVE FALSE OBVIOUS
      <4>1. n0 \notin loose' /\ n0 \notin loose BY <2>2, <3>1
      <4>2. ~Thought(n0) BY <1>7, <4>1
      <4>3. Unsaid(n0) BY <1>1, <1>2, <1>3, <4>1, <4>2 DEF NotesInv, Structure, Begun
      <4> QED BY <2>2, <4>3 DEF Unsaid
    <3> QED BY <1>6, <3>2, <3>3 DEF Nowhere
  <2> QED BY <1>2, <2>1, <2>2 DEF Matched
<1>16. Notes!OneThreadPerNote' BY <1>2, <1>7 DEF NotesInv, Structure, Notes!OneThreadPerNote
<1>17. Contents' BY <1>2, ContentsKeep DEF NotesInv
<1>18. Swept' BY <1>2 DEF NotesInv, Swept
<1> QED BY <1>8, <1>9, <1>10, <1>13, <1>14, <1>15, <1>16, <1>17, <1>18 DEF NotesInv, Structure

\* A request that sets out, with a new number.
LEMMA SetsOut ==
  ASSUME NotesSetting, NotesInv, NEW t \in Notes!Tabs, NEW kind \in {"create", "reply", "resolve", "remove"},
         NEW i \in Nat, i <= messages, NEW n \in 1 .. notes, Notes!Send(Notes!Request(t, kind, i, n)),
         UNCHANGED <<run, linked, threads, log, spans, pending, notes, acked, raced, loose, late>>
  PROVE  /\ NoteTypes' /\ Contents' /\ Swept'
         /\ \E r : /\ reqs' = reqs \cup {r} /\ r.by = t /\ r.kind = kind /\ r.thread = i
                   /\ r.note = n /\ r.pc = "sent"
                   /\ \A q \in reqs : q.id # r.id /\ (~Creates(q) => q.thread # r.id)
                   /\ \A th \in threads : th.id # r.id
                   /\ \A a \in acked : a.thread # r.id
<1>1. PICK r : r = Notes!Request(t, kind, i, n) OBVIOUS
<1>2. reqs' = reqs \cup {r} /\ messages' = messages + 1 BY <1>1 DEF Notes!Send
<1>3. messages \in Nat /\ notes \in Nat BY DEF NotesInv, NoteTypes
<1>4. /\ r.id = messages + 1 /\ r.by = t /\ r.kind = kind /\ r.thread = i /\ r.note = n
      /\ r.msgs = {} /\ r.pc = "sent" /\ r \in NoteReq
  BY <1>1, <1>3 DEF Notes!Request, NoteReq
<1>5. NoteTypes'
  <2>1. \A q \in reqs' :
          /\ q \in NoteReq /\ q.id \in 1 .. messages' /\ q.thread <= messages' /\ q.note \in 1 .. notes
          /\ q.msgs \subseteq 1 .. messages'
          /\ q.pc = "insert" => q.kind = "create"
          /\ q.pc = "log" => q.kind \in {"create", "resolve"}
          /\ q.pc = "write" => q.kind = "reply"
    <3> TAKE q \in reqs'
    <3>1. CASE q = r BY <1>2, <1>3, <1>4, <3>1
    <3>2. CASE q \in reqs
      <4>1. /\ q \in NoteReq /\ q.id \in 1 .. messages /\ q.thread <= messages /\ q.note \in 1 .. notes
            /\ q.msgs \subseteq 1 .. messages /\ q.thread \in Nat
            /\ q.pc = "insert" => q.kind = "create"
            /\ q.pc = "log" => q.kind \in {"create", "resolve"}
            /\ q.pc = "write" => q.kind = "reply"
        BY <3>2 DEF NotesInv, NoteTypes, NoteReq
      <4> QED BY <1>2, <1>3, <4>1
    <3> QED BY <1>2, <3>1, <3>2
  <2>2. \A th \in threads : th.id <= messages' /\ th.note \in 1 .. notes /\ th.msgs \subseteq 1 .. messages'
    <3> TAKE th \in threads
    <3>1. th.id <= messages /\ th.note \in 1 .. notes /\ th.msgs \subseteq 1 .. messages /\ th.id \in Nat
      BY DEF NotesInv, NoteTypes, ThreadRec
    <3> QED BY <1>2, <1>3, <3>1
  <2>3. \A a \in acked : a.thread \in Nat /\ a.thread <= messages'
    <3> TAKE a \in acked
    <3>1. a.thread \in Nat /\ a.thread <= messages BY DEF NotesInv, NoteTypes
    <3> QED BY <1>2, <1>3, <3>1
  <2>4. messages' \in Nat BY <1>2, <1>3
  <2> QED BY <2>1, <2>2, <2>3, <2>4 DEF NotesInv, NoteTypes
<1>6. Contents'
  <2>1. \A p \in reqs' : p.pc = "sent" \/ p \in reqs BY <1>2, <1>4
  <2> QED BY <2>1, ContentsKeep DEF NotesInv
<1>7. Swept' BY DEF NotesInv, Swept
<1>8. \A q \in reqs : q.id # r.id /\ (~Creates(q) => q.thread # r.id)
  BY <1>3, <1>4 DEF NotesInv, NoteTypes, NoteReq
<1>9. \A th \in threads : th.id # r.id BY <1>3, <1>4 DEF NotesInv, NoteTypes, ThreadRec
<1>10. \A a \in acked : a.thread # r.id BY <1>3, <1>4 DEF NotesInv, NoteTypes
<1> QED BY <1>2, <1>4, <1>5, <1>6, <1>7, <1>8, <1>9, <1>10

LEMMA SubmitKeeps ==
  ASSUME NotesSetting, NotesInv, NEW t \in Writers, Notes!Submit(t)
  PROVE  NotesInv'
<1>1. PICK n0 : n0 = pending[t] OBVIOUS
<1>2. /\ n0 # NoNote /\ ~\E q \in reqs : q.by = t /\ Creates(q)
      /\ Notes!Send(Notes!Request(t, "create", 0, n0))
      /\ UNCHANGED <<run, linked, threads, log, spans, pending, notes, acked, raced, loose, late>>
  BY <1>1 DEF Notes!Submit, Creates
<1>3. t \in Notes!Tabs BY DEF Notes!Tabs
<1>4. n0 \in 1 .. notes /\ 0 <= messages /\ 0 \in Nat BY <1>1, <1>2, <1>3 DEF NotesInv, NoteTypes
<1>5. /\ NoteTypes' /\ Contents' /\ Swept'
      /\ \E r : /\ reqs' = reqs \cup {r} /\ r.by = t /\ r.kind = "create" /\ r.thread = 0
                /\ r.note = n0 /\ r.pc = "sent"
                /\ \A q \in reqs : q.id # r.id /\ (~Creates(q) => q.thread # r.id)
                /\ \A th \in threads : th.id # r.id
                /\ \A a \in acked : a.thread # r.id
  BY <1>2, <1>3, <1>4, SetsOut
<1>6. PICK r : /\ reqs' = reqs \cup {r} /\ r.by = t /\ r.kind = "create" /\ r.thread = 0
               /\ r.note = n0 /\ r.pc = "sent"
               /\ \A q \in reqs : q.id # r.id /\ (~Creates(q) => q.thread # r.id)
               /\ \A th \in threads : th.id # r.id
               /\ \A a \in acked : a.thread # r.id
  BY <1>5
<1>7. Creates(r) /\ Early(r) /\ ~Late(r) BY <1>6 DEF Creates, Early, Late
<1>8. \A q \in reqs' : q = r \/ q \in reqs BY <1>6
<1>9. ~Thought(n0)
  <2>1. \A q \in reqs : Creates(q) /\ q.note = n0 => t = q.by
    BY <1>1, <1>3 DEF NotesInv, Structure, OfOneTab
  <2> QED BY <1>2, <2>1 DEF Thought
<1>10. n0 \notin loose => n0 \in spans[t] /\ Unsaid(n0)
  BY <1>1, <1>2, <1>3, <1>9 DEF NotesInv, Structure, Begun
<1>11. \A n : (Unsaid(n) => Unsaid(n)') /\ (Thought(n) => Thought(n)') /\ (Shown(n) => Shown(n)')
              /\ (Nowhere(n) <=> Nowhere(n)')
  BY <1>2, <1>6, <1>7, <1>8 DEF Unsaid, Thought, Shown, Creates, Nowhere
<1>12. Named'
  <2>1. \A p, q \in reqs' : p.id = q.id => p = q BY <1>6, <1>8 DEF NotesInv, Structure, Named
  <2>2. ASSUME NEW q \in reqs', Early(q)
        PROVE  /\ \A th \in threads : th.id # q.id
               /\ \A p \in reqs' : ~Creates(p) => p.thread # q.id
               /\ \A a \in acked : a.thread # q.id
    <3>1. CASE q = r BY <1>6, <1>7, <1>8, <3>1
    <3>2. CASE q \in reqs BY <1>7, <1>8, <2>2, <3>2 DEF NotesInv, Structure, Named
    <3> QED BY <1>8, <3>1, <3>2
  <2> QED BY <1>2, <2>1, <2>2 DEF NotesInv, Structure, Named, Early, Creates
<1>13. OfOneTab'
  <2>1. \A q \in reqs' : Creates(q) => \A u \in Notes!Tabs : pending[u] = q.note => u = q.by
    <3>1. \A u \in Notes!Tabs : pending[u] = n0 => u = t
      BY <1>1, <1>2, <1>3 DEF NotesInv, Structure, OfOneTab
    <3> QED BY <1>6, <1>8, <3>1 DEF NotesInv, Structure, OfOneTab
  <2>2. \A q \in reqs : Creates(q) => q.note # n0 /\ q.by # t BY <1>2, <1>9 DEF Thought
  <2>3. \A p, q \in reqs' : Creates(p) /\ Creates(q) /\ (p.note = q.note \/ p.by = q.by) => p = q
    BY <1>6, <1>8, <2>2 DEF NotesInv, Structure, OfOneTab
  <2> QED BY <1>2, <2>1, <2>3 DEF NotesInv, Structure, OfOneTab, Creates
<1>14. Begun'
  <2>1. ASSUME NEW u \in Notes!Tabs, pending[u] # NoNote, pending[u] \notin loose, ~Thought(pending[u])'
        PROVE  pending[u] \in spans[u] /\ Unsaid(pending[u])'
    <3>1. PICK n : n = pending[u] OBVIOUS
    <3>2. ~Thought(n)' BY <1>2, <2>1, <3>1 DEF Thought
    <3>3. ~Thought(n) BY <1>11, <3>2
    <3>4. n \in spans[u] /\ Unsaid(n) BY <2>1, <3>1, <3>3 DEF NotesInv, Structure, Begun
    <3>5. Unsaid(n)' BY <1>11, <3>4
    <3> QED BY <1>2, <3>1, <3>4, <3>5 DEF Unsaid
  <2>2. ASSUME NEW q \in reqs', Early(q), q.note \notin loose
        PROVE  q.note \in spans[q.by] /\ Unsaid(q.note)'
    <3>1. q.note \in spans[q.by] /\ Unsaid(q.note)
      <4>1. CASE q = r
        <5>1. n0 \in spans[t] /\ Unsaid(n0) BY <1>6, <1>10, <2>2, <4>1
        <5> QED BY <1>6, <4>1, <5>1
      <4>2. CASE q \in reqs BY <2>2, <4>2 DEF NotesInv, Structure, Begun
      <4> QED BY <1>8, <4>1, <4>2
    <3> QED BY <1>11, <3>1
  <2> QED BY <1>2, <2>1, <2>2 DEF Begun, Early
<1>15. Tied'
  <2>1. ASSUME NEW p \in reqs', Late(p), p.note \notin loose PROVE Shown(p.note)' \/ Nowhere(p.note)'
    <3>1. p \in reqs BY <1>7, <1>8, <2>1
    <3>2. Shown(p.note) \/ Nowhere(p.note) BY <2>1, <3>1 DEF NotesInv, Structure, Tied
    <3> QED BY <1>11, <3>2
  <2>2. \A p \in reqs' : ~Creates(p) => p \in reqs BY <1>7, <1>8
  <2>3. \A p \in reqs' : p.kind = "remove" => p \in reqs BY <1>6, <1>8
  <2> QED BY <1>2, <2>1, <2>2, <2>3 DEF NotesInv, Structure, Tied, Late, Creates
<1>16. Matched' BY <1>2, <1>11 DEF NotesInv, Structure, Matched
<1>17. Notes!OneThreadPerNote' BY <1>2 DEF NotesInv, Structure, Notes!OneThreadPerNote
<1> QED BY <1>5, <1>12, <1>13, <1>14, <1>15, <1>16, <1>17 DEF NotesInv, Structure

LEMMA ActKeeps ==
  ASSUME NotesSetting, NotesInv, NEW t \in Readers, NEW th \in threads,
         NEW kind \in {"reply", "resolve", "remove"}, Notes!Act(t, kind, th)
  PROVE  NotesInv'
<1>1. /\ Notes!Send(Notes!Request(t, kind, th.id, th.note))
      /\ UNCHANGED <<run, linked, threads, log, spans, pending, notes, acked, raced, loose, late>>
  BY DEF Notes!Act
<1>2. t \in Notes!Tabs /\ kind \in {"create", "reply", "resolve", "remove"} BY DEF Notes!Tabs
<1>3. th.id \in Nat /\ th.id <= messages /\ th.note \in 1 .. notes
  BY DEF NotesInv, NoteTypes, ThreadRec
<1>4. /\ NoteTypes' /\ Contents' /\ Swept'
      /\ \E r : /\ reqs' = reqs \cup {r} /\ r.by = t /\ r.kind = kind /\ r.thread = th.id
                /\ r.note = th.note /\ r.pc = "sent"
                /\ \A q \in reqs : q.id # r.id /\ (~Creates(q) => q.thread # r.id)
                /\ \A u \in threads : u.id # r.id
                /\ \A a \in acked : a.thread # r.id
  BY <1>1, <1>2, <1>3, SetsOut
<1>5. PICK r : /\ reqs' = reqs \cup {r} /\ r.by = t /\ r.kind = kind /\ r.thread = th.id
               /\ r.note = th.note /\ r.pc = "sent"
               /\ \A q \in reqs : q.id # r.id
  BY <1>4
<1>6. ~Creates(r) /\ ~Early(r) /\ ~Late(r) BY <1>5 DEF Creates, Early, Late
<1>7. \A q \in reqs' : q = r \/ q \in reqs BY <1>5
<1>8. \A n : (Unsaid(n) => Unsaid(n)') /\ (Thought(n) => Thought(n)') /\ (Shown(n) => Shown(n)')
             /\ (Nowhere(n) <=> Nowhere(n)')
  <2>1. \A n : Unsaid(n) => Unsaid(n)' BY <1>1, <1>5, <1>7 DEF Unsaid, Creates
  <2> QED BY <1>1, <1>5, <2>1 DEF Thought, Shown, Creates, Nowhere
<1>9. Named'
  <2>1. \A p, q \in reqs' : p.id = q.id => p = q BY <1>5, <1>7 DEF NotesInv, Structure, Named
  <2>2. ASSUME NEW q \in reqs', Early(q)
        PROVE  /\ \A u \in threads : u.id # q.id
               /\ \A p \in reqs' : ~Creates(p) => p.thread # q.id
               /\ \A a \in acked : a.thread # q.id
    <3>1. q \in reqs BY <1>6, <1>7, <2>2
    <3>2. /\ \A u \in threads : u.id # q.id
          /\ \A p \in reqs : ~Creates(p) => p.thread # q.id
          /\ \A a \in acked : a.thread # q.id
      BY <2>2, <3>1 DEF NotesInv, Structure, Named
    <3> QED BY <1>5, <1>7, <3>2
  <2> QED BY <1>1, <2>1, <2>2 DEF NotesInv, Structure, Named, Early, Creates
<1>10. OfOneTab'
  <2>1. \A q \in reqs' : Creates(q) => q \in reqs BY <1>6, <1>7
  <2> QED BY <1>1, <2>1 DEF NotesInv, Structure, OfOneTab, Creates
<1>11. Begun'
  <2>1. ASSUME NEW u \in Notes!Tabs, pending[u] # NoNote, pending[u] \notin loose, ~Thought(pending[u])'
        PROVE  pending[u] \in spans[u] /\ Unsaid(pending[u])'
    <3>1. PICK n : n = pending[u] OBVIOUS
    <3>2. ~Thought(n)' BY <1>1, <2>1, <3>1 DEF Thought
    <3>3. ~Thought(n) BY <1>8, <3>2
    <3>4. n \in spans[u] /\ Unsaid(n) BY <2>1, <3>1, <3>3 DEF NotesInv, Structure, Begun
    <3>5. Unsaid(n)' BY <1>8, <3>4
    <3> QED BY <1>1, <3>1, <3>4, <3>5 DEF Unsaid
  <2>2. ASSUME NEW q \in reqs', Early(q), q.note \notin loose
        PROVE  q.note \in spans[q.by] /\ Unsaid(q.note)'
    <3>1. q \in reqs BY <1>6, <1>7, <2>2
    <3>2. q.note \in spans[q.by] /\ Unsaid(q.note) BY <2>2, <3>1 DEF NotesInv, Structure, Begun
    <3> QED BY <1>8, <3>2
  <2> QED BY <1>1, <2>1, <2>2 DEF Begun, Early
<1>12. Tied'
  <2>1. ASSUME NEW p \in reqs', Late(p), p.note \notin loose PROVE Shown(p.note)' \/ Nowhere(p.note)'
    <3>1. p \in reqs BY <1>6, <1>7, <2>1
    <3>2. Shown(p.note) \/ Nowhere(p.note) BY <2>1, <3>1 DEF NotesInv, Structure, Tied
    <3> QED BY <1>8, <3>2
  <2>2. ASSUME NEW p \in reqs', ~Creates(p), NEW u \in threads
        PROVE  /\ u.id = p.thread => u.note = p.note
               /\ u.note = p.note /\ p.note \notin loose => u.id = p.thread
    <3>1. CASE p = r
      <4>1. u.id = th.id => u = th BY DEF NotesInv, Structure, Named
      <4>2. u.note = th.note /\ th.note \notin loose => u = th
        BY DEF NotesInv, Structure, Notes!OneThreadPerNote
      <4> QED BY <1>5, <3>1, <4>1, <4>2
    <3>2. CASE p \in reqs BY <2>2, <3>2 DEF NotesInv, Structure, Tied
    <3> QED BY <1>7, <3>1, <3>2
  <2>3. \A p \in reqs' : p.pc = "ok" => p \in reqs BY <1>5, <1>7
  <2> QED BY <1>1, <2>1, <2>2, <2>3 DEF NotesInv, Structure, Tied, Late, Creates
<1>13. Matched' BY <1>1, <1>8 DEF NotesInv, Structure, Matched
<1>14. Notes!OneThreadPerNote' BY <1>1 DEF NotesInv, Structure, Notes!OneThreadPerNote
<1> QED BY <1>4, <1>9, <1>10, <1>11, <1>12, <1>13, <1>14 DEF NotesInv, Structure

-----------------------------------------------------------------------------
(* The run. *)

\* A step of the run leaves the requests alone; a thread it takes along is loose then.
LEMMA RunSteps ==
  ASSUME NotesInv, run' \in {"there", "unlinked", "log", "gone"}, linked' \in BOOLEAN,
         threads' = threads \/ threads' = {}, loose' = loose \cup {th.note : th \in threads \ threads'},
         UNCHANGED <<spans, pending, reqs, notes, messages, acked, raced>>
  PROVE  NoteTypes' /\ Structure' /\ Contents'
<1>1. threads' \subseteq threads /\ loose \subseteq loose' OBVIOUS
<1>2. NoteTypes'
  <2>1. IsFiniteSet(threads') BY <1>1, FS_Subset DEF NotesInv, NoteTypes
  <2> QED BY <1>1, <2>1 DEF NotesInv, NoteTypes
<1>3. Structure'
  <2>1. \A p \in reqs' : \E s \in reqs :
          /\ Same(p, s) /\ (Early(p) => Early(s)) /\ (Late(p) => Late(s))
          /\ p.kind = "remove" /\ p.pc = "ok" => s.pc = "ok"
    BY DEF Same
  <2>2. /\ \A p, q \in reqs' : p.id = q.id => p = q
        /\ \A th, o \in threads' : th.id = o.id => th = o
        /\ \A q \in reqs' : Early(q) => \A a \in acked' : a.thread # q.id
    BY <1>1 DEF NotesInv, Structure, Named
  <2>3. \A s \in reqs : s.kind \in {"create", "remove"} /\ s.note \notin loose' =>
          \E p \in reqs' : p.kind = s.kind /\ p.note = s.note
    OBVIOUS
  <2>4. \A th \in threads' : \E o \in threads : th.id = o.id /\ th.note = o.note BY <1>1
  <2>5. \A o \in threads : o.note \notin loose' => \E th \in threads' : th.id = o.id /\ th.note = o.note
    OBVIOUS
  <2> QED BY <1>1, <2>1, <2>2, <2>3, <2>4, <2>5, StructureKeeps DEF NotesInv
<1>4. Contents'
  <2>1. \A th \in threads' : \E o \in threads : th.id = o.id /\ th.msgs = o.msgs BY <1>1
  <2> QED BY <2>1, ContentsKeep DEF NotesInv
<1> QED BY <1>2, <1>3, <1>4

LEMMA RunKeeps ==
  ASSUME NotesSetting, NotesInv,
         Notes!Link \/ Notes!Unlink \/ Notes!DeleteLog \/ Notes!DeleteRun \/ Notes!DeleteFails
  PROVE  NotesInv'
<1>1. run' \in {"there", "unlinked", "log", "gone"} /\ linked' \in BOOLEAN
  BY DEF NotesInv, NoteTypes, Notes!Link, Notes!Unlink, Notes!DeleteLog, Notes!DeleteRun, Notes!DeleteFails
<1>2. UNCHANGED <<spans, pending, reqs, notes, messages, acked, raced>>
  BY DEF Notes!Link, Notes!Unlink, Notes!DeleteLog, Notes!DeleteRun, Notes!DeleteFails
<1>3. /\ threads' = threads \/ threads' = {}
      /\ loose' = loose \cup {th.note : th \in threads \ threads'}
  <2>1. CASE Notes!DeleteRun
    <3>1. threads' = {} /\ loose' = loose \cup {th.note : th \in threads} BY <2>1 DEF Notes!DeleteRun
    <3> QED BY <3>1
  <2>2. CASE Notes!Link \/ Notes!Unlink \/ Notes!DeleteLog \/ Notes!DeleteFails
    <3>1. threads' = threads /\ loose' = loose
      BY <2>2 DEF Notes!Link, Notes!Unlink, Notes!DeleteLog, Notes!DeleteFails
    <3> QED BY <3>1
  <2> QED BY <2>1, <2>2
<1>4. NoteTypes' /\ Structure' /\ Contents' BY <1>1, <1>2, <1>3, RunSteps
<1>5. Swept'
  <2>1. CASE Notes!Link BY <2>1 DEF NotesInv, Swept, Notes!Link
  <2>2. CASE Notes!Unlink BY <2>2 DEF NotesInv, Swept, Notes!Unlink
  <2>3. CASE Notes!DeleteLog BY <2>3 DEF NotesInv, Swept, Notes!DeleteLog
  <2>4. CASE Notes!DeleteRun BY <2>4 DEF NotesInv, Swept, Notes!DeleteRun
  <2>5. CASE Notes!DeleteFails BY <2>5 DEF NotesInv, Swept, Notes!DeleteFails
  <2> QED BY <2>1, <2>2, <2>3, <2>4, <2>5
<1> QED BY <1>4, <1>5 DEF NotesInv

-----------------------------------------------------------------------------
(* The theorems. *)

LEMMA NotesBegin == ASSUME NotesSetting, Notes!Init PROVE NotesInv
<1>1. /\ run = "there" /\ linked = FALSE /\ threads = {} /\ log = {} /\ reqs = {}
      /\ spans = [t \in Notes!Tabs |-> {}] /\ pending = [t \in Notes!Tabs |-> NoNote]
      /\ notes = 0 /\ messages = 0
      /\ acked = {} /\ raced = {} /\ loose = {} /\ late = {}
  BY DEF Notes!Init
<1>2. NoteTypes BY <1>1, FS_EmptySet DEF NoteTypes
<1>3. Named /\ Tied /\ Matched BY <1>1 DEF Named, Tied, Matched
<1>4. OfOneTab /\ Begun BY <1>1 DEF OfOneTab, Begun
<1>5. Notes!OneThreadPerNote BY <1>1 DEF Notes!OneThreadPerNote
<1>6. Contents /\ Swept BY <1>1 DEF Contents, Messages, Snapshots, Swept
<1> QED BY <1>2, <1>3, <1>4, <1>5, <1>6 DEF NotesInv, Structure

LEMMA NotesKeep == ASSUME NotesSetting, NotesInv, [Notes!Next]_(Notes!vars) PROVE NotesInv'
<1>1. CASE Notes!Next
  <2>1. ASSUME NEW t \in Writers, Notes!Begin(t) \/ Notes!Cancel(t) \/ Notes!Submit(t) PROVE NotesInv'
    BY <2>1, BeginKeeps, CancelKeeps, SubmitKeeps
  <2>2. ASSUME NEW t \in Readers, NEW th \in threads, NEW kind \in {"reply", "resolve", "remove"},
               Notes!Act(t, kind, th)
        PROVE  NotesInv'
    BY <2>2, ActKeeps
  <2>3. ASSUME NEW q \in reqs, Notes!Answer(q) PROVE NotesInv'
    <3>1. q.kind \in {"create", "reply", "resolve", "remove"} BY DEF NotesInv, NoteTypes, NoteReq
    <3> QED BY <2>3, <3>1, AnswerReplyKeeps, AnswerCreateKeeps, AnswerRemoveKeeps
  <2>4. ASSUME NEW q \in reqs, \/ Notes!Fail(q) \/ Notes!CreateCheck(q) \/ Notes!CreateInsert(q)
                               \/ Notes!ReplyRead(q) \/ Notes!ReplyWrite(q) \/ Notes!Resolve(q)
                               \/ Notes!WriteReviewEvent(q) \/ Notes!Remove(q)
        PROVE  NotesInv'
    BY <2>4, NoteFailKeeps, CreateCheckKeeps, CreateInsertKeeps, ReplyReadKeeps, ReplyWriteKeeps,
       ResolveKeeps, WriteReviewEventKeeps, RemoveKeeps
  <2>5. CASE Notes!Link \/ Notes!Unlink \/ Notes!DeleteLog \/ Notes!DeleteRun \/ Notes!DeleteFails
    BY <2>5, RunKeeps
  <2> QED BY <1>1, <2>1, <2>2, <2>3, <2>4, <2>5 DEF Notes!Next
<1>2. CASE UNCHANGED Notes!vars
  <2>1. UNCHANGED <<run, linked, threads, log, spans, pending, reqs, notes, messages, acked, raced, loose, late>>
    BY <1>2 DEF Notes!vars
  <2>2. NoteTypes' /\ Structure' /\ Contents'
    <3>1. run' \in {"there", "unlinked", "log", "gone"} /\ linked' \in BOOLEAN
      BY <2>1 DEF NotesInv, NoteTypes
    <3>2. loose' = loose \cup {th.note : th \in threads \ threads'} BY <2>1
    <3> QED BY <2>1, <3>1, <3>2, RunSteps
  <2>3. Swept' BY <2>1 DEF NotesInv, Swept
  <2> QED BY <2>2, <2>3 DEF NotesInv
<1> QED BY <1>1, <1>2

LEMMA NotesInvHolds == ASSUME NotesSetting PROVE Notes!Spec => []NotesInv
<1>1. Notes!Init => NotesInv BY NotesBegin
<1>2. NotesInv /\ [Notes!Next]_(Notes!vars) => NotesInv' BY NotesKeep
<1> QED BY <1>1, <1>2, PTL DEF Notes!Spec

\* A thread has one id, a tab creates one at a time, and the numbers of notes and
\* messages are of those that were made.
THEOREM NotesTypeOK == ASSUME NotesSetting PROVE Notes!Spec => []Notes!TypeOK
<1>1. ASSUME NotesInv PROVE Notes!TypeOK
  <2>1. ASSUME NEW t \in Notes!Tabs
        PROVE  Notes!Cardinality({q \in reqs : q.by = t /\ q.kind = "create"}) <= 1
    <3>1. PICK S : S = {q \in reqs : q.by = t /\ q.kind = "create"} OBVIOUS
    <3>2. \A p, q \in S : p = q BY <1>1, <3>1 DEF NotesInv, Structure, OfOneTab, Creates
    <3>3. S = {} \/ \E q : S = {q} BY <3>2
    <3>4. Cardinality(S) \in {0, 1} BY <3>3, FS_EmptySet, FS_Singleton
    <3>5. Notes!Cardinality(S) = Cardinality(S) BY DEF Notes!Cardinality, Cardinality
    <3>6. Notes!Cardinality(S) <= 1 BY <3>4, <3>5
    <3> QED BY <3>1, <3>6
  <2>2. Notes!Cardinality({th.id : th \in threads}) = Notes!Cardinality(threads)
    <3>1. PICK ids : ids = {th.id : th \in threads} OBVIOUS
    <3>2. PICK f : f = [th \in threads |-> th.id] OBVIOUS
    <3>3. f \in Surjection(threads, ids) BY <3>1, <3>2 DEF Surjection
    <3>4. f \in Injection(threads, ids)
      BY <1>1, <3>1, <3>2 DEF Injection, IsInjective, NotesInv, Structure, Named
    <3>5. IsFiniteSet(threads) BY <1>1 DEF NotesInv, NoteTypes
    <3>6. Cardinality(ids) = Cardinality(threads) BY <3>3, <3>4, <3>5, FS_Surjection
    <3>7. \A S : Notes!Cardinality(S) = Cardinality(S) BY DEF Notes!Cardinality, Cardinality
    <3>8. Notes!Cardinality(ids) = Notes!Cardinality(threads) BY <3>6, <3>7
    <3> QED BY <3>1, <3>8
  <2>3. \A t \in Notes!Tabs : spans[t] \subseteq 1 .. notes /\ pending[t] \in (1 .. notes) \cup {NoNote}
    BY <1>1 DEF NotesInv, NoteTypes
  <2>4. /\ run \in {"there", "unlinked", "log", "gone"} /\ linked \in BOOLEAN
        /\ \A th \in threads : th.note \in 1 .. notes /\ th.msgs \subseteq 1 .. messages
    BY <1>1 DEF NotesInv, NoteTypes
  <2> QED BY <2>1, <2>2, <2>3, <2>4 DEF Notes!TypeOK
<1> QED BY <1>1, NotesInvHolds, PTL

\* A highlight has its composer or its thread and a thread its highlight, whatever
\* is begun, cancelled, answered, removed and deleted in whatever order; and a
\* note has one thread.
THEOREM NotesAreMatched ==
  ASSUME NotesSetting PROVE Notes!Spec => [](Notes!NotesMatch /\ Notes!OneThreadPerNote)
<1>1. ASSUME NotesInv PROVE Notes!NotesMatch /\ Notes!OneThreadPerNote
  <2>1. Matched /\ Notes!OneThreadPerNote BY <1>1 DEF NotesInv, Structure
  <2>2. Notes!NotesMatch BY <2>1 DEF Matched, Shown, Nowhere, Notes!NotesMatch
  <2> QED BY <2>1, <2>2
<1> QED BY <1>1, NotesInvHolds, PTL

\* A message whose sender was told of it stays in its thread, whichever replies,
\* resolutions and removals are under way, but for the replies that overlapped.
THEOREM MessagesAreKept == ASSUME NotesSetting PROVE Notes!Spec => []Notes!AckedMessageStays
<1>1. ASSUME NotesInv PROVE Notes!AckedMessageStays
  <2>1. \A a \in acked : Holds(a.id, a.thread) BY <1>1 DEF NotesInv, Contents, Messages
  <2> QED BY <2>1 DEF Holds, Notes!AckedMessageStays, Notes!ById
<1> QED BY <1>1, NotesInvHolds, PTL

\* Of a deleted run nothing is left but what was written after its step of the
\* deletion, also when a deletion failed halfway and was begun again.
THEOREM DeletionIsComplete == ASSUME NotesSetting PROVE Notes!Spec => []Notes!NothingOutlivesTheRun
<1>1. ASSUME NotesInv PROVE Notes!NothingOutlivesTheRun
  BY <1>1 DEF NotesInv, Swept, Notes!NothingOutlivesTheRun
<1> QED BY <1>1, NotesInvHolds, PTL
=============================================================================
