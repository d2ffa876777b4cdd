---------------------------- MODULE Accounts_proofs ----------------------------
(***************************************************************************)
(* Proofs about Accounts, for any number of people and requests of admins: *)
(* an admin remains, the row and the identity agree on who is disabled,    *)
(* and a revoked session lets nobody in again.                             *)
(***************************************************************************)
EXTENDS Accounts, TLAPS

Kinds == {"add", "role", "disable", "enable", "delete", "revoke"}
Pcs == {"find", "purge", "insert", "write", "ban", "kill", "status", "stamp", "identity", "row"}

Session == [on : BOOLEAN, pre : SUBSET Nat]
Token == [id : Nat, iat : Nat, pre : SUBSET Nat]
AppUser == [id : Nat, role : Roles, active : BOOLEAN, revoked : Int]
Request == [n : Nat \ {0}, by : People, who : People, kind : Kinds, role : {"viewer", "admin"},
            id : Nat, pc : Pcs]

\* What an instance has to give.
Setting == /\ N \in Nat /\ MaxIds \in Nat /\ N <= MaxIds /\ Eligible \subseteq People
           /\ NoRow \notin AppUser /\ NoToken \notin Token

\* The steps of a request, by its kind.
Steps(kind) ==
    CASE kind = "add" -> {"find", "purge", "insert"} [] kind = "role" -> {"write"}
      [] kind = "disable" -> {"ban", "kill", "status"} [] kind = "enable" -> {"ban", "status"}
      [] kind = "delete" -> {"identity", "row"} [] kind = "revoke" -> {"kill", "stamp"}

\* A request is at a step of its kind and, once it has one, about an identity that was
\* issued.
Going(q) == /\ q.n <= sent /\ q.pc \in Steps(q.kind)
            /\ q.pc # "find" => q.id \in 1 .. ids

Types ==
    /\ ids \in 0 .. MaxIds /\ now \in Nat /\ sent \in Nat
    /\ ident \in [People -> 0 .. ids] /\ banned \subseteq People
    /\ session \in [People -> Session] /\ token \in [People -> Token \cup {NoToken}]
    /\ rows \in [People -> AppUser \cup {NoRow}]
    /\ reqs \subseteq Request /\ \A q \in reqs : Going(q)
    /\ last \in [People -> Kinds \cup {"none"}]
    /\ \A p \in People : rows[p] # NoRow => rows[p].id \in 1 .. ids
    /\ \A p, o \in People : p # o /\ ident[p] # 0 => ident[p] # ident[o]
    /\ \A p \in People : p \in banned \/ session[p].on => ident[p] # 0

-----------------------------------------------------------------------------
(* Types. *)

\* The first step of a request is a step of its kind.
LEMMA FirstStep ==
  /\ \A kind \in Kinds : First(kind) \in Steps(kind) /\ (First(kind) = "find" <=> kind = "add")
  /\ First("add") = "find" /\ First("role") = "write" /\ First("disable") = "ban"
  /\ First("enable") = "ban" /\ First("delete") = "identity" /\ First("revoke") = "kill"
  /\ Steps("add") = {"find", "purge", "insert"} /\ Steps("role") = {"write"}
  /\ Steps("disable") = {"ban", "kill", "status"} /\ Steps("enable") = {"ban", "status"}
  /\ Steps("delete") = {"identity", "row"} /\ Steps("revoke") = {"kill", "stamp"}
<1>1. /\ First("add") = "find" /\ First("role") = "write" /\ First("disable") = "ban"
      /\ First("enable") = "ban" /\ First("delete") = "identity" /\ First("revoke") = "kill"
  BY DEF First
<1>2. /\ Steps("add") = {"find", "purge", "insert"} /\ Steps("role") = {"write"}
      /\ Steps("disable") = {"ban", "kill", "status"} /\ Steps("enable") = {"ban", "status"}
      /\ Steps("delete") = {"identity", "row"} /\ Steps("revoke") = {"kill", "stamp"}
  BY DEF Steps
<1> QED BY <1>1, <1>2 DEF Kinds

\* So a step tells the kinds of the requests that are at it.
LEMMA KindOf ==
  ASSUME NEW q \in Request, Going(q)
  PROVE  /\ q.pc \in {"find", "purge", "insert"} => q.kind = "add"
         /\ q.pc = "write" => q.kind = "role"
         /\ q.pc = "ban" => q.kind \in {"disable", "enable"}
         /\ q.pc = "kill" => q.kind \in {"disable", "revoke"}
         /\ q.pc = "status" => q.kind \in {"disable", "enable"}
         /\ q.pc = "stamp" => q.kind = "revoke"
         /\ q.pc \in {"identity", "row"} => q.kind = "delete"
<1>1. q.kind \in Kinds /\ q.pc \in Steps(q.kind) BY DEF Request, Going
<1> QED BY <1>1, FirstStep DEF Kinds

\* A request that goes on to another step.
LEMMA ToType ==
  ASSUME NEW q \in Request, NEW pc \in Pcs
  PROVE  LET r == [q EXCEPT !.pc = pc] IN
         /\ r \in Request /\ r.n = q.n /\ r.by = q.by /\ r.who = q.who /\ r.kind = q.kind
         /\ r.role = q.role /\ r.id = q.id /\ r.pc = pc
BY DEF Request

\* The requests after one of them took a step, or ended.
LEMMA ReqsType ==
  ASSUME Types, NEW q \in reqs, ids' \in Nat, ids <= ids', UNCHANGED sent,
         \/ reqs' = reqs \ {q}
         \/ \E pc \in Steps(q.kind) \cap Pcs : q.pc # "find" /\ pc # "find" /\ reqs' = To(q, pc)
  PROVE  reqs' \subseteq Request /\ \A r \in reqs' : Going(r)'
<1>1. \A r \in reqs : r \in Request /\ Going(r)' BY DEF Types, Going
<1>2. CASE reqs' = reqs \ {q} BY <1>1, <1>2
<1>3. ASSUME NEW pc \in Steps(q.kind) \cap Pcs, q.pc # "find", pc # "find", reqs' = To(q, pc)
      PROVE  reqs' \subseteq Request /\ \A r \in reqs' : Going(r)'
  <2> DEFINE r == [q EXCEPT !.pc = pc]
  <2>1. r \in Request /\ r.n = q.n /\ r.kind = q.kind /\ r.id = q.id /\ r.pc = pc
    BY <1>1, ToType
  <2>2. reqs' = (reqs \ {q}) \cup {r} BY <1>3 DEF To
  <2> HIDE DEF r
  <2>3. Going(r)' BY <1>1, <1>3, <2>1 DEF Going
  <2> QED BY <1>1, <2>1, <2>2, <2>3
<1> QED BY <1>2, <1>3

\* What a token and a session may be replaced by.
LEMMA MarksType ==
  ASSUME Setting, Types, NEW p \in People
  PROVE  /\ \A x \in Session : /\ Marked(x) \in Session /\ Marked(x).on = x.on
                               /\ Marked(x).pre = x.pre \cup {sent + 1}
         /\ \A x \in Token : /\ Marked(x) \in Token /\ Marked(x).id = x.id /\ Marked(x).iat = x.iat
                             /\ Marked(x).pre = x.pre \cup {sent + 1}
         /\ \A q : \A x \in Session :
              /\ Cut(x, q) \in Session /\ Cut(x, q).on = x.on
              /\ Cut(x, q).pre = IF q.n \in x.pre THEN x.pre \cup {0} ELSE x.pre
         /\ \A q : \A x \in Token :
              /\ Cut(x, q) \in Token /\ Cut(x, q).id = x.id /\ Cut(x, q).iat = x.iat
              /\ Cut(x, q).pre = IF q.n \in x.pre THEN x.pre \cup {0} ELSE x.pre
         /\ \A x \in Session : [x EXCEPT !.pre = {}] \in Session
         /\ \A x \in Token : [x EXCEPT !.pre = {}] \in Token
BY DEF Types, Session, Token, Marked, Cut

\* One token is replaced, if there is one.
LEMMA OfType ==
  ASSUME Setting, Types, NEW p \in People, NEW x, token[p] # NoToken => x \in Token, Of(p, x)
  PROVE  /\ token' \in [People -> Token \cup {NoToken}]
         /\ token[p] = NoToken => token'[p] = NoToken
         /\ token[p] # NoToken => token'[p] = x
         /\ \A o \in People \ {p} : token'[o] = token[o]
BY DEF Types, Of

\* Everybody eligible has an identity at the start.
LEMMA TypesInit == Setting /\ Init => Types
<1> SUFFICES ASSUME Setting, Init PROVE Types OBVIOUS
<1>1. /\ N \in Nat /\ N \in 0 .. MaxIds /\ ids = N /\ now = 0 /\ sent = 0 /\ reqs = {} /\ banned = {}
      /\ Eligible \subseteq People /\ People = 1 .. N
  BY DEF Init, Setting, People
<1>2. \A p \in People : ident[p] = IF p \in Eligible THEN p ELSE 0 BY DEF Init
<1>3. ident \in [People -> 0 .. ids] BY <1>1 DEF Init
<1>4. session \in [People -> Session] /\ \A p \in People : session[p].on => p \in Eligible
  <2>1. \A p \in People : [on |-> p \in Eligible, pre |-> {}] \in Session BY DEF Session
  <2>2. \A p \in People : session[p] = [on |-> p \in Eligible, pre |-> {}] BY DEF Init
  <2>3. session \in [People -> Session] BY <2>1 DEF Init
  <2>4. ASSUME NEW p \in People, session[p].on PROVE p \in Eligible
    <3>1. session[p] = [on |-> p \in Eligible, pre |-> {}] BY <2>2
    <3>2. [on |-> p \in Eligible, pre |-> {}].on BY <2>4, <3>1, Zenon
    <3> QED BY <3>2, Zenon
  <2> QED BY <2>3, <2>4
<1>5. token \in [People -> Token \cup {NoToken}]
  <2>1. \A p \in Eligible : [id |-> ident[p], iat |-> 0, pre |-> {}] \in Token
    BY <1>1, <1>2 DEF Token
  <2> QED BY <1>1, <2>1 DEF Init
<1>6. \A p \in Eligible : Row(ident[p], "admin") \in AppUser /\ Row(ident[p], "admin").id = ident[p]
  BY <1>1, <1>2 DEF Row, AppUser, Roles
<1>7. rows \in [People -> AppUser \cup {NoRow}] /\ \A p \in People : rows[p] # NoRow => rows[p].id \in 1 .. ids
  <2>1. \A p \in People : rows[p] = IF p \in Eligible THEN Row(ident[p], "admin") ELSE NoRow
    BY DEF Init
  <2>2. \A p \in Eligible : ident[p] \in 1 .. ids BY <1>1, <1>2
  <2>3. rows = [p \in People |-> IF p \in Eligible THEN Row(ident[p], "admin") ELSE NoRow] BY DEF Init
  <2> QED BY <1>1, <1>6, <2>1, <2>2, <2>3
<1>8. last \in [People -> Kinds \cup {"none"}] BY DEF Init
<1> QED BY <1>1, <1>2, <1>3, <1>4, <1>5, <1>7, <1>8 DEF Types

\* A row after one of its columns was written.
LEMMA RowType ==
  ASSUME Setting, Types, NEW p \in People, NEW r, rows' = [rows EXCEPT ![p] = r],
         r \in AppUser => r.id \in 1 .. ids, r \in AppUser \cup {NoRow}
  PROVE  /\ rows' \in [People -> AppUser \cup {NoRow}] /\ rows'[p] = r
         /\ \A o \in People \ {p} : rows'[o] = rows[o]
         /\ \A o \in People : rows'[o] # NoRow => rows'[o].id \in 1 .. ids
<1>1. rows \in [People -> AppUser \cup {NoRow}] BY DEF Types
<1>2. rows'[p] = r /\ \A o \in People \ {p} : rows'[o] = rows[o] BY <1>1
<1> QED BY <1>1, <1>2 DEF Types

\* The columns that the steps write.
LEMMA ColumnsType ==
  ASSUME Setting, Types, NEW p \in People, rows[p] # NoRow
  PROVE  /\ \A role \in Roles :
              LET r == [rows[p] EXCEPT !.role = role] IN
              /\ r \in AppUser /\ r.id = rows[p].id /\ r.role = role
              /\ r.active = rows[p].active /\ r.revoked = rows[p].revoked
         /\ \A role \in Roles :
              LET r == [rows[p] EXCEPT !.role = role, !.active = TRUE] IN
              /\ r \in AppUser /\ r.id = rows[p].id /\ r.role = role
              /\ r.active = TRUE /\ r.revoked = rows[p].revoked
         /\ \A on \in BOOLEAN :
              LET r == [rows[p] EXCEPT !.active = on] IN
              /\ r \in AppUser /\ r.id = rows[p].id /\ r.role = rows[p].role
              /\ r.active = on /\ r.revoked = rows[p].revoked
         /\ LET r == [rows[p] EXCEPT !.revoked = now] IN
              /\ r \in AppUser /\ r.id = rows[p].id /\ r.role = rows[p].role
              /\ r.active = rows[p].active /\ r.revoked = now
<1>1. rows[p] \in AppUser /\ now \in Int BY DEF Types
<1>2. \A role \in Roles :
        LET r == [rows[p] EXCEPT !.role = role] IN
        /\ r \in AppUser /\ r.id = rows[p].id /\ r.role = role
        /\ r.active = rows[p].active /\ r.revoked = rows[p].revoked
  BY <1>1 DEF AppUser
<1>3. \A role \in Roles :
        LET r == [rows[p] EXCEPT !.role = role, !.active = TRUE] IN
        /\ r \in AppUser /\ r.id = rows[p].id /\ r.role = role
        /\ r.active = TRUE /\ r.revoked = rows[p].revoked
  BY <1>1 DEF AppUser
<1>4. \A on \in BOOLEAN :
        LET r == [rows[p] EXCEPT !.active = on] IN
        /\ r \in AppUser /\ r.id = rows[p].id /\ r.role = rows[p].role
        /\ r.active = on /\ r.revoked = rows[p].revoked
  BY <1>1 DEF AppUser
<1>5. LET r == [rows[p] EXCEPT !.revoked = now] IN
        /\ r \in AppUser /\ r.id = rows[p].id /\ r.role = rows[p].role
        /\ r.active = rows[p].active /\ r.revoked = now
  BY <1>1 DEF AppUser
<1> QED BY <1>2, <1>3, <1>4, <1>5

\* A row that its request still finds, after the request's write.
LEMMA WriteType ==
  ASSUME Setting, Types, NEW q \in reqs
  PROVE  /\ SetRole(q) => LET r == [rows[q.who] EXCEPT !.role = q.role] IN
              rows' = [rows EXCEPT ![q.who] = r] /\ r \in AppUser /\ r.id = rows[q.who].id
              /\ r.role = q.role /\ r.active = rows[q.who].active
              /\ r.revoked = rows[q.who].revoked
         /\ SetStatus(q) => LET r == [rows[q.who] EXCEPT !.active = (q.kind = "enable")] IN
              rows' = [rows EXCEPT ![q.who] = r] /\ r \in AppUser /\ r.id = rows[q.who].id
              /\ r.role = rows[q.who].role /\ r.active = (q.kind = "enable")
              /\ r.revoked = rows[q.who].revoked
         /\ StampRevoked(q) /\ Own(q) => LET r == [rows[q.who] EXCEPT !.revoked = now] IN
              rows' = [rows EXCEPT ![q.who] = r] /\ r \in AppUser /\ r.id = rows[q.who].id
              /\ r.role = rows[q.who].role /\ r.active = rows[q.who].active /\ r.revoked = now
<1>1. q \in Request /\ q.who \in People /\ q.role \in Roles BY DEF Types, Request, Roles
<1>2. rows \in [People -> AppUser \cup {NoRow}] BY DEF Types
<1>3. ASSUME SetRole(q)
      PROVE  LET r == [rows[q.who] EXCEPT !.role = q.role] IN
              rows' = [rows EXCEPT ![q.who] = r] /\ r \in AppUser /\ r.id = rows[q.who].id
              /\ r.role = q.role /\ r.active = rows[q.who].active
              /\ r.revoked = rows[q.who].revoked
  BY <1>1, <1>2, <1>3, ColumnsType DEF SetRole, Own
<1>4. ASSUME SetStatus(q)
      PROVE  LET r == [rows[q.who] EXCEPT !.active = (q.kind = "enable")] IN
              rows' = [rows EXCEPT ![q.who] = r] /\ r \in AppUser /\ r.id = rows[q.who].id
              /\ r.role = rows[q.who].role /\ r.active = (q.kind = "enable")
              /\ r.revoked = rows[q.who].revoked
  <2>1. (q.kind = "enable") \in BOOLEAN OBVIOUS
  <2> QED BY <1>1, <1>2, <1>4, <2>1, ColumnsType DEF SetStatus, Own
<1>5. ASSUME StampRevoked(q), Own(q)
      PROVE  LET r == [rows[q.who] EXCEPT !.revoked = now] IN
              rows' = [rows EXCEPT ![q.who] = r] /\ r \in AppUser /\ r.id = rows[q.who].id
              /\ r.role = rows[q.who].role /\ r.active = rows[q.who].active /\ r.revoked = now
  BY <1>1, <1>2, <1>5, ColumnsType DEF StampRevoked, Own
<1> QED BY <1>3, <1>4, <1>5

\* The people and the clock.
LEMMA TypesPeople ==
  ASSUME Setting, Types, \/ \E p \in People : SignIn(p) \/ Refresh(p)
                         \/ Tick
  PROVE  Types'
<1>1. /\ ids \in Nat /\ now \in Nat /\ MaxIds \in Nat /\ ident \in [People -> 0 .. ids]
      /\ session \in [People -> Session] /\ token \in [People -> Token \cup {NoToken}]
  BY DEF Types, Setting
<1>2. ASSUME NEW p \in People, SignIn(p) PROVE Types'
  <2>1. /\ ids' \in 0 .. MaxIds /\ ids <= ids' /\ ident' \in [People -> 0 .. ids'] /\ ident'[p] # 0
        /\ ident'[p] \in Nat /\ \A o \in People \ {p} : ident'[o] = ident[o] /\ ident'[p] # ident[o]
    <3>1. CASE ident[p] = 0 BY <1>1, <1>2, <3>1 DEF SignIn
    <3>2. CASE ident[p] # 0 BY <1>1, <1>2, <3>2 DEF SignIn, Types
    <3> QED BY <3>1, <3>2
  <2>2. [on |-> TRUE, pre |-> {}] \in Session BY DEF Session
  <2>3. [id |-> ident'[p], iat |-> now, pre |-> {}] \in Token BY <1>1, <2>1 DEF Token
  <2>4. /\ session' \in [People -> Session] /\ \A o \in People \ {p} : session'[o] = session[o]
    BY <1>1, <1>2, <2>2 DEF SignIn
  <2>5. token' \in [People -> Token \cup {NoToken}] BY <1>1, <1>2, <2>3 DEF SignIn
  <2>6. \A q \in reqs : Going(q)' BY <1>1, <1>2, <2>1 DEF SignIn, Types, Going
  <2>7. UNCHANGED <<banned, rows, now, sent, reqs, last>> BY <1>2 DEF SignIn
  <2>8. \A o \in People : rows[o] # NoRow => rows[o].id \in 1 .. ids' BY <1>1, <2>1 DEF Types
  <2>9. \A m, o \in People : m # o /\ ident'[m] # 0 => ident'[m] # ident'[o]
    BY <2>1 DEF Types
  <2>10. \A o \in People : o \in banned \/ session'[o].on => ident'[o] # 0
    BY <2>1, <2>4 DEF Types
  <2> QED BY <2>1, <2>4, <2>5, <2>6, <2>7, <2>8, <2>9, <2>10 DEF Types
<1>3. ASSUME NEW p \in People, Refresh(p) PROVE Types'
  <2>1. [id |-> ident[p], iat |-> now, pre |-> session[p].pre] \in Token BY <1>1 DEF Token, Session
  <2>2. token' \in [People -> Token \cup {NoToken}] BY <1>1, <1>3, <2>1 DEF Refresh
  <2> QED BY <1>3, <2>2 DEF Refresh, Types, Going
<1>4. ASSUME Tick PROVE Types' BY <1>1, <1>4 DEF Tick, Types, Going
<1> QED BY <1>2, <1>3, <1>4

\* What a request that begins changes.
LEMMA TypesBegin ==
  ASSUME Setting, Types, NEW a \in People, NEW p \in People, NEW kind \in Kinds,
         NEW role \in {"viewer", "admin"}, Begin(a, p, kind, role)
  PROVE  Types'
<1>0. PICK q : q = [n |-> sent + 1, by |-> a, who |-> p, kind |-> kind, role |-> role,
                    id |-> IF kind = "add" THEN 0 ELSE rows[p].id, pc |-> First(kind)]
  OBVIOUS
<1>1. /\ ids \in Nat /\ sent \in Nat /\ rows \in [People -> AppUser \cup {NoRow}]
      /\ session \in [People -> Session] /\ token \in [People -> Token \cup {NoToken}]
  BY DEF Types
<1>2. First(kind) \in Steps(kind) /\ First(kind) \in Pcs /\ (First(kind) = "find" <=> kind = "add")
  BY FirstStep DEF Kinds, Pcs
<1>3. kind # "add" => rows[p] # NoRow /\ rows[p].id \in 1 .. ids BY DEF Begin, Types
<1>4. q \in Request BY <1>0, <1>1, <1>2, <1>3 DEF Request
<1>5. q.n = sent + 1 /\ q.pc = First(kind) /\ q.kind = kind
      /\ q.id = IF kind = "add" THEN 0 ELSE rows[p].id
  BY <1>0
<1>6. reqs' = reqs \cup {q} /\ sent' = sent + 1 /\ UNCHANGED <<ident, banned, rows, ids, now, last>>
  BY <1>0 DEF Begin
<1>7. Going(q)' BY <1>1, <1>2, <1>3, <1>5, <1>6 DEF Going
<1>8. \A r \in reqs : Going(r)' BY <1>1, <1>6 DEF Going, Types, Request
<1>9. /\ session' \in [People -> Session] /\ token' \in [People -> Token \cup {NoToken}]
      /\ \A o \in People : session'[o].on = session[o].on
  <2>1. CASE UNCHANGED <<session, token>> BY <1>1, <2>1
  <2>2. CASE session' = [session EXCEPT ![p] = Marked(session[p])] /\ Of(p, Marked(token[p]))
    <3>1. Marked(session[p]) \in Session /\ Marked(session[p]).on = session[p].on
      BY <1>1, MarksType
    <3>2. token[p] # NoToken => Marked(token[p]) \in Token BY <1>1, MarksType
    <3>3. token' \in [People -> Token \cup {NoToken}] BY <2>2, <3>2, OfType
    <3> QED BY <1>1, <2>2, <3>1, <3>3
  <2> QED BY <2>1, <2>2 DEF Begin
<1> QED BY <1>1, <1>4, <1>6, <1>7, <1>8, <1>9 DEF Types

\* What the steps of a request change.
LEMMA TypesRequest ==
  ASSUME Setting, Types, NEW q \in reqs,
         \/ AddIdentity(q) \/ Purge(q) \/ Insert(q) \/ SetRole(q) \/ Ban(q) \/ KillSessions(q)
         \/ SetStatus(q) \/ StampRevoked(q) \/ DeleteIdentity(q) \/ DeleteRow(q) \/ Fail(q)
  PROVE  Types'
<1>1. /\ q \in Request /\ Going(q) /\ q.who \in People /\ q.kind \in Kinds /\ q.role \in Roles
      /\ q.pc \in Steps(q.kind)
  BY DEF Types, Request, Roles, Going
<1>2. /\ ids \in Nat /\ now \in Nat /\ sent \in Nat /\ MaxIds \in Nat
      /\ ident \in [People -> 0 .. ids] /\ rows \in [People -> AppUser \cup {NoRow}]
      /\ session \in [People -> Session] /\ token \in [People -> Token \cup {NoToken}]
      /\ last \in [People -> Kinds \cup {"none"}]
  BY DEF Types, Setting
<1>3. Steps(q.kind) \subseteq Pcs BY <1>1, FirstStep DEF Kinds, Pcs
<1>4. [on |-> FALSE, pre |-> {}] \in Session BY DEF Session
<1>5. [last EXCEPT ![q.who] = q.kind] \in [People -> Kinds \cup {"none"}] BY <1>1, <1>2
<1>6. Forgotten(q.who) => token' \in [People -> Token \cup {NoToken}]
  <2>1. token[q.who] # NoToken => [token[q.who] EXCEPT !.pre = {}] \in Token
    BY <1>1, <1>2, MarksType
  <2> QED BY <1>1, <2>1, OfType DEF Forgotten
<1>7. CASE AddIdentity(q)
  <2>0. PICK r : r = [q EXCEPT !.id = ident'[q.who], !.pc = "purge"] OBVIOUS
  <2>1. /\ ids' \in 0 .. MaxIds /\ ids <= ids' /\ ident' \in [People -> 0 .. ids']
        /\ ident'[q.who] \in 1 .. ids'
        /\ \A o \in People \ {q.who} : ident'[o] = ident[o] /\ ident'[q.who] # ident[o]
    <3>1. CASE ident[q.who] = 0 BY <1>1, <1>2, <1>7, <3>1 DEF AddIdentity
    <3>2. CASE ident[q.who] # 0 BY <1>1, <1>2, <1>7, <3>2 DEF AddIdentity, Types
    <3> QED BY <3>1, <3>2
  <2>2. q.kind = "add" BY <1>1, <1>7, KindOf DEF AddIdentity
  <2>3. /\ r \in Request /\ r.n = q.n /\ r.kind = "add" /\ r.id = ident'[q.who] /\ r.pc = "purge"
    <3>1. PICK i \in Nat : i = ident'[q.who] BY <1>2, <2>1
    <3>2. r = [q EXCEPT !.id = i, !.pc = "purge"] BY <2>0, <3>1
    <3> QED BY <1>1, <2>2, <3>1, <3>2 DEF Request, Pcs
  <2>4. reqs' = (reqs \ {q}) \cup {r} BY <1>7, <2>0 DEF AddIdentity
  <2>5. UNCHANGED <<banned, session, rows, token, now, sent, last>> BY <1>7 DEF AddIdentity
  <2>6. Going(r)' BY <1>1, <2>1, <2>3, <2>5, FirstStep DEF Going
  <2>7. \A o \in reqs : Going(o)' BY <1>2, <2>1, <2>5 DEF Going, Types
  <2>8. \A o \in People : rows[o] # NoRow => rows[o].id \in 1 .. ids' BY <1>2, <2>1 DEF Types
  <2>9. \A m, o \in People : m # o /\ ident'[m] # 0 => ident'[m] # ident'[o]
    BY <1>1, <2>1 DEF Types
  <2>10. \A o \in People : o \in banned \/ session[o].on => ident'[o] # 0
    BY <1>1, <2>1 DEF Types
  <2> QED BY <2>1, <2>3, <2>4, <2>5, <2>6, <2>7, <2>8, <2>9, <2>10 DEF Types
<1>8. CASE Purge(q)
  <2>1. "insert" \in Steps(q.kind) \cap Pcs BY <1>1, <1>3, <1>8, FirstStep, KindOf DEF Purge
  <2>2. reqs' \subseteq Request /\ \A r \in reqs' : Going(r)'
    BY <1>2, <1>8, <2>1, ReqsType DEF Purge
  <2>3. token' \in [People -> Token \cup {NoToken}] BY <1>2, <1>6, <1>8 DEF Purge
  <2>4. /\ rows' \in [People -> AppUser \cup {NoRow}]
        /\ \A o \in People : rows'[o] # NoRow => rows'[o] = rows[o]
    BY <1>1, <1>2, <1>8 DEF Purge
  <2> QED BY <1>8, <2>2, <2>3, <2>4 DEF Purge, Types
<1>9. CASE Insert(q)
  <2>1. reqs' \subseteq Request /\ \A r \in reqs' : Going(r)'
    BY <1>2, <1>9, ReqsType DEF Insert, Done
  <2>2. PICK r : r = IF rows[q.who] = NoRow THEN Row(q.id, q.role)
                     ELSE [rows[q.who] EXCEPT !.role = q.role, !.active = TRUE]
    OBVIOUS
  <2>3. q.id \in 1 .. ids /\ q.id \in Nat BY <1>1, <1>2, <1>9 DEF Insert, Going
  <2>4. r \in AppUser /\ r.id \in 1 .. ids
    <3>1. CASE rows[q.who] = NoRow BY <1>1, <2>2, <2>3, <3>1 DEF Row, AppUser
    <3>2. CASE rows[q.who] # NoRow
      <4>1. r = [rows[q.who] EXCEPT !.role = q.role, !.active = TRUE] BY <2>2, <3>2
      <4>2. r \in AppUser /\ r.id = rows[q.who].id BY <1>1, <3>2, <4>1, ColumnsType
      <4> QED BY <1>1, <3>2, <4>2 DEF Types
    <3> QED BY <3>1, <3>2
  <2>5. rows' = [rows EXCEPT ![q.who] = r] BY <1>9, <2>2 DEF Insert
  <2>6. /\ rows' \in [People -> AppUser \cup {NoRow}]
        /\ \A o \in People : rows'[o] # NoRow => rows'[o].id \in 1 .. ids
    BY <1>1, <2>4, <2>5, RowType
  <2> QED BY <1>5, <1>9, <2>1, <2>6 DEF Insert, Done, Types
<1>10. CASE SetRole(q) \/ SetStatus(q) \/ StampRevoked(q)
  <2>1. reqs' \subseteq Request /\ \A r \in reqs' : Going(r)'
    BY <1>2, <1>10, ReqsType DEF SetRole, SetStatus, StampRevoked, Done
  <2>2. /\ rows' \in [People -> AppUser \cup {NoRow}]
        /\ \A o \in People : rows'[o] # NoRow => rows'[o].id \in 1 .. ids
    <3>1. CASE StampRevoked(q) /\ ~Own(q) BY <3>1, <1>2 DEF StampRevoked, Types
    <3>2. CASE ~(StampRevoked(q) /\ ~Own(q))
      <4>1. Own(q) BY <1>10, <3>2 DEF SetRole, SetStatus
      <4>2. PICK r \in AppUser : /\ r.id = rows[q.who].id
                                 /\ rows' = [rows EXCEPT ![q.who] = r]
        BY <1>10, <4>1, WriteType
      <4>3. r.id \in 1 .. ids BY <1>1, <4>1, <4>2 DEF Own, Types
      <4> QED BY <1>1, <4>2, <4>3, RowType
    <3> QED BY <3>1, <3>2
  <2>3. session' \in [People -> Session] /\ \A o \in People : session'[o].on = session[o].on
    <3>1. CASE UNCHANGED session BY <1>2, <3>1
    <3>2. CASE session' = [session EXCEPT ![q.who] = Cut(session[q.who], q)]
      <4>1. Cut(session[q.who], q) \in Session /\ Cut(session[q.who], q).on = session[q.who].on
        BY <1>1, <1>2, MarksType
      <4> QED BY <1>1, <1>2, <3>2, <4>1
    <3> QED BY <1>10, <3>1, <3>2 DEF SetRole, SetStatus, StampRevoked
  <2>4. token' \in [People -> Token \cup {NoToken}]
    <3>1. CASE UNCHANGED token BY <1>2, <3>1
    <3>2. CASE Of(q.who, Cut(token[q.who], q))
      <4>1. token[q.who] # NoToken => Cut(token[q.who], q) \in Token BY <1>1, <1>2, MarksType
      <4> QED BY <1>1, <3>2, <4>1, OfType
    <3> QED BY <1>10, <3>1, <3>2 DEF SetRole, SetStatus, StampRevoked
  <2>5. last' \in [People -> Kinds \cup {"none"}]
    BY <1>2, <1>5, <1>10 DEF SetRole, SetStatus, StampRevoked, Done
  <2>6. UNCHANGED <<ident, banned, ids, now, sent>>
    BY <1>10 DEF SetRole, SetStatus, StampRevoked
  <2> QED BY <2>1, <2>2, <2>3, <2>4, <2>5, <2>6 DEF Types
<1>11. CASE Ban(q)
  <2>1. PICK pc : pc = IF q.kind = "disable" THEN "kill" ELSE "status" OBVIOUS
  <2>2. pc \in Steps(q.kind) \cap Pcs /\ pc # "find" /\ q.pc # "find"
    BY <1>1, <1>3, <1>11, <2>1, FirstStep, KindOf DEF Ban
  <2>3. reqs' \subseteq Request /\ \A r \in reqs' : Going(r)'
    BY <1>2, <1>11, <2>1, <2>2, ReqsType DEF Ban
  <2>4. ident[q.who] # 0 BY <1>1, <1>2, <1>11 DEF Ban, Going
  <2> QED BY <1>1, <1>11, <2>3, <2>4 DEF Ban, Types
<1>12. CASE KillSessions(q)
  <2>1. PICK pc : pc = IF q.kind = "disable" THEN "status" ELSE "stamp" OBVIOUS
  <2>2. pc \in Steps(q.kind) \cap Pcs /\ pc # "find" /\ q.pc # "find"
    BY <1>1, <1>3, <1>12, <2>1, FirstStep, KindOf DEF KillSessions
  <2>3. reqs' \subseteq Request /\ \A r \in reqs' : Going(r)'
    BY <1>2, <1>12, <2>1, <2>2, ReqsType DEF KillSessions
  <2>4. /\ session' \in [People -> Session]
        /\ \A o \in People : session'[o].on => session[o].on
    <3>1. [session[q.who] EXCEPT !.pre = {}] \in Session
      BY <1>1, <1>2, MarksType
    <3>2. [session[q.who] EXCEPT !.pre = {}].on = session[q.who].on BY <1>1, <1>2 DEF Session
    <3>3. \/ UNCHANGED session \/ session' = [session EXCEPT ![q.who] = [on |-> FALSE, pre |-> {}]]
          \/ session' = [session EXCEPT ![q.who] = [session[q.who] EXCEPT !.pre = {}]]
      <4>1. session' = [session EXCEPT ![q.who].pre = {}]
            => session' = [session EXCEPT ![q.who] = [session[q.who] EXCEPT !.pre = {}]]
        BY <1>1, <1>2
      <4> QED BY <1>12, <4>1 DEF KillSessions
    <3>4. CASE UNCHANGED session BY <1>2, <3>4
    <3>5. CASE session' = [session EXCEPT ![q.who] = [on |-> FALSE, pre |-> {}]]
      BY <1>1, <1>2, <1>4, <3>5
    <3>6. CASE session' = [session EXCEPT ![q.who] = [session[q.who] EXCEPT !.pre = {}]]
      BY <1>1, <1>2, <3>1, <3>2, <3>6
    <3> QED BY <3>3, <3>4, <3>5, <3>6
  <2>5. token' \in [People -> Token \cup {NoToken}] BY <1>2, <1>6, <1>12 DEF KillSessions
  <2> QED BY <1>12, <2>3, <2>4, <2>5 DEF KillSessions, Types
<1>13. CASE DeleteIdentity(q)
  <2>1. "row" \in Steps(q.kind) \cap Pcs BY <1>1, <1>3, <1>13, FirstStep, KindOf DEF DeleteIdentity
  <2>2. reqs' \subseteq Request /\ \A r \in reqs' : Going(r)'
    BY <1>2, <1>13, <2>1, ReqsType DEF DeleteIdentity
  <2>3. CASE ident[q.who] = q.id
    <3>1. /\ ident' \in [People -> 0 .. ids] /\ ident'[q.who] = 0
          /\ \A o \in People \ {q.who} : ident'[o] = ident[o]
      BY <1>1, <1>2, <1>13, <2>3 DEF DeleteIdentity
    <3>2. /\ session' \in [People -> Session] /\ ~session'[q.who].on
          /\ \A o \in People \ {q.who} : session'[o] = session[o]
      BY <1>1, <1>2, <1>4, <1>13, <2>3 DEF DeleteIdentity
    <3>3. banned' = banned \ {q.who} /\ UNCHANGED <<rows, token, ids, now, sent, last>>
      BY <1>13, <2>3 DEF DeleteIdentity
    <3> QED BY <2>2, <3>1, <3>2, <3>3 DEF Types
  <2>4. CASE ident[q.who] # q.id BY <1>13, <2>2, <2>4 DEF DeleteIdentity, Types
  <2> QED BY <2>3, <2>4
<1>14. CASE DeleteRow(q)
  <2>1. reqs' \subseteq Request /\ \A r \in reqs' : Going(r)'
    BY <1>2, <1>14, ReqsType DEF DeleteRow, Done
  <2>2. token' \in [People -> Token \cup {NoToken}] BY <1>2, <1>6, <1>14 DEF DeleteRow
  <2>3. /\ rows' \in [People -> AppUser \cup {NoRow}]
        /\ \A o \in People : rows'[o] # NoRow => rows'[o] = rows[o]
    BY <1>1, <1>2, <1>14 DEF DeleteRow
  <2> QED BY <1>5, <1>14, <2>1, <2>2, <2>3 DEF DeleteRow, Done, Types
<1>15. CASE Fail(q)
  <2>1. reqs' \subseteq Request /\ \A r \in reqs' : Going(r)' BY <1>2, <1>15, ReqsType DEF Fail
  <2> QED BY <1>15, <2>1 DEF Fail, Types
<1> QED BY <1>7, <1>8, <1>9, <1>10, <1>11, <1>12, <1>13, <1>14, <1>15

\* No step leaves the types.
LEMMA TypesStep == Setting /\ Types /\ [Next]_vars => Types'
<1> SUFFICES ASSUME Setting, Types, [Next]_vars PROVE Types' OBVIOUS
<1>1. CASE UNCHANGED vars BY <1>1 DEF vars, Types, Going
<1> QED BY <1>1, TypesPeople, TypesBegin, TypesRequest DEF Next, Kinds

-----------------------------------------------------------------------------
(* Revocations. *)

\* A mark of a done revocation is only on tokens that the stamp of the row refuses; and
\* once the sessions are ended, no session carries the mark of that revocation.
RevInv ==
    /\ \A p \in People : 0 \notin session[p].pre
    /\ \A p \in People : token[p] # NoToken => token[p].iat <= now
    /\ \A p \in People : token[p] # NoToken /\ 0 \in token[p].pre =>
                            rows[p] # NoRow /\ token[p].iat <= rows[p].revoked
    /\ \A q \in reqs : q.pc = "stamp" => q.n \notin session[q.who].pre

\* Nothing is revoked at the start.
LEMMA RevInit == Setting /\ Init => RevInv
<1> SUFFICES ASSUME Setting, Init PROVE RevInv OBVIOUS
<1>1. \A p \in People : session[p] = [on |-> p \in Eligible, pre |-> {}] BY DEF Init
<1>2. \A p \in People : token[p] = IF p \in Eligible THEN [id |-> ident[p], iat |-> 0, pre |-> {}]
                                   ELSE NoToken
  BY DEF Init
<1>3. ASSUME NEW p \in People PROVE 0 \notin session[p].pre
  <2>1. PICK on : session[p] = [on |-> on, pre |-> {}] BY <1>1, Zenon
  <2> QED BY <2>1
<1>4. ASSUME NEW p \in People, token[p] # NoToken
      PROVE  token[p].iat = 0 /\ 0 \notin token[p].pre
  <2>1. token[p] = [id |-> ident[p], iat |-> 0, pre |-> {}] BY <1>2, <1>4
  <2> QED BY <2>1
<1> QED BY <1>3, <1>4 DEF RevInv, Init

\* No step lets in a token that was refused.
LEMMA RevStep == Setting /\ Types /\ RevInv /\ [Next]_vars => RevInv'
<1> SUFFICES ASSUME Setting, Types, RevInv, [Next]_vars PROVE RevInv' OBVIOUS
<1>1. /\ ids \in Nat /\ now \in Nat /\ sent \in Nat /\ reqs \subseteq Request
      /\ ident \in [People -> 0 .. ids] /\ rows \in [People -> AppUser \cup {NoRow}]
      /\ session \in [People -> Session] /\ token \in [People -> Token \cup {NoToken}]
  BY DEF Types
<1>2. \A q \in reqs : q \in Request /\ Going(q) /\ q.who \in People /\ q.n \in 1 .. sent
  BY DEF Types, Request, Going
<1>3. \A p \in People : token[p] # NoToken =>
        /\ token[p] \in Token /\ token[p].iat \in Nat
        /\ \A x : x = [token[p] EXCEPT !.pre = {}] => x \in Token /\ x.iat = token[p].iat /\ x.pre = {}
  BY <1>1 DEF Token
<1>4. ASSUME NEW p \in People, Forgotten(p)
      PROVE  /\ \A o \in People : token'[o] # NoToken => token[o] # NoToken /\ token'[o].iat = token[o].iat
             /\ \A o \in People \ {p} : token'[o] = token[o]
             /\ token'[p] # NoToken => token'[p].pre = {}
  <2>1. PICK x : x = [token[p] EXCEPT !.pre = {}] OBVIOUS
  <2>2. token[p] # NoToken => x \in Token /\ x.iat = token[p].iat /\ x.pre = {} BY <1>3, <2>1
  <2> QED BY <1>4, <2>1, <2>2, OfType DEF Forgotten
<1>5. CASE UNCHANGED vars BY <1>5 DEF vars, RevInv
<1>6. ASSUME NEW p \in People, SignIn(p) PROVE RevInv'
  <2>1. session'[p].pre = {} /\ \A o \in People \ {p} : session'[o] = session[o]
    BY <1>1, <1>6 DEF SignIn
  <2>2. /\ token'[p].iat = now /\ token'[p].pre = {}
        /\ \A o \in People \ {p} : token'[o] = token[o]
    BY <1>1, <1>6 DEF SignIn
  <2>3. UNCHANGED <<rows, now, reqs>> BY <1>6 DEF SignIn
  <2> QED BY <1>1, <1>2, <2>1, <2>2, <2>3 DEF RevInv
<1>7. ASSUME NEW p \in People, Refresh(p) PROVE RevInv'
  <2>1. /\ token'[p].iat = now /\ token'[p].pre = session[p].pre
        /\ \A o \in People \ {p} : token'[o] = token[o]
    BY <1>1, <1>7 DEF Refresh
  <2>2. UNCHANGED <<rows, now, reqs, session>> BY <1>7 DEF Refresh
  <2> QED BY <1>1, <2>1, <2>2 DEF RevInv
<1>8. CASE Tick
  <2>1. \A p \in People : token[p] # NoToken => token[p].iat <= now + 1 BY <1>1, <1>3 DEF RevInv
  <2> QED BY <1>8, <2>1 DEF Tick, RevInv
<1>9. ASSUME NEW a \in People, NEW p \in People, NEW kind \in Kinds, NEW role \in {"viewer", "admin"},
             Begin(a, p, kind, role)
      PROVE RevInv'
  <2>1. UNCHANGED <<rows, now>> BY <1>9 DEF Begin
  <2>2. \A o \in People : /\ session'[o].pre \subseteq session[o].pre \cup {sent + 1}
                          /\ token'[o] # NoToken =>
                                /\ token[o] # NoToken /\ token'[o].iat = token[o].iat
                                /\ token'[o].pre \subseteq token[o].pre \cup {sent + 1}
    <3>1. CASE UNCHANGED <<session, token>> BY <3>1
    <3>2. CASE session' = [session EXCEPT ![p] = Marked(session[p])] /\ Of(p, Marked(token[p]))
      <4>1. Marked(session[p]).pre = session[p].pre \cup {sent + 1} BY <1>1, MarksType
      <4>2. token[p] # NoToken => /\ Marked(token[p]) \in Token /\ Marked(token[p]).iat = token[p].iat
                                  /\ Marked(token[p]).pre = token[p].pre \cup {sent + 1}
        BY <1>1, MarksType
      <4>3. session'[p].pre = session[p].pre \cup {sent + 1}
            /\ \A o \in People \ {p} : session'[o] = session[o]
        BY <1>1, <3>2, <4>1
      <4>4. /\ token[p] = NoToken => token'[p] = NoToken
            /\ token[p] # NoToken => token'[p] = Marked(token[p])
            /\ \A o \in People \ {p} : token'[o] = token[o]
        BY <3>2, <4>2, OfType
      <4> QED BY <4>2, <4>3, <4>4
    <3> QED BY <1>9, <3>1, <3>2 DEF Begin
  <2>3. sent + 1 # 0 /\ \A q \in reqs : q.n # sent + 1 BY <1>1, <1>2
  <2>4. \A q \in reqs' : q \in reqs \/ q.pc = First(kind) BY <1>9 DEF Begin
  <2>5. First(kind) # "stamp" BY FirstStep DEF Kinds
  <2>6. \A q \in reqs' : q.pc = "stamp" => q \in reqs BY <2>4, <2>5
  <2>7. \A q \in reqs' : q.pc = "stamp" => q.n \notin session'[q.who].pre
    BY <1>2, <2>2, <2>3, <2>6 DEF RevInv
  <2>8. \A o \in People : 0 \notin session'[o].pre BY <2>2, <2>3 DEF RevInv
  <2>9. \A o \in People : token'[o] # NoToken =>
          /\ token[o] # NoToken /\ token'[o].iat = token[o].iat
          /\ 0 \in token'[o].pre => 0 \in token[o].pre
    BY <2>2, <2>3
  <2> QED BY <2>1, <2>7, <2>8, <2>9 DEF RevInv
<1>10. ASSUME NEW q \in reqs,
              AddIdentity(q) \/ SetRole(q) \/ Ban(q) \/ SetStatus(q) \/ Insert(q) \/ Fail(q)
       PROVE  RevInv'
  <2>1. UNCHANGED <<session, token, now>>
    BY <1>10 DEF AddIdentity, SetRole, Ban, SetStatus, Insert, Fail
  <2>2. \A r \in reqs' : r \in reqs \/ r.pc # "stamp"
    <3>1. CASE AddIdentity(q)
      <4>1. PICK r : r = [q EXCEPT !.id = ident'[q.who], !.pc = "purge"] OBVIOUS
      <4>2. r.pc = "purge" BY <1>2, <4>1 DEF Request
      <4> QED BY <3>1, <4>1, <4>2 DEF AddIdentity
    <3>2. CASE Ban(q)
      <4>1. PICK pc \in {"kill", "status"} : reqs' = To(q, pc) BY <3>2 DEF Ban
      <4>2. pc \in Pcs /\ pc # "stamp" BY DEF Pcs
      <4>3. PICK r : r = [q EXCEPT !.pc = pc] OBVIOUS
      <4>4. r.pc = pc BY <1>2, <4>2, <4>3, ToType
      <4> QED BY <4>1, <4>2, <4>3, <4>4 DEF To
    <3>3. CASE reqs' = reqs \ {q} BY <3>3
    <3> QED BY <1>10, <3>1, <3>2, <3>3 DEF SetRole, SetStatus, Insert, Fail, Done
  <2>3. \A p \in People : rows[p] # NoRow => rows'[p] # NoRow /\ rows'[p].revoked = rows[p].revoked
    <3>1. CASE UNCHANGED rows BY <3>1
    <3>2. CASE SetRole(q) \/ SetStatus(q)
      <4>1. PICK r \in AppUser : /\ r.revoked = rows[q.who].revoked
                                 /\ rows' = [rows EXCEPT ![q.who] = r]
        BY <3>2, WriteType
      <4>2. r # NoRow BY DEF Setting
      <4> QED BY <1>1, <1>2, <4>1, <4>2
    <3>3. CASE Insert(q)
      <4>1. CASE rows[q.who] = NoRow BY <1>1, <3>3, <4>1 DEF Insert
      <4>2. CASE rows[q.who] # NoRow
        <5>1. PICK r : r = [rows[q.who] EXCEPT !.role = q.role, !.active = TRUE] OBVIOUS
        <5>2. q.role \in Roles BY <1>2 DEF Request, Roles
        <5>3. r \in AppUser /\ r.revoked = rows[q.who].revoked
          BY <1>2, <4>2, <5>1, <5>2, ColumnsType
        <5>4. rows' = [rows EXCEPT ![q.who] = r] BY <3>3, <4>2, <5>1 DEF Insert
        <5> QED BY <1>1, <1>2, <5>3, <5>4 DEF Setting
      <4> QED BY <4>1, <4>2
    <3> QED BY <1>10, <3>1, <3>2, <3>3 DEF AddIdentity, Ban, Fail
  <2> QED BY <2>1, <2>2, <2>3 DEF RevInv
<1>11. ASSUME NEW q \in reqs, Purge(q) \/ DeleteRow(q) PROVE RevInv'
  <2>1. UNCHANGED <<session, now>> BY <1>11 DEF Purge, DeleteRow
  <2>2. \A r \in reqs' : r \in reqs \/ r.pc # "stamp"
    <3>1. CASE Purge(q)
      <4>1. "insert" \in Pcs BY DEF Pcs
      <4> QED BY <1>2, <3>1, <4>1, ToType DEF Purge, To
    <3>2. CASE DeleteRow(q) BY <3>2 DEF DeleteRow, Done
    <3> QED BY <1>11, <3>1, <3>2
  <2>3. CASE UNCHANGED <<rows, token>> BY <2>1, <2>2, <2>3 DEF RevInv
  <2>4. CASE rows' = [rows EXCEPT ![q.who] = NoRow] /\ Forgotten(q.who)
    <3>1. \A o \in People \ {q.who} : rows'[o] = rows[o] /\ token'[o] = token[o]
      BY <1>1, <1>2, <1>4, <2>4
    <3>2. token'[q.who] # NoToken => 0 \notin token'[q.who].pre BY <1>2, <1>4, <2>4
    <3>3. \A o \in People : token'[o] # NoToken => token'[o].iat <= now BY <1>2, <1>4, <2>4 DEF RevInv
    <3>4. \A o \in People : token'[o] # NoToken /\ 0 \in token'[o].pre =>
            rows'[o] # NoRow /\ token'[o].iat <= rows'[o].revoked
      BY <3>1, <3>2 DEF RevInv
    <3> QED BY <2>1, <2>2, <3>3, <3>4 DEF RevInv
  <2> QED BY <1>11, <2>3, <2>4 DEF Purge, DeleteRow
<1>12. ASSUME NEW q \in reqs, DeleteIdentity(q) PROVE RevInv'
  <2>1. UNCHANGED <<rows, token, now>> BY <1>12 DEF DeleteIdentity
  <2>2. \A r \in reqs' : r \in reqs \/ r.pc # "stamp"
    <3>1. "row" \in Pcs BY DEF Pcs
    <3> QED BY <1>2, <1>12, <3>1, ToType DEF DeleteIdentity, To
  <2>3. \A o \in People : session'[o].pre \subseteq session[o].pre
    BY <1>1, <1>2, <1>12 DEF DeleteIdentity
  <2> QED BY <1>2, <2>1, <2>2, <2>3 DEF RevInv
<1>13. ASSUME NEW q \in reqs, KillSessions(q) PROVE RevInv'
  <2>1. UNCHANGED <<rows, now>> BY <1>13 DEF KillSessions
  <2>2. \A o \in People : /\ session'[o].pre \subseteq session[o].pre
                          /\ o = q.who /\ q.kind = "revoke" => session'[o].pre = {}
    <3>1. CASE ident[q.who] = q.id
      BY <1>1, <1>2, <1>13, <3>1 DEF KillSessions
    <3>2. CASE ident[q.who] # q.id
      <4>1. session' = [session EXCEPT ![q.who] = [session[q.who] EXCEPT !.pre = {}]]
        BY <1>1, <1>2, <1>13, <3>2 DEF KillSessions
      <4>2. [session[q.who] EXCEPT !.pre = {}].pre = {} BY <1>1, <1>2 DEF Session
      <4> QED BY <1>1, <1>2, <4>1, <4>2
    <3> QED BY <3>1, <3>2
  <2>3. PICK pc \in {"status", "stamp"} : reqs' = To(q, pc) /\ (pc = "stamp" => q.kind # "disable")
    BY <1>13 DEF KillSessions
  <2>4. pc \in Pcs /\ (pc = "stamp" => q.kind = "revoke")
    BY <1>2, <1>13, <2>3, KindOf DEF Pcs, KillSessions
  <2>5. \A r \in reqs' : r.pc = "stamp" => /\ r.n \notin session'[r.who].pre
    <3>1. PICK s : s = [q EXCEPT !.pc = pc] OBVIOUS
    <3>2. s.who = q.who /\ s.pc = pc BY <1>2, <2>4, <3>1, ToType
    <3>3. reqs' = (reqs \ {q}) \cup {s} BY <2>3, <3>1 DEF To
    <3> QED BY <1>2, <2>2, <2>4, <3>2, <3>3 DEF RevInv
  <2>6. \A o \in People : token'[o] # NoToken =>
          /\ token[o] # NoToken /\ token'[o].iat = token[o].iat
          /\ 0 \in token'[o].pre => 0 \in token[o].pre
    <3>1. CASE UNCHANGED token BY <3>1
    <3>2. CASE Forgotten(q.who) BY <1>2, <1>4, <3>2
    <3> QED BY <1>13, <3>1, <3>2 DEF KillSessions
  <2> QED BY <2>1, <2>2, <2>5, <2>6 DEF RevInv
<1>14. ASSUME NEW q \in reqs, StampRevoked(q) PROVE RevInv'
  <2>1. reqs' \subseteq reqs /\ UNCHANGED now BY <1>14 DEF StampRevoked
  <2>2. q.n \notin session[q.who].pre BY <1>14 DEF StampRevoked, RevInv
  <2>3. \A o \in People : session'[o].pre = session[o].pre
    <3>1. CASE UNCHANGED session BY <3>1
    <3>2. CASE session' = [session EXCEPT ![q.who] = Cut(session[q.who], q)]
      <4>1. Cut(session[q.who], q) = session[q.who] BY <2>2 DEF Cut
      <4> QED BY <1>1, <1>2, <3>2, <4>1
    <3> QED BY <1>14, <3>1, <3>2 DEF StampRevoked
  <2>4. CASE Own(q)
    <3>1. PICK r \in AppUser : r.revoked = now /\ rows' = [rows EXCEPT ![q.who] = r]
      BY <1>14, <2>4, WriteType
    <3>2. rows'[q.who] # NoRow /\ rows'[q.who].revoked = now
          /\ \A o \in People \ {q.who} : rows'[o] = rows[o]
      BY <1>1, <1>2, <3>1 DEF Setting
    <3>3. token[q.who] # NoToken =>
            Cut(token[q.who], q) \in Token /\ Cut(token[q.who], q).iat = token[q.who].iat
      BY <1>1, <1>2, MarksType
    <3>4. Of(q.who, Cut(token[q.who], q)) BY <1>14, <2>4 DEF StampRevoked
    <3>5. /\ token[q.who] = NoToken => token'[q.who] = NoToken
          /\ token[q.who] # NoToken => token'[q.who].iat = token[q.who].iat
          /\ \A o \in People \ {q.who} : token'[o] = token[o]
      BY <1>2, <3>3, <3>4, OfType
    <3>6. \A o \in People : token'[o] # NoToken => token[o] # NoToken /\ token'[o].iat = token[o].iat
      BY <3>5
    <3>7. \A o \in People : token'[o] # NoToken => token'[o].iat <= now BY <3>6 DEF RevInv
    <3>8. \A o \in People : token'[o] # NoToken /\ 0 \in token'[o].pre =>
            rows'[o] # NoRow /\ token'[o].iat <= rows'[o].revoked
      BY <3>2, <3>5, <3>7 DEF RevInv
    <3> QED BY <1>2, <2>1, <2>3, <3>7, <3>8 DEF RevInv
  <2>5. CASE ~Own(q) BY <1>14, <2>1, <2>5 DEF StampRevoked, RevInv
  <2> QED BY <2>4, <2>5
<1> QED BY <1>5, <1>6, <1>7, <1>8, <1>9, <1>10, <1>11, <1>12, <1>13, <1>14 DEF Next, Kinds

-----------------------------------------------------------------------------
(* Admins. *)

Step(q) == \/ AddIdentity(q) \/ Purge(q) \/ Insert(q) \/ SetRole(q) \/ Ban(q) \/ KillSessions(q)
           \/ SetStatus(q) \/ StampRevoked(q) \/ DeleteIdentity(q) \/ DeleteRow(q) \/ Fail(q)

Adm(p) == p \in Eligible /\ rows[p] # NoRow /\ rows[p].active /\ rows[p].role = "admin"

\* A request of the person about the own account that leaves an admin one.
Harmless(q) == q.kind \in {"role", "enable", "revoke"} /\ (q.kind = "role" => q.role = "admin")

\* Whoever sent a request under way is an admin, and nobody else's request is about the
\* sender: so whatever a request does, its sender remains.
AdminInv ==
    ~shaken => /\ \E p \in People : Adm(p)
               /\ \A q \in reqs : Adm(q.by)
               /\ \A q, r \in reqs : q.who = r.by => q = r /\ Harmless(q)

\* Who may be served as an admin is one.
LEMMA AdminIsOne ==
  ASSUME NEW a \in People, LoadRole(a) = "admin"
  PROVE  token[a] # NoToken /\ Adm(a)
BY DEF LoadRole, Capped, Adm

\* The request of a step goes on as the same request, or ends.
LEMMA SameRequest ==
  ASSUME Setting, Types, NEW q \in reqs, Step(q)
  PROVE  \E r : /\ r.n = q.n /\ r.by = q.by /\ r.who = q.who /\ r.kind = q.kind /\ r.role = q.role
                /\ reqs' \subseteq (reqs \ {q}) \cup {r} /\ reqs \ {q} \subseteq reqs'
<1>1. q \in Request /\ q.who \in People BY DEF Types, Request
<1>2. CASE reqs' = reqs \ {q} BY <1>2
<1>3. ASSUME NEW pc \in Pcs, reqs' = To(q, pc)
      PROVE  \E r : /\ r.n = q.n /\ r.by = q.by /\ r.who = q.who /\ r.kind = q.kind /\ r.role = q.role
                    /\ reqs' \subseteq (reqs \ {q}) \cup {r} /\ reqs \ {q} \subseteq reqs'
  <2>1. PICK r : r = [q EXCEPT !.pc = pc] OBVIOUS
  <2>2. r.n = q.n /\ r.by = q.by /\ r.who = q.who /\ r.kind = q.kind /\ r.role = q.role
    BY <1>1, <2>1, ToType
  <2>3. reqs' = (reqs \ {q}) \cup {r} BY <1>3, <2>1 DEF To
  <2> QED BY <2>2, <2>3
<1>4. CASE AddIdentity(q)
  <2>1. PICK r : r = [q EXCEPT !.id = ident'[q.who], !.pc = "purge"] OBVIOUS
  <2>2. r.n = q.n /\ r.by = q.by /\ r.who = q.who /\ r.kind = q.kind /\ r.role = q.role
    BY <1>1, <2>1 DEF Request
  <2>3. reqs' = (reqs \ {q}) \cup {r} BY <1>4, <2>1 DEF AddIdentity
  <2> QED BY <2>2, <2>3
<1>5. CASE Purge(q)
  <2>1. reqs' = To(q, "insert") /\ "insert" \in Pcs BY <1>5 DEF Purge, Pcs
  <2> QED BY <1>3, <2>1
<1>6. CASE Ban(q)
  <2>1. PICK pc \in {"kill", "status"} : reqs' = To(q, pc) BY <1>6 DEF Ban
  <2>2. pc \in Pcs BY DEF Pcs
  <2> QED BY <1>3, <2>1, <2>2
<1>7. CASE KillSessions(q)
  <2>1. PICK pc \in {"status", "stamp"} : reqs' = To(q, pc) BY <1>7 DEF KillSessions
  <2>2. pc \in Pcs BY DEF Pcs
  <2> QED BY <1>3, <2>1, <2>2
<1>8. CASE DeleteIdentity(q)
  <2>1. reqs' = To(q, "row") /\ "row" \in Pcs BY <1>8 DEF DeleteIdentity, Pcs
  <2> QED BY <1>3, <2>1
<1>9. CASE Insert(q) \/ SetRole(q) \/ SetStatus(q) \/ StampRevoked(q) \/ DeleteRow(q) \/ Fail(q)
  <2>1. reqs' = reqs \ {q} BY <1>9 DEF Insert, SetRole, SetStatus, StampRevoked, DeleteRow, Fail, Done
  <2> QED BY <1>2, <2>1
<1> QED BY <1>4, <1>5, <1>6, <1>7, <1>8, <1>9 DEF Step

\* A step changes no row but that of the person it is about, and a harmless one leaves an
\* admin an admin.
LEMMA RowOfStep ==
  ASSUME Setting, Types, NEW q \in reqs, Step(q)
  PROVE  /\ \A p \in People \ {q.who} : rows'[p] = rows[p]
         /\ Harmless(q) /\ Adm(q.who) => Adm(q.who)'
<1>1. /\ q \in Request /\ Going(q) /\ q.who \in People
      /\ rows \in [People -> AppUser \cup {NoRow}]
  BY DEF Types, Request
<1>2. CASE UNCHANGED rows BY <1>1, <1>2 DEF Adm
<1>3. CASE Purge(q) \/ DeleteRow(q) \/ Insert(q)
  <2>1. q.kind \in {"add", "delete"} BY <1>1, <1>3, KindOf DEF Purge, DeleteRow, Insert
  <2>2. ~Harmless(q) BY <2>1 DEF Harmless
  <2>3. \A p \in People \ {q.who} : rows'[p] = rows[p]
    BY <1>1, <1>3 DEF Purge, DeleteRow, Insert
  <2> QED BY <2>2, <2>3
<1>4. CASE SetRole(q) \/ SetStatus(q) \/ (StampRevoked(q) /\ Own(q))
  <2>1. PICK r \in AppUser :
          /\ rows' = [rows EXCEPT ![q.who] = r]
          /\ SetRole(q) => r.role = q.role /\ r.active = rows[q.who].active
          /\ SetStatus(q) => r.role = rows[q.who].role /\ r.active = (q.kind = "enable")
          /\ StampRevoked(q) => r.role = rows[q.who].role /\ r.active = rows[q.who].active
    <3>1. CASE SetRole(q)
      <4>1. ~SetStatus(q) /\ ~StampRevoked(q) BY <3>1 DEF SetRole, SetStatus, StampRevoked
      <4> QED BY <3>1, <4>1, WriteType
    <3>2. CASE SetStatus(q)
      <4>1. ~SetRole(q) /\ ~StampRevoked(q) BY <3>2 DEF SetRole, SetStatus, StampRevoked
      <4> QED BY <3>2, <4>1, WriteType
    <3>3. CASE StampRevoked(q) /\ Own(q)
      <4>1. ~SetRole(q) /\ ~SetStatus(q) BY <3>3 DEF SetRole, SetStatus, StampRevoked
      <4> QED BY <3>3, <4>1, WriteType
    <3> QED BY <1>4, <3>1, <3>2, <3>3
  <2>2. rows'[q.who] = r /\ r # NoRow /\ \A p \in People \ {q.who} : rows'[p] = rows[p]
    BY <1>1, <2>1 DEF Setting
  <2>3. SetRole(q) => q.kind = "role" BY <1>1, KindOf DEF SetRole
  <2>4. SetStatus(q) => q.kind \in {"disable", "enable"} BY <1>1, KindOf DEF SetStatus
  <2>5. ASSUME Harmless(q), Adm(q.who) PROVE r.active /\ r.role = "admin"
    <3>1. CASE SetRole(q) BY <2>1, <2>3, <2>5, <3>1 DEF Harmless, Adm
    <3>2. CASE SetStatus(q)
      <4>1. q.kind = "enable" BY <2>4, <2>5, <3>2 DEF Harmless
      <4>2. r.active = TRUE /\ r.role = "admin" BY <2>1, <2>5, <3>2, <4>1 DEF Adm
      <4> QED BY <4>2
    <3>3. CASE StampRevoked(q) BY <2>1, <2>5, <3>3 DEF Adm
    <3> QED BY <1>4, <3>1, <3>2, <3>3
  <2> QED BY <2>2, <2>5 DEF Adm
<1> QED
  BY <1>2, <1>3, <1>4 DEF Step, AddIdentity, Ban, KillSessions, DeleteIdentity, Fail, StampRevoked

\* At the start everybody eligible is an admin; that somebody is eligible is up to the desk.
LEMMA AdminInit == Setting /\ Eligible # {} /\ Init => AdminInv
<1> SUFFICES ASSUME Setting, Eligible # {}, Init PROVE AdminInv OBVIOUS
<1>1. PICK p \in Eligible : p \in People BY DEF Setting
<1>2. rows[p] = Row(ident[p], "admin") BY <1>1 DEF Init
<1>3. Row(ident[p], "admin") \in AppUser
  <2>1. ident[p] \in Nat BY <1>1 DEF Init, People
  <2> QED BY <2>1 DEF Row, AppUser, Roles
<1>4. rows[p] # NoRow /\ rows[p].active /\ rows[p].role = "admin"
  <2>1. rows[p] # NoRow BY <1>2, <1>3 DEF Setting
  <2>2. rows[p].active = TRUE /\ rows[p].role = "admin" BY <1>2 DEF Row
  <2> QED BY <2>1, <2>2
<1>5. reqs = {} BY DEF Init
<1> QED BY <1>1, <1>4, <1>5 DEF AdminInv, Adm

\* No step takes the last admin away.
LEMMA AdminStep == Setting /\ Types /\ AdminInv /\ [Next]_vars => AdminInv'
<1> SUFFICES ASSUME Setting, Types, AdminInv, [Next]_vars, ~shaken' PROVE AdminInv'
  BY DEF AdminInv
<1>1. /\ rows \in [People -> AppUser \cup {NoRow}]
      /\ \A q \in reqs : q \in Request /\ q.who \in People /\ q.by \in People
  BY DEF Types, Request
<1>2. CASE UNCHANGED <<rows, reqs, shaken>> BY <1>2 DEF AdminInv, Adm
<1>3. ASSUME NEW a \in People, NEW p \in People, NEW kind \in Kinds, NEW role \in {"viewer", "admin"},
             Begin(a, p, kind, role)
      PROVE AdminInv'
  <2>1. ~shaken /\ UNCHANGED rows BY <1>3 DEF Begin
  <2>2. /\ a = p => kind \notin {"add", "disable"} /\ token[a].id = rows[a].id
        /\ \A q \in reqs : q.by # p /\ q.who # a
    BY <1>3 DEF Begin
  <2>3. Adm(a) /\ token[a] # NoToken BY <1>3, AdminIsOne DEF Begin
  <2>4. PICK q : /\ reqs' = reqs \cup {q} /\ q.by = a /\ q.who = p /\ q.kind = kind /\ q.role = role
    <3>1. PICK q : q = [n |-> sent + 1, by |-> a, who |-> p, kind |-> kind, role |-> role,
                        id |-> IF kind = "add" THEN 0 ELSE rows[p].id, pc |-> First(kind)]
      OBVIOUS
    <3>2. reqs' = reqs \cup {q} BY <1>3, <3>1 DEF Begin
    <3>3. q.by = a /\ q.who = p /\ q.kind = kind /\ q.role = role BY <3>1
    <3> QED BY <3>2, <3>3
  <2>5. a = p => Harmless(q)
    <3>1. ASSUME a = p PROVE Harmless(q)
      <4>1. rows[p] # NoRow /\ token[a].id = rows[p].id BY <2>2, <2>3, <3>1 DEF Adm
      <4>2. ~(kind = "delete" \/ (kind = "role" /\ role # "admin")) BY <1>3, <4>1 DEF Begin, Locks
      <4>3. kind \in {"role", "enable", "revoke"} BY <2>2, <3>1, <4>2 DEF Kinds
      <4> QED BY <2>4, <4>2, <4>3 DEF Harmless
    <3> QED BY <3>1
  <2>6. \A r \in reqs' : Adm(r.by) BY <2>1, <2>3, <2>4 DEF AdminInv
  <2>7. \A r, s \in reqs' : r.who = s.by => r = s /\ Harmless(r)
    BY <2>1, <2>2, <2>4, <2>5 DEF AdminInv
  <2>8. \A o \in People : Adm(o) => Adm(o)' BY <2>1 DEF Adm
  <2>9. \A r \in reqs' : r.by \in People BY <1>1, <2>4
  <2>10. \A r \in reqs' : Adm(r.by)' BY <2>1, <2>6 DEF Adm
  <2> QED BY <2>1, <2>3, <2>7, <2>8, <2>10 DEF AdminInv, Harmless
<1>4. ASSUME NEW q \in reqs, Step(q) PROVE AdminInv'
  <2>1. ~shaken
    BY <1>4 DEF Step, AddIdentity, Purge, Insert, SetRole, Ban, KillSessions, SetStatus,
                StampRevoked, DeleteIdentity, DeleteRow, Fail
  <2>2. PICK s : /\ s.n = q.n /\ s.by = q.by /\ s.who = q.who /\ s.kind = q.kind /\ s.role = q.role
                 /\ reqs' \subseteq (reqs \ {q}) \cup {s}
    BY <1>4, SameRequest
  <2>3. /\ \A p \in People \ {q.who} : rows'[p] = rows[p]
        /\ Harmless(q) /\ Adm(q.who) => Adm(q.who)'
    BY <1>4, RowOfStep
  <2>4. Harmless(s) <=> Harmless(q) BY <2>2 DEF Harmless
  <2>5. \A r \in reqs : Adm(r.by)'
    <3>1. ASSUME NEW r \in reqs PROVE Adm(r.by)'
      <4>1. Adm(r.by) BY <2>1 DEF AdminInv
      <4>2. CASE q.who = r.by
        <5>1. Harmless(q) BY <2>1, <4>2 DEF AdminInv
        <5>2. Adm(q.who)' BY <2>3, <4>1, <4>2, <5>1
        <5> QED BY <4>2, <5>2 DEF Adm
      <4>3. CASE q.who # r.by
        <5>1. rows'[r.by] = rows[r.by] BY <1>1, <2>3, <4>3
        <5> QED BY <4>1, <5>1 DEF Adm
      <4> QED BY <4>2, <4>3
    <3> QED BY <3>1
  <2>6. \A r \in reqs' : Adm(r.by)' BY <2>2, <2>5 DEF Adm
  <2>7. \A r, t \in reqs' : r.who = t.by => r = t /\ Harmless(r)
    <3>1. \A r, t \in reqs : r.who = t.by => r = t /\ Harmless(r) BY <2>1 DEF AdminInv
    <3> QED BY <2>2, <2>4, <3>1
  <2>8. \E p \in People : Adm(p)'
    <3>1. q.by \in People /\ Adm(q.by)' BY <1>1, <2>5
    <3> QED BY <3>1
  <2> QED BY <2>6, <2>7, <2>8 DEF AdminInv, Harmless
<1>5. (\E p \in People : SignIn(p) \/ Refresh(p)) \/ Tick => UNCHANGED <<rows, reqs, shaken>>
  BY DEF SignIn, Refresh, Tick
<1>6. UNCHANGED vars => UNCHANGED <<rows, reqs, shaken>> BY DEF vars
<1> QED BY <1>2, <1>3, <1>4, <1>5, <1>6 DEF Next, Step, Kinds

-----------------------------------------------------------------------------
(* Disabled accounts. *)

\* The request has changed nothing that the row and the identity must agree on.
Early(q) == q.pc = First(q.kind) \/ q.kind \in {"role", "revoke"}

Agree(p) ==
    last[p] # "add" /\ rows[p] # NoRow =>
        rows[p].id = ident[p] /\ (rows[p].active <=> p \notin banned)

\* A request finds the row it began with; once it set or lifted the ban, the identity is
\* the one of the row.
Midway(q) ==
    /\ q.kind # "add" => rows[q.who] # NoRow /\ rows[q.who].id = q.id
    /\ q.kind = "disable" /\ q.pc # "ban" => ident[q.who] = q.id /\ q.who \in banned
    /\ q.kind = "enable" /\ q.pc # "ban" => ident[q.who] = q.id /\ q.who \notin banned

Calm(p) == /\ \A q, r \in About(p) : q = r
           /\ \A q \in About(p) : Midway(q)
           /\ (\A q \in About(p) : Early(q)) => Agree(p)

CalmInv == \A p \in People \ parted : Calm(p)

\* At the start the rows are those of the identities.
LEMMA CalmInit == Setting /\ Init => CalmInv
<1> SUFFICES ASSUME Setting, Init, NEW p \in People PROVE Calm(p) BY DEF CalmInv
<1>1. About(p) = {} BY DEF Init, About
<1>2. CASE p \in Eligible
  <2>1. rows[p] = Row(ident[p], "admin") /\ banned = {} BY <1>2 DEF Init
  <2>2. rows[p].id = ident[p] /\ rows[p].active = TRUE BY <2>1 DEF Row
  <2> QED BY <1>1, <2>1, <2>2 DEF Calm, Agree
<1>3. CASE p \notin Eligible
  <2>1. rows[p] = NoRow BY <1>3 DEF Init
  <2> QED BY <1>1, <2>1 DEF Calm, Agree
<1> QED BY <1>2, <1>3

\* Nothing happened to a person and to the requests about the person.
LEMMA CalmSame ==
  ASSUME NEW p, Calm(p), About(p)' = About(p), rows'[p] = rows[p], ident'[p] = ident[p],
         last'[p] = last[p], p \in banned' <=> p \in banned
  PROVE  Calm(p)'
<1>1. ASSUME NEW q \in About(p) PROVE Midway(q)'
  <2>1. Midway(q) /\ q.who = p BY DEF Calm, About
  <2> QED BY <2>1 DEF Midway
<1>2. Agree(p) => Agree(p)' BY DEF Agree
<1> QED BY <1>1, <1>2 DEF Calm, Early

\* The requests about a person, after the only one of them took a step or ended.
LEMMA Alone ==
  ASSUME NEW p, Calm(p), NEW q \in reqs, q.who = p
  PROVE  /\ reqs' = reqs \ {q} => About(p)' = {} /\ \A o : o # p => About(o)' = About(o)
         /\ \A r : r.who = p /\ reqs' = (reqs \ {q}) \cup {r} =>
                     About(p)' = {r} /\ \A o : o # p => About(o)' = About(o)
<1>1. \A r \in reqs : r.who = p => r = q BY DEF Calm, About
<1>2. ASSUME reqs' = reqs \ {q} PROVE About(p)' = {} /\ \A o : o # p => About(o)' = About(o)
  BY <1>1, <1>2 DEF About
<1>3. ASSUME NEW r, r.who = p, reqs' = (reqs \ {q}) \cup {r}
      PROVE  About(p)' = {r} /\ \A o : o # p => About(o)' = About(o)
  BY <1>1, <1>3 DEF About
<1> QED BY <1>2, <1>3

\* The people and the clock.
LEMMA CalmPeople ==
  ASSUME Setting, Types, CalmInv, NEW p \in People, p \notin parted,
         (\E o \in People : SignIn(o) \/ Refresh(o)) \/ Tick
  PROVE  Calm(p)'
<1>1. UNCHANGED <<banned, rows, reqs, last>> BY DEF SignIn, Refresh, Tick
<1>2. Calm(p) /\ ident \in [People -> 0 .. ids] /\ ids \in Nat BY DEF CalmInv, Types
<1>3. CASE UNCHANGED ident BY <1>1, <1>2, <1>3, CalmSame DEF About
<1>4. CASE ~UNCHANGED ident
  <2>1. PICK o \in People : ident[o] = 0 /\ ident' = [ident EXCEPT ![o] = ids + 1]
    BY <1>4 DEF SignIn, Refresh, Tick
  <2>2. CASE o # p BY <1>1, <1>2, <2>1, <2>2, CalmSame DEF About
  <2>3. CASE o = p
    <3>1. About(p)' = About(p) BY <1>1 DEF About
    <3>2. ASSUME NEW q \in About(p) PROVE Midway(q)'
      <4>1. q.who = p /\ q \in reqs /\ Midway(q) /\ Going(q) BY <1>2 DEF About, Calm, Types
      <4>2. q.pc # "find" => q.id # 0 BY <1>2, <4>1 DEF Going
      <4>3. q.kind \in {"disable", "enable"} => q.pc # "find"
        BY <4>1, FirstStep DEF Going, Kinds
      <4>4. ~(q.kind \in {"disable", "enable"} /\ q.pc # "ban")
        BY <2>1, <2>3, <4>1, <4>2, <4>3 DEF Midway
      <4> QED BY <1>1, <4>1, <4>4 DEF Midway
    <3>3. Agree(p) => Agree(p)'
      <4>1. Agree(p) /\ last[p] # "add" => rows[p] = NoRow
        <5>1. rows[p] # NoRow => rows[p].id \in 1 .. ids BY DEF Types
        <5>2. rows[p] # NoRow => rows[p].id # 0 BY <1>2, <5>1
        <5> QED BY <2>1, <2>3, <5>2 DEF Agree
      <4> QED BY <1>1, <4>1 DEF Agree
    <3> QED BY <1>2, <3>1, <3>2, <3>3 DEF Calm, Early
  <2> QED BY <2>2, <2>3
<1> QED BY <1>3, <1>4

\* A request that begins finds the row it is about.
LEMMA CalmBegin ==
  ASSUME Setting, Types, CalmInv, NEW p \in People, NEW a \in People, NEW o \in People,
         NEW kind \in Kinds, NEW role \in {"viewer", "admin"}, Begin(a, o, kind, role), p \notin parted'
  PROVE  Calm(p)'
<1>1. UNCHANGED <<banned, rows, ident, last>> BY DEF Begin
<1>2. p \notin parted /\ Calm(p) BY DEF Begin, CalmInv
<1>3. PICK q : /\ reqs' = reqs \cup {q} /\ q.who = o /\ q.kind = kind /\ q.pc = First(kind)
               /\ q.id = IF kind = "add" THEN 0 ELSE rows[o].id
  <2>1. PICK q : q = [n |-> sent + 1, by |-> a, who |-> o, kind |-> kind, role |-> role,
                      id |-> IF kind = "add" THEN 0 ELSE rows[o].id, pc |-> First(kind)]
    OBVIOUS
  <2>2. reqs' = reqs \cup {q} BY <2>1 DEF Begin
  <2>3. /\ q.who = o /\ q.kind = kind /\ q.pc = First(kind)
        /\ q.id = IF kind = "add" THEN 0 ELSE rows[o].id
    BY <2>1
  <2> QED BY <2>2, <2>3
<1>4. CASE o # p
  <2>1. About(p)' = About(p) BY <1>3, <1>4 DEF About
  <2> QED BY <1>1, <1>2, <2>1, CalmSame
<1>5. CASE o = p
  <2>1. About(p) = {} BY <1>5 DEF Begin
  <2>2. About(p)' = {q} BY <1>3, <1>5, <2>1 DEF About
  <2>3. Agree(p)' BY <1>1, <1>2, <2>1 DEF Calm, Agree
  <2>4. Midway(q)'
    <3>1. kind # "add" => rows[p] # NoRow BY <1>5 DEF Begin
    <3>2. kind \in {"disable", "enable"} => First(kind) = "ban" BY FirstStep
    <3> QED BY <1>1, <1>3, <1>5, <3>1, <3>2 DEF Midway
  <2> QED BY <2>2, <2>3, <2>4 DEF Calm
<1> QED BY <1>4, <1>5

\* A step about somebody else.
LEMMA CalmOther ==
  ASSUME Setting, Types, CalmInv, NEW p \in People, NEW q \in reqs, Step(q), q.who # p,
         p \notin parted
  PROVE  Calm(p)'
<1>1. Calm(p) BY DEF CalmInv
<1>2. q.who \in People /\ ident \in [People -> 0 .. ids] /\ last \in [People -> Kinds \cup {"none"}]
  BY DEF Types, Request
<1>3. PICK s : /\ s.who = q.who /\ reqs' \subseteq (reqs \ {q}) \cup {s} /\ reqs \ {q} \subseteq reqs'
  BY SameRequest
<1>4. About(p)' = About(p) BY <1>3 DEF About
<1>5. rows'[p] = rows[p] BY RowOfStep
<1>6. ident'[p] = ident[p]
  BY <1>2 DEF Step, AddIdentity, Purge, Insert, SetRole, Ban, KillSessions, SetStatus,
              StampRevoked, DeleteIdentity, DeleteRow, Fail
<1>7. last'[p] = last[p]
  BY <1>2 DEF Step, AddIdentity, Purge, Insert, SetRole, Ban, KillSessions, SetStatus,
              StampRevoked, DeleteIdentity, DeleteRow, Fail, Done
<1>8. p \in banned' <=> p \in banned
  BY <1>2 DEF Step, AddIdentity, Purge, Insert, SetRole, Ban, KillSessions, SetStatus,
              StampRevoked, DeleteIdentity, DeleteRow, Fail
<1> QED BY <1>1, <1>4, <1>5, <1>6, <1>7, <1>8, CalmSame

\* A step about the person, of the only request there is.
LEMMA CalmStep ==
  ASSUME Setting, Types, CalmInv, NEW p \in People, NEW q \in reqs, Step(q), q.who = p,
         p \notin parted'
  PROVE  Calm(p)'
<1>1. /\ q \in Request /\ Going(q) /\ rows \in [People -> AppUser \cup {NoRow}]
      /\ ident \in [People -> 0 .. ids] /\ last \in [People -> Kinds \cup {"none"}] /\ q.kind \in Kinds
  BY DEF Types, Request
<1>2. p \notin parted
  BY DEF Step, AddIdentity, Purge, Insert, SetRole, Ban, KillSessions, SetStatus,
         StampRevoked, DeleteIdentity, DeleteRow, Fail
<1>3. Calm(p) /\ About(p) = {q} BY <1>2 DEF CalmInv, Calm, About
<1>4. Midway(q) /\ (Early(q) => Agree(p)) BY <1>3 DEF Calm
<1>5. reqs' = reqs \ {q} /\ Agree(p)' => Calm(p)'
  <2>1. reqs' = reqs \ {q} => About(p)' = {} BY <1>3, Alone
  <2> QED BY <2>1 DEF Calm
<1>6. ASSUME NEW pc \in Pcs, reqs' = To(q, pc), rows'[p] = rows[p], last'[p] = last[p],
             q.kind \notin {"disable", "enable"}, q.kind = "revoke" => UNCHANGED <<ident, banned>>,
             q.kind # "revoke" => pc # First(q.kind) /\ q.kind # "role"
      PROVE  Calm(p)'
  <2>1. PICK r : r = [q EXCEPT !.pc = pc] OBVIOUS
  <2>2. r.who = p /\ r.kind = q.kind /\ r.id = q.id /\ r.pc = pc BY <1>1, <2>1, ToType
  <2>3. reqs' = (reqs \ {q}) \cup {r} BY <1>6, <2>1 DEF To
  <2>4. About(p)' = {r} BY <1>3, <2>2, <2>3, Alone
  <2>5. Midway(r)' BY <1>4, <1>6, <2>2 DEF Midway
  <2>6. Early(r)' => Agree(p)'
    <3>1. CASE q.kind = "revoke"
      <4>1. Agree(p) BY <1>4, <3>1 DEF Early
      <4> QED BY <1>6, <3>1, <4>1 DEF Agree
    <3>2. CASE q.kind # "revoke" BY <1>6, <2>2, <3>2 DEF Early
    <3> QED BY <3>1, <3>2
  <2> QED BY <2>4, <2>5, <2>6 DEF Calm, Early
<1>7. CASE AddIdentity(q)
  <2>1. PICK r : r = [q EXCEPT !.id = ident'[q.who], !.pc = "purge"] OBVIOUS
  <2>2. r.who = p /\ r.kind = q.kind /\ r.pc = "purge" BY <1>1, <2>1 DEF Request
  <2>3. reqs' = (reqs \ {q}) \cup {r} BY <1>7, <2>1 DEF AddIdentity
  <2>4. q.kind = "add" BY <1>1, <1>7, KindOf DEF AddIdentity
  <2>5. About(p)' = {r} BY <1>3, <2>2, <2>3, Alone
  <2>6. Midway(r)' BY <2>2, <2>4 DEF Midway
  <2>7. ~Early(r)' BY <2>2, <2>4, FirstStep DEF Early
  <2> QED BY <2>5, <2>6, <2>7 DEF Calm, Early
<1>8. CASE Purge(q)
  <2>1. q.kind = "add" BY <1>1, <1>8, KindOf DEF Purge
  <2>2. PICK r : r = [q EXCEPT !.pc = "insert"] OBVIOUS
  <2>3. "insert" \in Pcs BY DEF Pcs
  <2>4. r.who = p /\ r.kind = q.kind /\ r.pc = "insert" BY <1>1, <2>2, <2>3, ToType
  <2>5. reqs' = (reqs \ {q}) \cup {r} BY <1>8, <2>2 DEF Purge, To
  <2>6. About(p)' = {r} BY <1>3, <2>4, <2>5, Alone
  <2>7. Midway(r)' BY <2>1, <2>4 DEF Midway
  <2>8. ~Early(r)' BY <2>1, <2>4, FirstStep DEF Early
  <2> QED BY <2>6, <2>7, <2>8 DEF Calm, Early
<1>9. CASE Insert(q)
  <2>1. q.kind = "add" BY <1>1, <1>9, KindOf DEF Insert
  <2>2. reqs' = reqs \ {q} /\ last'[p] = "add" BY <1>1, <1>9, <2>1 DEF Insert, Done
  <2> QED BY <1>5, <2>2 DEF Agree
<1>10. CASE SetRole(q)
  <2>1. q.kind = "role" BY <1>1, <1>10, KindOf DEF SetRole
  <2>2. Agree(p) BY <1>4, <2>1 DEF Early
  <2>3. PICK r \in AppUser : /\ rows' = [rows EXCEPT ![q.who] = r] /\ r.id = rows[q.who].id
                             /\ r.active = rows[q.who].active
    BY <1>10, WriteType
  <2>4. rows'[p] = r BY <1>1, <2>3
  <2>5. reqs' = reqs \ {q} /\ UNCHANGED <<ident, banned, last>> BY <1>10 DEF SetRole
  <2>6. rows[p] # NoRow BY <1>10 DEF SetRole, Own
  <2> QED BY <1>5, <2>2, <2>3, <2>4, <2>5, <2>6 DEF Agree
<1>11. CASE Ban(q)
  <2>1. PICK pc : pc = IF q.kind = "disable" THEN "kill" ELSE "status" OBVIOUS
  <2>2. pc \in Pcs /\ pc # "ban" BY <2>1 DEF Pcs
  <2>3. PICK r : r = [q EXCEPT !.pc = pc] OBVIOUS
  <2>4. r.who = p /\ r.kind = q.kind /\ r.id = q.id /\ r.pc = pc BY <1>1, <2>2, <2>3, ToType
  <2>5. reqs' = (reqs \ {q}) \cup {r} BY <1>11, <2>1, <2>3 DEF Ban, To
  <2>6. About(p)' = {r} BY <1>3, <2>4, <2>5, Alone
  <2>7. q.kind \in {"disable", "enable"} BY <1>1, <1>11, KindOf DEF Ban
  <2>8. UNCHANGED <<ident, rows>> /\ ident[p] = q.id /\ (p \in banned' <=> q.kind = "disable")
    BY <1>11 DEF Ban
  <2>9. Midway(r)' BY <1>4, <2>4, <2>7, <2>8 DEF Midway
  <2>10. ~Early(r)' BY <2>2, <2>4, <2>7, FirstStep DEF Early
  <2> QED BY <2>6, <2>9, <2>10 DEF Calm, Early
<1>12. CASE KillSessions(q)
  <2>1. UNCHANGED <<ident, banned, rows, last>> BY <1>12 DEF KillSessions
  <2>2. q.kind \in {"disable", "revoke"} BY <1>1, <1>12, KindOf DEF KillSessions
  <2>3. CASE q.kind = "revoke"
    <3>1. reqs' = To(q, "stamp") /\ "stamp" \in Pcs BY <1>12, <2>3 DEF KillSessions, Pcs
    <3> QED BY <1>6, <2>1, <2>3, <3>1
  <2>4. CASE q.kind = "disable"
    <3>1. PICK r : r = [q EXCEPT !.pc = "status"] OBVIOUS
    <3>2. "status" \in Pcs BY DEF Pcs
    <3>3. r.who = p /\ r.kind = q.kind /\ r.id = q.id /\ r.pc = "status"
      BY <1>1, <3>1, <3>2, ToType
    <3>4. reqs' = (reqs \ {q}) \cup {r} BY <1>12, <2>4, <3>1 DEF KillSessions, To
    <3>5. About(p)' = {r} BY <1>3, <3>3, <3>4, Alone
    <3>6. q.pc # "ban" BY <1>12 DEF KillSessions
    <3>7. Midway(r)' BY <1>4, <2>1, <2>4, <3>3, <3>6 DEF Midway
    <3>8. ~Early(r)' BY <2>4, <3>3, FirstStep DEF Early
    <3> QED BY <3>5, <3>7, <3>8 DEF Calm, Early
  <2> QED BY <2>2, <2>3, <2>4
<1>13. CASE SetStatus(q)
  <2>1. q.kind \in {"disable", "enable"} /\ q.pc # "ban" BY <1>1, <1>13, KindOf DEF SetStatus
  <2>2. /\ ident[p] = q.id /\ rows[p] # NoRow /\ rows[p].id = q.id
        /\ q.kind = "disable" => p \in banned
        /\ q.kind = "enable" => p \notin banned
    BY <1>4, <2>1 DEF Midway
  <2>3. PICK r \in AppUser : /\ rows' = [rows EXCEPT ![q.who] = r] /\ r.id = rows[p].id
                             /\ r.active = (q.kind = "enable")
    BY <1>13, WriteType
  <2>4. rows'[p] = r BY <1>1, <2>3
  <2>5. reqs' = reqs \ {q} /\ UNCHANGED <<ident, banned>> BY <1>13 DEF SetStatus, Done
  <2>6. r.active <=> q.kind = "enable" BY <2>3
  <2>7. rows'[p].active <=> p \notin banned' BY <2>1, <2>2, <2>4, <2>5, <2>6
  <2>8. rows'[p].id = ident'[p] BY <2>2, <2>3, <2>4, <2>5
  <2> QED BY <1>5, <2>5, <2>7, <2>8 DEF Agree
<1>14. CASE StampRevoked(q)
  <2>1. q.kind = "revoke" BY <1>1, <1>14, KindOf DEF StampRevoked
  <2>2. Agree(p) BY <1>4, <2>1 DEF Early
  <2>3. Own(q) BY <1>4, <2>1 DEF Midway, Own
  <2>4. PICK r \in AppUser : /\ rows' = [rows EXCEPT ![q.who] = r] /\ r.id = rows[q.who].id
                             /\ r.active = rows[q.who].active
    BY <1>14, <2>3, WriteType
  <2>5. rows'[p] = r /\ rows[p] # NoRow BY <1>1, <2>3, <2>4 DEF Own
  <2>6. reqs' = reqs \ {q} /\ UNCHANGED <<ident, banned, last>> BY <1>14 DEF StampRevoked
  <2> QED BY <1>5, <2>2, <2>4, <2>5, <2>6 DEF Agree
<1>15. CASE DeleteIdentity(q)
  <2>1. q.kind = "delete" BY <1>1, <1>15, KindOf DEF DeleteIdentity
  <2>2. reqs' = To(q, "row") /\ "row" \in Pcs /\ UNCHANGED <<rows, last>>
    BY <1>15 DEF DeleteIdentity, Pcs
  <2>3. First(q.kind) = "identity" BY <2>1, FirstStep
  <2> QED BY <1>6, <2>1, <2>2, <2>3
<1>16. CASE DeleteRow(q)
  <2>1. q.kind = "delete" BY <1>1, <1>16, KindOf DEF DeleteRow
  <2>2. Own(q) BY <1>4, <2>1 DEF Midway, Own
  <2>3. rows'[p] = NoRow /\ reqs' = reqs \ {q} BY <1>1, <1>16, <2>2 DEF DeleteRow, Done
  <2> QED BY <1>5, <2>3 DEF Agree
<1>17. CASE Fail(q)
  <2>1. q.pc = First(q.kind) BY <1>17 DEF Fail
  <2>2. Agree(p) BY <1>4, <2>1 DEF Early
  <2>3. reqs' = reqs \ {q} /\ UNCHANGED <<ident, banned, rows, last>> BY <1>17 DEF Fail
  <2> QED BY <1>5, <2>2, <2>3 DEF Agree
<1> QED
  BY <1>7, <1>8, <1>9, <1>10, <1>11, <1>12, <1>13, <1>14, <1>15, <1>16, <1>17 DEF Step

\* The row and the identity agree again when the requests about a person have ended.
LEMMA CalmNext == Setting /\ Types /\ CalmInv /\ [Next]_vars => CalmInv'
<1> SUFFICES ASSUME Setting, Types, CalmInv, [Next]_vars, NEW p \in People, p \notin parted'
             PROVE  Calm(p)'
  BY DEF CalmInv
<1>1. CASE UNCHANGED vars
  <2>1. p \notin parted /\ Calm(p) BY <1>1 DEF CalmInv, vars
  <2> QED BY <1>1, <2>1, CalmSame DEF vars, About
<1>2. CASE (\E o \in People : SignIn(o) \/ Refresh(o)) \/ Tick
  <2>1. p \notin parted BY <1>2 DEF SignIn, Refresh, Tick
  <2> QED BY <1>2, <2>1, CalmPeople
<1>3. CASE \E a, o \in People, kind \in Kinds, role \in {"viewer", "admin"} : Begin(a, o, kind, role)
  BY <1>3, CalmBegin
<1>4. CASE \E q \in reqs : Step(q)
  <2>1. PICK q \in reqs : Step(q) BY <1>4
  <2>2. p \notin parted
    BY <2>1 DEF Step, AddIdentity, Purge, Insert, SetRole, Ban, KillSessions, SetStatus,
                StampRevoked, DeleteIdentity, DeleteRow, Fail
  <2> QED BY <2>1, <2>2, CalmOther, CalmStep
<1> QED BY <1>1, <1>2, <1>3, <1>4 DEF Next, Step, Kinds

-----------------------------------------------------------------------------
(* The theorems. *)

\* The types hold for ever: identities are not shared, and only who has one is banned or
\* has a session.
THEOREM AccountsTypes == ASSUME Setting PROVE Spec => []TypeOK
<1>1. Init => Types BY TypesInit
<1>2. Types /\ [Next]_vars => Types' BY TypesStep
<1>3. Types => TypeOK
  <2> SUFFICES ASSUME Types PROVE TypeOK OBVIOUS
  <2>1. ids \in 0 .. MaxIds /\ MaxIds \in Nat BY DEF Types, Setting
  <2>2. ident \in [People -> 0 .. MaxIds] BY <2>1 DEF Types
  <2>3. \A p \in People : rows[p] # NoRow => rows[p].id \in 1 .. ids /\ rows[p].role \in Roles
    BY DEF Types, AppUser
  <2> QED BY <2>1, <2>2, <2>3 DEF Types, TypeOK
<1> QED BY <1>1, <1>2, <1>3, PTL DEF Spec

\* For any number of admins, people and requests in any order: the guards of the admin
\* routes against locking oneself out leave an admin, in all but the named cases.
THEOREM AdminStays == ASSUME Setting, Eligible # {} PROVE Spec => []AnAdminRemains
<1>1. Init => Types /\ AdminInv BY TypesInit, AdminInit
<1>2. Types /\ AdminInv /\ [Next]_vars => Types' /\ AdminInv' BY TypesStep, AdminStep
<1>3. AdminInv => AnAdminRemains BY DEF AdminInv, AnAdminRemains, Adm
<1> QED BY <1>1, <1>2, <1>3, PTL DEF Spec

\* A disabled account is disabled in both stores, and an enabled one in neither, when no
\* request about it is left, unless requests overlapped or one was left half done; and
\* whoever had a session when the sessions of the account were revoked is refused for ever,
\* however the revocation interleaves with refreshes of the token and with other requests.
THEOREM DeniedStaysOut == ASSUME Setting PROVE Spec => []DeniedIsKeptOut
<1>1. Init => Types /\ CalmInv /\ RevInv BY TypesInit, CalmInit, RevInit
<1>2. Types /\ CalmInv /\ RevInv /\ [Next]_vars => Types' /\ CalmInv' /\ RevInv'
  BY TypesStep, CalmNext, RevStep
<1>3. CalmInv => StatusMatchesBan BY DEF CalmInv, Calm, Agree, StatusMatchesBan
<1>4. RevInv => RevocationHolds BY DEF RevInv, RevocationHolds, LoadRole
<1>5. CalmInv /\ RevInv => DeniedIsKeptOut BY <1>3, <1>4 DEF DeniedIsKeptOut
<1> QED BY <1>1, <1>2, <1>5, PTL DEF Spec
=============================================================================
