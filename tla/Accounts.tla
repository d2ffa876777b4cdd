------------------------------- MODULE Accounts -------------------------------
(***************************************************************************)
(* The accounts of the desk (routes/admin.ts, auth/authz.ts): a person has *)
(* an identity in GoTrue, the provider of sign-in, and a row in            *)
(* content_tool.app_user with a role.  An admin's request changes the two  *)
(* in steps, with no transaction around them.  The break-glass list of     *)
(* bootstrap admins is empty.  A person has one session and one access     *)
(* token, the newest or an older one that is still in use.                 *)
(***************************************************************************)
EXTENDS Integers

CONSTANTS
    N,             \* number of e-mail addresses
    Eligible,      \* those of a domain that may hold the admin role
    NoRow, NoToken,
    MaxIds,        \* bound: identities GoTrue has issued
    MaxTime,       \* bound: seconds
    MaxRequests    \* bound: requests of admins

People == 1 .. N

VARIABLES
    ident,         \* GoTrue: person -> identity, 0 without one
    banned,        \* GoTrue: persons that cannot sign in or refresh
    session,       \* GoTrue: person -> the session that refreshes the token
    rows,          \* app_user, by its unique e-mail
    token,         \* person -> access token
    ids, now, sent,
    reqs,          \* requests of admins under way
    last,          \* history: person -> what was last done about the account
    parted,        \* history: persons with an overlapping or half-done request
    shaken         \* history: an admin acted on the own account unguarded, or two raced
vars == <<ident, banned, session, rows, token, ids, now, sent, reqs, last, parted, shaken>>

-----------------------------------------------------------------------------
Roles == {"viewer", "author", "reviewer", "admin"}
Row(i, role) == [id |-> i, role |-> role, active |-> TRUE, revoked |-> -1]

\* effectiveRole, with the ceiling for other domains.
Capped(p, role) == IF role = "admin" /\ p \notin Eligible THEN "reviewer" ELSE role

\* loadRole: the row of the identity, or else that of the e-mail.  Tokens carry
\* whole seconds, a revocation the fraction too.
LoadRole(p) ==
    IF \/ token[p] = NoToken \/ rows[p] = NoRow
       \/ ~rows[p].active \/ token[p].iat <= rows[p].revoked
    THEN "none" ELSE Capped(p, rows[p].role)

About(p) == {q \in reqs : q.who = p}
To(q, pc) == (reqs \ {q}) \cup {[q EXCEPT !.pc = pc]}

-----------------------------------------------------------------------------
(* The people.  Google signs anyone in, and GoTrue makes the identity.     *)

SignIn(p) ==
    /\ p \notin banned
    /\ IF ident[p] = 0
       THEN ids < MaxIds /\ ids' = ids + 1 /\ ident' = [ident EXCEPT ![p] = ids + 1]
       ELSE UNCHANGED <<ids, ident>>
    /\ session' = [session EXCEPT ![p] = [on |-> TRUE, pre |-> {}]]
    /\ token' = [token EXCEPT ![p] = [id |-> ident'[p], iat |-> now, pre |-> {}]]
    /\ UNCHANGED <<banned, rows, now, sent, reqs, last, parted, shaken>>

Refresh(p) ==
    /\ session[p].on /\ p \notin banned
    /\ token' = [token EXCEPT ![p] = [id |-> ident[p], iat |-> now, pre |-> session[p].pre]]
    /\ UNCHANGED <<ident, banned, session, rows, ids, now, sent, reqs, last, parted, shaken>>

Tick ==
    /\ now < MaxTime
    /\ now' = now + 1
    /\ UNCHANGED <<ident, banned, session, rows, token, ids, sent, reqs, last, parted, shaken>>

-----------------------------------------------------------------------------
(* The admins.  A request is let in by the role of the moment.             *)

First(kind) ==
    CASE kind = "add" -> "find" [] kind = "role" -> "write" [] kind \in {"disable", "enable"} -> "ban"
      [] kind = "delete" -> "identity" [] kind = "revoke" -> "kill"

\* Only that a deletion is not of oneself (mutant).
LocksDelete(a, p, kind, role) ==
    rows[p] # NoRow /\ token[a].id = rows[p].id /\ kind = "delete"

\* The guards against locking oneself out compare identities.
Locks(a, p, kind, role) ==
    /\ rows[p] # NoRow /\ token[a].id = rows[p].id
    /\ kind = "delete" \/ (kind = "role" /\ role # "admin")

\* pre: the revocations begun since the session was, and 0 once one was done.
Of(p, x) == token' = [token EXCEPT ![p] = IF token[p] = NoToken THEN NoToken ELSE x]
Forgotten(p) == Of(p, [token[p] EXCEPT !.pre = {}])
Marked(x) == [x EXCEPT !.pre = x.pre \cup {sent + 1}]

Begin(a, p, kind, role) ==
    /\ sent < MaxRequests /\ LoadRole(a) = "admin"
    /\ kind \in {"add", "role"} /\ role = "admin" => p \in Eligible
    /\ kind # "add" => rows[p] # NoRow
    /\ kind \notin {"add", "role"} => role = "viewer"
    /\ ~Locks(a, p, kind, role)
    /\ sent' = sent + 1
    /\ reqs' = reqs \cup {[n |-> sent + 1, by |-> a, who |-> p, kind |-> kind, role |-> role,
                           id |-> IF kind = "add" THEN 0 ELSE rows[p].id, pc |-> First(kind)]}
    /\ IF kind = "revoke" /\ ident[p] = rows[p].id
       THEN session' = [session EXCEPT ![p] = Marked(session[p])] /\ Of(p, Marked(token[p]))
       ELSE UNCHANGED <<session, token>>
    /\ parted' = IF About(p) = {} THEN parted ELSE parted \cup {p}
    /\ shaken' = (\/ shaken
                  \/ a = p /\ (kind \in {"add", "disable"} \/ token[a].id # rows[a].id)
                  \/ \E q \in reqs : q.by = p \/ q.who = a)
    /\ UNCHANGED <<ident, banned, rows, ids, now, last>>

\* createUser, or the identity that is there already.
AddIdentity(q) ==
    /\ q \in reqs /\ q.pc = "find"
    /\ IF ident[q.who] = 0
       THEN ids < MaxIds /\ ids' = ids + 1 /\ ident' = [ident EXCEPT ![q.who] = ids + 1]
       ELSE UNCHANGED <<ids, ident>>
    /\ reqs' = (reqs \ {q}) \cup {[q EXCEPT !.id = ident'[q.who], !.pc = "purge"]}
    /\ UNCHANGED <<banned, session, rows, token, now, sent, last, parted, shaken>>

\* The row under another identity goes; its revocation with it.
Purge(q) ==
    /\ q \in reqs /\ q.pc = "purge"
    /\ IF rows[q.who] # NoRow /\ rows[q.who].id # q.id
       THEN /\ rows' = [rows EXCEPT ![q.who] = NoRow]
            /\ Forgotten(q.who)
       ELSE UNCHANGED <<rows, token>>
    /\ reqs' = To(q, "insert")
    /\ UNCHANGED <<ident, banned, session, ids, now, sent, last, parted, shaken>>

Done(q) == reqs' = reqs \ {q} /\ last' = [last EXCEPT ![q.who] = q.kind]

\* ON CONFLICT (id); the e-mail is unique too.
Insert(q) ==
    /\ q \in reqs /\ q.pc = "insert" /\ (rows[q.who] # NoRow => rows[q.who].id = q.id)
    /\ rows' = [rows EXCEPT ![q.who] =
         IF rows[q.who] = NoRow THEN Row(q.id, q.role)
         ELSE [rows[q.who] EXCEPT !.role = q.role, !.active = TRUE]]
    /\ Done(q)
    /\ UNCHANGED <<ident, banned, session, token, ids, now, sent, parted, shaken>>

Own(q) == rows[q.who] # NoRow /\ rows[q.who].id = q.id

SetRole(q) ==
    /\ q \in reqs /\ q.pc = "write" /\ Own(q)
    /\ rows' = [rows EXCEPT ![q.who].role = q.role]
    /\ reqs' = reqs \ {q}
    /\ UNCHANGED <<ident, banned, session, token, ids, now, sent, last, parted, shaken>>

Ban(q) ==
    /\ q \in reqs /\ q.pc = "ban" /\ ident[q.who] = q.id
    /\ banned' = IF q.kind = "disable" THEN banned \cup {q.who} ELSE banned \ {q.who}
    /\ reqs' = To(q, IF q.kind = "disable" THEN "kill" ELSE "status")
    /\ UNCHANGED <<ident, session, rows, token, ids, now, sent, last, parted, shaken>>

\* The stamp is taken, and the sessions are left for later (mutant).
KillAfterwards(q) ==
    /\ q \in reqs /\ q.pc = "kill"
    /\ IF q.kind = "revoke" THEN UNCHANGED session
       ELSE session' = [session EXCEPT ![q.who] = [on |-> FALSE, pre |-> {}]]
    /\ reqs' = To(q, IF q.kind = "disable" THEN "status" ELSE "stamp")
    /\ UNCHANGED <<ident, banned, rows, token, ids, now, sent, last, parted, shaken>>

\* revoke_auth_sessions, for the identity of the row.  A disable goes on without it.
KillSessions(q) ==
    /\ q \in reqs /\ q.pc = "kill"
    /\ IF ident[q.who] = q.id
       THEN /\ \/ session' = [session EXCEPT ![q.who] = [on |-> FALSE, pre |-> {}]]
               \/ q.kind = "disable" /\ UNCHANGED session
            /\ UNCHANGED token
       ELSE Forgotten(q.who) /\ session' = [session EXCEPT ![q.who].pre = {}]
    /\ reqs' = To(q, IF q.kind = "disable" THEN "status" ELSE "stamp")
    /\ UNCHANGED <<ident, banned, rows, ids, now, sent, last, parted, shaken>>

SetStatus(q) ==
    /\ q \in reqs /\ q.pc = "status" /\ Own(q)
    /\ rows' = [rows EXCEPT ![q.who].active = (q.kind = "enable")]
    /\ Done(q)
    /\ UNCHANGED <<ident, banned, session, token, ids, now, sent, parted, shaken>>

Cut(x, q) == IF q.n \in x.pre THEN [x EXCEPT !.pre = x.pre \cup {0}] ELSE x

StampRevoked(q) ==
    /\ q \in reqs /\ q.pc = "stamp"
    /\ rows' = IF Own(q) THEN [rows EXCEPT ![q.who].revoked = now] ELSE rows
    /\ IF Own(q)
       THEN /\ session' = [session EXCEPT ![q.who] = Cut(session[q.who], q)]
            /\ Of(q.who, Cut(token[q.who], q))
       ELSE UNCHANGED <<session, token>>
    /\ reqs' = reqs \ {q}
    /\ UNCHANGED <<ident, banned, ids, now, sent, last, parted, shaken>>

\* deleteUser; that it is gone already is no error.
DeleteIdentity(q) ==
    /\ q \in reqs /\ q.pc = "identity"
    /\ IF ident[q.who] = q.id
       THEN /\ ident' = [ident EXCEPT ![q.who] = 0] /\ banned' = banned \ {q.who}
            /\ session' = [session EXCEPT ![q.who] = [on |-> FALSE, pre |-> {}]]
       ELSE UNCHANGED <<ident, banned, session>>
    /\ reqs' = To(q, "row")
    /\ UNCHANGED <<rows, token, ids, now, sent, last, parted, shaken>>

DeleteRow(q) ==
    /\ q \in reqs /\ q.pc = "row"
    /\ IF Own(q)
       THEN /\ rows' = [rows EXCEPT ![q.who] = NoRow]
            /\ Forgotten(q.who)
       ELSE UNCHANGED <<rows, token>>
    /\ Done(q)
    /\ UNCHANGED <<ident, banned, session, ids, now, sent, parted, shaken>>

\* GoTrue, the database or a lost row ends the request where it is.
Fail(q) ==
    /\ q \in reqs
    /\ reqs' = reqs \ {q}
    /\ parted' = IF q.pc = First(q.kind) THEN parted ELSE parted \cup {q.who}
    /\ shaken' = (shaken \/ q.pc # First(q.kind))
    /\ UNCHANGED <<ident, banned, session, rows, token, ids, now, sent, last>>

-----------------------------------------------------------------------------
\* Everybody eligible is an admin and signed in.
Init ==
    /\ ident = [p \in People |-> IF p \in Eligible THEN p ELSE 0]
    /\ rows = [p \in People |-> IF p \in Eligible THEN Row(ident[p], "admin") ELSE NoRow]
    /\ token = [p \in People |-> IF p \in Eligible THEN [id |-> ident[p], iat |-> 0, pre |-> {}] ELSE NoToken]
    /\ session = [p \in People |-> [on |-> p \in Eligible, pre |-> {}]]
    /\ banned = {} /\ ids = N /\ now = 0 /\ sent = 0 /\ reqs = {}
    /\ last = [p \in People |-> "none"] /\ parted = {} /\ shaken = FALSE

Next ==
    \/ \E p \in People : SignIn(p) \/ Refresh(p)
    \/ Tick
    \/ \E a, p \in People, kind \in {"add", "role", "disable", "enable", "delete", "revoke"},
          role \in {"viewer", "admin"} : Begin(a, p, kind, role)
    \/ \E q \in reqs :
          \/ AddIdentity(q) \/ Purge(q) \/ Insert(q) \/ SetRole(q) \/ Ban(q) \/ KillSessions(q)
          \/ SetStatus(q) \/ StampRevoked(q) \/ DeleteIdentity(q) \/ DeleteRow(q) \/ Fail(q)

Spec == Init /\ [][Next]_vars

-----------------------------------------------------------------------------
TypeOK ==
    /\ ident \in [People -> 0 .. MaxIds] /\ ids \in 0 .. MaxIds /\ banned \subseteq People
    /\ \A p \in People : rows[p] # NoRow => rows[p].id \in 1 .. ids /\ rows[p].role \in Roles
    /\ \A p, o \in People : p # o /\ ident[p] # 0 => ident[p] # ident[o]
    /\ \A p \in People : p \in banned => ident[p] # 0
    /\ \A p \in People : session[p].on => ident[p] # 0

\* Somebody who may be an admin always is one: the guards against locking
\* oneself out suffice without counting admins, unless a request is about the
\* sender of one that is under way, an admin disables or adds the own account,
\* acts on it with the token of an identity that it no longer has (the guards
\* compare identities, and the role is found by the e-mail), or a request was
\* left half done.
AnAdminRemains ==
    shaken \/ \E p \in Eligible : rows[p] # NoRow /\ rows[p].active /\ rows[p].role = "admin"

\* Once all requests about a person have ended, the row and the identity are
\* about the same account and agree on whether it is disabled, unless requests
\* overlapped, one was left half done, or the person was added again.
StatusMatchesBan ==
    \A p \in People \ parted :
        About(p) = {} /\ last[p] # "add" /\ rows[p] # NoRow =>
            rows[p].id = ident[p] /\ (rows[p].active <=> p \notin banned)

\* No token of a session that was there when the sessions were revoked is let
\* in later, also if it was refreshed while the revocation was under way.  It is
\* about revocations: a deletion revokes nothing that outlives the account, and a
\* token older than the deletion of an account that was added again is let in.
RevocationHolds ==
    \A p \in People : token[p] # NoToken /\ 0 \in token[p].pre => LoadRole(p) = "none"

\* Both, of a person who was disabled or whose sessions were revoked.
DeniedIsKeptOut == StatusMatchesBan /\ RevocationHolds

=============================================================================
