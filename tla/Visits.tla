------------------------------- MODULE Visits -------------------------------
(***************************************************************************)
(* Visits of the pages of an rm3 site, from the session cookie or bearer    *)
(* token to the answer: deserializeUser (lib/authentication), the effective *)
(* permissions and their cache (lib/query.js), the entity                   *)
(* (lib/middleware/fetch_entity.js), the checks of lib/authorize.js, and    *)
(* the ETag (lib/page.js _mapFreshness), which is made of two revisions and *)
(* the login and lets a browser keep its copy.                              *)
(*                                                                         *)
(* Meanwhile administrators make, edit, delete and purge the accounts of   *)
(* users, assign roles to them and permissions to roles, and editors change *)
(* the site.  The stages of a visit are steps of their own: a look-up in    *)
(* the redis cache that hits is one; one that misses is followed by a query *)
(* (the same step) and, when the answer is here, by the cache.set and what  *)
(* the visit does with it (another).  One page is visited and, for each     *)
(* role, one set of permissions for it is kept.                             *)
(*                                                                         *)
(* A definition that a comment calls a mutant is a plausible mistake in    *)
(* the code of the definition after it, and no part of the specification.  *)
(***************************************************************************)
EXTENDS Naturals, Sequences, FiniteSets

CONSTANTS
    Users,      \* names of accounts, below the users' root
    Browsers,   \* visitors, with a cookie jar and a cache each
    Emails,     \* addresses an account may have
    Roles,      \* roles that are assigned
    Perms,      \* permissions for the page that is visited
    Granted,    \* the permissions of roles, and of "nobody", at the start
    Variable,   \* those that are added and removed on the way
    Pages,      \* paths of the site
    Home,       \* the page that is visited
    PermTTL,    \* time to live of cached permissions, 60 s
    MissTTL,    \* of a cached "no permissions", the default of the cache
    ChangeTTL,  \* of the cached most recent change, 60 s
    MaxWork,    \* bound on the transactions of administrators
    MaxSaves,   \* bound on the revisions of editors
    MaxTime     \* bound on the clock

None == "none"
Nobody == "nobody"
Subjects == Users \cup {Nobody}

ASSUME NamesAreApart == None \notin Users \cup Emails /\ Nobody \notin Users \cup Roles
ASSUME EmailsAreNoNames == Emails \cap Users = {}
ASSUME PermitsAreKnown == Granted \cup Variable \subseteq (Roles \cup {Nobody}) \X Perms
ASSUME HomeIsAPage == Home \in Pages
ASSUME BoundsAreNat ==
    /\ {PermTTL, MissTTL, ChangeTTL, MaxWork, MaxTime} \subseteq Nat
    /\ MaxSaves \in Nat \ {0}

VARIABLES
    now,        \* the clock, in ticks of cache life
    work,       \* number of administrators' transactions: they name accounts
    rows,       \* the account of each user in wh_entity
    creds,      \* wh_credential, provider "password"
    assigned,   \* wh_subject_to_roles
    permits,    \* wh_permission_to_role, the rows that match the page
    making,     \* accounts made, their credential not yet
    permCache,  \* cached effective permissions on the page, per subject
    saves,      \* number of revisions so far: they name and date them
    table,      \* the row of each path in wh_entity
    log,        \* revisions: in wh_log, or of a transaction not committed yet
    stamp,      \* history: the `touched' each revision was published with
    reused,     \* history: revisions published with more than one
    topCache,   \* the cached most recent change
    logins,     \* per browser: its session, or its token
    copies,     \* per browser: its copy of the page
    visits,     \* per browser: its current request
    turned,     \* history: when a subject last got or lost a permission
    locked,     \* history: accounts that have lost, or never had, a password
    overtaken   \* history: accounts replaced before they had their credential

vars == <<now, work, rows, creds, assigned, permits, making, permCache, saves, table,
          log, stamp, reused, topCache, logins, copies, visits, turned, locked, overtaken>>
accounts == <<rows, creds, assigned, making, locked, overtaken>>
rights == <<permits, permCache, turned>>
pages == <<saves, table, log, stamp, reused>>
site == <<pages, topCache>>

---------------------------------------------------------------------------
(* Data. *)

Ids == 0..MaxWork
\* id 0: no row.  email None: the account was made without an address.
Account == [id : Ids, stub : BOOLEAN, email : Emails \cup {None}, disabled : BOOLEAN]
NoAccount == [id |-> 0, stub |-> FALSE, email |-> None, disabled |-> FALSE]

Live(u) == rows[u].id # 0 /\ ~rows[u].stub

\* kind "cookie": a session of the browser; "token": an access token; id: the
\* entityId that serializeUser or the password exchange put into it.
Login == [kind : {None, "cookie", "token"}, user : Users \cup {None}, id : Ids]
NoLogin == [kind |-> None, user |-> None, id |-> 0]

\* A row of wh_entity; rev 0: there is none.  History: when it was put there,
\* and whether something had been published before that it does not postdate.
Revs == 0..MaxSaves
Row == [rev : Revs, touched : Revs, stub : BOOLEAN, at : 0..MaxTime, late : BOOLEAN]
NoRow == [rev |-> 0, touched |-> 0, stub |-> FALSE, at |-> 0, late |-> FALSE]

\* A revision.  draft: it was saved as one (exec = false); create: evtClass
\* Create; to: where a move goes.
Entry == [page : Pages, kind : {"save", "delete", "move"}, to : Pages, create : BOOLEAN,
          draft : BOOLEAN, rev : Revs, touched : Revs]

\* since: when the query was made that the visit waits for.
Visit == [at : {"idle", "login", "perms", "asked", "entity", "again", "asked again",
                "fresh", "dated", "render"},
          kind : {None, "view", "edit", "tag", "create", "cookie", "token"},
          user : Users \cup {None}, id : Ids, email : Emails \cup {None},
          disabled : BOOLEAN, may : SUBSET Perms, since : 0..MaxTime,
          rev : Revs, top : Revs]
NoVisit == [at |-> "idle", kind |-> None, user |-> None, id |-> 0, email |-> None,
            disabled |-> FALSE, may |-> {}, since |-> 0, rev |-> 0, top |-> 0]
NoCopy == [tag |-> <<>>, rev |-> 0, shown |-> [p \in Pages |-> 0], reader |-> 0]

\* One more transaction.
Work == work < MaxWork /\ work' = work + 1

---------------------------------------------------------------------------
(* Permissions. *)

RolesOf(s) == IF s = Nobody THEN {Nobody}
              ELSE {a.role : a \in {x \in assigned : x.user = s}}

\* _fetchEffectivePermissions: the roles of the user joined with what those
\* may do here, or what "nobody" may do for a visitor who has not logged in.
Effective(s) == {p[2] : p \in {x \in permits : x[1] \in RolesOf(s)}}

Hit(s) == permCache[s].until > now

\* "No permissions" is kept for the default time to live, not for 60 s.
Lifetime(perms) == IF perms = {} THEN MissTTL ELSE PermTTL

\* Mutant: the key of the cache is the path without the user.
CachedByPath(s, perms, since) ==
    [t \in Subjects |-> [until |-> now + Lifetime(perms), perms |-> perms,
                         took |-> now - since]]

\* cache.set, when the answer of the query is here.  History: how long it took.
Cached(s, perms, since) ==
    [permCache EXCEPT ![s] = [until |-> now + Lifetime(perms), perms |-> perms,
                              took |-> now - since]]

\* An administrator's transaction; whose permissions does it turn?
Administer ==
    /\ turned' = [s \in Subjects |-> [p \in Perms |->
                     IF (p \in Effective(s)) # (p \in Effective(s)') THEN now
                     ELSE turned[s][p]]]
    /\ UNCHANGED <<now, permCache, site, logins, copies, visits>>

\* rm3admin permit and deny.
Permit(x) == /\ Work /\ x \notin permits /\ permits' = permits \cup {x}
             /\ UNCHANGED accounts /\ Administer
Deny(x) == /\ Work /\ x \in permits /\ permits' = permits \ {x}
           /\ UNCHANGED accounts /\ Administer

\* grant.html, rm3admin assign: the foreign key asks for a row, even a stub.
Assign(u, r) ==
    /\ Work /\ rows[u].id # 0 /\ r \notin RolesOf(u)
    /\ assigned' = assigned \cup {[user |-> u, role |-> r, id |-> rows[u].id]}
    /\ UNCHANGED <<rows, creds, permits, making, locked, overtaken>> /\ Administer

Deassign(u, r) ==
    /\ Work /\ r \in RolesOf(u)
    /\ assigned' = {a \in assigned : a.user # u \/ a.role # r}
    /\ UNCHANGED <<rows, creds, permits, making, locked, overtaken>> /\ Administer

---------------------------------------------------------------------------
(* Accounts. *)

NewAccount(email) == [id |-> work + 1, stub |-> FALSE, email |-> email, disabled |-> FALSE]

\* DELETE FROM wh_entity, whose foreign keys cascade.
Cascade(u) == /\ creds' = {c \in creds : c.user # u}
              /\ assigned' = {a \in assigned : a.user # u}

\* History: whose credential is still to come when there is a new account?
Overtake(u) ==
    overtaken' = overtaken \cup {[id |-> m.id, by |-> work + 1] :
                                    m \in {x \in making : x.user = u}}

\* Mutant: an account is made over a deleted one in its old row.
CreateUserInPlace(u, email) ==
    /\ Work /\ ~Live(u)
    /\ rows' = [rows EXCEPT ![u] = NewAccount(email)]
    /\ making' = making \cup {[user |-> u, id |-> work + 1, email |-> email]}
    /\ Overtake(u)
    /\ UNCHANGED <<creds, assigned, permits, locked>> /\ Administer

\* createUser and createEntity, which removes a stub that is in its way.
CreateUser(u, email) ==
    /\ Work /\ ~Live(u)
    /\ rows' = [rows EXCEPT ![u] = NewAccount(email)]
    /\ Cascade(u)
    /\ making' = making \cup {[user |-> u, id |-> work + 1, email |-> email]}
    /\ Overtake(u)
    /\ UNCHANGED <<permits, locked>> /\ Administer

\* Mutant: the id is the address even if there is none.
AddressOf(m) == m.email

\* The id of a credential: the address or, without one, the name.
UserId(m) == IF m.email = None THEN m.user ELSE m.email

\* Mutant: the credential is made under the name whatever the address.
FinishUserByName(m) ==
    /\ making' = making \ {m}
    /\ creds' = creds \cup {[userId |-> m.user, user |-> m.user, id |-> m.id]}
    /\ UNCHANGED <<work, locked, rows, assigned, permits, overtaken>> /\ Administer

\* createCredential, after the account is committed and the password hashed: a
\* row for the path, whosever account is there by then; id: whose password it is.
\* The key may be taken, the account may be gone; a login asks for the address
\* even if there is none.
FinishUser(m) ==
    /\ making' = making \ {m}
    /\ IF rows[m.user].id # 0 /\ ~\E c \in creds : c.userId = UserId(m)
       THEN /\ creds' = creds \cup {[userId |-> UserId(m), user |-> m.user, id |-> m.id]}
            /\ locked' = IF m.email = None THEN locked \cup {m.id} ELSE locked
       ELSE locked' = locked \cup {m.id} /\ UNCHANGED creds
    /\ UNCHANGED <<work, rows, assigned, permits, overtaken>> /\ Administer

\* The process dies, or the database fails, between the two.
LoseUser(m) ==
    /\ making' = making \ {m}
    /\ locked' = locked \cup {m.id}
    /\ UNCHANGED <<work, rows, creds, assigned, permits, overtaken>> /\ Administer

\* edit.html of an account: its credential keeps the old address.
EditUser(u, email, disabled) ==
    /\ Work /\ Live(u) /\ rows[u] # [rows[u] EXCEPT !.email = email, !.disabled = disabled]
    /\ rows' = [rows EXCEPT ![u].email = email, ![u].disabled = disabled]
    /\ locked' = IF email = rows[u].email THEN locked ELSE locked \cup {rows[u].id}
    /\ UNCHANGED <<creds, assigned, permits, making, overtaken>> /\ Administer

\* delete.html: the row becomes a stub, roles and credential stay.
DeleteUser(u) ==
    /\ Work /\ Live(u)
    /\ rows' = [rows EXCEPT ![u].stub = TRUE]
    /\ UNCHANGED <<creds, assigned, permits, making, locked, overtaken>> /\ Administer

\* rm3rm -E.
PurgeUser(u) ==
    /\ Work /\ rows[u].id # 0
    /\ rows' = [rows EXCEPT ![u] = NoAccount]
    /\ Cascade(u)
    /\ UNCHANGED <<permits, making, locked, overtaken>> /\ Administer

---------------------------------------------------------------------------
(* Editors. *)

\* evtTouched is the time at which the entry of a revision is made, before its
\* transaction has its locks; what is published says when it is committed.
Write(entry, revs) ==
    /\ saves + revs <= MaxSaves
    /\ saves' = saves + revs
    /\ log' = log \cup {entry}
    /\ UNCHANGED <<now, work, table, stamp, reused, topCache, accounts, rights,
                   logins, copies, visits>>

HasPage(p) == table[p].rev # 0 /\ ~table[p].stub
NewEntry(p, kind, to, draft) ==
    [page |-> p, kind |-> kind, to |-> to, create |-> ~HasPage(p), draft |-> draft,
     rev |-> saves + 1, touched |-> saves + 1]

\* createEntity and updateEntity, with exec or without.
SavePage(p, draft) == Write(NewEntry(p, "save", p, draft), 1)
DeletePage(p) == HasPage(p) /\ Write(NewEntry(p, "delete", p, FALSE), 1)
\* The second number is the stub's (stubRevisionId).
MovePage(p, to) == HasPage(p) /\ p # to /\ Write(NewEntry(p, "move", to, FALSE), 2)

\* updateEntity with sameRevision, by an editor who has loaded a draft, published
\* meanwhile or not.
SaveAgain(entry) ==
    /\ entry \in log /\ entry.draft /\ saves < MaxSaves
    /\ saves' = saves + 1
    /\ log' = (log \ {entry}) \cup
                 {[entry EXCEPT !.touched = saves + 1,
                                !.create = @ /\ stamp[entry.rev] = 0]}
    /\ UNCHANGED <<now, work, table, stamp, reused, topCache, accounts, rights,
                   logins, copies, visits>>

Late(rev, touched) == stamp[rev] # 0 \/ \E r \in Revs : stamp[r] >= touched
NewRow(rev, touched, stub) ==
    [rev |-> rev, touched |-> touched, stub |-> stub, at |-> now,
     late |-> Late(rev, touched)]

Published(table2, stamp2) ==
    /\ table' = table2 /\ stamp' = stamp2
    /\ reused' = reused \cup {r \in Revs : stamp[r] # 0 /\ stamp2[r] # stamp[r]}
    /\ UNCHANGED <<now, work, saves, log, topCache, accounts, rights,
                   logins, copies, visits>>

\* execLogentry and COMMIT: of an edit that was waiting, of the revision that
\* publish.html names, new or old.  An Update of nothing changes nothing.
PublishSave(entry) ==
    LET old == table[entry.page]
    IN  /\ entry \in log /\ entry.kind = "save"
        /\ IF entry.create THEN old.rev = 0 \/ old.stub ELSE old.rev # 0
        /\ Published([table EXCEPT ![entry.page] = NewRow(entry.rev, entry.touched, FALSE)],
                     [stamp EXCEPT ![entry.rev] = entry.touched])

PublishDelete(entry) ==
    /\ entry \in log /\ entry.kind = "delete" /\ table[entry.page].rev # 0
    /\ Published([table EXCEPT ![entry.page] = NewRow(entry.rev, entry.touched, TRUE)],
                 [stamp EXCEPT ![entry.rev] = entry.touched])

\* The row that moves keeps its `touched'; the stub it leaves is new.
PublishMove(entry) ==
    LET old == table[entry.page]
    IN  /\ entry \in log /\ entry.kind = "move"
        /\ old.rev # 0 /\ table[entry.to].rev = 0
        /\ Published([table EXCEPT ![entry.to] = NewRow(entry.rev, old.touched, old.stub),
                                   ![entry.page] = NewRow(entry.rev + 1, entry.touched, TRUE)],
                     [stamp EXCEPT ![entry.rev] = old.touched,
                                   ![entry.rev + 1] = entry.touched])

\* expungeEntity: the row, and the entries that are in wh_log.
PurgePage(p) ==
    /\ table[p].rev # 0
    /\ table' = [table EXCEPT ![p] = NoRow]
    /\ log' = {e \in log : e.page = p => ~e.draft /\ stamp[e.rev] = 0}
    /\ UNCHANGED <<now, work, saves, stamp, reused, topCache, accounts, rights,
                   logins, copies, visits>>

---------------------------------------------------------------------------
(* Visits. *)

Go(b, v) == visits' = [visits EXCEPT ![b] = v]
Subject(v) == IF v.user = None THEN Nobody ELSE v.user

\* findByUsername.  A deleted account has no address to look a credential up
\* by; the request fails.
FindAccount(b, u, kind) ==
    /\ visits[b].at = "idle" /\ logins[b] = NoLogin /\ Live(u)
    /\ Go(b, [NoVisit EXCEPT !.at = "login", !.kind = kind, !.user = u, !.id = rows[u].id,
                             !.email = rows[u].email, !.disabled = rows[u].disabled])
    /\ UNCHANGED <<now, work, accounts, rights, site, logins, copies>>

\* POST /$login/password, LocalStrategy.
AskForSession(b, u) == FindAccount(b, u, "cookie")

\* POST /$oauth/token with a password.
AskForToken(b, u) == copies[b] = NoCopy /\ FindAccount(b, u, "token")

FindCredential(userId) == {c \in creds : c.userId = userId}

\* authenticatePassword, with the address of the account that was found.
Authenticated(v) == FindCredential(v.email) # {}

FinishLogIn(b, granted) ==
    /\ Go(b, NoVisit)
    /\ logins' = IF granted
                 THEN [logins EXCEPT ![b] = [kind |-> visits[b].kind, user |-> visits[b].user,
                                             id |-> visits[b].id]]
                 ELSE logins
    /\ UNCHANGED <<now, work, accounts, rights, site, copies>>

\* The form asks whether logins to the account are disabled, the exchange
\* does not.
GrantSession(b) ==
    LET v == visits[b]
    IN  /\ v.at = "login" /\ v.kind = "cookie"
        /\ FinishLogIn(b, Authenticated(v) /\ ~v.disabled)

GrantToken(b) ==
    LET v == visits[b]
    IN  /\ v.at = "login" /\ v.kind = "token"
        /\ FinishLogIn(b, Authenticated(v))

LogOut(b) ==
    /\ visits[b].at = "idle" /\ logins[b] # NoLogin
    /\ logins' = [logins EXCEPT ![b] = NoLogin]
    /\ UNCHANGED <<now, work, accounts, rights, site, copies, visits>>

\* What the security routes ask for: get '', edit.html, put tags.cgi and
\* create.html stand for the others, which have the same options.
Options(kind) ==
    CASE kind = "view" -> [auth |-> FALSE, permission |-> "view", effective |-> FALSE]
      [] kind = "edit" -> [auth |-> TRUE, permission |-> "edit", effective |-> FALSE]
      [] kind \in {"tag", "create"} ->
            [auth |-> TRUE, permission |-> None, effective |-> TRUE]

\* create.html has a new entity instead of the one at its path.
First(kind) == IF kind = "create" THEN "again" ELSE "perms"

Enter(b, kind, user, id) ==
    /\ visits[b].at = "idle"
    /\ Go(b, [NoVisit EXCEPT !.at = First(kind), !.kind = kind, !.user = user, !.id = id])
    /\ UNCHANGED <<now, work, accounts, rights, site, copies>>

\* The account at the name, deleted or not, is the one that logged in.
Known(b) == rows[logins[b].user].id = logins[b].id

\* generateAccess without a user.
ArriveAsNobody(b, kind) ==
    /\ logins[b] = NoLogin
    /\ Enter(b, kind, None, 0) /\ UNCHANGED logins

\* Mutant: the account at the name is taken for the one that logged in.
ArriveByName(b, kind) ==
    LET l == logins[b]
    IN  /\ l.kind = "cookie"
        /\ Enter(b, kind, l.user, rows[l.user].id) /\ UNCHANGED logins

\* deserializeUser.  When the account is another one, or gone, passport drops
\* the session and the visitor is nobody.
ArriveBySession(b, kind) ==
    LET l == logins[b]
    IN  /\ l.kind = "cookie"
        /\ IF Known(b)
           THEN Enter(b, kind, l.user, rows[l.user].id) /\ UNCHANGED logins
           ELSE Enter(b, kind, None, 0) /\ logins' = [logins EXCEPT ![b] = NoLogin]

\* BearerStrategy: a token of another account is refused.
ArriveByToken(b, kind) ==
    LET l == logins[b]
    IN  /\ l.kind = "token" /\ Known(b)
        /\ Enter(b, kind, l.user, rows[l.user].id) /\ UNCHANGED logins

\* entityFromPath: first the permissions (fetchEffectivePermissions, from the
\* cache or the tables); with none the answer is 403.
WithPermissions(v, perms) ==
    IF perms = {} THEN NoVisit ELSE [v EXCEPT !.at = "entity", !.may = perms]

FetchPermissions(b) ==
    LET v == visits[b]
        s == Subject(v)
    IN  /\ v.at = "perms"
        /\ Go(b, IF Hit(s) THEN WithPermissions(v, permCache[s].perms)
                 ELSE [v EXCEPT !.at = "asked", !.may = Effective(s), !.since = now])
        /\ UNCHANGED <<now, work, accounts, rights, site, logins, copies>>

PermissionsAreHere(b) ==
    LET v == visits[b]
    IN  /\ v.at = "asked"
        /\ permCache' = Cached(Subject(v), v.may, v.since)
        /\ Go(b, WithPermissions(v, v.may))
        /\ UNCHANGED <<now, work, accounts, permits, turned, site, logins, copies>>

\* authorize({requiresAuth, permission}), with the permissions that were fetched
\* with the page.
Allowed(v) == LET o == Options(v.kind)
              IN  /\ o.auth => v.user # None
                  /\ o.permission # None => o.permission \in v.may

\* ... then the page, and the check of its handler.  Forms are not cached: an
\* edit is answered here.
FetchEntity(b) ==
    LET v == visits[b] IN
    /\ v.at = "entity"
    /\ Go(b, CASE ~Allowed(v) \/ ~HasPage(Home) -> NoVisit
               [] Allowed(v) /\ Options(v.kind).effective -> [v EXCEPT !.at = "again"]
               [] Allowed(v) /\ v.kind = "view" ->
                     [v EXCEPT !.at = "fresh", !.rev = table[Home].rev]
               [] OTHER -> NoVisit)
    /\ UNCHANGED <<now, work, accounts, rights, site, logins, copies>>

\* authorize({requiresAuth, effectivePermission: 'edit'}).
CheckAgain(b) ==
    LET v == visits[b] IN
    /\ v.at = "again"
    /\ Go(b, IF v.user = None \/ Hit(v.user) THEN NoVisit
             ELSE [v EXCEPT !.at = "asked again", !.may = Effective(v.user), !.since = now])
    /\ UNCHANGED <<now, work, accounts, rights, site, logins, copies>>

AgainIsHere(b) ==
    LET v == visits[b]
    IN  /\ v.at = "asked again"
        /\ permCache' = Cached(v.user, v.may, v.since)
        /\ Go(b, NoVisit)
        /\ UNCHANGED <<now, work, accounts, permits, turned, site, logins, copies>>

\* Mutant: the login is left out of the tag.
TagOfRevisions(b, rev, top) == <<rev, top>>

\* smartEtag: the page's revision, the site's, and whose session it is.
Tag(b, rev, top) ==
    <<rev, top>> \o (IF logins[b].kind = "cookie" THEN <<logins[b].user, logins[b].id>>
                     ELSE <<>>)

\* _fetchMostRecentChange: the revision of a row that was touched last.
TopRevs == {table[p].rev : p \in {q \in Pages :
               table[q].rev # 0 /\ \A r \in Pages : table[r].touched <= table[q].touched}}
TopHit == topCache.until > now

\* _mapFreshness.  A browser whose copy has the tag keeps it (304).
Confirms(b, top) == copies[b].tag = Tag(b, visits[b].rev, top)
WithTop(b, top) ==
    Go(b, IF Confirms(b, top) THEN NoVisit ELSE [visits[b] EXCEPT !.at = "render", !.top = top])

\* Mutant: the cached change has no time to live.
FreshenOnce(b) ==
    LET v == visits[b] IN
    /\ v.at = "fresh"
    /\ IF topCache.until # 0 THEN WithTop(b, topCache.top)
       ELSE \E top \in TopRevs : Go(b, [v EXCEPT !.at = "dated", !.top = top, !.since = now])
    /\ UNCHANGED <<now, work, accounts, rights, site, logins, copies>>

\* fetchMostRecentChange, from the cache or from the tables; of an empty site
\* there is none, which is an error.
Freshen(b) ==
    LET v == visits[b] IN
    /\ v.at = "fresh"
    /\ \/ TopHit /\ WithTop(b, topCache.top)
       \/ ~TopHit /\ TopRevs = {} /\ Go(b, NoVisit)
       \/ ~TopHit /\ \E top \in TopRevs :
             Go(b, [v EXCEPT !.at = "dated", !.top = top, !.since = now])
    /\ UNCHANGED <<now, work, accounts, rights, site, logins, copies>>

TopIsHere(b) ==
    LET v == visits[b] IN
    /\ v.at = "dated"
    /\ topCache' = [top |-> v.top, until |-> now + ChangeTTL, took |-> now - v.since]
    /\ WithTop(b, v.top)
    /\ UNCHANGED <<now, work, accounts, rights, pages, logins, copies>>

\* _mapView: navbar and lists are read now.  Clients with a token keep no copy.
Render(b) ==
    LET v == visits[b] IN
    /\ v.at = "render"
    /\ Go(b, NoVisit)
    /\ copies' = IF logins[b].kind = "token" THEN copies
                 ELSE [copies EXCEPT ![b] =
                          [tag |-> Tag(b, v.rev, v.top), rev |-> v.rev,
                           shown |-> [p \in Pages |-> table[p].rev], reader |-> v.id]]
    /\ UNCHANGED <<now, work, accounts, rights, site, logins>>

Tick ==
    /\ now < MaxTime
    /\ now' = now + 1
    /\ UNCHANGED <<work, accounts, rights, site, logins, copies, visits>>

---------------------------------------------------------------------------
Init ==
    /\ now = 0 /\ work = 0
    /\ rows = [u \in Users |-> NoAccount]
    /\ creds = {} /\ assigned = {} /\ making = {} /\ locked = {} /\ overtaken = {}
    /\ permits = Granted
    /\ permCache = [s \in Subjects |-> [until |-> 0, perms |-> {}, took |-> 0]]
    /\ turned = [s \in Subjects |-> [p \in Perms |-> 0]]
    /\ saves = 1 /\ reused = {}
    /\ table = [p \in Pages |-> IF p = Home THEN [NoRow EXCEPT !.rev = 1, !.touched = 1]
                                ELSE NoRow]
    /\ log = {[page |-> Home, kind |-> "save", to |-> Home, create |-> TRUE,
                draft |-> FALSE, rev |-> 1, touched |-> 1]}
    /\ stamp = [r \in Revs |-> IF r = 1 THEN 1 ELSE 0]
    /\ topCache = [top |-> 0, until |-> 0, took |-> 0]
    /\ logins = [b \in Browsers |-> NoLogin]
    /\ copies = [b \in Browsers |-> NoCopy]
    /\ visits = [b \in Browsers |-> NoVisit]

Administration ==
    \/ \E x \in Variable : Permit(x) \/ Deny(x)
    \/ \E u \in Users, r \in Roles : Assign(u, r) \/ Deassign(u, r)
    \/ \E u \in Users, e \in Emails \cup {None} :
          CreateUser(u, e) \/ \E d \in BOOLEAN : EditUser(u, e, d)
    \/ \E m \in making : FinishUser(m) \/ LoseUser(m)
    \/ \E u \in Users : DeleteUser(u) \/ PurgeUser(u)

Editing ==
    \/ \E p \in Pages : \/ DeletePage(p) \/ PurgePage(p)
                        \/ \E draft \in BOOLEAN : SavePage(p, draft)
                        \/ \E to \in Pages : MovePage(p, to)
    \/ \E e \in log : \/ SaveAgain(e)
                      \/ PublishSave(e) \/ PublishDelete(e) \/ PublishMove(e)

Visiting(b) ==
    \/ \E u \in Users : AskForSession(b, u) \/ AskForToken(b, u)
    \/ GrantSession(b) \/ GrantToken(b) \/ LogOut(b)
    \/ \E kind \in {"view", "edit", "tag", "create"} :
          ArriveAsNobody(b, kind) \/ ArriveBySession(b, kind) \/ ArriveByToken(b, kind)
    \/ FetchPermissions(b) \/ PermissionsAreHere(b) \/ FetchEntity(b)
    \/ CheckAgain(b) \/ AgainIsHere(b) \/ Freshen(b) \/ TopIsHere(b) \/ Render(b)

Next == Administration \/ Editing \/ Tick \/ \E b \in Browsers : Visiting(b)

Spec == Init /\ [][Next]_vars

---------------------------------------------------------------------------
(* Properties. *)

TypeOK ==
    /\ now \in 0..MaxTime /\ work \in Ids
    /\ rows \in [Users -> Account]
    /\ creds \subseteq [userId : Users \cup Emails, user : Users, id : Ids]
    /\ assigned \subseteq [user : Users, role : Roles, id : Ids]
    /\ permits \subseteq (Roles \cup {Nobody}) \X Perms
    /\ making \subseteq [user : Users, id : Ids, email : Emails \cup {None}]
    /\ permCache \in [Subjects -> [until : Nat, perms : SUBSET Perms, took : Nat]]
    /\ saves \in Revs /\ table \in [Pages -> Row] /\ log \subseteq Entry
    /\ stamp \in [Revs -> Revs] /\ reused \subseteq Revs
    /\ topCache \in [top : Revs, until : Nat, took : Nat]
    /\ logins \in [Browsers -> Login]
    /\ visits \in [Browsers -> Visit]
    /\ turned \in [Subjects -> [Perms -> 0..MaxTime]]
    /\ locked \subseteq Ids /\ overtaken \subseteq [id : Ids, by : Ids]

\* A visit runs as the very account that logged in, never as one that was made
\* later under the same name (deserializeUser and validateUserAudience compare
\* entityIds).
IdentityIsOwn ==
    \A b \in Browsers : visits[b].user # None => visits[b].id = logins[b].id \/
                                                 visits[b].at = "login"

\* Roles and passwords belong to the account that has the name now: none
\* outlives its account and falls to the next one (ON DELETE CASCADE), but for a
\* password that was still being hashed when the next one was made.
RightsEndWithAccount ==
    /\ \A a \in assigned : rows[a.user].id = a.id
    /\ \A c \in creds : \/ rows[c.user].id = c.id
                        \/ [id |-> c.id, by |-> rows[c.user].id] \in overtaken

\* Permissions a visit is given, or refused, are those of the tables, or were
\* when their query was made: as long ago as the answer took and, when it comes
\* from the cache, the life of an entry (fetchEffectivePermissions).
PermissionsRecent ==
    [][\A b \in Browsers, p \in Perms :
          LET v == visits[b]
              s == Subject(v)
              hit == v.at \in {"perms", "again"} /\ Hit(s)
              given == IF hit THEN permCache[s].perms ELSE v.may
              lag == IF hit THEN Lifetime(given) + permCache[s].took ELSE now - v.since
          IN  /\ hit \/ v.at \in {"asked", "asked again"}
              /\ visits'[b] # v
              => \/ (p \in given) = (p \in Effective(s))
                 \/ turned[s][p] + lag >= now]_vars

\* A browser is told to keep its copy (304); of which most recent change, and how
\* long ago can it have been asked for?
Keeps(b) == /\ visits'[b].at = "idle"
            /\ \/ visits[b].at = "dated"
               \/ visits[b].at = "fresh" /\ (TopHit \/ TopRevs # {})
TopOf(b) == IF visits[b].at = "fresh" THEN topCache.top ELSE visits[b].top
TopAge(b) == IF visits[b].at = "fresh" THEN ChangeTTL + topCache.took
             ELSE now - visits[b].since

\* A copy that is kept shows the revision of the page that was found to the reader
\* it was made for.  Of the rows that are in the site, lists included, it misses
\* only those that came after the query for the most recent change, as long ago as
\* the answer took and the life of a cache entry; those that came late, touched no
\* later than something published before (an old draft, an edit that waited for a
\* lock, a page that was moved); or, when the revision that the tag has for the most
\* recent change was published a second time, any (_mapFreshness, smartEtag).
\* It may go on showing what was purged.
NotModifiedIsTrue ==
    [][\A b \in Browsers : Keeps(b) =>
          /\ copies[b].rev = visits[b].rev /\ copies[b].reader = visits[b].id
          /\ \A p \in Pages :
                \/ copies[b].shown[p] = table[p].rev \/ table[p].rev = 0
                \/ table[p].at + TopAge(b) >= now
                \/ table[p].late \/ TopOf(b) \in reused]_vars

\* An account that was made with an address, keeps it and whose credential was
\* stored can log in, with its password (createCredential, authenticatePassword).
AccountsCanLogIn ==
    \A u \in Users :
        Live(u) /\ rows[u].id \notin locked /\ (\A m \in making : m.id # rows[u].id)
        => \E c \in creds : c.userId = rows[u].email /\ c.user = u /\ c.id = rows[u].id

=============================================================================
